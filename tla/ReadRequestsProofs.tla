------------------------- MODULE ReadRequestsProofs -------------------------
(***************************************************************************)
(* Proof that the read requests implement ReadContract, for any number of  *)
(* calls, lists of ids, statements, connections and writes of the          *)
(* messenger, any lengths of blocks, digests and keys, and any hash that   *)
(* makes digests of bytes.                                                 *)
(*                                                                         *)
(* The invariant says of each stage of a call what the statements so far   *)
(* have settled: what has been found may be told, and for each id that has *)
(* been asked for and not found there is a row that was not there all the  *)
(* time.  Both only become truer while the messenger writes, since the     *)
(* rows that were there at some time grow and those that were there all    *)
(* the time shrink (WriteKeeps).                                           *)
(*                                                                         *)
(* That texts can be read rests on the derivation of keys: the digit by    *)
(* digit addition of the code is the addition of numbers of RFC 7292       *)
(* (AddDigestSum), so that round by round both hash the same blocks        *)
(* (RoundsAgree).                                                          *)
(***************************************************************************)
EXTENDS ReadRequests, FiniteSetTheorems, FunctionTheorems, SequenceTheorems,
        WellFoundedInduction, TLAPS

MemberStages == {"own", "user", "friends", "open_chat_member", "collect"}

\* The members a call looks up.
Listed(q) == IF q.kind = "users" THEN q.ids ELSE Rooms[q.channel].display

\* Ids whose turn is over, and that were not found.
Missed(t) == ToSet(ids[t]) \ (todo[t] \cup fetched[t] \cup FoundIds(t))

\* Where a call can be, and on which list it works there.
PlaceInv(t) ==
    /\ stage[t] \in MemberStages =>
        /\ request[t].kind \in {"users", "channel"}
        /\ ids[t] = Listed(request[t])
        /\ request[t].kind = "channel" =>
            NamedByMembers(Channel(t)) /\ <<"chat_rooms", Channel(t)>> \in ever[t]
    /\ stage[t] \in {"chat_logs", "map"} =>
        request[t].kind = "messages" /\ ids[t] = request[t].ids
    /\ stage[t] \in {"chat_rooms", "open_link"} => request[t].kind = "channel"
    /\ stage[t] = "open_link" =>
        Rooms[Channel(t)].om /\ <<"chat_rooms", Channel(t)>> \in ever[t]
    /\ stage[t] = "members" => request[t].kind = "members"
    /\ stage[t] = "raw" => request[t].kind = "raw"
    /\ stage[t] = "decrypt" => request[t].kind = "decrypt" /\ ids[t] = request[t].ids
    /\ stage[t] \in {"device", "aot"} => request[t].kind = "credential"
    /\ stage[t] = "device" => ids[t] = <<>>
    /\ stage[t] = "aot" => Len(ids[t]) = 1 /\ <<"device", ids[t][1]>> \in ever[t]

\* What becomes of a text that was encrypted with this type for this user.
Shown(enc, user) ==
    IF ValidEnc(enc) THEN With(DeriveKey[Salt(enc, user)], Salt(enc, user)) ELSE "same"

\* What members were found may be told.
TellInv(t) ==
    stage[t] \in MemberStages => \A entry \in found[t] :
        /\ Contract!MayTell(Channel(t), entry.id, entry.from, always[t], ever[t])
        /\ entry.text = IF entry.from \in Contract!Encrypted
                        THEN Shown(EncOf[entry.id], Self) ELSE "clear"

\* Which of them may be missed.
MissInv(t) ==
    /\ stage[t] \in MemberStages \ {"own"} =>
        Self \notin todo[t] \cup fetched[t] \cup Missed(t)
    /\ stage[t] \in {"user", "friends"} => ~IsOpen(t)
    /\ stage[t] = "user" => \A id \in Missed(t) : <<"user", id>> \notin always[t]
    /\ stage[t] = "friends" =>
        \A id \in todo[t] \cup fetched[t] \cup Missed(t) : <<"user", id>> \notin always[t]
    /\ stage[t] = "open_chat_member" => IsOpen(t)
    /\ stage[t] \in {"friends", "open_chat_member"} =>
        /\ \A id \in fetched[t] : <<stage[t], id>> \in ever[t]
        /\ \A id \in Missed(t) : Contract!MayMiss(Channel(t), id, always[t])
    /\ stage[t] = "collect" =>
        \A id \in ToSet(ids[t]) \ FoundIds(t) : Contract!MayMiss(Channel(t), id, always[t])

MessageInv(t) ==
    /\ stage[t] \in {"chat_logs", "map"} => \A entry \in found[t] :
        /\ entry.from = "chat_logs" /\ entry.text = "clear"
        /\ <<"chat_logs", entry.id>> \in ever[t] /\ ChannelOf[entry.id] = Channel(t)
    /\ stage[t] = "chat_logs" => \A id \in Missed(t) :
        <<"chat_logs", id>> \notin always[t] \/ ChannelOf[id] # Channel(t)
    /\ stage[t] = "map" => ToSet(ids[t]) \subseteq FoundIds(t)

\* The sets a call works with.
WorkInv(t) ==
    /\ stage[t] = "idle" <=> t \notin asked
    /\ stage[t] = "done" <=> answer[t] # <<>>
    /\ todo[t] \cup fetched[t] \cup FoundIds(t) \subseteq ToSet(ids[t])
    /\ \A e, f \in found[t] : e.id = f.id => e = f
    /\ stage[t] \in {"idle", "own", "chat_rooms"} => found[t] = {}
    /\ stage[t] = "own" => todo[t] = ToSet(ids[t])
    /\ stage[t] \notin {"friends", "open_chat_member", "done"} => fetched[t] = {}

TaskInv(t) == PlaceInv(t) /\ TellInv(t) /\ MissInv(t) /\ MessageInv(t) /\ WorkInv(t)

HistoryInv ==
    /\ \A t \in Tasks : always[t] \subseteq present
    /\ \A t \in asked : present \subseteq ever[t]

TypeInv ==
    /\ present \in SUBSET Rows /\ moving \in SUBSET Rows /\ writes \in 0..MaxWrites
    /\ request \in [Tasks -> Requests]
    /\ asked \in SUBSET Tasks
    /\ holding \in SUBSET asked /\ IsFiniteSet(holding) /\ Cardinality(holding) <= PoolSize
    /\ stage \in [Tasks -> Stages]
    /\ ids \in [Tasks -> Seq(Nat)]
    /\ todo \in [Tasks -> SUBSET Nat] /\ fetched \in [Tasks -> SUBSET Nat]
    /\ found \in [Tasks -> SUBSET Entries]
    /\ answer = [t \in Tasks |-> answer[t]]
    /\ always \in [Tasks -> SUBSET Rows] /\ ever \in [Tasks -> SUBSET Rows]
    /\ broke \in SUBSET Tasks

CacheInv ==
    /\ DOMAIN keys \subseteq Salts
    /\ keys = [salt \in DOMAIN keys |-> DeriveKey[salt]]
    /\ mutex \in Tasks \cup {Nobody}

\* A raw query that is not well formed is answered before it has a connection.
HoldingInv == \A t \in holding : stage[t] = "raw" => WellFormed(request[t])

IInv == TypeInv /\ HistoryInv /\ CacheInv /\ HoldingInv /\ \A t \in Tasks : TaskInv(t)
-----------------------------------------------------------------------------
(* Constants and requests.                                                 *)

LEMMA RequestFact ==
  ASSUME NEW q \in Requests
  PROVE  /\ q \in Calls
         /\ q.kind \in {"users", "decrypt"} => ToSet(q.ids) \subseteq Ids
         /\ q.kind = "messages" => ToSet(q.ids) \subseteq Messages
         /\ q.kind = "decrypt" => Len(q.ids) = 1
         /\ q.kind = "credential" => q.ids = <<>>
  BY InputsAreRequests DEF Requests

LEMMA SeqOfIds ==
  ASSUME NEW list \in Seq(Ids)
  PROVE  list \in Seq(Nat) /\ ToSet(list) \subseteq Ids
<1>1. Len(list) \in Nat /\ DOMAIN list = 1..Len(list)
  OBVIOUS
<1>2. \A i \in 1..Len(list) : list[i] \in Ids
  OBVIOUS
<1>3. list = [i \in 1..Len(list) |-> list[i]]
  BY <1>1
<1>4. list \in [1..Len(list) -> Nat]
  BY <1>2, <1>3, ReadConstants
<1> QED
  BY <1>1, <1>2, <1>4, SeqDef DEF ToSet

LEMMA RoomFact ==
  ASSUME NEW c \in Channels
  PROVE  /\ Rooms[c].om \in BOOLEAN /\ Rooms[c].named \in BOOLEAN
         /\ Rooms[c].display \in Seq(Ids) /\ Rooms[c].display \in Seq(Nat)
         /\ ToSet(Rooms[c].display) \subseteq Ids
<1>1. Rooms[c] \in [om : BOOLEAN, named : BOOLEAN, display : Seq(Ids)]
  BY ReadConstants
<1>2. Rooms[c].display \in Seq(Ids)
  BY <1>1
<1> QED
  BY <1>1, <1>2, SeqOfIds

LEMMA RowFact ==
  /\ \A table \in {"user", "friends", "open_chat_member"}, id \in Ids : <<table, id>> \in Rows
  /\ \A row \in Rows : row = <<row[1], row[2]>>
  BY DEF Rows

LEMMA EntryFact ==
  ASSUME NEW id \in Nat, NEW text \in {"clear", "same", "wrong"},
         NEW from \in {"own", "decrypt", "user", "friends", "open_chat_member",
                       "chat_rooms", "open_link", "open_profile", "chat_logs"},
         from = "chat_logs" => Messages # {},
         from \in {"chat_rooms", "open_link", "open_profile"} => Channels # {}
  PROVE  Entry(id, from, text) \in Entries
<1>1. from \in {"own", "decrypt"} \cup {row[1] : row \in Rows}
  <2>1. CASE from \in {"own", "decrypt"}
    BY <2>1
  <2>2. CASE from \in {"user", "friends", "open_chat_member"}
    <3>1. <<from, Self>> \in Rows /\ <<from, Self>>[1] = from
      BY <2>2, ReadConstants DEF Rows
    <3> QED
      BY <3>1
  <2>3. CASE from \in {"chat_rooms", "open_link", "open_profile"}
    <3>1. PICK c \in Channels : TRUE
      BY <2>3
    <3>2. <<from, c>> \in Rows /\ <<from, c>>[1] = from
      BY <2>3 DEF Rows
    <3> QED
      BY <3>2
  <2>4. CASE from = "chat_logs"
    <3>1. PICK m \in Messages : TRUE
      BY <2>4
    <3>2. <<from, m>> \in Rows /\ <<from, m>>[1] = from
      BY <2>4 DEF Rows
    <3> QED
      BY <3>2
  <2> QED
    BY <2>1, <2>2, <2>3, <2>4
<1> QED
  BY <1>1 DEF Entry, Entries

-----------------------------------------------------------------------------
(* One task.                                                               *)

\* A step of t leaves the other tasks alone.
Only(t) ==
    /\ stage' = [stage EXCEPT ![t] = stage'[t]]
    /\ ids' = [ids EXCEPT ![t] = ids'[t]]
    /\ todo' = [todo EXCEPT ![t] = todo'[t]]
    /\ fetched' = [fetched EXCEPT ![t] = fetched'[t]]
    /\ found' = [found EXCEPT ![t] = found'[t]]
    /\ answer' = [answer EXCEPT ![t] = answer'[t]]
    /\ always' = [always EXCEPT ![t] = always'[t]]
    /\ ever' = [ever EXCEPT ![t] = ever'[t]]
    /\ asked' \ {t} = asked \ {t}
    /\ request' = request

LEMMA OnlyKeeps ==
  ASSUME TypeInv, NEW t \in Tasks, Only(t), NEW u \in Tasks \ {t}, TaskInv(u)
  PROVE  TaskInv(u)'
<1>1. /\ stage'[u] = stage[u] /\ ids'[u] = ids[u] /\ todo'[u] = todo[u]
      /\ fetched'[u] = fetched[u] /\ found'[u] = found[u] /\ answer'[u] = answer[u]
      /\ always'[u] = always[u] /\ ever'[u] = ever[u] /\ request'[u] = request[u]
      /\ u \in asked' <=> u \in asked
  BY DEF Only, TypeInv
<1>2. FoundIds(u)' = FoundIds(u)
  BY <1>1 DEF FoundIds
<1>3. Missed(u)' = Missed(u)
  BY <1>1, <1>2 DEF Missed
<1>4. PlaceInv(u)'
  BY <1>1 DEF TaskInv, PlaceInv, Channel
<1>5. TellInv(u)'
  BY <1>1 DEF TaskInv, TellInv, Channel
<1>6. MissInv(u)'
  BY <1>1, <1>2, <1>3 DEF TaskInv, MissInv, Channel, IsOpen
<1>7. MessageInv(u)'
  BY <1>1, <1>2, <1>3 DEF TaskInv, MessageInv, Channel
<1>8. WorkInv(u)'
  BY <1>1, <1>2, <1>3 DEF TaskInv, WorkInv
<1> QED
  BY <1>4, <1>5, <1>6, <1>7, <1>8 DEF TaskInv

LEMMA OthersKeep ==
  ASSUME TypeInv, \A u \in Tasks : TaskInv(u), NEW t \in Tasks, Only(t), TaskInv(t)'
  PROVE  \A u \in Tasks : TaskInv(u)'
<1> SUFFICES ASSUME NEW u \in Tasks PROVE TaskInv(u)'
  OBVIOUS
<1> QED
  BY OnlyKeeps

\* Of a call that has its answer nothing is left to say.
LEMMA DoneKeeps ==
  ASSUME TypeInv, NEW t \in asked, WorkInv(t), stage'[t] = "done", answer'[t] # <<>>,
         t \in asked', ToSet(ids[t]) \subseteq ToSet(ids'[t]),
         todo'[t] = todo[t], fetched'[t] = fetched[t], found'[t] = found[t]
  PROVE  TaskInv(t)'
<1>1. FoundIds(t)' = FoundIds(t)
  BY DEF FoundIds
<1>2. WorkInv(t)'
  BY <1>1 DEF WorkInv
<1>3. PlaceInv(t)' /\ TellInv(t)' /\ MissInv(t)' /\ MessageInv(t)'
  BY DEF PlaceInv, TellInv, MissInv, MessageInv, MemberStages
<1> QED
  BY <1>2, <1>3 DEF TaskInv

\* The entries of one table, and the ids of a set of entries.
FromTable(table, S, text) == {Entry(id, table, text) : id \in S}
IdsOf(entries) == {entry.id : entry \in entries}

\* Entries of one table are told apart by their ids.
LEMMA TableFact ==
  ASSUME NEW table, NEW S, NEW text
  PROVE  /\ \A entry \in FromTable(table, S, text) :
                entry.id \in S /\ entry.from = table /\ entry.text = text
         /\ \A e, f \in FromTable(table, S, text) : e.id = f.id => e = f
         /\ IdsOf(FromTable(table, S, text)) = S
<1> DEFINE entries == FromTable(table, S, text)
<1>1. \A id : /\ Entry(id, table, text).id = id /\ Entry(id, table, text).from = table
              /\ Entry(id, table, text).text = text
  BY DEF Entry
<1>2. \A entry \in entries : entry.id \in S /\ entry = Entry(entry.id, table, text)
  BY <1>1 DEF FromTable
<1>3. \A id \in S : Entry(id, table, text) \in entries
  BY DEF FromTable
<1> HIDE DEF entries
<1>4. \A entry \in entries : entry.from = table /\ entry.text = text
  BY <1>1, <1>2
<1>5. \A e, f \in entries : e.id = f.id => e = f
  BY <1>2, Zenon
<1>6. \A id \in S : \E entry \in entries : entry.id = id
  BY <1>1, <1>3
<1>7. IdsOf(entries) = S
  BY <1>2, <1>6 DEF IdsOf
<1> USE DEF entries
<1> QED
  BY <1>2, <1>4, <1>5, <1>7

\* What Put makes of the map of what was found.
LEMMA PutFact ==
  ASSUME TypeInv, NEW t \in Tasks, NEW entries \in SUBSET Entries, Put(t, entries),
         \A e, f \in found[t] : e.id = f.id => e = f,
         \A e, f \in entries : e.id = f.id => e = f
  PROVE  /\ found' = [found EXCEPT ![t] = found'[t]]
         /\ found' \in [Tasks -> SUBSET Entries]
         /\ found'[t] \subseteq found[t] \cup entries
         /\ \A e, f \in found'[t] : e.id = f.id => e = f
         /\ FoundIds(t)' = FoundIds(t) \cup IdsOf(entries)
<1> DEFINE new == {old \in found[t] : \A entry \in entries : entry.id # old.id} \cup entries
<1>1. found' = [found EXCEPT ![t] = new] /\ found'[t] = new
  BY DEF Put, TypeInv
<1>2. new \subseteq found[t] \cup entries /\ found[t] \subseteq Entries
  BY DEF TypeInv
<1>3. found' = [found EXCEPT ![t] = found'[t]] /\ found' \in [Tasks -> SUBSET Entries]
  BY <1>1, <1>2 DEF TypeInv
<1>4. \A e, f \in new : e.id = f.id => e = f
  OBVIOUS
<1>5. FoundIds(t)' = {entry.id : entry \in new}
  BY <1>1 DEF FoundIds
<1>6. {entry.id : entry \in new} = {entry.id : entry \in found[t]} \cup {entry.id : entry \in entries}
  OBVIOUS
<1> QED
  BY <1>1, <1>2, <1>3, <1>4, <1>5, <1>6 DEF FoundIds, IdsOf

-----------------------------------------------------------------------------
(* The messenger writes.                                                   *)

\* All that is said of rows stays true when fewer have been there all the
\* time, and more at some time.
LEMMA WriteKeeps ==
  ASSUME IInv, NEW now \in SUBSET Rows, Changed(now), NEW t \in Tasks
  PROVE  TaskInv(t)'
<1>1. /\ stage' = stage /\ ids' = ids /\ todo' = todo /\ fetched' = fetched
      /\ found' = found /\ answer' = answer /\ request' = request /\ asked' = asked
      /\ always'[t] \subseteq always[t] /\ ever[t] \subseteq ever'[t]
  BY DEF Changed, workVars, IInv, TypeInv
<1>2. FoundIds(t)' = FoundIds(t) /\ Missed(t)' = Missed(t)
  BY <1>1 DEF FoundIds, Missed
<1>3. TaskInv(t)
  BY DEF IInv
<1>4. PlaceInv(t)'
  BY <1>1, <1>3 DEF TaskInv, PlaceInv, Channel
<1>5. TellInv(t)'
  <2>1. \A c, id, from : Contract!MayTell(c, id, from, always[t], ever[t])
          => Contract!MayTell(c, id, from, always'[t], ever'[t])
    BY <1>1 DEF Contract!MayTell
  <2> QED
    BY <1>1, <1>3, <2>1 DEF TaskInv, TellInv, Channel
<1>6. MissInv(t)'
  <2>1. \A c, id : Contract!MayMiss(c, id, always[t]) => Contract!MayMiss(c, id, always'[t])
    BY <1>1 DEF Contract!MayMiss
  <2> QED
    BY <1>1, <1>2, <1>3, <2>1 DEF TaskInv, MissInv, Channel, IsOpen
<1>7. MessageInv(t)'
  BY <1>1, <1>2, <1>3 DEF TaskInv, MessageInv, Channel
<1>8. WorkInv(t)'
  BY <1>1, <1>2, <1>3 DEF TaskInv, WorkInv
<1> QED
  BY <1>4, <1>5, <1>6, <1>7, <1>8 DEF TaskInv

-----------------------------------------------------------------------------
(* Answers.                                                                *)

LEMMA Given ==
  ASSUME NEW ans
  PROVE  <<ans>> # <<>>
  OBVIOUS

LEMMA AskedFact ==
  ASSUME IInv, NEW t \in Tasks, stage[t] # "idle"
  PROVE  t \in asked
  BY DEF IInv, TaskInv, WorkInv

LEMMA HoldingFact ==
  ASSUME TypeInv, NEW t
  PROVE  /\ holding \ {t} \in SUBSET asked /\ IsFiniteSet(holding \ {t})
         /\ Cardinality(holding \ {t}) <= PoolSize
<1>1. IsFiniteSet(holding \ {t}) /\ Cardinality(holding \ {t}) <= Cardinality(holding)
  BY FS_Subset DEF TypeInv
<1>2. Cardinality(holding \ {t}) \in Nat /\ Cardinality(holding) \in Nat
  BY <1>1, FS_CardinalityType DEF TypeInv
<1> QED
  BY <1>1, <1>2, ReadConstants DEF TypeInv

\* An answer; only a credential has an id appended on the way.
LEMMA ReturnKeeps ==
  ASSUME IInv, NEW t \in Tasks, stage[t] # "idle", NEW ans, Return(t, ans),
         UNCHANGED <<dataVars, asked, todo, fetched, found, always, ever>>,
         broke' \in SUBSET Tasks,
         ids' \in [Tasks -> Seq(Nat)], ids' = [ids EXCEPT ![t] = ids'[t]],
         ToSet(ids[t]) \subseteq ToSet(ids'[t])
  PROVE  TypeInv' /\ Only(t) /\ TaskInv(t)' /\ answer'[t] = <<ans>>
<1>1. TypeInv /\ WorkInv(t) /\ t \in asked
  BY AskedFact DEF IInv, TaskInv
<1>2. /\ stage' = [stage EXCEPT ![t] = "done"] /\ answer' = [answer EXCEPT ![t] = <<ans>>]
      /\ stage'[t] = "done" /\ answer'[t] = <<ans>> /\ holding' = holding \ {t}
  BY <1>1 DEF Return, TypeInv
<1>3. stage' \in [Tasks -> Stages]
  BY <1>1, <1>2 DEF TypeInv, Stages
<1>4. answer' = [u \in Tasks |-> answer'[u]]
  BY <1>1, <1>2 DEF TypeInv
<1>5. TypeInv'
  BY <1>1, <1>2, <1>3, <1>4, HoldingFact DEF TypeInv, dataVars
<1>6. Only(t)
  BY <1>1, <1>2 DEF Only, TypeInv, dataVars
<1>7. TaskInv(t)'
  <2>1. /\ t \in asked' /\ todo'[t] = todo[t] /\ fetched'[t] = fetched[t]
        /\ found'[t] = found[t]
    BY <1>1
  <2>2. answer'[t] # <<>>
    <3>1. answer'[t] = <<ans>>
      BY <1>2
    <3> QED
      BY <3>1, Given
  <2> QED
    BY <1>1, <1>2, <2>1, <2>2, DoneKeeps
<1> QED
  BY <1>2, <1>5, <1>6, <1>7

LEMMA AnswerKeeps ==
  ASSUME IInv, NEW t \in Tasks, stage[t] # "idle", NEW ans, Return(t, ans),
         UNCHANGED <<dataVars, asked, ids, todo, fetched, found, always, ever>>,
         broke' \in SUBSET Tasks
  PROVE  TypeInv' /\ Only(t) /\ TaskInv(t)' /\ answer'[t] = <<ans>>
<1>1. ids' \in [Tasks -> Seq(Nat)] /\ ids' = [ids EXCEPT ![t] = ids'[t]]
  BY DEF IInv, TypeInv
<1> QED
  BY <1>1, ReturnKeeps

LEMMA AtOnceKeeps ==
  ASSUME IInv, NEW t \in Tasks, AnswerAtOnce(t)
  PROVE  TypeInv' /\ Only(t) /\ TaskInv(t)'
<1>1. PICK ans : Return(t, ans)
  BY DEF AnswerAtOnce
<1> QED
  BY <1>1, AnswerKeeps DEF AnswerAtOnce, At, histVars, IInv, TypeInv

LEMMA BreaksKeeps ==
  ASSUME IInv, NEW t \in Tasks, Breaks(t)
  PROVE  TypeInv' /\ Only(t) /\ TaskInv(t)'
<1>1. stage[t] # "idle"
  BY DEF Breaks, NeedsConnection, OnConnection
<1> QED
  BY <1>1, AnswerKeeps DEF Breaks, IInv, TypeInv

LEMMA NoProfileKeeps ==
  ASSUME IInv, NEW t \in Tasks, NoProfile(t)
  PROVE  TypeInv' /\ Only(t) /\ TaskInv(t)'
  BY AnswerKeeps DEF NoProfile, Query, At, histVars, IInv, TypeInv

LEMMA CollectKeeps ==
  ASSUME IInv, NEW t \in Tasks, Collect(t)
  PROVE  TypeInv' /\ Only(t) /\ TaskInv(t)'
<1>1. PICK ans : Return(t, ans)
  BY DEF Collect
<1> QED
  BY <1>1, AnswerKeeps DEF Collect, Query, At, histVars, IInv, TypeInv

LEMMA NoRowKeeps ==
  ASSUME IInv, NEW t \in Tasks, NEW table \in {"chat_rooms", "open_link"}, NoRow(t, table)
  PROVE  TypeInv' /\ Only(t) /\ TaskInv(t)'
  BY AnswerKeeps DEF NoRow, Query, At, histVars, IInv, TypeInv

LEMMA ChannelMembersKeeps ==
  ASSUME IInv, NEW t \in Tasks, ChannelMembers(t)
  PROVE  TypeInv' /\ Only(t) /\ TaskInv(t)'
<1>1. PICK ans : Return(t, ans)
  BY DEF ChannelMembers
<1> QED
  BY <1>1, AnswerKeeps DEF ChannelMembers, Query, At, histVars, IInv, TypeInv

LEMMA OpenLinkKeeps ==
  ASSUME IInv, NEW t \in Tasks, OpenLink(t)
  PROVE  TypeInv' /\ Only(t) /\ TaskInv(t)'
  BY AnswerKeeps DEF OpenLink, Query, At, histVars, IInv, TypeInv

LEMMA MapMessagesKeeps ==
  ASSUME IInv, NEW t \in Tasks, MapMessages(t)
  PROVE  TypeInv' /\ Only(t) /\ TaskInv(t)'
  BY AnswerKeeps DEF MapMessages, Query, At, histVars, IInv, TypeInv

LEMMA RawQueryKeeps ==
  ASSUME IInv, NEW t \in Tasks, RawQuery(t)
  PROVE  TypeInv' /\ Only(t) /\ TaskInv(t)'
<1>1. PICK ans : Return(t, ans)
  BY DEF RawQuery
<1> QED
  BY <1>1, AnswerKeeps DEF RawQuery, Query, At, histVars, IInv, TypeInv

-----------------------------------------------------------------------------
(* A call begins, and waits for its connection.                            *)

LEMMA AskKeeps ==
  ASSUME IInv, NEW t \in Tasks, Ask(t)
  PROVE  TypeInv' /\ Only(t) /\ TaskInv(t)'
<1> DEFINE q == request[t]
<1>1. TypeInv /\ TaskInv(t) /\ WorkInv(t) /\ q \in Requests
  BY DEF IInv, TypeInv, TaskInv
<1>2. /\ q \in Calls /\ q.kind \in Kinds /\ q.ids \in Seq(Nat)
      /\ q.kind = "credential" => q.ids = <<>>
  BY <1>1, RequestFact DEF Calls
<1>3. ToSet(q.ids) \subseteq Nat
  BY <1>2 DEF ToSet
<1>4. /\ stage[t] = "idle" /\ found[t] = {} /\ fetched[t] = {} /\ answer[t] = <<>>
  BY <1>1 DEF Ask, WorkInv
<1>5. /\ stage' = [stage EXCEPT ![t] = FirstStage[q.kind]] /\ ids' = [ids EXCEPT ![t] = q.ids]
      /\ todo' = [todo EXCEPT ![t] = ToSet(q.ids)] /\ asked' = asked \cup {t}
      /\ always' = [always EXCEPT ![t] = present] /\ ever' = [ever EXCEPT ![t] = present]
      /\ holding' = holding /\ fetched' = fetched /\ found' = found /\ answer' = answer
      /\ broke' = broke /\ present' = present /\ moving' = moving /\ request' = request
      /\ writes' = writes
  BY DEF Ask, Enter, dataVars
<1>6. /\ stage'[t] = FirstStage[q.kind] /\ ids'[t] = q.ids /\ todo'[t] = ToSet(q.ids)
      /\ found'[t] = {} /\ fetched'[t] = {} /\ answer'[t] = <<>> /\ t \in asked'
      /\ request'[t] = q
  BY <1>1, <1>4, <1>5 DEF TypeInv
<1>7. /\ q.kind = "users" => stage'[t] = "own"
      /\ q.kind = "messages" => stage'[t] = "chat_logs"
      /\ q.kind = "members" => stage'[t] = "members"
      /\ q.kind = "channel" => stage'[t] = "chat_rooms"
      /\ q.kind = "raw" => stage'[t] = "raw"
      /\ q.kind = "credential" => stage'[t] = "device"
      /\ q.kind = "decrypt" => stage'[t] = "decrypt"
  BY <1>6 DEF FirstStage
<1> HIDE DEF q
<1>8. stage'[t] \in Stages
  BY <1>2, <1>7 DEF Stages, Kinds
<1>9. TypeInv'
  BY <1>1, <1>2, <1>3, <1>5, <1>6, <1>8 DEF TypeInv
<1>10. Only(t)
  BY <1>1, <1>5 DEF Only, TypeInv
<1>11. FoundIds(t)' = {} /\ Missed(t)' = {}
  BY <1>6 DEF FoundIds, Missed
<1>12. PlaceInv(t)'
  BY <1>2, <1>6, <1>7 DEF PlaceInv, Kinds, MemberStages, Listed
<1>13. TellInv(t)' /\ MessageInv(t)'
  BY <1>2, <1>6, <1>7, <1>11 DEF TellInv, MessageInv, Kinds
<1>14. MissInv(t)'
  BY <1>2, <1>7 DEF MissInv, Kinds, MemberStages
<1>15. WorkInv(t)'
  BY <1>2, <1>6, <1>7, <1>11 DEF WorkInv, Kinds
<1> QED
  BY <1>9, <1>10, <1>12, <1>13, <1>14, <1>15 DEF TaskInv

LEMMA AcquireKeeps ==
  ASSUME IInv, NEW t \in Tasks, Acquire(t)
  PROVE  TypeInv' /\ Only(t) /\ TaskInv(t)'
<1>1. TypeInv /\ TaskInv(t)
  BY DEF IInv
<1>2. /\ UNCHANGED <<present, moving, request, writes, asked, stage, ids, todo, fetched, found,
                     answer, always, ever, broke>>
      /\ holding' = holding \cup {t} /\ t \notin holding
  BY DEF Acquire, dataVars, workVars, histVars
<1>3. t \in asked
  BY AskedFact DEF Acquire, NeedsConnection, OnConnection
<1>4. IsFiniteSet(holding') /\ Cardinality(holding') = Cardinality(holding) + 1
  BY <1>1, <1>2, FS_AddElement DEF TypeInv
<1>5. Cardinality(holding') <= PoolSize
  BY <1>1, <1>4, FS_CardinalityType, ReadConstants DEF Acquire, TypeInv
<1>6. TypeInv'
  BY <1>1, <1>2, <1>3, <1>4, <1>5 DEF TypeInv
<1>7. Only(t)
  BY <1>1, <1>2 DEF Only, TypeInv
<1>8. FoundIds(t)' = FoundIds(t) /\ Missed(t)' = Missed(t)
  BY <1>2 DEF FoundIds, Missed
<1>9. TaskInv(t)'
  BY <1>1, <1>2, <1>8 DEF TaskInv, PlaceInv, TellInv, MissInv, MessageInv, WorkInv, Channel,
     IsOpen
<1> QED
  BY <1>6, <1>7, <1>9

-----------------------------------------------------------------------------
(* The look-up of members.                                                 *)

LEMMA ChannelFact ==
  ASSUME IInv, NEW t \in Tasks
  PROVE  /\ request[t] \in Requests /\ Channel(t) \in Channels
         /\ IsOpen(t) <=> Contract!IsOpen(Channel(t))
<1>1. request[t] \in Requests
  BY DEF IInv, TypeInv
<1> QED
  BY <1>1, RequestFact DEF Calls, Channel, IsOpen, Contract!IsOpen

\* What was there a moment ago was there at some time, and what was not has
\* not been there all the time.
LEMMA NowFact ==
  ASSUME IInv, NEW t \in Tasks, stage[t] # "idle"
  PROVE  always[t] \subseteq present /\ present \subseteq ever[t]
  BY AskedFact DEF IInv, HistoryInv

LEMMA OwnKeeps ==
  ASSUME IInv, NEW t \in Tasks, Own(t)
  PROVE  TypeInv' /\ Only(t) /\ TaskInv(t)'
<1> DEFINE next == IF IsOpen(t) THEN "open_chat_member" ELSE "user"
           from == IF IsOpen(t) THEN "open_profile" ELSE "own"
           me   == Entry(Self, from, "clear")
<1>1. TypeInv /\ TaskInv(t) /\ stage[t] = "own"
  BY DEF IInv, Own, Query, At
<1>2. /\ stage' = [stage EXCEPT ![t] = next] /\ todo' = [todo EXCEPT ![t] = @ \ {Self}]
      /\ UNCHANGED <<present, moving, request, writes, asked, holding, ids, fetched, answer,
                     always, ever, broke>>
  BY DEF Own, dataVars, histVars
<1>3. /\ stage'[t] = next /\ todo'[t] = todo[t] \ {Self}
      /\ stage' \in [Tasks -> Stages] /\ todo' \in [Tasks -> SUBSET Nat]
      /\ stage' = [stage EXCEPT ![t] = stage'[t]] /\ todo' = [todo EXCEPT ![t] = todo'[t]]
  BY <1>1, <1>2 DEF TypeInv, Stages
<1>4. found[t] = {} /\ fetched[t] = {} /\ todo[t] = ToSet(ids[t]) /\ FoundIds(t) = {}
  BY <1>1 DEF TaskInv, WorkInv, FoundIds
<1>5. me \in Entries
  BY EntryFact, ReadConstants, ChannelFact
<1>6. /\ found' \in [Tasks -> SUBSET Entries] /\ found' = [found EXCEPT ![t] = found'[t]]
      /\ found'[t] \subseteq {me} /\ FoundIds(t)' = todo[t] \cap {Self}
      /\ found'[t] # {} /\ IsOpen(t) => <<"open_profile", Channel(t)>> \in present
  <2>1. CASE Self \notin todo[t]
    <3>1. found' = found
      BY <2>1 DEF Own
    <3> QED
      BY <1>1, <1>4, <2>1, <3>1 DEF TypeInv, FoundIds
  <2>2. CASE Self \in todo[t]
    <3>1. /\ Put(t, {me})
          /\ IsOpen(t) => <<"open_profile", Channel(t)>> \in present
      BY <2>2 DEF Own
    <3>2. {me} \in SUBSET Entries /\ IdsOf({me}) = {Self}
      BY <1>5 DEF Entry, IdsOf
    <3> HIDE DEF me
    <3>3. /\ found' \in [Tasks -> SUBSET Entries] /\ found' = [found EXCEPT ![t] = found'[t]]
          /\ found'[t] \subseteq found[t] \cup {me}
          /\ FoundIds(t)' = FoundIds(t) \cup IdsOf({me})
      <4>1. /\ \A e, f \in found[t] : e.id = f.id => e = f
            /\ \A e, f \in {me} : e.id = f.id => e = f
        BY <1>4
      <4> QED
        BY <1>1, <3>1, <3>2, <4>1, PutFact
    <3> QED
      BY <1>4, <2>2, <3>1, <3>2, <3>3
  <2> QED
    BY <2>1, <2>2
<1>7. TypeInv'
  BY <1>1, <1>2, <1>3, <1>6 DEF TypeInv
<1>8. Only(t)
  BY <1>1, <1>2, <1>3, <1>6 DEF Only, TypeInv
<1>9. Missed(t)' = {}
  BY <1>2, <1>3, <1>4, <1>6 DEF Missed
<1>10. PlaceInv(t)'
  BY <1>1, <1>2, <1>3 DEF TaskInv, PlaceInv, MemberStages, Channel
<1>11. TellInv(t)'
  <2> SUFFICES ASSUME NEW entry \in found'[t]
               PROVE  /\ Contract!MayTell(Channel(t), entry.id, entry.from, always[t], ever[t])
                      /\ entry.text = IF entry.from \in Contract!Encrypted
                                      THEN Shown(EncOf[entry.id], Self) ELSE "clear"
    BY <1>2, <1>3 DEF TellInv, Channel
  <2>1. entry = me /\ entry.id = Self /\ entry.from = from /\ entry.text = "clear"
    BY <1>6 DEF Entry
  <2>2. IsOpen(t) => <<"open_profile", Channel(t)>> \in ever[t]
    BY <1>1, <1>6, NowFact
  <2> QED
    BY <2>1, <2>2, ChannelFact DEF Contract!MayTell, Contract!Encrypted
<1>12. MissInv(t)'
  BY <1>2, <1>3, <1>4, <1>9 DEF MissInv, MemberStages, IsOpen, Channel
<1>13. MessageInv(t)'
  BY <1>3 DEF MessageInv
<1>14. WorkInv(t)'
  <2>1. \A e, f \in found'[t] : e.id = f.id => e = f
    BY <1>6
  <2> QED
    BY <1>1, <1>2, <1>3, <1>4, <1>6, <2>1 DEF TaskInv, WorkInv
<1> QED
  BY <1>7, <1>8, <1>10, <1>11, <1>12, <1>13, <1>14 DEF TaskInv

LEMMA ChunkFact ==
  ASSUME NEW S, NEW chunk \in Chunks(S)
  PROVE  chunk \subseteq S
  BY DEF Chunks, kSubset

\* A statement on table user: its rows are found at once.
LEMMA LoadUsersKeeps ==
  ASSUME IInv, NEW t \in Tasks, LoadChunk(t, "user")
  PROVE  TypeInv' /\ Only(t) /\ TaskInv(t)'
<1>1. /\ TypeInv /\ TaskInv(t) /\ stage[t] = "user" /\ ~IsOpen(t) /\ fetched[t] = {}
      /\ todo[t] \subseteq Nat
  BY DEF IInv, LoadChunk, Query, At, TypeInv, TaskInv, MissInv
<1>2. PICK chunk \in Chunks(todo[t]) :
        /\ todo' = [todo EXCEPT ![t] = @ \ chunk]
        /\ Put(t, FromTable("user", {x \in chunk : <<"user", x>> \in present}, "clear"))
  <2>1. PICK chunk \in Chunks(todo[t]) :
          LET there == {id \in chunk : /\ <<"user", id>> \in present
                                       /\ IsOpen(t) => <<"chat_rooms", Channel(t)>> \in present}
          IN  /\ todo' = [todo EXCEPT ![t] = @ \ chunk]
              /\ Put(t, {Entry(id, "user", "clear") : id \in there})
    BY DEF LoadChunk
  <2>2. {id \in chunk : /\ <<"user", id>> \in present
                        /\ IsOpen(t) => <<"chat_rooms", Channel(t)>> \in present}
          = {x \in chunk : <<"user", x>> \in present}
    BY <1>1
  <2> QED
    BY <2>1, <2>2 DEF FromTable
<1> DEFINE there   == {x \in chunk : <<"user", x>> \in present}
           entries == FromTable("user", there, "clear")
<1>3. chunk \subseteq todo[t]
  BY ChunkFact
<1>4. /\ UNCHANGED <<present, moving, request, writes, asked, holding, stage, ids, fetched,
                     answer, always, ever, broke>>
  BY DEF LoadChunk, dataVars, histVars
<1>5. /\ todo'[t] = todo[t] \ chunk /\ todo' \in [Tasks -> SUBSET Nat]
      /\ todo' = [todo EXCEPT ![t] = todo'[t]]
  BY <1>1, <1>2 DEF TypeInv
<1>6. /\ \A entry \in entries : /\ entry.id \in there /\ entry.from = "user"
                                /\ entry.text = "clear"
      /\ \A e, f \in entries : e.id = f.id => e = f
      /\ IdsOf(entries) = there
  BY TableFact
<1>7. entries \in SUBSET Entries
  BY <1>1, <1>3, EntryFact DEF FromTable
<1>8. /\ found' = [found EXCEPT ![t] = found'[t]] /\ found' \in [Tasks -> SUBSET Entries]
      /\ found'[t] \subseteq found[t] \cup entries
      /\ \A e, f \in found'[t] : e.id = f.id => e = f
      /\ FoundIds(t)' = FoundIds(t) \cup there
  <2>1. \A e, f \in found[t] : e.id = f.id => e = f
    BY <1>1 DEF TaskInv, WorkInv
  <2>2. Put(t, entries)
    BY <1>2
  <2> HIDE DEF entries, there
  <2> QED
    BY <1>1, <1>6, <1>7, <2>1, <2>2, PutFact
<1> HIDE DEF entries
<1>9. TypeInv'
  BY <1>1, <1>4, <1>5, <1>8 DEF TypeInv
<1>10. Only(t)
  BY <1>1, <1>4, <1>5, <1>8 DEF Only, TypeInv
<1>11. Missed(t)' \subseteq Missed(t) \cup (chunk \ there)
  BY <1>4, <1>5, <1>8 DEF Missed
<1>12. \A id \in chunk \ there : id # Self /\ <<"user", id>> \notin always[t]
  BY <1>1, <1>3, NowFact DEF TaskInv, MissInv, MemberStages
<1>13. PlaceInv(t)'
  BY <1>1, <1>4 DEF TaskInv, PlaceInv, Channel
<1>14. TellInv(t)'
  <2> SUFFICES ASSUME NEW entry \in entries
               PROVE  /\ Contract!MayTell(Channel(t), entry.id, entry.from, always[t], ever[t])
                      /\ entry.text = IF entry.from \in Contract!Encrypted
                                      THEN Shown(EncOf[entry.id], Self) ELSE "clear"
    BY <1>1, <1>4, <1>8 DEF TaskInv, TellInv, Channel
  <2>1. entry.id # Self /\ <<"user", entry.id>> \in ever[t]
    BY <1>1, <1>3, <1>6, NowFact DEF TaskInv, MissInv, MemberStages
  <2> QED
    BY <1>1, <1>6, <2>1, ChannelFact DEF Contract!MayTell, Contract!Encrypted
<1>15. MissInv(t)'
  BY <1>1, <1>3, <1>4, <1>5, <1>11, <1>12 DEF TaskInv, MissInv, MemberStages, IsOpen, Channel
<1>16. MessageInv(t)'
  BY <1>1, <1>4 DEF MessageInv
<1>17. WorkInv(t)'
  BY <1>1, <1>3, <1>4, <1>5, <1>8 DEF TaskInv, WorkInv
<1> QED
  BY <1>9, <1>10, <1>13, <1>14, <1>15, <1>16, <1>17 DEF TaskInv

\* A statement on a table with encrypted texts: its rows are still to be
\* decrypted.
LEMMA LoadRowsKeeps ==
  ASSUME IInv, NEW t \in Tasks, NEW table \in {"friends", "open_chat_member"},
         LoadChunk(t, table)
  PROVE  TypeInv' /\ Only(t) /\ TaskInv(t)'
<1>1. /\ TypeInv /\ TaskInv(t) /\ stage[t] = table /\ fetched[t] = {}
      /\ todo[t] \subseteq Nat
  BY DEF IInv, LoadChunk, Query, At, TypeInv
<1> DEFINE There(chunk) ==
        {id \in chunk : /\ <<table, id>> \in present
                        /\ IsOpen(t) => <<"chat_rooms", Channel(t)>> \in present}
<1>2. PICK chunk \in Chunks(todo[t]) :
        /\ todo' = [todo EXCEPT ![t] = @ \ chunk]
        /\ fetched' = [fetched EXCEPT ![t] = There(chunk)]
        /\ found' = found
  BY DEF LoadChunk
<1>3. chunk \subseteq todo[t]
  BY ChunkFact
<1>4. /\ UNCHANGED <<present, moving, request, writes, asked, holding, stage, ids, found,
                     answer, always, ever, broke>>
  BY <1>2 DEF LoadChunk, dataVars, histVars
<1>5. /\ todo'[t] = todo[t] \ chunk /\ todo' \in [Tasks -> SUBSET Nat]
      /\ todo' = [todo EXCEPT ![t] = todo'[t]]
      /\ fetched'[t] = There(chunk) /\ fetched' \in [Tasks -> SUBSET Nat]
      /\ fetched' = [fetched EXCEPT ![t] = fetched'[t]]
  BY <1>1, <1>2, <1>3 DEF TypeInv
<1>6. TypeInv'
  BY <1>1, <1>4, <1>5 DEF TypeInv
<1>7. Only(t)
  BY <1>1, <1>4, <1>5 DEF Only, TypeInv
<1>8. FoundIds(t)' = FoundIds(t)
  BY <1>4 DEF FoundIds
<1>9. Missed(t)' \subseteq Missed(t) \cup (chunk \ There(chunk))
  BY <1>1, <1>4, <1>5, <1>8 DEF Missed
<1>10. /\ Self \notin todo[t] \cup Missed(t) /\ (IsOpen(t) <=> table = "open_chat_member")
       /\ table = "friends" =>
            \A id \in todo[t] \cup Missed(t) : <<"user", id>> \notin always[t]
       /\ \A id \in Missed(t) : Contract!MayMiss(Channel(t), id, always[t])
  BY <1>1 DEF TaskInv, MissInv, MemberStages
<1>11. \A id \in chunk \ There(chunk) : Contract!MayMiss(Channel(t), id, always[t])
  <2> SUFFICES ASSUME NEW id \in chunk, id \notin There(chunk)
               PROVE  Contract!MayMiss(Channel(t), id, always[t])
    OBVIOUS
  <2>1. id # Self
    BY <1>3, <1>10
  <2>2. CASE IsOpen(t)
    <3>1. ~({<<"open_chat_member", id>>, <<"chat_rooms", Channel(t)>>} \subseteq always[t])
      BY <1>1, <1>10, <2>2, NowFact
    <3> QED
      BY <2>1, <2>2, <3>1, ChannelFact DEF Contract!MayMiss
  <2>3. CASE ~IsOpen(t)
    <3>1. <<"friends", id>> \notin always[t] /\ <<"user", id>> \notin always[t]
      BY <1>1, <1>3, <1>10, <2>3, NowFact
    <3>2. {<<"user", id>>, <<"friends", id>>} \cap always[t] = {}
      BY <3>1
    <3> QED
      BY <2>1, <2>3, <3>2, ChannelFact DEF Contract!MayMiss
  <2> QED
    BY <2>2, <2>3
<1>12. \A id \in There(chunk) : <<table, id>> \in ever[t]
  BY <1>1, NowFact
<1>13. PlaceInv(t)'
  BY <1>1, <1>4 DEF TaskInv, PlaceInv, Channel
<1>14. TellInv(t)' /\ MessageInv(t)'
  BY <1>1, <1>4 DEF TaskInv, TellInv, MessageInv, Channel
<1>15. MissInv(t)'
  BY <1>1, <1>3, <1>4, <1>5, <1>9, <1>10, <1>11, <1>12
     DEF MissInv, MemberStages, IsOpen, Channel
<1>16. WorkInv(t)'
  BY <1>1, <1>3, <1>4, <1>5, <1>8 DEF TaskInv, WorkInv
<1> QED
  BY <1>6, <1>7, <1>13, <1>14, <1>15, <1>16 DEF TaskInv

LEMMA UserDoneKeeps ==
  ASSUME IInv, NEW t \in Tasks, UserDone(t)
  PROVE  TypeInv' /\ Only(t) /\ TaskInv(t)'
<1>1. /\ TypeInv /\ TaskInv(t) /\ stage[t] = "user" /\ todo[t] = {} /\ fetched[t] = {}
  BY DEF IInv, UserDone, Query, At, TaskInv, WorkInv
<1>2. /\ stage' = [stage EXCEPT ![t] = "friends"]
      /\ todo' = [todo EXCEPT ![t] = ToSet(ids[t]) \ FoundIds(t)]
      /\ UNCHANGED <<present, moving, request, writes, asked, holding, ids, fetched, found,
                     answer, always, ever, broke>>
  BY DEF UserDone, dataVars, histVars
<1>3. ToSet(ids[t]) \subseteq Nat
  BY <1>1 DEF TypeInv, ToSet
<1>4. /\ stage'[t] = "friends" /\ stage' \in [Tasks -> Stages]
      /\ stage' = [stage EXCEPT ![t] = stage'[t]]
      /\ todo'[t] = ToSet(ids[t]) \ FoundIds(t) /\ todo' \in [Tasks -> SUBSET Nat]
      /\ todo' = [todo EXCEPT ![t] = todo'[t]]
  BY <1>1, <1>2, <1>3 DEF TypeInv, Stages
<1>5. TypeInv'
  BY <1>1, <1>2, <1>4 DEF TypeInv
<1>6. Only(t)
  BY <1>1, <1>2, <1>4 DEF Only, TypeInv
<1>7. FoundIds(t)' = FoundIds(t) /\ Missed(t)' = {} /\ todo'[t] = Missed(t)
  BY <1>1, <1>2, <1>4 DEF FoundIds, Missed
<1>8. PlaceInv(t)'
  BY <1>1, <1>2, <1>4 DEF TaskInv, PlaceInv, MemberStages, Channel
<1>9. TellInv(t)' /\ MessageInv(t)'
  BY <1>1, <1>2, <1>4 DEF TaskInv, TellInv, MessageInv, MemberStages, Channel
<1>10. MissInv(t)'
  BY <1>1, <1>2, <1>4, <1>7 DEF TaskInv, MissInv, MemberStages, IsOpen, Channel
<1>11. WorkInv(t)'
  BY <1>1, <1>2, <1>4, <1>7 DEF TaskInv, WorkInv
<1> QED
  BY <1>5, <1>6, <1>8, <1>9, <1>10, <1>11 DEF TaskInv

LEMMA LoadDoneKeeps ==
  ASSUME IInv, NEW t \in Tasks, NEW table \in {"friends", "open_chat_member"},
         LoadDone(t, table)
  PROVE  TypeInv' /\ Only(t) /\ TaskInv(t)'
<1>1. /\ TypeInv /\ TaskInv(t) /\ stage[t] = table /\ todo[t] = {} /\ fetched[t] = {}
  BY DEF IInv, LoadDone, Query, At
<1>2. /\ stage' = [stage EXCEPT ![t] = "collect"]
      /\ UNCHANGED <<present, moving, request, writes, asked, holding, ids, todo, fetched,
                     found, answer, always, ever, broke>>
  BY DEF LoadDone, Advance, dataVars, histVars
<1>3. /\ stage'[t] = "collect" /\ stage' \in [Tasks -> Stages]
      /\ stage' = [stage EXCEPT ![t] = stage'[t]]
  BY <1>1, <1>2 DEF TypeInv, Stages
<1>4. TypeInv'
  BY <1>1, <1>2, <1>3 DEF TypeInv
<1>5. Only(t)
  BY <1>1, <1>2, <1>3 DEF Only, TypeInv
<1>6. /\ FoundIds(t)' = FoundIds(t) /\ Missed(t)' = Missed(t)
      /\ Missed(t) = ToSet(ids[t]) \ FoundIds(t)
  BY <1>1, <1>2 DEF FoundIds, Missed
<1>7. PlaceInv(t)'
  BY <1>1, <1>2, <1>3 DEF TaskInv, PlaceInv, MemberStages, Channel
<1>8. TellInv(t)' /\ MessageInv(t)'
  BY <1>1, <1>2, <1>3 DEF TaskInv, TellInv, MessageInv, MemberStages, Channel
<1>9. MissInv(t)'
  BY <1>1, <1>2, <1>3, <1>6 DEF TaskInv, MissInv, MemberStages, IsOpen, Channel
<1>10. WorkInv(t)'
  BY <1>1, <1>2, <1>3, <1>6 DEF TaskInv, WorkInv
<1> QED
  BY <1>4, <1>5, <1>7, <1>8, <1>9, <1>10 DEF TaskInv

-----------------------------------------------------------------------------
(* Decryption.                                                             *)

LEMMA WantedFact ==
  ASSUME IInv, NEW t \in Tasks, NEW id, Decrypting(t, id)
  PROVE  /\ id \in Ids
         /\ Wanted(t, id)[1] \in Nat /\ Wanted(t, id)[2] \in Ids
         /\ stage[t] \in {"decrypt", "friends", "open_chat_member"}
         /\ stage[t] # "decrypt" => /\ id \in fetched[t] /\ id # Self
                                    /\ <<stage[t], id>> \in ever[t]
                                    /\ Wanted(t, id) = <<EncOf[id], Self>>
<1>1. TypeInv /\ TaskInv(t) /\ request[t] \in Requests
  BY DEF IInv, TypeInv
<1>2. CASE stage[t] = "decrypt"
  <2>1. /\ id = request[t].ids[1] /\ Len(request[t].ids) = 1 /\ request[t].ids \in Seq(Nat)
        /\ ToSet(request[t].ids) \subseteq Ids /\ request[t].enc \in Nat
    BY <1>1, <1>2, RequestFact DEF Decrypting, At, TaskInv, PlaceInv, Calls
  <2>2. 1 \in DOMAIN request[t].ids
    BY <2>1
  <2>3. id \in Ids
    BY <2>1, <2>2 DEF ToSet
  <2> QED
    BY <1>2, <2>1, <2>3 DEF Wanted, At
<1>3. CASE stage[t] # "decrypt"
  <2>1. stage[t] \in {"friends", "open_chat_member"} /\ id \in fetched[t]
    BY <1>3 DEF Decrypting, At
  <2>2. <<stage[t], id>> \in ever[t] /\ id # Self
    BY <1>1, <2>1 DEF TaskInv, MissInv, MemberStages
  <2>3. <<stage[t], id>> \in Rows
    BY <1>1, <2>2 DEF TypeInv
  <2>4. id \in Ids
    BY <2>1, <2>3 DEF Rows
  <2> QED
    BY <1>3, <2>1, <2>2, <2>4, ReadConstants DEF Wanted, At
<1> QED
  BY <1>2, <1>3

LEMMA ShownFact ==
  ASSUME NEW enc, NEW user
  PROVE  Shown(enc, user) \in {"clear", "same", "wrong"}
  BY DEF Shown, With

LEMMA TakeKeeps ==
  ASSUME IInv, NEW t \in Tasks, NEW id, Decrypting(t, id),
         Take(t, id, Shown(Wanted(t, id)[1], Wanted(t, id)[2])),
         UNCHANGED <<dataVars, asked, ids, todo, histVars>>
  PROVE  TypeInv' /\ Only(t) /\ TaskInv(t)'
<1>1. TypeInv /\ TaskInv(t)
  BY DEF IInv
<1>2. CASE stage[t] = "decrypt"
  <2>1. PICK ans : Return(t, ans) /\ UNCHANGED <<fetched, found>>
    BY <1>2 DEF Take, At
  <2> QED
    BY <1>1, <1>2, <2>1, AnswerKeeps DEF histVars, TypeInv
<1>3. CASE stage[t] # "decrypt"
  <2> DEFINE from == stage[t]
             text == Shown(EncOf[id], Self)
             entry == Entry(id, from, text)
  <2>1. /\ id \in Ids /\ id # Self /\ id \in fetched[t] /\ from \in {"friends", "open_chat_member"}
        /\ <<from, id>> \in ever[t] /\ Wanted(t, id) = <<EncOf[id], Self>>
    BY <1>3, WantedFact
  <2>2. /\ fetched' = [fetched EXCEPT ![t] = @ \ {id}]
        /\ Put(t, {entry})
        /\ UNCHANGED <<present, moving, request, writes, asked, holding, stage, ids, todo,
                       answer, always, ever, broke>>
    BY <1>3, <2>1 DEF Take, At, dataVars, histVars
  <2>3. /\ fetched'[t] = fetched[t] \ {id} /\ fetched' \in [Tasks -> SUBSET Nat]
        /\ fetched' = [fetched EXCEPT ![t] = fetched'[t]]
    BY <1>1, <2>2 DEF TypeInv
  <2>4. entry.id = id /\ entry.from = from /\ entry.text = text
    BY DEF Entry
  <2>5. entry \in Entries
    BY <2>1, EntryFact, ShownFact, ReadConstants
  <2> HIDE DEF entry
  <2>6. /\ found' = [found EXCEPT ![t] = found'[t]] /\ found' \in [Tasks -> SUBSET Entries]
        /\ found'[t] \subseteq found[t] \cup {entry}
        /\ \A e, f \in found'[t] : e.id = f.id => e = f
        /\ FoundIds(t)' = FoundIds(t) \cup {id}
    <3>1. /\ \A e, f \in found[t] : e.id = f.id => e = f
          /\ \A e, f \in {entry} : e.id = f.id => e = f
      BY <1>1 DEF TaskInv, WorkInv
    <3>2. IdsOf({entry}) = {id} /\ {entry} \in SUBSET Entries
      BY <2>4, <2>5 DEF IdsOf
    <3>3. Put(t, {entry})
      BY <2>2
    <3> QED
      BY <1>1, <3>1, <3>2, <3>3, PutFact
  <2>7. TypeInv'
    BY <1>1, <2>2, <2>3, <2>6 DEF TypeInv
  <2>8. Only(t)
    BY <1>1, <2>2, <2>3, <2>6 DEF Only, TypeInv
  <2>9. Missed(t)' \subseteq Missed(t)
    BY <2>2, <2>3, <2>6 DEF Missed
  <2>10. PlaceInv(t)'
    BY <1>1, <2>1, <2>2 DEF TaskInv, PlaceInv, Channel
  <2>11. TellInv(t)'
    <3>1. Contract!MayTell(Channel(t), id, from, always[t], ever[t])
      <4>1. from = "friends" => ~IsOpen(t) /\ <<"user", id>> \notin always[t]
        BY <1>1, <2>1 DEF TaskInv, MissInv
      <4>2. from = "open_chat_member" => IsOpen(t)
        BY <1>1 DEF TaskInv, MissInv
      <4> QED
        BY <2>1, <4>1, <4>2, ChannelFact DEF Contract!MayTell
    <3>2. entry.text = IF entry.from \in Contract!Encrypted
                       THEN Shown(EncOf[entry.id], Self) ELSE "clear"
      BY <2>1, <2>4 DEF Contract!Encrypted
    <3> QED
      BY <1>1, <2>1, <2>2, <2>4, <2>6, <3>1, <3>2 DEF TaskInv, TellInv, MemberStages, Channel
  <2>12. MissInv(t)'
    BY <1>1, <2>1, <2>2, <2>3, <2>9 DEF TaskInv, MissInv, MemberStages, IsOpen, Channel
  <2>13. MessageInv(t)'
    BY <2>1, <2>2 DEF MessageInv
  <2>14. WorkInv(t)'
    BY <1>1, <2>1, <2>2, <2>3, <2>6 DEF TaskInv, WorkInv
  <2> QED
    BY <2>7, <2>8, <2>10, <2>11, <2>12, <2>13, <2>14 DEF TaskInv
<1> QED
  BY <1>2, <1>3

LEMMA SaltFact ==
  ASSUME IInv, NEW t \in Tasks, NEW id, Decrypting(t, id), ValidEnc(Wanted(t, id)[1])
  PROVE  SaltFor(t, id) \in Salts
<1>1. Wanted(t, id)[1] \in Nat /\ Wanted(t, id)[2] \in DOMAIN Digits
  BY WantedFact, ReadConstants
<1>2. Len(Prefix) \in Nat
  BY DecryptorConstants
<1>3. Wanted(t, id)[1] \in 0..(Len(Prefix) - 1)
  BY <1>1, <1>2 DEF ValidEnc
<1> QED
  BY <1>1, <1>3 DEF Salts, SaltFor

\* The keys in the cache are derived ones, whichever thread inserts them.
LEMMA DecryptKeeps ==
  ASSUME IInv, NEW t \in Tasks, Decrypt(t)
  PROVE  TypeInv' /\ Only(t) /\ TaskInv(t)' /\ CacheInv'
<1> DEFINE T(id)    == Shown(Wanted(t, id)[1], Wanted(t, id)[2])
           Same     == UNCHANGED <<dataVars, asked, ids, todo, histVars>>
<1>1. CacheInv
  BY DEF IInv
<1>2. ASSUME NEW id, DecryptInvalid(t, id)
      PROVE  TypeInv' /\ Only(t) /\ TaskInv(t)' /\ CacheInv'
  <2>1. Decrypting(t, id) /\ Take(t, id, T(id)) /\ Same
    BY <1>2 DEF DecryptInvalid, Shown
  <2>2. CacheInv'
    BY <1>1, <1>2 DEF DecryptInvalid, CacheInv, cacheVars
  <2> QED
    BY <2>1, <2>2, TakeKeeps
<1>3. ASSUME NEW id, DecryptHit(t, id)
      PROVE  TypeInv' /\ Only(t) /\ TaskInv(t)' /\ CacheInv'
  <2>1. keys[SaltFor(t, id)] = DeriveKey[SaltFor(t, id)]
    BY <1>1, <1>3 DEF DecryptHit, Hit, CacheInv
  <2>2. Decrypting(t, id) /\ Take(t, id, T(id)) /\ Same
    BY <1>3, <2>1 DEF DecryptHit, Shown, SaltFor
  <2>3. CacheInv'
    BY <1>1, <1>3 DEF DecryptHit, CacheInv, cacheVars
  <2> QED
    BY <2>2, <2>3, TakeKeeps
<1>4. ASSUME NEW id, DecryptMiss(t, id)
      PROVE  TypeInv' /\ Only(t) /\ TaskInv(t)' /\ CacheInv'
  <2>1. /\ UNCHANGED <<present, moving, request, writes, asked, holding, stage, ids, todo,
                       fetched, found, answer, always, ever, broke>>
        /\ TypeInv /\ TaskInv(t)
    BY <1>4 DEF DecryptMiss, dataVars, workVars, histVars, IInv
  <2>2. TypeInv'
    BY <2>1 DEF TypeInv
  <2>3. Only(t)
    BY <2>1 DEF Only, TypeInv
  <2>4. FoundIds(t)' = FoundIds(t) /\ Missed(t)' = Missed(t)
    BY <2>1 DEF FoundIds, Missed
  <2>5. TaskInv(t)'
    BY <2>1, <2>4 DEF TaskInv, PlaceInv, TellInv, MissInv, MessageInv, WorkInv, Channel, IsOpen
  <2>6. CacheInv'
    BY <1>1, <1>4 DEF DecryptMiss, Miss, CacheInv
  <2> QED
    BY <2>2, <2>3, <2>5, <2>6
<1>5. ASSUME NEW id, DecryptInsert(t, id)
      PROVE  TypeInv' /\ Only(t) /\ TaskInv(t)' /\ CacheInv'
  <2>1. Decrypting(t, id) /\ Take(t, id, T(id)) /\ Same
    BY <1>5 DEF DecryptInsert, Shown, SaltFor
  <2>2. SaltFor(t, id) \in Salts
    BY <1>5, SaltFact DEF DecryptInsert
  <2>3. CacheInv'
    <3> DEFINE salt == SaltFor(t, id)
    <3>1. /\ keys' = [s \in DOMAIN keys \cup {salt} |->
                        IF s = salt THEN DeriveKey[salt] ELSE keys[s]]
          /\ mutex' = Nobody
      BY <1>5 DEF DecryptInsert, Insert
    <3>2. salt \in Salts
      BY <2>2
    <3> HIDE DEF salt
    <3>3. DOMAIN keys' = DOMAIN keys \cup {salt}
      BY <3>1
    <3>4. \A s \in DOMAIN keys : keys[s] = DeriveKey[s]
      BY <1>1 DEF CacheInv
    <3>5. keys' = [s \in DOMAIN keys \cup {salt} |-> DeriveKey[s]]
      BY <3>1, <3>4
    <3> QED
      BY <1>1, <3>1, <3>2, <3>3, <3>5 DEF CacheInv
  <2> QED
    BY <2>1, <2>3, TakeKeeps
<1> QED
  BY <1>2, <1>3, <1>4, <1>5 DEF Decrypt

-----------------------------------------------------------------------------
(* Channels, messages, credentials.                                        *)

\* The row of a channel has been read; the call goes on to its name.
LEMMA ChannelRowKeeps ==
  ASSUME IInv, NEW t \in Tasks, ChannelRow(t)
  PROVE  TypeInv' /\ Only(t) /\ TaskInv(t)'
<1> DEFINE c == Channel(t)
<1>1. /\ TypeInv /\ TaskInv(t) /\ stage[t] = "chat_rooms" /\ c \in Channels
      /\ request[t].kind = "channel" /\ found[t] = {} /\ fetched[t] = {} /\ answer[t] = <<>>
      /\ t \in asked
  BY ChannelFact DEF IInv, ChannelRow, Query, At, TaskInv, PlaceInv, WorkInv
<1>2. UNCHANGED <<present, moving, request, writes, asked, fetched, found, always, ever, broke>>
  BY DEF ChannelRow, dataVars, histVars
<1>3. <<"chat_rooms", c>> \in ever[t]
  BY <1>1, NowFact DEF ChannelRow, RowsOf
<1>4. CASE Rooms[c].om
  <2>1. /\ stage' = [stage EXCEPT ![t] = "open_link"]
        /\ UNCHANGED <<ids, todo, holding, answer>>
    BY <1>4 DEF ChannelRow, Advance
  <2>2. /\ stage'[t] = "open_link" /\ stage' \in [Tasks -> Stages]
        /\ stage' = [stage EXCEPT ![t] = stage'[t]]
    BY <1>1, <2>1 DEF TypeInv, Stages
  <2>3. TypeInv'
    BY <1>1, <1>2, <2>1, <2>2 DEF TypeInv
  <2>4. Only(t)
    BY <1>1, <1>2, <2>1, <2>2 DEF Only, TypeInv
  <2>5. FoundIds(t)' = FoundIds(t)
    BY <1>2 DEF FoundIds
  <2>6. PlaceInv(t)' /\ TellInv(t)' /\ MissInv(t)' /\ MessageInv(t)'
    BY <1>1, <1>2, <1>3, <1>4, <2>2
       DEF PlaceInv, TellInv, MissInv, MessageInv, MemberStages, Channel
  <2>7. WorkInv(t)'
    BY <1>1, <1>2, <2>1, <2>2, <2>5 DEF TaskInv, WorkInv
  <2> QED
    BY <2>3, <2>4, <2>6, <2>7 DEF TaskInv
<1>5. CASE ~Rooms[c].om /\ NamedByMembers(c)
  <2> DEFINE list == Rooms[c].display
  <2>1. /\ stage' = [stage EXCEPT ![t] = "own"] /\ ids' = [ids EXCEPT ![t] = list]
        /\ todo' = [todo EXCEPT ![t] = ToSet(list)]
        /\ UNCHANGED <<holding, answer>>
    BY <1>5 DEF ChannelRow, Enter
  <2>2. list \in Seq(Nat) /\ ToSet(list) \subseteq Nat
    BY <1>1, RoomFact, ReadConstants
  <2>3. /\ stage'[t] = "own" /\ stage' \in [Tasks -> Stages]
        /\ stage' = [stage EXCEPT ![t] = stage'[t]]
        /\ ids'[t] = list /\ ids' \in [Tasks -> Seq(Nat)] /\ ids' = [ids EXCEPT ![t] = ids'[t]]
        /\ todo'[t] = ToSet(list) /\ todo' \in [Tasks -> SUBSET Nat]
        /\ todo' = [todo EXCEPT ![t] = todo'[t]]
    BY <1>1, <2>1, <2>2 DEF TypeInv, Stages
  <2>4. TypeInv'
    BY <1>1, <1>2, <2>1, <2>3 DEF TypeInv
  <2>5. Only(t)
    BY <1>1, <1>2, <2>1, <2>3 DEF Only, TypeInv
  <2>6. FoundIds(t)' = {}
    BY <1>1, <1>2 DEF FoundIds
  <2>7. PlaceInv(t)'
    BY <1>1, <1>2, <1>3, <1>5, <2>3 DEF PlaceInv, MemberStages, Listed, Channel
  <2>8. TellInv(t)' /\ MissInv(t)' /\ MessageInv(t)'
    BY <1>1, <1>2, <2>3 DEF TellInv, MissInv, MessageInv, MemberStages
  <2>9. WorkInv(t)'
    BY <1>1, <1>2, <2>1, <2>3, <2>6 DEF WorkInv
  <2> QED
    BY <2>4, <2>5, <2>7, <2>8, <2>9 DEF TaskInv
<1>6. CASE ~Rooms[c].om /\ ~NamedByMembers(c)
  <2>1. PICK ans : Return(t, ans) /\ UNCHANGED <<ids, todo>>
    BY <1>6 DEF ChannelRow
  <2> QED
    BY <1>1, <2>1, AnswerKeeps DEF ChannelRow, histVars, TypeInv
<1> QED
  BY <1>4, <1>5, <1>6

LEMMA MessageChunkKeeps ==
  ASSUME IInv, NEW t \in Tasks, MessageChunk(t)
  PROVE  TypeInv' /\ Only(t) /\ TaskInv(t)'
<1>1. /\ TypeInv /\ TaskInv(t) /\ stage[t] = "chat_logs" /\ fetched[t] = {}
      /\ todo[t] \subseteq Nat /\ todo[t] \subseteq ToSet(ids[t])
      /\ request[t].kind = "messages" /\ ids[t] = request[t].ids
  BY DEF IInv, MessageChunk, Query, At, TypeInv, TaskInv, PlaceInv, WorkInv
<1>2. ToSet(ids[t]) \subseteq Messages
  BY <1>1, RequestFact DEF TypeInv
<1>3. PICK chunk \in Chunks(todo[t]) :
        /\ todo' = [todo EXCEPT ![t] = @ \ chunk]
        /\ Put(t, {Entry(m, "chat_logs", "clear") :
                    m \in {x \in chunk : /\ <<"chat_logs", x>> \in present
                                         /\ ChannelOf[x] = Channel(t)}})
  BY DEF MessageChunk
<1> DEFINE there   == {x \in chunk : /\ <<"chat_logs", x>> \in present
                                     /\ ChannelOf[x] = Channel(t)}
           entries == FromTable("chat_logs", there, "clear")
<1>4. chunk \subseteq todo[t]
  BY ChunkFact
<1>5. UNCHANGED <<present, moving, request, writes, asked, holding, stage, ids, fetched, answer,
                  always, ever, broke>>
  BY DEF MessageChunk, dataVars, histVars
<1>6. /\ todo'[t] = todo[t] \ chunk /\ todo' \in [Tasks -> SUBSET Nat]
      /\ todo' = [todo EXCEPT ![t] = todo'[t]]
  BY <1>1, <1>3 DEF TypeInv
<1>7. /\ \A entry \in entries :
            entry.id \in there /\ entry.from = "chat_logs" /\ entry.text = "clear"
      /\ \A e, f \in entries : e.id = f.id => e = f
      /\ IdsOf(entries) = there
  BY TableFact
<1>8. entries \in SUBSET Entries
  BY <1>1, <1>2, <1>4, EntryFact DEF FromTable
<1>9. /\ found' = [found EXCEPT ![t] = found'[t]] /\ found' \in [Tasks -> SUBSET Entries]
      /\ found'[t] \subseteq found[t] \cup entries
      /\ \A e, f \in found'[t] : e.id = f.id => e = f
      /\ FoundIds(t)' = FoundIds(t) \cup there
  <2>1. \A e, f \in found[t] : e.id = f.id => e = f
    BY <1>1 DEF TaskInv, WorkInv
  <2>2. Put(t, entries)
    BY <1>3 DEF FromTable
  <2> HIDE DEF entries, there
  <2> QED
    BY <1>1, <1>7, <1>8, <2>1, <2>2, PutFact
<1> HIDE DEF entries
<1>10. TypeInv'
  BY <1>1, <1>5, <1>6, <1>9 DEF TypeInv
<1>11. Only(t)
  BY <1>1, <1>5, <1>6, <1>9 DEF Only, TypeInv
<1>12. Missed(t)' \subseteq Missed(t) \cup (chunk \ there)
  BY <1>1, <1>5, <1>6, <1>9 DEF Missed
<1>13. \A id \in chunk \ there : <<"chat_logs", id>> \notin always[t] \/ ChannelOf[id] # Channel(t)
  BY <1>1, NowFact
<1>14. \A id \in there : <<"chat_logs", id>> \in ever[t] /\ ChannelOf[id] = Channel(t)
  BY <1>1, NowFact
<1>15. PlaceInv(t)'
  BY <1>1, <1>5 DEF TaskInv, PlaceInv, Channel
<1>16. TellInv(t)' /\ MissInv(t)'
  BY <1>1, <1>5 DEF TellInv, MissInv, MemberStages
<1>17. MessageInv(t)'
  BY <1>1, <1>5, <1>7, <1>9, <1>12, <1>13, <1>14 DEF TaskInv, MessageInv, Channel
<1>18. WorkInv(t)'
  BY <1>1, <1>4, <1>5, <1>6, <1>9 DEF TaskInv, WorkInv
<1> QED
  BY <1>10, <1>11, <1>15, <1>16, <1>17, <1>18 DEF TaskInv

LEMMA MessagesReadKeeps ==
  ASSUME IInv, NEW t \in Tasks, MessagesRead(t)
  PROVE  TypeInv' /\ Only(t) /\ TaskInv(t)'
<1> DEFINE gone == {i \in 1..Len(ids[t]) : ids[t][i] \notin FoundIds(t)}
<1>1. /\ TypeInv /\ TaskInv(t) /\ stage[t] = "chat_logs" /\ ids[t] \in Seq(Nat)
      /\ fetched[t] = {} /\ answer[t] = <<>>
  BY DEF IInv, MessagesRead, Query, At, TypeInv, TaskInv, WorkInv
<1>2. CASE gone # {}
  <2>1. PICK ans : Return(t, ans) /\ UNCHANGED <<ids, todo>>
    BY <1>2 DEF MessagesRead
  <2> QED
    BY <1>1, <2>1, AnswerKeeps DEF MessagesRead, histVars, TypeInv
<1>3. CASE gone = {}
  <2>1. /\ holding' = holding \ {t}
        /\ stage' = [stage EXCEPT ![t] = "map"]
        /\ ids' = [ids EXCEPT ![t] = ids[t]]
        /\ todo' = [todo EXCEPT ![t] = ToSet(ids[t])]
        /\ UNCHANGED <<present, moving, request, writes, asked, fetched, found, answer, always,
                       ever, broke>>
    BY <1>3 DEF MessagesRead, Enter, dataVars, histVars
  <2>2. ToSet(ids[t]) \subseteq Nat
    BY <1>1 DEF ToSet
  <2>3. /\ stage'[t] = "map" /\ stage' \in [Tasks -> Stages]
        /\ stage' = [stage EXCEPT ![t] = stage'[t]]
        /\ ids' = ids /\ ids' = [ids EXCEPT ![t] = ids'[t]]
        /\ todo'[t] = ToSet(ids[t]) /\ todo' \in [Tasks -> SUBSET Nat]
        /\ todo' = [todo EXCEPT ![t] = todo'[t]]
    BY <1>1, <2>1, <2>2 DEF TypeInv, Stages
  <2>4. TypeInv'
    BY <1>1, <2>1, <2>3, HoldingFact DEF TypeInv
  <2>5. Only(t)
    BY <1>1, <2>1, <2>3 DEF Only, TypeInv
  <2>6. FoundIds(t)' = FoundIds(t)
    BY <2>1 DEF FoundIds
  <2>7. ToSet(ids[t]) \subseteq FoundIds(t)
    BY <1>1, <1>3 DEF ToSet
  <2>8. PlaceInv(t)'
    BY <1>1, <2>1, <2>3 DEF TaskInv, PlaceInv, MemberStages, Channel
  <2>9. TellInv(t)' /\ MissInv(t)'
    BY <2>3 DEF TellInv, MissInv, MemberStages
  <2>10. MessageInv(t)'
    BY <1>1, <2>1, <2>3, <2>6, <2>7 DEF TaskInv, MessageInv, Channel
  <2>11. WorkInv(t)'
    BY <1>1, <2>1, <2>3, <2>6 DEF TaskInv, WorkInv
  <2> QED
    BY <2>4, <2>5, <2>8, <2>9, <2>10, <2>11 DEF TaskInv
<1> QED
  BY <1>2, <1>3

-----------------------------------------------------------------------------
(* The files of a credential.                                              *)

LEMMA AppendFact ==
  ASSUME NEW list \in Seq(Nat), NEW x \in Nat
  PROVE  /\ Append(list, x) \in Seq(Nat) /\ Len(Append(list, x)) = Len(list) + 1
         /\ \A i \in 1..Len(list) : Append(list, x)[i] = list[i]
         /\ Append(list, x)[Len(list) + 1] = x
         /\ ToSet(list) \subseteq ToSet(Append(list, x))
<1>1. /\ Append(list, x) \in Seq(Nat) /\ Len(Append(list, x)) = Len(list) + 1
      /\ \A i \in 1..Len(list) : Append(list, x)[i] = list[i]
      /\ Append(list, x)[Len(list) + 1] = x
  OBVIOUS
<1>2. DOMAIN list = 1..Len(list) /\ DOMAIN Append(list, x) = 1..(Len(list) + 1)
      /\ Len(list) \in Nat
  BY <1>1
<1>3. ToSet(list) \subseteq ToSet(Append(list, x))
  BY <1>1, <1>2 DEF ToSet
<1> QED
  BY <1>1, <1>3

LEMMA ReadDeviceKeeps ==
  ASSUME IInv, NEW t \in Tasks, ReadFile(t, "device", "aot")
  PROVE  TypeInv' /\ Only(t) /\ TaskInv(t)'
<1>1. /\ TypeInv /\ TaskInv(t) /\ stage[t] = "device" /\ t \in asked /\ ids[t] = <<>>
      /\ request[t].kind = "credential" /\ answer[t] = <<>> /\ fetched[t] = {}
  BY DEF IInv, ReadFile, At, TaskInv, PlaceInv, WorkInv
<1>2. UNCHANGED <<present, moving, request, writes, asked, todo, fetched, found, always, ever,
                  broke>>
  BY DEF ReadFile, dataVars, histVars
<1>3. CASE \E login \in Logins :
              /\ <<"device", login>> \in present
              /\ ids' = [ids EXCEPT ![t] = Append(@, login)]
              /\ stage' = [stage EXCEPT ![t] = "aot"]
              /\ UNCHANGED <<answer, holding>>
  <2>1. PICK login \in Logins :
              /\ <<"device", login>> \in present
              /\ ids' = [ids EXCEPT ![t] = Append(@, login)]
              /\ stage' = [stage EXCEPT ![t] = "aot"]
              /\ UNCHANGED <<answer, holding>>
    BY <1>3
  <2>2. login \in Nat /\ ids[t] \in Seq(Nat) /\ Len(ids[t]) = 0
    BY <1>1, ReadConstants DEF TypeInv
  <2> DEFINE new == Append(ids[t], login)
  <2>3. /\ new \in Seq(Nat) /\ Len(new) = 1 /\ new[1] = login
        /\ ToSet(ids[t]) \subseteq ToSet(new)
    BY <2>2, AppendFact
  <2>4. /\ ids'[t] = new /\ ids' = [ids EXCEPT ![t] = new]
    BY <1>1, <2>1 DEF TypeInv
  <2> HIDE DEF new
  <2>5. /\ ids' \in [Tasks -> Seq(Nat)] /\ ids' = [ids EXCEPT ![t] = ids'[t]]
        /\ stage'[t] = "aot" /\ stage' \in [Tasks -> Stages]
        /\ stage' = [stage EXCEPT ![t] = stage'[t]]
    BY <1>1, <2>1, <2>3, <2>4 DEF TypeInv, Stages
  <2>6. TypeInv'
    BY <1>1, <1>2, <2>1, <2>5 DEF TypeInv
  <2>7. Only(t)
    BY <1>1, <1>2, <2>1, <2>5 DEF Only, TypeInv
  <2>8. FoundIds(t)' = FoundIds(t)
    BY <1>2 DEF FoundIds
  <2>9. <<"device", login>> \in ever[t]
    BY <1>1, <2>1, NowFact
  <2>10. PlaceInv(t)'
    BY <1>1, <1>2, <2>3, <2>4, <2>5, <2>9 DEF TaskInv, PlaceInv, MemberStages, Channel
  <2>11. TellInv(t)' /\ MissInv(t)' /\ MessageInv(t)'
    BY <2>5 DEF TellInv, MissInv, MessageInv, MemberStages
  <2>12. WorkInv(t)'
    BY <1>1, <1>2, <2>1, <2>3, <2>4, <2>5, <2>8 DEF TaskInv, WorkInv
  <2> QED
    BY <2>6, <2>7, <2>10, <2>11, <2>12 DEF TaskInv
<1>4. CASE Return(t, Error("failed")) /\ UNCHANGED ids
  BY <1>1, <1>2, <1>4, AnswerKeeps DEF dataVars, TypeInv
<1> QED
  BY <1>3, <1>4 DEF ReadFile

LEMMA ReadTokensKeeps ==
  ASSUME IInv, NEW t \in Tasks, ReadFile(t, "aot", "done")
  PROVE  TypeInv' /\ Only(t) /\ TaskInv(t)'
<1>1. TypeInv /\ stage[t] = "aot"
  BY DEF IInv, ReadFile, At
<1>2. UNCHANGED <<dataVars, asked, todo, fetched, found, always, ever, broke>>
  BY DEF ReadFile, histVars
<1>3. PICK ans : Return(t, ans)
  BY DEF ReadFile
<1>4. CASE \E login \in Logins : ids' = [ids EXCEPT ![t] = Append(@, login)]
  <2>1. PICK login \in Logins : ids' = [ids EXCEPT ![t] = Append(@, login)]
    BY <1>4
  <2>2. login \in Nat /\ ids[t] \in Seq(Nat)
    BY <1>1, ReadConstants DEF TypeInv
  <2> DEFINE new == Append(ids[t], login)
  <2>3. new \in Seq(Nat) /\ ToSet(ids[t]) \subseteq ToSet(new)
    BY <2>2, AppendFact
  <2>4. /\ ids'[t] = new /\ ids' = [ids EXCEPT ![t] = new]
    BY <1>1, <2>1 DEF TypeInv
  <2> HIDE DEF new
  <2>5. ids' \in [Tasks -> Seq(Nat)] /\ ids' = [ids EXCEPT ![t] = ids'[t]]
    BY <1>1, <2>3, <2>4 DEF TypeInv
  <2>6. ToSet(ids[t]) \subseteq ToSet(ids'[t])
    BY <2>3, <2>4
  <2>7. broke' \in SUBSET Tasks
    BY <1>1, <1>2 DEF TypeInv
  <2> QED
    BY <1>1, <1>2, <1>3, <2>5, <2>6, <2>7, ReturnKeeps
<1>5. CASE UNCHANGED ids
  BY <1>1, <1>2, <1>3, <1>5, AnswerKeeps DEF TypeInv
<1> QED
  BY <1>4, <1>5 DEF ReadFile

-----------------------------------------------------------------------------
(* The invariant.                                                          *)

LEMMA ChangedKeeps ==
  ASSUME IInv, NEW now \in SUBSET Rows, Changed(now)
  PROVE  IInv'
<1>1. TypeInv /\ HistoryInv /\ CacheInv
  BY DEF IInv
<1>2. /\ writes' = writes + 1 /\ writes < MaxWrites /\ present' = now
      /\ always' = [t \in Tasks |-> always[t] \cap now]
      /\ ever' = [t \in Tasks |-> IF t \in asked THEN ever[t] \cup now ELSE ever[t]]
      /\ UNCHANGED <<moving, request, asked, holding, stage, ids, todo, fetched, found, answer,
                     keys, mutex, broke>>
  BY DEF Changed, workVars, cacheVars
<1>3. always' \in [Tasks -> SUBSET Rows] /\ ever' \in [Tasks -> SUBSET Rows]
  BY <1>1, <1>2 DEF TypeInv
<1>4. writes' \in 0..MaxWrites
  BY <1>1, <1>2, ReadConstants DEF TypeInv
<1>5. TypeInv'
  BY <1>1, <1>2, <1>3, <1>4 DEF TypeInv
<1>6. HistoryInv'
  BY <1>1, <1>2 DEF TypeInv, HistoryInv
<1>7. CacheInv'
  BY <1>1, <1>2 DEF CacheInv
<1>8. \A t \in Tasks : TaskInv(t)'
  BY WriteKeeps
<1>9. HoldingInv'
  BY <1>2 DEF HoldingInv, IInv
<1> QED
  BY <1>5, <1>6, <1>7, <1>8, <1>9 DEF IInv

LEMMA MessengerKeeps ==
  ASSUME IInv, NEW row \in moving, InsertRow(row) \/ RemoveRow(row)
  PROVE  /\ IInv'
         /\ \E now \in SUBSET Rows : Changed(now)
<1>1. present \in SUBSET Rows /\ row \in Rows
  BY DEF IInv, TypeInv
<1>2. \E now \in SUBSET Rows : Changed(now)
  BY <1>1 DEF InsertRow, RemoveRow
<1> QED
  BY <1>2, ChangedKeeps

LEMMA StepKeeps ==
  ASSUME IInv, NEW t \in Tasks, Step(t) \/ Breaks(t)
  PROVE  IInv'
<1>1. TypeInv /\ HistoryInv /\ CacheInv /\ \A u \in Tasks : TaskInv(u)
  BY DEF IInv
<1>2. TypeInv' /\ Only(t) /\ TaskInv(t)'
  BY AskKeeps, AtOnceKeeps, AcquireKeeps, OwnKeeps, NoProfileKeeps, LoadUsersKeeps,
     LoadRowsKeeps, UserDoneKeeps, LoadDoneKeeps, CollectKeeps, DecryptKeeps, NoRowKeeps,
     ChannelMembersKeeps, ChannelRowKeeps, OpenLinkKeeps, MessageChunkKeeps, MessagesReadKeeps,
     MapMessagesKeeps, RawQueryKeeps, ReadDeviceKeeps, ReadTokensKeeps, BreaksKeeps
     DEF Step
<1>3. \A u \in Tasks : TaskInv(u)'
  BY <1>1, <1>2, OthersKeep
<1>4. HistoryInv'
  <2>1. CASE Ask(t)
    <3>1. /\ present' = present /\ asked' = asked \cup {t}
          /\ always' = [always EXCEPT ![t] = present] /\ ever' = [ever EXCEPT ![t] = present]
      BY <2>1 DEF Ask, dataVars
    <3> QED
      BY <1>1, <3>1 DEF HistoryInv, TypeInv
  <2>2. CASE ~Ask(t)
    <3>1. UNCHANGED <<present, asked, always, ever>>
      BY <2>2 DEF Step, Breaks, AnswerAtOnce, Acquire, Own, NoProfile, LoadChunk, UserDone,
         LoadDone, Collect, Decrypt, DecryptInvalid, DecryptHit, DecryptMiss, DecryptInsert,
         NoRow, ChannelMembers, ChannelRow, OpenLink, MessageChunk, MessagesRead, MapMessages,
         RawQuery, ReadFile, dataVars, histVars
    <3> QED
      BY <1>1, <3>1 DEF HistoryInv
  <2> QED
    BY <2>1, <2>2
<1>5. CacheInv'
  <2>1. CASE Decrypt(t)
    BY <2>1, DecryptKeeps
  <2>2. CASE ~Decrypt(t)
    <3>1. UNCHANGED cacheVars
      BY <2>2 DEF Step, Breaks, Ask, AnswerAtOnce, Acquire, Own, NoProfile, LoadChunk, UserDone,
         LoadDone, Collect, NoRow, ChannelMembers, ChannelRow, OpenLink, MessageChunk,
         MessagesRead, MapMessages, RawQuery, ReadFile
    <3> QED
      BY <1>1, <3>1 DEF CacheInv, cacheVars
  <2> QED
    BY <2>1, <2>2
<1>6. HoldingInv'
  <2>1. CASE Ask(t)
    <3>1. t \notin holding /\ holding' = holding /\ request' = request
      BY <1>1, <2>1 DEF Ask, TypeInv, dataVars
    <3> QED
      BY <1>1, <1>2, <3>1 DEF HoldingInv, IInv, Only, TypeInv
  <2>2. CASE Acquire(t)
    <3>1. /\ holding' = holding \cup {t} /\ request' = request /\ stage' = stage
          /\ stage[t] = "raw" => WellFormed(request[t])
      BY <2>2 DEF Acquire, NeedsConnection, At, dataVars, workVars
    <3> QED
      BY <3>1 DEF HoldingInv, IInv
  <2>3. CASE ~Ask(t) /\ ~Acquire(t)
    <3>1. holding' \subseteq holding /\ (stage'[t] # "raw" \/ stage' = stage)
      BY <1>1, <2>3 DEF Step, Breaks, AnswerAtOnce, Own, NoProfile, LoadChunk, UserDone,
         LoadDone, Collect, Decrypt, DecryptInvalid, DecryptHit, DecryptMiss, DecryptInsert,
         NoRow, ChannelMembers, ChannelRow, OpenLink, MessageChunk, MessagesRead, MapMessages,
         RawQuery, ReadFile, Return, Take, Enter, Advance, workVars, TypeInv
    <3> QED
      BY <1>1, <1>2, <3>1 DEF HoldingInv, IInv, Only, TypeInv
  <2> QED
    BY <2>1, <2>2, <2>3
<1> QED
  BY <1>2, <1>3, <1>4, <1>5, <1>6 DEF IInv

LEMMA InvInit ==
  ASSUME Init
  PROVE  IInv
<1>1. PICK input \in Inputs :
        present = input.present /\ moving = input.moving /\ request = input.request
  BY DEF Init
<1>2. /\ present \in SUBSET Rows /\ moving \in SUBSET Rows /\ request \in [Tasks -> Calls]
  BY <1>1, InputsAreRequests
<1>3. request \in [Tasks -> Requests]
  BY <1>1, <1>2 DEF Requests
<1>4. holding = {} /\ IsFiniteSet(holding) /\ Cardinality(holding) = 0
  BY FS_EmptySet DEF Init
<1>5. <<>> \in Seq(Nat)
  OBVIOUS
<1>6. TypeInv
  BY <1>2, <1>3, <1>4, <1>5, ReadConstants DEF Init, TypeInv, Stages
<1>7. HistoryInv
  BY DEF Init, HistoryInv
<1>8. CacheInv
  BY DEF Init, CacheInit, CacheInv
<1>9. \A t \in Tasks : TaskInv(t)
  BY DEF Init, TaskInv, PlaceInv, TellInv, MissInv, MessageInv, WorkInv, MemberStages, FoundIds
<1>10. HoldingInv
  BY DEF Init, HoldingInv
<1> QED
  BY <1>6, <1>7, <1>8, <1>9, <1>10 DEF IInv

LEMMA InvStep ==
  ASSUME IInv, [Next]_vars
  PROVE  IInv'
<1>1. CASE Next
  BY <1>1, MessengerKeeps, StepKeeps DEF Next
<1>2. CASE UNCHANGED vars
  <2>1. UNCHANGED <<present, moving, request, writes, asked, holding, stage, ids, todo, fetched,
                    found, answer, keys, mutex, always, ever, broke>>
    BY <1>2 DEF vars, dataVars, workVars, histVars, cacheVars
  <2>2. TypeInv' /\ HistoryInv' /\ CacheInv' /\ HoldingInv'
    BY <2>1 DEF IInv, TypeInv, HistoryInv, CacheInv, HoldingInv
  <2>3. \A t \in Tasks : FoundIds(t)' = FoundIds(t) /\ Missed(t)' = Missed(t)
    BY <2>1 DEF FoundIds, Missed
  <2>4. \A t \in Tasks : TaskInv(t)'
    <3> SUFFICES ASSUME NEW t \in Tasks PROVE TaskInv(t)'
      OBVIOUS
    <3>1. TypeInv /\ TaskInv(t)
      BY DEF IInv
    <3>2. PlaceInv(t)' /\ TellInv(t)'
      BY <2>1, <3>1 DEF TaskInv, PlaceInv, TellInv, Channel
    <3>3. MissInv(t)' /\ MessageInv(t)'
      BY <2>1, <2>3, <3>1 DEF TaskInv, MissInv, MessageInv, Channel, IsOpen
    <3>4. WorkInv(t)'
      BY <2>1, <2>3, <3>1 DEF TaskInv, WorkInv
    <3> QED
      BY <3>2, <3>3, <3>4 DEF TaskInv
  <2> QED
    BY <2>2, <2>4 DEF IInv
<1> QED
  BY <1>1, <1>2

\* The invariant holds in every reachable state.
THEOREM Invariance == Spec => []IInv
<1>1. Init => IInv
  BY InvInit
<1>2. IInv /\ [Next]_vars => IInv'
  BY InvStep
<1> QED
  BY <1>1, <1>2, PTL DEF Spec

-----------------------------------------------------------------------------
(* Types.                                                                  *)

LEMMA IdsFinite ==
  ASSUME TypeInv, NEW t \in Tasks, WorkInv(t)
  PROVE  IsFiniteSet(FoundIds(t)) /\ Cardinality(FoundIds(t)) = Cardinality(found[t])
<1>1. ids[t] \in Seq(Nat)
  BY DEF TypeInv
<1>2. IsFiniteSet(ToSet(ids[t]))
  <2>1. /\ Len(ids[t]) \in Nat /\ ToSet(ids[t]) = {ids[t][i] : i \in 1..Len(ids[t])}
    BY <1>1 DEF ToSet
  <2>2. IsFiniteSet(1..Len(ids[t]))
    BY <2>1, FS_Interval
  <2> DEFINE f == [i \in 1..Len(ids[t]) |-> ids[t][i]]
  <2>3. f \in Surjection(1..Len(ids[t]), ToSet(ids[t]))
    BY <2>1 DEF Surjection
  <2> QED
    BY <2>2, <2>3, FS_Surjection
<1>3. IsFiniteSet(FoundIds(t))
  BY <1>2, FS_Subset DEF WorkInv
<1> DEFINE g == [entry \in found[t] |-> entry.id]
<1>4. g \in Bijection(found[t], FoundIds(t))
  BY DEF WorkInv, FoundIds, Bijection, Injection, Surjection, IsInjective
<1>5. ExistsBijection(FoundIds(t), found[t])
  <2>1. ExistsBijection(found[t], FoundIds(t))
    BY <1>4, Fun_ExistsBij
  <2> QED
    BY <2>1, Fun_ExistsBijSymmetric
<1> QED
  BY <1>3, <1>5, FS_Bijection

\* Every variable has its type: no more connections are out than the pool
\* has, a call looks only for ids of its list and finds no more than one
\* entry for each, and it has an answer exactly when it is done.
THEOREM TypeCorrect == Spec => []TypeOK
<1>1. IInv => TypeOK
  <2> SUFFICES ASSUME IInv PROVE TypeOK
    OBVIOUS
  <2>1. TypeInv /\ CacheInv /\ \A t \in Tasks : WorkInv(t)
    BY DEF IInv, TaskInv
  <2>2. ASSUME NEW t \in Tasks
        PROVE  Cardinality({entry.id : entry \in found[t]}) = Cardinality(found[t])
    BY <2>1, IdsFinite DEF FoundIds
  <2> QED
    BY <2>1, <2>2 DEF TypeOK, TypeInv, CacheInv, WorkInv
<1> QED
  BY <1>1, Invariance, PTL

-----------------------------------------------------------------------------
(* Answers and what the contract allows.                                   *)

\* What was asked, put as the contract puts it.
LEMMA SameWords ==
  /\ \A c : Contract!NamedByMembers(c) <=> NamedByMembers(c)
  /\ \A q \in Requests : q \in {r \in Requests : WellFormed(r)} <=> WellFormed(q)
  BY DEF Contract!NamedByMembers, NamedByMembers

\* Any answer that is allowed is an Answer of the contract.
LEMMA AnswerRefines ==
  ASSUME IInv, NEW t \in Tasks, stage[t] \notin {"idle", "done"}, NEW ans, Return(t, ans),
         UNCHANGED <<dataVars, asked, histVars>>,
         Contract!Allowed(request[t], ans, always[t], ever[t])
  PROVE  Contract!Answer(t)
<1>1. /\ answer = [u \in Tasks |-> answer[u]] /\ t \in asked /\ answer[t] = <<>>
  BY DEF IInv, TypeInv, TaskInv, WorkInv
<1>2. answer' = [answer EXCEPT ![t] = <<ans>>] /\ answer'[t] = <<ans>>
  BY <1>1 DEF Return
<1>3. Len(<<ans>>) = 1 /\ <<ans>>[1] = ans
  OBVIOUS
<1>4. Contract!Answered(t)
  BY <1>1, <1>2, <1>3 DEF Contract!Answered, dataVars, histVars
<1> QED
  BY <1>2, <1>3, <1>4 DEF Contract!Answer, histVars

LEMMA OutcomeFact ==
  /\ \A items : Ok(items).outcome = "ok" /\ Ok(items).items = items
  /\ \A id : Missing(id).outcome = "missing" /\ Missing(id).id = id
  /\ \A outcome : Error(outcome).outcome = outcome
  /\ \A id, from, text : /\ Entry(id, from, text).id = id /\ Entry(id, from, text).from = from
                         /\ Entry(id, from, text).text = text
                         /\ Entry(id, from, text) = [id |-> id, from |-> from, text |-> text]
  BY DEF Ok, Missing, Error, Entry

LEMMA AtOnceAllowed ==
  ASSUME IInv, NEW t \in Tasks, AnswerAtOnce(t)
  PROVE  Contract!Answer(t)
<1> DEFINE q == request[t]
           E == ever[t]
           A == always[t]
<1>1. /\ PlaceInv(t) /\ q \in Requests /\ ids[t] = <<>> /\ stage[t] \notin {"idle", "done"}
      /\ UNCHANGED <<dataVars, asked, histVars>>
  BY DEF AnswerAtOnce, At, IInv, TypeInv, TaskInv
<1>2. CASE stage[t] = "own" /\ Return(t, Ok(<<>>))
  <2>1. q.kind \in {"users", "channel"} /\ Listed(q) = <<>>
    BY <1>1, <1>2 DEF PlaceInv, MemberStages
  <2>2. q.kind = "users"
    BY <1>1, <1>2, <2>1 DEF PlaceInv, MemberStages, NamedByMembers, Listed, Channel
  <2>3. Contract!Tells(q, <<>>, A, E)
    BY <2>1, <2>2 DEF Contract!Tells, Contract!TellsMembers, Listed
  <2> QED
    BY <1>1, <1>2, <2>3, AnswerRefines, OutcomeFact DEF Contract!Allowed
<1>3. CASE stage[t] = "chat_logs" /\ Return(t, Ok(<<>>))
  <2>1. q.kind = "messages" /\ q.ids = <<>>
    BY <1>1, <1>3 DEF PlaceInv
  <2>2. Contract!Tells(q, <<>>, A, E)
    BY <2>1 DEF Contract!Tells, Contract!TellsMessages
  <2> QED
    BY <1>1, <1>3, <2>2, AnswerRefines, OutcomeFact DEF Contract!Allowed
<1>4. CASE stage[t] = "raw" /\ ~WellFormed(q) /\ Return(t, Error("invalid"))
  BY <1>1, <1>4, AnswerRefines, OutcomeFact, SameWords DEF PlaceInv, Contract!Allowed
<1> QED
  BY <1>2, <1>3, <1>4 DEF AnswerAtOnce, At

LEMMA NoProfileAllowed ==
  ASSUME IInv, NEW t \in Tasks, NoProfile(t)
  PROVE  Contract!Answer(t)
<1> DEFINE q == request[t]
           A == always[t]
<1>1. /\ PlaceInv(t) /\ WorkInv(t) /\ stage[t] = "own" /\ ids[t] \in Seq(Nat)
      /\ Self \in todo[t] /\ Return(t, Error("failed"))
      /\ UNCHANGED <<dataVars, asked, histVars>>
  BY DEF NoProfile, Query, At, IInv, TypeInv, TaskInv
<1>2. ids[t] = Listed(q) /\ q.kind \in {"users", "channel"}
  BY <1>1 DEF PlaceInv, MemberStages
<1>3. \E i \in 1..Len(ids[t]) : ids[t][i] = Self
  BY <1>1 DEF WorkInv, ToSet
<1>4. Contract!MayLackProfile(q.channel, Listed(q), A)
  BY <1>1, <1>2, <1>3, NowFact DEF NoProfile, Contract!MayLackProfile, Contract!IsOpen, IsOpen,
     Channel
<1>5. Contract!MayFail(q, A)
  <2>1. CASE q.kind = "users"
    BY <2>1, <1>4 DEF Contract!MayFail, Listed
  <2>2. CASE q.kind = "channel"
    <3>1. Contract!NamedByMembers(q.channel)
      BY <1>1, <2>2, SameWords DEF PlaceInv, MemberStages, Channel
    <3> QED
      BY <2>2, <3>1, <1>4 DEF Contract!MayFail, Listed
  <2> QED
    BY <1>2, <2>1, <2>2
<1> QED
  BY <1>1, <1>5, AnswerRefines, OutcomeFact DEF Contract!Allowed

-----------------------------------------------------------------------------
(* Members.                                                                *)

\* Members are looked up in a list of users.
LEMMA ListedFact ==
  ASSUME IInv, NEW t \in Tasks, stage[t] \in MemberStages
  PROVE  ToSet(ids[t]) \subseteq Ids
<1> DEFINE q == request[t]
<1>1. q \in Requests /\ Channel(t) \in Channels
  BY ChannelFact
<1>2. q.kind \in {"users", "channel"} /\ ids[t] = Listed(q)
  BY DEF IInv, TaskInv, PlaceInv
<1>3. CASE q.kind = "users"
  BY <1>1, <1>2, <1>3, RequestFact DEF Listed
<1>4. CASE q.kind = "channel"
  BY <1>1, <1>2, <1>4, RoomFact DEF Listed, Channel
<1> QED
  BY <1>2, <1>3, <1>4

\* With the right keys a text is readable, or of an unknown type.
LEMMA TextFact ==
  ASSUME DeriveKey = ReferenceKey, NEW id \in Ids, NEW from
  PROVE  (IF from \in Contract!Encrypted THEN Shown(EncOf[id], Self) ELSE "clear")
            = Contract!TextOf(id, from)
<1>1. CASE ValidEnc(EncOf[id])
  BY <1>1 DEF Shown, With, Contract!TextOf
<1>2. CASE ~ValidEnc(EncOf[id])
  BY <1>2 DEF Shown, With, Contract!TextOf
<1> QED
  BY <1>1, <1>2

LEMMA EntryOfFact ==
  ASSUME NEW t, NEW id \in FoundIds(t)
  PROVE  EntryOf(t, id) \in found[t] /\ EntryOf(t, id).id = id
<1>1. \E entry \in found[t] : entry.id = id
  BY DEF FoundIds
<1> QED
  BY <1>1 DEF EntryOf

LEMMA MinFact ==
  ASSUME NEW S \in SUBSET Nat, S # {}
  PROVE  Min(S) \in S /\ \A x \in S : Min(S) <= x
<1> DEFINE Smaller == OpToRel(<, Nat)
<1>1. \A k, n \in Nat : <<k, n>> \in Smaller <=> k < n
  BY DEF OpToRel
<1>2. IsWellFoundedOn(Smaller, Nat)
  BY NatLessThanWellFounded
<1> HIDE DEF Smaller
<1>3. PICK x \in S : \A y \in S : ~(<<y, x>> \in Smaller)
  BY <1>2, WFMin, Zenon
<1>4. \A y \in S : x <= y
  <2>1. \A y \in S : x \in Nat /\ y \in Nat /\ ~(y < x)
    BY <1>1, <1>3, Zenon
  <2> QED
    BY <2>1
<1> QED
  BY <1>4 DEF Min

\* What the invariant says of the members found, as the contract puts it.
LEMMA MemberFact ==
  ASSUME DeriveKey = ReferenceKey, IInv, NEW t \in Tasks, stage[t] \in MemberStages,
         NEW id \in FoundIds(t)
  PROVE  LET entry == EntryOf(t, id)
         IN  /\ entry.id = id
             /\ Contract!MayTell(Channel(t), id, entry.from, always[t], ever[t])
             /\ entry.text = Contract!TextOf(id, entry.from)
<1>1. TellInv(t) /\ WorkInv(t)
  BY DEF IInv, TaskInv
<1> DEFINE entry == EntryOf(t, id)
<1>2. entry \in found[t] /\ entry.id = id
  BY EntryOfFact
<1>3. id \in Ids
  BY <1>1, ListedFact DEF WorkInv
<1> HIDE DEF entry
<1>4. /\ Contract!MayTell(Channel(t), id, entry.from, always[t], ever[t])
      /\ entry.text = IF entry.from \in Contract!Encrypted
                      THEN Shown(EncOf[id], Self) ELSE "clear"
  BY <1>1, <1>2 DEF TellInv
<1>5. entry.text = Contract!TextOf(id, entry.from)
  BY <1>3, <1>4, TextFact
<1> USE DEF entry
<1> QED
  BY <1>2, <1>4, <1>5

\* The list of members: all of them, or the first one that is nowhere.
LEMMA CollectAllowed ==
  ASSUME DeriveKey = ReferenceKey, IInv, NEW t \in Tasks, Collect(t)
  PROVE  Contract!Answer(t)
<1> DEFINE q == request[t]
           A == always[t]
           E == ever[t]
           gone == {i \in 1..Len(ids[t]) : ids[t][i] \notin FoundIds(t)}
<1>1. /\ PlaceInv(t) /\ MissInv(t) /\ stage[t] = "collect" /\ ids[t] \in Seq(Nat)
      /\ UNCHANGED <<dataVars, asked, histVars>> /\ q \in Requests
  BY DEF Collect, Query, At, IInv, TypeInv, TaskInv
<1>2. /\ q.kind \in {"users", "channel"} /\ ids[t] = Listed(q) /\ Channel(t) = q.channel
      /\ q.kind = "channel" => NamedByMembers(q.channel) /\ <<"chat_rooms", q.channel>> \in E
  BY <1>1 DEF PlaceInv, MemberStages, Channel
<1>3. CASE gone = {}
  <2>1. Return(t, Ok(Members(t)))
    BY <1>3 DEF Collect
  <2>2. Len(ids[t]) \in Nat
    BY <1>1
  <2>3. Len(Members(t)) = Len(ids[t]) /\ \A i \in 1..Len(ids[t]) : Members(t)[i] = EntryOf(t, ids[t][i])
    BY <2>2 DEF Members
  <2>4. \A i \in 1..Len(ids[t]) : ids[t][i] \in FoundIds(t)
    BY <1>3
  <2>5. \A i \in 1..Len(ids[t]) :
          /\ Members(t)[i].id = ids[t][i]
          /\ Contract!MayTell(q.channel, ids[t][i], Members(t)[i].from, A, E)
          /\ Members(t)[i].text = Contract!TextOf(ids[t][i], Members(t)[i].from)
    BY <1>1, <1>2, <2>3, <2>4, MemberFact DEF MemberStages
  <2>6. Contract!TellsMembers(q.channel, Listed(q), Members(t), A, E)
    BY <1>2, <2>3, <2>5 DEF Contract!TellsMembers
  <2>7. Contract!Tells(q, Members(t), A, E)
    <3>1. CASE q.kind = "users"
      BY <3>1, <2>6 DEF Contract!Tells, Listed
    <3>2. CASE q.kind = "channel"
      BY <1>2, <3>2, <2>6, SameWords DEF Contract!Tells, Listed, NamedByMembers
    <3> QED
      BY <1>2, <3>1, <3>2
  <2> QED
    BY <1>1, <2>1, <2>7, AnswerRefines, OutcomeFact DEF Contract!Allowed
<1>4. CASE gone # {}
  <2> DEFINE first == Min(gone)
             id    == ids[t][first]
  <2>1. Return(t, Missing(id))
    BY <1>4 DEF Collect
  <2>2. first \in 1..Len(ids[t]) /\ id \notin FoundIds(t)
    <3>1. gone \in SUBSET Nat
      OBVIOUS
    <3>2. first \in gone
      <4> HIDE DEF gone
      <4> QED
        BY <1>4, <3>1, MinFact
    <3> QED
      BY <3>2
  <2> HIDE DEF first
  <2>3. id \in ToSet(ids[t]) \ FoundIds(t)
    BY <1>1, <2>2 DEF ToSet
  <2> HIDE DEF gone
  <2>4. Contract!MayMiss(q.channel, id, A)
    BY <1>1, <1>2, <2>3 DEF MissInv
  <2>5. \E i \in 1..Len(Listed(q)) : id = Listed(q)[i] /\ Contract!MayMiss(q.channel, id, A)
    BY <1>2, <2>2, <2>4
  <2> HIDE DEF id
  <2>6. Contract!MayMissSomething(q, Missing(id), A)
    <3>1. CASE q.kind = "users"
      BY <3>1, <2>5, OutcomeFact DEF Contract!MayMissSomething, Listed
    <3>2. CASE q.kind = "channel"
      BY <1>2, <3>2, <2>5, SameWords, OutcomeFact DEF Contract!MayMissSomething, Listed
    <3> QED
      BY <1>2, <3>1, <3>2
  <2> QED
    BY <1>1, <2>1, <2>6, AnswerRefines, OutcomeFact DEF Contract!Allowed
<1> QED
  BY <1>3, <1>4

-----------------------------------------------------------------------------
(* Decrypt.                                                                *)

LEMMA TakeAllowed ==
  ASSUME DeriveKey = ReferenceKey, IInv, NEW t \in Tasks, NEW id, Decrypting(t, id),
         Take(t, id, Shown(Wanted(t, id)[1], Wanted(t, id)[2])),
         UNCHANGED <<dataVars, asked, ids, todo, histVars>>
  PROVE  Contract!Answer(t) \/ UNCHANGED Contract!contractVars
<1> DEFINE q == request[t]
           text == Shown(Wanted(t, id)[1], Wanted(t, id)[2])
           items == <<Entry(id, "decrypt", text)>>
<1>1. q \in Requests /\ PlaceInv(t) /\ UNCHANGED <<present, request, asked, always, ever, broke>>
  BY DEF IInv, TypeInv, TaskInv, dataVars, histVars
<1>2. CASE stage[t] = "decrypt"
  <2>1. Return(t, Ok(items)) /\ q.kind = "decrypt"
    BY <1>1, <1>2 DEF Take, At, PlaceInv
  <2>2. Wanted(t, id)[1] = q.enc
    BY <1>2 DEF Wanted, At
  <2>3. WellFormed(q) <=> ValidEnc(q.enc)
    BY <2>1 DEF WellFormed
  <2>4. text = IF WellFormed(q) THEN "clear" ELSE "same"
    BY <2>2, <2>3 DEF Shown, With
  <2>5. Len(items) = 1 /\ items[1].text = text
    BY OutcomeFact
  <2> HIDE DEF items, text
  <2>6. Contract!Tells(q, items, always[t], ever[t])
    BY <1>1, <2>1, <2>4, <2>5, SameWords DEF Contract!Tells
  <2> QED
    BY <1>1, <1>2, <2>1, <2>6, AnswerRefines, OutcomeFact DEF Contract!Allowed
<1>3. CASE stage[t] # "decrypt"
  BY <1>1, <1>3 DEF Take, At, Contract!contractVars
<1> QED
  BY <1>2, <1>3

LEMMA DecryptAllowed ==
  ASSUME DeriveKey = ReferenceKey, IInv, NEW t \in Tasks, Decrypt(t)
  PROVE  Contract!Answer(t) \/ UNCHANGED Contract!contractVars
<1>1. PICK id \in Ids : \/ DecryptInvalid(t, id) \/ DecryptHit(t, id)
                        \/ DecryptMiss(t, id) \/ DecryptInsert(t, id)
  BY DEF Decrypt
<1> DEFINE text == Shown(Wanted(t, id)[1], Wanted(t, id)[2])
           Same == UNCHANGED <<dataVars, asked, ids, todo, histVars>>
<1>2. CASE DecryptInvalid(t, id)
  <2>1. Decrypting(t, id) /\ Take(t, id, text) /\ Same
    BY <1>2 DEF DecryptInvalid, Shown
  <2> QED
    BY <2>1, TakeAllowed
<1>3. CASE DecryptHit(t, id)
  <2>1. keys[SaltFor(t, id)] = DeriveKey[SaltFor(t, id)]
    BY <1>3 DEF DecryptHit, Hit, IInv, CacheInv
  <2>2. Decrypting(t, id) /\ Take(t, id, text) /\ Same
    BY <1>3, <2>1 DEF DecryptHit, Shown, SaltFor
  <2> QED
    BY <2>2, TakeAllowed
<1>4. CASE DecryptMiss(t, id)
  BY <1>4 DEF DecryptMiss, dataVars, histVars, Contract!contractVars
<1>5. CASE DecryptInsert(t, id)
  <2>1. Decrypting(t, id) /\ Take(t, id, text) /\ Same
    BY <1>5 DEF DecryptInsert, Shown, SaltFor
  <2> QED
    BY <2>1, TakeAllowed
<1> QED
  BY <1>1, <1>2, <1>3, <1>4, <1>5

-----------------------------------------------------------------------------
(* get_channel and get_channel_members.                                    *)

LEMMA NoRowAllowed ==
  ASSUME IInv, NEW t \in Tasks, NEW table \in {"chat_rooms", "open_link"}, NoRow(t, table)
  PROVE  Contract!Answer(t)
<1> DEFINE q == request[t]
           A == always[t]
<1>1. /\ PlaceInv(t) /\ stage[t] = table /\ Return(t, Error("failed"))
      /\ UNCHANGED <<dataVars, asked, histVars>> /\ ~(RowsOf(t, table) \subseteq present)
  BY DEF NoRow, Query, At, IInv, TaskInv
<1>2. ~(RowsOf(t, table) \subseteq A)
  BY <1>1, NowFact
<1>3. q.kind = "channel" /\ (table = "open_link" => Rooms[q.channel].om)
  BY <1>1 DEF PlaceInv, Channel
<1>4. Contract!MayFail(q, A)
  BY <1>2, <1>3 DEF Contract!MayFail, RowsOf, Channel
<1> QED
  BY <1>1, <1>4, AnswerRefines, OutcomeFact DEF Contract!Allowed

LEMMA ChannelMembersAllowed ==
  ASSUME IInv, NEW t \in Tasks, ChannelMembers(t)
  PROVE  Contract!Answer(t)
<1> DEFINE q == request[t]
           items == <<Entry(q.channel, "chat_rooms", "clear")>>
<1>1. /\ stage[t] = "members" /\ q.kind = "members"
      /\ UNCHANGED <<dataVars, asked, histVars>>
      /\ always[t] \subseteq present /\ present \subseteq ever[t]
  BY NowFact DEF ChannelMembers, Query, At, IInv, TaskInv, PlaceInv
<1>2. CASE <<"chat_rooms", q.channel>> \in present
  <2>1. Return(t, Ok(items))
    BY <1>2 DEF ChannelMembers, Channel
  <2>2. Len(items) = 1 /\ items[1].id = q.channel
    BY OutcomeFact
  <2> HIDE DEF items
  <2>3. Contract!Tells(q, items, always[t], ever[t])
    BY <1>1, <1>2, <2>2 DEF Contract!Tells
  <2> QED
    BY <1>1, <2>1, <2>3, AnswerRefines, OutcomeFact DEF Contract!Allowed
<1>3. CASE <<"chat_rooms", q.channel>> \notin present
  <2>1. Return(t, Error("failed"))
    BY <1>3 DEF ChannelMembers, Channel
  <2>2. Contract!MayFail(q, always[t])
    BY <1>1, <1>3 DEF Contract!MayFail
  <2> QED
    BY <1>1, <2>1, <2>2, AnswerRefines, OutcomeFact DEF Contract!Allowed
<1> QED
  BY <1>2, <1>3

LEMMA ChannelRowAllowed ==
  ASSUME IInv, NEW t \in Tasks, ChannelRow(t)
  PROVE  Contract!Answer(t) \/ UNCHANGED Contract!contractVars
<1> DEFINE q == request[t]
           c == Channel(t)
<1>1. /\ stage[t] = "chat_rooms" /\ q.kind = "channel" /\ c = q.channel
      /\ UNCHANGED <<dataVars, asked, histVars>> /\ <<"chat_rooms", c>> \in ever[t]
  BY NowFact DEF ChannelRow, RowsOf, Query, At, IInv, TaskInv, PlaceInv, Channel
<1>2. CASE Rooms[c].om \/ NamedByMembers(c)
  BY <1>1, <1>2 DEF ChannelRow, dataVars, histVars, Contract!contractVars
<1>3. CASE ~Rooms[c].om /\ ~NamedByMembers(c)
  <2>1. Return(t, Ok(<<>>))
    BY <1>3 DEF ChannelRow
  <2>2. Contract!Tells(q, <<>>, always[t], ever[t])
    BY <1>1, <1>3, SameWords DEF Contract!Tells
  <2> QED
    BY <1>1, <2>1, <2>2, AnswerRefines, OutcomeFact DEF Contract!Allowed
<1> QED
  BY <1>2, <1>3

LEMMA OpenLinkAllowed ==
  ASSUME IInv, NEW t \in Tasks, OpenLink(t)
  PROVE  Contract!Answer(t)
<1> DEFINE q == request[t]
<1>1. /\ stage[t] = "open_link" /\ q.kind = "channel" /\ Rooms[q.channel].om
      /\ <<"chat_rooms", q.channel>> \in ever[t] /\ <<"open_link", q.channel>> \in ever[t]
      /\ UNCHANGED <<dataVars, asked, histVars>> /\ Return(t, Ok(<<>>))
  BY NowFact DEF OpenLink, RowsOf, Query, At, IInv, TaskInv, PlaceInv, Channel
<1>2. ~Contract!NamedByMembers(q.channel)
  BY <1>1 DEF Contract!NamedByMembers
<1>3. Contract!Tells(q, <<>>, always[t], ever[t])
  BY <1>1, <1>2 DEF Contract!Tells
<1> QED
  BY <1>1, <1>3, AnswerRefines, OutcomeFact DEF Contract!Allowed

-----------------------------------------------------------------------------
(* get_messages.                                                           *)

LEMMA MessagesReadAllowed ==
  ASSUME IInv, NEW t \in Tasks, MessagesRead(t)
  PROVE  Contract!Answer(t) \/ UNCHANGED Contract!contractVars
<1> DEFINE q == request[t]
           gone == {i \in 1..Len(ids[t]) : ids[t][i] \notin FoundIds(t)}
<1>1. /\ stage[t] = "chat_logs" /\ q.kind = "messages" /\ ids[t] = q.ids
      /\ ids[t] \in Seq(Nat) /\ todo[t] = {} /\ fetched[t] = {}
      /\ UNCHANGED <<dataVars, asked, histVars>>
      /\ \A id \in Missed(t) : <<"chat_logs", id>> \notin always[t] \/ ChannelOf[id] # Channel(t)
  BY DEF MessagesRead, Query, At, IInv, TypeInv, TaskInv, PlaceInv, MessageInv, WorkInv
<1>2. CASE gone = {}
  BY <1>1, <1>2 DEF MessagesRead, dataVars, histVars, Contract!contractVars
<1>3. CASE gone # {}
  <2> DEFINE first == Min(gone)
             id    == ids[t][first]
  <2>1. Return(t, Missing(id))
    BY <1>3 DEF MessagesRead
  <2>2. first \in 1..Len(ids[t]) /\ id \notin FoundIds(t)
    <3>1. gone \in SUBSET Nat
      OBVIOUS
    <3>2. first \in gone
      <4> HIDE DEF gone
      <4> QED
        BY <1>3, <3>1, MinFact
    <3> QED
      BY <3>2
  <2> HIDE DEF first, gone
  <2>3. id \in Missed(t)
    BY <1>1, <2>2 DEF Missed, ToSet
  <2>4. <<"chat_logs", id>> \notin always[t] \/ ChannelOf[id] # q.channel
    BY <1>1, <2>3 DEF Channel
  <2>5. \E i \in 1..Len(q.ids) : id = q.ids[i]
    BY <1>1, <2>2
  <2> HIDE DEF id
  <2>6. Contract!MayMissSomething(q, Missing(id), always[t])
    <3>1. q.kind = "messages" /\ Missing(id).id = id
      BY <1>1, OutcomeFact
    <3>2. \E i \in 1..Len(q.ids) :
            /\ Missing(id).id = q.ids[i]
            /\ \/ <<"chat_logs", Missing(id).id>> \notin always[t]
               \/ ChannelOf[Missing(id).id] # q.channel
      BY <2>4, <2>5, <3>1
    <3> HIDE DEF q
    <3> QED
      BY <3>1, <3>2 DEF Contract!MayMissSomething
  <2> QED
    BY <1>1, <2>1, <2>6, AnswerRefines, OutcomeFact DEF Contract!Allowed
<1> QED
  BY <1>2, <1>3

LEMMA MapMessagesAllowed ==
  ASSUME IInv, NEW t \in Tasks, MapMessages(t)
  PROVE  Contract!Answer(t)
<1> DEFINE q == request[t]
<1>1. /\ stage[t] = "map" /\ q.kind = "messages" /\ ids[t] = q.ids /\ ids[t] \in Seq(Nat)
      /\ UNCHANGED <<dataVars, asked, histVars>> /\ Return(t, Ok(Members(t)))
      /\ ToSet(ids[t]) \subseteq FoundIds(t)
      /\ \A entry \in found[t] :
            /\ entry.from = "chat_logs" /\ entry.text = "clear"
            /\ <<"chat_logs", entry.id>> \in ever[t] /\ ChannelOf[entry.id] = q.channel
      /\ found[t] \subseteq Entries
  BY DEF MapMessages, Query, At, IInv, TypeInv, TaskInv, PlaceInv, MessageInv, Channel
<1>2. /\ Len(Members(t)) = Len(q.ids)
      /\ \A i \in 1..Len(q.ids) : Members(t)[i] = EntryOf(t, q.ids[i])
  BY <1>1 DEF Members
<1>3. ASSUME NEW i \in 1..Len(q.ids)
      PROVE  /\ Members(t)[i] = [id |-> q.ids[i], from |-> "chat_logs", text |-> "clear"]
             /\ <<"chat_logs", q.ids[i]>> \in ever[t] /\ ChannelOf[q.ids[i]] = q.channel
  <2>1. q.ids[i] \in FoundIds(t)
    BY <1>1 DEF ToSet
  <2> DEFINE entry == EntryOf(t, q.ids[i])
  <2>2. entry \in found[t] /\ entry.id = q.ids[i]
    BY <2>1, EntryOfFact
  <2>3. Members(t)[i] = entry
    BY <1>2
  <2> HIDE DEF entry
  <2>4. entry \in Entries
    BY <1>1, <2>2
  <2>5. entry = [id |-> entry.id, from |-> entry.from, text |-> entry.text]
    BY <2>4 DEF Entries
  <2>6. entry.from = "chat_logs" /\ entry.text = "clear"
        /\ <<"chat_logs", entry.id>> \in ever[t] /\ ChannelOf[entry.id] = q.channel
    BY <1>1, <2>2
  <2> QED
    BY <2>2, <2>3, <2>5, <2>6
<1>4. Contract!Tells(q, Members(t), always[t], ever[t])
  BY <1>1, <1>2, <1>3 DEF Contract!Tells, Contract!TellsMessages
<1> QED
  BY <1>1, <1>4, AnswerRefines, OutcomeFact DEF Contract!Allowed

-----------------------------------------------------------------------------
(* raw_query.                                                              *)

\* A list of all members of a finite set, in ascending order.
LEMMA OrderFact ==
  ASSUME NEW rows \in SUBSET Nat, IsFiniteSet(rows),
         NEW order \in [1..Cardinality(rows) -> rows],
         \A i, j \in 1..Cardinality(rows) : i < j => order[i] < order[j]
  PROVE  \A m \in rows : \E i \in 1..Cardinality(rows) : order[i] = m
<1> DEFINE n == Cardinality(rows)
<1>1. n \in Nat
  BY FS_CardinalityType
<1>2. IsFiniteSet(1..n) /\ Cardinality(1..n) = n
  BY <1>1, FS_Interval
<1>3. order \in Injection(1..n, rows)
  <2>1. ASSUME NEW i \in 1..n, NEW j \in 1..n, order[i] = order[j]
        PROVE  i = j
    <3>1. order[i] \in Nat /\ order[j] \in Nat /\ DOMAIN order = 1..n
      OBVIOUS
    <3>2. ~(i < j) /\ ~(j < i)
      BY <2>1, <3>1
    <3> QED
      BY <1>1, <3>2
  <2> QED
    BY <2>1 DEF Injection, IsInjective
<1>4. order \in Surjection(1..n, rows)
  BY <1>2, <1>3, FS_Injection
<1> QED
  BY <1>4 DEF Surjection

Below(S, m) == {x \in S : x < m}

\* The first rows are no more than the limit, and with one that is left out
\* they are as many, and all in front of it.
LEMMA FirstFact ==
  ASSUME NEW S \in SUBSET Nat, IsFiniteSet(S), NEW limit \in Nat,
         NEW order \in [1..Cardinality(First(S, limit)) -> First(S, limit)],
         \A i, j \in DOMAIN order : i < j => order[i] < order[j]
  PROVE  /\ IsFiniteSet(First(S, limit))
         /\ Cardinality(First(S, limit)) \in Nat /\ Cardinality(First(S, limit)) <= limit
         /\ \A m \in S \ First(S, limit) :
                /\ Cardinality(First(S, limit)) = limit
                /\ \A x \in First(S, limit) : x < m
<1> DEFINE rows == First(S, limit)
<1>1. \A m : m \in rows <=> m \in S /\ Cardinality(Below(S, m)) < limit
  BY DEF First, Below
<1>2. \A m : Below(S, m) \subseteq S /\ \A x : x \in Below(S, m) <=> x \in S /\ x < m
  BY DEF Below
<1>3. /\ order \in [1..Cardinality(rows) -> rows]
      /\ \A i, j \in 1..Cardinality(rows) : i < j => order[i] < order[j]
  OBVIOUS
<1> HIDE DEF rows
<1>4. /\ rows \subseteq S /\ IsFiniteSet(rows) /\ Cardinality(rows) \in Nat
      /\ \A m : IsFiniteSet(Below(S, m)) /\ Cardinality(Below(S, m)) \in Nat
  BY <1>1, <1>2, FS_Subset, FS_CardinalityType
<1>5. ASSUME NEW m \in S \ rows, NEW x \in rows
      PROVE  x < m
  <2>1. m \in Nat /\ x \in Nat /\ x # m
    BY <1>1
  <2>2. CASE m < x
    <3>1. Below(S, m) \subseteq Below(S, x)
      <4> SUFFICES ASSUME NEW y \in Below(S, m) PROVE y \in Below(S, x)
        OBVIOUS
      <4>1. y \in S /\ y < m /\ y \in Nat
        BY <1>2
      <4> QED
        BY <1>2, <2>1, <2>2, <4>1
    <3>2. Cardinality(Below(S, m)) <= Cardinality(Below(S, x))
      BY <1>4, <3>1, FS_Subset
    <3>3. Cardinality(Below(S, x)) < limit
      BY <1>1
    <3>4. Cardinality(Below(S, m)) < limit
      BY <1>4, <3>2, <3>3
    <3> QED
      BY <1>1, <3>4
  <2> QED
    BY <2>1, <2>2
<1>6. ASSUME rows # S
      PROVE  Cardinality(rows) >= limit
  <2> DEFINE m == Min(S \ rows)
  <2>1. m \in S \ rows /\ \A x \in S \ rows : m <= x
    BY <1>4, <1>6, MinFact
  <2> HIDE DEF m
  <2>2. Below(S, m) \subseteq rows
    <3> SUFFICES ASSUME NEW x \in Below(S, m) PROVE x \in rows
      OBVIOUS
    <3>1. x \in S /\ x < m /\ x \in Nat /\ m \in Nat
      BY <1>2, <2>1
    <3>2. ~(m <= x)
      BY <3>1
    <3> QED
      BY <2>1, <3>1, <3>2
  <2>3. Cardinality(Below(S, m)) <= Cardinality(rows)
    BY <1>4, <2>2, FS_Subset
  <2>4. ~(Cardinality(Below(S, m)) < limit)
    BY <1>1, <2>1
  <2> QED
    BY <1>4, <2>3, <2>4
<1>7. Cardinality(rows) <= limit
  <2>1. CASE rows = {}
    BY <2>1, FS_EmptySet
  <2>2. CASE rows # {}
    <3> DEFINE n    == Cardinality(rows)
               last == order[n]
    <3>1. n \in 1..n
      BY <1>4, <2>2, FS_EmptySet
    <3>2. last \in rows /\ \A x \in rows : x <= last
      <4>1. last \in rows
        BY <3>1, <1>3
      <4>2. ASSUME NEW x \in rows
            PROVE  x <= last
        <5>1. PICK i \in 1..n : order[i] = x
          <6>1. rows \in SUBSET Nat
            BY <1>4
          <6>2. \A m \in rows : \E i \in 1..Cardinality(rows) : order[i] = m
            BY <1>3, <1>4, <6>1, OrderFact
          <6> QED
            BY <6>2
        <5>2. i = n \/ i < n
          BY <3>1
        <5>3. x \in Nat /\ last \in Nat
          BY <1>4, <4>1
        <5> QED
          BY <1>3, <3>1, <5>1, <5>2, <5>3
      <4> QED
        BY <4>1, <4>2
    <3> HIDE DEF last
    <3>3. rows \subseteq Below(S, last) \cup {last}
      <4> SUFFICES ASSUME NEW x \in rows, x # last PROVE x \in Below(S, last)
        OBVIOUS
      <4>1. x \in Nat /\ last \in Nat /\ x <= last /\ x \in S
        BY <1>4, <3>2
      <4> QED
        BY <1>2, <4>1
    <3>4. last \notin Below(S, last)
      <4>1. last \in Nat
        BY <1>4, <3>2
      <4>2. ~(last < last)
        BY <4>1
      <4> QED
        BY <1>2, <4>2
    <3>5. /\ IsFiniteSet(Below(S, last) \cup {last})
          /\ Cardinality(Below(S, last) \cup {last}) = Cardinality(Below(S, last)) + 1
      BY <1>4, <3>4, FS_AddElement
    <3>6. Cardinality(rows) <= Cardinality(Below(S, last)) + 1
      BY <3>3, <3>5, FS_Subset
    <3>7. Cardinality(Below(S, last)) < limit
      BY <1>1, <3>2
    <3> QED
      BY <1>4, <3>6, <3>7
  <2> QED
    BY <2>1, <2>2
<1>8. \A m \in S \ rows : Cardinality(rows) = limit
  BY <1>4, <1>6, <1>7
<1> USE DEF rows
<1> QED
  BY <1>4, <1>5, <1>7, <1>8

LEMMA RawQueryAllowed ==
  ASSUME IInv, NEW t \in Tasks, RawQuery(t)
  PROVE  Contract!Answer(t)
<1> DEFINE q    == request[t]
           A    == always[t]
           E    == ever[t]
           S    == {m \in Messages : <<"chat_logs", m>> \in present}
           rows == First(S, q.limit)
           n    == Cardinality(rows)
<1>1. /\ TypeInv /\ stage[t] = "raw" /\ q \in Requests /\ q.kind = "raw" /\ WellFormed(q)
      /\ UNCHANGED <<dataVars, asked, histVars>>
      /\ A \subseteq present /\ present \subseteq E
  BY NowFact DEF RawQuery, Query, At, IInv, TypeInv, HoldingInv, TaskInv, PlaceInv
<1>2. q.limit \in Nat
  BY <1>1, RequestFact DEF Calls
<1>3. S \in SUBSET Nat /\ IsFiniteSet(S)
  BY ReadConstants, FS_Subset
<1>4. PICK order \in [1..n -> rows] :
        /\ \A i, j \in DOMAIN order : i < j => order[i] < order[j]
        /\ Return(t, Ok([i \in DOMAIN order |-> Entry(order[i], "chat_logs", "clear")]))
  BY DEF RawQuery
<1> DEFINE items == [i \in DOMAIN order |-> Entry(order[i], "chat_logs", "clear")]
<1>5. /\ DOMAIN order = 1..n /\ \A i \in 1..n : order[i] \in rows
      /\ \A i, j \in 1..n : i < j => order[i] < order[j]
  BY <1>4
<1>6. \A m \in rows : m \in S
  BY DEF First
<1>7. \A m \in Messages : <<"chat_logs", m>> \in present => m \in S
  OBVIOUS
<1>8. \A m \in S : <<"chat_logs", m>> \in E
  BY <1>1
<1>9. /\ IsFiniteSet(rows) /\ n \in Nat /\ n <= q.limit
      /\ \A m \in S \ rows : n = q.limit /\ \A x \in rows : x < m
  <2> HIDE DEF S, q
  <2> QED
    BY <1>2, <1>3, <1>4, FirstFact
<1> HIDE DEF S, rows
<1>10. \A m \in rows : \E i \in 1..n : order[i] = m
  <2>1. rows \in SUBSET Nat
    BY <1>3, <1>6
  <2> QED
    BY <1>4, <1>5, <1>9, <2>1, OrderFact
<1> HIDE DEF n
<1>11. Len(items) = n /\ \A i \in 1..n : items[i].id = order[i]
  BY <1>5, <1>9, OutcomeFact
<1>12. Return(t, Ok(items))
  BY <1>4
<1> HIDE DEF items
<1>13. \A row \in A : row[1] = "chat_logs" =>
        \/ \E i \in 1..n : items[i].id = row[2]
        \/ n = q.limit /\ (q.limit = 0 \/ items[q.limit].id < row[2])
  <2> SUFFICES ASSUME NEW row \in A, row[1] = "chat_logs"
               PROVE  \/ \E i \in 1..n : items[i].id = row[2]
                      \/ n = q.limit /\ (q.limit = 0 \/ items[q.limit].id < row[2])
    OBVIOUS
  <2>1. row \in Rows /\ row \in present
    BY <1>1 DEF TypeInv
  <2>2. row[2] \in Messages /\ row = <<"chat_logs", row[2]>>
    BY <2>1 DEF Rows
  <2>3. row[2] \in S
    BY <1>7, <2>1, <2>2
  <2>4. CASE row[2] \in rows
    BY <1>10, <1>11, <2>4
  <2>5. CASE row[2] \notin rows
    <3>1. n = q.limit /\ \A x \in rows : x < row[2]
      BY <1>9, <2>3, <2>5
    <3>2. CASE n # 0
      <4>1. n \in 1..n
        BY <1>9, <3>2
      <4> QED
        BY <1>5, <1>11, <3>1, <4>1
    <3> QED
      BY <3>1, <3>2
  <2> QED
    BY <2>4, <2>5
<1>14. ASSUME NEW i \in 1..n
       PROVE  /\ <<"chat_logs", items[i].id>> \in E
              /\ i > 1 => items[i - 1].id < items[i].id
  <2>1. <<"chat_logs", items[i].id>> \in E
    BY <1>5, <1>6, <1>8, <1>11
  <2>2. ASSUME i > 1
        PROVE  items[i - 1].id < items[i].id
    <3>1. i - 1 \in 1..n /\ i - 1 < i
      BY <1>9, <2>2
    <3> QED
      BY <1>5, <1>11, <3>1
  <2> QED
    BY <2>1, <2>2
<1>15. Contract!TellsFirstRows(q, items, A, E)
  BY <1>9, <1>11, <1>13, <1>14 DEF Contract!TellsFirstRows
<1>16. Contract!Tells(q, items, A, E)
  <2> HIDE DEF q
  <2> QED
    BY <1>1, <1>15, SameWords DEF Contract!Tells
<1> QED
  BY <1>1, <1>12, <1>16, AnswerRefines, OutcomeFact DEF Contract!Allowed

-----------------------------------------------------------------------------
(* GetCredential.                                                          *)

\* A file that cannot be read has not been there all the time.
LEMMA NoFileAllowed ==
  ASSUME IInv, NEW t \in Tasks, NEW table \in {"device", "aot"}, stage[t] = table,
         \A login \in Logins : <<table, login>> \notin present,
         Return(t, Error("failed")), UNCHANGED <<dataVars, asked, histVars>>
  PROVE  Contract!Answer(t)
<1>1. request[t].kind = "credential" /\ always[t] \subseteq present /\ always[t] \subseteq Rows
  BY NowFact DEF IInv, TypeInv, TaskInv, PlaceInv
<1>2. \A row \in always[t] : row[1] # table
  <2> SUFFICES ASSUME NEW row \in always[t], row[1] = table PROVE FALSE
    OBVIOUS
  <2>1. row \in Rows /\ row \in present
    BY <1>1
  <2>2. row = <<table, row[2]>> /\ row[2] \in Logins
    BY <2>1 DEF Rows
  <2> QED
    BY <2>1, <2>2
<1>3. Contract!MayFail(request[t], always[t])
  BY <1>1, <1>2 DEF Contract!MayFail
<1> QED
  BY <1>3, AnswerRefines, OutcomeFact DEF Contract!Allowed

LEMMA ReadDeviceAllowed ==
  ASSUME IInv, NEW t \in Tasks, ReadFile(t, "device", "aot")
  PROVE  Contract!Answer(t) \/ UNCHANGED Contract!contractVars
<1>1. stage[t] = "device" /\ UNCHANGED <<dataVars, asked, histVars>>
  BY DEF ReadFile, At
<1>2. CASE UNCHANGED answer
  BY <1>1, <1>2 DEF dataVars, histVars, Contract!contractVars
<1>3. CASE /\ \A login \in Logins : <<"device", login>> \notin present
           /\ Return(t, Error("failed"))
  BY <1>1, <1>3, NoFileAllowed
<1> QED
  BY <1>2, <1>3 DEF ReadFile

LEMMA ReadTokensAllowed ==
  ASSUME IInv, NEW t \in Tasks, ReadFile(t, "aot", "done")
  PROVE  Contract!Answer(t)
<1> DEFINE q == request[t]
           E == ever[t]
<1>1. /\ stage[t] = "aot" /\ UNCHANGED <<dataVars, asked, histVars>> /\ TypeInv
      /\ q.kind = "credential" /\ ids[t] \in Seq(Nat)
      /\ Len(ids[t]) = 1 /\ <<"device", ids[t][1]>> \in E /\ present \subseteq E
  BY NowFact DEF ReadFile, At, IInv, TypeInv, TaskInv, PlaceInv
<1>2. CASE /\ \A login \in Logins : <<"aot", login>> \notin present
           /\ Return(t, Error("failed"))
  BY <1>1, <1>2, NoFileAllowed
<1>3. CASE \E login \in Logins :
              /\ <<"aot", login>> \in present
              /\ ids' = [ids EXCEPT ![t] = Append(@, login)]
              /\ Return(t, Ok([i \in 1..2 |->
                                 Entry(ids'[t][i], <<"device", "aot">>[i], "clear")]))
  <2>1. PICK login \in Logins :
              /\ <<"aot", login>> \in present
              /\ ids' = [ids EXCEPT ![t] = Append(@, login)]
              /\ Return(t, Ok([i \in 1..2 |->
                                 Entry(ids'[t][i], <<"device", "aot">>[i], "clear")]))
    BY <1>3
  <2>2. login \in Nat /\ ids'[t] = Append(ids[t], login)
    BY <1>1, <2>1, ReadConstants DEF TypeInv
  <2>3. ids'[t][1] = ids[t][1] /\ ids'[t][2] = login
    BY <1>1, <2>2, AppendFact
  <2> DEFINE items == [i \in 1..2 |-> Entry(ids'[t][i], <<"device", "aot">>[i], "clear")]
  <2>4. Len(items) = 2 /\ items[1].id = ids[t][1] /\ items[2].id = login
    BY <2>3, OutcomeFact
  <2>5. Return(t, Ok(items))
    BY <2>1
  <2> HIDE DEF items
  <2>6. Contract!TellsCredential(items, E)
    BY <1>1, <2>1, <2>4 DEF Contract!TellsCredential
  <2>7. Contract!Tells(q, items, always[t], E)
    BY <1>1, <2>6 DEF Contract!Tells
  <2> QED
    BY <1>1, <2>5, <2>7, AnswerRefines, OutcomeFact DEF Contract!Allowed
<1> QED
  BY <1>2, <1>3 DEF ReadFile

-----------------------------------------------------------------------------
(* The refinement.                                                         *)

LEMMA BreaksRefines ==
  ASSUME IInv, NEW t \in Tasks, Breaks(t)
  PROVE  Contract!Break(t)
<1>1. stage[t] \notin {"idle", "done"}
  BY DEF Breaks, NeedsConnection, OnConnection
<1>2. /\ answer = [u \in Tasks |-> answer[u]] /\ t \in asked /\ answer[t] = <<>>
  BY <1>1 DEF IInv, TypeInv, TaskInv, WorkInv
<1>3. /\ answer' = [answer EXCEPT ![t] = <<Error("failed")>>]
      /\ answer'[t] = <<Error("failed")>>
      /\ UNCHANGED <<present, request, asked, always, ever>> /\ broke' = broke \cup {t}
  BY <1>2 DEF Breaks, Return, dataVars
<1>4. Len(<<Error("failed")>>) = 1 /\ <<Error("failed")>>[1] = Error("failed")
  OBVIOUS
<1> QED
  BY <1>2, <1>3, <1>4, OutcomeFact DEF Contract!Break, Contract!Answered

\* Connections are taken, statements run and rows decrypted behind the
\* contract's back; it sees only what is asked and what is answered.
LEMMA StepRefines ==
  ASSUME DeriveKey = ReferenceKey, IInv, NEW t \in Tasks, Step(t)
  PROVE  Contract!Ask(t) \/ Contract!Answer(t) \/ UNCHANGED Contract!contractVars
<1>1. CASE Ask(t)
  BY <1>1 DEF Ask, dataVars, Contract!Ask
<1>2. CASE \/ Acquire(t) \/ Own(t) \/ UserDone(t) \/ MessageChunk(t)
           \/ \E table \in {"user", "friends", "open_chat_member"} : LoadChunk(t, table)
           \/ \E table \in {"friends", "open_chat_member"} : LoadDone(t, table)
  BY <1>2 DEF Acquire, Own, UserDone, MessageChunk, LoadChunk, LoadDone, dataVars, histVars,
     Contract!contractVars
<1> QED
  BY <1>1, <1>2, AtOnceAllowed, NoProfileAllowed, CollectAllowed, DecryptAllowed, NoRowAllowed,
     ChannelMembersAllowed, ChannelRowAllowed, OpenLinkAllowed, MessagesReadAllowed,
     MapMessagesAllowed, RawQueryAllowed, ReadDeviceAllowed, ReadTokensAllowed
     DEF Step

LEMMA ContractInit ==
  ASSUME Init
  PROVE  Contract!Init
<1>1. present \in SUBSET Rows /\ request \in [Tasks -> Requests]
  BY InvInit DEF IInv, TypeInv
<1> QED
  BY <1>1 DEF Init, Contract!Init

LEMMA ContractNext ==
  ASSUME DeriveKey = ReferenceKey, IInv, [Next]_vars
  PROVE  [Contract!Next]_Contract!contractVars
<1>1. ASSUME NEW row \in moving, InsertRow(row) \/ RemoveRow(row)
      PROVE  Contract!Write
  <2>1. PICK now \in SUBSET Rows : Changed(now)
    BY <1>1, MessengerKeeps
  <2> QED
    BY <2>1 DEF Changed, Contract!Write
<1>2. ASSUME NEW t \in Tasks, Step(t)
      PROVE  [Contract!Next]_Contract!contractVars
  BY <1>2, StepRefines DEF Contract!Next
<1>3. ASSUME NEW t \in Tasks, Breaks(t)
      PROVE  Contract!Next
  BY <1>3, BreaksRefines DEF Contract!Next
<1>4. CASE UNCHANGED vars
  BY <1>4 DEF vars, dataVars, histVars, Contract!contractVars
<1> QED
  BY <1>1, <1>2, <1>3, <1>4 DEF Next, Contract!Next

-----------------------------------------------------------------------------
(* Induction and recursion on numbers, with sets and functions in place of *)
(* predicates.                                                             *)

LEMMA SetInduction ==
  ASSUME NEW S, 0 \in S, \A n \in Nat : n \in S => n + 1 \in S
  PROVE  Nat \subseteq S
<1> SUFFICES ASSUME ~(Nat \subseteq S) PROVE FALSE
  OBVIOUS
<1> DEFINE Rest == Nat \ S
           x == Min(Rest)
<1>1. Rest \in SUBSET Nat /\ Rest # {}
  OBVIOUS
<1> HIDE DEF Rest
<1>2. x \in Rest /\ \A y \in Rest : x <= y
  BY <1>1, MinFact
<1> HIDE DEF x
<1> USE DEF Rest
<1>3. x \in Nat /\ x # 0 /\ x \notin S /\ x - 1 \in Nat /\ (x - 1) + 1 = x
  BY <1>2
<1>4. x - 1 \in S
  BY <1>2, <1>3
<1> QED
  BY <1>3, <1>4

\* The steps of a recursion over values in V, and a function that takes them.
Steps(n, V) == [1..n -> [V -> V]]

Follows(f, n, V, v, step) ==
    f \in [0..n -> V] /\ f[0] = v /\ \A i \in 1..n : f[i] = step[i][f[i - 1]]

\* There is a function for each recursion from one number to the next.
LEMMA Recursion ==
  ASSUME NEW V, NEW v \in V, NEW n \in Nat, NEW step \in Steps(n, V)
  PROVE  \E f : Follows(f, n, V, v, step)
<1> DEFINE Upto(k) == \E f \in [0..k -> V] :
                        f[0] = v /\ \A i \in 1..k : f[i] = step[i][f[i - 1]]
           S == {k \in Nat : k <= n => Upto(k)}
<1>0. step \in [1..n -> [V -> V]]
  BY DEF Steps
<1>1. 0 \in S
  <2>1. [i \in 0..0 |-> v] \in [0..0 -> V] /\ [i \in 0..0 |-> v][0] = v
    OBVIOUS
  <2>2. \A i \in 1..0 : FALSE
    OBVIOUS
  <2>3. Upto(0)
    BY <2>1, <2>2
  <2> QED
    BY <2>3
<1>2. ASSUME NEW k \in Nat, k \in S
      PROVE  k + 1 \in S
  <2>1. CASE k + 1 <= n
    <3>1. PICK f \in [0..k -> V] : f[0] = v /\ \A i \in 1..k : f[i] = step[i][f[i - 1]]
      BY <1>2, <2>1
    <3> DEFINE next == step[k + 1][f[k]]
               g == [i \in 0..(k + 1) |-> IF i = k + 1 THEN next ELSE f[i]]
    <3>2. k + 1 \in 1..n /\ f[k] \in V /\ next \in V
      BY <1>0, <2>1
    <3> HIDE DEF next
    <3>3. g \in [0..(k + 1) -> V] /\ g[0] = v
      BY <3>1, <3>2
    <3>4. ASSUME NEW i \in 1..(k + 1)
          PROVE  g[i] = step[i][g[i - 1]]
      <4>1. CASE i = k + 1
        <5>1. g[i] = next /\ g[i - 1] = f[k]
          BY <4>1
        <5> QED
          BY <4>1, <5>1 DEF next
      <4>2. CASE i # k + 1
        <5>1. i \in 1..k /\ g[i] = f[i] /\ g[i - 1] = f[i - 1]
          BY <4>2
        <5> QED
          BY <3>1, <5>1
      <4> QED
        BY <4>1, <4>2
    <3>5. Upto(k + 1)
      BY <3>3, <3>4
    <3> QED
      BY <3>5
  <2>2. CASE ~(k + 1 <= n)
    BY <2>2
  <2> QED
    BY <2>1, <2>2
<1> HIDE DEF S
<1>3. n \in S
  BY <1>1, <1>2, SetInduction
<1> QED
  BY <1>3 DEF S, Follows

\* What holds of the first value and goes on from each to the next holds of all.
LEMMA RecursionType ==
  ASSUME NEW V, NEW n \in Nat, NEW f, f = [i \in 0..n |-> f[i]], f[0] \in V,
         \A i \in 1..n : f[i - 1] \in V => f[i] \in V
  PROVE  f \in [0..n -> V]
<1> DEFINE S == {k \in Nat : k <= n => f[k] \in V}
<1>1. 0 \in S
  OBVIOUS
<1>2. ASSUME NEW k \in Nat, k \in S
      PROVE  k + 1 \in S
  <2>1. CASE k + 1 <= n
    <3>1. k + 1 \in 1..n /\ (k + 1) - 1 = k /\ f[k] \in V
      BY <1>2, <2>1
    <3> QED
      BY <3>1
  <2> QED
    BY <2>1
<1> HIDE DEF S
<1>3. Nat \subseteq S
  BY <1>1, <1>2, SetInduction
<1>4. \A k \in 0..n : f[k] \in V
  BY <1>3 DEF S
<1> QED
  BY <1>4

-----------------------------------------------------------------------------
(* Division.                                                               *)

LEMMA DivFact ==
  ASSUME NEW a \in Nat, NEW b \in Nat \ {0}
  PROVE  a = (a \div b) * b + (a % b) /\ a % b \in 0..(b - 1) /\ a \div b \in Nat
  OBVIOUS

LEMMA DivUnique ==
  ASSUME NEW b \in Nat \ {0}, NEW q \in Nat, NEW r \in 0..(b - 1)
  PROVE  (q * b + r) \div b = q /\ (q * b + r) % b = r
  OBVIOUS

LEMMA DivDiv ==
  ASSUME NEW a \in Nat, NEW p \in Nat \ {0}, NEW q \in Nat \ {0}
  PROVE  (a \div p) \div q = a \div (p * q)
  OBVIOUS

\* What is added below a multiple of the divisor.
LEMMA DivShift ==
  ASSUME NEW u \in Nat, NEW v \in Nat, NEW b \in Nat \ {0}
  PROVE  (u * b + v) \div b = u + v \div b /\ (u * b + v) % b = v % b
<1> DEFINE q == v \div b
           r == v % b
<1>1. q \in Nat /\ r \in 0..(b - 1) /\ v = q * b + r
  BY DivFact
<1> HIDE DEF q, r
<1>2. u + q \in Nat /\ u * b + v = (u + q) * b + r
  BY <1>1
<1>3. (u * b + v) \div b = u + q /\ (u * b + v) % b = r
  BY <1>1, <1>2, DivUnique
<1> QED
  BY <1>3 DEF q, r

-----------------------------------------------------------------------------
(* The recursive functions over the digits of a block exist, and do what   *)
(* they say.                                                               *)

Digit == 0..(Byte - 1)
BlockSet == [1..BlockLength -> Digit]
DigestSet == [1..HashLength -> Digit]

\* SHA-1 makes a digest of any sequence of bytes.
HashMakesDigests == \A bytes \in Seq(Digit) : Sha1(bytes) \in DigestSet

LEMMA Lengths ==
  /\ Byte \in Nat /\ Byte > 1 /\ Byte \in Nat \ {0}
  /\ BlockLength \in Nat /\ BlockLength > 0 /\ HashLength \in Nat /\ HashLength > 0
  /\ KeyLength \in Nat /\ SaltLength \in Nat
  /\ Digit \subseteq Nat /\ 0 \in Digit
  BY DecryptorConstants DEF Digit

LEMMA PowerFact ==
  /\ Power \in [0..BlockLength -> Nat \ {0}]
  /\ Power[0] = 1
  /\ \A k \in 1..BlockLength : Power[k] = Byte * Power[k - 1]
<1> DEFINE V == Nat \ {0}
           step == [i \in 1..BlockLength |-> [x \in V |-> Byte * x]]
           D == 0..BlockLength
           Eq(p) == p = [k \in D |-> IF k = 0 THEN 1 ELSE Byte * p[k - 1]]
<1>1. step \in Steps(BlockLength, V) /\ 1 \in V /\ BlockLength \in Nat
  BY Lengths DEF Steps
<1>2. PICK f : Follows(f, BlockLength, V, 1, step)
  <2> HIDE DEF step, V
  <2> QED
    BY <1>1, Recursion
<1>3. f \in [D -> V] /\ f[0] = 1 /\ \A k \in 1..BlockLength : f[k] = step[k][f[k - 1]]
  BY <1>2 DEF Follows
<1>4. Eq(f)
  <2>1. ASSUME NEW k \in 1..BlockLength
        PROVE  f[k] = Byte * f[k - 1]
    <3>1. k - 1 \in D /\ f[k - 1] \in V
      BY <1>1, <1>3
    <3> HIDE DEF V
    <3> QED
      BY <1>3, <3>1
  <2>2. \A k \in D : k = 0 \/ k \in 1..BlockLength
    BY <1>1
  <2> QED
    BY <1>3, <2>1, <2>2
<1>5. Power = CHOOSE p : Eq(p)
  BY DEF Power
<1> HIDE DEF Eq
<1>6. Eq(Power)
  BY <1>4, <1>5, Zenon
<1> USE DEF Eq
<1>7. Power = [k \in D |-> Power[k]]
  BY <1>6
<1>8. \A k \in D : Power[k] = IF k = 0 THEN 1 ELSE Byte * Power[k - 1]
  BY <1>6
<1> HIDE DEF Eq
<1>9. Power[0] = 1 /\ \A k \in 1..BlockLength : Power[k] = Byte * Power[k - 1]
  BY <1>8, Lengths
<1>10. Power \in [0..BlockLength -> V]
  <2>1. \A k \in 1..BlockLength : Power[k - 1] \in V => Power[k] \in V
    BY <1>9, Lengths
  <2>2. Power[0] \in V /\ BlockLength \in Nat
    BY <1>9, Lengths
  <2> HIDE DEF V
  <2> QED
    BY <1>7, <2>1, <2>2, RecursionType
<1> QED
  BY <1>9, <1>10

\* The number of a block, through the numbers of its first digits.
Upto(block, upto) ==
    /\ upto \in [0..BlockLength -> Nat]
    /\ upto[0] = 0
    /\ \A i \in 1..BlockLength : upto[i] = upto[i - 1] * Byte + block[i]

LEMMA ValueFact ==
  ASSUME NEW block \in BlockSet
  PROVE  \E upto : Upto(block, upto) /\ Value(block) = upto[BlockLength]
<1> DEFINE step == [i \in 1..BlockLength |-> [x \in Nat |-> x * Byte + block[i]]]
           D == 0..BlockLength
           Eq(p) == p = [i \in D |-> IF i = 0 THEN 0 ELSE p[i - 1] * Byte + block[i]]
           upto == CHOOSE p : Eq(p)
<1>0. \A i \in 1..BlockLength : block[i] \in Nat
  BY Lengths DEF BlockSet
<1>1. step \in Steps(BlockLength, Nat) /\ 0 \in Nat /\ BlockLength \in Nat
  BY <1>0, Lengths DEF Steps
<1>2. PICK f : Follows(f, BlockLength, Nat, 0, step)
  <2> HIDE DEF step
  <2> QED
    BY <1>1, Recursion
<1>3. f \in [D -> Nat] /\ f[0] = 0 /\ \A i \in 1..BlockLength : f[i] = step[i][f[i - 1]]
  BY <1>2 DEF Follows
<1>4. Eq(f)
  <2>1. ASSUME NEW i \in 1..BlockLength
        PROVE  f[i] = f[i - 1] * Byte + block[i]
    <3>1. i - 1 \in D /\ f[i - 1] \in Nat
      BY <1>1, <1>3
    <3> QED
      BY <1>3, <3>1
  <2>2. \A i \in D : i = 0 \/ i \in 1..BlockLength
    BY <1>1
  <2> QED
    BY <1>3, <2>1, <2>2
<1>5. Value(block) = upto[BlockLength]
  BY DEF Value
<1> HIDE DEF Eq
<1>6. Eq(upto)
  BY <1>4, Zenon
<1> HIDE DEF upto
<1> USE DEF Eq
<1>7. upto = [i \in D |-> upto[i]]
  BY <1>6
<1>8. \A i \in D : upto[i] = IF i = 0 THEN 0 ELSE upto[i - 1] * Byte + block[i]
  BY <1>6
<1> HIDE DEF Eq
<1>9. upto[0] = 0 /\ \A i \in 1..BlockLength : upto[i] = upto[i - 1] * Byte + block[i]
  BY <1>8, Lengths
<1>10. upto \in [D -> Nat]
  <2>1. \A i \in 1..BlockLength : upto[i - 1] \in Nat => upto[i] \in Nat
    BY <1>0, <1>9, Lengths
  <2> QED
    BY <1>1, <1>7, <1>9, <2>1, RecursionType
<1> QED
  BY <1>5, <1>9, <1>10 DEF Upto

\* A carry is 0 or 1, and comes from the digits behind.
LEMMA CarryFact ==
  ASSUME NEW block \in BlockSet, NEW digest \in DigestSet
  PROVE  /\ Carries(block, digest) \in [1..BlockLength -> {0, 1}]
         /\ Carries(block, digest)[BlockLength] = 1
         /\ \A i \in 1..(BlockLength - 1) :
              Carries(block, digest)[i] =
                (block[i + 1] + digest[(i % HashLength) + 1] + Carries(block, digest)[i + 1]) \div Byte
<1> DEFINE sum(i, x) == (block[i + 1] + digest[(i % HashLength) + 1] + x) \div Byte
           D == 1..BlockLength
           N == BlockLength - 1
           Bit == {0, 1}
           step == [k \in 1..N |-> [x \in Bit |-> sum(BlockLength - k, x)]]
           Eq(p) == p = [i \in D |-> IF i = BlockLength THEN 1 ELSE sum(i, p[i + 1])]
           c == CHOOSE p : Eq(p)
<1>0. ASSUME NEW i \in 1..N, NEW x \in Bit
      PROVE  sum(i, x) \in Bit
  <2>1. block[i + 1] \in Digit
    BY Lengths DEF BlockSet
  <2>2. (i % HashLength) + 1 \in 1..HashLength
    BY Lengths
  <2>3. digest[(i % HashLength) + 1] \in Digit
    BY <2>2 DEF DigestSet
  <2> DEFINE a == block[i + 1]
             b == digest[(i % HashLength) + 1]
  <2>4. a \in 0..(Byte - 1) /\ b \in 0..(Byte - 1)
    BY <2>1, <2>3 DEF Digit
  <2> HIDE DEF a, b
  <2>5. (a + b + x) \div Byte \in Bit
    BY <2>4, Lengths
  <2> QED
    BY <2>5 DEF a, b
<1> HIDE DEF sum
<1>1. step \in Steps(N, Bit) /\ 1 \in Bit /\ N \in Nat
  <2>1. \A k \in 1..N : BlockLength - k \in 1..N
    BY Lengths
  <2> QED
    BY <1>0, <2>1, Lengths DEF Steps
<1>2. PICK f : Follows(f, N, Bit, 1, step)
  <2> HIDE DEF step, N, Bit
  <2> QED
    BY <1>1, Recursion
<1>3. f \in [0..N -> Bit] /\ f[0] = 1 /\ \A k \in 1..N : f[k] = step[k][f[k - 1]]
  BY <1>2 DEF Follows
<1>4. Eq([i \in D |-> f[BlockLength - i]])
  <2>1. ASSUME NEW i \in 1..N
        PROVE  f[BlockLength - i] = sum(i, f[BlockLength - (i + 1)])
    <3> DEFINE k == BlockLength - i
    <3>1. k \in 1..N /\ BlockLength - k = i /\ k - 1 = BlockLength - (i + 1) /\ k - 1 \in 0..N
      BY Lengths
    <3> HIDE DEF k
    <3>2. f[k] = step[k][f[k - 1]] /\ f[k - 1] \in Bit
      BY <1>3, <3>1
    <3>3. f[k] = sum(i, f[k - 1])
      BY <3>1, <3>2
    <3> QED
      BY <3>1, <3>3 DEF k
  <2>2. \A i \in D : i = BlockLength \/ (i \in 1..N /\ i # BlockLength /\ i + 1 \in D)
    BY Lengths
  <2>3. f[BlockLength - BlockLength] = 1
    BY <1>3, Lengths
  <2> QED
    BY <2>1, <2>2, <2>3
<1>5. Carries(block, digest) = c
  BY DEF Carries, sum
<1> HIDE DEF Eq
<1>6. Eq(c)
  BY <1>4, Zenon
<1> HIDE DEF c
<1> USE DEF Eq
<1>7. c = [i \in D |-> c[i]]
  BY <1>6
<1>8. \A i \in D : c[i] = IF i = BlockLength THEN 1 ELSE sum(i, c[i + 1])
  BY <1>6
<1> HIDE DEF Eq
<1>9. c[BlockLength] = 1 /\ \A i \in 1..N : c[i] = sum(i, c[i + 1])
  BY <1>8, Lengths
<1>10. c \in [D -> Bit]
  <2> DEFINE g == [k \in 0..N |-> c[BlockLength - k]]
  <2>1. \A k \in 1..N : g[k - 1] \in Bit => g[k] \in Bit
    <3> SUFFICES ASSUME NEW k \in 1..N, g[k - 1] \in Bit PROVE g[k] \in Bit
      OBVIOUS
    <3> DEFINE i == BlockLength - k
    <3>1. i \in 1..N /\ i + 1 = BlockLength - (k - 1) /\ k - 1 \in 0..N /\ k \in 0..N
      BY Lengths
    <3>2. g[k - 1] = c[i + 1] /\ g[k] = c[i]
      BY <3>1
    <3> HIDE DEF i, g
    <3> QED
      BY <1>0, <1>9, <3>1, <3>2
  <2>2. g[0] \in Bit /\ g = [k \in 0..N |-> g[k]]
    BY <1>9, Lengths
  <2>3. g \in [0..N -> Bit]
    <3> HIDE DEF g, N, Bit
    <3> QED
      BY <1>1, <2>1, <2>2, RecursionType
  <2>4. ASSUME NEW i \in D PROVE c[i] \in Bit
    <3>1. BlockLength - i \in 0..N /\ BlockLength - (BlockLength - i) = i
      BY Lengths
    <3>2. g[BlockLength - i] = c[i]
      BY <3>1
    <3> QED
      BY <2>3, <3>1, <3>2
  <2> QED
    BY <1>7, <2>4
<1> QED
  BY <1>5, <1>9, <1>10 DEF sum

-----------------------------------------------------------------------------
(* Blocks and the numbers they stand for.                                  *)

LEMMA PowerProduct ==
  ASSUME NEW a \in 0..BlockLength, NEW b \in 0..BlockLength, a + b <= BlockLength
  PROVE  Power[a + b] = Power[a] * Power[b]
<1> DEFINE S == {k \in Nat : a + k <= BlockLength => Power[a + k] = Power[a] * Power[k]}
<1>0. BlockLength \in Nat /\ Byte \in Nat
  BY Lengths
<1>1. 0 \in S
  <2>1. a + 0 = a /\ Power[a] \in Nat /\ Power[0] = 1
    BY <1>0, PowerFact
  <2> QED
    BY <2>1
<1>2. ASSUME NEW k \in Nat, k \in S
      PROVE  k + 1 \in S
  <2>1. CASE a + (k + 1) <= BlockLength
    <3>1. Power[a + k] = Power[a] * Power[k]
      BY <1>0, <1>2, <2>1
    <3>2. a + (k + 1) \in 1..BlockLength /\ (a + (k + 1)) - 1 = a + k
      BY <1>0, <2>1
    <3>3. k + 1 \in 1..BlockLength /\ (k + 1) - 1 = k
      BY <1>0, <2>1
    <3>4. Power[a + (k + 1)] = Byte * Power[a + k]
      BY <3>2, PowerFact
    <3>5. Power[k + 1] = Byte * Power[k]
      BY <3>3, PowerFact
    <3>6. Power[a] \in Nat /\ Power[k] \in Nat
      BY <1>0, <3>3, PowerFact
    <3> DEFINE p == Power[a]
               q == Power[k]
    <3>7. Byte * (p * q) = p * (Byte * q)
      <4>1. p \in Nat /\ q \in Nat
        BY <3>6
      <4> HIDE DEF p, q
      <4> QED
        BY <1>0, <4>1
    <3>8. Power[a + (k + 1)] = Power[a] * Power[k + 1]
      BY <3>1, <3>4, <3>5, <3>7
    <3> QED
      BY <3>8
  <2>2. CASE ~(a + (k + 1) <= BlockLength)
    BY <2>2
  <2> QED
    BY <2>1, <2>2
<1> HIDE DEF S
<1>3. b \in S
  BY <1>0, <1>1, <1>2, SetInduction
<1> QED
  BY <1>3 DEF S

\* Cutting off one more digit is one more division.
LEMMA CutDigit ==
  ASSUME NEW x \in Nat, NEW k \in 1..BlockLength
  PROVE  x \div Power[k] = (x \div Power[k - 1]) \div Byte
<1>1. k - 1 \in 0..BlockLength /\ k \in 1..BlockLength
  BY Lengths
<1>2. Power[k] = Byte * Power[k - 1] /\ Power[k - 1] \in Nat \ {0}
  BY <1>1, PowerFact
<1>3. Byte \in Nat \ {0}
  BY Lengths
<1> DEFINE p == Power[k - 1]
<1>4. p \in Nat \ {0} /\ Power[k] = Byte * p
  BY <1>2
<1> HIDE DEF p
<1>5. Byte * p = p * Byte
  BY <1>3, <1>4
<1>6. (x \div p) \div Byte = x \div (p * Byte)
  BY <1>3, <1>4, DivDiv
<1> QED
  BY <1>4, <1>5, <1>6 DEF p

LEMMA DivOne ==
  ASSUME NEW x \in Nat
  PROVE  x \div Power[0] = x
<1>1. x \div 1 = x
  OBVIOUS
<1> QED
  BY <1>1, PowerFact

LEMMA LastDigit ==
  ASSUME NEW x, NEW q \in Nat, NEW r \in 0..(Byte - 1), x = q * Byte + r
  PROVE  x \div Byte = q /\ x % Byte = r
  BY Lengths, DivUnique

\* The leading digits of a number are the number of the leading digits.
LEMMA LeadingDigits ==
  ASSUME NEW block \in BlockSet, NEW upto, Upto(block, upto), NEW k \in 0..BlockLength
  PROVE  upto[BlockLength] \div Power[k] = upto[BlockLength - k]
<1> DEFINE S == {j \in Nat : j <= BlockLength =>
                   upto[BlockLength] \div Power[j] = upto[BlockLength - j]}
           x == upto[BlockLength]
<1>0. BlockLength \in Nat /\ Byte \in Nat \ {0}
  BY Lengths
<1>x. x \in Nat
  BY <1>0 DEF Upto
<1>1. 0 \in S
  BY <1>0, <1>x, DivOne
<1>2. ASSUME NEW j \in Nat, j \in S
      PROVE  j + 1 \in S
  <2>1. CASE j + 1 <= BlockLength
    <3> DEFINE i == BlockLength - j
    <3>1. i \in 1..BlockLength /\ i - 1 = BlockLength - (j + 1) /\ i - 1 \in 0..BlockLength
      BY <1>0, <2>1
    <3>2. x \div Power[j] = upto[i]
      BY <1>2, <2>1, <1>0
    <3>3. upto[i] = upto[i - 1] * Byte + block[i] /\ upto[i - 1] \in Nat /\ block[i] \in 0..(Byte - 1)
      BY <3>1 DEF Upto, BlockSet, Digit
    <3>4. upto[i] \div Byte = upto[i - 1]
      BY <1>0, <3>3, LastDigit
    <3>5. j + 1 \in 1..BlockLength /\ (j + 1) - 1 = j
      BY <1>0, <2>1
    <3>6. x \div Power[j + 1] = (x \div Power[j]) \div Byte
      BY <1>x, <3>5, CutDigit
    <3>7. x \div Power[j + 1] = upto[BlockLength - (j + 1)]
      BY <3>1, <3>2, <3>4, <3>6
    <3> QED
      BY <3>7
  <2>2. CASE ~(j + 1 <= BlockLength)
    BY <2>2
  <2> QED
    BY <2>1, <2>2
<1> HIDE DEF S
<1>3. k \in S
  BY <1>0, <1>1, <1>2, SetInduction
<1> QED
  BY <1>3, <1>0 DEF S

LEMMA ValueType ==
  ASSUME NEW block \in BlockSet
  PROVE  Value(block) \in Nat
<1>1. PICK upto : Upto(block, upto) /\ Value(block) = upto[BlockLength]
  BY ValueFact
<1> QED
  BY <1>1, Lengths DEF Upto

\* A block is its number, written out.
LEMMA BlockOfValue ==
  ASSUME NEW block \in BlockSet
  PROVE  BlockOf(Value(block)) = block
<1>1. PICK upto : Upto(block, upto) /\ Value(block) = upto[BlockLength]
  BY ValueFact
<1>2. ASSUME NEW i \in 1..BlockLength
      PROVE  (Value(block) \div Power[BlockLength - i]) % Byte = block[i]
  <2>1. BlockLength - i \in 0..BlockLength /\ BlockLength - (BlockLength - i) = i /\ i - 1 \in 0..BlockLength
    BY Lengths
  <2>2. Value(block) \div Power[BlockLength - i] = upto[i]
    BY <1>1, <2>1, LeadingDigits
  <2>3. upto[i] = upto[i - 1] * Byte + block[i] /\ upto[i - 1] \in Nat /\ block[i] \in 0..(Byte - 1)
    BY <1>1, <2>1 DEF Upto, BlockSet, Digit
  <2>4. upto[i] % Byte = block[i]
    BY <2>3, Lengths, LastDigit
  <2> QED
    BY <2>2, <2>4
<1>3. BlockOf(Value(block)) = [i \in 1..BlockLength |-> block[i]]
  BY <1>2 DEF BlockOf
<1>4. block = [i \in 1..BlockLength |-> block[i]]
  BY DEF BlockSet
<1> QED
  BY <1>3, <1>4, Zenon

LEMMA BlockOfType ==
  ASSUME NEW x \in Nat
  PROVE  BlockOf(x) \in BlockSet
<1>1. ASSUME NEW i \in 1..BlockLength
      PROVE  (x \div Power[BlockLength - i]) % Byte \in Digit
  <2>1. Power[BlockLength - i] \in Nat \ {0}
    BY PowerFact, Lengths
  <2>2. x \div Power[BlockLength - i] \in Nat
    BY <2>1, DivFact
  <2> QED
    BY <2>2, Lengths, DivFact DEF Digit
<1> QED
  BY <1>1 DEF BlockOf, BlockSet

\* A number below the modulus is the number of its block.
LEMMA ValueOfBlock ==
  ASSUME NEW x \in Nat, x < Power[BlockLength]
  PROVE  Value(BlockOf(x)) = x
<1> DEFINE block == BlockOf(x)
           cut(i) == x \div Power[BlockLength - i]
<1>0. BlockLength \in Nat /\ Byte \in Nat \ {0}
  BY Lengths
<1>1. block \in BlockSet
  BY BlockOfType
<1>2. PICK upto : Upto(block, upto) /\ Value(block) = upto[BlockLength]
  BY <1>1, ValueFact
<1>3. \A i \in 1..BlockLength : block[i] = cut(i) % Byte
  BY DEF BlockOf
<1>4. \A i \in 0..BlockLength : cut(i) \in Nat
  <2> SUFFICES ASSUME NEW i \in 0..BlockLength PROVE cut(i) \in Nat
    OBVIOUS
  <2>1. Power[BlockLength - i] \in Nat \ {0}
    BY PowerFact, Lengths
  <2> QED
    BY <2>1, DivFact
<1>5. cut(0) = 0
  <2> DEFINE p == Power[BlockLength]
  <2>1. p \in Nat \ {0} /\ x < p /\ BlockLength - 0 = BlockLength
    BY PowerFact, <1>0
  <2> HIDE DEF p
  <2>2. x \div p = 0
    BY <2>1
  <2> QED
    BY <2>1, <2>2 DEF p
<1>6. \A i \in 1..BlockLength : cut(i - 1) = cut(i) \div Byte
  <2> SUFFICES ASSUME NEW i \in 1..BlockLength PROVE cut(i - 1) = cut(i) \div Byte
    OBVIOUS
  <2>1. BlockLength - (i - 1) \in 1..BlockLength /\ (BlockLength - (i - 1)) - 1 = BlockLength - i
    BY <1>0
  <2> QED
    BY <2>1, CutDigit
<1>7. cut(BlockLength) = x
  BY <1>0, DivOne
<1> HIDE DEF block, cut
<1> DEFINE S == {i \in Nat : i <= BlockLength => upto[i] = cut(i)}
<1>8. 0 \in S
  BY <1>2, <1>5 DEF Upto
<1>9. ASSUME NEW i \in Nat, i \in S
      PROVE  i + 1 \in S
  <2>1. CASE i + 1 <= BlockLength
    <3>1. i + 1 \in 1..BlockLength /\ (i + 1) - 1 = i /\ i + 1 \in 0..BlockLength
      BY <1>0, <2>1
    <3>2. upto[i] = cut(i)
      BY <1>9, <2>1, <1>0
    <3>3. upto[i + 1] = upto[i] * Byte + block[i + 1]
      BY <1>2, <3>1 DEF Upto
    <3>4. cut(i) = cut(i + 1) \div Byte /\ block[i + 1] = cut(i + 1) % Byte /\ cut(i + 1) \in Nat
      BY <1>3, <1>4, <1>6, <3>1
    <3>5. cut(i + 1) = cut(i) * Byte + block[i + 1]
      BY <1>0, <3>4, DivFact
    <3> QED
      BY <3>2, <3>3, <3>5
  <2>2. CASE ~(i + 1 <= BlockLength)
    BY <2>2
  <2> QED
    BY <2>1, <2>2
<1> HIDE DEF S
<1>10. BlockLength \in S
  BY <1>0, <1>8, <1>9, SetInduction
<1>11. upto[BlockLength] = x
  BY <1>0, <1>7, <1>10 DEF S
<1> QED
  BY <1>2, <1>11 DEF block

-----------------------------------------------------------------------------
(* Addition digit by digit.                                                *)

LEMMA RepeatedFact ==
  ASSUME NEW digest \in DigestSet
  PROVE  /\ Repeated(digest) \in BlockSet
         /\ \A i \in 1..BlockLength : Repeated(digest)[i] = digest[((i - 1) % HashLength) + 1]
<1>1. ASSUME NEW i \in 1..BlockLength
      PROVE  digest[((i - 1) % HashLength) + 1] \in Digit
  <2>1. ((i - 1) % HashLength) + 1 \in 1..HashLength
    BY Lengths
  <2> QED
    BY <2>1 DEF DigestSet
<1> QED
  BY <1>1 DEF Repeated, BlockSet

\* The sum, with the digest as a block.
LEMMA AddDigestFact ==
  ASSUME NEW block \in BlockSet, NEW digest \in DigestSet
  PROVE  /\ AddDigest(block, digest) \in BlockSet
         /\ \A i \in 1..BlockLength :
              AddDigest(block, digest)[i] =
                (block[i] + Repeated(digest)[i] + Carries(block, digest)[i]) % Byte
         /\ \A i \in 1..(BlockLength - 1) :
              Carries(block, digest)[i] =
                (block[i + 1] + Repeated(digest)[i + 1] + Carries(block, digest)[i + 1]) \div Byte
<1> DEFINE c == Carries(block, digest)
           rep == Repeated(digest)
<1>1. c \in [1..BlockLength -> {0, 1}]
  BY CarryFact
<1>2. rep \in BlockSet /\ \A i \in 1..BlockLength : rep[i] = digest[((i - 1) % HashLength) + 1]
  BY RepeatedFact
<1>3. AddDigest(block, digest) =
        [i \in 1..BlockLength |-> (block[i] + digest[((i - 1) % HashLength) + 1] + c[i]) % Byte]
  BY DEF AddDigest
<1>4. \A i \in 1..(BlockLength - 1) :
        c[i] = (block[i + 1] + digest[(i % HashLength) + 1] + c[i + 1]) \div Byte
  BY CarryFact
<1> HIDE DEF c, rep
<1>5. ASSUME NEW i \in 1..BlockLength
      PROVE  (block[i] + rep[i] + c[i]) % Byte \in Digit
  <2>1. block[i] \in Digit /\ rep[i] \in Digit /\ c[i] \in Nat
    BY <1>1, <1>2 DEF BlockSet
  <2>2. block[i] + rep[i] + c[i] \in Nat
    BY <2>1 DEF Digit
  <2> QED
    BY <2>2, Lengths, DivFact DEF Digit
<1>6. AddDigest(block, digest) = [i \in 1..BlockLength |-> (block[i] + rep[i] + c[i]) % Byte]
  BY <1>2, <1>3
<1>7. AddDigest(block, digest) \in BlockSet
  BY <1>5, <1>6 DEF BlockSet
<1>8. ASSUME NEW i \in 1..(BlockLength - 1)
      PROVE  c[i] = (block[i + 1] + rep[i + 1] + c[i + 1]) \div Byte
  <2>1. i + 1 \in 1..BlockLength /\ (i + 1) - 1 = i
    BY Lengths
  <2>2. rep[i + 1] = digest[(i % HashLength) + 1]
    BY <1>2, <2>1
  <2> QED
    BY <1>4, <2>2
<1> QED
  BY <1>6, <1>7, <1>8 DEF c, rep

\* The sum, cut off at any digit, is the sums of what is cut off and the carry.
LEMMA SumCut ==
  ASSUME NEW block \in BlockSet, NEW digest \in DigestSet,
         NEW upto, Upto(block, upto),
         NEW rest, Upto(Repeated(digest), rest),
         NEW k \in 0..(BlockLength - 1)
  PROVE  (upto[BlockLength] + rest[BlockLength] + 1) \div Power[k] =
            upto[BlockLength - k] + rest[BlockLength - k] + Carries(block, digest)[BlockLength - k]
<1> DEFINE c == Carries(block, digest)
           rep == Repeated(digest)
           x == upto[BlockLength] + rest[BlockLength] + 1
           S == {j \in Nat : j <= BlockLength - 1 =>
                   x \div Power[j] = upto[BlockLength - j] + rest[BlockLength - j] + c[BlockLength - j]}
<1>0. BlockLength \in Nat /\ BlockLength > 0 /\ Byte \in Nat \ {0} /\ Digit \subseteq Nat
  BY Lengths
<1>1. /\ c \in [1..BlockLength -> {0, 1}] /\ c[BlockLength] = 1
      /\ \A i \in 1..(BlockLength - 1) : c[i] = (block[i + 1] + rep[i + 1] + c[i + 1]) \div Byte
  BY CarryFact, AddDigestFact
<1>2. rep \in BlockSet /\ Upto(rep, rest)
  BY RepeatedFact
<1>3. x \in Nat
  BY <1>0 DEF Upto
<1> HIDE DEF c, rep
<1>4. 0 \in S
  <2>1. x \div Power[0] = x /\ BlockLength - 0 = BlockLength
    BY <1>0, <1>3, DivOne
  <2> QED
    BY <1>1, <2>1
<1>5. ASSUME NEW j \in Nat, j \in S
      PROVE  j + 1 \in S
  <2>1. CASE j + 1 <= BlockLength - 1
    <3> DEFINE i == BlockLength - (j + 1)
               low == block[i + 1] + rep[i + 1] + c[i + 1]
               high == upto[i] + rest[i]
    <3>1. i \in 1..(BlockLength - 1) /\ i + 1 \in 1..BlockLength /\ i + 1 = BlockLength - j
          /\ (i + 1) - 1 = i /\ i \in 0..BlockLength
      BY <1>0, <2>1
    <3>2. x \div Power[j] = upto[i + 1] + rest[i + 1] + c[i + 1]
      BY <1>0, <1>5, <2>1, <3>1
    <3>3. /\ upto[i + 1] = upto[i] * Byte + block[i + 1] /\ upto[i] \in Nat
          /\ rest[i + 1] = rest[i] * Byte + rep[i + 1] /\ rest[i] \in Nat
      BY <1>2, <3>1 DEF Upto
    <3>4. block[i + 1] \in Nat /\ rep[i + 1] \in Nat /\ c[i + 1] \in Nat
      <4> HIDE DEF i
      <4>1. block[i + 1] \in Digit /\ rep[i + 1] \in Digit /\ c[i + 1] \in {0, 1}
        BY <1>1, <1>2, <3>1 DEF BlockSet
      <4> QED
        BY <4>1 DEF Digit
    <3>5. low \in Nat /\ high \in Nat
      BY <3>3, <3>4
    <3>6. upto[i + 1] + rest[i + 1] + c[i + 1] = high * Byte + low
      BY <1>0, <3>3, <3>4
    <3>7. c[i] = low \div Byte
      BY <1>1, <3>1
    <3>8. j + 1 \in 1..BlockLength /\ (j + 1) - 1 = j
      BY <1>0, <2>1
    <3>9. x \div Power[j + 1] = (x \div Power[j]) \div Byte
      BY <1>3, <3>8, CutDigit
    <3> HIDE DEF low, x, i
    <3>10. (high * Byte + low) \div Byte = high + low \div Byte
      <4> HIDE DEF high
      <4> QED
        BY <1>0, <3>5, DivShift
    <3>11. x \div Power[j + 1] = high + c[i]
      BY <3>2, <3>6, <3>7, <3>9, <3>10
    <3> QED
      BY <3>11 DEF i
  <2>2. CASE ~(j + 1 <= BlockLength - 1)
    BY <2>2
  <2> QED
    BY <2>1, <2>2
<1> HIDE DEF S
<1>6. k \in S
  BY <1>0, <1>4, <1>5, SetInduction
<1> QED
  BY <1>0, <1>6 DEF S, c

\* A reduction by the modulus leaves the digits of a block alone.
LEMMA DigitOfRest ==
  ASSUME NEW x \in Nat, NEW k \in 0..(BlockLength - 1)
  PROVE  ((x % Power[BlockLength]) \div Power[k]) % Byte = (x \div Power[k]) % Byte
<1> DEFINE m == Power[BlockLength]
           p == Power[k]
           r == Power[BlockLength - k - 1]
           q == x \div m
           y == x % m
           z == y \div p
<1>0. BlockLength \in Nat /\ BlockLength > 0 /\ Byte \in Nat \ {0}
  BY Lengths
<1>1. BlockLength - k \in 1..BlockLength /\ (BlockLength - k) - 1 \in 0..BlockLength
      /\ k \in 0..BlockLength /\ k + (BlockLength - k) = BlockLength
  BY <1>0
<1>2. m \in Nat \ {0} /\ p \in Nat \ {0} /\ r \in Nat
  BY <1>0, <1>1, PowerFact
<1>3. m = p * Power[BlockLength - k] /\ Power[BlockLength - k] = Byte * r
  <2>1. BlockLength - k \in 0..BlockLength /\ k + (BlockLength - k) <= BlockLength
    BY <1>1, <1>0
  <2>2. Power[k + (BlockLength - k)] = Power[k] * Power[BlockLength - k]
    BY <1>1, <2>1, PowerProduct
  <2> QED
    BY <1>1, <2>2, PowerFact
<1>4. x = q * m + y /\ q \in Nat /\ y \in Nat
  <2>1. m \in Nat \ {0}
    BY <1>2
  <2> HIDE DEF m
  <2> QED
    BY <2>1, DivFact
<1> HIDE DEF m, p, r, q, y
<1>5. m = p * (Byte * r)
  BY <1>3
<1>6. x = (q * r * Byte) * p + y
  BY <1>0, <1>2, <1>4, <1>5
<1>7. q * r * Byte \in Nat /\ q * r \in Nat
  BY <1>0, <1>2, <1>4
<1> DEFINE s == q * r
<1>8. x \div p = s * Byte + z
  <2> DEFINE u == s * Byte
  <2>1. u \in Nat /\ x = u * p + y
    BY <1>6, <1>7
  <2> HIDE DEF u
  <2>2. (u * p + y) \div p = u + y \div p
    BY <1>2, <1>4, <2>1, DivShift
  <2> QED
    BY <2>1, <2>2 DEF u
<1>9. z \in Nat
  BY <1>2, <1>4, DivFact
<1> HIDE DEF s, z
<1>10. (s * Byte + z) % Byte = z % Byte
  BY <1>0, <1>7, <1>9, DivShift DEF s
<1> QED
  BY <1>8, <1>10 DEF p, y, z, m

\* AddDigest is addition of numbers, modulo the number of blocks.
LEMMA AddDigestSum ==
  ASSUME NEW block \in BlockSet, NEW digest \in DigestSet
  PROVE  Value(AddDigest(block, digest)) =
            (Value(block) + Value(Repeated(digest)) + 1) % Power[BlockLength]
<1> DEFINE c == Carries(block, digest)
           rep == Repeated(digest)
           x == Value(block) + Value(rep) + 1
           m == Power[BlockLength]
           sum == AddDigest(block, digest)
<1>0. BlockLength \in Nat /\ BlockLength > 0 /\ Byte \in Nat \ {0} /\ Digit \subseteq Nat
  BY Lengths
<1>1. rep \in BlockSet
  BY RepeatedFact
<1>2. PICK upto : Upto(block, upto) /\ Value(block) = upto[BlockLength]
  BY ValueFact
<1>3. PICK rest : Upto(rep, rest) /\ Value(rep) = rest[BlockLength]
  BY <1>1, ValueFact
<1>4. x \in Nat
  BY <1>1, ValueType
<1>5. m \in Nat \ {0}
  BY <1>0, PowerFact
<1>6. c \in [1..BlockLength -> {0, 1}] /\ sum \in BlockSet
      /\ \A i \in 1..BlockLength : sum[i] = (block[i] + rep[i] + c[i]) % Byte
  BY CarryFact, AddDigestFact
<1>7. \A k \in 0..(BlockLength - 1) :
         x \div Power[k] = upto[BlockLength - k] + rest[BlockLength - k] + c[BlockLength - k]
  BY <1>2, <1>3, SumCut
<1> HIDE DEF c, rep, x, sum
<1>8. ASSUME NEW i \in 1..BlockLength
      PROVE  ((x % m) \div Power[BlockLength - i]) % Byte = sum[i]
  <2> DEFINE low == block[i] + rep[i] + c[i]
             high == upto[i - 1] + rest[i - 1]
  <2>1. BlockLength - i \in 0..(BlockLength - 1) /\ BlockLength - (BlockLength - i) = i
        /\ i - 1 \in 0..BlockLength
    BY <1>0
  <2>2. x \div Power[BlockLength - i] = upto[i] + rest[i] + c[i]
    BY <1>7, <2>1
  <2>3. /\ upto[i] = upto[i - 1] * Byte + block[i] /\ upto[i - 1] \in Nat
        /\ rest[i] = rest[i - 1] * Byte + rep[i] /\ rest[i - 1] \in Nat
    BY <1>2, <1>3, <2>1 DEF Upto
  <2>4. block[i] \in Nat /\ rep[i] \in Nat /\ c[i] \in Nat
    BY <1>1, <1>6 DEF BlockSet, Digit
  <2>5. low \in Nat /\ high \in Nat /\ upto[i] + rest[i] + c[i] = high * Byte + low
    BY <1>0, <2>3, <2>4
  <2>6. sum[i] = low % Byte
    BY <1>6
  <2> HIDE DEF low, high
  <2>7. (high * Byte + low) % Byte = low % Byte
    BY <1>0, <2>5, DivShift
  <2>8. ((x % m) \div Power[BlockLength - i]) % Byte = (x \div Power[BlockLength - i]) % Byte
    BY <1>4, <2>1, DigitOfRest
  <2> QED
    BY <2>2, <2>5, <2>6, <2>7, <2>8
<1>9. BlockOf(x % m) = [i \in 1..BlockLength |-> sum[i]]
  BY <1>8 DEF BlockOf
<1>10. sum = [i \in 1..BlockLength |-> sum[i]]
  BY <1>6 DEF BlockSet
<1>11. x % m \in Nat /\ x % m < m
  <2> HIDE DEF m
  <2> QED
    BY <1>4, <1>5, DivFact
<1>12. Value(BlockOf(x % m)) = x % m
  BY <1>11, ValueOfBlock
<1>13. BlockOf(x % m) = sum
  BY <1>9, <1>10, Zenon
<1> QED
  BY <1>12, <1>13 DEF x, sum, rep

-----------------------------------------------------------------------------
(* The recursions of the code begin at 1.                                  *)

StepsFromOne(n, V) == [2..n -> [V -> V]]

FollowsFromOne(f, n, V, v, step) ==
    f \in [1..n -> V] /\ f[1] = v /\ \A i \in 2..n : f[i] = step[i][f[i - 1]]

LEMMA RecursionFromOne ==
  ASSUME NEW V, NEW v \in V, NEW n \in Nat \ {0}, NEW step \in StepsFromOne(n, V)
  PROVE  \E f : FollowsFromOne(f, n, V, v, step)
<1> DEFINE N == n - 1
           shift == [i \in 1..N |-> step[i + 1]]
<1>1. N \in Nat /\ shift \in Steps(N, V)
  <2>1. \A i \in 1..N : i + 1 \in 2..n
    OBVIOUS
  <2> QED
    BY <2>1 DEF Steps, StepsFromOne
<1>2. PICK f : Follows(f, N, V, v, shift)
  <2> HIDE DEF shift, N
  <2> QED
    BY <1>1, Recursion
<1>3. f \in [0..N -> V] /\ f[0] = v /\ \A i \in 1..N : f[i] = shift[i][f[i - 1]]
  BY <1>2 DEF Follows
<1> DEFINE g == [i \in 1..n |-> f[i - 1]]
<1>4. g \in [1..n -> V] /\ g[1] = v
  <2>1. \A i \in 1..n : i - 1 \in 0..N
    OBVIOUS
  <2> QED
    BY <1>3, <2>1
<1>5. ASSUME NEW i \in 2..n
      PROVE  g[i] = step[i][g[i - 1]]
  <2>1. i - 1 \in 1..N /\ i \in 1..n /\ i - 1 \in 1..n /\ (i - 1) + 1 = i
    OBVIOUS
  <2>2. f[i - 1] = shift[i - 1][f[(i - 1) - 1]]
    BY <1>3, <2>1
  <2>3. shift[i - 1] = step[i]
    BY <2>1
  <2>4. g[i] = f[i - 1] /\ g[i - 1] = f[(i - 1) - 1]
    BY <2>1
  <2> QED
    BY <2>2, <2>3, <2>4
<1> HIDE DEF g
<1> QED
  BY <1>4, <1>5 DEF FollowsFromOne

LEMMA TypeFromOne ==
  ASSUME NEW V, NEW n \in Nat \ {0}, NEW f, f = [i \in 1..n |-> f[i]], f[1] \in V,
         \A i \in 2..n : f[i - 1] \in V => f[i] \in V
  PROVE  f \in [1..n -> V]
<1> DEFINE S == {k \in Nat : k + 1 <= n => f[k + 1] \in V}
<1>1. 0 \in S
  OBVIOUS
<1>2. ASSUME NEW k \in Nat, k \in S
      PROVE  k + 1 \in S
  <2>1. CASE (k + 1) + 1 <= n
    <3>1. (k + 1) + 1 \in 2..n /\ ((k + 1) + 1) - 1 = k + 1 /\ f[k + 1] \in V
      BY <1>2, <2>1
    <3>2. f[(k + 1) + 1] \in V
      BY <3>1
    <3> QED
      BY <3>2
  <2>2. CASE ~((k + 1) + 1 <= n)
    BY <2>2
  <2> QED
    BY <2>1, <2>2
<1> HIDE DEF S
<1>3. Nat \subseteq S
  BY <1>1, <1>2, SetInduction
<1>4. ASSUME NEW i \in 1..n PROVE f[i] \in V
  <2>1. i - 1 \in Nat /\ (i - 1) + 1 = i /\ (i - 1) + 1 <= n
    OBVIOUS
  <2>2. i - 1 \in S
    BY <1>3, <2>1
  <2> QED
    BY <2>1, <2>2 DEF S
<1> QED
  BY <1>4

\* Sequences of sequences, one after another, are a sequence.
LEMMA FlattenType ==
  ASSUME NEW V, NEW seqs \in Seq(Seq(V))
  PROVE  FlattenSeq(seqs) \in Seq(V)
<1> DEFINE n == Len(seqs)
           D == 1..n
           W == Seq(V)
           step == [i \in 2..n |-> [x \in W |-> x \o seqs[i]]]
           Eq(p) == p = [i \in D |-> IF i = 1 THEN seqs[i] ELSE p[i - 1] \o seqs[i]]
           flatten == CHOOSE p : Eq(p)
<1>1. CASE n = 0
  <2>1. FlattenSeq(seqs) = seqs
    BY <1>1 DEF FlattenSeq
  <2>2. seqs = <<>>
    BY <1>1
  <2> QED
    BY <2>1, <2>2
<1>2. CASE n # 0
  <2>1. n \in Nat \ {0} /\ \A i \in D : seqs[i] \in W
    BY <1>2
  <2>2. step \in StepsFromOne(n, W) /\ seqs[1] \in W
    <3>1. \A i \in 2..n : i \in D
      BY <2>1
    <3>2. ASSUME NEW i \in 2..n, NEW x \in W PROVE x \o seqs[i] \in W
      BY <2>1, <3>1
    <3> HIDE DEF W
    <3> QED
      BY <2>1, <3>2 DEF StepsFromOne
  <2>3. PICK f : FollowsFromOne(f, n, W, seqs[1], step)
    <3> HIDE DEF step, W, n
    <3> QED
      BY <2>1, <2>2, RecursionFromOne
  <2>4. f \in [D -> W] /\ f[1] = seqs[1] /\ \A i \in 2..n : f[i] = step[i][f[i - 1]]
    BY <2>3 DEF FollowsFromOne
  <2>5. Eq(f)
    <3>1. ASSUME NEW i \in 2..n PROVE f[i] = f[i - 1] \o seqs[i]
      <4>1. i - 1 \in D
        BY <2>1
      <4>2. f[i - 1] \in W
        BY <2>4, <4>1
      <4> HIDE DEF W
      <4> QED
        BY <2>4, <4>2
    <3>2. \A i \in D : i = 1 \/ (i # 1 /\ i \in 2..n)
      BY <2>1
    <3> HIDE DEF W
    <3> QED
      BY <2>4, <3>1, <3>2
  <2>6. FlattenSeq(seqs) = flatten[n]
    BY <1>2 DEF FlattenSeq
  <2> HIDE DEF Eq
  <2>7. Eq(flatten)
    BY <2>5, Zenon
  <2> HIDE DEF flatten
  <2> USE DEF Eq
  <2>8. flatten = [i \in D |-> flatten[i]]
    BY <2>7
  <2>9. \A i \in D : flatten[i] = IF i = 1 THEN seqs[i] ELSE flatten[i - 1] \o seqs[i]
    BY <2>7
  <2> HIDE DEF Eq
  <2>10. flatten[1] \in W /\ \A i \in 2..n : flatten[i - 1] \in W => flatten[i] \in W
    <3>1. 1 \in D /\ flatten[1] = seqs[1]
      BY <2>1, <2>9
    <3>2. ASSUME NEW i \in 2..n, flatten[i - 1] \in W PROVE flatten[i] \in W
      <4>1. i \in D /\ i # 1
        BY <2>1
      <4>2. flatten[i] = flatten[i - 1] \o seqs[i] /\ seqs[i] \in W
        BY <2>1, <2>9, <4>1
      <4> QED
        BY <3>2, <4>2
    <3> QED
      BY <2>2, <3>1, <3>2
  <2>11. flatten \in [D -> W]
    <3> HIDE DEF W, n
    <3> QED
      BY <2>1, <2>8, <2>10, TypeFromOne
  <2>12. n \in D
    BY <2>1
  <2>13. flatten[n] \in W
    <3> HIDE DEF W, n
    <3> QED
      BY <2>11, <2>12
  <2> QED
    BY <2>6, <2>13
<1> QED
  BY <1>1, <1>2

-----------------------------------------------------------------------------
(* What is hashed, round by round.                                         *)

LEMMA DivCeilFact ==
  ASSUME NEW a \in Nat \ {0}, NEW b \in Nat \ {0}
  PROVE  DivCeil(a, b) \in Nat \ {0}
<1> DEFINE c == a - 1
<1>1. c \in Nat /\ a + b - 1 = 1 * b + c
  OBVIOUS
<1> HIDE DEF c
<1>2. (1 * b + c) \div b = 1 + c \div b /\ c \div b \in Nat
  <2>1. c \div b \in Nat
    BY <1>1, DivFact
  <2>2. 1 \in Nat
    OBVIOUS
  <2>3. (1 * b + c) \div b = 1 + c \div b
    BY <1>1, <2>2, DivShift, Zenon
  <2> QED
    BY <2>1, <2>3
<1> QED
  BY <1>1, <1>2 DEF DivCeil

LEMMA RoundsFact == Rounds \in Nat \ {0}
  BY DecryptorConstants, DivCeilFact DEF Rounds

LEMMA SaltIsBytes ==
  ASSUME NEW salt \in Salts
  PROVE  salt \in Seq(Digit) /\ salt # <<>>
<1>1. PICK enc \in 0..(Len(Prefix) - 1), user \in DOMAIN Digits : salt = Salt(enc, user)
  BY DEF Salts
<1> DEFINE text == Prefix[enc + 1] \o Digits[user]
<1>2. text \in Seq(Digit)
  <2>1. Prefix[enc + 1] \in Seq(Digit)
    BY DecryptorConstants DEF Digit
  <2>2. Digits[user] \in Seq(Digit)
    BY DecryptorConstants DEF Digit
  <2> QED
    BY <2>1, <2>2
<1>3. salt = [i \in 1..SaltLength |-> IF i <= Len(text) THEN text[i] ELSE 0]
  BY <1>1 DEF Salt
<1> HIDE DEF text
<1>4. ASSUME NEW i \in 1..SaltLength
      PROVE  (IF i <= Len(text) THEN text[i] ELSE 0) \in Digit
  BY <1>2, Lengths
<1>5. salt \in [1..SaltLength -> Digit]
  BY <1>3, <1>4
<1>6. SaltLength \in Nat \ {0}
  BY DecryptorConstants
<1>7. salt \in Seq(Digit)
  BY <1>5, <1>6, IsASeq
<1>8. 1 \in DOMAIN salt
  BY <1>5, <1>6
<1> QED
  BY <1>7, <1>8

LEMMA PadFact ==
  ASSUME NEW data \in Seq(Digit), data # <<>>
  PROVE  Pad(data) \in Seq(BlockSet)
<1> DEFINE n == DivCeil(Len(data), BlockLength)
           at(k, i) == (((k - 1) * BlockLength + i - 1) % Len(data)) + 1
<1>1. Len(data) \in Nat \ {0}
  OBVIOUS
<1>2. n \in Nat
  BY <1>1, Lengths, DivCeilFact
<1>3. ASSUME NEW k \in 1..n, NEW i \in 1..BlockLength
      PROVE  data[at(k, i)] \in Digit
  <2> DEFINE x == (k - 1) * BlockLength
  <2>1. x \in Nat
    <3>1. k - 1 \in Nat /\ BlockLength \in Nat
      BY <1>2, Lengths
    <3> QED
      BY <3>1
  <2> HIDE DEF x
  <2>2. x + i - 1 \in Nat
    BY <2>1, Lengths
  <2>3. (x + i - 1) % Len(data) \in 0..(Len(data) - 1)
    BY <1>1, <2>2, DivFact
  <2>4. at(k, i) \in 1..Len(data)
    BY <1>1, <2>3 DEF x
  <2> QED
    BY <2>4
<1>4. Pad(data) = [k \in 1..n |-> [i \in 1..BlockLength |-> data[at(k, i)]]]
  BY DEF Pad
<1> HIDE DEF n, at
<1>5. Pad(data) \in [1..n -> BlockSet]
  BY <1>3, <1>4 DEF BlockSet
<1> QED
  BY <1>2, <1>5, IsASeq

\* The blocks of the first round.
Start(salt) == Pad(salt) \o Pad(Password)

LEMMA FirstBlocks ==
  ASSUME NEW salt \in Salts
  PROVE  Start(salt) \in Seq(BlockSet) /\ Len(Start(salt)) \in Nat
         /\ Start(salt) \in [1..Len(Start(salt)) -> BlockSet]
<1>1. Pad(salt) \in Seq(BlockSet)
  BY SaltIsBytes, PadFact
<1>2. Password \in Seq(Digit) /\ Password # <<>>
  BY DecryptorConstants DEF Digit
<1>3. Pad(Password) \in Seq(BlockSet)
  BY <1>2, PadFact
<1>4. Start(salt) \in Seq(BlockSet)
  BY <1>1, <1>3 DEF Start
<1> HIDE DEF Start
<1> QED
  BY <1>4

\* Under a hash that makes digests, the digest of blocks is one.
LEMMA DigestFact ==
  ASSUME HashMakesDigests, NEW blocks \in Seq(BlockSet)
  PROVE  Digest(blocks) \in DigestSet
<1>1. \A block \in BlockSet : block \in Seq(Digit)
  BY Lengths, IsASeq DEF BlockSet
<1>2. DigestSet \subseteq Seq(Digit)
  BY Lengths, IsASeq DEF DigestSet
<1>3. blocks \in Seq(Seq(Digit))
  <2>1. blocks \in [1..Len(blocks) -> BlockSet] /\ Len(blocks) \in Nat
    BY LenProperties
  <2>2. blocks \in [1..Len(blocks) -> Seq(Digit)]
    BY <1>1, <2>1
  <2> QED
    BY <2>1, <2>2, IsASeq
<1>4. FlattenSeq(blocks) \in Seq(Digit)
  BY <1>3, FlattenType
<1>5. Diversifier \in Seq(Digit)
  <2>1. 1 % Byte \in Digit
    BY Lengths, DivFact DEF Digit
  <2>2. Diversifier \in BlockSet
    BY <2>1 DEF Diversifier, BlockSet
  <2> QED
    BY <1>1, <2>2
<1>6. Diversifier \o FlattenSeq(blocks) \in Seq(Digit)
  BY <1>4, <1>5, ConcatProperties
<1>7. Sha1(Diversifier \o FlattenSeq(blocks)) \in Seq(Digit)
  BY <1>2, <1>6 DEF HashMakesDigests
<1> QED
  BY <1>7 DEF Digest, HashMakesDigests

\* The blocks of the next round.
NextBlocks(blocks) == [k \in DOMAIN blocks |-> AddDigest(blocks[k], Digest(blocks))]

LEMMA NextBlocksFact ==
  ASSUME HashMakesDigests, NEW m \in Nat, NEW blocks \in [1..m -> BlockSet]
  PROVE  NextBlocks(blocks) \in [1..m -> BlockSet] /\ Digest(blocks) \in DigestSet
<1>1. blocks \in Seq(BlockSet) /\ DOMAIN blocks = 1..m
  BY IsASeq
<1>2. Digest(blocks) \in DigestSet
  BY <1>1, DigestFact
<1>3. \A k \in 1..m : AddDigest(blocks[k], Digest(blocks)) \in BlockSet
  BY <1>2, AddDigestFact
<1> QED
  BY <1>1, <1>2, <1>3 DEF NextBlocks

LEMMA InputFact ==
  ASSUME HashMakesDigests, NEW salt \in Salts
  PROVE  /\ Input(salt) = [n \in 1..Rounds |-> Input(salt)[n]]
         /\ Input(salt)[1] = Start(salt)
         /\ \A n \in 2..Rounds : Input(salt)[n] = NextBlocks(Input(salt)[n - 1])
         /\ \A n \in 1..Rounds : Input(salt)[n] \in [1..Len(Start(salt)) -> BlockSet]
<1> DEFINE m == Len(Start(salt))
           W == [1..m -> BlockSet]
           D == 1..Rounds
           step == [n \in 2..Rounds |-> [x \in W |-> NextBlocks(x)]]
           Eq(p) == p = [n \in D |-> IF n = 1 THEN Start(salt) ELSE NextBlocks(p[n - 1])]
           input == CHOOSE p : Eq(p)
<1>1. m \in Nat /\ Start(salt) \in W /\ Rounds \in Nat \ {0}
  BY FirstBlocks, RoundsFact
<1>2. \A x \in W : NextBlocks(x) \in W
  BY <1>1, NextBlocksFact
<1> HIDE DEF W
<1>3. step \in StepsFromOne(Rounds, W)
  BY <1>2 DEF StepsFromOne
<1>4. PICK f : FollowsFromOne(f, Rounds, W, Start(salt), step)
  <2> HIDE DEF step
  <2> QED
    BY <1>1, <1>3, RecursionFromOne
<1>5. f \in [D -> W] /\ f[1] = Start(salt) /\ \A n \in 2..Rounds : f[n] = step[n][f[n - 1]]
  BY <1>4 DEF FollowsFromOne
<1>6. Eq(f)
  <2>1. ASSUME NEW n \in 2..Rounds PROVE f[n] = NextBlocks(f[n - 1])
    <3>1. n - 1 \in D
      BY <1>1
    <3>2. f[n - 1] \in W
      BY <1>5, <3>1
    <3> QED
      BY <1>5, <3>2
  <2>2. \A n \in D : n = 1 \/ (n # 1 /\ n \in 2..Rounds)
    BY <1>1
  <2> QED
    BY <1>5, <2>1, <2>2
<1>7. Input(salt) = input
  BY DEF Input, Start, NextBlocks
<1> HIDE DEF Eq
<1>8. Eq(input)
  BY <1>6, Zenon
<1> HIDE DEF input
<1> USE DEF Eq
<1>9. input = [n \in D |-> input[n]]
  BY <1>8
<1>10. \A n \in D : input[n] = IF n = 1 THEN Start(salt) ELSE NextBlocks(input[n - 1])
  BY <1>8
<1> HIDE DEF Eq
<1>11. input[1] = Start(salt) /\ \A n \in 2..Rounds : input[n] = NextBlocks(input[n - 1])
  BY <1>1, <1>10
<1>12. input \in [D -> W]
  <2>1. input[1] \in W /\ \A n \in 2..Rounds : input[n - 1] \in W => input[n] \in W
    BY <1>1, <1>2, <1>11
  <2> QED
    BY <1>1, <1>9, <2>1, TypeFromOne
<1> QED
  BY <1>7, <1>9, <1>11, <1>12 DEF W

\* The numbers of blocks, and the step of the reference on them.
NumbersOf(blocks) == [k \in DOMAIN blocks |-> Value(blocks[k])]

NextNumbers(I) ==
    [j \in DOMAIN I |->
        (I[j] + Value(Repeated(Digest(BlocksOf(I)))) + 1) % Power[BlockLength]]

LEMMA NumbersFact ==
  ASSUME NEW m \in Nat, NEW blocks \in [1..m -> BlockSet]
  PROVE  BlocksOf(NumbersOf(blocks)) = blocks
<1>1. NumbersOf(blocks) = [k \in 1..m |-> Value(blocks[k])]
  BY DEF NumbersOf
<1>2. BlocksOf(NumbersOf(blocks)) = [k \in 1..m |-> BlockOf(Value(blocks[k]))]
  BY <1>1 DEF BlocksOf
<1>3. \A k \in 1..m : BlockOf(Value(blocks[k])) = blocks[k]
  BY BlockOfValue
<1>4. blocks = [k \in 1..m |-> blocks[k]]
  OBVIOUS
<1> QED
  BY <1>2, <1>3, <1>4

\* A round of the reference is a round of the code.
LEMMA NextNumbersFact ==
  ASSUME HashMakesDigests, NEW m \in Nat, NEW blocks \in [1..m -> BlockSet]
  PROVE  NextNumbers(NumbersOf(blocks)) = NumbersOf(NextBlocks(blocks))
<1> DEFINE d == Digest(blocks)
           p == Power[BlockLength]
<1>1. d \in DigestSet
  BY NextBlocksFact
<1>2. BlocksOf(NumbersOf(blocks)) = blocks
  BY NumbersFact
<1>3. NumbersOf(blocks) = [k \in 1..m |-> Value(blocks[k])]
  BY DEF NumbersOf
<1>4. NextNumbers(NumbersOf(blocks)) = [k \in 1..m |-> (Value(blocks[k]) + Value(Repeated(d)) + 1) % p]
  BY <1>2, <1>3 DEF NextNumbers
<1>5. NextBlocks(blocks) = [k \in 1..m |-> AddDigest(blocks[k], d)]
  BY DEF NextBlocks
<1>6. NumbersOf(NextBlocks(blocks)) = [k \in 1..m |-> Value(AddDigest(blocks[k], d))]
  BY <1>5 DEF NumbersOf
<1> HIDE DEF d
<1>7. \A k \in 1..m : Value(AddDigest(blocks[k], d)) = (Value(blocks[k]) + Value(Repeated(d)) + 1) % p
  BY <1>1, AddDigestSum
<1> QED
  BY <1>4, <1>6, <1>7

\* Round by round, the numbers of the reference are those of the blocks of the
\* code.
LEMMA RoundsAgree ==
  ASSUME HashMakesDigests, NEW salt \in Salts
  PROVE  Numbers(salt) = [n \in 1..Rounds |-> NumbersOf(Input(salt)[n])]
<1> DEFINE D == 1..Rounds
           first == NumbersOf(Start(salt))
           f == [n \in D |-> NumbersOf(Input(salt)[n])]
           Eq(p) == p = [n \in D |-> IF n = 1 THEN first ELSE NextNumbers(p[n - 1])]
           I == CHOOSE p : Eq(p)
           m == Len(Start(salt))
<1>1. Rounds \in Nat \ {0} /\ m \in Nat
  BY RoundsFact, FirstBlocks
<1>2. f[1] = first
  BY <1>1, InputFact
<1>3. ASSUME NEW n \in 2..Rounds
      PROVE  f[n] = NextNumbers(f[n - 1])
  <2>1. n \in D /\ n - 1 \in D
    BY <1>1
  <2>2. Input(salt)[n] = NextBlocks(Input(salt)[n - 1]) /\ Input(salt)[n - 1] \in [1..m -> BlockSet]
    BY <2>1, InputFact
  <2>3. NextNumbers(NumbersOf(Input(salt)[n - 1])) = NumbersOf(NextBlocks(Input(salt)[n - 1]))
    BY <1>1, <2>2, NextNumbersFact
  <2> QED
    BY <2>1, <2>2, <2>3
<1>4. f = [n \in D |-> f[n]]
  OBVIOUS
<1>5. \A n \in D : n = 1 \/ (n # 1 /\ n \in 2..Rounds /\ n - 1 \in D)
  BY <1>1
<1> HIDE DEF f, first
<1>6. Eq(f)
  BY <1>2, <1>3, <1>4, <1>5
<1>7. Numbers(salt) = I
  BY DEF Numbers, Start, NumbersOf, NextNumbers, first
<1> HIDE DEF Eq
<1>8. Eq(I)
  BY <1>6, Zenon
<1> HIDE DEF I
<1> USE DEF Eq
<1>9. I = [n \in D |-> I[n]]
  BY <1>8
<1>10. \A n \in D : I[n] = IF n = 1 THEN first ELSE NextNumbers(I[n - 1])
  BY <1>8
<1> HIDE DEF Eq
<1> DEFINE S == {k \in Nat : k + 1 <= Rounds => I[k + 1] = f[k + 1]}
<1>11. 0 \in S
  BY <1>1, <1>2, <1>10
<1>12. ASSUME NEW k \in Nat, k \in S
       PROVE  k + 1 \in S
  <2>1. CASE (k + 1) + 1 <= Rounds
    <3> DEFINE n == (k + 1) + 1
    <3>1. n \in 2..Rounds /\ n - 1 = k + 1 /\ n \in D /\ n # 1
      BY <1>1, <2>1
    <3>2. I[k + 1] = f[k + 1]
      BY <1>1, <1>12, <2>1
    <3> HIDE DEF n
    <3>3. I[n] = NextNumbers(I[k + 1]) /\ f[n] = NextNumbers(f[k + 1])
      BY <1>3, <1>10, <3>1
    <3>4. I[n] = f[n]
      BY <3>2, <3>3
    <3> QED
      BY <3>4 DEF n
  <2>2. CASE ~((k + 1) + 1 <= Rounds)
    BY <2>2
  <2> QED
    BY <2>1, <2>2
<1> HIDE DEF S
<1>13. Nat \subseteq S
  BY <1>11, <1>12, SetInduction
<1>14. ASSUME NEW n \in D PROVE I[n] = f[n]
  <2>1. n - 1 \in Nat /\ (n - 1) + 1 = n /\ (n - 1) + 1 <= Rounds
    BY <1>1
  <2>2. n - 1 \in S
    BY <1>13, <2>1
  <2> QED
    BY <2>1, <2>2 DEF S
<1>15. I = f
  BY <1>4, <1>9, <1>14
<1> QED
  BY <1>7, <1>15 DEF f

THEOREM DerivationTheorem ==
  ASSUME HashMakesDigests
  PROVE  DeriveKey = ReferenceKey
<1> SUFFICES ASSUME NEW salt \in Salts PROVE DeriveKey[salt] = ReferenceKey[salt]
  BY DEF DeriveKey, ReferenceKey
<1> DEFINE input == Input(salt)
           I == Numbers(salt)
           m == Len(Start(salt))
<1>1. I = [n \in 1..Rounds |-> NumbersOf(input[n])]
  BY RoundsAgree
<1>2. DOMAIN input = 1..Rounds /\ \A n \in 1..Rounds : input[n] \in [1..m -> BlockSet]
  BY InputFact
<1>3. m \in Nat
  BY FirstBlocks
<1>4. DeriveKey[salt] = SubSeq(FlattenSeq([n \in DOMAIN input |-> Digest(input[n])]), 1, KeyLength)
  BY DEF DeriveKey
<1>5. ReferenceKey[salt] = SubSeq(FlattenSeq([n \in DOMAIN I |-> Digest(BlocksOf(I[n]))]), 1, KeyLength)
  BY DEF ReferenceKey
<1> HIDE DEF input, I
<1>6. \A n \in 1..Rounds : BlocksOf(I[n]) = input[n]
  BY <1>1, <1>2, <1>3, NumbersFact
<1>7. [n \in DOMAIN input |-> Digest(input[n])] = [n \in DOMAIN I |-> Digest(BlocksOf(I[n]))]
  BY <1>1, <1>2, <1>6
<1> QED
  BY <1>4, <1>5, <1>7, Zenon

-----------------------------------------------------------------------------
(* The theorems.                                                           *)

\* Whatever statements, chunks, tables and files an answer is put together
\* from, in whatever order the calls take their turns, and whatever the
\* messenger writes meanwhile: every answer is one that ReadContract allows.
\* It rests on the DerivationTheorem: a text under another key would be shown
\* as a wrong one.
THEOREM Refinement ==
  ASSUME HashMakesDigests
  PROVE  Spec => ImplementsContract
<1>1. Init => Contract!Init
  BY ContractInit
<1>2. IInv /\ [Next]_vars => [Contract!Next]_Contract!contractVars
  BY DerivationTheorem, ContractNext
<1> QED
  BY <1>1, <1>2, Invariance, PTL DEF Spec, ImplementsContract, Contract!Spec

\* However the threads that derive and insert keys take turns, the key under
\* a salt is the one that derive_key makes of this salt.
CacheIsFaithful == \A salt \in DOMAIN keys : salt \in Salts /\ keys[salt] = DeriveKey[salt]

\* The cache of src/crypto/crypto.rs never mixes up the keys of two salts.
THEOREM CacheTheorem == Spec => []CacheIsFaithful
<1>1. IInv => CacheIsFaithful
  BY DEF IInv, CacheInv, CacheIsFaithful
<1> QED
  BY <1>1, Invariance, PTL

\* The keys that are handed out are those of RFC 7292, whatever the lengths of
\* blocks, digests and keys, and however the threads take turns.
THEOREM KeysDerived ==
  ASSUME HashMakesDigests
  PROVE  Spec => []KeysAreDerived
<1>1. CacheIsFaithful => KeysAreDerived
  BY DerivationTheorem DEF CacheIsFaithful, KeysAreDerived
<1> QED
  BY <1>1, CacheTheorem, PTL
=============================================================================
