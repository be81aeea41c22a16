---------------------------- MODULE ReadRequests ----------------------------
(***************************************************************************)
(* The requests that read (src/service.rs from get_user on) and the        *)
(* query layer under them (members.rs, channels.rs, messages.rs, raw.rs,   *)
(* credential.rs of src).  Every request but Decrypt and GetCredential     *)
(* is one closure on a blocking thread; it takes a connection of the pool, *)
(* runs one or several statements on it, each of which sees the tables as  *)
(* they are at that moment, and decrypts what it read with the keys that   *)
(* all threads share (Decryptor).  The messenger writes all the while.     *)
(*                                                                         *)
(* A row is <<table, key>>; of its columns nothing is left but the         *)
(* encryption type of a member's texts and what a channel takes its name   *)
(* from.  The two files of the messenger that hold credentials are rows of *)
(* tables of their own, keyed by the login that wrote them.                *)
(***************************************************************************)
EXTENDS Decryptor, FiniteSets, FiniteSetsExt

CONSTANTS
    Tasks,         \* calls in progress at the same time
    Ids,           \* user ids
    Messages,      \* message ids
    Channels,
    OpenChannels,  \* channels with the bit of OPEN_CHANNEL_ID_MASK
    Rooms,         \* Rooms[c]: what the row of channel c says
    ChannelOf,     \* ChannelOf[m]: the channel of message m
    EncOf,         \* EncOf[u]: the encryption type of the texts of member u
    Self,          \* current_user_id
    Logins,        \* logins of the messenger
    PoolSize,      \* connections: 10 in database/mod.rs
    ChunkSize,     \* ids in one statement: 500
    MaxWrites,     \* bound: rows the messenger inserts or removes
    Inputs         \* the tables and requests that are tried

Rows == ({"user", "friends", "open_chat_member"} \X Ids)
            \cup ({"chat_rooms", "open_link", "open_profile"} \X Channels)
            \cup ({"chat_logs"} \X Messages)
            \cup ({"device", "aot"} \X Logins)

Kinds == {"users", "messages", "members", "channel", "raw", "credential", "decrypt"}

Calls == [kind : Kinds, channel : Channels, ids : Seq(Nat), limit : Nat, enc : Nat,
          sql : STRING, params : Seq(STRING)]

ASSUME ReadConstants ==
    /\ Self \in Ids /\ Ids \subseteq Nat /\ Ids \subseteq DOMAIN Digits
    /\ Messages \subseteq Nat /\ IsFiniteSet(Messages) /\ Logins \subseteq Nat
    /\ OpenChannels \subseteq Channels
    /\ Rooms \in [Channels -> [om : BOOLEAN, named : BOOLEAN, display : Seq(Ids)]]
    /\ ChannelOf \in [Messages -> Channels]
    /\ EncOf \in [Ids -> Nat]
    /\ PoolSize \in Nat \ {0} /\ ChunkSize \in Nat \ {0} /\ MaxWrites \in Nat
    /\ Nobody \notin Tasks

\* The lists of the requests are of users or of messages, and Decrypt has one
\* text of one user.
ASSUME InputsAreRequests ==
    \A input \in Inputs :
        /\ input.present \subseteq Rows /\ input.moving \subseteq Rows
        /\ input.request \in [Tasks -> Calls]
        /\ \A t \in Tasks : LET q == input.request[t] IN
            /\ q.kind \in {"users", "decrypt"} => ToSet(q.ids) \subseteq Ids
            /\ q.kind = "messages" => ToSet(q.ids) \subseteq Messages
            /\ q.kind = "decrypt" => Len(q.ids) = 1
            /\ q.kind = "credential" => q.ids = <<>>

VARIABLES
    present,   \* rows and files that exist
    moving,    \* bound: the rows that the messenger writes; never changes
    request,   \* request[t]: what t asks for; never changes
    asked,     \* calls that have begun
    holding,   \* tasks that hold a connection
    stage,     \* stage[t]: what t does next
    ids,       \* ids[t]: the ids of the list it works on
    todo,      \* todo[t]: ids the current statements have yet to ask for
    fetched,   \* fetched[t]: ids of rows read and not yet decrypted
    found,     \* found[t]: what has been read so far
    answer,    \* answer[t]: <<>>, or <<the answer>>
    writes,    \* how often the messenger has written
    always,    \* history: rows that have been there ever since t asked
    ever,      \* history: rows that have been there at some time since
    broke      \* history: tasks with a statement, file or thread that failed

dataVars == <<present, moving, request, writes>>
workVars == <<stage, ids, todo, fetched, found>>
histVars == <<always, ever, broke>>
vars == <<dataVars, asked, holding, workVars, answer, cacheVars, histVars>>

Stages == {"idle", "own", "user", "friends", "open_chat_member", "collect", "chat_logs",
           "map", "members", "chat_rooms", "open_link", "raw", "device", "aot",
           "decrypt", "done"}
Entries == [id : Nat, from : {"own", "decrypt"} \cup {row[1] : row \in Rows},
            text : {"clear", "same", "wrong"}]

TypeOK ==
    /\ present \in SUBSET Rows /\ writes \in 0..MaxWrites
    /\ asked \in SUBSET Tasks
    /\ holding \in SUBSET asked /\ Cardinality(holding) <= PoolSize
    /\ stage \in [Tasks -> Stages]
    /\ \A t \in Tasks :
        /\ ids[t] \in Seq(Nat)
        /\ todo[t] \subseteq ToSet(ids[t]) /\ fetched[t] \subseteq ToSet(ids[t])
        /\ found[t] \subseteq Entries
        /\ Cardinality({entry.id : entry \in found[t]}) = Cardinality(found[t])
        /\ stage[t] = "done" <=> answer[t] # <<>>
    /\ DOMAIN keys \subseteq Salts
    /\ mutex \in Tasks \cup {Nobody}

Init ==
    /\ \E input \in Inputs :
        present = input.present /\ moving = input.moving /\ request = input.request
    /\ asked = {} /\ holding = {} /\ writes = 0
    /\ stage = [t \in Tasks |-> "idle"]
    /\ ids = [t \in Tasks |-> <<>>]
    /\ todo = [t \in Tasks |-> {}]
    /\ fetched = [t \in Tasks |-> {}]
    /\ found = [t \in Tasks |-> {}]
    /\ answer = [t \in Tasks |-> <<>>]
    /\ always = [t \in Tasks |-> {}] /\ ever = [t \in Tasks |-> {}]
    /\ broke = {}
    /\ CacheInit

-----------------------------------------------------------------------------
(* The messenger.                                                          *)

Changed(now) ==
    /\ writes < MaxWrites
    /\ writes' = writes + 1
    /\ present' = now
    /\ always' = [t \in Tasks |-> always[t] \cap now]
    /\ ever' = [t \in Tasks |-> IF t \in asked THEN ever[t] \cup now ELSE ever[t]]
    /\ UNCHANGED <<moving, request, asked, holding, workVars, answer, cacheVars, broke>>

\* A file is written by one login at a time.
InsertRow(row) ==
    /\ row \notin present
    /\ row[1] \in {"device", "aot"} => \A r \in present : r[1] # row[1]
    /\ Changed(present \cup {row})

\* For a file: it is being rewritten and cannot be read.
RemoveRow(row) ==
    /\ row \in present
    /\ Changed(present \ {row})

-----------------------------------------------------------------------------
(* Calls.                                                                  *)

Ok(items) == [outcome |-> "ok", items |-> items, id |-> 0]
Missing(id) == [outcome |-> "missing", items |-> <<>>, id |-> id]
Error(outcome) == [outcome |-> outcome, items |-> <<>>, id |-> 0]
Entry(id, from, text) == [id |-> id, from |-> from, text |-> text]

At(t, s) == stage[t] = s

\* The task goes on to stage s with list as the ids it works on.
Enter(t, s, list) ==
    /\ stage' = [stage EXCEPT ![t] = s]
    /\ ids' = [ids EXCEPT ![t] = list]
    /\ todo' = [todo EXCEPT ![t] = ToSet(list)]

Advance(t, s) ==
    /\ stage' = [stage EXCEPT ![t] = s]
    /\ UNCHANGED <<ids, todo>>

\* The closure returns, and with it the connection.
Return(t, ans) ==
    /\ stage' = [stage EXCEPT ![t] = "done"]
    /\ answer' = [answer EXCEPT ![t] = <<ans>>]
    /\ holding' = holding \ {t}

\* Into the map of what was found; an entry replaces that of the same id.
Put(t, entries) ==
    found' = [found EXCEPT ![t] =
                {old \in @ : \A entry \in entries : entry.id # old.id} \cup entries]

\* What a JSON value becomes as a parameter; arrays and objects, and a text
\* that is no JSON ("malformed"), do not become one.
SqlValue == [null |-> "null", bool |-> "integer", integer |-> "integer",
             real |-> "real", string |-> "text"]

\* A raw query with an SQL text and parameters; Decrypt with a known type.
WellFormed(q) ==
    CASE q.kind = "raw" ->
            q.sql # "" /\ \A i \in 1..Len(q.params) : q.params[i] \in DOMAIN SqlValue
      [] q.kind = "decrypt" -> ValidEnc(q.enc)
      [] OTHER -> TRUE

FirstStage == [users |-> "own", messages |-> "chat_logs", members |-> "members",
               channel |-> "chat_rooms", raw |-> "raw", credential |-> "device",
               decrypt |-> "decrypt"]

Ask(t) ==
    /\ t \notin asked
    /\ asked' = asked \cup {t}
    /\ always' = [always EXCEPT ![t] = present]
    /\ ever' = [ever EXCEPT ![t] = present]
    /\ Enter(t, FirstStage[request[t].kind], request[t].ids)
    /\ UNCHANGED <<dataVars, holding, fetched, found, answer, cacheVars, broke>>

\* What is answered before any connection is taken: an empty list of ids, an
\* empty SQL text or parameters that are no SQL values.
AnswerAtOnce(t) ==
    /\ t \in asked /\ answer[t] = <<>> /\ ids[t] = <<>>
    /\ \/ At(t, "own") /\ Return(t, Ok(<<>>))
       \/ At(t, "chat_logs") /\ Return(t, Ok(<<>>))
       \/ At(t, "raw") /\ ~WellFormed(request[t]) /\ Return(t, Error("invalid"))
    /\ UNCHANGED <<dataVars, asked, ids, todo, fetched, found, cacheVars, histVars>>

OnConnection == {"own", "user", "friends", "open_chat_member", "collect", "chat_logs", "map",
                 "members", "chat_rooms", "open_link", "raw"}

NeedsConnection(t) ==
    /\ stage[t] \in OnConnection
    /\ At(t, "own") \/ At(t, "chat_logs") => ids[t] # <<>>
    /\ At(t, "raw") => WellFormed(request[t])

\* Fault: a connection of its own for each call.
AcquireNew(t) ==
    /\ NeedsConnection(t) /\ t \notin holding
    /\ holding' = holding \cup {t}
    /\ UNCHANGED <<dataVars, asked, workVars, answer, cacheVars, histVars>>

\* pool.get()
Acquire(t) ==
    /\ NeedsConnection(t) /\ t \notin holding
    /\ Cardinality(holding) < PoolSize
    /\ holding' = holding \cup {t}
    /\ UNCHANGED <<dataVars, asked, workVars, answer, cacheVars, histVars>>

\* A statement at stage s of t runs now.
Query(t, s) == At(t, s) /\ t \in holding

\* A statement, a file, the mapping of a message or the thread fails, or the
\* pool has no connection for too long.
Breaks(t) ==
    /\ \/ NeedsConnection(t) /\ (t \in holding \/ Cardinality(holding) = PoolSize)
       \/ stage[t] \in {"device", "aot"}
    /\ mutex # t
    /\ broke' = broke \cup {t}
    /\ Return(t, Error("failed"))
    /\ UNCHANGED <<dataVars, asked, ids, todo, fetched, found, cacheVars, always, ever>>

-----------------------------------------------------------------------------
(* get_users_with_connection.                                              *)

Channel(t) == request[t].channel
IsOpen(t) == Channel(t) \in OpenChannels

\* The own member, without a look at the tables of other members.
Own(t) ==
    /\ Query(t, "own") /\ ids[t] # <<>>
    /\ stage' = [stage EXCEPT ![t] = IF IsOpen(t) THEN "open_chat_member" ELSE "user"]
    /\ todo' = [todo EXCEPT ![t] = @ \ {Self}]
    /\ IF Self \notin todo[t] THEN UNCHANGED found
       ELSE /\ IsOpen(t) => {<<"open_profile", Channel(t)>>, <<"chat_rooms", Channel(t)>>}
                                \subseteq present
            /\ Put(t, {Entry(Self, IF IsOpen(t) THEN "open_profile" ELSE "own", "clear")})
    /\ UNCHANGED <<dataVars, asked, holding, ids, fetched, answer, cacheVars, histVars>>

\* In an open channel without an own profile the query has no row.
NoProfile(t) ==
    /\ Query(t, "own") /\ Self \in todo[t] /\ IsOpen(t)
    /\ ~({<<"open_profile", Channel(t)>>, <<"chat_rooms", Channel(t)>>} \subseteq present)
    /\ Return(t, Error("failed"))
    /\ UNCHANGED <<dataVars, asked, ids, todo, fetched, found, cacheVars, histVars>>

\* The ids of a statement: the order of a HashSet, cut into chunks.
Chunks(S) == kSubset(Min({ChunkSize, Cardinality(S)}), S)

\* One statement for a chunk of the ids.  The rows of table user are in
\* clear, those of friends and open_chat_member go through the decryptor.
LoadChunk(t, table) ==
    /\ Query(t, table) /\ todo[t] # {} /\ fetched[t] = {}
    /\ \E chunk \in Chunks(todo[t]) :
        LET there == {id \in chunk : /\ <<table, id>> \in present
                                     /\ IsOpen(t) => <<"chat_rooms", Channel(t)>> \in present}
        IN  /\ todo' = [todo EXCEPT ![t] = @ \ chunk]
            /\ IF table = "user"
               THEN /\ Put(t, {Entry(id, table, "clear") : id \in there})
                    /\ UNCHANGED fetched
               ELSE /\ fetched' = [fetched EXCEPT ![t] = there]
                    /\ UNCHANGED found
    /\ UNCHANGED <<dataVars, asked, holding, stage, ids, answer, cacheVars, histVars>>

FoundIds(t) == {entry.id : entry \in found[t]}

\* Fault: everybody is looked for among the friends.
UserDoneAll(t) ==
    /\ Query(t, "user") /\ todo[t] = {}
    /\ stage' = [stage EXCEPT ![t] = "friends"]
    /\ todo' = [todo EXCEPT ![t] = ToSet(ids[t]) \ {Self}]
    /\ UNCHANGED <<dataVars, asked, holding, ids, fetched, found, answer, cacheVars, histVars>>

\* Whom user does not know is looked for among the friends.
UserDone(t) ==
    /\ Query(t, "user") /\ todo[t] = {}
    /\ stage' = [stage EXCEPT ![t] = "friends"]
    /\ todo' = [todo EXCEPT ![t] = ToSet(ids[t]) \ FoundIds(t)]
    /\ UNCHANGED <<dataVars, asked, holding, ids, fetched, found, answer, cacheVars, histVars>>

LoadDone(t, table) ==
    /\ Query(t, table) /\ todo[t] = {} /\ fetched[t] = {}
    /\ Advance(t, "collect")
    /\ UNCHANGED <<dataVars, asked, holding, fetched, found, answer, cacheVars, histVars>>

EntryOf(t, id) == CHOOSE entry \in found[t] : entry.id = id

\* Fault: the members in no particular order, each once.
MembersOnce(t) == SetToSeq(found[t])

\* One member for each id of the list.
Members(t) == [i \in 1..Len(ids[t]) |-> EntryOf(t, ids[t][i])]

\* The list in the order in which it was asked for, or the first id of it
\* that is nowhere.
Collect(t) ==
    LET gone == {i \in 1..Len(ids[t]) : ids[t][i] \notin FoundIds(t)} IN
    /\ Query(t, "collect")
    /\ Return(t, IF gone = {} THEN Ok(Members(t)) ELSE Missing(ids[t][Min(gone)]))
    /\ UNCHANGED <<dataVars, asked, ids, todo, fetched, found, cacheVars, histVars>>

-----------------------------------------------------------------------------
(* Decryption of the rows of a statement, and Decrypt.                     *)

\* The next text of t: <<enc, user>>.  Members' texts are decrypted for the
\* current user.
Wanted(t, id) ==
    IF At(t, "decrypt") THEN <<request[t].enc, id>> ELSE <<EncOf[id], Self>>

SaltFor(t, id) == Salt(Wanted(t, id)[1], Wanted(t, id)[2])

Decrypting(t, id) ==
    \/ stage[t] \in {"friends", "open_chat_member"} /\ id \in fetched[t]
    \/ At(t, "decrypt") /\ id = ids[t][1]

\* The row, or the answer of Decrypt, with this text.
Take(t, id, text) ==
    IF At(t, "decrypt")
    THEN /\ Return(t, Ok(<<Entry(id, "decrypt", text)>>))
         /\ UNCHANGED <<fetched, found>>
    ELSE /\ fetched' = [fetched EXCEPT ![t] = @ \ {id}]
         /\ Put(t, {Entry(id, stage[t], text)})
         /\ UNCHANGED <<stage, answer, holding>>

\* The text that a key makes of one that was encrypted under this salt.
With(key, salt) == IF key = ReferenceKey[salt] THEN "clear" ELSE "wrong"

\* An unknown encryption type: the text is handed out as it is.
DecryptInvalid(t, id) ==
    /\ Decrypting(t, id) /\ ~ValidEnc(Wanted(t, id)[1])
    /\ Take(t, id, "same")
    /\ UNCHANGED <<dataVars, asked, ids, todo, cacheVars, histVars>>

DecryptHit(t, id) ==
    /\ Decrypting(t, id) /\ ValidEnc(Wanted(t, id)[1])
    /\ Hit(SaltFor(t, id))
    /\ Take(t, id, With(keys[SaltFor(t, id)], SaltFor(t, id)))
    /\ UNCHANGED <<dataVars, asked, ids, todo, cacheVars, histVars>>

DecryptMiss(t, id) ==
    /\ Decrypting(t, id) /\ ValidEnc(Wanted(t, id)[1])
    /\ Miss(t, SaltFor(t, id))
    /\ UNCHANGED <<dataVars, asked, holding, workVars, answer, histVars>>

DecryptInsert(t, id) ==
    /\ Decrypting(t, id) /\ ValidEnc(Wanted(t, id)[1])
    /\ Insert(t, SaltFor(t, id))
    /\ Take(t, id, With(DeriveKey[SaltFor(t, id)], SaltFor(t, id)))
    /\ UNCHANGED <<dataVars, asked, ids, todo, histVars>>

-----------------------------------------------------------------------------
(* get_channel and get_channel_members.                                    *)

NamedByMembers(c) == ~Rooms[c].om /\ ~Rooms[c].named /\ Rooms[c].display # <<>>

\* The name of a channel of type OM is looked up through its row once more.
RowsOf(t, table) == {<<table, Channel(t)>>, <<"chat_rooms", Channel(t)>>}

NoRow(t, table) ==
    /\ Query(t, table) /\ ~(RowsOf(t, table) \subseteq present)
    /\ Return(t, Error("failed"))
    /\ UNCHANGED <<dataVars, asked, ids, todo, fetched, found, cacheVars, histVars>>

ChannelMembers(t) ==
    /\ Query(t, "members")
    /\ Return(t, IF <<"chat_rooms", Channel(t)>> \in present
                 THEN Ok(<<Entry(Channel(t), "chat_rooms", "clear")>>)
                 ELSE Error("failed"))
    /\ UNCHANGED <<dataVars, asked, ids, todo, fetched, found, cacheVars, histVars>>

\* The row says where the name comes from: from open_link for a channel of
\* type OM, from the row itself, or from the members to display.
ChannelRow(t) ==
    /\ Query(t, "chat_rooms") /\ RowsOf(t, "chat_rooms") \subseteq present
    /\ IF Rooms[Channel(t)].om
       THEN Advance(t, "open_link") /\ UNCHANGED <<holding, answer>>
       ELSE IF NamedByMembers(Channel(t))
       THEN Enter(t, "own", Rooms[Channel(t)].display) /\ UNCHANGED <<holding, answer>>
       ELSE Return(t, Ok(<<>>)) /\ UNCHANGED <<ids, todo>>
    /\ UNCHANGED <<dataVars, asked, fetched, found, cacheVars, histVars>>

OpenLink(t) ==
    /\ Query(t, "open_link") /\ RowsOf(t, "open_link") \subseteq present
    /\ Return(t, Ok(<<>>))
    /\ UNCHANGED <<dataVars, asked, ids, todo, fetched, found, cacheVars, histVars>>

-----------------------------------------------------------------------------
(* get_messages and raw_query.                                             *)

\* One statement for a chunk of the ids.
MessageChunk(t) ==
    /\ Query(t, "chat_logs") /\ todo[t] # {}
    /\ \E chunk \in Chunks(todo[t]) :
        /\ todo' = [todo EXCEPT ![t] = @ \ chunk]
        /\ Put(t, {Entry(m, "chat_logs", "clear") :
                    m \in {x \in chunk : /\ <<"chat_logs", x>> \in present
                                         /\ ChannelOf[x] = Channel(t)}})
    /\ UNCHANGED <<dataVars, asked, holding, stage, ids, fetched, answer, cacheVars, histVars>>

\* Fault: the connection is kept while the messages are mapped.
MessagesReadKeeping(t) ==
    LET gone == {i \in 1..Len(ids[t]) : ids[t][i] \notin FoundIds(t)} IN
    /\ Query(t, "chat_logs") /\ ids[t] # <<>> /\ todo[t] = {}
    /\ IF gone # {}
       THEN Return(t, Missing(ids[t][Min(gone)])) /\ UNCHANGED <<ids, todo>>
       ELSE /\ Cardinality(holding) < PoolSize
            /\ holding' = holding \ {t}
            /\ Enter(t, "map", ids[t])
            /\ UNCHANGED answer
    /\ UNCHANGED <<dataVars, asked, fetched, found, cacheVars, histVars>>

\* get_message_rows returns, and gives its connection back before the first
\* message is mapped.
MessagesRead(t) ==
    LET gone == {i \in 1..Len(ids[t]) : ids[t][i] \notin FoundIds(t)} IN
    /\ Query(t, "chat_logs") /\ ids[t] # <<>> /\ todo[t] = {}
    /\ IF gone # {}
       THEN Return(t, Missing(ids[t][Min(gone)])) /\ UNCHANGED <<ids, todo>>
       ELSE /\ holding' = holding \ {t}
            /\ Enter(t, "map", ids[t])
            /\ UNCHANGED answer
    /\ UNCHANGED <<dataVars, asked, fetched, found, cacheVars, histVars>>

\* map_message, on connections of its own (MessageMapping); the events come
\* in the order of the ids.
MapMessages(t) ==
    /\ Query(t, "map")
    /\ Return(t, Ok(Members(t)))
    /\ UNCHANGED <<dataVars, asked, ids, todo, fetched, found, cacheVars, histVars>>

\* Fault: while output.len() <= limit.
OneTooMany(S, limit) == {m \in S : Cardinality({x \in S : x < m}) <= limit}

\* while output.len() < limit
First(S, limit) == {m \in S : Cardinality({x \in S : x < m}) < limit}

\* A SELECT in the order of the ids; with a limit of 0 it is never stepped.
RawQuery(t) ==
    LET rows == First({m \in Messages : <<"chat_logs", m>> \in present}, request[t].limit) IN
    /\ Query(t, "raw")
    /\ \E order \in [1..Cardinality(rows) -> rows] :
        /\ \A i, j \in DOMAIN order : i < j => order[i] < order[j]
        /\ Return(t, Ok([i \in DOMAIN order |-> Entry(order[i], "chat_logs", "clear")]))
    /\ UNCHANGED <<dataVars, asked, ids, todo, fetched, found, cacheVars, histVars>>

-----------------------------------------------------------------------------
(* GetCredential: two files, one after the other.                          *)

ReadFile(t, table, after) ==
    /\ At(t, table)
    /\ \/ \E login \in Logins :
            /\ <<table, login>> \in present
            /\ ids' = [ids EXCEPT ![t] = Append(@, login)]
            /\ IF after = "done"
               THEN Return(t, Ok([i \in 1..2 |-> Entry(ids'[t][i], <<"device", "aot">>[i], "clear")]))
               ELSE stage' = [stage EXCEPT ![t] = after] /\ UNCHANGED <<answer, holding>>
       \/ /\ \A login \in Logins : <<table, login>> \notin present
          /\ Return(t, Error("failed"))
          /\ UNCHANGED ids
    /\ UNCHANGED <<dataVars, asked, todo, fetched, found, cacheVars, histVars>>

-----------------------------------------------------------------------------
Decrypt(t) ==
    \E id \in Ids :
        \/ DecryptInvalid(t, id)
        \/ DecryptHit(t, id)
        \/ DecryptMiss(t, id)
        \/ DecryptInsert(t, id)

\* What a task does when nothing goes wrong.
Step(t) ==
    \/ Ask(t)
    \/ AnswerAtOnce(t)
    \/ Acquire(t)
    \/ Own(t)
    \/ NoProfile(t)
    \/ \E table \in {"user", "friends", "open_chat_member"} : LoadChunk(t, table)
    \/ UserDone(t)
    \/ \E table \in {"friends", "open_chat_member"} : LoadDone(t, table)
    \/ Collect(t)
    \/ Decrypt(t)
    \/ \E table \in {"chat_rooms", "open_link"} : NoRow(t, table)
    \/ ChannelMembers(t)
    \/ ChannelRow(t)
    \/ OpenLink(t)
    \/ MessageChunk(t)
    \/ MessagesRead(t)
    \/ MapMessages(t)
    \/ RawQuery(t)
    \/ ReadFile(t, "device", "aot")
    \/ ReadFile(t, "aot", "done")

Next ==
    \/ \E row \in moving : InsertRow(row) \/ RemoveRow(row)
    \/ \E t \in Tasks : Step(t)
    \/ \E t \in Tasks : Breaks(t)

Spec == Init /\ [][Next]_vars

\* Threads are scheduled, statements return, and a waiting task gets its turn.
FairSpec == Spec /\ \A t \in Tasks : WF_vars(Step(t) /\ t \in asked)

-----------------------------------------------------------------------------
(* Properties.                                                             *)

Requests == {input.request[t] : input \in Inputs, t \in Tasks}

Contract == INSTANCE ReadContract WITH
                Requests <- Requests,
                Valid <- {q \in Requests : WellFormed(q)},
                Garbled <- {id \in Ids : ~ValidEnc(EncOf[id])}

\* Whatever statements, chunks, tables and files an answer is put together
\* from, and whatever the messenger writes meanwhile: an answer has an entry
\* for each id asked for, in that order, takes members from user before
\* friends, tells of nothing that was never there, misses nothing that was
\* there all the time, and shows no text under a wrong key; a raw query gives
\* the first rows up to its limit.
ImplementsContract == Contract!Spec

\* Every call is answered: neither the connections nor the mutex of the keys
\* nor both of them together ever bring the calls to a halt.
RequestsEnd == \A t \in Tasks : t \in asked ~> answer[t] # <<>>
=============================================================================
