------------------------ MODULE EventPipelineProofs ------------------------
(***************************************************************************)
(* Proofs about the event pipeline, for any number of bots and rows, any   *)
(* poll limit, channel capacity and window, and any number of restarts.    *)
(*                                                                         *)
(* The order in which a bot sees rows rests on one fact that no single     *)
(* component states: whatever the poller may still pick up is younger than *)
(* whatever has ever been published (Fresh in PollerInv).  It survives     *)
(* deletions and restarts because a start puts the position at the end of  *)
(* the table and the table never reuses an id.                             *)
(***************************************************************************)
EXTENDS EventPipeline, FiniteSetTheorems, SequenceTheorems, TLAPS

Running == pc \in {"poll", "map"}

\* The rows the poller can still come to handle in this life of the process.
Ahead == {j \in Present : j > last} \cup batch

PollerInv ==
    /\ pc = "down" <=> server = "down"
    /\ ~Running => sent = <<>> /\ batch = {} /\ last = 0
    /\ pc # "map" => batch = {}
    /\ \A i \in batch : i > last /\ rows[i] # "bad"
    /\ \A i \in batch, j \in Present : last < j /\ j < i => j \in batch
    /\ Running => \A j \in Ahead : j > base
    /\ Running /\ ~replay => \A j \in Ahead : Feed!Above(j, published)
    /\ published \subseteq 1..Len(rows)

ChannelInv ==
    /\ Feed!Ascending(sent)
    /\ \A i \in 1..Len(sent) :
        sent[i] \in published /\ sent[i] <= last /\ sent[i] > base
    /\ \A c \in Clients :
        /\ next[c] <= Len(sent)
        /\ stream[c] = "idle" => wire[c] = <<>>
        /\ \A i \in 1..Len(wire[c]) : wire[c][i] \in published
        /\ \A i \in 1..Len(got[c]) : got[c][i] \in published

\* What a bot has, what is in flight to it and what its receiver still has to
\* read follow each other in the order of the table.
BotInv(c) ==
    /\ Feed!Ascending(got[c])
    /\ Feed!Ascending(wire[c])
    /\ \A i \in 1..Len(got[c]), j \in 1..Len(wire[c]) : got[c][i] < wire[c][j]
    /\ stream[c] = "open" =>
        \A k \in (next[c] + 1)..Len(sent) :
            /\ \A i \in 1..Len(got[c]) : got[c][i] < sent[k]
            /\ \A j \in 1..Len(wire[c]) : wire[c][j] < sent[k]

OrderInv == ~replay => \A c \in Clients : BotInv(c)

BadRowInv ==
    Running => \A id \in Present : rows[id] = "bad" /\ id > base => last < id

IInv == TypeOK /\ PollerInv /\ ChannelInv /\ OrderInv /\ BadRowInv

-----------------------------------------------------------------------------
(* What the two queries return.                                            *)

\* The naturals are well-ordered, in the form used below.
LEMMA LeastNatural ==
  ASSUME NEW S \in SUBSET Nat, S # {}
  PROVE  \E m \in S : \A n \in S : m <= n
<1> DEFINE R == OpToRel(<, Nat)
<1>1. PICK m \in S : \A n \in S : ~ (<<n, m>> \in R)
  <2>1. IsWellFoundedOn(R, Nat)
    BY NatLessThanWellFounded
  <2> HIDE DEF R
  <2> QED
    BY <2>1, WFMin
<1>2. \A n \in S : ~ (n < m)
  BY <1>1 DEF OpToRel
<1>3. \A n \in S : m <= n
  BY <1>2
<1> QED
  BY <1>3

\* MAX(_id): no row lies above the position at which a start begins.
LEMMA LatestRowFact ==
  ASSUME TypeOK
  PROVE  /\ LatestRow \in 0..Len(rows)
         /\ \A j \in Present : j <= LatestRow
<1> DEFINE Bounds == {m \in Nat : \A j \in Present : j <= m}
<1>1. Len(rows) \in Nat /\ Present \subseteq 1..Len(rows)
  BY DEF TypeOK, Present
<1>2. CASE Present = {}
  BY <1>1, <1>2 DEF LatestRow
<1>3. CASE Present # {}
  <2>1. Len(rows) \in Bounds
    BY <1>1
  <2>2. PICK m \in Bounds : \A n \in Bounds : m <= n
    <3>1. Bounds \in SUBSET Nat /\ Bounds # {}
      BY <2>1
    <3> HIDE DEF Bounds
    <3> QED
      BY <3>1, LeastNatural
  <2>3. m \in Present
    <3>1. SUFFICES ASSUME m \notin Present PROVE FALSE
      OBVIOUS
    <3>2. \A j \in Present : j <= m - 1 /\ j >= 1
      BY <1>1, <2>2, <3>1
    <3>3. m - 1 \in Bounds
      <4>1. PICK j \in Present : j <= m - 1 /\ j >= 1
        BY <1>3, <3>2
      <4>2. m \in Nat /\ j \in Nat
        BY <1>1, <2>2
      <4>3. m - 1 \in Nat
        BY <4>1, <4>2
      <4> QED
        BY <3>2, <4>3
    <3> QED
      BY <2>2, <3>3
  <2>4. \A i \in Present : i <= m
    BY <2>2
  <2>5. LatestRow = CHOOSE n \in Present : \A i \in Present : i <= n
    BY <1>3 DEF LatestRow
  <2>6. LatestRow \in Present /\ \A i \in Present : i <= LatestRow
    BY <2>3, <2>4, <2>5, Zenon
  <2> QED
    BY <1>1, <2>6
<1> QED
  BY <1>2, <1>3

\* LIMIT cuts the result off at its end only: a row between the position and
\* a returned row is returned too.
LEMMA RowsAfterFact ==
  ASSUME TypeOK, NEW l \in Nat
  PROVE  /\ RowsAfter(l) \subseteq Present
         /\ \A i \in RowsAfter(l) : i > l
         /\ \A i \in RowsAfter(l), j \in Present :
              l < j /\ j < i => j \in RowsAfter(l)
<1> DEFINE Upto(i) == {j \in Present : l < j /\ j <= i}
<1>1. Len(rows) \in Nat /\ Present \subseteq 1..Len(rows)
  BY DEF TypeOK, Present
<1>2. IsFiniteSet(1..Len(rows))
  BY <1>1, FS_Interval
<1>3. ASSUME NEW i \in RowsAfter(l), NEW j \in Present, l < j, j < i
      PROVE  j \in RowsAfter(l)
  <2>1. i \in Present /\ Cardinality(Upto(i)) <= PollLimit
    BY DEF RowsAfter
  <2>2. Upto(i) \in SUBSET (1..Len(rows)) /\ Upto(j) \in SUBSET Upto(i)
    <3>1. i \in Nat /\ j \in Nat /\ \A k \in Present : k \in Nat
      BY <1>1, <2>1
    <3>2. \A k \in Present : k <= j => k <= i
      BY <1>3, <3>1
    <3> QED
      BY <1>1, <3>2
  <2>3. IsFiniteSet(Upto(i))
    BY <1>2, <2>2, FS_Subset
  <2>4. Cardinality(Upto(j)) <= Cardinality(Upto(i))
    BY <2>2, <2>3, FS_Subset
  <2>5. Cardinality(Upto(j)) \in Nat /\ Cardinality(Upto(i)) \in Nat
    BY <2>2, <2>3, FS_Subset, FS_CardinalityType
  <2> QED
    BY <1>3, <2>1, <2>4, <2>5, PipelineConstants DEF RowsAfter
<1> QED
  BY <1>3 DEF RowsAfter

-----------------------------------------------------------------------------
(* Type correctness.                                                       *)

\* Ids stay ids while the table grows.
LEMMA IdsGrow ==
  ASSUME NEW m \in Nat, NEW n \in Nat, m <= n
  PROVE  /\ 1..m \subseteq 1..n
         /\ Seq(1..m) \subseteq Seq(1..n)
  OBVIOUS

LEMMA SeqAt ==
  ASSUME NEW S, NEW s \in Seq(S), NEW i \in 1..Len(s)
  PROVE  s[i] \in S
  OBVIOUS

LEMMA SeqAppend ==
  ASSUME NEW S, NEW s \in Seq(S), NEW e \in S
  PROVE  Append(s, e) \in Seq(S)
  OBVIOUS

LEMMA TypeInit == Init => TypeOK
<1> SUFFICES ASSUME Init PROVE TypeOK
  OBVIOUS
<1>1. rows \in Seq(Kinds) /\ Len(rows) = 0 /\ sent \in Seq(1..Len(rows))
  BY DEF Init
<1>2. wire \in [Clients -> Seq(Ids)] /\ got \in [Clients -> Seq(Ids)]
  BY DEF Init
<1>3. /\ stream \in [Clients -> {"idle", "open", "broken"}]
      /\ next \in [Clients -> Nat] /\ since \in [Clients -> Nat]
      /\ mark \in [Clients -> Nat] /\ overrun \in [Clients -> BOOLEAN]
  BY DEF Init
<1>4. starts \in 0..MaxStarts /\ last \in 0..Len(rows) /\ base \in 0..Len(rows)
      /\ Len(rows) <= MaxRows
  BY <1>1, PipelineConstants DEF Init
<1> QED
  BY <1>1, <1>2, <1>3, <1>4 DEF Init, TypeOK

LEMMA TypeStep == TypeOK /\ [Next]_vars => TypeOK'
<1> SUFFICES ASSUME TypeOK, [Next]_vars PROVE TypeOK'
  OBVIOUS
<1> USE PipelineConstants
<1> USE DEF vars, tableVars, serverVars, pollVars, streamVars, botHist, feedHist
<1>0. Len(rows) \in Nat /\ 1..Len(rows) \subseteq Ids
  BY DEF TypeOK, Ids
<1>1. ASSUME NEW kind \in Kinds, Insert(kind) PROVE TypeOK'
  <2>1. rows' \in Seq(Kinds) /\ Len(rows') = Len(rows) + 1 /\ Len(rows') <= MaxRows
    BY <1>0, <1>1 DEF TypeOK, Insert
  <2>2. sent \in Seq(1..Len(rows'))
    BY <1>0, <2>1, IdsGrow DEF TypeOK
  <2> QED
    BY <1>0, <1>1, <2>1, <2>2 DEF TypeOK, Insert
<1>2. ASSUME NEW id \in Ids, Delete(id) PROVE TypeOK'
  BY <1>2 DEF TypeOK, Delete, Present
<1>3. CASE StartPollerOk
  BY <1>0, <1>3, LatestRowFact DEF TypeOK, StartPollerOk
<1>4. CASE StartPollerFallback
  BY <1>0, <1>4 DEF TypeOK, StartPollerFallback
<1>5. CASE PollOk
  <2>1. RowsAfter(last) \in SUBSET (1..Len(rows))
    BY DEF RowsAfter, Present
  <2> QED
    BY <1>5, <2>1 DEF TypeOK, PollOk
<1>6. CASE PollAgain
  BY <1>6 DEF TypeOK, PollAgain
<1>7. ASSUME NEW id \in Ids, SkipRow(id) PROVE TypeOK'
  BY <1>7 DEF TypeOK, SkipRow, TakeRow
<1>8. ASSUME NEW id \in Ids, SendRow(id) PROVE TypeOK'
  <2>1. id \in 1..Len(rows)
    BY <1>8 DEF TypeOK, SendRow, TakeRow
  <2>2. sent' \in Seq(1..Len(rows)) /\ published' \in SUBSET Ids
    <3>1. sent \in Seq(1..Len(rows)) /\ published \in SUBSET Ids
      BY DEF TypeOK
    <3>2. \/ sent' = sent /\ published' = published
          \/ sent' = Append(sent, id) /\ published' = published \cup {id}
      BY <1>8 DEF SendRow
    <3> QED
      BY <2>1, <3>1, <3>2, SeqAppend
  <2> QED
    BY <1>8, <2>1, <2>2 DEF TypeOK, SendRow, TakeRow
<1>9. ASSUME NEW id \in Ids, FailRow(id) PROVE TypeOK'
  BY <1>9 DEF TypeOK, FailRow, TakeRow
<1>10. ASSUME NEW c \in Clients, Subscribe(c) PROVE TypeOK'
  BY <1>0, <1>10 DEF TypeOK, Subscribe
<1>11. ASSUME NEW c \in Clients, Forward(c) PROVE TypeOK'
  <2>1. sent[next[c] + 1] \in Ids
    <3>1. next[c] \in Nat /\ sent \in Seq(1..Len(rows))
      BY DEF TypeOK
    <3>2. next[c] < Len(sent)
      BY <1>11 DEF Forward
    <3>3. next[c] + 1 \in 1..Len(sent)
      BY <3>1, <3>2
    <3> QED
      BY <1>0, <3>1, <3>3, SeqAt
  <2>2. wire' \in [Clients -> Seq(Ids)]
    BY <1>11, <2>1 DEF TypeOK, Forward
  <2>3. next' \in [Clients -> Nat]
    <3>1. next \in [Clients -> Nat]
      BY DEF TypeOK
    <3>2. next' = [next EXCEPT ![c] = next[c] + 1]
      BY <1>11 DEF Forward
    <3> QED
      BY <3>1, <3>2
  <2> QED
    BY <1>11, <2>2, <2>3 DEF TypeOK, Forward
<1>12. ASSUME NEW c \in Clients, Lag(c) PROVE TypeOK'
  <2>1. Len(sent) - Capacity \in Nat
    BY <1>12 DEF TypeOK, Lag
  <2> QED
    BY <1>12, <2>1 DEF TypeOK, Lag
<1>13. ASSUME NEW c \in Clients, Dispatch(c) PROVE TypeOK'
  <2>1. Head(wire[c]) \in Ids /\ Tail(wire[c]) \in Seq(Ids)
    BY <1>13 DEF TypeOK, Dispatch
  <2>2. got' \in [Clients -> Seq(Ids)] /\ wire' \in [Clients -> Seq(Ids)]
    BY <1>13, <2>1 DEF TypeOK, Dispatch
  <2> QED
    BY <1>13, <2>2 DEF TypeOK, Dispatch
<1>14. ASSUME NEW c \in Clients, Disconnect(c) PROVE TypeOK'
  BY <1>14 DEF TypeOK, Disconnect
<1>15. ASSUME NEW c \in Clients, Reset(c) PROVE TypeOK'
  <2>1. wire \in [Clients -> Seq(Ids)] /\ <<>> \in Seq(Ids)
    BY DEF TypeOK
  <2>2. wire' \in [Clients -> Seq(Ids)]
    BY <1>15, <2>1 DEF Reset
  <2>3. stream' \in [Clients -> {"idle", "open", "broken"}]
    BY <1>15 DEF TypeOK, Reset
  <2> QED
    BY <1>15, <2>2, <2>3 DEF TypeOK, Reset
<1>16. CASE Start
  BY <1>16 DEF TypeOK, Start
<1>17. CASE Halt
  BY <1>0, <1>17 DEF TypeOK, Halt
<1>18. CASE StdinClosed
  BY <1>18 DEF TypeOK, StdinClosed
<1>19. CASE UNCHANGED vars
  BY <1>19 DEF TypeOK
<1> QED
  BY <1>1, <1>2, <1>3, <1>4, <1>5, <1>6, <1>7, <1>8, <1>9, <1>10, <1>11,
     <1>12, <1>13, <1>14, <1>15, <1>16, <1>17, <1>18, <1>19
     DEF Next, Crash, Exit

\* Every reachable state of the pipeline is well-typed: in particular the
\* position never passes the end of the table and a receiver that lags is
\* never moved to a negative position.
THEOREM TypeCorrect == Spec => []TypeOK
  BY TypeInit, TypeStep, PTL DEF Spec

-----------------------------------------------------------------------------
(* The poller.                                                             *)

LEMMA PresentAfterInsert ==
  ASSUME TypeOK, NEW kind \in Kinds, Insert(kind)
  PROVE  /\ Present' = Present \cup {Len(rows) + 1}
         /\ Len(rows') = Len(rows) + 1
         /\ \A i \in 1..Len(rows) : rows'[i] = rows[i]
<1>1. rows \in Seq(Kinds) /\ rows' = Append(rows, kind) /\ deleted' = deleted
  BY DEF TypeOK, Insert, tableVars
<1>2. Len(rows') = Len(rows) + 1 /\ \A i \in 1..Len(rows) : rows'[i] = rows[i]
  BY <1>1
<1>3. Len(rows) + 1 \notin deleted /\ Len(rows) \in Nat
  BY DEF TypeOK
<1> QED
  BY <1>1, <1>2, <1>3 DEF Present

\* TakeRow leaves behind exactly the rows that were ahead and younger.
LEMMA AheadAfterTake ==
  ASSUME TypeOK, PollerInv, NEW id \in Ids, TakeRow(id), UNCHANGED tableVars
  PROVE  /\ last' = id
         /\ id \in Ahead /\ id \in 1..Len(rows) /\ id > last
         /\ Present' = Present
         /\ \A j \in Ahead' : j \in Ahead /\ j > id
<1>1. id \in 1..Len(rows) /\ batch \subseteq 1..Len(rows)
      /\ Present \subseteq 1..Len(rows) /\ last \in Nat /\ Len(rows) \in Nat
  BY DEF TypeOK, TakeRow, Present
<1>2. id \in batch /\ id > last /\ batch' = batch \ {id}
  BY DEF TakeRow, PollerInv
<1>3. last' = id
  BY <1>1, <1>2 DEF TakeRow
<1>4. Present' = Present
  BY DEF Present, tableVars
<1>5. \A j \in batch' : j > id
  BY <1>1, <1>2 DEF TakeRow
<1>6. \A j \in Ahead' : j \in Ahead /\ j > id
  BY <1>1, <1>2, <1>3, <1>4, <1>5 DEF Ahead
<1> QED
  BY <1>1, <1>2, <1>3, <1>4, <1>6 DEF Ahead

LEMMA PollerTakeStep ==
  ASSUME TypeOK, PollerInv, NEW id \in Ids, TakeRow(id),
         UNCHANGED <<rows, deleted, server, base, replay>>,
         published' \subseteq published \cup {id}
  PROVE  PollerInv'
<1>0. /\ last' = id /\ id \in 1..Len(rows) /\ id > last /\ Present' = Present
      /\ \A j \in Ahead' : j \in Ahead /\ j > id
  BY AheadAfterTake DEF tableVars
<1>1. /\ batch \subseteq 1..Len(rows) /\ Present \subseteq 1..Len(rows)
      /\ last \in Nat /\ Len(rows) \in Nat /\ published \subseteq 1..Len(rows)
  BY DEF TypeOK, Present, PollerInv
<1>2. Running /\ Running' /\ pc' \in {"poll", "map"}
  BY DEF TakeRow, Running
<1>3. pc' # "down" /\ server' # "down"
  BY <1>2 DEF PollerInv, TakeRow
<1>4. pc' # "map" => batch' = {}
  BY DEF TakeRow
<1>5. \A i \in batch' : i > last' /\ rows'[i] # "bad"
  BY <1>0, <1>1 DEF TakeRow, PollerInv
<1>6. \A i \in batch', j \in Present' : last' < j /\ j < i => j \in batch'
  BY <1>0, <1>1 DEF TakeRow, PollerInv
<1>7. \A j \in Ahead' : j > base'
  BY <1>0, <1>2 DEF PollerInv
<1>8. ASSUME ~replay, NEW j \in Ahead' PROVE Feed!Above(j, published')
  BY <1>0, <1>2, <1>8 DEF PollerInv, Feed!Above
<1> QED
  BY <1>0, <1>1, <1>2, <1>3, <1>4, <1>5, <1>6, <1>7, <1>8 DEF PollerInv

LEMMA PollerStep ==
  ASSUME TypeOK, PollerInv, [Next]_vars
  PROVE  PollerInv'
<1> USE DEF vars, tableVars, serverVars, pollVars, streamVars, botHist, feedHist
<1>0. /\ Len(rows) \in Nat /\ last \in 0..Len(rows) /\ base \in 0..Len(rows)
      /\ Present \subseteq 1..Len(rows) /\ batch \subseteq 1..Len(rows)
      /\ published \subseteq 1..Len(rows)
  BY DEF TypeOK, Present, PollerInv
<1>1. ASSUME NEW kind \in Kinds, Insert(kind) PROVE PollerInv'
  <2>1. /\ Present' = Present \cup {Len(rows) + 1} /\ Len(rows') = Len(rows) + 1
        /\ \A i \in 1..Len(rows) : rows'[i] = rows[i]
    BY <1>1, PresentAfterInsert
  <2>2. Ahead' = Ahead \cup {Len(rows) + 1} /\ (Running' <=> Running)
    BY <1>0, <1>1, <2>1 DEF Ahead, Insert, Running
  <2>3. Feed!Above(Len(rows) + 1, published)
    BY <1>0 DEF Feed!Above
  <2> QED
    BY <1>0, <1>1, <2>1, <2>2, <2>3 DEF Insert, PollerInv, Running, Feed!Above
<1>2. ASSUME NEW id \in Ids, Delete(id) PROVE PollerInv'
  <2>1. Present' \subseteq Present /\ Ahead' \subseteq Ahead
    BY <1>2 DEF Delete, Present, Ahead
  <2> QED
    BY <1>2, <2>1 DEF Delete, PollerInv, Running, Feed!Above
<1>3. CASE StartPollerOk
  <2>1. batch = {} /\ \A j \in Present : j <= LatestRow
    BY <1>3, LatestRowFact DEF StartPollerOk, PollerInv
  <2>2. Ahead' = {}
    BY <1>0, <1>3, <2>1, LatestRowFact DEF StartPollerOk, Ahead, Present
  <2> QED
    BY <1>3, <2>1, <2>2 DEF StartPollerOk, PollerInv, Running
<1>4. CASE StartPollerFallback
  BY <1>0, <1>4 DEF StartPollerFallback, PollerInv, Running, Ahead, Present
<1>5. CASE PollOk
  <2>1. /\ RowsAfter(last) \subseteq Present
        /\ \A i \in RowsAfter(last) : i > last
        /\ \A i \in RowsAfter(last), j \in Present :
             last < j /\ j < i => j \in RowsAfter(last)
    BY <1>0, RowsAfterFact
  <2>2. Present' = Present /\ Ahead' \subseteq Ahead
    BY <1>5, <2>1 DEF PollOk, Present, Ahead
  <2> QED
    BY <1>5, <2>1, <2>2 DEF PollOk, PollerInv, Running
<1>6. CASE PollAgain
  BY <1>6 DEF PollAgain, PollerInv, Running, Ahead, Present
<1>7. ASSUME NEW id \in Ids, SkipRow(id) PROVE PollerInv'
  BY <1>7, PollerTakeStep DEF SkipRow
<1>8. ASSUME NEW id \in Ids, SendRow(id) PROVE PollerInv'
  BY <1>8, PollerTakeStep DEF SendRow
<1>9. ASSUME NEW id \in Ids, FailRow(id) PROVE PollerInv'
  BY <1>9, PollerTakeStep DEF FailRow
<1>10. CASE UNCHANGED <<rows, deleted, server, pollVars, feedHist>>
  BY <1>10 DEF PollerInv, Running, Ahead, Present
<1>11. CASE Start
  BY <1>11 DEF Start, PollerInv, Running
<1>12. CASE Halt
  BY <1>12 DEF Halt, PollerInv, Running
<1>13. CASE StdinClosed
  BY <1>13 DEF StdinClosed, PollerInv, Running, Ahead, Present
<1> QED
  BY <1>1, <1>2, <1>3, <1>4, <1>5, <1>6, <1>7, <1>8, <1>9, <1>10, <1>11,
     <1>12, <1>13
     DEF Next, Crash, Exit, Subscribe, Forward, Lag, Dispatch, Disconnect, Reset

-----------------------------------------------------------------------------
(* The channel and the streams.                                            *)

\* What SendRow does to the channel, and why the row may go to its end.
LEMMA SendRowFact ==
  ASSUME TypeOK, PollerInv, NEW id \in Ids, SendRow(id)
  PROVE  /\ last' = id /\ id > last /\ id > base
         /\ ~replay => \A x \in published : x < id
         /\ \/ sent' = sent /\ published' = published
            \/ /\ published' = published \cup {id}
               /\ Len(sent') = Len(sent) + 1
               /\ sent'[Len(sent) + 1] = id
               /\ \A i \in 1..Len(sent) : sent'[i] = sent[i]
<1>1. TakeRow(id) /\ UNCHANGED tableVars /\ Running
  BY DEF SendRow, tableVars, TakeRow, Running
<1>2. last' = id /\ id \in Ahead /\ id > last
  BY <1>1, AheadAfterTake
<1>3. id > base /\ (~replay => \A x \in published : x < id)
  BY <1>1, <1>2 DEF PollerInv, Feed!Above
<1>4. \/ sent' = sent /\ published' = published
      \/ sent' = Append(sent, id) /\ published' = published \cup {id}
  BY DEF SendRow
<1>5. sent' = Append(sent, id) =>
        /\ Len(sent') = Len(sent) + 1
        /\ sent'[Len(sent) + 1] = id
        /\ \A i \in 1..Len(sent) : sent'[i] = sent[i]
  <2>1. sent \in Seq(1..Len(rows))
    BY DEF TypeOK
  <2> QED
    BY <2>1, AppendProperties
<1> QED
  BY <1>2, <1>3, <1>4, <1>5

LEMMA ChannelStep ==
  ASSUME TypeOK, PollerInv, ChannelInv, [Next]_vars
  PROVE  ChannelInv'
<1> USE PipelineConstants
<1> USE DEF vars, tableVars, serverVars, pollVars, streamVars, botHist, feedHist
<1>0. /\ Len(sent) \in Nat /\ last \in Nat /\ base \in Nat
      /\ next \in [Clients -> Nat]
      /\ wire \in [Clients -> Seq(Ids)] /\ got \in [Clients -> Seq(Ids)]
      /\ stream \in [Clients -> {"idle", "open", "broken"}]
      /\ \A i \in 1..Len(sent) : sent[i] \in Nat
  BY DEF TypeOK
<1>1. CASE UNCHANGED <<last, sent, streamVars, got, base, published>>
  BY <1>1 DEF ChannelInv, Feed!Ascending
<1>2. CASE StartPollerOk \/ StartPollerFallback
  <2>1. sent = <<>> /\ UNCHANGED <<sent, streamVars, got, published>>
    BY <1>2 DEF StartPollerOk, StartPollerFallback, PollerInv, Running
  <2> QED
    BY <2>1 DEF ChannelInv, Feed!Ascending
<1>3. ASSUME NEW id \in Ids, SkipRow(id) \/ FailRow(id) PROVE ChannelInv'
  <2>1. last' = id /\ id > last /\ UNCHANGED <<sent, streamVars, got, base, published>>
    BY <1>3, AheadAfterTake DEF SkipRow, FailRow
  <2>2. id \in Nat
    BY DEF Ids
  <2>3. \A i \in 1..Len(sent) :
          sent[i] \in published /\ sent[i] <= id /\ sent[i] > base
    BY <1>0, <2>1, <2>2 DEF ChannelInv
  <2> QED
    BY <2>1, <2>3 DEF ChannelInv, Feed!Ascending
<1>4. ASSUME NEW id \in Ids, SendRow(id) PROVE ChannelInv'
  <2>1. UNCHANGED <<streamVars, got, base>>
    BY <1>4 DEF SendRow
  <2>2. id \in Nat /\ last' = id /\ id > last /\ id > base
    BY <1>4, SendRowFact DEF Ids
  <2>3. CASE sent' = sent /\ published' = published
    <3>1. \A i \in 1..Len(sent) :
            sent[i] \in published /\ sent[i] <= id /\ sent[i] > base
      BY <1>0, <2>2 DEF ChannelInv
    <3> QED
      BY <2>1, <2>2, <2>3, <3>1 DEF ChannelInv, Feed!Ascending
  <2>4. CASE sent' # sent \/ published' # published
    <3>1. /\ published' = published \cup {id} /\ Len(sent') = Len(sent) + 1
          /\ sent'[Len(sent) + 1] = id
          /\ \A i \in 1..Len(sent) : sent'[i] = sent[i]
      BY <1>4, <2>4, SendRowFact
    <3>0. \A i \in 1..Len(sent') : i \in 1..Len(sent) \/ i = Len(sent) + 1
      BY <1>0, <3>1
    <3>2. Feed!Ascending(sent)'
      <4>1. \A i \in 1..Len(sent) : sent[i] < id
        BY <1>0, <2>2 DEF ChannelInv
      <4>2. \A i, j \in 1..Len(sent) : i < j => sent[i] < sent[j]
        BY DEF ChannelInv, Feed!Ascending
      <4>3. \A i, j \in 1..Len(sent') : i < j => i \in 1..Len(sent)
        BY <1>0, <3>1
      <4> QED
        BY <3>0, <3>1, <4>1, <4>2, <4>3 DEF Feed!Ascending
    <3>3. \A i \in 1..Len(sent') :
            sent'[i] \in published' /\ sent'[i] <= last' /\ sent'[i] > base'
      <4>1. \A i \in 1..Len(sent) :
              sent[i] \in published /\ sent[i] <= id /\ sent[i] > base
        BY <1>0, <2>2 DEF ChannelInv
      <4> QED
        BY <2>1, <2>2, <3>0, <3>1, <4>1
    <3> QED
      BY <1>0, <2>1, <3>1, <3>2, <3>3 DEF ChannelInv
  <2> QED
    BY <2>3, <2>4
<1>5. ASSUME NEW c \in Clients, Subscribe(c) PROVE ChannelInv'
  BY <1>0, <1>5 DEF Subscribe, ChannelInv, Feed!Ascending
<1>6. ASSUME NEW c \in Clients, Forward(c) PROVE ChannelInv'
  <2>1. sent[next[c] + 1] \in published /\ next[c] + 1 <= Len(sent)
    BY <1>0, <1>6 DEF Forward, ChannelInv
  <2>2. \A i \in 1..Len(wire'[c]) : wire'[c][i] \in published
    BY <1>0, <1>6, <2>1 DEF Forward, ChannelInv
  <2>3. \A d \in Clients \ {c} : wire'[d] = wire[d] /\ next'[d] = next[d]
    BY <1>0, <1>6 DEF Forward
  <2>4. next'[c] = next[c] + 1 /\ UNCHANGED <<last, sent, stream, got, base, published>>
    BY <1>0, <1>6 DEF Forward
  <2>5. stream[c] # "idle"
    BY <1>6 DEF Forward
  <2> QED
    BY <1>0, <2>1, <2>2, <2>3, <2>4, <2>5 DEF ChannelInv, Feed!Ascending
<1>7. ASSUME NEW c \in Clients, Lag(c) PROVE ChannelInv'
  BY <1>0, <1>7 DEF Lag, ChannelInv, Feed!Ascending
<1>8. ASSUME NEW c \in Clients, Dispatch(c) PROVE ChannelInv'
  <2>1. wire[c] \in Seq(Ids) /\ wire[c] # <<>> /\ got[c] \in Seq(Ids)
    BY <1>8 DEF Dispatch, TypeOK
  <2>2. wire'[c] = Tail(wire[c]) /\ got'[c] = Append(got[c], wire[c][1])
    BY <1>0, <1>8, <2>1 DEF Dispatch
  <2>3. \A i \in 1..Len(wire'[c]) : wire'[c][i] \in published
    BY <2>1, <2>2 DEF ChannelInv
  <2>4. \A i \in 1..Len(got'[c]) : got'[c][i] \in published
    BY <2>1, <2>2 DEF ChannelInv
  <2>5. \A d \in Clients \ {c} : wire'[d] = wire[d] /\ got'[d] = got[d]
    BY <1>0, <1>8 DEF Dispatch
  <2>6. stream[c] # "idle" /\ UNCHANGED <<last, sent, stream, next, base, published>>
    BY <1>8 DEF Dispatch, ChannelInv
  <2> QED
    BY <1>0, <2>3, <2>4, <2>5, <2>6 DEF ChannelInv, Feed!Ascending
<1>9. ASSUME NEW c \in Clients, Disconnect(c) PROVE ChannelInv'
  BY <1>0, <1>9 DEF Disconnect, ChannelInv, Feed!Ascending
<1>10. ASSUME NEW c \in Clients, Reset(c) PROVE ChannelInv'
  BY <1>0, <1>10 DEF Reset, ChannelInv, Feed!Ascending
<1>11. CASE Halt
  BY <1>0, <1>11 DEF Halt, ChannelInv, Feed!Ascending
<1> QED
  BY <1>1, <1>2, <1>3, <1>4, <1>5, <1>6, <1>7, <1>8, <1>9, <1>10, <1>11
     DEF Next, Crash, Exit, Insert, Delete, PollOk, PollAgain, Start, StdinClosed

-----------------------------------------------------------------------------
(* The order in which a bot sees rows.                                     *)

\* The order invariant of the bots that an action leaves alone.
LEMMA BotUnchanged ==
  ASSUME NEW c \in Clients, BotInv(c),
         got'[c] = got[c], wire'[c] = wire[c], sent' = sent,
         stream'[c] = "open" => stream[c] = "open" /\ next'[c] = next[c]
  PROVE  BotInv(c)'
  BY DEF BotInv, Feed!Ascending

LEMMA OrderStep ==
  ASSUME TypeOK, PollerInv, ChannelInv, OrderInv, [Next]_vars
  PROVE  OrderInv'
<1> USE PipelineConstants
<1> USE DEF vars, tableVars, serverVars, pollVars, streamVars, botHist, feedHist
<1> SUFFICES ASSUME ~replay', NEW c \in Clients PROVE BotInv(c)'
  BY DEF OrderInv
<1>0. ~replay /\ BotInv(c)
  BY DEF OrderInv, Next, Insert, Delete, StartPollerOk, StartPollerFallback,
         PollOk, PollAgain, SkipRow, SendRow, FailRow, Subscribe, Forward, Lag,
         Dispatch, Disconnect, Reset, Start, Crash, Exit, Halt, StdinClosed
<1>1. /\ Len(sent) \in Nat /\ next \in [Clients -> Nat]
      /\ wire \in [Clients -> Seq(Ids)] /\ got \in [Clients -> Seq(Ids)]
      /\ stream \in [Clients -> {"idle", "open", "broken"}]
      /\ \A i \in 1..Len(sent) : sent[i] \in Nat
  BY DEF TypeOK
<1>2. CASE UNCHANGED <<sent, streamVars, got>>
  BY <1>0, <1>2, BotUnchanged
<1>3. ASSUME NEW id \in Ids, SendRow(id) PROVE BotInv(c)'
  <2>1. UNCHANGED <<streamVars, got>>
    BY <1>3 DEF SendRow
  <2>2. CASE sent' = sent
    BY <1>0, <2>1, <2>2, BotUnchanged
  <2>3. CASE sent' # sent
    <3>1. /\ Len(sent') = Len(sent) + 1 /\ sent'[Len(sent) + 1] = id
          /\ \A i \in 1..Len(sent) : sent'[i] = sent[i]
          /\ \A x \in published : x < id
      BY <1>0, <1>3, <2>3, SendRowFact
    <3>2. /\ \A i \in 1..Len(got[c]) : got[c][i] < id
          /\ \A i \in 1..Len(wire[c]) : wire[c][i] < id
      BY <3>1 DEF ChannelInv
    <3>3. \A k \in (next[c] + 1)..Len(sent') :
            \/ k \in (next[c] + 1)..Len(sent) /\ k \in 1..Len(sent)
            \/ k = Len(sent) + 1
      BY <1>1, <3>1
    <3> QED
      BY <1>0, <2>1, <3>1, <3>2, <3>3 DEF BotInv, Feed!Ascending
  <2> QED
    BY <2>2, <2>3
<1>4. ASSUME NEW d \in Clients, Subscribe(d) PROVE BotInv(c)'
  <2>1. CASE d # c
    BY <1>0, <1>1, <1>4, <2>1, BotUnchanged DEF Subscribe
  <2>2. CASE d = c
    <3>1. next'[c] = Len(sent) /\ UNCHANGED <<got, wire, sent>>
      BY <1>1, <1>4, <2>2 DEF Subscribe
    <3> QED
      BY <1>0, <1>1, <3>1 DEF BotInv, Feed!Ascending
  <2> QED
    BY <2>1, <2>2
<1>5. ASSUME NEW d \in Clients, Forward(d) PROVE BotInv(c)'
  <2>1. CASE d # c
    BY <1>0, <1>1, <1>5, <2>1, BotUnchanged DEF Forward
  <2>2. CASE d = c
    <3> DEFINE n == next[c] + 1
    <3>1. /\ wire'[c] = Append(wire[c], sent[n]) /\ next'[c] = n
          /\ n \in 1..Len(sent) /\ stream[c] = "open"
          /\ UNCHANGED <<got, sent, stream>>
      BY <1>1, <1>5, <2>2 DEF Forward
    <3>2. sent[n] \in Ids
      <4>1. sent \in Seq(1..Len(rows)) /\ 1..Len(rows) \subseteq Ids
        BY DEF TypeOK, Ids
      <4> QED
        BY <3>1, <4>1, SeqAt
    <3>3. /\ Len(wire'[c]) = Len(wire[c]) + 1
          /\ \A i \in 1..Len(wire[c]) : wire'[c][i] = wire[c][i]
          /\ wire'[c][Len(wire[c]) + 1] = sent[n]
      BY <1>1, <3>1, <3>2, AppendProperties
    <3>4. \A i \in 1..Len(wire'[c]) : i \in 1..Len(wire[c]) \/ i = Len(wire[c]) + 1
      BY <1>1, <3>3
    <3>5. /\ \A i \in 1..Len(got[c]) : got[c][i] < sent[n]
          /\ \A j \in 1..Len(wire[c]) : wire[c][j] < sent[n]
      BY <1>0, <1>1, <3>1 DEF BotInv
    <3>6. \A k \in (n + 1)..Len(sent) : sent[n] < sent[k]
      BY <1>1, <3>1 DEF ChannelInv, Feed!Ascending
    <3>7. \A k \in (n + 1)..Len(sent) : k \in (next[c] + 1)..Len(sent)
      BY <1>1
    <3>8. Feed!Ascending(wire[c])'
      <4>1. \A i, j \in 1..Len(wire'[c]) : i < j => i \in 1..Len(wire[c])
        BY <1>1, <3>3
      <4> QED
        BY <1>0, <3>3, <3>4, <3>5, <4>1 DEF BotInv, Feed!Ascending
    <3>9. \A i \in 1..Len(got[c]), j \in 1..Len(wire'[c]) : got[c][i] < wire'[c][j]
      BY <1>0, <3>3, <3>4, <3>5 DEF BotInv
    <3>10. \A k \in (n + 1)..Len(sent) :
             /\ \A i \in 1..Len(got[c]) : got[c][i] < sent[k]
             /\ \A j \in 1..Len(wire'[c]) : wire'[c][j] < sent[k]
      BY <1>0, <3>1, <3>3, <3>4, <3>6, <3>7 DEF BotInv
    <3> QED
      BY <1>0, <3>1, <3>8, <3>9, <3>10 DEF BotInv, Feed!Ascending
  <2> QED
    BY <2>1, <2>2
<1>6. ASSUME NEW d \in Clients, Lag(d) PROVE BotInv(c)'
  <2>1. CASE d # c
    BY <1>0, <1>1, <1>6, <2>1, BotUnchanged DEF Lag
  <2>2. CASE d = c
    <3>1. next'[c] \in Nat /\ next'[c] > next[c] /\ UNCHANGED <<got, wire, sent, stream>>
      BY <1>1, <1>6, <2>2 DEF Lag
    <3>2. \A k \in (next'[c] + 1)..Len(sent) : k \in (next[c] + 1)..Len(sent)
      BY <1>1, <3>1
    <3> QED
      BY <1>0, <3>1, <3>2 DEF BotInv, Feed!Ascending
  <2> QED
    BY <2>1, <2>2
<1>7. ASSUME NEW d \in Clients, Dispatch(d) PROVE BotInv(c)'
  <2>1. CASE d # c
    BY <1>0, <1>1, <1>7, <2>1, BotUnchanged DEF Dispatch
  <2>2. CASE d = c
    <3> DEFINE e == wire[c][1]
    <3>1. /\ wire[c] \in Seq(Ids) /\ wire[c] # <<>> /\ got[c] \in Seq(Ids)
          /\ UNCHANGED <<sent, stream, next>>
      BY <1>1, <1>7, <2>2 DEF Dispatch
    <3>2. wire'[c] = Tail(wire[c]) /\ got'[c] = Append(got[c], e) /\ e \in Ids
      BY <1>1, <1>7, <2>2, <3>1 DEF Dispatch
    <3>3. /\ Len(got'[c]) = Len(got[c]) + 1
          /\ \A i \in 1..Len(got[c]) : got'[c][i] = got[c][i]
          /\ got'[c][Len(got[c]) + 1] = e
      BY <3>1, <3>2, AppendProperties
    <3>4. /\ Len(wire'[c]) = Len(wire[c]) - 1
          /\ \A i \in 1..Len(wire'[c]) :
               /\ wire'[c][i] = wire[c][i + 1]
               /\ i + 1 \in 1..Len(wire[c])
               /\ i \in Nat /\ 1 < i + 1
      BY <3>1, <3>2
    <3>5. 1 \in 1..Len(wire[c])
      BY <3>1
    <3>6. \A i \in 1..Len(got[c]) : got[c][i] < e
      BY <1>0, <3>5 DEF BotInv
    <3>7. \A i \in 1..Len(got'[c]) : i \in 1..Len(got[c]) \/ i = Len(got[c]) + 1
      BY <3>1, <3>3
    <3>8. Feed!Ascending(got[c])'
      <4>1. \A i, j \in 1..Len(got'[c]) : i < j => i \in 1..Len(got[c])
        BY <3>1, <3>3
      <4> QED
        BY <1>0, <3>3, <3>6, <3>7, <4>1 DEF BotInv, Feed!Ascending
    <3>9. Feed!Ascending(wire[c])'
      <4>1. \A i, j \in 1..Len(wire'[c]) : i < j => i + 1 < j + 1
        BY <3>4
      <4> QED
        BY <1>0, <3>4, <4>1 DEF BotInv, Feed!Ascending
    <3>10. \A j \in 1..Len(wire'[c]) : e < wire'[c][j]
      BY <1>0, <3>4, <3>5 DEF BotInv, Feed!Ascending
    <3>11. \A i \in 1..Len(got'[c]), j \in 1..Len(wire'[c]) : got'[c][i] < wire'[c][j]
      BY <1>0, <3>3, <3>4, <3>7, <3>10 DEF BotInv
    <3>12. stream[c] = "open" =>
             \A k \in (next[c] + 1)..Len(sent) :
               /\ \A i \in 1..Len(got'[c]) : got'[c][i] < sent[k]
               /\ \A j \in 1..Len(wire'[c]) : wire'[c][j] < sent[k]
      BY <1>0, <3>3, <3>4, <3>5, <3>7 DEF BotInv
    <3> QED
      BY <3>1, <3>8, <3>9, <3>11, <3>12 DEF BotInv
  <2> QED
    BY <2>1, <2>2
<1>8. ASSUME NEW d \in Clients, Disconnect(d) PROVE BotInv(c)'
  BY <1>0, <1>1, <1>8, BotUnchanged DEF Disconnect
<1>9. ASSUME NEW d \in Clients, Reset(d) PROVE BotInv(c)'
  <2>1. CASE d # c
    BY <1>0, <1>1, <1>9, <2>1, BotUnchanged DEF Reset
  <2>2. CASE d = c
    <3>1. wire'[c] = <<>> /\ stream'[c] = "idle" /\ UNCHANGED <<got, sent, next>>
      BY <1>1, <1>9, <2>2 DEF Reset
    <3> QED
      BY <1>0, <3>1 DEF BotInv, Feed!Ascending
  <2> QED
    BY <2>1, <2>2
<1>10. CASE Halt
  BY <1>0, <1>10 DEF Halt, BotInv, Feed!Ascending
<1> QED
  BY <1>2, <1>3, <1>4, <1>5, <1>6, <1>7, <1>8, <1>9, <1>10
     DEF Next, Crash, Exit, Insert, Delete, StartPollerOk, StartPollerFallback,
         PollOk, PollAgain, SkipRow, FailRow, Start, StdinClosed

-----------------------------------------------------------------------------
(* Unreadable rows.                                                        *)

LEMMA BadRowTake ==
  ASSUME TypeOK, PollerInv, BadRowInv, NEW id \in Ids, TakeRow(id),
         UNCHANGED <<rows, deleted, base>>
  PROVE  BadRowInv'
<1>1. last' = id /\ id \in Ahead /\ id > last /\ Present' = Present /\ Running
  BY AheadAfterTake DEF tableVars, TakeRow, Running
<1>2. id \in Nat /\ last \in Nat /\ \A b \in Present : b \in Nat
  BY DEF Ids, TypeOK, Present
<1>3. ASSUME NEW b \in Present, rows[b] = "bad", b > base PROVE id < b
  <2>1. last < b
    BY <1>1, <1>3 DEF BadRowInv
  <2>2. b \notin batch /\ id \in batch
    BY <1>3 DEF PollerInv, TakeRow
  <2>3. ~(b < id)
    BY <2>1, <2>2 DEF PollerInv
  <2> QED
    BY <1>2, <2>2, <2>3
<1> QED
  BY <1>1, <1>3 DEF BadRowInv

LEMMA BadRowStep ==
  ASSUME TypeOK, PollerInv, BadRowInv, [Next]_vars
  PROVE  BadRowInv'
<1> USE DEF vars, tableVars, serverVars, pollVars, streamVars, botHist, feedHist
<1>0. /\ Len(rows) \in Nat /\ last \in 0..Len(rows)
      /\ Present \subseteq 1..Len(rows)
  BY DEF TypeOK, Present
<1>1. CASE UNCHANGED <<tableVars, pollVars, base>>
  BY <1>1 DEF BadRowInv, Running, Present
<1>2. ASSUME NEW kind \in Kinds, Insert(kind) PROVE BadRowInv'
  <2>1. /\ Present' = Present \cup {Len(rows) + 1}
        /\ \A i \in 1..Len(rows) : rows'[i] = rows[i]
    BY <1>2, PresentAfterInsert
  <2> QED
    BY <1>0, <1>2, <2>1 DEF BadRowInv, Running, Insert
<1>3. ASSUME NEW id \in Ids, Delete(id) PROVE BadRowInv'
  BY <1>3 DEF BadRowInv, Running, Delete, Present
<1>4. CASE StartPollerOk
  BY <1>0, <1>4 DEF BadRowInv, StartPollerOk, Present
<1>5. CASE StartPollerFallback
  BY <1>0, <1>5 DEF BadRowInv, StartPollerFallback, Present
<1>6. CASE PollOk
  BY <1>6 DEF BadRowInv, PollOk, Running, Present
<1>7. ASSUME NEW id \in Ids, SkipRow(id) \/ SendRow(id) \/ FailRow(id)
      PROVE  BadRowInv'
  BY <1>7, BadRowTake DEF SkipRow, SendRow, FailRow
<1>8. CASE Start \/ Halt
  BY <1>8 DEF BadRowInv, Running, Start, Halt
<1> QED
  BY <1>1, <1>2, <1>3, <1>4, <1>5, <1>6, <1>7, <1>8
     DEF Next, Crash, Exit, PollAgain, Subscribe, Forward, Lag, Dispatch,
         Disconnect, Reset, StdinClosed

-----------------------------------------------------------------------------
(* The theorems.                                                           *)

LEMMA InvInit == Init => IInv
<1> SUFFICES ASSUME Init PROVE IInv
  OBVIOUS
<1>1. PollerInv
  BY DEF Init, PollerInv, Running
<1>2. ChannelInv
  BY DEF Init, ChannelInv, Feed!Ascending
<1>3. OrderInv
  BY DEF Init, OrderInv, BotInv, Feed!Ascending
<1>4. BadRowInv
  BY DEF Init, BadRowInv, Running
<1> QED
  BY <1>1, <1>2, <1>3, <1>4, TypeInit DEF IInv

LEMMA InvStep == IInv /\ [Next]_vars => IInv'
  BY TypeStep, PollerStep, ChannelStep, OrderStep, BadRowStep DEF IInv

\* The inductive invariant holds in every reachable state.
THEOREM Invariance == Spec => []IInv
  BY InvInit, InvStep, PTL DEF Spec

\* No bot dispatches a row twice or out of table order, over any number of
\* reconnects, restarts and deletions, unless a start fell back to 0.
THEOREM OrderTheorem == Spec => []InOrderOnce
<1>1. IInv => InOrderOnce
  BY DEF IInv, OrderInv, BotInv, InOrderOnce, Feed!InOrderOnce
<1> QED
  BY <1>1, Invariance, PTL

\* A start that could read MAX(_id) sends no row that was there before it.
THEOREM NoReplayTheorem == Spec => []NoHistoryReplay
<1>1. IInv => NoHistoryReplay
  BY DEF IInv, ChannelInv, NoHistoryReplay
<1> QED
  BY <1>1, Invariance, PTL

\* The poller never steps over a row it cannot read.
THEOREM BadRowTheorem == Spec => []StopsAtBadRow
<1>1. IInv => StopsAtBadRow
  BY DEF IInv, BadRowInv, Running, StopsAtBadRow
<1> QED
  BY <1>1, Invariance, PTL

-----------------------------------------------------------------------------
(* The pipeline implements the abstract feed.                              *)

LEMMA FeedInit == Init => Feed!Init
  BY DEF Init, Feed!Init

LEMMA FeedStep == IInv /\ [Next]_vars => [Feed!Next]_(Feed!feedVars)
<1> SUFFICES ASSUME IInv, [Next]_vars PROVE [Feed!Next]_(Feed!feedVars)
  OBVIOUS
<1> USE DEF vars, tableVars, serverVars, pollVars, streamVars, botHist, feedHist,
            Feed!feedVars
<1>0. TypeOK /\ PollerInv /\ ChannelInv /\ OrderInv
  BY DEF IInv
<1>1. CASE UNCHANGED <<published, got, replay>>
  BY <1>1
<1>2. CASE StartPollerFallback
  BY <1>2 DEF StartPollerFallback, Feed!Next, Feed!LoseTrack
<1>3. ASSUME NEW id \in Ids, SendRow(id) PROVE [Feed!Next]_(Feed!feedVars)
  <2>1. /\ ~replay => \A x \in published : x < id
        /\ published' = published \/ published' = published \cup {id}
    BY <1>0, <1>3, SendRowFact
  <2>2. UNCHANGED <<got, replay>>
    BY <1>3 DEF SendRow
  <2> QED
    BY <2>1, <2>2 DEF Feed!Next, Feed!Publish, Feed!Above
<1>4. ASSUME NEW c \in Clients, Dispatch(c) PROVE Feed!Next
  <2> DEFINE e == wire[c][1]
  <2>1. wire[c] \in Seq(Ids) /\ wire[c] # <<>>
    BY <1>0, <1>4 DEF TypeOK, Dispatch
  <2>2. 1 \in 1..Len(wire[c]) /\ Head(wire[c]) = e /\ e \in Ids
    BY <2>1
  <2>3. e \in published
    BY <1>0, <2>2 DEF ChannelInv
  <2>4. replay \/ Feed!Above(e, Feed!Elems(got[c]))
    BY <1>0, <2>2 DEF OrderInv, BotInv, Feed!Above, Feed!Elems
  <2>5. got' = [got EXCEPT ![c] = Append(@, e)] /\ UNCHANGED <<published, replay>>
    BY <1>4, <2>2 DEF Dispatch
  <2> QED
    BY <2>2, <2>3, <2>4, <2>5 DEF Feed!Next, Feed!Deliver
<1> QED
  BY <1>1, <1>2, <1>3, <1>4
     DEF Next, Insert, Delete, StartPollerOk, PollOk, PollAgain, SkipRow, FailRow,
         Subscribe, Forward, Lag, Disconnect, Reset, Start, Crash, Exit, Halt,
         StdinClosed

\* Refinement: to a bot, the poller, the channel, the streams and the restarts
\* together look like the abstract feed.
THEOREM Refinement == Spec => ImplementsFeed
<1>1. Spec => Feed!Spec
  BY FeedInit, FeedStep, Invariance, PTL DEF Spec, Feed!Spec
<1> QED
  BY <1>1 DEF ImplementsFeed

-----------------------------------------------------------------------------
(***************************************************************************)
(* One subscription of a bot: what it is handed keeps the order of the     *)
(* table even after a start has fallen back to position 0, and it has no   *)
(* gap but those the code has a reason for.                                *)
(*                                                                         *)
(* Neither follows from the order over the bot's whole life, which a       *)
(* fallback ends.  Within a subscription the bound is the poller's         *)
(* position, which only grows while the process lives, and no subscription *)
(* outlives the process.                                                   *)
(***************************************************************************)

Recent(c) == (since[c] + 1)..Len(got[c])

\* What this subscription has dispatched, what is in flight and what its
\* receiver still has to read ascend, and the poller is past all of it.
SubscriptionInv(c) ==
    /\ since[c] <= Len(got[c])
    /\ \A i, j \in Recent(c) : i < j => got[c][i] < got[c][j]
    /\ Feed!Ascending(wire[c])
    /\ \A i \in Recent(c), j \in 1..Len(wire[c]) : got[c][i] < wire[c][j]
    /\ stream[c] = "open" =>
        /\ \A i \in Recent(c) : got[c][i] <= last
        /\ \A j \in 1..Len(wire[c]) : wire[c][j] <= last
        /\ \A k \in (next[c] + 1)..Len(sent) :
            /\ \A i \in Recent(c) : got[c][i] < sent[k]
            /\ \A j \in 1..Len(wire[c]) : wire[c][j] < sent[k]

SessionInv == \A c \in Clients : SubscriptionInv(c)

-----------------------------------------------------------------------------
(* Order within a subscription.                                            *)

\* The subscriptions that an action leaves alone.
LEMMA SubscriptionUnchanged ==
  ASSUME NEW c \in Clients, SubscriptionInv(c),
         got'[c] = got[c], since'[c] = since[c], wire'[c] = wire[c],
         sent' = sent, last' = last,
         stream'[c] = "open" => stream[c] = "open" /\ next'[c] = next[c]
  PROVE  SubscriptionInv(c)'
  BY DEF SubscriptionInv, Recent, Feed!Ascending

LEMMA SessionInit == Init => SessionInv
  BY DEF Init, SessionInv, SubscriptionInv, Recent, Feed!Ascending

LEMMA SessionStep ==
  ASSUME TypeOK, PollerInv, ChannelInv, SessionInv, [Next]_vars
  PROVE  SessionInv'
<1> USE PipelineConstants
<1> USE DEF vars, tableVars, serverVars, pollVars, streamVars, botHist, feedHist
<1> SUFFICES ASSUME NEW c \in Clients PROVE SubscriptionInv(c)'
  BY DEF SessionInv
<1>0. SubscriptionInv(c)
  BY DEF SessionInv
<1>1. /\ Len(sent) \in Nat /\ last \in Nat
      /\ next \in [Clients -> Nat] /\ since \in [Clients -> Nat]
      /\ wire \in [Clients -> Seq(Ids)] /\ got \in [Clients -> Seq(Ids)]
      /\ stream \in [Clients -> {"idle", "open", "broken"}]
      /\ \A i \in 1..Len(sent) : sent[i] \in Nat
      /\ \A i \in Ids : i \in Nat
  BY DEF TypeOK, Ids
<1>2. CASE UNCHANGED <<last, sent, streamVars, got, since>>
  BY <1>0, <1>2, SubscriptionUnchanged
<1>3. CASE StartPollerOk \/ StartPollerFallback
  <2>0. /\ pc = "start" /\ last' \in {LatestRow, 0}
        /\ UNCHANGED <<sent, streamVars, got, since>>
    BY <1>3 DEF StartPollerOk, StartPollerFallback
  <2>1. last = 0 /\ sent = <<>> /\ last' \in Nat
    <3>1. Len(rows) \in Nat
      BY DEF TypeOK
    <3> QED
      BY <2>0, <3>1, LatestRowFact DEF PollerInv, Running
  <2>2. /\ \A i \in Recent(c) : got[c][i] \in Nat
        /\ \A j \in 1..Len(wire[c]) : wire[c][j] \in Nat
    BY <1>0, <1>1 DEF Recent, SubscriptionInv
  <2>3. Recent(c)' = Recent(c) /\ sent' = <<>> /\ Len(sent') = 0
    BY <2>0, <2>1 DEF Recent
  <2>4. \A k \in (next[c] + 1)..0 : FALSE
    BY <1>1
  <2>5. stream[c] = "open" =>
          /\ \A i \in Recent(c) : got[c][i] <= last'
          /\ \A j \in 1..Len(wire[c]) : wire[c][j] <= last'
    BY <1>0, <2>1, <2>2 DEF SubscriptionInv
  <2> QED
    BY <1>0, <2>0, <2>3, <2>4, <2>5 DEF SubscriptionInv, Feed!Ascending
<1>4. ASSUME NEW id \in Ids, SkipRow(id) \/ FailRow(id) PROVE SubscriptionInv(c)'
  <2>1. last' = id /\ id > last /\ UNCHANGED <<sent, streamVars, got, since>>
    BY <1>4, AheadAfterTake DEF SkipRow, FailRow
  <2>2. /\ \A i \in Recent(c) : got[c][i] \in Nat
        /\ \A j \in 1..Len(wire[c]) : wire[c][j] \in Nat
    BY <1>0, <1>1 DEF Recent, SubscriptionInv
  <2>3. Recent(c)' = Recent(c) /\ id \in Nat
    BY <1>1, <2>1 DEF Recent
  <2>4. stream[c] = "open" =>
          /\ \A i \in Recent(c) : got[c][i] <= id
          /\ \A j \in 1..Len(wire[c]) : wire[c][j] <= id
    BY <1>0, <1>1, <2>1, <2>2, <2>3 DEF SubscriptionInv
  <2> QED
    BY <1>0, <2>1, <2>3, <2>4 DEF SubscriptionInv, Feed!Ascending
<1>5. ASSUME NEW id \in Ids, SendRow(id) PROVE SubscriptionInv(c)'
  <2>1. last' = id /\ id > last /\ UNCHANGED <<streamVars, got, since>>
    BY <1>5, SendRowFact DEF SendRow
  <2>2. /\ \A i \in Recent(c) : got[c][i] \in Nat
        /\ \A j \in 1..Len(wire[c]) : wire[c][j] \in Nat
    BY <1>0, <1>1 DEF Recent, SubscriptionInv
  <2>3. \A k \in (next[c] + 1)..Len(sent') :
          \/ k \in (next[c] + 1)..Len(sent) /\ sent'[k] = sent[k]
          \/ sent'[k] = id
    BY <1>1, <1>5, SendRowFact
  <2>4. stream[c] = "open" =>
          /\ \A i \in Recent(c) : got[c][i] < id
          /\ \A j \in 1..Len(wire[c]) : wire[c][j] < id
    BY <1>0, <1>1, <2>1, <2>2 DEF SubscriptionInv
  <2>5. Recent(c)' = Recent(c) /\ id \in Nat
    BY <1>1, <2>1 DEF Recent
  <2>6. stream[c] = "open" =>
          /\ \A i \in Recent(c) : got[c][i] <= id
          /\ \A j \in 1..Len(wire[c]) : wire[c][j] <= id
    BY <2>2, <2>4, <2>5
  <2>7. stream[c] = "open" => \A k \in (next[c] + 1)..Len(sent') :
          /\ \A i \in Recent(c) : got[c][i] < sent'[k]
          /\ \A j \in 1..Len(wire[c]) : wire[c][j] < sent'[k]
    BY <1>0, <2>3, <2>4 DEF SubscriptionInv
  <2> QED
    BY <1>0, <2>1, <2>5, <2>6, <2>7 DEF SubscriptionInv, Feed!Ascending
<1>6. ASSUME NEW d \in Clients, Subscribe(d) PROVE SubscriptionInv(c)'
  <2>1. CASE d # c
    BY <1>0, <1>1, <1>6, <2>1, SubscriptionUnchanged DEF Subscribe
  <2>2. CASE d = c
    <3>1. /\ next'[c] = Len(sent) /\ since'[c] = Len(got[c])
          /\ wire'[c] = <<>> /\ UNCHANGED <<got, sent, last>>
      BY <1>1, <1>6, <2>2 DEF Subscribe, ChannelInv
    <3>2. Recent(c)' = {}
      BY <1>1, <3>1 DEF Recent
    <3>3. Len(got[c]) \in Nat /\ Len(wire'[c]) = 0
      BY <1>1, <3>1
    <3> QED
      BY <3>1, <3>2, <3>3 DEF SubscriptionInv, Feed!Ascending
  <2> QED
    BY <2>1, <2>2
<1>7. ASSUME NEW d \in Clients, Forward(d) PROVE SubscriptionInv(c)'
  <2>1. CASE d # c
    BY <1>0, <1>1, <1>7, <2>1, SubscriptionUnchanged DEF Forward
  <2>2. CASE d = c
    <3> DEFINE n == next[c] + 1
    <3>1. /\ wire'[c] = Append(wire[c], sent[n]) /\ next'[c] = n
          /\ n \in 1..Len(sent) /\ n \in n..Len(sent) /\ stream[c] = "open"
          /\ UNCHANGED <<got, since, sent, stream, last>>
      BY <1>1, <1>7, <2>2 DEF Forward
    <3>2. sent[n] \in Ids /\ sent[n] <= last
      <4>1. sent \in Seq(1..Len(rows)) /\ 1..Len(rows) \subseteq Ids
        BY DEF TypeOK, Ids
      <4> QED
        BY <3>1, <4>1, SeqAt DEF ChannelInv
    <3>3. /\ Len(wire'[c]) = Len(wire[c]) + 1
          /\ \A i \in 1..Len(wire[c]) : wire'[c][i] = wire[c][i]
          /\ wire'[c][Len(wire[c]) + 1] = sent[n]
      BY <1>1, <3>1, <3>2, AppendProperties
    <3>4. \A i \in 1..Len(wire'[c]) : i \in 1..Len(wire[c]) \/ i = Len(wire[c]) + 1
      BY <1>1, <3>3
    <3>5. /\ \A i \in Recent(c) : got[c][i] < sent[n]
          /\ \A j \in 1..Len(wire[c]) : wire[c][j] < sent[n]
      BY <1>0, <1>1, <3>1 DEF SubscriptionInv
    <3>6. \A k \in (n + 1)..Len(sent) : sent[n] < sent[k]
      BY <1>1, <3>1 DEF ChannelInv, Feed!Ascending
    <3>7. \A k \in (n + 1)..Len(sent) : k \in (next[c] + 1)..Len(sent)
      BY <1>1
    <3>8. Recent(c)' = Recent(c)
      BY <3>1 DEF Recent
    <3>9. Feed!Ascending(wire[c])'
      <4>1. \A i, j \in 1..Len(wire'[c]) : i < j => i \in 1..Len(wire[c])
        BY <1>1, <3>3
      <4> QED
        BY <1>0, <3>3, <3>4, <3>5, <4>1 DEF SubscriptionInv, Feed!Ascending
    <3>10. \A j \in 1..Len(wire'[c]) :
             wire'[c][j] <= last /\ \A i \in Recent(c) : got[c][i] < wire'[c][j]
      BY <1>0, <3>1, <3>2, <3>3, <3>4, <3>5 DEF SubscriptionInv
    <3>11. \A k \in (n + 1)..Len(sent) :
             /\ \A i \in Recent(c) : got[c][i] < sent[k]
             /\ \A j \in 1..Len(wire'[c]) : wire'[c][j] < sent[k]
      BY <1>0, <3>1, <3>3, <3>4, <3>6, <3>7 DEF SubscriptionInv
    <3> QED
      BY <1>0, <3>1, <3>8, <3>9, <3>10, <3>11 DEF SubscriptionInv
  <2> QED
    BY <2>1, <2>2
<1>8. ASSUME NEW d \in Clients, Lag(d) PROVE SubscriptionInv(c)'
  <2>1. CASE d # c
    BY <1>0, <1>1, <1>8, <2>1, SubscriptionUnchanged DEF Lag
  <2>2. CASE d = c
    <3>1. /\ next'[c] \in Nat /\ next'[c] > next[c]
          /\ UNCHANGED <<got, since, wire, sent, stream, last>>
      BY <1>1, <1>8, <2>2 DEF Lag
    <3>2. \A k \in (next'[c] + 1)..Len(sent) : k \in (next[c] + 1)..Len(sent)
      BY <1>1, <3>1
    <3> QED
      BY <1>0, <3>1, <3>2 DEF SubscriptionInv, Recent, Feed!Ascending
  <2> QED
    BY <2>1, <2>2
<1>9. ASSUME NEW d \in Clients, Dispatch(d) PROVE SubscriptionInv(c)'
  <2>1. CASE d # c
    BY <1>0, <1>1, <1>9, <2>1, SubscriptionUnchanged DEF Dispatch
  <2>2. CASE d = c
    <3> DEFINE e == wire[c][1]
    <3>1. /\ wire[c] \in Seq(Ids) /\ wire[c] # <<>> /\ got[c] \in Seq(Ids)
          /\ UNCHANGED <<sent, stream, next, since, last>>
      BY <1>1, <1>9, <2>2 DEF Dispatch
    <3>2. wire'[c] = Tail(wire[c]) /\ got'[c] = Append(got[c], e) /\ e \in Ids
      BY <1>1, <1>9, <2>2, <3>1 DEF Dispatch
    <3>3. /\ Len(got'[c]) = Len(got[c]) + 1
          /\ \A i \in 1..Len(got[c]) : got'[c][i] = got[c][i]
          /\ got'[c][Len(got[c]) + 1] = e
      BY <3>1, <3>2, AppendProperties
    <3>4. /\ Len(wire'[c]) = Len(wire[c]) - 1
          /\ \A i \in 1..Len(wire'[c]) :
               /\ wire'[c][i] = wire[c][i + 1]
               /\ i + 1 \in 1..Len(wire[c])
               /\ i \in Nat /\ 1 < i + 1
      BY <3>1, <3>2
    <3>5. 1 \in 1..Len(wire[c])
      BY <3>1
    <3>6. \A i \in Recent(c) : got[c][i] < e
      BY <1>0, <3>5 DEF SubscriptionInv
    <3>7. \A i \in Recent(c)' :
            \/ i \in Recent(c) /\ got'[c][i] = got[c][i]
            \/ i = Len(got[c]) + 1
      <4>1. Recent(c)' = (since[c] + 1)..(Len(got[c]) + 1)
        BY <3>1, <3>3 DEF Recent
      <4>2. since[c] \in Nat /\ Len(got[c]) \in Nat
        BY <1>1, <3>1
      <4>3. \A i \in (since[c] + 1)..(Len(got[c]) + 1) :
              \/ i \in (since[c] + 1)..Len(got[c]) /\ i \in 1..Len(got[c])
              \/ i = Len(got[c]) + 1
        BY <4>2
      <4>4. Recent(c) = (since[c] + 1)..Len(got[c])
        BY DEF Recent
      <4> QED
        BY <3>3, <4>1, <4>3, <4>4
    <3>8. \A i, j \in Recent(c)' : i < j => got'[c][i] < got'[c][j]
      <4>1. \A i, j \in Recent(c)' : i < j => i # Len(got[c]) + 1
        BY <1>1, <3>1, <3>3 DEF Recent
      <4> QED
        BY <1>0, <3>3, <3>6, <3>7, <4>1 DEF SubscriptionInv
    <3>9. Feed!Ascending(wire[c])'
      <4>1. \A i, j \in 1..Len(wire'[c]) : i < j => i + 1 < j + 1
        BY <3>4
      <4> QED
        BY <1>0, <3>4, <4>1 DEF SubscriptionInv, Feed!Ascending
    <3>10. \A j \in 1..Len(wire'[c]) : e < wire'[c][j]
      BY <1>0, <3>4, <3>5 DEF SubscriptionInv, Feed!Ascending
    <3>11. \A i \in Recent(c)', j \in 1..Len(wire'[c]) : got'[c][i] < wire'[c][j]
      BY <1>0, <3>3, <3>4, <3>7, <3>10 DEF SubscriptionInv
    <3>12. stream[c] = "open" =>
             /\ \A i \in Recent(c)' : got'[c][i] <= last
             /\ \A j \in 1..Len(wire'[c]) : wire'[c][j] <= last
             /\ \A k \in (next[c] + 1)..Len(sent) :
                 /\ \A i \in Recent(c)' : got'[c][i] < sent[k]
                 /\ \A j \in 1..Len(wire'[c]) : wire'[c][j] < sent[k]
      BY <1>0, <3>3, <3>4, <3>5, <3>7 DEF SubscriptionInv
    <3>13. since'[c] <= Len(got'[c])
      BY <1>0, <1>1, <3>1, <3>3 DEF SubscriptionInv
    <3> QED
      BY <3>1, <3>8, <3>9, <3>11, <3>12, <3>13 DEF SubscriptionInv
  <2> QED
    BY <2>1, <2>2
<1>10. ASSUME NEW d \in Clients, Disconnect(d) PROVE SubscriptionInv(c)'
  BY <1>0, <1>1, <1>10, SubscriptionUnchanged DEF Disconnect
<1>11. ASSUME NEW d \in Clients, Reset(d) PROVE SubscriptionInv(c)'
  <2>1. CASE d # c
    BY <1>0, <1>1, <1>11, <2>1, SubscriptionUnchanged DEF Reset
  <2>2. CASE d = c
    <3>1. wire'[c] = <<>> /\ stream'[c] = "idle" /\ UNCHANGED <<got, since>>
      BY <1>1, <1>11, <2>2 DEF Reset
    <3> QED
      BY <1>0, <3>1 DEF SubscriptionInv, Recent, Feed!Ascending
  <2> QED
    BY <2>1, <2>2
<1>12. CASE Halt
  <2>1. stream'[c] # "open" /\ UNCHANGED <<got, since, wire>>
    BY <1>1, <1>12 DEF Halt
  <2> QED
    BY <1>0, <2>1 DEF SubscriptionInv, Recent, Feed!Ascending
<1> QED
  BY <1>2, <1>3, <1>4, <1>5, <1>6, <1>7, <1>8, <1>9, <1>10, <1>11, <1>12
     DEF Next, Crash, Exit, Insert, Delete, PollOk, PollAgain, Start, StdinClosed

\* The end of one sequence followed by another ascends if both do and the
\* first stays below the second.
LEMMA ConcatAscends ==
  ASSUME NEW s \in Seq(Nat), NEW t \in Seq(Nat), NEW n \in Nat, n <= Len(s),
         \A i, j \in (n + 1)..Len(s) : i < j => s[i] < s[j],
         Feed!Ascending(t),
         \A i \in (n + 1)..Len(s), j \in 1..Len(t) : s[i] < t[j]
  PROVE  Feed!Ascending(SubSeq(s, n + 1, Len(s)) \o t)
<1> DEFINE r == SubSeq(s, n + 1, Len(s))
           m == Len(s) - n
<1>1. m \in Nat /\ Len(t) \in Nat
  OBVIOUS
<1>2. r \in Seq(Nat) /\ Len(r) = m /\ \A i \in 1..m : r[i] = s[n + i]
  <2>1. \A i \in (n + 1)..Len(s) : s[i] \in Nat
    OBVIOUS
  <2>2. /\ r \in Seq(Nat)
        /\ Len(r) = IF n + 1 <= Len(s) THEN Len(s) - (n + 1) + 1 ELSE 0
        /\ \A i \in 1..(Len(s) - (n + 1) + 1) : r[i] = s[(n + 1) + i - 1]
    BY <2>1, SubSeqProperties
  <2> QED
    BY <2>2
<1> HIDE DEF r, m
<1>3. /\ Len(r \o t) = m + Len(t)
      /\ \A i \in 1..(m + Len(t)) :
           (r \o t)[i] = IF i <= m THEN r[i] ELSE t[i - m]
  BY <1>1, <1>2, ConcatProperties
<1>4. \A i \in 1..m : n + i \in (n + 1)..Len(s)
  BY DEF m
<1>5. /\ \A i, j \in 1..m : i < j => r[i] < r[j]
      /\ \A i \in 1..m, j \in 1..Len(t) : r[i] < t[j]
  <2>1. \A i, j \in 1..m : i < j => n + i < n + j
    BY <1>1
  <2> QED
    BY <1>2, <1>4, <2>1
<1> SUFFICES ASSUME NEW i \in 1..(m + Len(t)), NEW j \in 1..(m + Len(t)), i < j
             PROVE  (r \o t)[i] < (r \o t)[j]
  BY <1>3 DEF Feed!Ascending, r
<1>6. CASE j <= m
  <2>1. i \in 1..m /\ j \in 1..m
    BY <1>1, <1>6
  <2> QED
    BY <1>3, <1>5, <1>6, <2>1
<1>7. CASE i <= m /\ ~(j <= m)
  <2>1. i \in 1..m /\ j - m \in 1..Len(t)
    BY <1>1, <1>7
  <2> QED
    BY <1>3, <1>5, <1>7, <2>1
<1>8. CASE ~(i <= m)
  <2>1. i - m \in 1..Len(t) /\ j - m \in 1..Len(t) /\ i - m < j - m /\ ~(j <= m)
    BY <1>1, <1>8
  <2> QED
    BY <1>3, <1>8, <2>1 DEF Feed!Ascending
<1> QED
  BY <1>1, <1>6, <1>7, <1>8

LEMMA SessionInvariance == Spec => []SessionInv
<1>1. IInv /\ SessionInv /\ [Next]_vars => SessionInv'
  BY SessionStep DEF IInv
<1> QED
  BY <1>1, SessionInit, Invariance, PTL DEF Spec

\* Within a subscription a bot sees the rows in the order of the table and
\* none twice, after a fallback to position 0 as well.
THEOREM SessionOrderTheorem == Spec => []SessionInOrder
<1>1. IInv /\ SessionInv => SessionInOrder
  <2> SUFFICES ASSUME IInv, SessionInv, NEW c \in Clients
               PROVE  Feed!Ascending(
                        SubSeq(got[c], since[c] + 1, Len(got[c])) \o wire[c])
    BY DEF SessionInOrder
  <2>1. got[c] \in Seq(Nat) /\ wire[c] \in Seq(Nat) /\ since[c] \in Nat
    BY PipelineConstants DEF IInv, TypeOK, Ids
  <2> QED
    BY <2>1, ConcatAscends DEF SessionInv, SubscriptionInv, Recent
<1> QED
  BY <1>1, SessionInvariance, Invariance, PTL

-----------------------------------------------------------------------------
(* Gaps within a subscription.                                             *)

\* A row that c may count on: stored after it subscribed and after the poller
\* started, already passed by the poller, and mapped.
Owed(c, id) ==
    /\ id > mark[c] /\ id > base
    /\ id <= last
    /\ rows[id] = "msg"
    /\ id \notin failed

Watching(c) == stream[c] = "open" /\ ~overrun[c] /\ Running

\* c has it, or it is on its way to c.
Reaches(c, id) == id \in Session(c) \cup Pending(c)

\* The rows the poller passes when it takes one: only that one.
LEMMA TakesOne ==
  ASSUME TypeOK, PollerInv, NEW id \in Ids, TakeRow(id), UNCHANGED tableVars,
         NEW j \in Present, last < j, j <= last'
  PROVE  j = id
<1>1. last' = id /\ id \in Nat /\ j \in Nat /\ \A i \in batch : i \in Nat
  BY AheadAfterTake DEF TypeOK, Present, Ids
<1>2. id \in batch /\ \A i \in batch : id <= i
  BY DEF TakeRow
<1>3. j < id => j \in batch
  BY <1>2 DEF PollerInv
<1> QED
  BY <1>1, <1>2, <1>3

\* The rows of a bot whose subscription an action leaves alone.
LEMMA ReachesStill ==
  ASSUME NEW c \in Clients, NEW id, Reaches(c, id),
         got'[c] = got[c], since'[c] = since[c], wire'[c] = wire[c],
         next'[c] = next[c], sent' = sent
  PROVE  Reaches(c, id)'
  BY DEF Reaches, Session, Pending

LEMMA GapStep ==
  ASSUME TypeOK, PollerInv, ChannelInv, SessionInv, NoSilentGap, [Next]_vars
  PROVE  NoSilentGap'
<1> USE PipelineConstants
<1> USE DEF vars, tableVars, serverVars, pollVars, streamVars, botHist, feedHist
<1> SUFFICES ASSUME NEW c \in Clients, Watching(c)',
                    NEW id \in Present', Owed(c, id)'
             PROVE  Reaches(c, id)'
  BY DEF NoSilentGap, Watching, Owed, Reaches, Running
<1>0. /\ Len(sent) \in Nat /\ Len(rows) \in Nat /\ last \in 0..Len(rows)
      /\ next \in [Clients -> Nat] /\ since \in [Clients -> Nat]
      /\ mark \in [Clients -> Nat] /\ overrun \in [Clients -> BOOLEAN]
      /\ wire \in [Clients -> Seq(Ids)] /\ got \in [Clients -> Seq(Ids)]
      /\ stream \in [Clients -> {"idle", "open", "broken"}]
      /\ Present \subseteq 1..Len(rows)
  BY DEF TypeOK, Present
<1>1. Watching(c) /\ id \in Present /\ Owed(c, id) => Reaches(c, id)
  BY DEF NoSilentGap, Watching, Owed, Reaches, Running
<1>2. CASE UNCHANGED <<tableVars, pollVars, streamVars, botHist, feedHist>>
  BY <1>1, <1>2, ReachesStill DEF Watching, Owed, Running, Present
<1>3. ASSUME NEW kind \in Kinds, Insert(kind) PROVE Reaches(c, id)'
  <2>1. /\ UNCHANGED <<pollVars, streamVars, botHist, feedHist>>
        /\ Present' = Present \cup {Len(rows) + 1}
        /\ \A i \in 1..Len(rows) : rows'[i] = rows[i]
    BY <1>3, PresentAfterInsert DEF Insert
  <2>2. id \in Present /\ rows'[id] = rows[id]
    BY <1>0, <2>1 DEF Owed
  <2> QED
    BY <1>1, <2>1, <2>2, ReachesStill DEF Watching, Owed, Running
<1>4. ASSUME NEW x \in Ids, Delete(x) PROVE Reaches(c, id)'
  <2>1. /\ UNCHANGED <<rows, pollVars, streamVars, botHist, feedHist>>
        /\ id \in Present
    BY <1>4 DEF Delete, Present
  <2> QED
    BY <1>1, <2>1, ReachesStill DEF Watching, Owed, Running
<1>5. CASE StartPollerOk
  <2>1. last' \in Nat /\ last' <= Len(rows) /\ base' = Len(rows) /\ id \in 1..Len(rows)
    BY <1>0, <1>5, LatestRowFact DEF StartPollerOk, Present
  <2> QED
    BY <1>0, <2>1 DEF Owed
<1>6. CASE StartPollerFallback
  <2>1. last' = 0 /\ id \in 1..Len(rows)
    BY <1>0, <1>6 DEF StartPollerFallback, Present
  <2> QED
    BY <1>0, <2>1 DEF Owed
<1>7. CASE PollOk
  <2>1. /\ UNCHANGED <<tableVars, last, sent, streamVars, botHist, feedHist>>
        /\ Running
    BY <1>7 DEF PollOk, Running
  <2> QED
    BY <1>1, <2>1, ReachesStill DEF Watching, Owed, Present
<1>8. ASSUME NEW x \in Ids, SkipRow(x) \/ SendRow(x) \/ FailRow(x)
      PROVE  Reaches(c, id)'
  <2>1. /\ TakeRow(x) /\ Running /\ last' = x
        /\ UNCHANGED <<tableVars, streamVars, got, since, mark, overrun, base>>
        /\ failed \subseteq failed'
    <3>1. TakeRow(x) /\ UNCHANGED tableVars
      BY <1>8 DEF SkipRow, SendRow, FailRow
    <3> QED
      BY <1>8, <3>1, AheadAfterTake DEF SkipRow, SendRow, FailRow, TakeRow, Running
  <2>2. id \in Present /\ Watching(c)
    BY <2>1 DEF Present, Watching
  <2>3. /\ next[c] <= Len(sent) /\ next'[c] = next[c]
        /\ \/ sent' = sent
           \/ /\ Len(sent') = Len(sent) + 1
              /\ \A i \in 1..Len(sent) : sent'[i] = sent[i]
    BY <1>8, <2>1, SendRowFact DEF ChannelInv, SkipRow, FailRow
  <2>4. CASE id # x
    <3>1. id <= last
      BY <1>0, <2>1, <2>2, <2>4, TakesOne DEF Owed
    <3>2. Reaches(c, id)
      BY <1>1, <2>1, <2>2, <3>1 DEF Owed
    <3>3. Pending(c) \subseteq Pending(c)'
      BY <1>0, <2>1, <2>3 DEF Pending
    <3>4. Session(c)' = Session(c)
      BY <2>1 DEF Session
    <3> QED
      BY <3>2, <3>3, <3>4 DEF Reaches
  <2>5. CASE id = x
    <3>1. SendRow(x)
      BY <1>8, <2>1, <2>5 DEF Owed, SkipRow, FailRow
    <3>2. c \in Receivers
      BY <2>2 DEF Receivers, Watching
    <3>3. sent' = Append(sent, x)
      BY <3>1, <3>2 DEF SendRow
    <3>4. Len(sent') = Len(sent) + 1 /\ sent'[Len(sent) + 1] = x
      <4>1. sent \in Seq(1..Len(rows)) /\ x \in 1..Len(rows)
        BY <1>0, <2>2, <2>5 DEF TypeOK
      <4> QED
        BY <3>3, <4>1, AppendProperties
    <3>5. Len(sent) + 1 \in (next'[c] + 1)..Len(sent')
      BY <1>0, <2>3, <3>4
    <3> QED
      BY <2>5, <3>4, <3>5 DEF Reaches, Pending
  <2> QED
    BY <2>4, <2>5
<1>9. ASSUME NEW d \in Clients, Subscribe(d) PROVE Reaches(c, id)'
  <2>1. CASE d # c
    <3>1. /\ UNCHANGED <<tableVars, pollVars, got, wire, feedHist>>
          /\ stream'[c] = stream[c] /\ next'[c] = next[c] /\ since'[c] = since[c]
          /\ mark'[c] = mark[c] /\ overrun'[c] = overrun[c]
      BY <1>0, <1>9, <2>1 DEF Subscribe
    <3> QED
      BY <1>1, <3>1, ReachesStill DEF Watching, Owed, Running, Present
  <2>2. CASE d = c
    <3>1. mark'[c] = Len(rows) /\ id \in 1..Len(rows)
      BY <1>0, <1>9, <2>2 DEF Subscribe, Present
    <3> QED
      BY <1>0, <3>1 DEF Owed
  <2> QED
    BY <2>1, <2>2
<1>10. ASSUME NEW d \in Clients, Forward(d) PROVE Reaches(c, id)'
  <2>1. /\ UNCHANGED <<tableVars, pollVars, stream, botHist, feedHist>>
        /\ Watching(c) /\ id \in Present /\ Reaches(c, id)
    BY <1>1, <1>10 DEF Forward, Watching, Owed, Running, Present
  <2>2. CASE d # c
    <3>1. wire'[c] = wire[c] /\ next'[c] = next[c]
      BY <1>0, <1>10, <2>2 DEF Forward
    <3> QED
      BY <2>1, <3>1, ReachesStill
  <2>3. CASE d = c
    <3> DEFINE n == next[c] + 1
    <3>1. /\ wire'[c] = Append(wire[c], sent[n]) /\ next'[c] = n
          /\ n \in 1..Len(sent)
      BY <1>0, <1>10, <2>3 DEF Forward
    <3>2. sent[n] \in Ids
      <4>1. sent \in Seq(1..Len(rows)) /\ 1..Len(rows) \subseteq Ids
        BY DEF TypeOK, Ids
      <4> QED
        BY <3>1, <4>1, SeqAt
    <3>3. /\ Len(wire'[c]) = Len(wire[c]) + 1
          /\ \A i \in 1..Len(wire[c]) : wire'[c][i] = wire[c][i]
          /\ wire'[c][Len(wire[c]) + 1] = sent[n]
      BY <1>0, <3>1, <3>2, AppendProperties
    <3>4. Session(c) \cup {sent[n]} \subseteq Session(c)'
      <4>1. /\ \A i \in 1..Len(wire[c]) : i \in 1..Len(wire'[c])
            /\ Len(wire[c]) + 1 \in 1..Len(wire'[c])
        <5>1. Len(wire[c]) \in Nat /\ Len(wire'[c]) = Len(wire[c]) + 1
          BY <1>0, <3>3
        <5> QED
          BY <5>1
      <4>2. got'[c] = got[c] /\ since'[c] = since[c]
        BY <2>1
      <4> HIDE DEF n
      <4>3. sent[n] \in Session(c)'
        <5>1. PICK i \in 1..Len(wire'[c]) : wire'[c][i] = sent[n]
          BY <3>3, <4>1
        <5> QED
          BY <5>1 DEF Session
      <4>4. Session(c) \subseteq Session(c)'
        BY <3>3, <4>1, <4>2 DEF Session
      <4> QED
        BY <4>3, <4>4
    <3>5. Pending(c) \subseteq Pending(c)' \cup {sent[n]}
      <4>1. \A k \in n..Len(sent) : k = n \/ k \in (n + 1)..Len(sent)
        BY <1>0
      <4> QED
        BY <2>1, <3>1, <4>1 DEF Pending
    <3> QED
      BY <2>1, <3>4, <3>5 DEF Reaches
  <2> QED
    BY <2>2, <2>3
<1>11. ASSUME NEW d \in Clients, Lag(d) PROVE Reaches(c, id)'
  <2>1. d # c
    BY <1>0, <1>11 DEF Lag, Watching
  <2>2. /\ UNCHANGED <<tableVars, pollVars, stream, wire, got, since, mark, feedHist>>
        /\ next'[c] = next[c] /\ overrun'[c] = overrun[c]
    BY <1>0, <1>11, <2>1 DEF Lag
  <2> QED
    BY <1>1, <2>2, ReachesStill DEF Watching, Owed, Running, Present
<1>12. ASSUME NEW d \in Clients, Dispatch(d) PROVE Reaches(c, id)'
  <2>1. /\ UNCHANGED <<tableVars, pollVars, stream, next, since, mark, overrun, feedHist>>
        /\ Watching(c) /\ id \in Present /\ Reaches(c, id)
    BY <1>1, <1>12 DEF Dispatch, Watching, Owed, Running, Present
  <2>2. CASE d # c
    <3>1. wire'[c] = wire[c] /\ got'[c] = got[c]
      BY <1>0, <1>12, <2>2 DEF Dispatch
    <3> QED
      BY <2>1, <3>1, ReachesStill
  <2>3. CASE d = c
    <3> DEFINE e == wire[c][1]
    <3>1. wire[c] \in Seq(Ids) /\ wire[c] # <<>> /\ got[c] \in Seq(Ids)
      BY <1>0, <1>12, <2>3 DEF Dispatch
    <3>2. wire'[c] = Tail(wire[c]) /\ got'[c] = Append(got[c], e) /\ e \in Ids
      BY <1>0, <1>12, <2>3, <3>1 DEF Dispatch
    <3>3. /\ Len(got'[c]) = Len(got[c]) + 1
          /\ \A i \in 1..Len(got[c]) : got'[c][i] = got[c][i]
          /\ got'[c][Len(got[c]) + 1] = e
      BY <3>1, <3>2, AppendProperties
    <3>4. /\ Len(wire'[c]) = Len(wire[c]) - 1
          /\ \A i \in 1..Len(wire'[c]) : wire'[c][i] = wire[c][i + 1]
      BY <3>1, <3>2, HeadTailProperties
    <3>5. since[c] <= Len(got[c])
      BY DEF SessionInv, SubscriptionInv
    <3>6. \A i \in (since[c] + 1)..Len(got[c]) : got[c][i] \in Session(c)'
      <4>1. \A i \in (since[c] + 1)..Len(got[c]) :
              i \in 1..Len(got[c]) /\ i \in (since[c] + 1)..Len(got'[c])
        BY <1>0, <3>3
      <4> QED
        BY <2>1, <3>3, <4>1 DEF Session
    <3>7. e \in Session(c)'
      <4>1. Len(got[c]) + 1 \in (since[c] + 1)..Len(got'[c])
        BY <1>0, <3>3, <3>5
      <4> QED
        BY <2>1, <3>3, <4>1 DEF Session
    <3>8. \A j \in 1..Len(wire[c]) : wire[c][j] = e \/ wire[c][j] \in Session(c)'
      <4> SUFFICES ASSUME NEW j \in 1..Len(wire[c]), j # 1
                   PROVE  wire[c][j] \in Session(c)'
        OBVIOUS
      <4>1. j - 1 \in 1..Len(wire'[c]) /\ (j - 1) + 1 = j
        BY <3>1, <3>4
      <4>2. wire'[c][j - 1] = wire[c][j]
        BY <3>4, <4>1
      <4> QED
        BY <4>1, <4>2 DEF Session
    <3>9. Session(c) \subseteq Session(c)' /\ Pending(c)' = Pending(c)
      BY <2>1, <3>6, <3>7, <3>8 DEF Session, Pending
    <3> QED
      BY <2>1, <3>9 DEF Reaches
  <2> QED
    BY <2>2, <2>3
<1>13. ASSUME NEW d \in Clients, Disconnect(d) PROVE Reaches(c, id)'
  <2>1. d # c
    BY <1>0, <1>13 DEF Disconnect, Watching
  <2>2. UNCHANGED <<tableVars, pollVars, next, wire, botHist, feedHist>>
        /\ stream'[c] = stream[c]
    BY <1>0, <1>13, <2>1 DEF Disconnect
  <2> QED
    BY <1>1, <2>2, ReachesStill DEF Watching, Owed, Running, Present
<1>14. ASSUME NEW d \in Clients, Reset(d) PROVE Reaches(c, id)'
  <2>1. d # c
    BY <1>0, <1>14 DEF Reset, Watching
  <2>2. /\ UNCHANGED <<tableVars, pollVars, next, botHist, feedHist>>
        /\ stream'[c] = stream[c] /\ wire'[c] = wire[c]
    BY <1>0, <1>14, <2>1 DEF Reset
  <2> QED
    BY <1>1, <2>2, ReachesStill DEF Watching, Owed, Running, Present
<1>15. CASE Start \/ Halt
  BY <1>15 DEF Start, Halt, Watching, Running
<1> QED
  BY <1>2, <1>3, <1>4, <1>5, <1>6, <1>7, <1>8, <1>9, <1>10, <1>11, <1>12,
     <1>13, <1>14, <1>15
     DEF Next, Crash, Exit, PollAgain, StdinClosed

\* While a bot is subscribed and not overrun, every message stored since both
\* it and the poller started, and passed by the poller, is with the bot or on
\* its way, unless mapping it failed.
THEOREM NoSilentGapTheorem == Spec => []NoSilentGap
<1>1. Init => NoSilentGap
  BY DEF Init, NoSilentGap
<1>2. IInv /\ SessionInv /\ NoSilentGap /\ [Next]_vars => NoSilentGap'
  BY GapStep DEF IInv
<1> QED
  BY <1>1, <1>2, SessionInvariance, Invariance, PTL DEF Spec
=============================================================================
