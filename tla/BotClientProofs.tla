-------------------------- MODULE BotClientProofs --------------------------
(***************************************************************************)
(* Proofs about the client of a bot, for any number of tasks, handlers and *)
(* channels, and any interleaving of the tasks' steps between two awaits.  *)
(*                                                                         *)
(* What leaks is followed step by step: a channel stops being the client's *)
(* or a pending connect's only when it is closed or when the health check  *)
(* of another task replaces it, and then overlaps counts it.  What run()   *)
(* has called is told by where it is in its loop (DispatchInv).            *)
(***************************************************************************)
EXTENDS BotClient, FiniteSetTheorems, SequenceTheorems, TLAPS

Ascending == \A i, j \in 1..Len(called) : i < j => called[i] < called[j]

\* The handlers called so far are the first of those that match; there are
\* none outside the handling of an event and the wait for the next one.
DispatchInv ==
    /\ pc["run"] \notin {"using", "dispatching"} => matched = {} /\ called = <<>>
    /\ Ascending
    /\ \A i \in 1..Len(called) : called[i] \in matched
    /\ \A r \in matched :
        \/ \E i \in 1..Len(called) : called[i] = r
        \/ pc["run"] = "dispatching" /\ \A i \in 1..Len(called) : called[i] < r

IInv == TypeOK /\ DispatchInv /\ LeaksOnlyByOverlap

-----------------------------------------------------------------------------
(* Tasks.                                                                  *)

LEMMA GotoFact ==
  ASSUME TypeOK, NEW t \in Tasks, NEW state \in RunStates, NEW ch \in Channels \cup {0},
         t \in Callers => state \in {"idle", "connecting", "using"},
         Goto(t, state, ch)
  PROVE  /\ pc' \in [Tasks -> RunStates]
         /\ mine' \in [Tasks -> Channels \cup {0}]
         /\ lost' \in BOOLEAN
         /\ \A c \in Callers : pc'[c] \in {"idle", "connecting", "using"}
         /\ pc'[t] = state /\ mine'[t] = ch
         /\ \A u \in Tasks : u # t => pc'[u] = pc[u] /\ mine'[u] = mine[u]
<1>1. /\ pc \in [Tasks -> RunStates] /\ mine \in [Tasks -> Channels \cup {0}]
      /\ lost \in BOOLEAN /\ \A c \in Callers : pc[c] \in {"idle", "connecting", "using"}
      /\ Callers \subseteq Tasks
  BY DEF TypeOK, Tasks
<1>2. pc' = [pc EXCEPT ![t] = state] /\ mine' = [mine EXCEPT ![t] = ch]
  BY DEF Goto
<1>3. lost' \in BOOLEAN
  BY <1>1 DEF Goto
<1> QED
  BY <1>1, <1>2, <1>3

\* What a move of t does to the set of pending connects.
LEMMA ConnectingGoto ==
  ASSUME TypeOK, NEW t \in Tasks, NEW state \in RunStates, NEW ch \in Channels \cup {0},
         t \in Callers => state \in {"idle", "connecting", "using"},
         Goto(t, state, ch)
  PROVE  /\ pc[t] # "connecting" => Connecting \subseteq Connecting'
         /\ Connecting \subseteq Connecting' \cup {mine[t]}
         /\ state = "connecting" => ch \in Connecting'
  BY GotoFact DEF Connecting

Leaked == open \ ({channel} \cup Connecting)

\* A step that leaks nothing, or counts what it leaks.
LEMMA LeakStep ==
  ASSUME IInv, TypeOK',
         \/ Leaked' \subseteq Leaked /\ overlaps' = overlaps
         \/ Leaked' \subseteq Leaked \cup {channel} /\ overlaps' = overlaps + 1
  PROVE  LeaksOnlyByOverlap'
<1>1. IsFiniteSet(Leaked)
  <2>1. IsFiniteSet(Channels)
    BY ClientConstants, FS_Interval DEF Channels
  <2>2. Leaked \subseteq Channels
    BY DEF IInv, TypeOK, Leaked
  <2> QED
    BY <2>1, <2>2, FS_Subset
<1>2. Cardinality(Leaked) \in Nat /\ Cardinality(Leaked) <= overlaps /\ overlaps \in Nat
  BY <1>1, FS_CardinalityType DEF IInv, TypeOK, LeaksOnlyByOverlap, Leaked
<1>3. CASE Leaked' \subseteq Leaked /\ overlaps' = overlaps
  <2>1. Cardinality(Leaked') <= Cardinality(Leaked) /\ Cardinality(Leaked') \in Nat
    BY <1>1, <1>3, FS_Subset, FS_CardinalityType
  <2>2. Cardinality(Leaked') <= overlaps'
    BY <1>2, <1>3, <2>1
  <2> QED
    BY <2>2 DEF LeaksOnlyByOverlap, Leaked
<1>4. CASE Leaked' \subseteq Leaked \cup {channel} /\ overlaps' = overlaps + 1
  <2>1. /\ IsFiniteSet(Leaked \cup {channel})
        /\ Cardinality(Leaked \cup {channel}) <= Cardinality(Leaked) + 1
        /\ Cardinality(Leaked \cup {channel}) \in Nat
    <3>1. /\ IsFiniteSet(Leaked \cup {channel})
          /\ \/ Cardinality(Leaked \cup {channel}) = Cardinality(Leaked)
             \/ Cardinality(Leaked \cup {channel}) = Cardinality(Leaked) + 1
      BY <1>1, FS_AddElement
    <3> QED
      BY <1>2, <3>1
  <2>2. Cardinality(Leaked') <= Cardinality(Leaked \cup {channel})
        /\ Cardinality(Leaked') \in Nat
    BY <1>4, <2>1, FS_Subset, FS_CardinalityType
  <2>3. Cardinality(Leaked') <= overlaps'
    BY <1>2, <1>4, <2>1, <2>2
  <2> QED
    BY <2>3 DEF LeaksOnlyByOverlap, Leaked
<1> QED
  BY <1>3, <1>4
\* A step that leaves run() where it is, or away from its stream.
LEMMA DispatchStill ==
  ASSUME DispatchInv, UNCHANGED eventVars,
         \/ pc'["run"] = pc["run"]
         \/ /\ pc["run"] \notin {"using", "dispatching"}
            /\ pc'["run"] # "dispatching"
  PROVE  DispatchInv'
<1>1. matched' = matched /\ called' = called
  BY DEF eventVars
<1> QED
  BY <1>1 DEF DispatchInv, Ascending

\* After the loop is left, for whatever reason.
LEMMA DispatchReset ==
  ASSUME matched' = {}, called' = <<>>
  PROVE  DispatchInv'
  BY DEF DispatchInv, Ascending

LEMMA TypeStep ==
  ASSUME TypeOK, NEW t \in Tasks, NEW state \in RunStates, NEW ch \in Channels \cup {0},
         t \in Callers => state \in {"idle", "connecting", "using"},
         Goto(t, state, ch), UNCHANGED <<server, reconnect>>,
         channel' \in Channels \cup {0}, stub' = channel', open' \in SUBSET Channels,
         closed' \in BOOLEAN, matched' \in SUBSET Routes, called' \in Seq(Routes),
         overlaps' \in Nat
  PROVE  TypeOK'
  BY GotoFact DEF TypeOK

-----------------------------------------------------------------------------
(* connect() and what follows it.                                          *)

LEMMA GetStubStep ==
  ASSUME IInv, NEW t \in Tasks, NEW wasClosed \in BOOLEAN, GetStub(t, wasClosed),
         pc[t] \notin {"connecting", "using", "dispatching"},
         UNCHANGED <<server, reconnect, eventVars, overlaps>>
  PROVE  IInv'
<1>0. TypeOK /\ matched' = matched /\ called' = called /\ "run" \notin Callers
  BY ClientConstants DEF IInv, eventVars
<1>1. /\ channel \in Channels \cup {0} /\ stub = channel /\ open \in SUBSET Channels
      /\ closed \in BOOLEAN /\ matched \in SUBSET Routes /\ called \in Seq(Routes)
      /\ overlaps \in Nat
  BY <1>0 DEF TypeOK
<1>2. CASE channel # 0
  <2>1. Goto(t, "using", stub) /\ closed' = wasClosed /\ UNCHANGED <<channel, stub, open>>
    BY <1>2 DEF GetStub
  <2>2. TypeOK'
    BY <1>0, <1>1, <2>1, TypeStep DEF RunStates
  <2>3. DispatchInv'
    <3>1. pc'[t] = "using" /\ \A u \in Tasks : u # t => pc'[u] = pc[u]
      BY <1>0, <1>1, <2>1, GotoFact DEF RunStates
    <3> QED
      BY <3>1, DispatchStill DEF IInv, Tasks
  <2>4. Leaked' \subseteq Leaked
    BY <1>0, <1>1, <2>1, ConnectingGoto DEF RunStates, Leaked
  <2> QED
    BY <2>2, <2>3, <2>4, LeakStep DEF IInv
<1>3. CASE channel = 0
  <2>1. PICK new \in Free : /\ open' = open \cup {new} /\ closed' = FALSE
                            /\ Goto(t, "connecting", new) /\ UNCHANGED <<channel, stub>>
    BY <1>3 DEF GetStub
  <2>2. new \in Channels
    BY DEF Free
  <2>3. TypeOK'
    BY <1>0, <1>1, <2>1, <2>2, TypeStep DEF RunStates
  <2>4. DispatchInv'
    <3>1. pc'[t] = "connecting" /\ \A u \in Tasks : u # t => pc'[u] = pc[u]
      BY <1>0, <1>1, <2>1, <2>2, GotoFact DEF RunStates
    <3> QED
      BY <3>1, DispatchStill DEF IInv, Tasks
  <2>5. Leaked' \subseteq Leaked
    BY <1>0, <1>1, <2>1, <2>2, ConnectingGoto DEF RunStates, Leaked
  <2> QED
    BY <2>3, <2>4, <2>5, LeakStep DEF IInv
<1> QED
  BY <1>2, <1>3

LEMMA HealthOkStep ==
  ASSUME IInv, NEW t \in Tasks, HealthOk(t)
  PROVE  IInv'
<1>0. TypeOK /\ mine[t] \in Channels \cup {0}
  BY DEF IInv, TypeOK
<1>1. /\ pc[t] = "connecting" /\ channel' = mine[t] /\ stub' = mine[t]
      /\ Goto(t, "using", mine[t])
      /\ overlaps' = IF channel = 0 THEN overlaps ELSE overlaps + 1
      /\ UNCHANGED <<server, reconnect, open, closed, eventVars>>
  BY DEF HealthOk
<1>2. TypeOK'
  <2>1. /\ open \in SUBSET Channels /\ closed \in BOOLEAN /\ overlaps \in Nat
        /\ matched \in SUBSET Routes /\ called \in Seq(Routes)
    BY <1>0 DEF TypeOK
  <2>2. overlaps' \in Nat
    BY <1>1, <2>1
  <2> QED
    BY <1>0, <1>1, <2>1, <2>2, TypeStep DEF RunStates, eventVars
<1>3. DispatchInv'
  <2>1. pc'[t] = "using" /\ \A u \in Tasks : u # t => pc'[u] = pc[u]
    BY <1>0, <1>1, GotoFact DEF RunStates
  <2> QED
    BY <1>1, <2>1, DispatchStill DEF IInv, Tasks
<1>4. Leaked' \subseteq Leaked \cup {channel}
  BY <1>0, <1>1, ConnectingGoto DEF RunStates, Leaked
<1>5. 0 \notin open
  BY <1>0, ClientConstants DEF TypeOK, Channels
<1>6. channel = 0 => Leaked' \subseteq Leaked
  BY <1>1, <1>4, <1>5 DEF Leaked
<1> QED
  BY <1>1, <1>2, <1>3, <1>4, <1>6, LeakStep DEF IInv

LEMMA CloseStep ==
  ASSUME IInv, Close
  PROVE  IInv'
<1>1. /\ open' = open \ {channel} /\ channel' = 0 /\ stub' = 0 /\ closed' = TRUE
      /\ UNCHANGED <<server, reconnect, pc, mine, lost, matched, called, overlaps>>
  BY DEF Close, Disconnect, taskVars, eventVars
<1>2. TypeOK'
  BY <1>1 DEF IInv, TypeOK
<1>3. DispatchInv'
  BY <1>1, DispatchStill DEF IInv, eventVars
<1>4. Leaked' \subseteq Leaked
  BY <1>1 DEF Leaked, Connecting
<1> QED
  BY <1>1, <1>2, <1>3, <1>4, LeakStep DEF IInv

LEMMA ServerStep ==
  ASSUME IInv, ServerChanges
  PROVE  IInv'
<1>1. /\ server' \in BOOLEAN /\ lost' \in BOOLEAN
      /\ UNCHANGED <<reconnect, channel, stub, open, closed, pc, mine, matched, called,
                     overlaps>>
  BY DEF ServerChanges, clientVars, eventVars, IInv, TypeOK
<1>2. TypeOK'
  BY <1>1 DEF IInv, TypeOK
<1>3. DispatchInv'
  BY <1>1, DispatchStill DEF IInv, eventVars
<1>4. Leaked' \subseteq Leaked
  BY <1>1 DEF Leaked, Connecting
<1> QED
  BY <1>1, <1>2, <1>3, <1>4, LeakStep DEF IInv

-----------------------------------------------------------------------------
(* Calls and run().                                                        *)

LEMMA CallEndStep ==
  ASSUME IInv, NEW c \in Callers, CallHealthError(c) \/ CallEnd(c)
  PROVE  IInv'
<1>0. TypeOK /\ c \in Tasks /\ c # "run" /\ "run" \in Tasks
  BY ClientConstants DEF IInv, Tasks
<1>1. /\ Goto(c, "idle", 0)
      /\ UNCHANGED <<server, reconnect, channel, stub, closed, matched, called, overlaps>>
      /\ \/ open' = open \ {mine[c]}
         \/ open' = open /\ pc[c] # "connecting"
  BY DEF CallHealthError, CallEnd, clientVars, eventVars
<1>2. TypeOK'
  BY <1>0, <1>1, TypeStep DEF RunStates, TypeOK
<1>3. DispatchInv'
  <2>1. pc'["run"] = pc["run"]
    BY <1>0, <1>1, GotoFact DEF RunStates
  <2> QED
    BY <1>1, <2>1, DispatchStill DEF IInv, eventVars
<1>4. Leaked' \subseteq Leaked
  BY <1>0, <1>1, ConnectingGoto DEF RunStates, Leaked
<1> QED
  BY <1>1, <1>2, <1>3, <1>4, LeakStep DEF IInv

LEMMA LeaveStep ==
  ASSUME IInv, NEW gone, NEW how, Leave(gone, how),
         pc["run"] = "connecting" => mine["run"] \in gone
  PROVE  IInv'
<1>0. TypeOK /\ "run" \in Tasks /\ "run" \notin Callers
  BY ClientConstants DEF IInv, Tasks
<1>1. PICK state \in {"returned", "raised", "sleeping"} :
        /\ Goto("run", state, 0)
        /\ \/ open' = open \ gone /\ UNCHANGED <<channel, stub>>
           \/ open' = open \ (gone \cup {channel}) /\ channel' = 0 /\ stub' = 0
  BY DEF Leave, Disconnect
<1>2. matched' = {} /\ called' = <<>> /\ UNCHANGED <<server, reconnect, closed, overlaps>>
  BY DEF Leave
<1>3. TypeOK'
  BY <1>0, <1>1, <1>2, TypeStep DEF RunStates, TypeOK
<1>4. DispatchInv'
  BY <1>2, DispatchReset
<1>5. Leaked' \subseteq Leaked
  BY <1>0, <1>1, ConnectingGoto DEF RunStates, Leaked
<1> QED
  BY <1>2, <1>3, <1>4, <1>5, LeakStep DEF IInv

\* A step of run() that concerns neither channels nor events.
LEMMA RunStill ==
  ASSUME IInv, NEW state \in RunStates, NEW ch \in Channels \cup {0},
         Goto("run", state, ch), pc["run"] # "connecting",
         UNCHANGED <<server, reconnect, clientVars, overlaps>>,
         matched' \in SUBSET Routes, called' \in Seq(Routes), DispatchInv'
  PROVE  IInv'
<1>0. TypeOK /\ "run" \in Tasks /\ "run" \notin Callers
  BY ClientConstants DEF IInv, Tasks
<1>1. TypeOK'
  BY <1>0, TypeStep DEF TypeOK, clientVars
<1>2. Leaked' \subseteq Leaked
  BY <1>0, ConnectingGoto DEF Leaked, clientVars
<1> QED
  BY <1>1, <1>2, LeakStep DEF IInv
LEMMA WakeStep ==
  ASSUME IInv, Wake
  PROVE  IInv'
<1>0. TypeOK /\ "run" \in Tasks /\ "run" \notin Callers
  BY ClientConstants DEF IInv, Tasks
<1>1. /\ pc["run"] = "sleeping"
      /\ UNCHANGED <<server, reconnect, eventVars, overlaps>>
      /\ \/ GetStub("run", FALSE)
         \/ Goto("run", "returned", 0) /\ UNCHANGED clientVars
  BY DEF Wake
<1>2. CASE GetStub("run", FALSE)
  BY <1>0, <1>1, <1>2, GetStubStep
<1>3. CASE Goto("run", "returned", 0) /\ UNCHANGED clientVars
  <2>1. pc'["run"] = "returned"
    BY <1>0, <1>3, GotoFact DEF RunStates
  <2>2. DispatchInv'
    BY <1>1, <2>1, DispatchStill DEF IInv
  <2>3. matched' \in SUBSET Routes /\ called' \in Seq(Routes)
    BY <1>0, <1>1 DEF TypeOK, eventVars
  <2> QED
    BY <1>1, <1>3, <2>2, <2>3, RunStill DEF RunStates
<1> QED
  BY <1>1, <1>2, <1>3

-----------------------------------------------------------------------------
(* dispatch().                                                             *)

LEMMA EventBeginStep ==
  ASSUME IInv, NEW routes \in SUBSET Routes, EventBegin(routes)
  PROVE  IInv'
<1>0. TypeOK /\ "run" \in Tasks /\ mine["run"] \in Channels \cup {0} /\ "run" \notin Callers
  BY ClientConstants DEF IInv, TypeOK, Tasks
<1>1. /\ pc["run"] = "using" /\ Goto("run", "dispatching", mine["run"])
      /\ matched' = routes /\ called' = <<>>
      /\ UNCHANGED <<server, reconnect, clientVars, overlaps>>
  BY DEF EventBegin
<1>2. pc'["run"] = "dispatching"
  BY <1>0, <1>1, GotoFact DEF RunStates
<1>3. 1..Len(called') = {} /\ called' \in Seq(Routes)
  BY <1>1
<1>4. DispatchInv'
  BY <1>1, <1>2, <1>3 DEF DispatchInv, Ascending
<1> QED
  BY <1>0, <1>1, <1>3, <1>4, RunStill DEF RunStates

LEMMA HandleStep ==
  ASSUME IInv, NEW r \in Routes, Handle(r)
  PROVE  IInv'
<1>0. TypeOK /\ DispatchInv
  BY DEF IInv
<1>1. /\ pc["run"] = "dispatching" /\ r \in Remaining /\ \A q \in Remaining : r <= q
      /\ called' = Append(called, r)
      /\ UNCHANGED <<server, reconnect, channel, stub, open, closed, pc, mine, lost,
                     matched, overlaps>>
  BY DEF Handle, clientVars, taskVars
<1>2. called \in Seq(Routes) /\ matched \in SUBSET Routes /\ Routes \subseteq Nat
  BY <1>0 DEF TypeOK, Routes
<1>3. /\ Len(called) \in Nat
      /\ Len(called') = Len(called) + 1 /\ called'[Len(called) + 1] = r
      /\ \A i \in 1..Len(called) : called'[i] = called[i]
      /\ called' \in Seq(Routes)
  BY <1>1, <1>2, AppendProperties
<1>4. \A i \in 1..Len(called') : i \in 1..Len(called) \/ i = Len(called) + 1
  BY <1>3
<1>5. r \in matched /\ \A i \in 1..Len(called) : called[i] < r
  BY <1>1 DEF Remaining
<1>6. Ascending'
  <2> SUFFICES ASSUME NEW i \in 1..Len(called'), NEW j \in 1..Len(called'), i < j
               PROVE  called'[i] < called'[j]
    BY DEF Ascending
  <2>1. i \in 1..Len(called)
    BY <1>3
  <2>2. CASE j \in 1..Len(called)
    BY <1>0, <1>3, <2>1, <2>2 DEF DispatchInv, Ascending
  <2>3. CASE j = Len(called) + 1
    BY <1>3, <1>5, <2>1, <2>3
  <2> QED
    BY <1>4, <2>2, <2>3
<1>7. \A i \in 1..Len(called') : called'[i] \in matched'
  BY <1>0, <1>1, <1>3, <1>4, <1>5 DEF DispatchInv
<1>8. ASSUME NEW q \in matched
      PROVE  \/ \E i \in 1..Len(called') : called'[i] = q
             \/ \A i \in 1..Len(called') : called'[i] < q
  <2>1. CASE \E i \in 1..Len(called) : called[i] = q
    <3>1. \A i \in 1..Len(called) : i \in 1..Len(called')
      BY <1>3
    <3> QED
      BY <1>3, <2>1, <3>1
  <2>2. CASE \A i \in 1..Len(called) : called[i] < q
    <3>1. q \in Remaining
      BY <2>2 DEF Remaining
    <3>2. CASE q = r
      <4>1. Len(called) + 1 \in 1..Len(called')
        BY <1>3
      <4> QED
        BY <1>3, <3>2, <4>1
    <3>3. CASE q # r
      <4>1. r < q
        BY <1>1, <1>2, <1>5, <3>1, <3>3
      <4> QED
        BY <1>3, <1>4, <2>2, <4>1
    <3> QED
      BY <3>2, <3>3
  <2> QED
    BY <1>0, <2>1, <2>2 DEF DispatchInv
<1>9. DispatchInv'
  BY <1>1, <1>6, <1>7, <1>8 DEF DispatchInv
<1>10. TypeOK'
  BY <1>0, <1>1, <1>3 DEF TypeOK
<1>11. Leaked' \subseteq Leaked
  BY <1>1 DEF Leaked, Connecting
<1> QED
  BY <1>1, <1>9, <1>10, <1>11, LeakStep DEF IInv

LEMMA EventEndStep ==
  ASSUME IInv, EventEnd
  PROVE  IInv'
<1>0. TypeOK /\ DispatchInv /\ "run" \in Tasks /\ mine["run"] \in Channels \cup {0}
      /\ "run" \notin Callers
  BY ClientConstants DEF IInv, TypeOK, Tasks
<1>1. /\ pc["run"] = "dispatching" /\ Remaining = {}
      /\ Goto("run", "using", mine["run"])
      /\ UNCHANGED <<server, reconnect, clientVars, eventVars, overlaps>>
  BY DEF EventEnd
<1>2. pc'["run"] = "using"
  BY <1>0, <1>1, GotoFact DEF RunStates
<1>3. \A r \in matched : \E i \in 1..Len(called) : called[i] = r
  BY <1>0, <1>1 DEF DispatchInv, Remaining
<1>4. matched' = matched /\ called' = called
  BY <1>1 DEF eventVars
<1>5. DispatchInv'
  BY <1>0, <1>2, <1>3, <1>4 DEF DispatchInv, Ascending
<1>6. matched' \in SUBSET Routes /\ called' \in Seq(Routes)
  BY <1>0, <1>4 DEF TypeOK
<1> QED
  BY <1>0, <1>1, <1>5, <1>6, RunStill DEF RunStates

LEMMA RaisesStep ==
  ASSUME IInv, NEW caught \in BOOLEAN, DispatchRaises(caught)
  PROVE  IInv'
<1>1. CASE Leave({}, "reconnectable") /\ pc["run"] = "dispatching"
  BY <1>1, LeaveStep
<1>2. CASE /\ Goto("run", "raised", 0) /\ matched' = {} /\ called' = <<>>
           /\ UNCHANGED <<server, reconnect, clientVars, overlaps>>
           /\ pc["run"] = "dispatching"
  <2>1. DispatchInv'
    BY <1>2, DispatchReset
  <2>2. matched' \in SUBSET Routes /\ called' \in Seq(Routes)
    BY <1>2
  <2> QED
    BY <1>2, <2>1, <2>2, RunStill DEF RunStates
<1> QED
  BY <1>1, <1>2 DEF DispatchRaises

-----------------------------------------------------------------------------
LEMMA InvInit == Init => IInv
<1> SUFFICES ASSUME Init PROVE IInv
  OBVIOUS
<1>1. TypeOK
  <2>1. pc \in [Tasks -> RunStates] /\ \A c \in Callers : pc[c] = "idle"
    BY DEF Init, RunStates, Tasks
  <2>2. mine \in [Tasks -> Channels \cup {0}]
    BY DEF Init
  <2>3. called \in Seq(Routes)
    BY DEF Init
  <2> QED
    BY <2>1, <2>2, <2>3 DEF Init, TypeOK
<1>2. DispatchInv
  BY DEF Init, DispatchInv, Ascending
<1>3. LeaksOnlyByOverlap
  <2>1. open \ ({channel} \cup Connecting) = {} /\ overlaps = 0
    BY DEF Init
  <2> QED
    BY <2>1, FS_EmptySet DEF LeaksOnlyByOverlap
<1> QED
  BY <1>1, <1>2, <1>3 DEF IInv

LEMMA InvStep == IInv /\ [Next]_vars => IInv'
<1> SUFFICES ASSUME IInv, [Next]_vars PROVE IInv'
  OBVIOUS
<1>0. "run" \in Tasks /\ Callers \subseteq Tasks
  BY DEF Tasks
<1>1. CASE RunBegin
  BY <1>0, <1>1, GetStubStep DEF RunBegin
<1>2. ASSUME NEW c \in Callers, CallBegin(c) PROVE IInv'
  <2>1. closed \in BOOLEAN
    BY DEF IInv, TypeOK
  <2> QED
    BY <1>0, <1>2, <2>1, GetStubStep DEF CallBegin
<1>3. ASSUME NEW how \in Endings, RunHealthError(how) PROVE IInv'
  BY <1>3, LeaveStep DEF RunHealthError
<1>4. ASSUME NEW how \in Endings, StreamEnds(how) PROVE IInv'
  BY <1>4, LeaveStep DEF StreamEnds
<1>5. CASE UNCHANGED vars
  <2>1. UNCHANGED <<server, reconnect, channel, stub, open, closed, pc, mine, lost,
                    matched, called, overlaps>>
    BY <1>5 DEF vars, clientVars, taskVars, eventVars
  <2> QED
    BY <2>1 DEF IInv, TypeOK, DispatchInv, Ascending, LeaksOnlyByOverlap, Connecting
<1> QED
  BY <1>1, <1>2, <1>3, <1>4, <1>5, ServerStep, CloseStep, WakeStep, EventEndStep,
     EventBeginStep, HandleStep, RaisesStep, HealthOkStep, CallEndStep DEF Next

\* However the tasks of the loop interleave, and whatever fails.
THEOREM Invariance == Spec => []IInv
  BY InvInit, InvStep, PTL DEF Spec

\* The client's fields have the values they are meant to have; _stub is always
\* the stub of _channel.
THEOREM TypeCorrect == Spec => []TypeOK
<1>1. IInv => TypeOK
  BY DEF IInv
<1> QED
  BY <1>1, Invariance, PTL

\* Every open channel is the client's or one whose health check is awaited,
\* except at most one for each time connect() replaced another channel.
THEOREM LeakTheorem == Spec => []LeaksOnlyByOverlap
<1>1. IInv => LeaksOnlyByOverlap
  BY DEF IInv
<1> QED
  BY <1>1, Invariance, PTL

\* When run() awaits the next event, every handler that matches the last one
\* was called for it, once and in the order of registration, whichever raised.
THEOREM HandlersTheorem == Spec => []HandlersAreIsolated
<1>1. IInv => HandlersAreIsolated
  <2> SUFFICES ASSUME IInv, pc["run"] = "using"
               PROVE  /\ ToSet(called) = matched
                      /\ \A i, j \in 1..Len(called) : i < j => called[i] < called[j]
    BY DEF HandlersAreIsolated
  <2>1. ToSet(called) = {called[i] : i \in 1..Len(called)}
    BY DEF ToSet, IInv, TypeOK
  <2> QED
    BY <2>1 DEF IInv, DispatchInv, Ascending
<1> QED
  BY <1>1, Invariance, PTL
=============================================================================
