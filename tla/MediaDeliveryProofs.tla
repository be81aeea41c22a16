------------------------ MODULE MediaDeliveryProofs ------------------------
(***************************************************************************)
(* Proofs about the action thread by itself, and about the thread and the  *)
(* media store together, for any number of uploads, files and actions.     *)
(*                                                                         *)
(* Of the thread: whatever calls fail, and however often one is repeated,  *)
(* the activity manager sees the parts of the actions in the order of the  *)
(* queue and each at most once, and process reports success exactly if     *)
(* every part was offered, started or declined in a result that nobody     *)
(* reads.  This rests on what the thread's place says of the intents       *)
(* offered so far: all of them come before the part it is at, and of the   *)
(* action at work they are exactly the parts before that one (WorkInv).    *)
(*                                                                         *)
(* Of the two together: they implement MediaStore, and so have the         *)
(* property proved of it (NeededFilesStay).  A step of the thread becomes  *)
(* a step of the store because of what ties an action to its upload        *)
(* (OwnerInv): the upload is done as long as the action is in the queue,   *)
(* and a SendMedia has one part for each file.                             *)
(***************************************************************************)
EXTENDS MediaDelivery, SequenceTheorems, TLAPS

-----------------------------------------------------------------------------
(* The thread.                                                             *)

AtWork == thread \in {"build", "call", "fallback"}

WorkInv ==
    /\ thread \in {"attach", "stopped"} => taken = 0
    /\ AtWork =>
        /\ taken \in 1..Len(accepted)
        /\ part <= accepted[taken].parts
        /\ outcome[taken] = "none"
        /\ Offered(taken) = 1..(part - 1)
        /\ \A i \in 1..Len(started) : Before(started[i], <<taken, part>>)
    /\ \A i \in 1..Len(started) : started[i][1] <= taken
    /\ \A n \in Numbers : n > taken => Offered(n) = {} /\ outcome[n] = "none"
    /\ \A n \in Numbers : Parts(n) \cap Declined(n) = {}

OfferedIsPrefix ==
    \A n \in 1..Len(accepted) :
        /\ \E k \in 0..accepted[n].parts : Offered(n) = 1..k
        /\ outcome[n] = "ok" <=> Offered(n) = 1..accepted[n].parts
        /\ n > taken => Offered(n) = {} /\ outcome[n] = "none"

ThreadInv == TypeOK /\ WorkInv /\ StartedInOrder /\ OfferedIsPrefix

-----------------------------------------------------------------------------
LEMMA ActionFact ==
  ASSUME TypeOK, NEW n \in 1..Len(accepted)
  PROVE  accepted[n].parts \in 1..MaxParts /\ accepted[n].kind \in Kinds
<1>1. accepted[n] \in Actions
  BY DEF TypeOK
<1> QED
  BY <1>1 DEF Actions

\* The type and the position of the thread.
LEMMA WorkType ==
  ASSUME TypeOK
  PROVE  /\ Len(accepted) \in Nat /\ taken \in 0..Len(accepted)
         /\ taken \in Nat /\ part \in Nat /\ part >= 1
         /\ Len(started) \in Nat /\ 1..Len(accepted) \subseteq Numbers
         /\ \A i \in 1..Len(started) :
              started[i][1] \in Numbers /\ started[i][2] \in 1..MaxParts
<1>1. accepted \in Seq(Actions) /\ Len(accepted) <= MaxActions
      /\ taken \in 0..Len(accepted) /\ part \in 1..MaxParts
      /\ started \in Seq(Numbers \X (1..MaxParts))
  BY DEF TypeOK
<1>2. \A i \in 1..Len(started) : started[i] \in Numbers \X (1..MaxParts)
  BY <1>1
<1>3. Len(accepted) \in Nat /\ Len(started) \in Nat
  BY <1>1
<1>4. \A i \in 1..Len(started) :
        started[i][1] \in Numbers /\ started[i][2] \in 1..MaxParts
  BY <1>2
<1>5. 1..Len(accepted) \subseteq Numbers
  BY <1>1, <1>3, ActionConstants DEF Numbers
<1> QED
  BY <1>1, <1>3, <1>4, <1>5

LEMMA TypeInit == Init => TypeOK
<1> SUFFICES ASSUME Init PROVE TypeOK
  OBVIOUS
<1>1. accepted \in Seq(Actions) /\ Len(accepted) = 0
  BY DEF Init
<1>2. started \in Seq(Numbers \X (1..MaxParts))
  BY DEF Init
<1>3. outcome \in [Numbers -> {"none", "ok", "err"}]
  BY DEF Init
<1>4. Len(accepted) <= MaxActions /\ taken \in 0..Len(accepted) /\ part \in 1..MaxParts
  BY <1>1, ActionConstants DEF Init
<1>5. thread = "attach" /\ refused = FALSE /\ declined = {}
  BY DEF Init
<1> QED
  BY <1>1, <1>2, <1>3, <1>4, <1>5 DEF TypeOK

LEMMA TypeStep ==
  ASSUME TypeOK, WorkInv, [Next]_vars
  PROVE  TypeOK'
<1> USE ActionConstants DEF vars
<1>0. AtWork => /\ taken \in Numbers /\ taken \in 1..Len(accepted)
                /\ accepted[taken].parts \in 1..MaxParts
  BY ActionFact, WorkType DEF WorkInv
<1>1. ASSUME NEW action \in Actions, Enqueue(action) PROVE TypeOK'
  <2>1. accepted' \in Seq(Actions) /\ Len(accepted') = Len(accepted) + 1
    <3>1. accepted \in Seq(Actions) /\ accepted' = Append(accepted, action)
      BY <1>1 DEF TypeOK, Enqueue
    <3> QED
      BY <3>1, AppendProperties
  <2>2. Len(accepted') <= MaxActions /\ taken \in 0..Len(accepted')
    BY <1>1, <2>1, WorkType DEF Enqueue
  <2> QED
    BY <1>1, <2>1, <2>2 DEF TypeOK, Enqueue
<1>2. CASE Receive
  <2>1. taken + 1 \in 0..Len(accepted)
    BY <1>2, WorkType DEF Receive
  <2> QED
    BY <1>2, <2>1 DEF TypeOK, Receive
<1>3. ASSUME NEW result \in {"ok", "err"}, Finish(result), AtWork PROVE
        /\ outcome' \in [Numbers -> {"none", "ok", "err"}]
        /\ UNCHANGED <<accepted, refused, taken, part>> /\ thread' = "recv"
  BY <1>0, <1>3 DEF TypeOK, Finish
<1>4. CASE BuildError \/ FallbackError
  <2>1. Finish("err") /\ AtWork /\ UNCHANGED <<started, declined>>
    BY <1>4 DEF BuildError, FallbackError, Abandon, AtWork
  <2> QED
    BY <1>3, <2>1 DEF TypeOK
<1>5. CASE NextPart /\ AtWork /\ started' \in Seq(Numbers \X (1..MaxParts))
           /\ declined' \subseteq Numbers \X (1..MaxParts)
  <2>1. CASE part < accepted[taken].parts
    <3>1. part + 1 \in 1..MaxParts
      BY <1>0, <1>5, <2>1, WorkType
    <3> QED
      BY <1>5, <2>1, <3>1 DEF TypeOK, NextPart
  <2>2. CASE ~(part < accepted[taken].parts)
    BY <1>3, <1>5, <2>2 DEF TypeOK, NextPart
  <2> QED
    BY <2>1, <2>2
<1>8. AtWork => <<taken, part>> \in Numbers \X (1..MaxParts)
  BY <1>0 DEF TypeOK
<1>9. CASE Call \/ Fallback
  <2>1. PartStarted /\ AtWork
    BY <1>9 DEF Call, Fallback, AtWork
  <2>2. started \in Seq(Numbers \X (1..MaxParts)) /\ started' = Append(started, <<taken, part>>)
    BY <2>1 DEF TypeOK, PartStarted
  <2>3. started' \in Seq(Numbers \X (1..MaxParts))
    BY <1>8, <2>1, <2>2, AppendProperties
  <2> QED
    BY <1>5, <2>1, <2>3 DEF TypeOK, PartStarted
<1>10. CASE CallDeclined \/ FallbackDeclined
  BY <1>5, <1>8, <1>10 DEF TypeOK, CallDeclined, FallbackDeclined, PartDeclined, AtWork
<1>6. CASE EnqueueError \/ Attach \/ AttachError \/ Build \/ CallError
  BY <1>6 DEF TypeOK, EnqueueError, Attach, AttachError, Build, CallError
<1>7. CASE UNCHANGED vars
  BY <1>7 DEF TypeOK
<1> QED
  BY <1>1, <1>2, <1>4, <1>6, <1>7, <1>9, <1>10 DEF Next

-----------------------------------------------------------------------------
(* The order of the intents.                                               *)

\* What a started part adds.
LEMMA StartedFact ==
  ASSUME TypeOK, AtWork, WorkInv, PartStarted
  PROVE  /\ Len(started') = Len(started) + 1
         /\ \A i \in 1..Len(started) : started'[i] = started[i]
         /\ started'[Len(started) + 1] = <<taken, part>>
         /\ \A n \in Numbers :
              Parts(n)' = IF n = taken THEN Parts(n) \cup {part} ELSE Parts(n)
<1>1. /\ Len(started') = Len(started) + 1
      /\ \A i \in 1..Len(started) : started'[i] = started[i]
      /\ started'[Len(started) + 1] = <<taken, part>>
  <2>1. started \in Seq(Numbers \X (1..MaxParts))
    BY DEF TypeOK
  <2>2. <<taken, part>> \in Numbers \X (1..MaxParts)
    BY WorkType DEF TypeOK, WorkInv
  <2> QED
    BY <2>1, <2>2, AppendProperties DEF PartStarted
<1>2. \A i \in 1..Len(started') : i \in 1..Len(started) \/ i = Len(started) + 1
  BY <1>1, WorkType
<1>3. /\ \A i \in 1..Len(started) : i \in 1..Len(started')
      /\ Len(started) + 1 \in 1..Len(started')
  BY <1>1, WorkType
<1>4. ASSUME NEW n \in Numbers, NEW x
      PROVE  x \in Parts(n) <=>
               \E i \in 1..Len(started) : started[i][1] = n /\ started[i][2] = x
  BY DEF Parts
<1>5. ASSUME NEW n \in Numbers, NEW x
      PROVE  x \in Parts(n)' <=>
               \E i \in 1..Len(started') : started'[i][1] = n /\ started'[i][2] = x
  BY DEF Parts
<1>6. ASSUME NEW n \in Numbers, NEW x
      PROVE  x \in Parts(n)' <=> x \in Parts(n) \/ (n = taken /\ x = part)
  <2>1. started'[Len(started) + 1][1] = taken /\ started'[Len(started) + 1][2] = part
    BY <1>1
  <2> QED
    BY <1>1, <1>2, <1>3, <1>4, <1>5, <2>1
<1> QED
  BY <1>1, <1>6

\* What a call that has returned adds, whatever its result says.
LEMMA OfferedFact ==
  ASSUME TypeOK, AtWork, WorkInv, StartedInOrder, PartStarted \/ PartDeclined
  PROVE  /\ \A n \in Numbers :
              Offered(n)' = IF n = taken THEN Offered(n) \cup {part} ELSE Offered(n)
         /\ \A n \in Numbers : (Parts(n) \cap Declined(n) = {})'
         /\ StartedInOrder'
         /\ \A i \in 1..Len(started') :
              started'[i][1] <= taken /\ Before(started'[i], <<taken, part + 1>>)
<1>1. /\ \A i \in 1..Len(started) :
           /\ started[i][1] <= taken /\ Before(started[i], <<taken, part>>)
           /\ started[i][1] \in Nat /\ started[i][2] \in Nat
      /\ taken \in Nat /\ part \in Nat /\ Len(started) \in Nat
  <2>1. \A i \in 1..Len(started) :
          started[i][1] \in Numbers /\ started[i][2] \in 1..MaxParts
    BY WorkType
  <2>2. \A i \in 1..Len(started) : started[i][1] \in Nat /\ started[i][2] \in Nat
    BY <2>1 DEF Numbers
  <2> QED
    BY <2>2, WorkType DEF WorkInv
<1>2. /\ taken \in Numbers /\ Offered(taken) = 1..(part - 1)
      /\ \A n \in Numbers : Parts(n) \cap Declined(n) = {}
      /\ part \in 1..MaxParts
  BY WorkType DEF WorkInv, TypeOK
<1>3. part \notin Parts(taken) /\ part \notin Declined(taken)
  <2>1. part \notin 1..(part - 1)
    BY <1>1
  <2> QED
    BY <1>2, <2>1 DEF Offered
<1>4. CASE PartStarted
  <2>1. /\ Len(started') = Len(started) + 1
        /\ \A i \in 1..Len(started) : started'[i] = started[i]
        /\ started'[Len(started) + 1] = <<taken, part>>
        /\ \A n \in Numbers :
             Parts(n)' = IF n = taken THEN Parts(n) \cup {part} ELSE Parts(n)
    BY <1>4, StartedFact
  <2>2. \A n \in Numbers : Declined(n)' = Declined(n)
    BY <1>4 DEF PartStarted, Declined
  <2>3. \A i \in 1..Len(started') : i \in 1..Len(started) \/ i = Len(started) + 1
    BY <1>1, <2>1
  <2>4. StartedInOrder'
    <3>1. \A i, j \in 1..Len(started') : i < j => i \in 1..Len(started)
      BY <1>1, <2>1
    <3> QED
      BY <1>1, <2>1, <2>3, <3>1 DEF StartedInOrder
  <2>5. \A i \in 1..Len(started') :
          started'[i][1] <= taken /\ Before(started'[i], <<taken, part + 1>>)
    BY <1>1, <2>1, <2>3 DEF Before
  <2>6. \A n \in Numbers : (Parts(n) \cap Declined(n) = {})'
    BY <1>2, <1>3, <2>1, <2>2
  <2>7. \A n \in Numbers :
          Offered(n)' = IF n = taken THEN Offered(n) \cup {part} ELSE Offered(n)
    BY <2>1, <2>2 DEF Offered
  <2> QED
    BY <2>4, <2>5, <2>6, <2>7
<1>5. CASE PartDeclined
  <2>1. started' = started /\ declined' = declined \cup {<<taken, part>>}
    BY <1>5 DEF PartDeclined
  <2>2. \A n \in Numbers :
          /\ Parts(n)' = Parts(n)
          /\ Declined(n)' = IF n = taken THEN Declined(n) \cup {part} ELSE Declined(n)
    BY <1>2, <2>1 DEF Parts, Declined
  <2>3. StartedInOrder'
    BY <2>1 DEF StartedInOrder
  <2>4. \A i \in 1..Len(started') :
          started'[i][1] <= taken /\ Before(started'[i], <<taken, part + 1>>)
    BY <1>1, <2>1 DEF Before
  <2>5. \A n \in Numbers : (Parts(n) \cap Declined(n) = {})'
    BY <1>2, <1>3, <2>2
  <2>6. \A n \in Numbers :
          Offered(n)' = IF n = taken THEN Offered(n) \cup {part} ELSE Offered(n)
    BY <2>2 DEF Offered
  <2> QED
    BY <2>3, <2>4, <2>5, <2>6
<1> QED
  BY <1>4, <1>5

\* What was offered of an action, where a step leaves all intents alone.
LEMMA OfferedStill ==
  ASSUME UNCHANGED <<started, declined>>, NEW n
  PROVE  /\ Offered(n)' = Offered(n)
         /\ (Parts(n) \cap Declined(n) = {})' <=> (Parts(n) \cap Declined(n) = {})
  BY DEF Offered, Parts, Declined

LEMMA ThreadStep ==
  ASSUME ThreadInv, [Next]_vars
  PROVE  ThreadInv'
<1> USE ActionConstants DEF vars
<1>0. TypeOK /\ WorkInv /\ StartedInOrder /\ OfferedIsPrefix
  BY DEF ThreadInv
<1>t. TypeOK'
  BY <1>0, TypeStep
<1>w. /\ Len(accepted) \in Nat /\ taken \in 0..Len(accepted)
      /\ taken \in Nat /\ part \in Nat /\ part >= 1
      /\ Len(started) \in Nat /\ 1..Len(accepted) \subseteq Numbers
      /\ \A i \in 1..Len(started) :
           /\ started[i][1] \in Numbers /\ started[i][2] \in 1..MaxParts
           /\ started[i][1] \in Nat /\ started[i][2] \in Nat
      /\ outcome \in [Numbers -> {"none", "ok", "err"}]
  BY <1>0, WorkType DEF TypeOK, Numbers
<1>1. ASSUME NEW action \in Actions, Enqueue(action) PROVE ThreadInv'
  <2>1. /\ Len(accepted') = Len(accepted) + 1
        /\ \A n \in 1..Len(accepted) : accepted'[n] = accepted[n]
        /\ accepted'[Len(accepted) + 1] = action
    <3>1. accepted \in Seq(Actions) /\ accepted' = Append(accepted, action)
      BY <1>0, <1>1 DEF TypeOK, Enqueue
    <3> QED
      BY <3>1, AppendProperties
  <2>2. UNCHANGED <<refused, taken, thread, part, started, declined, outcome>>
    BY <1>1 DEF Enqueue
  <2>3. \A n : /\ Offered(n)' = Offered(n)
               /\ (Parts(n) \cap Declined(n) = {})' <=> (Parts(n) \cap Declined(n) = {})
    BY <2>2, OfferedStill
  <2>4. AtWork => /\ taken \in 1..Len(accepted')
                  /\ accepted'[taken] = accepted[taken] /\ taken \in Numbers
    BY <1>0, <1>w, <2>1 DEF WorkInv
  <2>5. WorkInv'
    BY <1>0, <2>2, <2>3, <2>4 DEF WorkInv, AtWork
  <2>6. StartedInOrder'
    BY <1>0, <2>2 DEF StartedInOrder
  <2>7. OfferedIsPrefix'
    <3> SUFFICES ASSUME NEW n \in 1..Len(accepted')
                 PROVE  /\ \E k \in 0..accepted'[n].parts : Offered(n) = 1..k
                        /\ outcome[n] = "ok" <=> Offered(n) = 1..accepted'[n].parts
                        /\ n > taken => Offered(n) = {} /\ outcome[n] = "none"
      <4>1. 1..Len(accepted') \subseteq Numbers
        BY <1>t, WorkType DEF TypeOK, Numbers
      <4> QED
        BY <2>2, <2>3, <4>1 DEF OfferedIsPrefix
    <3>1. CASE n \in 1..Len(accepted)
      BY <1>0, <2>1, <3>1 DEF OfferedIsPrefix
    <3>2. CASE n = Len(accepted) + 1
      <4>1. n \in Numbers /\ n > taken
        BY <1>1, <1>w, <3>2 DEF Enqueue, Numbers
      <4>2. Offered(n) = {} /\ outcome[n] = "none"
        BY <1>0, <4>1 DEF WorkInv
      <4>3. accepted'[n].parts \in 1..MaxParts
        BY <2>1, <3>2 DEF Actions
      <4>4. Offered(n) = 1..0 /\ 0 \in 0..accepted'[n].parts
            /\ 1 \in 1..accepted'[n].parts
        BY <4>2, <4>3
      <4> QED
        BY <4>2, <4>4
    <3> QED
      BY <1>w, <2>1, <3>1, <3>2
  <2> QED
    BY <1>t, <2>5, <2>6, <2>7 DEF ThreadInv
<1>2. CASE /\ UNCHANGED <<accepted, taken, part, started, declined, outcome>>
           /\ AtWork' => AtWork
           /\ thread' \in {"attach", "stopped"} => thread \in {"attach", "stopped"}
  <2>1. \A n : /\ Offered(n)' = Offered(n)
               /\ (Parts(n) \cap Declined(n) = {})' <=> (Parts(n) \cap Declined(n) = {})
    BY <1>2, OfferedStill
  <2>2. WorkInv'
    BY <1>0, <1>2, <2>1 DEF WorkInv
  <2>3. StartedInOrder'
    BY <1>0, <1>2 DEF StartedInOrder
  <2>4. OfferedIsPrefix'
    BY <1>0, <1>2, <2>1 DEF OfferedIsPrefix
  <2> QED
    BY <1>t, <2>2, <2>3, <2>4 DEF ThreadInv
<1>3. CASE EnqueueError \/ Attach \/ AttachError \/ Build \/ CallError
  BY <1>2, <1>3 DEF EnqueueError, Attach, AttachError, Build, CallError, AtWork
<1>4. CASE Receive
  <2>1. /\ taken' = taken + 1 /\ part' = 1 /\ thread' = "build"
        /\ UNCHANGED <<accepted, started, declined, outcome>> /\ taken < Len(accepted)
    BY <1>4 DEF Receive
  <2>2. \A n : /\ Offered(n)' = Offered(n)
               /\ (Parts(n) \cap Declined(n) = {})' <=> (Parts(n) \cap Declined(n) = {})
    BY <2>1, OfferedStill
  <2>3. taken' \in 1..Len(accepted) /\ taken' \in Numbers /\ taken' > taken
    BY <1>w, <2>1
  <2>4. Offered(taken)' = {} /\ outcome[taken'] = "none"
    <3>1. PICK t \in Numbers : t = taken' /\ t > taken
      BY <2>3
    <3>2. Offered(t) = {} /\ outcome[t] = "none"
      BY <1>0, <3>1 DEF WorkInv
    <3> QED
      BY <2>1, <3>1, <3>2 DEF Offered, Parts, Declined
  <2>5. accepted[taken'].parts \in 1..MaxParts
    BY <1>0, <2>3, ActionFact
  <2>6. \A i \in 1..Len(started) :
          started[i][1] <= taken' /\ Before(started[i], <<taken', 1>>)
    BY <1>0, <1>w, <2>1 DEF WorkInv, Before
  <2>7. WorkInv'
    <3>1. 1..(part' - 1) = {} /\ part' <= accepted[taken'].parts
      BY <2>1, <2>5
    <3>2. \A n \in Numbers : n > taken' => n > taken
      BY <1>w, <2>1 DEF Numbers
    <3>3. \A n \in Numbers : n > taken' => Offered(n)' = {} /\ outcome[n] = "none"
      BY <1>0, <2>2, <3>2 DEF WorkInv
    <3>4. \A n \in Numbers : (Parts(n) \cap Declined(n) = {})'
      BY <1>0, <2>2 DEF WorkInv
    <3> QED
      BY <2>1, <2>3, <2>4, <2>6, <3>1, <3>3, <3>4 DEF WorkInv, AtWork
  <2>8. StartedInOrder'
    BY <1>0, <2>1 DEF StartedInOrder
  <2>9. OfferedIsPrefix'
    BY <1>0, <1>w, <2>1, <2>2 DEF OfferedIsPrefix
  <2> QED
    BY <1>t, <2>7, <2>8, <2>9 DEF ThreadInv
<1>5. ASSUME NEW result \in {"ok", "err"}, AtWork, Finish(result),
             \A i \in 1..Len(started') : started'[i][1] <= taken,
             \A n \in Numbers : n # taken => Offered(n)' = Offered(n),
             \A n \in Numbers : (Parts(n) \cap Declined(n) = {})',
             \E k \in 0..accepted[taken].parts : Offered(taken)' = 1..k,
             result = "ok" <=> Offered(taken)' = 1..accepted[taken].parts
      PROVE  WorkInv' /\ OfferedIsPrefix'
  <2>1. /\ outcome' = [outcome EXCEPT ![taken] = result] /\ thread' = "recv"
        /\ UNCHANGED <<accepted, taken>>
    BY <1>5 DEF Finish
  <2>2. taken \in Numbers /\ outcome'[taken] = result
        /\ \A n \in Numbers : n # taken => outcome'[n] = outcome[n]
    BY <1>0, <1>5, <1>w, <2>1 DEF WorkInv
  <2>3. WorkInv'
    <3>1. \A n \in Numbers : n > taken => n # taken
      BY <1>w
    <3>2. \A n \in Numbers : n > taken => Offered(n)' = {} /\ outcome'[n] = "none"
      BY <1>0, <1>5, <2>2, <3>1 DEF WorkInv
    <3>3. /\ \A i \in 1..Len(started') : started'[i][1] <= taken
          /\ \A n \in Numbers : (Parts(n) \cap Declined(n) = {})'
      BY <1>5
    <3> QED
      BY <2>1, <3>2, <3>3 DEF WorkInv, AtWork
  <2>4. OfferedIsPrefix'
    <3> SUFFICES ASSUME NEW n \in 1..Len(accepted)
                 PROVE  /\ \E k \in 0..accepted[n].parts : Offered(n)' = 1..k
                        /\ outcome'[n] = "ok" <=> Offered(n)' = 1..accepted[n].parts
                        /\ n > taken => Offered(n)' = {} /\ outcome'[n] = "none"
      BY <2>1 DEF OfferedIsPrefix
    <3>1. CASE n = taken
      <4>1. Offered(n)' = Offered(taken)'
        BY <2>1, <3>1 DEF Offered, Parts, Declined
      <4>2. ~(n > taken) /\ outcome'[n] = result
        BY <1>w, <2>2, <3>1
      <4> QED
        BY <1>5, <3>1, <4>1, <4>2
    <3>2. CASE n # taken
      BY <1>0, <1>5, <1>w, <2>2, <3>2 DEF OfferedIsPrefix
    <3> QED
      BY <3>1, <3>2
  <2> QED
    BY <2>3, <2>4
<1>6. CASE BuildError \/ FallbackError
  <2>1. Finish("err") /\ AtWork /\ UNCHANGED <<started, declined>>
    BY <1>6 DEF BuildError, FallbackError, Abandon, AtWork
  <2>2. \A n : /\ Offered(n)' = Offered(n)
               /\ (Parts(n) \cap Declined(n) = {})' <=> (Parts(n) \cap Declined(n) = {})
    BY <2>1, OfferedStill
  <2>3. Offered(taken)' = 1..(part - 1)
    BY <1>0, <2>1, <2>2 DEF WorkInv, Finish
  <2>4. /\ accepted[taken].parts \in Nat /\ part <= accepted[taken].parts
        /\ part - 1 \in 0..accepted[taken].parts
    BY <1>0, <1>w, <2>1, ActionFact DEF WorkInv
  <2>5. 1..(part - 1) # 1..accepted[taken].parts
    <3>1. part \in 1..accepted[taken].parts /\ part \notin 1..(part - 1)
      BY <1>w, <2>4
    <3> QED
      BY <3>1
  <2>6. WorkInv' /\ OfferedIsPrefix'
    <3>1. \E k \in 0..accepted[taken].parts : Offered(taken)' = 1..k
      BY <2>3, <2>4
    <3>2. "err" = "ok" <=> Offered(taken)' = 1..accepted[taken].parts
      BY <2>3, <2>5
    <3>3. \A i \in 1..Len(started') : started'[i][1] <= taken
      BY <1>0, <2>1 DEF WorkInv
    <3>4. \A n \in Numbers : (Parts(n) \cap Declined(n) = {})'
      BY <1>0, <2>2 DEF WorkInv
    <3> QED
      BY <1>5, <2>1, <2>2, <3>1, <3>2, <3>3, <3>4
  <2>7. StartedInOrder'
    BY <1>0, <2>1 DEF StartedInOrder
  <2> QED
    BY <1>t, <2>6, <2>7 DEF ThreadInv
<1>7. CASE Call \/ Fallback \/ CallDeclined \/ FallbackDeclined
  <2>1. (PartStarted \/ PartDeclined) /\ NextPart /\ AtWork
    BY <1>7 DEF Call, Fallback, CallDeclined, FallbackDeclined, AtWork,
       PartStarted, PartDeclined
  <2>2. /\ \A n \in Numbers :
             Offered(n)' = IF n = taken THEN Offered(n) \cup {part} ELSE Offered(n)
        /\ \A n \in Numbers : (Parts(n) \cap Declined(n) = {})'
        /\ StartedInOrder'
        /\ \A i \in 1..Len(started') :
             started'[i][1] <= taken /\ Before(started'[i], <<taken, part + 1>>)
    BY <1>0, <2>1, OfferedFact
  <2>3. /\ taken \in 1..Len(accepted) /\ part <= accepted[taken].parts
        /\ outcome[taken] = "none" /\ Offered(taken) = 1..(part - 1)
        /\ taken \in Numbers /\ accepted[taken].parts \in Nat
    <3>1. accepted[taken].parts \in Nat
      BY <1>0, <2>1, ActionFact, ActionConstants DEF WorkInv
    <3> QED
      BY <1>0, <1>w, <2>1, <3>1 DEF WorkInv
  <2>4. taken' = taken /\ accepted' = accepted
    BY <2>1 DEF NextPart, Finish
  <2>5. Offered(taken)' = 1..part
    <3>1. 1..(part - 1) \cup {part} = 1..part
      BY <1>w
    <3>2. PICK t \in Numbers : t = taken
      BY <2>3
    <3>3. Offered(t)' = Offered(t) \cup {part} /\ t' = t
      BY <2>2, <3>2
    <3> QED
      BY <2>3, <2>4, <3>1, <3>2, <3>3 DEF Offered, Parts, Declined
  <2>6. CASE part < accepted[taken].parts
    <3>1. part' = part + 1 /\ thread' = "build" /\ UNCHANGED outcome
      BY <2>1, <2>6 DEF NextPart
    <3>2. part + 1 <= accepted[taken].parts /\ (part + 1) - 1 = part
      BY <1>w, <2>3, <2>6
    <3>3. WorkInv'
      <4>1. \A n \in Numbers : n > taken => n # taken
        BY <1>w
      <4>2. \A n \in Numbers : n > taken => Offered(n)' = {} /\ outcome[n] = "none"
        BY <1>0, <2>2, <4>1 DEF WorkInv
      <4> QED
        BY <2>2, <2>3, <2>4, <2>5, <3>1, <3>2, <4>2 DEF WorkInv, AtWork
    <3>4. OfferedIsPrefix'
      <4> SUFFICES ASSUME NEW n \in 1..Len(accepted)
                   PROVE  /\ \E k \in 0..accepted[n].parts : Offered(n)' = 1..k
                          /\ outcome[n] = "ok" <=> Offered(n)' = 1..accepted[n].parts
                          /\ n > taken => Offered(n)' = {} /\ outcome[n] = "none"
        BY <2>4, <3>1 DEF OfferedIsPrefix
      <4>1. CASE n = taken
        <5>1. Offered(n)' = 1..part
          BY <2>4, <2>5, <4>1 DEF Offered, Parts, Declined
        <5>2. part \in 0..accepted[n].parts
          BY <1>w, <2>3, <4>1
        <5>3. part + 1 \in 1..accepted[n].parts /\ part + 1 \notin 1..part
          BY <1>w, <2>3, <3>2, <4>1
        <5> QED
          BY <1>w, <2>3, <4>1, <5>1, <5>2, <5>3
      <4>2. CASE n # taken
        BY <1>0, <1>w, <2>2, <4>2 DEF OfferedIsPrefix
      <4> QED
        BY <4>1, <4>2
    <3> QED
      BY <1>t, <2>2, <3>3, <3>4 DEF ThreadInv
  <2>7. CASE ~(part < accepted[taken].parts)
    <3>1. Finish("ok")
      BY <2>1, <2>7 DEF NextPart
    <3>2. part = accepted[taken].parts
      BY <1>w, <2>3, <2>7
    <3>3. \E k \in 0..accepted[taken].parts : Offered(taken)' = 1..k
      BY <2>3, <2>5, <3>2
    <3>4. \A n \in Numbers : n # taken => Offered(n)' = Offered(n)
      BY <2>2
    <3>5. WorkInv' /\ OfferedIsPrefix'
      BY <1>5, <2>1, <2>2, <2>5, <3>1, <3>2, <3>3, <3>4
    <3> QED
      BY <1>t, <2>2, <3>5 DEF ThreadInv
  <2> QED
    BY <2>6, <2>7
<1>8. CASE UNCHANGED vars
  BY <1>2, <1>8 DEF AtWork
<1> QED
  BY <1>1, <1>3, <1>4, <1>6, <1>7, <1>8 DEF Next

-----------------------------------------------------------------------------
(* The theorems.                                                           *)

LEMMA ThreadInit == Init => ThreadInv
<1> SUFFICES ASSUME Init PROVE ThreadInv
  OBVIOUS
<1>1. Len(started) = 0 /\ Len(accepted) = 0
  BY DEF Init
<1>2. \A n : Offered(n) = {} /\ Parts(n) = {}
  BY <1>1 DEF Init, Offered, Parts, Declined
<1>3. WorkInv
  BY <1>1, <1>2 DEF Init, WorkInv, AtWork
<1>4. StartedInOrder /\ OfferedIsPrefix
  BY <1>1 DEF StartedInOrder, OfferedIsPrefix
<1> QED
  BY <1>3, <1>4, TypeInit DEF ThreadInv

\* The inductive invariant of the thread holds in every reachable state.
THEOREM ThreadInvariance == Spec => []ThreadInv
<1>1. ThreadInv /\ [Next]_vars => ThreadInv'
  BY ThreadStep
<1> QED
  BY <1>1, ThreadInit, PTL DEF Spec

\* Every reachable state of the queue and the thread is well-typed: the thread
\* never receives more than was queued, nor counts past an action's files.
THEOREM ThreadTypeCorrect == Spec => []TypeOK
<1>1. ThreadInv => TypeOK
  BY DEF ThreadInv
<1> QED
  BY <1>1, ThreadInvariance, PTL

\* The manager takes the parts of all actions in the order of the queue, and
\* none twice, whatever calls fail or are repeated.
THEOREM StartOrderTheorem == Spec => []StartedInOrder
<1>1. ThreadInv => StartedInOrder
  BY DEF ThreadInv
<1> QED
  BY <1>1, ThreadInvariance, PTL

\* The files of an action that were started and those that the manager declined
\* in a result are different ones and together its first files, all of them
\* exactly when process reports success; nothing of a queued action is offered.
THEOREM StartTheorem == Spec => []StartedUnlessDeclined
<1>1. ASSUME ThreadInv PROVE StartedUnlessDeclined
  <2>1. 1..Len(accepted) \subseteq Numbers
    BY <1>1, WorkType DEF ThreadInv
  <2> QED
    BY <1>1, <2>1 DEF ThreadInv, WorkInv, OfferedIsPrefix, StartedUnlessDeclined
<1> QED
  BY <1>1, ThreadInvariance, PTL

-----------------------------------------------------------------------------
(* Thread and store.                                                       *)

SP == INSTANCE MediaStoreProofs WITH queued <- Queued, receiver <- Receiver

OwnerInv ==
    /\ owner \in Seq(Uploads \cup {NoUpload}) /\ Len(owner) = Len(accepted)
    /\ ~running => accepted = <<>> /\ thread = "attach"
    /\ \A n \in 1..Len(accepted) : owner[n] # NoUpload =>
        /\ job[owner[n]].phase = "done"
        /\ accepted[n].kind = "SendMedia" => accepted[n].parts = job[owner[n]].count

DeliveryInv == SP!IInv /\ ThreadInv /\ OwnerInv

-----------------------------------------------------------------------------
(* The two instances of MediaStore are one and the same.                   *)

LEMMA SameInit == Store!Init <=> SP!Init
  BY Zenon DEF Store!Init, SP!Init, Store!Files, SP!Files, Store!NoFile, SP!NoFile

LEMMA SameNext == [Store!Next]_(Store!vars) <=> [SP!Next]_(SP!vars)
  BY Zenon DEF Store!vars, SP!vars, Store!jobVars, SP!jobVars, Store!fileVars,
     SP!fileVars, Store!sendVars, SP!sendVars, Store!cleanVars, SP!cleanVars,
     Store!histVars, SP!histVars, Store!Next, SP!Next, Store!Begin, SP!Begin,
     Store!Accept, SP!Accept, Store!Refuse, SP!Refuse, Store!Cancel,
     SP!Cancel, Store!WriteBegin, SP!WriteBegin, Store!WriteEnd, SP!WriteEnd,
     Store!WriteError, SP!WriteError, Store!EmptyFile, SP!EmptyFile,
     Store!FileMetadata, SP!FileMetadata, Store!Chunk, SP!Chunk,
     Store!ChunkError, SP!ChunkError, Store!Land, SP!Land, Store!LandError,
     SP!LandError, Store!Attach, SP!Attach, Store!AttachError, SP!AttachError,
     Store!Process, SP!Process, Store!MessengerOpens, SP!MessengerOpens,
     Store!ScanStart, SP!ScanStart, Store!Visit, SP!Visit, Store!Remove,
     SP!Remove, Store!RemoveError, SP!RemoveError, Store!ScanEnd, SP!ScanEnd,
     Store!Tick, SP!Tick, Store!Crash, SP!Crash, Store!Restart, SP!Restart,
     Store!HandlersGone, SP!HandlersGone, Store!RemoveStored, SP!RemoveStored,
     Store!Touch, SP!Touch, Store!Open, SP!Open, Store!Stored, SP!Stored,
     Store!Files, SP!Files, Store!NoFile, SP!NoFile, Store!Unawaited,
     SP!Unawaited

LEMMA SameNeeded == Store!NeededFilesStay <=> SP!NeededFilesStay
  BY Zenon DEF Store!NeededFilesStay, SP!NeededFilesStay, Store!QueuedFiles,
     SP!QueuedFiles, Store!FilesOf, SP!FilesOf

-----------------------------------------------------------------------------
(* The queue as the store sees it.                                         *)

LEMMA QueuedFact ==
  ASSUME NEW x
  PROVE  x \in Queued <=> /\ thread # "stopped" /\ x # NoUpload
                          /\ \E n \in 1..Len(accepted) :
                               outcome[n] = "none" /\ owner[n] = x
  BY DEF Queued

LEMMA QueuedNext ==
  ASSUME NEW x
  PROVE  x \in Queued' <=> /\ thread' # "stopped" /\ x # NoUpload
                           /\ \E n \in 1..Len(accepted') :
                                outcome'[n] = "none" /\ owner'[n] = x
  BY DEF Queued

\* A step of the thread that finishes no action.
LEMMA QueuedSame ==
  ASSUME UNCHANGED <<accepted, owner, outcome>>,
         thread # "stopped", thread' # "stopped"
  PROVE  Queued' = Queued
<1>1. ASSUME NEW x PROVE x \in Queued' <=> x \in Queued
  BY QueuedFact, QueuedNext
<1> QED
  BY <1>1

\* A step of the thread that finishes the action at work, or may.
LEMMA QueuedFinish ==
  ASSUME DeliveryInv, AtWork, thread' # "stopped", UNCHANGED <<accepted, owner>>,
         \/ outcome' = outcome
         \/ \E r \in {"ok", "err"} : outcome' = [outcome EXCEPT ![taken] = r]
  PROVE  /\ taken \in 1..Len(accepted)
         /\ Queued' = Queued \/ Queued' = Queued \ {owner[taken]}
         /\ owner[taken] # NoUpload => owner[taken] \in Queued
<1>1. taken \in 1..Len(accepted) /\ outcome[taken] = "none" /\ thread # "stopped"
  BY DEF DeliveryInv, ThreadInv, WorkInv, AtWork
<1>2. outcome \in [Numbers -> {"none", "ok", "err"}] /\ 1..Len(accepted) \subseteq Numbers
  BY WorkType DEF DeliveryInv, ThreadInv, TypeOK
<1>3. \A n \in 1..Len(accepted) : outcome'[n] = "none" => outcome[n] = "none"
  BY <1>1, <1>2
<1>4. \A n \in 1..Len(accepted) : n # taken => outcome'[n] = outcome[n]
  BY <1>1, <1>2
<1>5. Queued' \subseteq Queued
  BY <1>1, <1>3, QueuedFact, QueuedNext
<1>6. Queued \ {owner[taken]} \subseteq Queued'
  BY <1>1, <1>4, QueuedFact, QueuedNext
<1>7. owner[taken] # NoUpload => owner[taken] \in Queued
  BY <1>1, QueuedFact
<1> QED
  BY <1>1, <1>5, <1>6, <1>7

\* A new action at the end of the queue.
LEMMA QueuedAppend ==
  ASSUME DeliveryInv, NEW action \in Actions, NEW o \in Uploads \cup {NoUpload},
         Enqueue(action), owner' = Append(owner, o)
  PROVE  /\ Queued' = Queued \cup ({o} \ {NoUpload})
         /\ Len(accepted') = Len(accepted) + 1 /\ Len(owner') = Len(accepted')
         /\ \A n \in 1..Len(accepted) : accepted'[n] = accepted[n] /\ owner'[n] = owner[n]
         /\ accepted'[Len(accepted) + 1] = action /\ owner'[Len(accepted) + 1] = o
         /\ owner' \in Seq(Uploads \cup {NoUpload})
<1>1. /\ accepted \in Seq(Actions) /\ accepted' = Append(accepted, action)
      /\ owner \in Seq(Uploads \cup {NoUpload}) /\ Len(owner) = Len(accepted)
      /\ thread # "stopped" /\ Len(accepted) < MaxActions
      /\ UNCHANGED <<thread, outcome>>
  BY DEF DeliveryInv, ThreadInv, TypeOK, OwnerInv, Enqueue
<1>2. /\ Len(accepted') = Len(accepted) + 1
      /\ \A n \in 1..Len(accepted) : accepted'[n] = accepted[n]
      /\ accepted'[Len(accepted) + 1] = action
  BY <1>1, AppendProperties
<1>3. /\ Len(owner') = Len(owner) + 1 /\ owner' \in Seq(Uploads \cup {NoUpload})
      /\ \A n \in 1..Len(owner) : owner'[n] = owner[n]
      /\ owner'[Len(owner) + 1] = o
  BY <1>1, AppendProperties
<1>4. outcome[Len(accepted) + 1] = "none"
  <2>1. Len(accepted) + 1 \in Numbers /\ Len(accepted) + 1 > taken
    BY <1>1, WorkType, ActionConstants DEF Numbers, DeliveryInv, ThreadInv
  <2> QED
    BY <2>1 DEF DeliveryInv, ThreadInv, WorkInv
<1>5. /\ Len(accepted) \in Nat
      /\ \A n \in 1..Len(accepted') : n \in 1..Len(accepted) \/ n = Len(accepted) + 1
      /\ Len(accepted) + 1 \in 1..Len(accepted')
      /\ \A n \in 1..Len(accepted) : n \in 1..Len(accepted')
  <2>1. Len(accepted) \in Nat
    BY <1>1
  <2> QED
    BY <1>2, <2>1
<1>6. \A x : x \in Queued' <=> x \in Queued \/ (x = o /\ x # NoUpload)
  BY <1>1, <1>2, <1>3, <1>4, <1>5, QueuedFact, QueuedNext
<1> QED
  BY <1>1, <1>2, <1>3, <1>6

-----------------------------------------------------------------------------
(* The thread's part of a step.                                            *)

LEMMA JobCount ==
  ASSUME DeliveryInv, NEW u \in Uploads
  PROVE  /\ job \in [Uploads -> SP!Jobs]
         /\ job[u].count \in 0..MaxFiles
         /\ job[u].phase # "new" => job[u].count \in 1..MaxParts
<1>1. SP!TypeOK /\ SP!JobInv(u)
  BY DEF DeliveryInv, SP!IInv, SP!UploadInv
<1>2. job \in [Uploads -> SP!Jobs] /\ job[u].count \in 0..MaxFiles
  BY <1>1, DeliveryConstants, SP!JobFact DEF SP!TypeOK
<1>3. job[u].phase # "new" => job[u].count > 0
  BY <1>1 DEF SP!JobInv
<1> QED
  BY <1>2, <1>3, DeliveryConstants, ActionConstants

\* The action that an upload becomes.
ActionOf(u, multiple) ==
    IF multiple THEN [kind |-> "SendMediaMultiple", parts |-> 1]
    ELSE [kind |-> "SendMedia", parts |-> job[u].count]

LEMMA AcceptFact ==
  ASSUME DeliveryInv, NEW u \in Uploads, NEW multiple \in BOOLEAN, Accept(u, multiple)
  PROVE  /\ ActionOf(u, multiple) \in Actions
         /\ Enqueue(ActionOf(u, multiple)) /\ owner' = Append(owner, u)
<1>1. job[u].count \in 1..MaxParts
  BY JobCount DEF Accept, StoredAll
<1> QED
  BY <1>1, ActionConstants DEF Accept, ActionOf, Actions, Kinds

LEMMA ReplyFact == [kind |-> "Reply", parts |-> 1] \in Actions
  BY ActionConstants DEF Actions, Kinds

LEMMA ThreadInitNext == Init' => ThreadInv'
  BY ThreadInit, PTL

LEMMA ThreadPart ==
  ASSUME DeliveryInv, [DeliveryNext]_deliveryVars
  PROVE  ThreadInv'
<1> USE DEF threadVars
<1>0. ThreadInv
  BY DEF DeliveryInv
<1>1. CASE UNCHANGED vars
  BY <1>0, <1>1, ThreadStep
<1>2. ASSUME NEW u \in Uploads, NEW multiple \in BOOLEAN, Accept(u, multiple)
      PROVE  ThreadInv'
  BY <1>0, <1>2, AcceptFact, ThreadStep DEF Next
<1>3. ASSUME NEW u \in Uploads, Refuse(u) PROVE ThreadInv'
  BY <1>0, <1>3, ThreadStep DEF Refuse, Next
<1>4. CASE Quiet
  BY <1>0, <1>4, ThreadStep DEF Quiet, Next
<1>5. CASE EnqueueOther
  BY <1>0, <1>5, ReplyFact, ThreadStep DEF EnqueueOther, Next
<1>6. CASE Deliver
  BY <1>0, <1>6, ThreadStep DEF Deliver, Next
<1>7. CASE Crash
  <2>1. Init'
    BY <1>7 DEF Crash, ThreadGone, Init
  <2> QED
    BY <2>1, ThreadInitNext
<1> QED
  BY <1>1, <1>2, <1>3, <1>4, <1>5, <1>6, <1>7
     DEF DeliveryNext, deliveryVars, Upload, Disk, Cleanup, Restart

-----------------------------------------------------------------------------
(* Every step is a step of the store, or none of it.                       *)

LEMMA StoreStep ==
  ASSUME DeliveryInv, [DeliveryNext]_deliveryVars
  PROVE  [Store!Next]_(Store!vars)
<1> USE DEF Store!vars, Store!jobVars, Store!fileVars, Store!sendVars,
            Store!cleanVars, Store!histVars, writeVars, cleanVars
<1>0. ThreadInv /\ OwnerInv /\ TypeOK /\ WorkInv
  BY DEF DeliveryInv, ThreadInv
<1>1. UNCHANGED threadVars => Queued' = Queued /\ (running' = running => Receiver' = Receiver)
  BY DEF threadVars, vars, Queued, Receiver
<1>2. ASSUME NEW u \in Uploads, Upload(u) PROVE Store!Next
  BY <1>2 DEF Upload, Store!Next
<1>3. ASSUME NEW f \in Uploads \X (1..MaxFiles), Disk(f) PROVE Store!Next
  BY <1>3 DEF Disk, Store!Next, Store!Files
<1>4. CASE Cleanup
  BY <1>4 DEF Cleanup, Store!Next
<1>5. ASSUME NEW u \in Uploads, NEW multiple \in BOOLEAN, Accept(u, multiple)
      PROVE  Store!Next
  <2>1. /\ running /\ thread # "stopped"
        /\ job[u].phase = "open" /\ job[u].left = 0 /\ job[u].stored = job[u].count
        /\ job' = [job EXCEPT ![u].phase = "done"]
        /\ UNCHANGED <<running, thread, writeVars, handed, cleanVars>>
    BY <1>5 DEF Accept, StoredAll, Enqueue
  <2>2. Queued' = Queued \cup {u}
    <3>1. Queued' = Queued \cup ({u} \ {NoUpload})
      BY <1>5, AcceptFact, QueuedAppend
    <3> QED
      BY <3>1, DeliveryConstants
  <2>3. Receiver # "gone" /\ Receiver' = Receiver
    BY <2>1 DEF Receiver
  <2>4. Store!Accept(u)
    BY <2>1, <2>2, <2>3 DEF Store!Accept
  <2> QED
    BY <2>4 DEF Store!Next
<1>6. ASSUME NEW u \in Uploads, Refuse(u) PROVE Store!Next
  <2>1. /\ running /\ thread = "stopped"
        /\ UNCHANGED <<accepted, outcome, owner, running, thread>>
    BY <1>6 DEF Refuse, StoredAll, EnqueueError
  <2>2. Queued' = Queued /\ Receiver = "gone" /\ Receiver' = Receiver
    BY <2>1 DEF Queued, Receiver
  <2>3. Store!Refuse(u)
    BY <1>6, <2>1, <2>2 DEF Refuse, StoredAll, Store!Refuse
  <2> QED
    BY <2>3 DEF Store!Next
<1>7. CASE EnqueueOther
  <2>1. /\ running /\ UNCHANGED <<running, thread, job, writeVars, handed, cleanVars>>
    BY <1>7 DEF EnqueueOther, Enqueue
  <2>2. Queued' = Queued
    <3>1. Queued' = Queued \cup ({NoUpload} \ {NoUpload})
      BY <1>7, ReplyFact, QueuedAppend DEF EnqueueOther
    <3> QED
      BY <3>1
  <2>3. Receiver' = Receiver
    BY <2>1 DEF Receiver
  <2> QED
    BY <2>1, <2>2, <2>3
<1>8. ASSUME AtWork, thread' # "stopped", thread' # "attach", running,
             UNCHANGED <<accepted, owner, running, job, writeVars, cleanVars>>,
             \/ outcome' = outcome
             \/ \E r \in {"ok", "err"} : outcome' = [outcome EXCEPT ![taken] = r],
             handed' = handed \/ handed' = handed \cup FilesOfPart(taken, part)
      PROVE  [Store!Next]_(Store!vars)
  <2>1. /\ taken \in 1..Len(accepted)
        /\ Queued' = Queued \/ Queued' = Queued \ {owner[taken]}
        /\ owner[taken] # NoUpload => owner[taken] \in Queued
    BY <1>8, QueuedFinish
  <2>2. Receiver = "up" /\ Receiver' = "up"
    BY <1>8 DEF Receiver, AtWork
  <2>3. CASE owner[taken] = NoUpload
    <3>1. handed' = handed
      BY <1>8, <2>3 DEF FilesOfPart
    <3>2. Queued' = Queued
      <4>1. NoUpload \notin Queued
        BY QueuedFact
      <4> QED
        BY <2>1, <2>3, <4>1
    <3> QED
      BY <1>8, <2>2, <3>1, <3>2
  <2>4. CASE owner[taken] # NoUpload
    <3> DEFINE u == owner[taken]
    <3>1. u \in Uploads
      <4>1. owner[taken] \in Uploads \cup {NoUpload}
        BY <1>0, <2>1 DEF OwnerInv
      <4> QED
        BY <2>4, <4>1
    <3>2. job[u].count \in Nat
      BY <3>1, JobCount, DeliveryConstants
    <3>3. \E i, j \in 0..job[u].count :
            handed' = handed \cup {<<u, k>> : k \in (i + 1)..j}
      <4>1. CASE handed' = handed
        <5>1. {<<u, k>> : k \in (0 + 1)..0} = {}
          OBVIOUS
        <5> QED
          BY <3>2, <4>1, <5>1
      <4>2. CASE accepted[taken].kind = "SendMedia"
                 /\ handed' = handed \cup FilesOfPart(taken, part)
        <5>1. part <= job[u].count /\ part \in Nat /\ part >= 1
          BY <1>0, <1>8, <2>1, <2>4, <4>2, WorkType DEF OwnerInv, WorkInv
        <5>2. part - 1 \in 0..job[u].count /\ part \in 0..job[u].count
          BY <3>2, <5>1
        <5>3. ((part - 1) + 1)..part = {part}
          BY <5>1
        <5>4. {<<u, k>> : k \in ((part - 1) + 1)..part} = {<<u, part>>}
          BY <5>3
        <5>5. handed' = handed \cup {<<u, k>> : k \in ((part - 1) + 1)..part}
          BY <2>4, <4>2, <5>4 DEF FilesOfPart
        <5> QED
          BY <5>2, <5>5
      <4>3. CASE accepted[taken].kind # "SendMedia"
                 /\ handed' = handed \cup FilesOfPart(taken, part)
        <5>1. handed' = handed \cup {<<u, k>> : k \in (0 + 1)..job[u].count}
          BY <2>4, <4>3 DEF FilesOfPart
        <5>2. 0 \in 0..job[u].count /\ job[u].count \in 0..job[u].count
          BY <3>2
        <5> QED
          BY <5>1, <5>2
      <4> QED
        BY <1>8, <4>1, <4>2, <4>3
    <3>4. Store!Process(u)
      BY <1>8, <2>1, <2>2, <2>4, <3>3 DEF Store!Process
    <3> QED
      BY <3>1, <3>4 DEF Store!Next
  <2> QED
    BY <2>3, <2>4
<1>9. CASE Quiet
  <2>0. running /\ UNCHANGED <<owner, running, job, writeVars, handed, cleanVars>>
    BY <1>9 DEF Quiet
  <2>1. CASE Attach
    <3>1. Queued' = Queued /\ Receiver = "attaching" /\ Receiver' = "up"
      BY <2>0, <2>1, QueuedSame DEF Attach, Receiver
    <3>2. Store!Attach
      BY <2>0, <3>1 DEF Store!Attach
    <3> QED
      BY <3>2 DEF Store!Next
  <2>2. CASE AttachError
    <3>1. Queued' = {} /\ Receiver = "attaching" /\ Receiver' = "gone"
      BY <2>0, <2>2 DEF AttachError, Queued, Receiver
    <3>2. Store!AttachError
      BY <2>0, <3>1 DEF Store!AttachError
    <3> QED
      BY <3>2 DEF Store!Next
  <2>3. CASE Receive
    <3>1. Queued' = Queued /\ Receiver' = Receiver
      BY <2>0, <2>3, QueuedSame DEF Receive, Receiver
    <3> QED
      BY <2>0, <3>1
  <2>4. CASE Build \/ CallError
    BY <1>8, <2>0, <2>4 DEF Build, CallError, AtWork
  <2>5. CASE BuildError \/ FallbackError
    <3>1. AtWork /\ Finish("err")
      BY <2>5 DEF BuildError, FallbackError, Abandon, AtWork
    <3> QED
      BY <1>8, <2>0, <3>1 DEF Finish
  <2>6. CASE CallDeclined \/ FallbackDeclined
    <3>1. AtWork /\ NextPart
      BY <2>6 DEF CallDeclined, FallbackDeclined, PartDeclined, AtWork
    <3> QED
      BY <1>8, <2>0, <3>1 DEF NextPart, Finish
  <2> QED
    BY <1>9, <2>1, <2>2, <2>3, <2>4, <2>5, <2>6 DEF Quiet
<1>10. CASE Deliver
  <2>1. /\ running /\ AtWork /\ PartStarted
        /\ handed' = handed \cup FilesOfPart(taken, part)
        /\ UNCHANGED <<owner, running, job, writeVars, cleanVars>>
    BY <1>10 DEF Deliver, Call, Fallback, AtWork
  <2>2. CASE part < accepted[taken].parts
    BY <1>8, <2>1, <2>2 DEF PartStarted, NextPart
  <2>3. CASE ~(part < accepted[taken].parts)
    BY <1>8, <2>1, <2>3 DEF PartStarted, NextPart, Finish
  <2> QED
    BY <2>2, <2>3
<1>11. CASE Crash
  <2>0. /\ accepted' = <<>> /\ thread' = "attach" /\ running' = FALSE
    BY <1>11 DEF Crash, ThreadGone
  <2>1. Queued' = {} /\ Receiver' = "gone"
    <3>1. Receiver' = "gone"
      BY <2>0 DEF Receiver
    <3>2. Len(accepted') = 0
      BY <2>0
    <3>3. 1..Len(accepted') = {}
      BY <3>2
    <3> QED
      BY <3>1, <3>3, QueuedNext
  <2>2. Store!Crash
    BY <1>11, <2>1 DEF Crash, Store!Crash
  <2> QED
    BY <2>2 DEF Store!Next
<1>12. CASE Restart
  <2>1. Queued' = Queued /\ Receiver' = "attaching"
    BY <1>0, <1>1, <1>12 DEF Restart, OwnerInv, Receiver, threadVars, vars
  <2>2. Store!Restart
    BY <1>12, <2>1 DEF Restart, Store!Restart
  <2> QED
    BY <2>2 DEF Store!Next
<1>13. CASE UNCHANGED deliveryVars
  BY <1>1, <1>13 DEF deliveryVars
<1> QED
  BY <1>2, <1>3, <1>4, <1>5, <1>6, <1>7, <1>9, <1>10, <1>11, <1>12, <1>13
     DEF DeliveryNext

-----------------------------------------------------------------------------
(* An action and its upload.                                               *)

\* Uploads that are done stay as they are.
LEMMA DoneStays ==
  ASSUME DeliveryInv, NEW u \in Uploads, job[u].phase = "done",
         NEW v \in Uploads, Upload(v) \/ Refuse(v)
         \/ \E multiple \in BOOLEAN : Accept(v, multiple)
  PROVE  job'[u] = job[u]
<1>1. job \in [Uploads -> SP!Jobs]
  BY JobCount
<1>2. job[v].phase \in {"new", "open"} \/ job' = job
  BY DEF Upload, Refuse, Accept, StoredAll, Store!Begin, Store!Cancel,
     Store!WriteBegin, Store!WriteEnd, Store!WriteError, Store!EmptyFile,
     Store!FileMetadata, Store!Chunk, Store!ChunkError, Store!Open
<1>3. \A w \in Uploads : w # v => job'[w] = job[w]
  BY <1>1 DEF Upload, Refuse, Accept, StoredAll, Store!Begin, Store!Cancel,
     Store!WriteBegin, Store!WriteEnd, Store!WriteError, Store!EmptyFile,
     Store!FileMetadata, Store!Chunk, Store!ChunkError
<1> QED
  BY <1>2, <1>3

\* A step that enqueues nothing.
LEMMA OwnerStill ==
  ASSUME DeliveryInv, UNCHANGED <<accepted, owner>>,
         running \/ thread' = thread, running => running',
         \A u \in Uploads : job[u].phase = "done" => job'[u] = job[u]
  PROVE  OwnerInv'
<1>1. OwnerInv
  BY DEF DeliveryInv
<1>2. ~running' => accepted' = <<>> /\ thread' = "attach"
  BY <1>1 DEF OwnerInv
<1>3. \A n \in 1..Len(accepted) : owner[n] # NoUpload => owner[n] \in Uploads
  <2>1. \A n \in 1..Len(accepted) : owner[n] \in Uploads \cup {NoUpload}
    BY <1>1 DEF OwnerInv
  <2> QED
    BY <2>1
<1>4. \A n \in 1..Len(accepted') : owner'[n] # NoUpload =>
        /\ job'[owner'[n]].phase = "done"
        /\ accepted'[n].kind = "SendMedia" => accepted'[n].parts = job'[owner'[n]].count
  BY <1>1, <1>3 DEF OwnerInv
<1> QED
  BY <1>1, <1>2, <1>4 DEF OwnerInv

LEMMA OwnerStep ==
  ASSUME DeliveryInv, [DeliveryNext]_deliveryVars
  PROVE  OwnerInv'
<1>0. OwnerInv
  BY DEF DeliveryInv
<1>1. ASSUME NEW u \in Uploads, Upload(u) PROVE OwnerInv'
  <2>1. UNCHANGED <<accepted, owner, thread>> /\ running' = running
    BY <1>1 DEF Upload, threadVars, vars, Store!Begin, Store!Cancel,
       Store!WriteBegin, Store!WriteEnd, Store!WriteError, Store!EmptyFile,
       Store!FileMetadata, Store!Chunk, Store!ChunkError
  <2> QED
    BY <1>1, <2>1, DoneStays, OwnerStill
<1>2. ASSUME NEW u \in Uploads, Refuse(u) PROVE OwnerInv'
  <2>1. UNCHANGED <<accepted, owner, thread, running>>
    BY <1>2 DEF Refuse, EnqueueError
  <2> QED
    BY <1>2, <2>1, DoneStays, OwnerStill
<1>3. CASE Cleanup \/ \E f \in Uploads \X (1..MaxFiles) : Disk(f)
  <2>1. UNCHANGED <<accepted, owner, thread, running, job>>
    BY <1>3 DEF Cleanup, Disk, threadVars, vars, Store!jobVars, Store!ScanStart,
       Store!Remove, Store!RemoveError, Store!ScanEnd, Store!Tick, Store!Land,
       Store!LandError, Store!MessengerOpens, Store!Visit
  <2> QED
    BY <2>1, OwnerStill
<1>4. CASE Quiet \/ Deliver
  <2>1. running /\ UNCHANGED <<accepted, owner, running, job>>
    BY <1>4 DEF Quiet, Deliver, Attach, AttachError, Receive, Build, BuildError,
       CallDeclined, CallError, FallbackDeclined, FallbackError, Abandon, Call,
       Fallback, PartStarted, PartDeclined, NextPart, Finish
  <2> QED
    BY <2>1, OwnerStill
<1>5. CASE EnqueueOther
  <2> DEFINE action == [kind |-> "Reply", parts |-> 1]
  <2>1. /\ running /\ running' = running /\ job' = job
        /\ Enqueue(action) /\ owner' = Append(owner, NoUpload)
    BY <1>5 DEF EnqueueOther
  <2>2. action \in Actions
    BY ReplyFact
  <2> HIDE DEF action
  <2>3. /\ Len(accepted') = Len(accepted) + 1 /\ Len(owner') = Len(accepted')
        /\ \A n \in 1..Len(accepted) : accepted'[n] = accepted[n] /\ owner'[n] = owner[n]
        /\ owner'[Len(accepted) + 1] = NoUpload
        /\ owner' \in Seq(Uploads \cup {NoUpload})
    BY <2>1, <2>2, QueuedAppend
  <2>4. \A n \in 1..Len(accepted') : owner'[n] # NoUpload => n \in 1..Len(accepted)
    BY <2>3, WorkType DEF DeliveryInv, ThreadInv
  <2> QED
    BY <1>0, <2>1, <2>3, <2>4 DEF OwnerInv
<1>6. ASSUME NEW u \in Uploads, NEW multiple \in BOOLEAN, Accept(u, multiple)
      PROVE  OwnerInv'
  <2> DEFINE action == ActionOf(u, multiple)
  <2>1. /\ running /\ running' = running
        /\ job' = [job EXCEPT ![u].phase = "done"]
    BY <1>6 DEF Accept, StoredAll
  <2>2. action \in Actions /\ Enqueue(action) /\ owner' = Append(owner, u)
    BY <1>6, AcceptFact
  <2>3. /\ Len(accepted') = Len(accepted) + 1 /\ Len(owner') = Len(accepted')
        /\ \A n \in 1..Len(accepted) : accepted'[n] = accepted[n] /\ owner'[n] = owner[n]
        /\ accepted'[Len(accepted) + 1] = action /\ owner'[Len(accepted) + 1] = u
        /\ owner' \in Seq(Uploads \cup {NoUpload})
    <3> HIDE DEF action
    <3> QED
      BY <2>2, QueuedAppend
  <2>4. \A n \in 1..Len(accepted') : n \in 1..Len(accepted) \/ n = Len(accepted) + 1
    BY <2>3, WorkType DEF DeliveryInv, ThreadInv
  <2>5. job'[u].phase = "done" /\ job'[u].count = job[u].count
    BY <2>1, JobCount DEF SP!Jobs
  <2>6. action.kind = "SendMedia" => action.parts = job'[u].count
    BY <2>5 DEF ActionOf
  <2>7. \A w \in Uploads : job[w].phase = "done" => job'[w] = job[w]
    BY <1>6, DoneStays
  <2>8. \A n \in 1..Len(accepted) : owner[n] # NoUpload => owner[n] \in Uploads
    <3>1. \A n \in 1..Len(accepted) : owner[n] \in Uploads \cup {NoUpload}
      BY <1>0 DEF OwnerInv
    <3> QED
      BY <3>1
  <2> HIDE DEF action
  <2>9. ASSUME NEW n \in 1..Len(accepted'), owner'[n] # NoUpload
        PROVE  /\ job'[owner'[n]].phase = "done"
               /\ accepted'[n].kind = "SendMedia" =>
                    accepted'[n].parts = job'[owner'[n]].count
    <3>1. CASE n \in 1..Len(accepted)
      BY <1>0, <2>3, <2>7, <2>8, <2>9, <3>1 DEF OwnerInv
    <3>2. CASE n = Len(accepted) + 1
      BY <2>3, <2>5, <2>6, <3>2
    <3> QED
      BY <2>4, <3>1, <3>2
  <2> QED
    BY <2>1, <2>3, <2>9 DEF OwnerInv
<1>7. CASE Crash
  <2>1. accepted' = <<>> /\ owner' = <<>> /\ thread' = "attach"
    BY <1>7 DEF Crash, ThreadGone
  <2>2. Len(accepted') = 0 /\ Len(owner') = 0 /\ owner' \in Seq(Uploads \cup {NoUpload})
    BY <2>1
  <2>3. 1..Len(accepted') = {}
    BY <2>2
  <2> QED
    BY <2>1, <2>2, <2>3 DEF OwnerInv
<1>8. CASE Restart
  <2>1. UNCHANGED <<accepted, owner, thread, job>> /\ running'
    BY <1>8 DEF Restart, threadVars, vars
  <2> QED
    BY <2>1, OwnerStill
<1>9. CASE UNCHANGED deliveryVars
  <2>1. UNCHANGED <<accepted, owner, thread, running, job>>
    BY <1>9 DEF deliveryVars, threadVars, vars
  <2> QED
    BY <2>1, OwnerStill
<1> QED
  BY <1>1, <1>2, <1>3, <1>4, <1>5, <1>6, <1>7, <1>8, <1>9 DEF DeliveryNext

-----------------------------------------------------------------------------
LEMMA DeliveryInvInit == DeliveryInit => DeliveryInv
<1> SUFFICES ASSUME DeliveryInit PROVE DeliveryInv
  OBVIOUS
<1>1. SP!IInv
  BY SameInit, SP!InvInit, DeliveryConstants DEF DeliveryInit
<1>2. ThreadInv
  BY ThreadInit DEF DeliveryInit
<1>3. accepted = <<>> /\ owner = <<>> /\ running
  BY DEF DeliveryInit, Init, Store!Init
<1>4. OwnerInv
  <2>1. Len(accepted) = 0 /\ Len(owner) = 0 /\ owner \in Seq(Uploads \cup {NoUpload})
    BY <1>3
  <2>2. 1..Len(accepted) = {}
    BY <2>1
  <2> QED
    BY <1>3, <2>1, <2>2 DEF OwnerInv
<1> QED
  BY <1>1, <1>2, <1>4 DEF DeliveryInv

LEMMA DeliveryInvStep == DeliveryInv /\ [DeliveryNext]_deliveryVars => DeliveryInv'
<1> SUFFICES ASSUME DeliveryInv, [DeliveryNext]_deliveryVars PROVE DeliveryInv'
  OBVIOUS
<1>1. SP!IInv /\ [SP!Next]_(SP!vars)
  BY StoreStep, SameNext DEF DeliveryInv
<1>2. SP!IInv'
  BY <1>1, SP!InvStep, DeliveryConstants
<1> QED
  BY <1>2, ThreadPart, OwnerStep DEF DeliveryInv

\* Whatever the order in which handlers enqueue, the thread works, files age
\* and the process crashes: an action in the queue has its upload done, and as
\* many parts as that upload has files, and both components keep what they
\* keep alone.
THEOREM DeliveryInvariance == DeliverySpec => []DeliveryInv
  BY DeliveryInvInit, DeliveryInvStep, PTL DEF DeliverySpec

\* The action thread as src/android/action.rs has it, with its queue and its
\* loop over the files, does to the media store only what MediaStore says: it
\* names files only of an action it has taken and not finished, takes each
\* action out of the queue once, and leaves no action behind a crash.
THEOREM StoreRefinement == DeliverySpec => ImplementsStore
<1>1. DeliveryInit => Store!Init
  BY DEF DeliveryInit
<1>2. DeliveryInv /\ [DeliveryNext]_deliveryVars => [Store!Next]_(Store!vars)
  BY StoreStep
<1> QED
  BY <1>1, <1>2, DeliveryInvariance, PTL DEF DeliverySpec, ImplementsStore, Store!Spec

\* A file that waits in the queue of the thread, behind other actions and the
\* files before it, or for the messenger to open it, is missing only if it
\* once lay unwritten for longer than RETENTION.
THEOREM DeliveredFilesTheorem == DeliverySpec => []NeededFilesStay
<1>1. DeliveryInv => NeededFilesStay
  BY SP!NeededLemma, SameNeeded, DeliveryConstants DEF DeliveryInv, NeededFilesStay
<1> QED
  BY <1>1, DeliveryInvariance, PTL
=============================================================================
