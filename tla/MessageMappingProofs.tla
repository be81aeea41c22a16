------------------------ MODULE MessageMappingProofs ------------------------
(***************************************************************************)
(* Proofs about the mapping of messages, for databases and pools of any    *)
(* size, any number of tasks, and any queries that fail.                   *)
(*                                                                         *)
(* The invariant tells of each stack that every frame is for a message     *)
(* that each one below it leads to (StackInv), and of each frame how much  *)
(* of its list it has been told (FrameInv).  From the first it follows     *)
(* that a stack grows higher than there are messages only in a circle of   *)
(* feeds; the second is what is left of PreviousIsRight while enrich_feed  *)
(* is still asking.                                                        *)
(***************************************************************************)
EXTENDS MessageMapping, FiniteSetTheorems, SequenceTheorems, WellFoundedInduction, TLAPS

\* The places on the list of the frame's message that have had their turn;
\* pending is the message that is being mapped for the last one, if there is one.
Turns(frame, pending) ==
    {i \in 1..Len(Ids(frame.msg)) : i < frame.next /\ (pending # {} => i + 1 # frame.next)}

FoundInv(frame, pending) ==
    /\ pending # {} => \E i \in 1..Len(Ids(frame.msg)) :
          /\ i + 1 = frame.next /\ pending = {Ids(frame.msg)[i]}
          /\ Ids(frame.msg)[i] # frame.msg
    /\ Placed(frame.found, Ids(frame.msg), Turns(frame, pending))
    /\ \A s \in ToSet(frame.found) : s.id # frame.msg /\ s.src = LastText(s.id)
    /\ \A i \in Turns(frame, pending) :
          LET id == Ids(frame.msg)[i]
          IN  \/ id = frame.msg \/ id \in deleted \/ LastText(id) = "none"
              \/ \E s \in ToSet(frame.found) : s.id = id

FrameInv(frame, pending) ==
    /\ frame.phase = "enrich" => FoundInv(frame, pending)
    /\ frame.phase # "enrich" => frame.next = 1 /\ frame.found = <<>> /\ pending = {}

Pending(frames, i) == IF i < Len(frames) THEN {frames[i + 1].msg} ELSE {}

\* m refers to k, directly or through other feeds.
Leads(m, k) == \E id \in Cited(m) : k \in Reachable(id)

\* The stack of a task that set out to map the message root.
StackInv(frames, root) ==
    /\ frames # <<>> => root \in Messages /\ frames[1].msg = root
    /\ \A i \in 1..Len(frames) :
          /\ frames[i].msg \in Reachable(root)
          /\ FrameInv(frames[i], Pending(frames, i))
    /\ \A i, j \in 1..Len(frames) : i < j => Leads(frames[i].msg, frames[j].msg)

\* What the event of message m tells is right.
ResultInv(snapshots, m) ==
    /\ Placed(snapshots, Ids(m), 1..Len(Ids(m)))
    /\ \A id \in ToSet(Ids(m)) :
          \/ FirstText(snapshots, id) = Told(m, id)
          \/ id \in deleted /\ FirstText(snapshots, id) = "none"

Excused(t) ==
    \/ t \in excuse
    \/ ~ChannelFound
    \/ \E m \in Reachable(target[t]) : ~Assembled(m)

TaskInv(t) ==
    /\ target[t] = 0 => stack[t] = <<>> /\ outcome[t] = "none"
    /\ target[t] # 0 => target[t] \in Messages
    /\ StackInv(stack[t], target[t]) /\ Len(stack[t]) <= StackDepth
    /\ outcome[t] = "ok" => target[t] # 0 /\ ResultInv(result[t], target[t])
    /\ outcome[t] = "error" => Excused(t)

TypeInv ==
    /\ db \in Inputs
    /\ deleted \in SUBSET Messages
    /\ holding \in SUBSET Tasks /\ IsFiniteSet(holding) /\ Cardinality(holding) <= PoolSize
    /\ stack \in [Tasks -> Seq(Frames)]
    /\ target \in [Tasks -> Messages \cup {0}]
    /\ outcome \in [Tasks -> {"none", "ok", "error"}]
    /\ result \in [Tasks -> Seq(Snapshots)]
    /\ overflow \in SUBSET Tasks
    /\ excuse \in SUBSET Tasks

OverflowInv ==
    \A t \in overflow :
        StackDepth < NumMessages \/ \E m \in Reachable(target[t]) : Circular(m)

IInv == TypeInv /\ OverflowInv /\ \A t \in Tasks : TaskInv(t)

-----------------------------------------------------------------------------
(* Numbers and sequences.                                                  *)

LEMMA MessagesAreNumbers == Messages \subseteq Nat
  BY MappingConstants DEF Messages

\* A set of numbers has a least one.
LEMMA MinFact ==
  ASSUME NEW ids, ids \subseteq Nat, ids # {}
  PROVE  Min(ids) \in ids /\ \A id \in ids : Min(ids) =< id
<1> DEFINE Older == OpToRel(<, Nat)
<1>2. \A k, n \in Nat : <<k, n>> \in Older <=> k < n
  BY DEF OpToRel
<1>3. IsWellFoundedOn(Older, Nat)
  BY NatLessThanWellFounded
<1> HIDE DEF Older
<1>4. PICK x \in ids : \A y \in ids : ~(<<y, x>> \in Older)
  BY <1>3, WFMin, Zenon
<1>5. \A y \in ids : x =< y
  <2>1. \A y \in ids : x \in Nat /\ y \in Nat /\ ~(y < x)
    BY <1>2, <1>4, Zenon
  <2> QED
    BY <2>1
<1> QED
  BY <1>5 DEF Min

LEMMA LastFact ==
  ASSUME NEW S, NEW s \in Seq(S), s # <<>>
  PROVE  /\ Len(s) \in Nat /\ Len(s) > 0 /\ Len(s) \in 1..Len(s)
         /\ Last(s) = s[Len(s)]
         /\ Front(s) \in Seq(S) /\ Len(Front(s)) = Len(s) - 1
         /\ \A i \in 1..(Len(s) - 1) : Front(s)[i] = s[i] /\ i \in 1..Len(s)
<1>1. Len(s) \in Nat /\ Len(s) > 0
  BY LenProperties, EmptySeq
<1>2. Len(s) - 1 \in Nat /\ Len(s) \in 1..Len(s)
  BY <1>1
<1>3. \A i \in 1..(Len(s) - 1) : s[i] \in S /\ i \in 1..Len(s)
  BY <1>1, ElementOfSeq
<1>4. /\ Front(s) \in Seq(S) /\ Len(Front(s)) = Len(s) - 1
      /\ \A i \in 1..(Len(s) - 1) : Front(s)[i] = s[i]
  <2>1. SubSeq(s, 1, Len(s) - 1) \in Seq(S)
    BY <1>1, <1>3, SubSeqProperties
  <2>2. \A i \in 1..(Len(s) - 1) : SubSeq(s, 1, Len(s) - 1)[i] = s[i]
    BY <1>1, <1>3, SubSeqProperties
  <2>3. Len(SubSeq(s, 1, Len(s) - 1)) = Len(s) - 1
    <3>1. CASE Len(s) = 1
      BY <3>1, <1>1, <1>3, SubSeqEmpty
    <3>2. CASE Len(s) > 1
      BY <3>2, <1>1, <1>3
    <3>3. \A n \in Nat : n > 0 => n = 1 \/ n > 1
      OBVIOUS
    <3> QED
      BY <1>1, <3>1, <3>2, <3>3, Zenon
  <2> QED
    BY <2>1, <2>2, <2>3 DEF Front
<1>5. Last(s) = s[Len(s)]
  BY DEF Last
<1> QED
  BY <1>1, <1>2, <1>3, <1>4, <1>5

\* The set of a sequence's elements, as the proofs use it.
LEMMA ToSetFact ==
  ASSUME NEW S, NEW s \in Seq(S)
  PROVE  /\ \A i \in 1..Len(s) : s[i] \in ToSet(s)
         /\ \A x \in ToSet(s) : x \in S /\ \E i \in 1..Len(s) : s[i] = x
  BY LenProperties DEF ToSet

LEMMA ToSetConcat ==
  ASSUME NEW S, NEW s \in Seq(S), NEW x \in S
  PROVE  /\ s \o <<x>> \in Seq(S) /\ Len(s \o <<x>>) = Len(s) + 1
         /\ \A i \in 1..Len(s) : (s \o <<x>>)[i] = s[i]
         /\ (s \o <<x>>)[Len(s) + 1] = x
         /\ ToSet(s \o <<x>>) = ToSet(s) \cup {x}
<1> DEFINE new == s \o <<x>>
<1>1. Len(s) \in Nat /\ <<x>> \in Seq(S) /\ Len(<<x>>) = 1 /\ <<x>>[1] = x
  OBVIOUS
<1>2. new \in Seq(S) /\ Len(new) = Len(s) + 1
  BY <1>1, ConcatProperties
<1>3. /\ \A i \in 1..Len(s) : new[i] = s[i]
      /\ new[Len(s) + 1] = x
  BY <1>1, ConcatProperties
<1> HIDE DEF new
<1>4. ToSet(new) = ToSet(s) \cup {x}
  <2>1. \A i \in 1..Len(new) : i \in 1..Len(s) \/ i = Len(s) + 1
    BY <1>1, <1>2
  <2>2. \A i \in 1..Len(s) : i \in 1..Len(new)
    BY <1>1, <1>2
  <2>3. Len(s) + 1 \in 1..Len(new)
    BY <1>1, <1>2
  <2>4. ASSUME NEW y \in ToSet(new) PROVE y \in ToSet(s) \cup {x}
    BY <1>2, <1>3, <2>1, <2>4, ToSetFact
  <2>5. ASSUME NEW y \in ToSet(s) PROVE y \in ToSet(new)
    BY <1>2, <1>3, <2>2, <2>5, ToSetFact
  <2>6. x \in ToSet(new)
    BY <1>2, <1>3, <2>3, ToSetFact
  <2> QED
    BY <2>4, <2>5, <2>6
<1> QED
  BY <1>2, <1>3, <1>4 DEF new

-----------------------------------------------------------------------------
(* The messages a feed is about.                                           *)

LEMMA IdsFact ==
  ASSUME db \in Inputs, NEW m \in Messages
  PROVE  /\ Ids(m) \in Seq(Messages) /\ Len(Ids(m)) \in Nat
         /\ \A i \in 1..Len(Ids(m)) : Ids(m)[i] \in Messages
         /\ Cited(m) \subseteq Messages
<1>1. db.log[m].feed.ids \in Seq(Messages)
  BY InputsAreDatabases DEF Logs, LogRows
<1>2. <<m>> \in Seq(Messages) /\ <<>> \in Seq(Messages)
  BY EmptySeq
<1>3. Ids(m) \in Seq(Messages)
  BY <1>1, <1>2 DEF Ids, About
<1> QED
  BY <1>3, LenProperties, ElementOfSeq, ToSetFact DEF Cited

LEMMA ReachableFact ==
  ASSUME db \in Inputs, NEW m \in Messages
  PROVE  /\ m \in Reachable(m)
         /\ \A k \in Reachable(m) : k \in Messages /\ Cited(k) \subseteq Reachable(m)
<1>1. m \in Reachable(m)
  BY DEF Reachable
<1>2. ASSUME NEW k \in Reachable(m), NEW r \in Cited(k)
      PROVE  r \in Reachable(m)
  <2>1. k \in Messages
    BY DEF Reachable
  <2>2. r \in Messages
    BY <2>1, <1>2, IdsFact
  <2>3. ASSUME NEW S \in SUBSET Messages, m \in S,
               \A n \in S : Cited(n) \subseteq S
        PROVE  r \in S
    BY <1>2, <2>3 DEF Reachable
  <2> QED
    BY <2>2, <2>3 DEF Reachable
<1> QED
  BY <1>1, <1>2 DEF Reachable

\* What a message cites, and what that leads to, it leads to itself.
LEMMA LeadsFact ==
  ASSUME db \in Inputs, NEW m \in Messages
  PROVE  /\ \A k \in Cited(m) : Leads(m, k)
         /\ \A k \in Messages : Leads(m, k) => \A r \in Cited(k) : Leads(m, r)
<1>1. \A k \in Cited(m) : k \in Messages
  BY IdsFact
<1>2. \A k \in Cited(m) : k \in Reachable(k)
  BY <1>1, ReachableFact
<1>3. ASSUME NEW k \in Messages, Leads(m, k), NEW r \in Cited(k)
      PROVE  Leads(m, r)
  <2>1. PICK id \in Cited(m) : k \in Reachable(id)
    BY <1>3 DEF Leads
  <2>2. r \in Reachable(id)
    BY <1>1, <2>1, ReachableFact
  <2> QED
    BY <2>2 DEF Leads
<1> QED
  BY <1>2, <1>3 DEF Leads

-----------------------------------------------------------------------------
(* Snapshots and their places on a list.                                   *)

LEMMA PlacedInMore ==
  ASSUME NEW snapshots, NEW ids, NEW P, NEW Q, P \subseteq Q, Placed(snapshots, ids, P)
  PROVE  Placed(snapshots, ids, Q)
<1>1. PICK f \in Injection(1..Len(snapshots), P) :
        \A k \in 1..Len(snapshots) : ids[f[k]] = snapshots[k].id
  BY DEF Placed
<1>2. f \in Injection(1..Len(snapshots), Q)
  BY DEF Injection
<1> QED
  BY <1>1, <1>2 DEF Placed

LEMMA NonePlaced ==
  ASSUME NEW ids, NEW P
  PROVE  Placed(<<>>, ids, P)
<1> DEFINE f == [k \in 1..0 |-> k]
<1>1. Len(<<>>) = 0 /\ \A k \in 1..0 : FALSE
  OBVIOUS
<1>2. f \in [1..0 -> P] /\ DOMAIN f = 1..0
  BY <1>1
<1> HIDE DEF f
<1>3. f \in Injection(1..0, P)
  BY <1>1, <1>2 DEF Injection, IsInjective
<1> QED
  BY <1>1, <1>3 DEF Placed

\* One more is placed at a place of the list that is free.
LEMMA PlacedOneMore ==
  ASSUME NEW s \in Seq(Snapshots), NEW x \in Snapshots, NEW ids, NEW P, Placed(s, ids, P),
         NEW i, i \notin P, ids[i] = x.id
  PROVE  Placed(s \o <<x>>, ids, P \cup {i})
<1> DEFINE n   == Len(s)
           new == s \o <<x>>
<1>1. PICK f \in Injection(1..n, P) : \A k \in 1..n : ids[f[k]] = s[k].id
  BY DEF Placed
<1>2. /\ n \in Nat /\ Len(new) = n + 1 /\ \A k \in 1..n : new[k] = s[k]
      /\ new[n + 1] = x
  BY ToSetConcat, LenProperties
<1> HIDE DEF new, n
<1> DEFINE g == [k \in 1..Len(new) |-> IF k = n + 1 THEN i ELSE f[k]]
<1>3. /\ f \in [1..n -> P] /\ \A j, k \in 1..n : f[j] = f[k] => j = k
  BY <1>1 DEF Injection, IsInjective
<1>4. \A k \in 1..Len(new) : k = n + 1 \/ (k \in 1..n /\ k # n + 1)
  BY <1>2
<1>5. \A k \in 1..Len(new) : g[k] = IF k = n + 1 THEN i ELSE f[k]
  OBVIOUS
<1>6. g \in [1..Len(new) -> P \cup {i}]
  BY <1>3, <1>4
<1> HIDE DEF g
<1>7. \A j, k \in 1..Len(new) : g[j] = g[k] => j = k
  BY <1>3, <1>4, <1>5
<1>8. g \in Injection(1..Len(new), P \cup {i})
  BY <1>6, <1>7 DEF Injection, IsInjective
<1>9. \A k \in 1..Len(new) : ids[g[k]] = new[k].id
  BY <1>1, <1>2, <1>4, <1>5
<1> QED
  BY <1>8, <1>9 DEF Placed, new

\* What replaces or joins the snapshots that were found.
LEMMA MergeFact ==
  ASSUME NEW found \in Seq(Snapshots), NEW id \in Messages
  PROVE  LET new == Merge(found, id)
             x   == [id |-> id, src |-> "meta"]
         IN  /\ new \in Seq(Snapshots)
             /\ \A k : Positions(new, k) = {} <=> k # id /\ Positions(found, k) = {}
             /\ new[Min(Positions(new, id))] = x
             /\ \A k : FirstText(new, k) = IF k = id THEN "meta" ELSE FirstText(found, k)
             /\ \A ids : \A P : \A i \in P : Placed(found, ids, P) /\ ids[i] = id
                   => Placed(new, ids, P)
<1> DEFINE here == Positions(found, id)
           x    == [id |-> id, src |-> "meta"]
           new  == Merge(found, id)
<1>1. x \in Snapshots /\ x.id = id /\ x.src = "meta"
  BY DEF Snapshots, Sources
<1>2. Len(found) \in Nat /\ \A i \in 1..Len(found) : found[i] \in Snapshots
  BY LenProperties, ElementOfSeq
<1> SUFFICES /\ new \in Seq(Snapshots)
             /\ \A k : Positions(new, k) = {} <=> k # id /\ Positions(found, k) = {}
             /\ new[Min(Positions(new, id))] = x
             /\ \A k : FirstText(new, k) = IF k = id THEN "meta" ELSE FirstText(found, k)
             /\ \A ids : \A P : \A i \in P : Placed(found, ids, P) /\ ids[i] = id
                   => Placed(new, ids, P)
  OBVIOUS
<1> HIDE DEF x
<1>3. CASE here = {}
  <2>1. \A i \in 1..Len(found) : found[i].id # id
    BY <1>3 DEF Positions
  <2>2. new = found \o <<x>>
    <3>1. new = Append(found, x)
      BY <1>3 DEF Merge, x
    <3> QED
      BY <1>1, <3>1
  <2>3. /\ new \in Seq(Snapshots) /\ Len(new) = Len(found) + 1
        /\ \A i \in 1..Len(found) : new[i] = found[i]
        /\ new[Len(found) + 1] = x
    BY <1>1, <2>2, ToSetConcat
  <2> HIDE DEF new
  <2>4. \A i \in 1..Len(new) : i \in 1..Len(found) \/ i = Len(found) + 1
    BY <1>2, <2>3
  <2>5. /\ Len(found) + 1 \in 1..Len(new)
        /\ \A i \in 1..Len(found) : i \in 1..Len(new) /\ i # Len(found) + 1
    BY <1>2, <2>3
  <2>6. Positions(new, id) = {Len(found) + 1}
    <3>1. \A i \in 1..Len(new) : new[i].id = id <=> i = Len(found) + 1
      BY <1>1, <2>1, <2>3, <2>4, <2>5
    <3> QED
      BY <2>5, <3>1 DEF Positions
  <2>7. ASSUME NEW k, k # id PROVE Positions(new, k) = Positions(found, k)
    <3>1. \A i \in 1..Len(new) : new[i].id = k => i \in 1..Len(found)
      BY <1>1, <2>3, <2>4, <2>7
    <3>2. \A i \in 1..Len(found) : i \in 1..Len(new) /\ new[i] = found[i]
      BY <2>3, <2>5
    <3> QED
      BY <3>1, <3>2 DEF Positions
  <2>8. Min(Positions(new, id)) = Len(found) + 1
    <3>1. Positions(new, id) \subseteq Nat /\ Positions(new, id) # {}
      BY <1>2, <2>6
    <3> QED
      BY <2>6, <3>1, MinFact
  <2>9. ASSUME NEW k
        PROVE  FirstText(new, k) = IF k = id THEN "meta" ELSE FirstText(found, k)
    <3>1. CASE k = id
      BY <1>1, <2>3, <2>6, <2>8, <3>1 DEF FirstText
    <3>2. CASE k # id /\ Positions(found, k) = {}
      BY <2>7, <3>2 DEF FirstText
    <3>3. CASE k # id /\ Positions(found, k) # {}
      <4>1. Positions(found, k) \subseteq Nat /\ Positions(found, k) \subseteq 1..Len(found)
        BY <1>2 DEF Positions
      <4>2. Min(Positions(found, k)) \in Positions(found, k)
        BY <3>3, <4>1, MinFact
      <4>3. new[Min(Positions(found, k))] = found[Min(Positions(found, k))]
        BY <2>3, <4>1, <4>2
      <4> QED
        BY <2>7, <3>3, <4>3 DEF FirstText
    <3> QED
      BY <3>1, <3>2, <3>3
  <2>10. ASSUME NEW ids, NEW P, NEW i \in P, Placed(found, ids, P), ids[i] = id
         PROVE  Placed(new, ids, P)
    <3>1. PICK f \in Injection(1..Len(found), P) :
            \A k \in 1..Len(found) : ids[f[k]] = found[k].id
      BY <2>10 DEF Placed
    <3>2. \A k \in 1..Len(found) : f[k] # i
      BY <2>1, <2>10, <3>1
    <3>3. f \in [1..Len(found) -> P] /\ IsInjective(f)
      BY <3>1 DEF Injection
    <3>4. f \in [1..Len(found) -> P \ {i}]
      BY <3>2, <3>3
    <3>5. Placed(found, ids, P \ {i})
      BY <3>1, <3>3, <3>4 DEF Placed, Injection
    <3>6. Placed(found \o <<x>>, ids, (P \ {i}) \cup {i})
      BY <1>1, <2>10, <3>5, PlacedOneMore
    <3>7. (P \ {i}) \cup {i} = P
      BY <2>10
    <3> QED
      BY <2>2, <3>6, <3>7
  <2>11. \A k : Positions(new, k) = {} <=> k # id /\ Positions(found, k) = {}
    BY <2>6, <2>7
  <2> QED
    BY <2>3, <2>8, <2>9, <2>10, <2>11
<1>4. CASE here # {}
  <2> DEFINE first == Min(here)
  <2>1. here \subseteq Nat /\ here \subseteq 1..Len(found)
    BY <1>2 DEF Positions
  <2>2. first \in here
    BY <1>4, <2>1, MinFact
  <2>3. first \in 1..Len(found) /\ found[first].id = id
    BY <2>2 DEF Positions
  <2>4. new = [found EXCEPT ![first] = x]
    BY <1>4 DEF Merge, x
  <2> HIDE DEF first
  <2>5. /\ new \in Seq(Snapshots) /\ Len(new) = Len(found)
        /\ \A i \in 1..Len(found) : new[i] = IF i = first THEN x ELSE found[i]
    BY <1>1, <2>3, <2>4, ExceptSeq
  <2> HIDE DEF new
  <2>6. \A i \in 1..Len(found) : new[i].id = found[i].id
    BY <1>1, <2>3, <2>5
  <2>7. \A k : Positions(new, k) = Positions(found, k)
    BY <2>5, <2>6 DEF Positions
  <2>8. new[first] = x /\ Min(Positions(new, id)) = first
    BY <2>3, <2>5, <2>7 DEF first
  <2>9. ASSUME NEW k
        PROVE  FirstText(new, k) = IF k = id THEN "meta" ELSE FirstText(found, k)
    <3>1. CASE k = id
      BY <1>1, <1>4, <2>7, <2>8, <3>1 DEF FirstText
    <3>2. CASE k # id /\ Positions(found, k) = {}
      BY <2>7, <3>2 DEF FirstText
    <3>3. CASE k # id /\ Positions(found, k) # {}
      <4>1. Positions(found, k) \subseteq Nat
        BY <1>2 DEF Positions
      <4>2. Min(Positions(found, k)) \in Positions(found, k)
        BY <3>3, <4>1, MinFact
      <4>3. Min(Positions(found, k)) \in 1..Len(found) /\ Min(Positions(found, k)) # first
        BY <2>3, <3>3, <4>2 DEF Positions
      <4>4. new[Min(Positions(found, k))] = found[Min(Positions(found, k))]
        BY <2>5, <4>3
      <4> QED
        BY <2>7, <3>3, <4>4 DEF FirstText
    <3> QED
      BY <3>1, <3>2, <3>3
  <2>10. ASSUME NEW ids, NEW P, Placed(found, ids, P) PROVE Placed(new, ids, P)
    BY <2>5, <2>6, <2>10 DEF Placed
  <2>11. \A k : Positions(new, k) = {} <=> k # id /\ Positions(found, k) = {}
    BY <1>4, <2>7
  <2> QED
    BY <2>5, <2>8, <2>9, <2>10, <2>11
<1> QED
  BY <1>3, <1>4

-----------------------------------------------------------------------------
(* What a frame tells when its whole list has had its turn.                *)

LEMMA FrameType ==
  ASSUME NEW frame \in Frames
  PROVE  /\ frame.msg \in Messages /\ frame.next \in Nat \ {0}
         /\ frame.found \in Seq(Snapshots)
  BY DEF Frames

Complete(frame) == FoundInv(frame, {}) /\ ~(frame.next <= Len(Ids(frame.msg)))

LEMMA CompleteFact ==
  ASSUME db \in Inputs, NEW frame \in Frames, Complete(frame)
  PROVE  /\ Placed(frame.found, Ids(frame.msg), 1..Len(Ids(frame.msg)))
         /\ \A k : Positions(frame.found, k) # {} =>
               k # frame.msg /\ FirstText(frame.found, k) = LastText(k)
         /\ \A k \in ToSet(Ids(frame.msg)) :
               k = frame.msg \/ k \in deleted \/ LastText(k) = "none"
                 \/ Positions(frame.found, k) # {}
<1> DEFINE ids   == Ids(frame.msg)
           found == frame.found
<1>1. /\ ids \in Seq(Messages) /\ Len(ids) \in Nat
      /\ frame.next \in Nat /\ found \in Seq(Snapshots)
  BY IdsFact, FrameType
<1>2. Turns(frame, {}) = 1..Len(ids)
  <2>1. \A i \in 1..Len(ids) : i < frame.next
    BY <1>1 DEF Complete
  <2> QED
    BY <2>1 DEF Turns
<1>3. FoundInv(frame, {})
  BY DEF Complete
<1>4. Placed(found, ids, 1..Len(ids))
  BY <1>2, <1>3 DEF FoundInv
<1>5. ASSUME NEW k, Positions(found, k) # {}
      PROVE  k # frame.msg /\ FirstText(found, k) = LastText(k)
  <2> DEFINE first == Min(Positions(found, k))
  <2>1. Positions(found, k) \subseteq Nat
    BY DEF Positions
  <2>2. first \in Positions(found, k)
    BY <1>5, <2>1, MinFact
  <2>3. first \in 1..Len(found) /\ found[first].id = k
    BY <2>2 DEF Positions
  <2>4. found[first] \in ToSet(found)
    BY <1>1, <2>3, ToSetFact
  <2>5. FirstText(found, k) = found[first].src
    BY <1>5 DEF FirstText
  <2> HIDE DEF first
  <2> QED
    BY <1>3, <2>3, <2>4, <2>5 DEF FoundInv
<1>6. ASSUME NEW k \in ToSet(ids)
      PROVE  k = frame.msg \/ k \in deleted \/ LastText(k) = "none" \/ Positions(found, k) # {}
  <2>1. PICK i \in 1..Len(ids) : ids[i] = k
    BY <1>1, ToSetFact
  <2>2. k = frame.msg \/ k \in deleted \/ LastText(k) = "none" \/ \E s \in ToSet(found) : s.id = k
    BY <1>2, <1>3, <2>1 DEF FoundInv
  <2>3. ASSUME NEW s \in ToSet(found), s.id = k PROVE Positions(found, k) # {}
    <3> HIDE DEF found
    <3>1. PICK j \in 1..Len(found) : found[j] = s
      BY <1>1, ToSetFact
    <3> QED
      BY <2>3, <3>1 DEF Positions
  <2> QED
    BY <2>2, <2>3
<1> QED
  BY <1>4, <1>5, <1>6

\* The message whose text the metadata of a hidden feed holds.
Own(m) == IF m \in ToSet(Ids(m)) THEN m ELSE Ids(m)[1]

LEMMA OwnFact ==
  ASSUME db \in Inputs, NEW m \in Messages, HasPrevious(m)
  PROVE  Own(m) \in Messages /\ \E i \in 1..Len(Ids(m)) : Ids(m)[i] = Own(m)
<1>1. Ids(m) \in Seq(Messages) /\ Ids(m) # <<>>
  BY IdsFact DEF HasPrevious
<1>2. Len(Ids(m)) \in Nat /\ Len(Ids(m)) # 0
  BY <1>1, LenProperties, EmptySeq
<1>3. 1 \in 1..Len(Ids(m))
  BY <1>2
<1>4. Ids(m)[1] \in Messages
  BY <1>1, <1>3, ElementOfSeq
<1> QED
  BY <1>1, <1>3, <1>4, ToSetFact DEF Own

\* What the event of a task's own message tells.
LEMMA PreviousFact ==
  ASSUME db \in Inputs, NEW frame \in Frames, Complete(frame)
  PROVE  Previous(frame) \in Seq(Snapshots) /\ ResultInv(Previous(frame), frame.msg)
<1> DEFINE m     == frame.msg
           ids   == Ids(m)
           found == frame.found
<1>1. m \in Messages /\ found \in Seq(Snapshots)
  BY FrameType
<1>2. /\ Placed(found, ids, 1..Len(ids))
      /\ \A k : Positions(found, k) # {} => k # m /\ FirstText(found, k) = LastText(k)
      /\ \A k \in ToSet(ids) : k = m \/ k \in deleted \/ LastText(k) = "none"
                                 \/ Positions(found, k) # {}
  BY CompleteFact
<1>3. \A k : Positions(found, k) = {} => FirstText(found, k) = "none"
  BY DEF FirstText
<1>4. ASSUME NEW k \in ToSet(ids)
      PROVE  \/ FirstText(found, k) = IF k = m THEN "none" ELSE LastText(k)
             \/ k \in deleted /\ FirstText(found, k) = "none"
  <2> HIDE DEF m, ids, found
  <2> QED
    BY <1>2, <1>3
<1>5. CASE ~HasPrevious(m)
  <2>1. Previous(frame) = found
    BY <1>5 DEF Previous
  <2>2. \A k : Told(m, k) = IF k = m THEN "none" ELSE LastText(k)
    BY <1>5 DEF Told
  <2>3. ResultInv(found, m)
    BY <1>2, <1>4, <2>2 DEF ResultInv
  <2> QED
    BY <1>1, <2>1, <2>3
<1>6. CASE HasPrevious(m)
  <2> DEFINE own == Own(m)
             new == Merge(found, own)
  <2>1. own \in Messages /\ \E i \in 1..Len(ids) : ids[i] = own
    BY <1>1, <1>6, OwnFact
  <2>2. Previous(frame) = new
    BY <1>6 DEF Previous, Own
  <2>3. \A k : Told(m, k) = IF k = own THEN "meta"
                            ELSE IF k = m THEN "none" ELSE LastText(k)
    BY <1>6 DEF Told, Own
  <2> HIDE DEF own
  <2>4. /\ new \in Seq(Snapshots)
        /\ \A k : FirstText(new, k) = IF k = own THEN "meta" ELSE FirstText(found, k)
        /\ \A i \in 1..Len(ids) : Placed(found, ids, 1..Len(ids)) /\ ids[i] = own
              => Placed(new, ids, 1..Len(ids))
    <3> HIDE DEF found, ids
    <3> QED
      BY <1>1, <2>1, MergeFact
  <2> HIDE DEF new
  <2>5. ResultInv(new, m)
    BY <1>2, <1>4, <2>1, <2>3, <2>4 DEF ResultInv
  <2> QED
    BY <2>2, <2>4, <2>5
<1> QED
  BY <1>5, <1>6

\* What a message tells the one that asked for it: its last text.
LEMMA SnapshotFact ==
  ASSUME db \in Inputs, NEW frame \in Frames, Complete(frame)
  PROVE  \/ LastText(frame.msg) = "none" /\ Snapshot(frame) = <<>>
         \/ /\ LastText(frame.msg) # "none"
            /\ Snapshot(frame) = <<[id |-> frame.msg, src |-> LastText(frame.msg)]>>
<1> DEFINE m     == frame.msg
           found == frame.found
           new   == Previous(frame)
<1>1. m \in Messages /\ found \in Seq(Snapshots)
  BY FrameType
<1>2. Positions(found, m) = {}
  BY CompleteFact
<1>3. CASE ~IsFeed(m)
  BY <1>3 DEF Snapshot, LastText
<1>4. CASE HasPrevious(m) /\ m \in ToSet(Ids(m))
  <2>1. IsFeed(m) /\ IsHidden(m) /\ LastText(m) = "meta"
    BY <1>4 DEF HasPrevious, IsHidden, LastText
  <2>2. new = Merge(found, m)
    BY <1>4 DEF Previous
  <2>3. Positions(new, m) # {} /\ new[Min(Positions(new, m))] = [id |-> m, src |-> "meta"]
    BY <1>1, <2>2, MergeFact
  <2>4. Snapshot(frame) = <<new[Min(Positions(new, m))]>>
    BY <2>1, <2>3 DEF Snapshot
  <2> QED
    BY <2>1, <2>3, <2>4
<1>5. CASE IsFeed(m) /\ ~(HasPrevious(m) /\ m \in ToSet(Ids(m)))
  <2>1. LastText(m) = "none"
    BY <1>5 DEF LastText
  <2>2. Positions(new, m) = {}
    <3>1. CASE ~HasPrevious(m)
      BY <1>2, <3>1 DEF Previous
    <3>2. CASE HasPrevious(m)
      <4> DEFINE own == Own(m)
      <4>1. new = Merge(found, own)
        BY <3>2 DEF Previous, Own
      <4>2. own \in Messages /\ own # m
        <5>1. own \in Messages /\ \E i \in 1..Len(Ids(m)) : Ids(m)[i] = own
          BY <1>1, <3>2, OwnFact
        <5>2. own \in ToSet(Ids(m))
          BY <1>1, <5>1, IdsFact, ToSetFact
        <5> QED
          BY <1>5, <3>2, <5>1, <5>2
      <4> HIDE DEF own
      <4> QED
        BY <1>1, <1>2, <4>1, <4>2, MergeFact
    <3> QED
      BY <3>1, <3>2
  <2> QED
    BY <1>5, <2>1, <2>2 DEF Snapshot
<1> QED
  BY <1>3, <1>4, <1>5

-----------------------------------------------------------------------------
(* Frames.                                                                 *)

LEMMA NewFrame ==
  ASSUME NEW m \in Messages, NEW phase \in {"row", "author", "channel"}
  PROVE  /\ Frame(m, phase) \in Frames /\ Frame(m, phase).msg = m
         /\ FrameInv(Frame(m, phase), {})
  BY EmptySeq DEF Frame, Frames, FrameInv

LEMMA PhaseFact ==
  ASSUME NEW frame \in Frames, frame.phase # "enrich", FrameInv(frame, {}),
         NEW phase \in {"row", "author", "channel"}
  PROVE  /\ [frame EXCEPT !.phase = phase] \in Frames
         /\ [frame EXCEPT !.phase = phase].msg = frame.msg
         /\ FrameInv([frame EXCEPT !.phase = phase], {})
  BY DEF Frames, FrameInv

\* Nothing has had its turn.
LEMMA EnrichFact ==
  ASSUME db \in Inputs, NEW frame \in Frames, frame.phase # "enrich", FrameInv(frame, {})
  PROVE  LET f == [frame EXCEPT !.phase = "enrich"]
         IN  f \in Frames /\ f.msg = frame.msg /\ FrameInv(f, {})
<1> DEFINE f == [frame EXCEPT !.phase = "enrich"]
<1>1. /\ f \in Frames /\ f.msg = frame.msg /\ f.phase = "enrich"
      /\ f.next = 1 /\ f.found = <<>>
  BY DEF Frames, FrameInv
<1> HIDE DEF f
<1>2. Turns(f, {}) = {}
  <2>1. \A i \in 1..Len(Ids(f.msg)) : ~(i < 1)
    BY <1>1, FrameType, IdsFact
  <2> QED
    BY <1>1, <2>1 DEF Turns
<1>3. ToSet(f.found) = {}
  BY <1>1 DEF ToSet
<1>4. Placed(f.found, Ids(f.msg), Turns(f, {}))
  BY <1>1, NonePlaced
<1>5. FoundInv(f, {})
  BY <1>2, <1>3, <1>4 DEF FoundInv
<1> QED
  BY <1>1, <1>5 DEF FrameInv, f

\* The next place on the list has its turn.
LEMMA AdvanceFact ==
  ASSUME db \in Inputs, NEW frame \in Frames, frame.phase = "enrich", FrameInv(frame, {}),
         frame.next <= Len(Ids(frame.msg))
  PROVE  LET f  == [frame EXCEPT !.next = @ + 1]
             id == Ids(frame.msg)[frame.next]
         IN  /\ f \in Frames /\ f.msg = frame.msg /\ id \in Messages
             /\ id = frame.msg => FrameInv(f, {})
             /\ id # frame.msg => FrameInv(f, {id}) /\ id \in Cited(frame.msg)
<1> DEFINE f   == [frame EXCEPT !.next = @ + 1]
           ids == Ids(frame.msg)
           n   == frame.next
           id  == ids[n]
<1>1. /\ n \in Nat /\ n > 0 /\ n \in 1..Len(ids) /\ Len(ids) \in Nat
      /\ ids \in Seq(Messages) /\ id \in Messages
  BY FrameType, IdsFact
<1>2. /\ f \in Frames /\ f.msg = frame.msg /\ f.phase = "enrich"
      /\ f.next = n + 1 /\ f.found = frame.found
  BY FrameType DEF Frames
<1>3. FoundInv(frame, {})
  BY DEF FrameInv
<1> HIDE DEF f
<1>4. Turns(frame, {}) = {i \in 1..Len(ids) : i < n}
  BY DEF Turns
<1>5. ASSUME id = frame.msg PROVE FoundInv(f, {})
  <2>1. Turns(f, {}) = Turns(frame, {}) \cup {n}
    <3>1. Turns(f, {}) = {i \in 1..Len(ids) : i < n + 1}
      BY <1>2 DEF Turns
    <3>2. \A i \in 1..Len(ids) : i < n + 1 <=> i < n \/ i = n
      BY <1>1
    <3> HIDE DEF n, ids
    <3> QED
      BY <1>1, <1>4, <3>1, <3>2
  <2>2. Placed(f.found, ids, Turns(f, {}))
    BY <1>2, <1>3, <2>1, PlacedInMore DEF FoundInv
  <2>3. \A i \in Turns(f, {}) : \/ i \in Turns(frame, {})
                                \/ ids[i] = frame.msg
    BY <1>5, <2>1
  <2> HIDE DEF ids, id, n
  <2> QED
    BY <1>2, <1>3, <2>2, <2>3 DEF FoundInv, ids
<1>6. ASSUME id # frame.msg PROVE FoundInv(f, {id})
  <2>1. Turns(f, {id}) = Turns(frame, {})
    <3>1. Turns(f, {id}) = {i \in 1..Len(ids) : i < n + 1 /\ i + 1 # n + 1}
      <4> HIDE DEF id
      <4> QED
        BY <1>2 DEF Turns
    <3>2. \A i \in 1..Len(ids) : i < n + 1 /\ i + 1 # n + 1 <=> i < n
      BY <1>1
    <3> HIDE DEF n, ids
    <3> QED
      BY <1>4, <3>1, <3>2
  <2>2. \E i \in 1..Len(ids) : i + 1 = f.next /\ {id} = {ids[i]} /\ ids[i] # frame.msg
    BY <1>1, <1>2, <1>6
  <2> HIDE DEF id, n
  <2> QED
    BY <1>2, <1>3, <2>1, <2>2 DEF FoundInv
<1>7. id \in Cited(frame.msg) \/ id = frame.msg
  BY <1>1, ToSetFact DEF Cited
<1> HIDE DEF id
<1>8. id = frame.msg => FrameInv(f, {})
  BY <1>2, <1>5 DEF FrameInv
<1>9. id # frame.msg => FrameInv(f, {id})
  BY <1>2, <1>6 DEF FrameInv
<1> QED
  BY <1>1, <1>2, <1>7, <1>8, <1>9 DEF f, id

\* The message that was being mapped for the last place is done with.
LEMMA DoneTurn ==
  ASSUME db \in Inputs, NEW frame \in Frames, NEW id, FoundInv(frame, {id})
  PROVE  \E i \in 1..Len(Ids(frame.msg)) :
            /\ Ids(frame.msg)[i] = id /\ id # frame.msg
            /\ i \notin Turns(frame, {id})
            /\ Turns(frame, {}) = Turns(frame, {id}) \cup {i}
<1> DEFINE ids == Ids(frame.msg)
<1>1. PICK i \in 1..Len(ids) : i + 1 = frame.next /\ {id} = {ids[i]} /\ ids[i] # frame.msg
  BY DEF FoundInv
<1>2. Len(ids) \in Nat /\ frame.next \in Nat
  BY FrameType, IdsFact
<1>3. Turns(frame, {id}) = {j \in 1..Len(ids) : j < frame.next /\ j + 1 # frame.next}
  BY DEF Turns
<1>4. Turns(frame, {}) = {j \in 1..Len(ids) : j < frame.next}
  BY DEF Turns
<1>5. \A j \in 1..Len(ids) : j < frame.next <=> (j < frame.next /\ j + 1 # frame.next) \/ j = i
  BY <1>1, <1>2
<1> HIDE DEF ids
<1>6. Turns(frame, {}) = Turns(frame, {id}) \cup {i} /\ i \notin Turns(frame, {id})
  BY <1>1, <1>3, <1>4, <1>5
<1>7. ids[i] = id /\ id # frame.msg
  BY <1>1
<1> QED
  BY <1>6, <1>7 DEF ids

\* What was asked for is deleted.
LEMMA SkipFact ==
  ASSUME db \in Inputs, NEW frame \in Frames, NEW id \in deleted, FrameInv(frame, {id})
  PROVE  FrameInv(frame, {})
<1>1. frame.phase = "enrich" /\ FoundInv(frame, {id})
  BY DEF FrameInv
<1>2. PICK i \in 1..Len(Ids(frame.msg)) :
        Ids(frame.msg)[i] = id /\ Turns(frame, {}) = Turns(frame, {id}) \cup {i}
  BY <1>1, DoneTurn
<1>3. Placed(frame.found, Ids(frame.msg), Turns(frame, {}))
  BY <1>1, <1>2, PlacedInMore DEF FoundInv
<1>4. FoundInv(frame, {})
  BY <1>1, <1>2, <1>3 DEF FoundInv
<1> QED
  BY <1>1, <1>4 DEF FrameInv

\* What was asked for has been mapped.
LEMMA ToldFact ==
  ASSUME db \in Inputs, NEW frame \in Frames, Complete(frame),
         NEW outer \in Frames, FrameInv(outer, {frame.msg})
  PROVE  LET f == [outer EXCEPT !.found = outer.found \o Snapshot(frame)]
         IN  f \in Frames /\ f.msg = outer.msg /\ FrameInv(f, {})
<1> DEFINE id   == frame.msg
           ids  == Ids(outer.msg)
           x    == [id |-> id, src |-> LastText(id)]
           told == outer.found \o Snapshot(frame)
           f    == [outer EXCEPT !.found = told]
<1>1. outer.phase = "enrich" /\ FoundInv(outer, {id}) /\ outer.found \in Seq(Snapshots)
  BY FrameType DEF FrameInv
<1>2. PICK i \in 1..Len(ids) :
        /\ ids[i] = id /\ id # outer.msg /\ i \notin Turns(outer, {id})
        /\ Turns(outer, {}) = Turns(outer, {id}) \cup {i}
  BY <1>1, DoneTurn
<1> DEFINE before == Turns(outer, {id})
<1>3. /\ Placed(outer.found, ids, before)
      /\ \A s \in ToSet(outer.found) : s.id # outer.msg /\ s.src = LastText(s.id)
      /\ \A k \in before : \/ ids[k] = outer.msg \/ ids[k] \in deleted
                           \/ LastText(ids[k]) = "none"
                           \/ \E s \in ToSet(outer.found) : s.id = ids[k]
  BY <1>1 DEF FoundInv
<1> HIDE DEF before
<1>4. /\ told \in Seq(Snapshots) /\ Placed(told, ids, before \cup {i})
      /\ \A s \in ToSet(told) : s.id # outer.msg /\ s.src = LastText(s.id)
      /\ \A k \in before \cup {i} : \/ ids[k] = outer.msg \/ ids[k] \in deleted
                                    \/ LastText(ids[k]) = "none"
                                    \/ \E s \in ToSet(told) : s.id = ids[k]
  <2>1. CASE LastText(id) = "none" /\ Snapshot(frame) = <<>>
    <3>1. told = outer.found
      BY <1>1, <2>1
    <3> HIDE DEF told, id, ids
    <3>2. Placed(told, ids, before \cup {i})
      BY <1>3, <3>1, PlacedInMore
    <3> QED
      BY <1>1, <1>2, <1>3, <2>1, <3>1, <3>2
  <2>2. CASE LastText(id) # "none" /\ Snapshot(frame) = <<x>>
    <3>1. x \in Snapshots /\ x.id = id /\ x.src = LastText(id)
      <4>1. id \in Messages /\ LastText(id) \in {"log", "meta"}
        BY <2>2, FrameType DEF LastText
      <4> QED
        BY <4>1 DEF Snapshots, Sources
    <3>2. told = outer.found \o <<x>>
      BY <2>2
    <3> HIDE DEF told, x, id, ids
    <3>3. told \in Seq(Snapshots) /\ ToSet(told) = ToSet(outer.found) \cup {x}
      BY <1>1, <3>1, <3>2, ToSetConcat
    <3>4. i \notin before
      BY <1>2 DEF before, id
    <3>5. Placed(told, ids, before \cup {i})
      BY <1>1, <1>2, <1>3, <3>1, <3>2, <3>4, PlacedOneMore
    <3>6. \A s \in ToSet(told) : s.id # outer.msg /\ s.src = LastText(s.id)
      BY <1>2, <1>3, <3>1, <3>3
    <3>7. \A k \in before : \/ ids[k] = outer.msg \/ ids[k] \in deleted
                            \/ LastText(ids[k]) = "none"
                            \/ \E s \in ToSet(told) : s.id = ids[k]
      BY <1>3, <3>3
    <3>8. \E s \in ToSet(told) : s.id = ids[i]
      BY <1>2, <3>1, <3>3
    <3> QED
      BY <3>3, <3>5, <3>6, <3>7, <3>8
  <2> QED
    BY <2>1, <2>2, SnapshotFact
<1>5. /\ f \in Frames /\ f.msg = outer.msg /\ f.phase = "enrich"
      /\ f.next = outer.next /\ f.found = told
  <2> HIDE DEF told
  <2> QED
    BY <1>1, <1>4 DEF Frames
<1> HIDE DEF f
<1>6. Turns(f, {}) = before \cup {i}
  <2>1. Turns(f, {}) = Turns(outer, {})
    BY <1>5 DEF Turns
  <2> QED
    BY <1>2, <2>1 DEF before
<1>7. FoundInv(f, {})
  <2> HIDE DEF told, id
  <2> QED
    BY <1>4, <1>5, <1>6 DEF FoundInv
<1>8. FrameInv(f, {})
  BY <1>5, <1>7 DEF FrameInv
<1> QED
  BY <1>5, <1>8 DEF f, told

-----------------------------------------------------------------------------
(* Stacks.                                                                 *)

LEMMA BeginStack ==
  ASSUME db \in Inputs, NEW m \in Messages, NEW f \in Frames, f.msg = m, FrameInv(f, {})
  PROVE  <<f>> \in Seq(Frames) /\ StackInv(<<f>>, m) /\ Len(<<f>>) <= StackDepth
<1> DEFINE s == <<f>>
<1>1. s \in Seq(Frames) /\ Len(s) = 1 /\ s[1] = f /\ s # <<>>
  OBVIOUS
<1>2. m \in Reachable(m)
  BY ReachableFact
<1> HIDE DEF s
<1>3. \A i \in 1..Len(s) : i = 1 /\ Pending(s, i) = {}
  BY <1>1 DEF Pending
<1>4. StackInv(s, m)
  <2>1. ASSUME NEW i \in 1..Len(s)
        PROVE  s[i].msg \in Reachable(m) /\ FrameInv(s[i], Pending(s, i))
    <3>1. i = 1 /\ Pending(s, i) = {} /\ s[i] = f
      BY <1>1, <1>3
    <3> QED
      BY <1>2, <3>1
  <2>2. ASSUME NEW i \in 1..Len(s), NEW j \in 1..Len(s), i < j PROVE FALSE
    BY <1>3, <2>2
  <2> QED
    BY <1>1, <2>1, <2>2 DEF StackInv
<1>5. Len(s) <= StackDepth
  BY <1>1, MappingConstants
<1> QED
  BY <1>1, <1>4, <1>5 DEF s

LEMMA EmptyStack ==
  ASSUME NEW root
  PROVE  <<>> \in Seq(Frames) /\ StackInv(<<>>, root) /\ Len(<<>>) <= StackDepth
  BY MappingConstants DEF StackInv

\* A stack is cut down to n frames, the last of which changes and waits for
\* nothing.
LEMMA CutFact ==
  ASSUME NEW s \in Seq(Frames), NEW root, StackInv(s, root), NEW n \in 1..Len(s),
         NEW new \in Seq(Frames), Len(new) = n,
         \A i \in 1..(n - 1) : new[i] = s[i],
         new[n].msg = s[n].msg, FrameInv(new[n], {})
  PROVE  StackInv(new, root)
<1>1. Len(s) \in Nat /\ n \in Nat /\ n > 0 /\ n <= Len(s)
  BY LenProperties
<1>2. \A i \in 1..Len(new) : i \in 1..Len(s) /\ new[i].msg = s[i].msg
  <2> TAKE i \in 1..Len(new)
  <2>1. i \in 1..Len(s) /\ (i \in 1..(n - 1) \/ i = n)
    BY <1>1
  <2> QED
    BY <2>1
<1>3. \A i \in 1..Len(new) : FrameInv(new[i], Pending(new, i))
  <2> TAKE i \in 1..Len(new)
  <2>1. CASE i = n
    <3>1. Pending(new, i) = {}
      BY <1>1, <2>1 DEF Pending
    <3> QED
      BY <2>1, <3>1
  <2>2. CASE i # n
    <3>1. i \in 1..(n - 1) /\ i \in 1..Len(s) /\ i + 1 \in 1..Len(new) /\ i < Len(s) /\ i < n
      BY <1>1, <2>2
    <3>2. new[i + 1].msg = s[i + 1].msg
      BY <1>2, <3>1
    <3>3. Pending(new, i) = Pending(s, i)
      BY <3>1, <3>2 DEF Pending
    <3>4. new[i] = s[i] /\ FrameInv(s[i], Pending(s, i))
      BY <3>1 DEF StackInv
    <3> QED
      BY <3>3, <3>4
  <2> QED
    BY <2>1, <2>2
<1>4. root \in Messages /\ new[1].msg = root
  <2>1. s # <<>> /\ 1 \in 1..Len(new)
    BY <1>1, EmptySeq
  <2> QED
    BY <1>2, <2>1 DEF StackInv
<1>5. \A i \in 1..Len(new) : new[i].msg \in Reachable(root)
  BY <1>2 DEF StackInv
<1>6. \A i, j \in 1..Len(new) : i < j => Leads(new[i].msg, new[j].msg)
  BY <1>2 DEF StackInv
<1> QED
  BY <1>3, <1>4, <1>5, <1>6 DEF StackInv

\* The last frame of a stack is replaced.
LEMMA ReplaceFact ==
  ASSUME NEW s \in Seq(Frames), s # <<>>, NEW root, StackInv(s, root),
         NEW f \in Frames, f.msg = Last(s).msg, FrameInv(f, {})
  PROVE  /\ Front(s) \o <<f>> \in Seq(Frames) /\ StackInv(Front(s) \o <<f>>, root)
         /\ Len(Front(s) \o <<f>>) = Len(s)
<1> DEFINE new == Front(s) \o <<f>>
           n   == Len(s)
<1>1. /\ n \in 1..Len(s) /\ n \in Nat /\ Front(s) \in Seq(Frames) /\ Len(Front(s)) = n - 1
      /\ \A i \in 1..(n - 1) : Front(s)[i] = s[i]
      /\ s[n].msg = f.msg
  BY LastFact
<1>2. /\ new \in Seq(Frames) /\ Len(new) = n - 1 + 1
      /\ \A i \in 1..(n - 1) : new[i] = Front(s)[i]
      /\ new[n - 1 + 1] = f
  BY <1>1, ToSetConcat
<1>3. n - 1 + 1 = n
  BY <1>1
<1> HIDE DEF new, n
<1>4. Len(new) = n /\ new[n] = f /\ \A i \in 1..(n - 1) : new[i] = s[i]
  BY <1>1, <1>2, <1>3
<1>5. StackInv(new, root)
  BY <1>1, <1>2, <1>4, CutFact
<1> QED
  BY <1>2, <1>4, <1>5 DEF new, n

\* The frame that is left when the last one of several goes.
LEMMA OuterFact ==
  ASSUME NEW s \in Seq(Frames), s # <<>>, NEW root, StackInv(s, root), Front(s) # <<>>
  PROVE  /\ Front(s) \in Seq(Frames) /\ Last(Front(s)) \in Frames
         /\ FrameInv(Last(Front(s)), {Last(s).msg})
         /\ \A f \in Frames :
              f.msg = Last(Front(s)).msg /\ FrameInv(f, {}) =>
                 /\ Front(Front(s)) \o <<f>> \in Seq(Frames)
                 /\ StackInv(Front(Front(s)) \o <<f>>, root)
                 /\ Len(Front(Front(s)) \o <<f>>) <= Len(s)
<1> DEFINE outer == Front(s)
           k == Len(outer)
<1>1. /\ Len(s) \in Nat /\ Len(s) > 0 /\ outer \in Seq(Frames) /\ k = Len(s) - 1
      /\ \A i \in 1..(Len(s) - 1) : outer[i] = s[i] /\ i \in 1..Len(s)
      /\ Last(s) = s[Len(s)]
  BY LastFact
<1>2. /\ k \in Nat /\ k > 0 /\ k \in 1..k
      /\ Last(outer) = outer[k] /\ Front(outer) \in Seq(Frames)
      /\ Len(Front(outer)) = k - 1
      /\ \A i \in 1..(k - 1) : Front(outer)[i] = outer[i] /\ i \in 1..k
  BY <1>1, LastFact
<1>3. k \in 1..Len(s) /\ k + 1 = Len(s) /\ k < Len(s) /\ outer[k] = s[k]
  BY <1>1, <1>2
<1>4. Last(outer) \in Frames
  BY <1>1, <1>2, ElementOfSeq
<1>5. FrameInv(Last(outer), {Last(s).msg})
  <2>1. Pending(s, k) = {Last(s).msg}
    BY <1>1, <1>3 DEF Pending
  <2>2. FrameInv(s[k], Pending(s, k))
    BY <1>3 DEF StackInv
  <2> QED
    BY <1>2, <1>3, <2>1, <2>2
<1>6. ASSUME NEW f \in Frames, f.msg = Last(outer).msg, FrameInv(f, {})
      PROVE  /\ Front(outer) \o <<f>> \in Seq(Frames)
             /\ StackInv(Front(outer) \o <<f>>, root)
             /\ Len(Front(outer) \o <<f>>) <= Len(s)
  <2> DEFINE new == Front(outer) \o <<f>>
  <2>0. Front(outer) \in Seq(Frames) /\ Len(Front(outer)) = k - 1
    BY <1>2
  <2> HIDE DEF outer, k
  <2>1. /\ new \in Seq(Frames) /\ Len(new) = k - 1 + 1
        /\ \A i \in 1..(k - 1) : new[i] = Front(outer)[i]
        /\ new[k - 1 + 1] = f
    BY <2>0, ToSetConcat
  <2>2. k - 1 + 1 = k
    BY <1>2
  <2> HIDE DEF new
  <2>3. \A i \in 1..(k - 1) : i \in 1..(Len(s) - 1)
    BY <1>1, <1>3, <1>2
  <2>4. \A i \in 1..(k - 1) : new[i] = s[i]
    BY <1>1, <1>2, <2>1, <2>3
  <2>5. Len(new) = k /\ new[k].msg = s[k].msg /\ FrameInv(new[k], {})
    BY <1>2, <1>3, <1>6, <2>1, <2>2
  <2>6. StackInv(new, root)
    BY <1>3, <2>1, <2>4, <2>5, CutFact
  <2>7. Len(new) <= Len(s)
    BY <1>1, <1>2, <1>3, <2>5
  <2> QED
    BY <2>1, <2>6, <2>7 DEF new
<1> QED
  BY <1>1, <1>4, <1>5, <1>6

\* A frame that waits for g, and g on top of it.
LEMMA PushFact ==
  ASSUME db \in Inputs, NEW s \in Seq(Frames), s # <<>>, NEW root \in Messages,
         StackInv(s, root),
         NEW f \in Frames, f.msg = Last(s).msg, NEW g \in Frames,
         g.msg \in Cited(f.msg), FrameInv(f, {g.msg}), FrameInv(g, {})
  PROVE  LET new == (Front(s) \o <<f>>) \o <<g>>
         IN  /\ new \in Seq(Frames) /\ StackInv(new, root)
             /\ Len(new) = Len(s) + 1
<1> DEFINE n   == Len(s)
           mid == Front(s) \o <<f>>
           new == mid \o <<g>>
<1>1. /\ n \in Nat /\ n > 0 /\ n \in 1..n /\ Last(s) = s[n]
      /\ Front(s) \in Seq(Frames) /\ Len(Front(s)) = n - 1
      /\ \A i \in 1..(n - 1) : Front(s)[i] = s[i] /\ i \in 1..n
  BY LastFact
<1>2. /\ mid \in Seq(Frames) /\ Len(mid) = n - 1 + 1
      /\ \A i \in 1..(n - 1) : mid[i] = Front(s)[i]
      /\ mid[n - 1 + 1] = f
  BY <1>1, ToSetConcat
<1>3. n - 1 + 1 = n
  BY <1>1
<1> HIDE DEF mid, n
<1>4. /\ new \in Seq(Frames) /\ Len(new) = n + 1
      /\ \A i \in 1..n : new[i] = mid[i]
      /\ new[n + 1] = g
  <2>1. mid \in Seq(Frames) /\ Len(mid) = n
    BY <1>2, <1>3
  <2>2. /\ mid \o <<g>> \in Seq(Frames) /\ Len(mid \o <<g>>) = Len(mid) + 1
        /\ \A i \in 1..Len(mid) : (mid \o <<g>>)[i] = mid[i]
        /\ (mid \o <<g>>)[Len(mid) + 1] = g
    BY <2>1, ToSetConcat
  <2> QED
    BY <2>1, <2>2
<1> HIDE DEF new
<1>5. new[n] = f /\ \A i \in 1..(n - 1) : new[i] = s[i]
  BY <1>1, <1>2, <1>3, <1>4
<1>6. s[n].msg = f.msg /\ f.msg \in Messages /\ f.msg \in Reachable(root)
  BY <1>1 DEF StackInv, n, Frames
<1>7. g.msg \in Messages /\ g.msg \in Reachable(root)
  BY <1>6, IdsFact, ReachableFact
<1>8. \A i \in 1..Len(new) :
        \/ i \in 1..n /\ new[i].msg = s[i].msg
        \/ i = n + 1 /\ new[i] = g
  <2> TAKE i \in 1..Len(new)
  <2>1. i \in 1..(n - 1) \/ i = n \/ i = n + 1
    BY <1>1, <1>4
  <2> QED
    BY <1>1, <1>4, <1>5, <1>6, <2>1
<1>9. \A i \in 1..Len(new) : FrameInv(new[i], Pending(new, i))
  <2> TAKE i \in 1..Len(new)
  <2>1. CASE i = n + 1
    <3>1. Pending(new, i) = {}
      BY <1>1, <1>4, <2>1 DEF Pending
    <3> QED
      BY <1>4, <2>1, <3>1
  <2>2. CASE i = n
    <3>1. Pending(new, i) = {g.msg}
      BY <1>1, <1>4, <2>2 DEF Pending
    <3> QED
      BY <1>5, <2>2, <3>1
  <2>3. CASE i \in 1..(n - 1)
    <3>1. i \in 1..n /\ i < n /\ i + 1 \in 1..Len(new) /\ i + 1 # n + 1 /\ i < Len(new)
      BY <1>1, <1>4, <2>3
    <3>2. new[i + 1].msg = s[i + 1].msg
      BY <1>8, <3>1
    <3>3. Pending(new, i) = Pending(s, i)
      BY <3>1, <3>2 DEF Pending, n
    <3>4. FrameInv(s[i], Pending(s, i)) /\ new[i] = s[i]
      BY <1>5, <2>3, <3>1 DEF StackInv, n
    <3> QED
      BY <3>3, <3>4
  <2> QED
    BY <1>1, <1>4, <2>1, <2>2, <2>3
<1>10. \A i \in 1..Len(new) : new[i].msg \in Reachable(root)
  <2> TAKE i \in 1..Len(new)
  <2>1. CASE i \in 1..n /\ new[i].msg = s[i].msg
    BY <2>1 DEF StackInv, n
  <2>2. CASE i = n + 1 /\ new[i] = g
    BY <1>7, <2>2
  <2> QED
    BY <1>8, <2>1, <2>2
<1>11. ASSUME NEW i \in 1..Len(new), NEW j \in 1..Len(new), i < j
       PROVE  Leads(new[i].msg, new[j].msg)
  <2>1. i \in 1..n /\ new[i].msg = s[i].msg
    BY <1>1, <1>4, <1>8, <1>11
  <2>2. CASE j \in 1..n /\ new[j].msg = s[j].msg
    BY <1>11, <2>1, <2>2 DEF StackInv, n
  <2>3. CASE j = n + 1 /\ new[j] = g
    <3>1. i = n \/ i < n
      BY <1>1, <2>1
    <3>2. CASE i = n
      BY <1>6, <2>1, <2>3, <3>2, LeadsFact
    <3>3. CASE i < n
      <4>1. Leads(s[i].msg, f.msg)
        BY <1>1, <1>6, <2>1, <3>3 DEF StackInv, n
      <4>2. s[i].msg \in Messages
        BY <2>1, ElementOfSeq, FrameType DEF n
      <4> QED
        BY <1>6, <2>1, <2>3, <4>1, <4>2, LeadsFact
    <3> QED
      BY <3>1, <3>2, <3>3
  <2> QED
    BY <1>8, <2>2, <2>3
<1>12. root \in Messages /\ new[1].msg = root
  <2>1. s[1].msg = root
    BY DEF StackInv
  <2>2. 1 \in 1..Len(new) /\ 1 # n + 1
    BY <1>1, <1>4
  <2> QED
    BY <1>8, <2>1, <2>2
<1>13. StackInv(new, root)
  BY <1>9, <1>10, <1>11, <1>12 DEF StackInv
<1> QED
  BY <1>4, <1>13 DEF new, mid, n

\* A stack with more frames than there are messages has a message twice, and
\* that message refers to itself through others.
LEMMA RepeatFact ==
  ASSUME db \in Inputs, NEW s \in Seq(Frames), NEW root, StackInv(s, root),
         Len(s) > NumMessages
  PROVE  \E m \in Reachable(root) : Circular(m)
<1> DEFINE n == Len(s)
           f == [i \in 1..n |-> s[i].msg]
<1>1. n \in Nat /\ NumMessages \in Nat /\ n > NumMessages
  BY LenProperties, MappingConstants
<1>2. \A i \in 1..n : s[i].msg \in Messages
  BY ElementOfSeq, FrameType
<1> HIDE DEF n
<1>3. f \in [1..n -> Messages]
  BY <1>2
<1>4. /\ IsFiniteSet(1..n) /\ IsFiniteSet(Messages)
      /\ Cardinality(1..n) = n /\ Cardinality(Messages) = NumMessages
  <2>0. 1 \in Int /\ n \in Int /\ NumMessages \in Int
    BY <1>1
  <2>1. IsFiniteSet(1..n) /\ Cardinality(1..n) = IF 1 > n THEN 0 ELSE n - 1 + 1
    BY <2>0, FS_Interval, Zenon
  <2>2. IsFiniteSet(1..NumMessages)
        /\ Cardinality(1..NumMessages) = IF 1 > NumMessages THEN 0 ELSE NumMessages - 1 + 1
    BY <2>0, FS_Interval, Zenon
  <2> QED
    BY <1>1, <2>1, <2>2 DEF Messages
<1> HIDE DEF f
<1>5. PICK i, j \in 1..n : i # j /\ f[i] = f[j]
  BY <1>1, <1>3, <1>4, FS_PigeonHole
<1>6. s[i].msg = s[j].msg
  BY <1>5 DEF f
<1>7. i < j \/ j < i
  BY <1>1, <1>5
<1>8. Leads(s[i].msg, s[i].msg) /\ s[i].msg \in Reachable(root)
  BY <1>6, <1>7 DEF StackInv, n
<1> QED
  BY <1>8 DEF Leads, Circular

-----------------------------------------------------------------------------
(* What holds of one state holds of the next while the database does not   *)
(* change and nothing that was deleted comes back.                         *)

LEMMA SameOperators ==
  ASSUME db' = db
  PROVE  /\ \A m : Ids(m)' = Ids(m)
         /\ \A m : Cited(m)' = Cited(m)
         /\ \A m : LastText(m)' = LastText(m)
         /\ \A m, id : Told(m, id)' = Told(m, id)
         /\ \A m : Assembled(m)' = Assembled(m)
         /\ \A m : Reachable(m)' = Reachable(m)
         /\ \A m : Circular(m)' = Circular(m)
         /\ \A m, k : Leads(m, k)' = Leads(m, k)
         /\ ChannelFound' = ChannelFound
<1>1. \A m : IsFeed(m)' = IsFeed(m) /\ Ids(m)' = Ids(m)
  BY DEF IsFeed, Ids
<1>2. \A m : HasPrevious(m)' = HasPrevious(m)
  BY <1>1 DEF HasPrevious, IsHidden
<1>3. \A m : Cited(m)' = Cited(m)
  BY <1>1 DEF Cited
<1>4. \A m : LastText(m)' = LastText(m)
  BY <1>1, <1>2 DEF LastText
<1>5. \A m, id : Told(m, id)' = Told(m, id)
  BY <1>1, <1>2, <1>4 DEF Told
<1>6. \A m : Assembled(m)' = Assembled(m)
  BY <1>1 DEF Assembled
<1>7. \A m : Reachable(m)' = Reachable(m)
  BY <1>3 DEF Reachable
<1>8. ChannelFound' = ChannelFound
  BY DEF ChannelFound, MembersFound
<1>9. /\ \A m : Circular(m)' = Circular(m)
      /\ \A m, k : Leads(m, k)' = Leads(m, k)
  BY <1>3, <1>7 DEF Circular, Leads
<1> QED
  BY <1>1, <1>3, <1>4, <1>5, <1>6, <1>7, <1>8, <1>9

LEMMA SameFrame ==
  ASSUME db' = db, deleted \subseteq deleted', NEW frame, NEW pending, FrameInv(frame, pending)
  PROVE  FrameInv(frame, pending)'
<1>1. Turns(frame, pending)' = Turns(frame, pending)
  BY SameOperators DEF Turns
<1>2. FoundInv(frame, pending) => FoundInv(frame, pending)'
  BY <1>1, SameOperators DEF FoundInv
<1> QED
  BY <1>2 DEF FrameInv

LEMMA SameStack ==
  ASSUME db' = db, deleted \subseteq deleted', NEW s, NEW root, StackInv(s, root)
  PROVE  StackInv(s, root)'
<1>1. \A i \in 1..Len(s) : FrameInv(s[i], Pending(s, i))'
  BY SameFrame DEF StackInv
<1>2. /\ \A i \in 1..Len(s) : s[i].msg \in Reachable(root)'
      /\ \A i, j \in 1..Len(s) : i < j => Leads(s[i].msg, s[j].msg)'
  BY SameOperators DEF StackInv
<1> QED
  BY <1>1, <1>2 DEF StackInv

LEMMA SameResult ==
  ASSUME db' = db, deleted \subseteq deleted', NEW r, NEW m, ResultInv(r, m)
  PROVE  ResultInv(r, m)'
  BY SameOperators DEF ResultInv

LEMMA SameTask ==
  ASSUME db' = db, deleted \subseteq deleted', excuse \subseteq excuse',
         NEW t \in Tasks, TaskInv(t),
         stack'[t] = stack[t], target'[t] = target[t],
         outcome'[t] = outcome[t], result'[t] = result[t]
  PROVE  TaskInv(t)'
<1>1. StackInv(stack[t], target[t])'
  BY SameStack DEF TaskInv
<1>2. outcome[t] = "ok" => ResultInv(result[t], target[t])'
  BY SameResult DEF TaskInv
<1>3. Excused(t) => Excused(t)'
  BY SameOperators DEF Excused
<1> QED
  BY <1>1, <1>2, <1>3 DEF TaskInv

LEMMA SameOverflow ==
  ASSUME OverflowInv, UNCHANGED <<db, target, overflow>>
  PROVE  OverflowInv'
  BY SameOperators DEF OverflowInv

\* A task only changes its stack.
LEMMA StackChange ==
  ASSUME IInv, NEW t \in Tasks, target[t] # 0,
         NEW s \in Seq(Frames), StackInv(s, target[t]), Len(s) <= StackDepth,
         stack' = [stack EXCEPT ![t] = s],
         UNCHANGED <<db, deleted, target, outcome, result, overflow, excuse>>
  PROVE  /\ stack' \in [Tasks -> Seq(Frames)]
         /\ OverflowInv' /\ \A u \in Tasks : TaskInv(u)'
<1>0. TypeInv /\ OverflowInv /\ \A u \in Tasks : TaskInv(u)
  BY DEF IInv
<1>1. stack' \in [Tasks -> Seq(Frames)] /\ \A u \in Tasks : u # t => stack'[u] = stack[u]
  BY <1>0 DEF TypeInv
<1>2. ASSUME NEW u \in Tasks, u # t PROVE TaskInv(u)'
  BY <1>0, <1>1, <1>2, SameTask
<1>3. TaskInv(t)'
  <2>1. StackInv(s, target[t])'
    BY SameStack
  <2>2. stack'[t] = s /\ target'[t] = target[t]
    BY <1>0 DEF TypeInv
  <2>3. StackInv(stack[t], target[t])'
    BY <2>1, <2>2
  <2>4. outcome[t] = "ok" => ResultInv(result[t], target[t])'
    BY <1>0, SameResult DEF TaskInv
  <2>5. Excused(t) => Excused(t)'
    BY SameOperators DEF Excused
  <2>6. TaskInv(t)
    BY <1>0
  <2> QED
    BY <2>2, <2>3, <2>4, <2>5, <2>6 DEF TaskInv
<1>4. OverflowInv'
  BY <1>0, SameOverflow
<1> QED
  BY <1>1, <1>2, <1>3, <1>4

\* A task gives up for a reason.
LEMMA FailInv ==
  ASSUME IInv, NEW t \in Tasks, target[t] # 0, Fail(t), overflow' = overflow, excuse \subseteq excuse', Excused(t)'
  PROVE  /\ stack' \in [Tasks -> Seq(Frames)]
         /\ outcome' \in [Tasks -> {"none", "ok", "error"}]
         /\ OverflowInv' /\ \A u \in Tasks : TaskInv(u)'
<1>0. TypeInv /\ OverflowInv /\ \A u \in Tasks : TaskInv(u)
  BY DEF IInv
<1>1. /\ stack' = [stack EXCEPT ![t] = <<>>] /\ outcome' = [outcome EXCEPT ![t] = "error"]
      /\ UNCHANGED <<db, deleted, target, result>>
  BY DEF Fail
<1>2. /\ stack' \in [Tasks -> Seq(Frames)]
      /\ outcome' \in [Tasks -> {"none", "ok", "error"}]
      /\ \A u \in Tasks : u # t => stack'[u] = stack[u] /\ outcome'[u] = outcome[u]
  BY <1>0, <1>1, EmptyStack DEF TypeInv
<1>3. ASSUME NEW u \in Tasks, u # t PROVE TaskInv(u)'
  BY <1>0, <1>1, <1>2, <1>3, SameTask
<1>4. TaskInv(t)'
  <2>1. stack'[t] = <<>> /\ outcome'[t] = "error" /\ target'[t] = target[t]
    BY <1>0, <1>1 DEF TypeInv
  <2>2. StackInv(stack[t], target[t])' /\ Len(stack'[t]) <= StackDepth
    BY <2>1, EmptyStack DEF StackInv
  <2>3. target[t] # 0 => target[t] \in Messages
    BY <1>0 DEF TaskInv
  <2> QED
    BY <2>1, <2>2, <2>3 DEF TaskInv
<1>5. OverflowInv'
  BY <1>0, <1>1, SameOverflow
<1> QED
  BY <1>2, <1>3, <1>4, <1>5

\* The innermost frame of a task.
LEMMA TopFact ==
  ASSUME TypeInv, NEW t \in Tasks, TaskInv(t), stack[t] # <<>>
  PROVE  /\ target[t] # 0 /\ target[t] \in Messages
         /\ stack[t] \in Seq(Frames) /\ StackInv(stack[t], target[t])
         /\ Len(stack[t]) <= StackDepth
         /\ Last(stack[t]) \in Frames /\ FrameInv(Last(stack[t]), {})
         /\ Last(stack[t]).msg \in Reachable(target[t])
<1> DEFINE s == stack[t]
<1>1. /\ s \in Seq(Frames) /\ StackInv(s, target[t]) /\ Len(s) <= StackDepth
      /\ target[t] # 0 /\ target[t] \in Messages
  BY DEF TypeInv, TaskInv
<1> HIDE DEF s
<1>2. s # <<>>
  BY DEF s
<1>3. Len(s) \in Nat /\ Len(s) \in 1..Len(s) /\ Last(s) = s[Len(s)]
  BY <1>1, <1>2, LastFact
<1>4. s[Len(s)] \in Frames
  BY <1>1, <1>3, ElementOfSeq
<1>5. Pending(s, Len(s)) = {}
  BY <1>3 DEF Pending
<1>6. FrameInv(s[Len(s)], Pending(s, Len(s))) /\ s[Len(s)].msg \in Reachable(target[t])
  BY <1>1, <1>3 DEF StackInv
<1> QED
  BY <1>1, <1>3, <1>4, <1>5, <1>6 DEF s

-----------------------------------------------------------------------------
(* The actions.                                                            *)

Holding ==
    holding \in SUBSET Tasks /\ IsFiniteSet(holding) /\ Cardinality(holding) <= PoolSize

LEMMA ReleaseFact ==
  ASSUME Holding, NEW t \in Tasks, Release(t)
  PROVE  Holding'
<1>1. holding' = holding \ {t}
  BY DEF Release
<1>2. IsFiniteSet(holding') /\ Cardinality(holding') <= Cardinality(holding)
      /\ Cardinality(holding) \in Nat /\ Cardinality(holding') \in Nat
  <2>1. IsFiniteSet(holding) /\ Cardinality(holding) \in Nat
    BY FS_CardinalityType DEF Holding
  <2>2. /\ IsFiniteSet(holding \ {t})
        /\ Cardinality(holding \ {t}) =
             IF t \in holding THEN Cardinality(holding) - 1 ELSE Cardinality(holding)
    BY <2>1, FS_RemoveElement
  <2>3. Cardinality(holding \ {t}) \in Nat
    BY <2>2, FS_CardinalityType
  <2> QED
    BY <1>1, <2>1, <2>2, <2>3
<1> QED
  BY <1>1, <1>2, MappingConstants DEF Holding

LEMMA AcquireFact ==
  ASSUME Holding, NEW t \in Tasks, Cardinality(holding) < PoolSize,
         holding' = holding \cup {t}
  PROVE  Holding'
<1>1. IsFiniteSet(holding') /\ Cardinality(holding') <= Cardinality(holding) + 1
      /\ Cardinality(holding) \in Nat /\ Cardinality(holding') \in Nat
  <2>1. IsFiniteSet(holding) /\ Cardinality(holding) \in Nat
    BY FS_CardinalityType DEF Holding
  <2>2. /\ IsFiniteSet(holding \cup {t})
        /\ Cardinality(holding \cup {t}) =
             IF t \in holding THEN Cardinality(holding) ELSE Cardinality(holding) + 1
    BY <2>1, FS_AddElement
  <2>3. Cardinality(holding \cup {t}) \in Nat
    BY <2>2, FS_CardinalityType
  <2> QED
    BY <2>1, <2>2, <2>3
<1> QED
  BY <1>1, MappingConstants DEF Holding

\* The innermost frame of t is replaced.
LEMMA ReplaceInv ==
  ASSUME IInv, NEW t \in Tasks, stack[t] # <<>>, Holding',
         NEW f \in Frames, f.msg = Last(stack[t]).msg, FrameInv(f, {}),
         stack' = [stack EXCEPT ![t] = Front(stack[t]) \o <<f>>],
         UNCHANGED <<db, deleted, target, outcome, result, overflow, excuse>>
  PROVE  IInv'
<1>1. /\ target[t] # 0 /\ stack[t] \in Seq(Frames) /\ StackInv(stack[t], target[t])
      /\ Len(stack[t]) <= StackDepth
  BY TopFact DEF IInv
<1> DEFINE s == Front(stack[t]) \o <<f>>
<1>2. s \in Seq(Frames) /\ StackInv(s, target[t]) /\ Len(s) <= StackDepth
  BY <1>1, ReplaceFact
<1> HIDE DEF s
<1>3. stack' = [stack EXCEPT ![t] = s]
  BY DEF s
<1>4. stack' \in [Tasks -> Seq(Frames)] /\ OverflowInv' /\ \A u \in Tasks : TaskInv(u)'
  BY <1>1, <1>2, <1>3, StackChange
<1> QED
  BY <1>4 DEF IInv, TypeInv, Holding

LEMMA SetPhaseInv ==
  ASSUME IInv, NEW t \in Tasks, stack[t] # <<>>, Holding',
         Last(stack[t]).phase # "enrich",
         NEW phase \in {"author", "channel"}, SetPhase(t, phase),
         UNCHANGED <<db, deleted, target, outcome, result, overflow, excuse>>
  PROVE  IInv'
<1> DEFINE top == Last(stack[t])
           f   == [top EXCEPT !.phase = phase]
<1>1. top \in Frames /\ FrameInv(top, {})
  BY TopFact DEF IInv
<1>2. f \in Frames /\ f.msg = top.msg /\ FrameInv(f, {})
  <2> HIDE DEF top
  <2> QED
    BY <1>1, PhaseFact DEF top
<1>3. stack' = [stack EXCEPT ![t] = Front(stack[t]) \o <<f>>]
  BY DEF SetPhase, IInv, TypeInv
<1> HIDE DEF f
<1> QED
  BY <1>2, <1>3, ReplaceInv

LEMMA DeleteInv ==
  ASSUME IInv, NEW m \in Messages, Delete(m)
  PROVE  IInv'
<1>1. /\ deleted' = deleted \cup {m}
      /\ UNCHANGED <<db, holding, stack, target, outcome, result, overflow, excuse>>
  BY DEF Delete
<1>2. \A t \in Tasks : TaskInv(t)'
  BY <1>1, SameTask DEF IInv
<1>3. TypeInv'
  BY <1>1 DEF IInv, TypeInv
<1>4. OverflowInv'
  BY <1>1, SameOverflow DEF IInv
<1> QED
  BY <1>2, <1>3, <1>4 DEF IInv

LEMMA BeginInv ==
  ASSUME IInv, NEW t \in Tasks, NEW m \in Messages, Begin(t, m)
  PROVE  IInv'
<1> DEFINE s == <<Frame(m, "author")>>
<1>1. /\ target[t] = 0 /\ target' = [target EXCEPT ![t] = m]
      /\ stack' = [stack EXCEPT ![t] = s]
      /\ UNCHANGED <<db, deleted, holding, outcome, result, overflow, excuse>>
      /\ overflow = {}
  BY DEF Begin
<1>2. s \in Seq(Frames) /\ StackInv(s, m) /\ Len(s) <= StackDepth
  BY NewFrame, BeginStack DEF IInv, TypeInv
<1> HIDE DEF s
<1>3. TypeInv'
  BY <1>1, <1>2 DEF IInv, TypeInv
<1>4. ASSUME NEW u \in Tasks, u # t PROVE TaskInv(u)'
  <2>1. stack'[u] = stack[u] /\ target'[u] = target[u]
    BY <1>1, <1>4 DEF IInv, TypeInv
  <2> QED
    BY <1>1, <2>1, SameTask DEF IInv
<1>5. TaskInv(t)'
  <2>1. stack'[t] = s /\ target'[t] = m
    BY <1>1 DEF IInv, TypeInv
  <2>2. StackInv(s, m)'
    BY <1>1, <1>2, SameStack
  <2>3. outcome'[t] = "none"
    BY <1>1 DEF IInv, TaskInv
  <2>4. m # 0
    BY MessagesAreNumbers DEF Messages
  <2>5. StackInv(stack[t], target[t])'
    BY <2>1, <2>2
  <2> QED
    BY <1>2, <2>1, <2>3, <2>4, <2>5 DEF TaskInv
<1>6. OverflowInv'
  BY <1>1 DEF OverflowInv
<1> QED
  BY <1>3, <1>4, <1>5, <1>6 DEF IInv

LEMMA AcquireInv ==
  ASSUME IInv, NEW t \in Tasks, Acquire(t)
  PROVE  IInv'
<1>1. Holding'
  BY AcquireFact DEF Acquire, IInv, TypeInv, Holding
<1>2. OverflowInv' /\ \A u \in Tasks : TaskInv(u)'
  BY SameTask, SameOverflow DEF Acquire, IInv
<1> QED
  BY <1>1, <1>2 DEF Acquire, IInv, TypeInv, Holding

LEMMA Released ==
  ASSUME IInv, NEW t \in Tasks, Release(t)
  PROVE  Holding'
  BY ReleaseFact DEF IInv, TypeInv, Holding

LEMMA AuthorInv ==
  ASSUME IInv, NEW t \in Tasks, Author(t)
  PROVE  IInv'
  BY Released, SetPhaseInv DEF Author, In

\* A task fails, having let its connection go.
LEMMA FailsInv ==
  ASSUME IInv, NEW t \in Tasks, stack[t] # <<>>, Fail(t), Holding', overflow' = overflow,
         excuse \subseteq excuse', excuse' \in SUBSET Tasks, Excused(t)'
  PROVE  IInv'
<1>1. target[t] # 0
  BY TopFact DEF IInv
<1>2. /\ stack' \in [Tasks -> Seq(Frames)]
      /\ outcome' \in [Tasks -> {"none", "ok", "error"}]
      /\ OverflowInv' /\ \A u \in Tasks : TaskInv(u)'
  BY <1>1, FailInv
<1>3. UNCHANGED <<db, deleted, target, result>>
  BY DEF Fail
<1> QED
  BY <1>2, <1>3 DEF IInv, TypeInv, Holding

LEMMA ChannelInv ==
  ASSUME IInv, NEW t \in Tasks, Channel(t)
  PROVE  IInv'
<1> DEFINE top == Last(stack[t])
           m   == top.msg
           f   == [top EXCEPT !.phase = "enrich"]
<1>1. stack[t] # <<>> /\ top.phase # "enrich" /\ Holding' /\ UNCHANGED <<overflow, excuse>>
  BY Released DEF Channel, In
<1>2. top \in Frames /\ FrameInv(top, {}) /\ m \in Reachable(target[t]) /\ db \in Inputs
  BY <1>1, TopFact DEF IInv, TypeInv
<1>3. CASE ChannelFound /\ Assembled(m)
  <2>1. stack' = [stack EXCEPT ![t] = Front(stack[t]) \o <<f>>]
        /\ UNCHANGED <<db, deleted, target, outcome, result, overflow, excuse>>
    BY <1>3 DEF Channel, SetPhase, IInv, TypeInv
  <2>2. f \in Frames /\ f.msg = top.msg /\ FrameInv(f, {})
    <3> HIDE DEF top
    <3> QED
      BY <1>1, <1>2, EnrichFact
  <2> HIDE DEF f
  <2> QED
    BY <1>1, <2>1, <2>2, ReplaceInv
<1>4. CASE ~(ChannelFound /\ Assembled(m))
  <2>1. Fail(t)
    BY <1>4 DEF Channel
  <2>2. db' = db /\ target' = target
    BY <2>1 DEF Fail
  <2> HIDE DEF m
  <2>3. Excused(t)'
    BY <1>2, <1>4, <2>2, SameOperators DEF Excused
  <2>4. excuse' \in SUBSET Tasks
    BY <1>1 DEF IInv, TypeInv
  <2> QED
    BY <1>1, <2>1, <2>3, <2>4, FailsInv
<1> QED
  BY <1>3, <1>4

LEMMA QueryErrorInv ==
  ASSUME IInv, NEW t \in Tasks, QueryError(t)
  PROVE  IInv'
<1>1. stack[t] # <<>> /\ Holding'
  BY Released DEF QueryError, Querying, In
<1>2. CASE In(t, "author")
  BY <1>1, <1>2, SetPhaseInv DEF QueryError, In
<1>3. CASE ~In(t, "author")
  <2>1. Fail(t) /\ excuse' = excuse \cup {t} /\ overflow' = overflow
    BY <1>3 DEF QueryError
  <2>2. excuse \subseteq excuse' /\ excuse' \in SUBSET Tasks /\ Excused(t)'
    BY <2>1 DEF IInv, TypeInv, Excused
  <2> QED
    BY <1>1, <2>1, <2>2, FailsInv
<1> QED
  BY <1>2, <1>3

\* The process ends: nothing is mapped any more.
LEMMA OverflowFact ==
  ASSUME IInv, NEW t \in Tasks,
         overflow' = {t}, stack' = [u \in Tasks |-> <<>>], holding' = {},
         UNCHANGED <<db, deleted, target, outcome, result, excuse>>,
         StackDepth < NumMessages \/ \E m \in Reachable(target[t]) : Circular(m)
  PROVE  IInv'
<1>1. OverflowInv'
  BY SameOperators DEF OverflowInv
<1>2. TypeInv'
  <2>1. IsFiniteSet({}) /\ Cardinality({}) = 0 /\ 0 <= PoolSize
    BY FS_EmptySet, MappingConstants
  <2>2. stack' \in [Tasks -> Seq(Frames)]
    BY EmptyStack
  <2> QED
    BY <2>1, <2>2 DEF IInv, TypeInv
<1>3. ASSUME NEW u \in Tasks PROVE TaskInv(u)'
  <2>1. stack'[u] = <<>> /\ TaskInv(u)
    BY DEF IInv
  <2>2. StackInv(stack[u], target[u])' /\ Len(stack'[u]) <= StackDepth
    BY <2>1, EmptyStack DEF StackInv
  <2>3. outcome[u] = "ok" => ResultInv(result[u], target[u])'
    BY <2>1, SameResult DEF TaskInv
  <2>4. Excused(u) => Excused(u)'
    BY SameOperators DEF Excused
  <2> QED
    BY <2>1, <2>2, <2>3, <2>4 DEF TaskInv
<1> QED
  BY <1>1, <1>2, <1>3 DEF IInv

LEMMA AskInv ==
  ASSUME IInv, NEW t \in Tasks, Ask(t)
  PROVE  IInv'
<1> DEFINE top == Last(stack[t])
           id  == Listed(t)
           f   == [top EXCEPT !.next = @ + 1]
           g   == Frame(id, "row")
           s   == Advanced(t) \o <<g>>
<1>1. /\ stack[t] # <<>> /\ top.phase = "enrich" /\ top.next <= Len(Ids(top.msg))
      /\ UNCHANGED <<db, deleted, target, outcome, result, excuse>>
  BY DEF Ask, Asking, In
<1>2. /\ target[t] # 0 /\ target[t] \in Messages /\ stack[t] \in Seq(Frames)
      /\ StackInv(stack[t], target[t]) /\ Len(stack[t]) <= StackDepth
      /\ top \in Frames /\ FrameInv(top, {}) /\ db \in Inputs
  BY <1>1, TopFact DEF IInv, TypeInv
<1>3. /\ f \in Frames /\ f.msg = top.msg /\ id \in Messages
      /\ id = top.msg => FrameInv(f, {})
      /\ id # top.msg => FrameInv(f, {id}) /\ id \in Cited(top.msg)
  <2>1. id = Ids(top.msg)[top.next]
    BY DEF Listed
  <2> HIDE DEF top, id
  <2> QED
    BY <1>1, <1>2, <2>1, AdvanceFact
<1>4. Advanced(t) = Front(stack[t]) \o <<f>>
  BY DEF Advanced
<1>5. Holding
  BY DEF IInv, TypeInv, Holding
<1> HIDE DEF f, id
<1>6. CASE id = top.msg
  <2>1. stack' = [stack EXCEPT ![t] = Front(stack[t]) \o <<f>>] /\ UNCHANGED <<holding, overflow>>
    BY <1>4, <1>6 DEF Ask, id
  <2>2. Holding'
    BY <1>5, <2>1 DEF Holding
  <2> QED
    BY <1>1, <1>3, <1>6, <2>1, <2>2, ReplaceInv
<1>7. CASE id # top.msg
  <2>1. Descend(t)
    BY <1>7 DEF Ask, id
  <2>2. g \in Frames /\ g.msg = id /\ FrameInv(g, {})
    BY <1>3, NewFrame
  <2> HIDE DEF g
  <2>3. s \in Seq(Frames) /\ StackInv(s, target[t]) /\ Len(s) = Len(stack[t]) + 1
    <3>1. f.msg = top.msg /\ g.msg \in Cited(f.msg) /\ FrameInv(f, {g.msg})
      BY <1>3, <1>7, <2>2
    <3>2. s = (Front(stack[t]) \o <<f>>) \o <<g>>
      BY <1>4
    <3> HIDE DEF s
    <3> QED
      BY <1>1, <1>2, <1>3, <2>2, <3>1, <3>2, PushFact
  <2>4. Len(stack[t]) \in Nat /\ StackDepth \in Nat /\ NumMessages \in Nat
    BY <1>2, LenProperties, MappingConstants
  <2>5. CASE Len(stack[t]) < StackDepth
    <3>1. stack' = [stack EXCEPT ![t] = s] /\ UNCHANGED <<holding, overflow>>
      BY <2>1, <2>5 DEF Descend, g, id
    <3> HIDE DEF s
    <3>2. Len(s) <= StackDepth
      BY <2>3, <2>4, <2>5
    <3>3. stack' \in [Tasks -> Seq(Frames)] /\ OverflowInv' /\ \A u \in Tasks : TaskInv(u)'
      BY <1>1, <1>2, <2>3, <3>1, <3>2, StackChange
    <3> QED
      BY <1>1, <3>1, <3>3 DEF IInv, TypeInv
  <2>6. CASE ~(Len(stack[t]) < StackDepth)
    <3>1. overflow' = {t} /\ stack' = [u \in Tasks |-> <<>>] /\ holding' = {}
      BY <2>1, <2>6 DEF Descend
    <3> HIDE DEF s
    <3>2. StackDepth < NumMessages \/ Len(s) > NumMessages
      BY <2>3, <2>4, <2>6
    <3>3. StackDepth < NumMessages \/ \E m \in Reachable(target[t]) : Circular(m)
      BY <1>2, <2>3, <3>2, RepeatFact
    <3> QED
      BY <1>1, <3>1, <3>3, OverflowFact
  <2> QED
    BY <2>5, <2>6
<1> QED
  BY <1>6, <1>7

LEMMA RowInv ==
  ASSUME IInv, NEW t \in Tasks, Row(t)
  PROVE  IInv'
<1> DEFINE s == stack[t]
<1>1. /\ s # <<>> /\ Last(s).phase = "row" /\ Holding'
      /\ UNCHANGED <<db, deleted, target, outcome, result, overflow, excuse>>
  BY Released DEF Row, In
<1>2. CASE Last(s).msg \notin deleted
  BY <1>1, <1>2, SetPhaseInv DEF Row
<1>3. CASE Last(s).msg \in deleted
  <2>1. /\ target[t] # 0 /\ s \in Seq(Frames) /\ StackInv(s, target[t])
        /\ Len(s) <= StackDepth /\ db \in Inputs
    BY <1>1, TopFact DEF IInv, TypeInv
  <2>2. stack' = [stack EXCEPT ![t] = Front(s)]
    BY <1>3 DEF Row, IInv, TypeInv
  <2>3. /\ Front(s) \in Seq(Frames) /\ StackInv(Front(s), target[t])
        /\ Len(Front(s)) <= StackDepth
    <3> HIDE DEF s
    <3>1. CASE Front(s) = <<>>
      BY <3>1, EmptyStack
    <3>2. CASE Front(s) # <<>>
      <4>1. /\ Len(s) \in Nat /\ Len(s) > 0 /\ Front(s) \in Seq(Frames)
            /\ Len(Front(s)) = Len(s) - 1
            /\ \A i \in 1..(Len(s) - 1) : Front(s)[i] = s[i] /\ i \in 1..Len(s)
        BY <1>1, <2>1, LastFact
      <4> DEFINE n == Len(Front(s))
      <4>2. n \in 1..n /\ Last(Front(s)) = Front(s)[n]
        BY <3>2, <4>1, LastFact
      <4>3. FrameInv(Front(s)[n], {})
        BY <1>1, <1>3, <2>1, <3>2, <4>2, OuterFact, SkipFact
      <4>5. n <= StackDepth
        BY <2>1, <4>1, MappingConstants
      <4>4. n \in 1..Len(s) /\ Front(s)[n].msg = s[n].msg
            /\ \A i \in 1..(n - 1) : Front(s)[i] = s[i]
        BY <4>1, <4>2
      <4> QED
        BY <2>1, <4>1, <4>3, <4>4, <4>5, CutFact
    <3> QED
      BY <3>1, <3>2
  <2> DEFINE new == Front(s)
  <2> HIDE DEF new, s
  <2>4. /\ stack' = [stack EXCEPT ![t] = new] /\ new \in Seq(Frames)
        /\ StackInv(new, target[t]) /\ Len(new) <= StackDepth
    BY <2>2, <2>3 DEF new
  <2>5. stack' \in [Tasks -> Seq(Frames)] /\ OverflowInv' /\ \A u \in Tasks : TaskInv(u)'
    BY <1>1, <2>1, <2>4, StackChange
  <2> QED
    BY <1>1, <2>5 DEF IInv, TypeInv, Holding
<1> QED
  BY <1>2, <1>3

LEMMA ReturnInv ==
  ASSUME IInv, NEW t \in Tasks, Return(t)
  PROVE  IInv'
<1> DEFINE s     == stack[t]
           frame == Last(s)
           outer == Front(s)
<1>1. /\ s # <<>> /\ frame.phase = "enrich" /\ ~(frame.next <= Len(Ids(frame.msg)))
      /\ UNCHANGED <<db, deleted, holding, target, overflow, excuse>>
  BY DEF Return, Asking, In
<1>2. /\ target[t] # 0 /\ target[t] \in Messages
      /\ s \in Seq(Frames) /\ StackInv(s, target[t]) /\ Len(s) <= StackDepth
      /\ frame \in Frames /\ FrameInv(frame, {}) /\ db \in Inputs
  BY <1>1, TopFact DEF IInv, TypeInv
<1>3. Complete(frame)
  BY <1>1, <1>2 DEF FrameInv, Complete
<1>4. CASE outer = <<>>
  <2>1. /\ stack' = [stack EXCEPT ![t] = <<>>]
        /\ outcome' = [outcome EXCEPT ![t] = "ok"]
        /\ result' = [result EXCEPT ![t] = Previous(frame)]
    BY <1>4 DEF Return
  <2>2. frame.msg = target[t]
    <3> HIDE DEF s
    <3>1. Len(s) \in Nat /\ Len(s) > 0 /\ frame = s[Len(s)] /\ Len(outer) = Len(s) - 1
      BY <1>1, <1>2, LastFact
    <3>2. Len(outer) = 0
      BY <1>4, EmptySeq
    <3>3. Len(s) = 1
      BY <3>1, <3>2
    <3> QED
      BY <1>1, <1>2, <3>1, <3>3 DEF StackInv
  <2> DEFINE new == Previous(frame)
  <2>3. new \in Seq(Snapshots) /\ ResultInv(new, target[t])
    <3> HIDE DEF frame
    <3> QED
      BY <1>1, <1>2, <1>3, <2>2, PreviousFact
  <2> HIDE DEF new
  <2>4. result' = [result EXCEPT ![t] = new]
    BY <2>1 DEF new
  <2>5. TypeInv'
    BY <1>1, <2>1, <2>3, <2>4, EmptyStack DEF IInv, TypeInv
  <2>6. ASSUME NEW u \in Tasks, u # t PROVE TaskInv(u)'
    <3>1. stack'[u] = stack[u] /\ outcome'[u] = outcome[u] /\ result'[u] = result[u]
      BY <2>1, <2>4, <2>6 DEF IInv, TypeInv
    <3> QED
      BY <1>1, <3>1, SameTask DEF IInv
  <2>7. TaskInv(t)'
    <3>1. /\ stack'[t] = <<>> /\ outcome'[t] = "ok" /\ result'[t] = new
          /\ target'[t] = target[t]
      BY <1>1, <2>1, <2>4 DEF IInv, TypeInv
    <3>2. ResultInv(result'[t], target'[t])
      BY <2>3, <3>1
    <3>3. ResultInv(result[t], target[t])'
      BY <1>1, <3>2, SameResult
    <3>4. StackInv(stack[t], target[t])' /\ Len(stack'[t]) <= StackDepth
      BY <3>1, EmptyStack DEF StackInv
    <3> QED
      BY <1>2, <3>1, <3>3, <3>4 DEF TaskInv
  <2>8. OverflowInv'
    BY <1>1, SameOverflow DEF IInv
  <2> QED
    BY <2>5, <2>6, <2>7, <2>8 DEF IInv
<1>5. CASE outer # <<>>
  <2> DEFINE below == Last(outer)
             f     == [below EXCEPT !.found = below.found \o Snapshot(frame)]
             new   == Front(outer) \o <<f>>
  <2>1. stack' = [stack EXCEPT ![t] = new] /\ UNCHANGED <<outcome, result>>
    BY <1>5 DEF Return, IInv, TypeInv
  <2>2. /\ below \in Frames /\ FrameInv(below, {frame.msg})
        /\ \A x \in Frames : x.msg = below.msg /\ FrameInv(x, {}) =>
              /\ Front(outer) \o <<x>> \in Seq(Frames)
              /\ StackInv(Front(outer) \o <<x>>, target[t])
              /\ Len(Front(outer) \o <<x>>) <= Len(s)
    <3> HIDE DEF s
    <3> QED
      BY <1>1, <1>2, <1>5, OuterFact
  <2>3. f \in Frames /\ f.msg = below.msg /\ FrameInv(f, {})
    <3> HIDE DEF frame, outer, below
    <3> QED
      BY <1>1, <1>2, <1>3, <2>2, ToldFact
  <2>4. new \in Seq(Frames) /\ StackInv(new, target[t]) /\ Len(new) <= Len(s)
    <3> HIDE DEF f, outer, below
    <3> QED
      BY <2>2, <2>3
  <2> HIDE DEF new
  <2>6. Len(new) <= StackDepth
    <3>1. Len(new) \in Nat /\ Len(s) \in Nat
      BY <1>2, <2>4, LenProperties
    <3> HIDE DEF s
    <3> QED
      BY <1>2, <2>4, <3>1, MappingConstants
  <2>5. stack' \in [Tasks -> Seq(Frames)] /\ OverflowInv' /\ \A u \in Tasks : TaskInv(u)'
    BY <1>1, <1>2, <2>1, <2>4, <2>6, StackChange
  <2> QED
    BY <1>1, <2>1, <2>5 DEF IInv, TypeInv
<1> QED
  BY <1>4, <1>5

-----------------------------------------------------------------------------
(* The invariant and what follows from it.                                 *)

LEMMA InvInit == Init => IInv
<1> SUFFICES ASSUME Init PROVE IInv
  OBVIOUS
<1>1. TypeInv
  <2>1. IsFiniteSet({}) /\ Cardinality({}) = 0
    BY FS_EmptySet
  <2>2. <<>> \in Seq(Frames) /\ <<>> \in Seq(Snapshots)
    BY EmptySeq
  <2>3. 0 <= PoolSize
    BY MappingConstants
  <2> QED
    BY <2>1, <2>2, <2>3 DEF Init, TypeInv
<1>2. OverflowInv /\ \A t \in Tasks : TaskInv(t)
  BY EmptyStack DEF Init, OverflowInv, TaskInv
<1> QED
  BY <1>1, <1>2 DEF IInv

LEMMA SameInv ==
  ASSUME IInv, UNCHANGED vars
  PROVE  IInv'
<1>1. /\ db' = db /\ deleted' = deleted /\ holding' = holding /\ stack' = stack
      /\ target' = target /\ outcome' = outcome /\ result' = result
      /\ overflow' = overflow /\ excuse' = excuse
  BY DEF vars
<1>2. OverflowInv' /\ \A t \in Tasks : TaskInv(t)'
  BY <1>1, SameTask, SameOverflow DEF IInv
<1> QED
  BY <1>1, <1>2 DEF IInv, TypeInv

LEMMA InvStep == IInv /\ [Next]_vars => IInv'
<1> SUFFICES ASSUME IInv, [Next]_vars PROVE IInv'
  OBVIOUS
<1>1. ASSUME NEW m \in Messages, Delete(m) PROVE IInv'
  BY <1>1, DeleteInv
<1>2. ASSUME NEW t \in Tasks, NEW m \in Messages, Begin(t, m) PROVE IInv'
  BY <1>2, BeginInv
<1>3. ASSUME NEW t \in Tasks, Acquire(t) PROVE IInv'
  BY <1>3, AcquireInv
<1>4. ASSUME NEW t \in Tasks, Author(t) PROVE IInv'
  BY <1>4, AuthorInv
<1>5. ASSUME NEW t \in Tasks, Channel(t) PROVE IInv'
  BY <1>5, ChannelInv
<1>6. ASSUME NEW t \in Tasks, QueryError(t) PROVE IInv'
  BY <1>6, QueryErrorInv
<1>7. ASSUME NEW t \in Tasks, Ask(t) PROVE IInv'
  BY <1>7, AskInv
<1>8. ASSUME NEW t \in Tasks, Row(t) PROVE IInv'
  BY <1>8, RowInv
<1>9. ASSUME NEW t \in Tasks, Return(t) PROVE IInv'
  BY <1>9, ReturnInv
<1>10. CASE UNCHANGED vars
  BY <1>10, SameInv
<1> QED
  BY <1>1, <1>2, <1>3, <1>4, <1>5, <1>6, <1>7, <1>8, <1>9, <1>10 DEF Next

\* The invariant holds whatever the tasks map, whichever queries fail and
\* whatever the messenger deletes meanwhile.
THEOREM Invariance == Spec => []IInv
  BY InvInit, InvStep, PTL DEF Spec

\* Every variable has its type; the pool is never overdrawn, and no task maps
\* more messages inside one another than its stack has room for.
THEOREM TypeCorrect == Spec => []TypeOK
<1>1. IInv => TypeOK
  <2> SUFFICES ASSUME IInv PROVE TypeOK
    OBVIOUS
  <2>1. \A t \in Tasks : Len(stack[t]) <= StackDepth
    BY DEF IInv, TaskInv
  <2>2. \A t \in Tasks : ToSet(stack[t]) \subseteq Frames
    BY ToSetFact DEF IInv, TypeInv
  <2>3. \A t \in Tasks : ToSet(result[t]) \subseteq Snapshots
    BY ToSetFact DEF IInv, TypeInv
  <2> QED
    BY <2>1, <2>2, <2>3 DEF IInv, TypeInv, TypeOK
<1> QED
  BY <1>1, Invariance, PTL

\* map_message maps a message inside its own mapping only if the message refers
\* to itself through other feeds, and without such a circle a stack with room
\* for as many mappings as there are messages does not overflow.
THEOREM RecursionTheorem == Spec => []RecursesOnlyInCircles
<1>1. IInv => RecursesOnlyInCircles
  <2> SUFFICES ASSUME IInv PROVE RecursesOnlyInCircles
    OBVIOUS
  <2>1. ASSUME NEW t \in Tasks, NEW i \in 1..Len(stack[t]), NEW j \in 1..Len(stack[t]),
               i < j, stack[t][i].msg = stack[t][j].msg
        PROVE  Circular(stack[t][i].msg)
    <3>1. Leads(stack[t][i].msg, stack[t][j].msg)
      BY <2>1 DEF IInv, TaskInv, StackInv
    <3> QED
      BY <2>1, <3>1 DEF Leads, Circular
  <2> QED
    BY <2>1 DEF IInv, OverflowInv, RecursesOnlyInCircles
<1> QED
  BY <1>1, Invariance, PTL

\* What get_channel finds, told by the rows that a channel of each kind needs.
LEMMA WholeRoomIsFound == RoomIsWhole => ChannelFound
  BY DEF RoomIsWhole, ChannelFound, MembersFound

\* A message is lost to an error only for a failed query, a row that get_channel
\* needs and the tables lack, or a broken feed among the messages it refers to.
THEOREM ReasonTheorem == Spec => []FailsForAReason
<1>1. IInv => FailsForAReason
  BY WholeRoomIsFound DEF IInv, TaskInv, Excused, FailsForAReason
<1> QED
  BY <1>1, Invariance, PTL

\* The event of a feed tells the last text of each message the feed is about,
\* unless the message was deleted meanwhile, and no message more often than the
\* feed lists it.
THEOREM PreviousTheorem == Spec => []PreviousIsRight
<1>1. IInv => PreviousIsRight
  BY DEF IInv, TaskInv, ResultInv, PreviousIsRight
<1> QED
  BY <1>1, Invariance, PTL
=============================================================================
