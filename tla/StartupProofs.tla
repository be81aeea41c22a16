--------------------------- MODULE StartupProofs ---------------------------
(***************************************************************************)
(* Proof that the server comes up only on devices it can come up on, and   *)
(* ends in failure only on others, or on those whose action thread cannot  *)
(* attach, whatever users there are and whatever state the device is in,   *)
(* for both kinds of builds.                                               *)
(*                                                                         *)
(* Every step of main settles one conjunct of CanServe (Settled), and some *)
(* leave a mark in a variable (Marked); the invariant says which at which  *)
(* step, what the action thread knows by then, and that a start that has   *)
(* failed had a reason.                                                    *)
(***************************************************************************)
EXTENDS Startup, TLAPS

\* The steps that come after each thing that main finds or does.
Up == {"serve", "stopped"}
AfterReflection == {"listen"} \cup Up
AfterAddress == {"reflection"} \cup AfterReflection
AfterSpawn == {"address"} \cup AfterAddress
AfterRegister == {"spawn"} \cup AfterSpawn
AfterVm == {"register"} \cup AfterRegister
AfterFramework == {"libnativehelper", "libart", "libdvm"} \cup AfterVm
AfterOpen == {"vm"} \cup AfterFramework
AfterLoad == {"open"} \cup AfterOpen

DataFound == 0 \in device.installed \/ (device.mirror /\ ConfiguredUser \in device.installed)
VmWorks ==
    IF device.helper = "absent"
    THEN "works" \in {device.art, device.dvm}
    ELSE device.helper = "works"
NativesWork ==
    \/ device.register = "works"
    \/ device.register = "absent" /\ device.legacy = "works"

\* What is known of the device once main is at step s.
Settled(s) ==
    /\ s \in AfterLoad => DataFound /\ Works("settings")
    /\ s \in AfterOpen => Works("databases")
    /\ s \in AfterFramework => Works("framework")
    /\ s \in {"libart", "libdvm"} => device.helper = "absent"
    /\ s = "libdvm" => device.art # "works"
    /\ s \in AfterVm => VmWorks
    /\ s \in AfterRegister => NativesWork
    /\ s \in AfterAddress => Works("address")
    /\ s \in AfterReflection => Works("descriptors")
    /\ s \in Up => Works("port")
    /\ s = "stopped" => device.stdin

\* What main has done by then.
Marked(s) ==
    /\ s \in AfterLoad => appUser \in device.installed
    /\ s \in AfterOpen => polling
    /\ vms = IF s \in AfterVm THEN 1 ELSE 0
    /\ worker = "none" <=> s \notin AfterSpawn

\* The action thread.
WorkerKnows ==
    /\ worker = "ready" => Works("attach")
    /\ worker = "gone" => ~Works("attach") /\ (AbortOnPanic => step = "exited")

Reason == ~CanServe \/ (~Works("attach") /\ worker = "gone" /\ AbortOnPanic)

IInv ==
    /\ TypeOK
    /\ WorkerKnows
    /\ step # "exited" => Settled(step) /\ Marked(step)
    /\ step = "exited" => Reason

-----------------------------------------------------------------------------
\* The candidate that is taken exists, and there is one if and only if user 0
\* or the configured user has data in reach.
LEMMA CandidateFact ==
  ASSUME device \in Devices
  PROVE  /\ FirstExisting = Nobody <=> ~DataFound
         /\ FirstExisting # Nobody =>
              FirstExisting \in Users /\ FirstExisting \in device.installed
<1>1. /\ Candidates[1].exists <=> 0 \in device.installed
      /\ Candidates[2].exists <=> device.mirror /\ ConfiguredUser \in device.installed
      /\ Candidates[3].exists <=> device.mirror /\ 0 \in device.installed
      /\ Candidates[1].user = 0 /\ Candidates[2].user = ConfiguredUser
      /\ Candidates[3].user = 0
  BY DEF Candidates
<1>2. 0 \in Users /\ ConfiguredUser \in Users /\ \A u \in Users : u # Nobody
  BY StartupConstants DEF Users, ConfiguredUser, Devices
<1>3. \A i \in 1..3 : i = 1 \/ i = 2 \/ i = 3
  OBVIOUS
<1>4. (\E i \in 1..3 : Candidates[i].exists) <=> DataFound
  BY <1>1, <1>3 DEF DataFound
<1>5. CASE DataFound
  <2> DEFINE First(i) == /\ Candidates[i].exists
                         /\ \A j \in 1..(i - 1) : ~Candidates[j].exists
  <2>1. \E i \in 1..3 : First(i)
    <3>1. CASE Candidates[1].exists
      <4>1. First(1)
        BY <3>1
      <4> QED
        BY <4>1
    <3>2. CASE ~Candidates[1].exists /\ Candidates[2].exists
      <4>1. \A j \in 1..(2 - 1) : j = 1
        OBVIOUS
      <4>2. First(2)
        BY <3>2, <4>1
      <4> QED
        BY <4>2
    <3>3. CASE ~Candidates[1].exists /\ ~Candidates[2].exists /\ Candidates[3].exists
      <4>1. \A j \in 1..(3 - 1) : j = 1 \/ j = 2
        OBVIOUS
      <4>2. First(3)
        BY <3>3, <4>1
      <4> QED
        BY <4>2
    <3> QED
      BY <1>3, <1>4, <1>5, <3>1, <3>2, <3>3
  <2> DEFINE k == CHOOSE i \in 1..3 : First(i)
  <2>2. k \in 1..3 /\ First(k)
    BY <2>1
  <2>3. FirstExisting = Candidates[k].user
    BY <1>4, <1>5 DEF FirstExisting
  <2>4. Candidates[k].exists /\ (k = 1 \/ k = 2 \/ k = 3)
    BY <1>3, <2>2
  <2> HIDE DEF k
  <2>5. Candidates[k].user \in Users /\ Candidates[k].user \in device.installed
    BY <1>1, <1>2, <2>4
  <2> QED
    BY <1>2, <1>5, <2>3, <2>5
<1>6. CASE ~DataFound
  BY <1>4, <1>6 DEF FirstExisting
<1> QED
  BY <1>5, <1>6

-----------------------------------------------------------------------------
LEMMA InvInit == Init => IInv
<1> SUFFICES ASSUME Init PROVE IInv
  OBVIOUS
<1>1. /\ device \in Devices /\ step = "load" /\ appUser = Nobody
      /\ polling = FALSE /\ vms = 0 /\ worker = "none"
  BY DEF Init
<1>2. TypeOK
  <2>1. polling \in BOOLEAN
    BY <1>1, Zenon
  <2>2. vms \in 0..1 /\ step \in Steps /\ worker \in {"none", "attaching", "ready", "gone"}
    BY <1>1 DEF Steps
  <2>3. device \in Devices /\ appUser \in Users \cup {Nobody}
    BY <1>1
  <2> QED
    BY <2>1, <2>2, <2>3, Zenon DEF TypeOK
<1>3. "load" \notin AfterLoad \cup {"libart", "libdvm", "stopped"}
  BY DEF AfterLoad, AfterOpen, AfterFramework, AfterVm, AfterRegister, AfterSpawn,
     AfterAddress, AfterReflection, Up
<1>4. Settled("load") /\ Marked("load")
  BY <1>1, <1>3 DEF Settled, Marked, AfterLoad, AfterOpen, AfterFramework, AfterVm,
     AfterRegister, AfterSpawn, AfterAddress, AfterReflection
<1> QED
  BY <1>1, <1>2, <1>4 DEF IInv, WorkerKnows

-----------------------------------------------------------------------------
(* The steps of main.                                                      *)

\* What is said of the device alone does not change.
LEMMA SameDevice ==
  ASSUME device' = device
  PROVE  /\ \A s : Settled(s)' <=> Settled(s)
         /\ CanServe' <=> CanServe
         /\ \A p : Works(p)' <=> Works(p)
  BY DEF Settled, CanServe, DataFound, VmWorks, NativesWork, ConfiguredUser, Works

\* One broken part, besides the action thread, is enough.
LEMMA BrokenFact ==
  ASSUME NEW p \in Parts \ {"attach"}, ~Works(p)
  PROVE  ~CanServe
  BY DEF CanServe, Works

\* main goes on: what the next step stands for has been seen to.
LEMMA OnStep ==
  ASSUME IInv, NEW next \in Steps \ {"exited"}, step \notin {"exited", "stopped"},
         step' = next, device' = device, TypeOK', Settled(next), Marked(next)',
         \/ worker' = worker
         \/ worker' = "attaching"
  PROVE  IInv'
<1>1. Settled(step)'
  BY SameDevice
<1>2. WorkerKnows'
  BY SameDevice DEF IInv, WorkerKnows
<1> QED
  BY <1>1, <1>2 DEF IInv

LEMMA GoStep ==
  ASSUME IInv, NEW next \in Steps \ {"exited"}, step \notin {"exited", "stopped"},
         Go(next), Settled(next), Marked(next)
  PROVE  IInv'
<1>1. step' = next /\ UNCHANGED <<device, appUser, polling, vms, worker>>
  BY DEF Go
<1>2. TypeOK'
  BY <1>1 DEF IInv, TypeOK
<1>3. Marked(next)'
  BY <1>1 DEF Marked
<1> QED
  BY <1>1, <1>2, <1>3, OnStep

LEMMA ExitStep ==
  ASSUME IInv, Go("exited"), ~CanServe
  PROVE  IInv'
<1>1. step' = "exited" /\ UNCHANGED <<device, appUser, polling, vms, worker>>
  BY DEF Go
<1>2. TypeOK'
  BY <1>1 DEF IInv, TypeOK, Steps
<1>3. ~CanServe' /\ WorkerKnows'
  BY <1>1, SameDevice DEF IInv, WorkerKnows
<1> QED
  BY <1>1, <1>2, <1>3 DEF IInv, Reason

LEMMA LoadStep ==
  ASSUME IInv, Load
  PROVE  IInv'
<1>1. /\ step = "load" /\ device \in Devices /\ TypeOK /\ Marked("load")
  BY DEF Load, IInv, TypeOK
<1>2. CASE FirstExisting = Nobody \/ ~Works("settings")
  <2>1. ~CanServe
    BY <1>1, <1>2, CandidateFact, BrokenFact DEF CanServe, DataFound, Parts
  <2> QED
    BY <1>2, <2>1, ExitStep DEF Load
<1>3. CASE ~(FirstExisting = Nobody \/ ~Works("settings"))
  <2>1. /\ step' = "open" /\ appUser' = FirstExisting
        /\ UNCHANGED <<device, polling, vms, worker>>
    BY <1>3 DEF Load
  <2>2. DataFound /\ FirstExisting \in Users /\ FirstExisting \in device.installed
    BY <1>1, <1>3, CandidateFact
  <2>3. TypeOK' /\ "open" \in Steps
    BY <1>1, <2>1, <2>2 DEF TypeOK, Steps
  <2>4. Settled("open") /\ Marked("open")'
    BY <1>1, <1>3, <2>1, <2>2 DEF Settled, Marked, AfterLoad, AfterOpen, AfterFramework,
       AfterVm, AfterRegister, AfterSpawn, AfterAddress, AfterReflection, Up
  <2> QED
    BY <1>1, <2>1, <2>3, <2>4, OnStep
<1> QED
  BY <1>2, <1>3

LEMMA OpenStep ==
  ASSUME IInv, OpenAndPoll
  PROVE  IInv'
<1>1. step = "open" /\ Settled("open") /\ Marked("open") /\ TypeOK
  BY DEF OpenAndPoll, IInv
<1>2. CASE Works("databases")
  <2>1. /\ step' = "vm" /\ polling' = TRUE
        /\ UNCHANGED <<device, appUser, vms, worker>>
    BY <1>2 DEF OpenAndPoll
  <2>2. TypeOK' /\ "vm" \in Steps
    BY <1>1, <2>1 DEF TypeOK, Steps
  <2>3. Settled("vm") /\ Marked("vm")'
    BY <1>1, <1>2, <2>1 DEF Settled, Marked, AfterLoad, AfterOpen, AfterFramework,
       AfterVm, AfterRegister, AfterSpawn, AfterAddress, AfterReflection, Up
  <2> QED
    BY <1>1, <2>1, <2>2, <2>3, OnStep
<1>3. CASE ~Works("databases")
  BY <1>3, BrokenFact, ExitStep DEF OpenAndPoll, Parts
<1> QED
  BY <1>2, <1>3

\* A step that is passed if one part works.
LEMMA PartStep ==
  ASSUME IInv, NEW p \in Parts \ {"attach"}, NEW next \in Steps \ {"exited"},
         step \notin {"exited", "stopped"}, Go(IF Works(p) THEN next ELSE "exited"),
         Works(p) => Settled(next) /\ Marked(next)
  PROVE  IInv'
<1>1. CASE Works(p)
  BY <1>1, GoStep
<1>2. CASE ~Works(p)
  BY <1>2, BrokenFact, ExitStep
<1> QED
  BY <1>1, <1>2

LEMMA PartSteps ==
  ASSUME IInv, OpenFramework \/ ParseAddress \/ BuildReflection \/ Listen
  PROVE  IInv'
<1> USE DEF Settled, Marked, AfterLoad, AfterOpen, AfterFramework, AfterVm,
            AfterRegister, AfterSpawn, AfterAddress, AfterReflection, Up
<1>1. CASE OpenFramework
  <2>1. step = "vm" /\ Go(IF Works("framework") THEN "libnativehelper" ELSE "exited")
    BY <1>1 DEF OpenFramework
  <2>2. Works("framework") => Settled("libnativehelper") /\ Marked("libnativehelper")
    BY <2>1 DEF IInv
  <2> QED
    BY <2>1, <2>2, PartStep DEF Steps, Parts
<1>2. CASE ParseAddress
  <2>1. step = "address" /\ Go(IF Works("address") THEN "reflection" ELSE "exited")
    BY <1>2 DEF ParseAddress
  <2>2. Works("address") => Settled("reflection") /\ Marked("reflection")
    BY <2>1 DEF IInv
  <2> QED
    BY <2>1, <2>2, PartStep DEF Steps, Parts
<1>3. CASE BuildReflection
  <2>1. step = "reflection" /\ Go(IF Works("descriptors") THEN "listen" ELSE "exited")
    BY <1>3 DEF BuildReflection
  <2>2. Works("descriptors") => Settled("listen") /\ Marked("listen")
    BY <2>1 DEF IInv
  <2> QED
    BY <2>1, <2>2, PartStep DEF Steps, Parts
<1>4. CASE Listen
  <2>1. step = "listen" /\ Go(IF Works("port") THEN "serve" ELSE "exited")
    BY <1>4 DEF Listen
  <2>2. Works("port") => Settled("serve") /\ Marked("serve")
    BY <2>1 DEF IInv
  <2> QED
    BY <2>1, <2>2, PartStep DEF Steps, Parts
<1> QED
  BY <1>1, <1>2, <1>3, <1>4

\* A library that works gives the one VM.
LEMMA VmStep ==
  ASSUME IInv, step \in {"libnativehelper", "libart", "libdvm"}, VmWorks,
         vms' = vms + 1, step' = "register", UNCHANGED <<device, appUser, polling, worker>>
  PROVE  IInv'
<1> USE DEF Settled, Marked, AfterLoad, AfterOpen, AfterFramework, AfterVm,
            AfterRegister, AfterSpawn, AfterAddress, AfterReflection, Up
<1>1. vms = 0 /\ TypeOK
  BY DEF IInv
<1>2. TypeOK' /\ "register" \in Steps
  BY <1>1 DEF TypeOK, Steps
<1>3. Settled("register") /\ Marked("register")'
  BY <1>1 DEF IInv
<1> QED
  BY <1>2, <1>3, OnStep

LEMMA LibraryStep ==
  ASSUME IInv, NativeHelper \/ LibArt \/ LibDvm
  PROVE  IInv'
<1> USE DEF Settled, Marked, AfterLoad, AfterOpen, AfterFramework, AfterVm,
            AfterRegister, AfterSpawn, AfterAddress, AfterReflection, Up
<1>1. CASE NativeHelper
  <2>1. step = "libnativehelper" /\ device \in Devices
    BY <1>1 DEF NativeHelper, IInv, TypeOK
  <2>2. CASE device.helper = "works"
    <3>1. VmWorks
      BY <2>2 DEF VmWorks
    <3> QED
      BY <1>1, <2>1, <2>2, <3>1, VmStep DEF NativeHelper, CreateVm
  <2>3. CASE device.helper = "absent"
    <3>1. Go("libart") /\ "libart" \in Steps
      BY <1>1, <2>3 DEF NativeHelper, CreateVm, Steps
    <3>2. Settled("libart") /\ Marked("libart")
      BY <2>1, <2>3 DEF IInv
    <3> QED
      BY <2>1, <3>1, <3>2, GoStep
  <2>4. CASE device.helper \notin {"absent", "works"}
    <3>1. Go("exited") /\ ~CanServe
      BY <1>1, <2>4 DEF NativeHelper, CreateVm, CanServe
    <3> QED
      BY <3>1, ExitStep
  <2> QED
    BY <2>2, <2>3, <2>4
<1>2. CASE LibArt
  <2>1. step = "libart" /\ device.helper = "absent"
    BY <1>2 DEF LibArt, IInv
  <2>2. CASE device.art = "works"
    <3>1. VmWorks
      BY <2>1, <2>2 DEF VmWorks
    <3> QED
      BY <1>2, <2>1, <2>2, <3>1, VmStep DEF LibArt, CreateVm
  <2>3. CASE device.art # "works"
    <3>1. Go("libdvm") /\ "libdvm" \in Steps
      BY <1>2, <2>3 DEF LibArt, CreateVm, Steps
    <3>2. Settled("libdvm") /\ Marked("libdvm")
      BY <2>1, <2>3 DEF IInv
    <3> QED
      BY <2>1, <3>1, <3>2, GoStep
  <2> QED
    BY <2>2, <2>3
<1>3. CASE LibDvm
  <2>1. step = "libdvm" /\ device.helper = "absent" /\ device.art # "works"
    BY <1>3 DEF LibDvm, IInv
  <2>2. CASE device.dvm = "works"
    <3>1. VmWorks
      BY <2>1, <2>2 DEF VmWorks
    <3> QED
      BY <1>3, <2>1, <2>2, <3>1, VmStep DEF LibDvm, CreateVm
  <2>3. CASE device.dvm # "works"
    <3>1. Go("exited") /\ ~CanServe
      BY <1>3, <2>1, <2>3 DEF LibDvm, CreateVm, CanServe
    <3> QED
      BY <3>1, ExitStep
  <2> QED
    BY <2>2, <2>3
<1> QED
  BY <1>1, <1>2, <1>3

LEMMA RegisterStep ==
  ASSUME IInv, Register
  PROVE  IInv'
<1> USE DEF Settled, Marked, AfterLoad, AfterOpen, AfterFramework, AfterVm,
            AfterRegister, AfterSpawn, AfterAddress, AfterReflection, Up
<1>1. /\ step = "register"
      /\ Go(IF NativesWork THEN "spawn" ELSE "exited")
  BY DEF Register, NativesWork
<1>2. CASE NativesWork
  <2>1. Settled("spawn") /\ Marked("spawn") /\ "spawn" \in Steps
    BY <1>1, <1>2 DEF IInv, Steps
  <2> QED
    BY <1>1, <1>2, <2>1, GoStep
<1>3. CASE ~NativesWork
  <2>1. ~CanServe
    BY <1>3 DEF CanServe, NativesWork
  <2> QED
    BY <1>1, <1>3, <2>1, ExitStep
<1> QED
  BY <1>2, <1>3

LEMMA SpawnStep ==
  ASSUME IInv, Spawn
  PROVE  IInv'
<1>1. /\ step = "spawn" /\ worker' = "attaching" /\ step' = "address"
      /\ UNCHANGED <<device, appUser, polling, vms>> /\ TypeOK
  BY DEF Spawn, IInv
<1>2. TypeOK' /\ "address" \in Steps
  BY <1>1 DEF TypeOK, Steps
<1>3. Settled("address") /\ Marked("address")'
  BY <1>1 DEF IInv, Settled, Marked, AfterLoad, AfterOpen, AfterFramework, AfterVm,
     AfterRegister, AfterSpawn, AfterAddress, AfterReflection, Up
<1> QED
  BY <1>1, <1>2, <1>3, OnStep

LEMMA ShutdownStep ==
  ASSUME IInv, Shutdown
  PROVE  IInv'
<1>1. step = "serve" /\ Go("stopped") /\ device.stdin /\ "stopped" \in Steps
  BY DEF Shutdown, Steps
<1>2. Settled("stopped") /\ Marked("stopped")
  BY <1>1 DEF IInv, Settled, Marked, AfterLoad, AfterOpen, AfterFramework, AfterVm,
     AfterRegister, AfterSpawn, AfterAddress, AfterReflection, Up
<1> QED
  BY <1>1, <1>2, GoStep

-----------------------------------------------------------------------------
(* The steps of the action thread.                                         *)

LEMMA WorkerStep ==
  ASSUME IInv, Attach \/ AttachPanic
  PROVE  IInv'
<1>1. /\ worker = "attaching" /\ step \notin {"exited", "stopped"}
      /\ UNCHANGED <<device, appUser, polling, vms>>
      /\ TypeOK /\ Settled(step) /\ Marked(step)
  BY DEF Attach, AttachPanic, Ended, IInv
<1>2. CASE Attach
  <2>1. worker' = "ready" /\ step' = step /\ Works("attach")
    BY <1>2 DEF Attach
  <2>2. TypeOK' /\ Settled(step)'
    BY <1>1, <2>1, SameDevice DEF TypeOK
  <2>3. Marked(step)'
    BY <1>1, <2>1 DEF Marked
  <2>4. WorkerKnows'
    BY <1>1, <2>1, SameDevice DEF WorkerKnows
  <2> QED
    BY <1>1, <2>1, <2>2, <2>3, <2>4 DEF IInv
<1>3. CASE AttachPanic
  <2>1. /\ worker' = "gone" /\ ~Works("attach")
        /\ step' = IF AbortOnPanic THEN "exited" ELSE step
    BY <1>3 DEF AttachPanic
  <2>2. WorkerKnows' /\ ~Works("attach")'
    BY <1>1, <2>1, SameDevice DEF WorkerKnows
  <2>3. CASE AbortOnPanic
    <3>1. TypeOK' /\ step' = "exited"
      BY <1>1, <2>1, <2>3 DEF TypeOK, Steps
    <3> QED
      BY <2>1, <2>2, <2>3, <3>1 DEF IInv, Reason
  <2>4. CASE ~AbortOnPanic
    <3>1. TypeOK' /\ step' = step
      BY <1>1, <2>1, <2>4 DEF TypeOK
    <3>2. Settled(step)' /\ Marked(step)'
      BY <1>1, <2>1, <3>1, SameDevice DEF Marked
    <3> QED
      BY <1>1, <2>2, <3>1, <3>2 DEF IInv
  <2> QED
    BY <2>3, <2>4
<1> QED
  BY <1>2, <1>3

-----------------------------------------------------------------------------
LEMMA InvStep == IInv /\ [Next]_vars => IInv'
<1> SUFFICES ASSUME IInv, [Next]_vars PROVE IInv'
  OBVIOUS
<1>1. CASE UNCHANGED vars
  <2>1. /\ device' = device /\ step' = step /\ appUser' = appUser
        /\ polling' = polling /\ vms' = vms /\ worker' = worker
    BY <1>1 DEF vars
  <2>2. (CanServe' <=> CanServe) /\ (Settled(step)' <=> Settled(step))
    BY <2>1, SameDevice
  <2>3. (TypeOK' <=> TypeOK) /\ (Marked(step)' <=> Marked(step))
    BY <2>1 DEF TypeOK, Marked
  <2>4. (WorkerKnows' <=> WorkerKnows) /\ (Reason' <=> Reason)
    BY <2>1, <2>2 DEF WorkerKnows, Reason, Works
  <2> QED
    BY <2>1, <2>2, <2>3, <2>4 DEF IInv
<1> QED
  BY <1>1, LoadStep, OpenStep, PartSteps, LibraryStep, RegisterStep, SpawnStep,
     ShutdownStep, WorkerStep DEF Next

\* The invariant holds for every second profile, every device and both kinds of
\* builds.
THEOREM Invariance == Spec => []IInv
  BY InvInit, InvStep, PTL DEF Spec

\* Every variable has its type; at most one VM is created in the process.
THEOREM TypeCorrect == Spec => []TypeOK
<1>1. IInv => TypeOK
  BY DEF IInv
<1> QED
  BY <1>1, Invariance, PTL

\* The server comes up only on devices it can come up on: create_android_vm
\* falls back where it may and nowhere else, and no order of the steps of main
\* and of the action thread serves without a poller, a VM, data that exists, an
\* address that could be bound and an action thread.  It ends in failure only
\* on other devices, or because that thread could not attach.
THEOREM ServeTheorem == Spec => []ServesIffItCan
<1>1. ASSUME IInv, step \in Up PROVE CanServe
  <2>1. /\ DataFound /\ VmWorks /\ NativesWork
        /\ \A p \in Parts \ {"attach"} : Works(p)
    BY <1>1 DEF IInv, Settled, Parts, AfterLoad, AfterOpen, AfterFramework, AfterVm,
       AfterRegister, AfterSpawn, AfterAddress, AfterReflection, Up
  <2>2. device.broken \subseteq Parts
    BY <1>1 DEF IInv, TypeOK, Devices
  <2>3. device.broken \subseteq {"attach"}
    BY <2>1, <2>2 DEF Works
  <2> QED
    BY <2>1, <2>3 DEF CanServe, DataFound, VmWorks, NativesWork
<1>2. IInv => ServesIffItCan
  BY <1>1 DEF IInv, Settled, Marked, WorkerKnows, Reason, ServesIffItCan, AfterLoad,
     AfterOpen, AfterFramework, AfterVm, AfterRegister, AfterSpawn, AfterAddress,
     AfterReflection, Up
<1> QED
  BY <1>2, Invariance, PTL
=============================================================================
