--------------------------- MODULE ActionProcessor ---------------------------
(***************************************************************************)
(* The thread that talks to Android (src/android/action.rs, api.rs,        *)
(* intent.rs).  gRPC handlers put actions into an unbounded mpsc queue and *)
(* answer at once; one thread takes them one after the other, builds an    *)
(* intent for each part of an action and asks the activity manager to      *)
(* start it.  A call that fails is repeated once with the signature of an  *)
(* older Android.  SendMedia in single mode is one call per file, and      *)
(* stops at the first file that fails; every other action is one call.     *)
(*                                                                         *)
(* An action is its number in the order of the queue, its kind and how     *)
(* many parts it has.  A call of the activity manager ends in one of three *)
(* ways: it returns and the manager has taken the intent; it returns, and  *)
(* its result says that the manager has not (a negative START_ code of     *)
(* startActivity, no or a "!" ComponentName of startService); or it fails  *)
(* without effect.  The code looks at no result: the second is to it the   *)
(* first, no older signature is tried and the next file follows.           *)
(***************************************************************************)
EXTENDS Naturals, Sequences

CONSTANTS
    MaxActions,    \* bound: actions the handlers ever enqueue
    MaxParts       \* bound: files of one SendMedia

ASSUME ActionConstants ==
    /\ MaxActions \in Nat
    /\ MaxParts \in Nat \ {0}

Kinds == {"Reply", "MarkRead", "EnterChannel", "SendMedia", "SendMediaMultiple"}
Actions == [kind : Kinds, parts : 1..MaxParts]
Numbers == 1..MaxActions

VARIABLES
    accepted,  \* actions whose caller was answered OK, in queue order
    refused,   \* some caller was answered UNAVAILABLE
    taken,     \* how many actions the thread has received
    thread,    \* "attach", "recv", "build", "call", "fallback", "stopped"
    part,      \* the part of action number taken that is being handled
    started,   \* <<number, part>> of the intents the manager took, in order
    declined,  \* <<number, part>> of those it declined in a result
    outcome    \* outcome[n]: "none", or what process returned, "ok" or "err"

vars == <<accepted, refused, taken, thread, part, started, declined, outcome>>

TypeOK ==
    /\ accepted \in Seq(Actions) /\ Len(accepted) <= MaxActions
    /\ refused \in BOOLEAN
    /\ taken \in 0..Len(accepted)
    /\ thread \in {"attach", "recv", "build", "call", "fallback", "stopped"}
    /\ part \in 1..MaxParts
    /\ started \in Seq(Numbers \X (1..MaxParts))
    /\ declined \subseteq Numbers \X (1..MaxParts)
    /\ outcome \in [Numbers -> {"none", "ok", "err"}]

Init ==
    /\ accepted = <<>> /\ refused = FALSE
    /\ taken = 0 /\ thread = "attach" /\ part = 1
    /\ started = <<>> /\ declined = {}
    /\ outcome = [n \in Numbers |-> "none"]

-----------------------------------------------------------------------------
(* The handlers.                                                           *)

\* reply, mark_read, enter_channel, send_media, send_media_by_chunk: the
\* answer says that the action is queued, not that it is done.
Enqueue(action) ==
    /\ thread # "stopped"
    /\ Len(accepted) < MaxActions
    /\ action.parts = 1 \/ action.kind = "SendMedia"
    /\ accepted' = Append(accepted, action)
    /\ UNCHANGED <<refused, taken, thread, part, started, declined, outcome>>

\* The receiver is gone: "Android action processor stopped".
EnqueueError ==
    /\ thread = "stopped"
    /\ refused' = TRUE
    /\ UNCHANGED <<accepted, taken, thread, part, started, declined, outcome>>

-----------------------------------------------------------------------------
(* The thread.                                                             *)

\* attach_current_thread_guard and AndroidHiddenApi::new succeed ...
Attach ==
    /\ thread = "attach"
    /\ thread' = "recv"
    /\ UNCHANGED <<accepted, refused, taken, part, started, declined, outcome>>

\* ... or the thread panics; what was queued meanwhile is lost.  (Cargo.toml
\* has a release build abort here: then nobody is left to refuse anything.)
AttachError ==
    /\ thread = "attach"
    /\ thread' = "stopped"
    /\ UNCHANGED <<accepted, refused, taken, part, started, declined, outcome>>

Receive ==
    /\ thread = "recv"
    /\ taken < Len(accepted)
    /\ taken' = taken + 1
    /\ part' = 1
    /\ thread' = "build"
    /\ UNCHANGED <<accepted, refused, started, declined, outcome>>

\* process returns; an error is logged, and the next action is received.
Finish(result) ==
    /\ outcome' = [outcome EXCEPT ![taken] = result]
    /\ thread' = "recv"
    /\ UNCHANGED <<accepted, refused, taken, part>>

\* Fault: a file that fails does not end the loop over the files.
FinishUnlessMoreFiles(result) ==
    IF part < accepted[taken].parts
    THEN /\ part' = part + 1
         /\ thread' = "build"
         /\ UNCHANGED <<accepted, refused, taken, outcome>>
    ELSE Finish(result)

\* The intent of this part is put together ...
Build ==
    /\ thread = "build"
    /\ thread' = "call"
    /\ UNCHANGED <<accepted, refused, taken, part, started, declined, outcome>>

\* Fault: the loop goes on to the next file.
AbandonFileOnly == FinishUnlessMoreFiles("err")

\* The error arms below return from process at once.
Abandon == Finish("err")

\* ... or one of its JNI calls fails.
BuildError ==
    /\ thread = "build"
    /\ Abandon
    /\ UNCHANGED <<started, declined>>

\* Fault: off by one at the last file.
NextPartOneMore ==
    IF part <= accepted[taken].parts
    THEN /\ part' = part + 1
         /\ thread' = "build"
         /\ UNCHANGED <<accepted, refused, taken, outcome>>
    ELSE Finish("ok")

\* A call has returned: on to the next file, 100 ms later, or done.
NextPart ==
    IF part < accepted[taken].parts
    THEN /\ part' = part + 1
         /\ thread' = "build"
         /\ UNCHANGED <<accepted, refused, taken, outcome>>
    ELSE Finish("ok")

\* It has returned and the manager has taken this part.
PartStarted ==
    /\ started' = Append(started, <<taken, part>>)
    /\ UNCHANGED declined
    /\ NextPart

\* It has returned, and the result that nobody reads says that the manager has
\* not taken it.
PartDeclined ==
    /\ declined' = declined \cup {<<taken, part>>}
    /\ UNCHANGED started
    /\ NextPart

\* Fault: the older signature is tried whatever the first call returned.
CallAndFallback ==
    /\ thread = "call"
    /\ started' = Append(started, <<taken, part>>)
    /\ thread' = "fallback"
    /\ UNCHANGED <<accepted, refused, taken, part, declined, outcome>>

\* startService or startActivity of the current Android
Call ==
    /\ thread = "call"
    /\ PartStarted

CallDeclined ==
    /\ thread = "call"
    /\ PartDeclined

\* Fault: the error of the first call ends the thread.
CallErrorUnwrapped ==
    /\ thread = "call"
    /\ thread' = "stopped"
    /\ UNCHANGED <<accepted, refused, taken, part, started, declined, outcome>>

CallError ==
    /\ thread = "call"
    /\ thread' = "fallback"
    /\ UNCHANGED <<accepted, refused, taken, part, started, declined, outcome>>

\* startService without a feature id, or startActivityAsUser
Fallback ==
    /\ thread = "fallback"
    /\ PartStarted

FallbackDeclined ==
    /\ thread = "fallback"
    /\ PartDeclined

FallbackError ==
    /\ thread = "fallback"
    /\ Abandon
    /\ UNCHANGED <<started, declined>>

-----------------------------------------------------------------------------
Thread ==
    \/ Attach
    \/ AttachError
    \/ Receive
    \/ Build
    \/ BuildError
    \/ Call
    \/ CallDeclined
    \/ CallError
    \/ Fallback
    \/ FallbackDeclined
    \/ FallbackError

Next ==
    \/ \E action \in Actions : Enqueue(action)
    \/ EnqueueError
    \/ Attach
    \/ AttachError
    \/ Receive
    \/ Build
    \/ BuildError
    \/ Call
    \/ CallDeclined
    \/ CallError
    \/ Fallback
    \/ FallbackDeclined
    \/ FallbackError

Spec == Init /\ [][Next]_vars

\* The thread is scheduled and its calls return.
FairSpec == Spec /\ WF_vars(Thread)

-----------------------------------------------------------------------------
(* Properties.                                                             *)

Before(a, b) == a[1] < b[1] \/ (a[1] = b[1] /\ a[2] < b[2])

\* The manager sees the parts of all actions in the order of the queue, and
\* none twice, though every call may be made twice.
StartedInOrder ==
    \A i, j \in 1..Len(started) : i < j => Before(started[i], started[j])

Parts(n) == {started[i][2] : i \in {k \in 1..Len(started) : started[k][1] = n}}

Declined(n) == {p \in 1..MaxParts : <<n, p>> \in declined}
Offered(n) == Parts(n) \cup Declined(n)

\* The files of an action that were started, and those the manager declined in
\* a result, are different ones and together its first files: a file that does
\* not start holds up those behind it exactly if its call failed, and process
\* reports success exactly when no call did.  So success says that every file
\* was offered, not that one was started; and a hole among the started files
\* is always a declined one.  Nothing of an action still in the queue is
\* offered.
StartedUnlessDeclined ==
    \A n \in 1..Len(accepted) :
        /\ Parts(n) \cap Declined(n) = {}
        /\ \E k \in 0..accepted[n].parts : Offered(n) = 1..k
        /\ outcome[n] = "ok" <=> Offered(n) = 1..accepted[n].parts
        /\ n > taken => Offered(n) = {} /\ outcome[n] = "none"

\* Every accepted action is worked off, failures of others notwithstanding,
\* unless the thread could not come up at all.
AcceptedIsWorkedOff ==
    \A n \in Numbers :
        n <= Len(accepted) ~> (outcome[n] # "none" \/ (thread = "stopped" /\ taken = 0))
=============================================================================
