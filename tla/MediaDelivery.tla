---------------------------- MODULE MediaDelivery ----------------------------
(***************************************************************************)
(* The media store and the action thread together: an upload that is       *)
(* accepted becomes an action of the queue (src/service.rs), the           *)
(* thread names its files to the messenger in intents, one file at a time  *)
(* or all at once (src/android/action.rs), with other actions in           *)
(* between, while the files age on disk and the cleanup task looks for     *)
(* old ones (src/media.rs).  Both live and die with the process.           *)
(*                                                                         *)
(* Steps of one component are those of ActionProcessor and MediaStore,     *)
(* steps of both are spelled out here.  MediaStore is also what the whole  *)
(* is shown to implement: its queued and receiver are a function of the    *)
(* thread's state.                                                         *)
(***************************************************************************)
EXTENDS ActionProcessor, FiniteSets

CONSTANTS
    Uploads,     \* calls of SendMedia and SendMediaByChunk
    MaxFiles,    \* bound: files of one upload
    MaxChunks,   \* bound: chunks of one file
    Retention,   \* RETENTION in ticks
    NoUpload     \* owner of an action without files

ASSUME DeliveryConstants ==
    /\ NoUpload \notin Uploads
    /\ MaxFiles \in Nat \ {0} /\ MaxFiles <= MaxParts
    /\ MaxChunks \in Nat \ {0}
    /\ Retention \in Nat

VARIABLES
    running, job, disk, age, finished, inflight, broken, handed,
    scan, todo, stale, victim, expired, kept,   \* of MediaStore
    owner      \* owner[n]: the upload of action n, or NoUpload

threadVars == <<vars, owner>>
writeVars  == <<disk, age, finished, inflight, broken>>
cleanVars  == <<scan, todo, stale, victim, expired, kept>>

\* Actions with files that process has not returned from, and never will
\* once the thread is gone.
Queued == IF thread = "stopped" THEN {}
          ELSE {owner[n] : n \in {k \in 1..Len(accepted) : outcome[k] = "none"}} \ {NoUpload}

Receiver == IF ~running \/ thread = "stopped" THEN "gone"
            ELSE IF thread = "attach" THEN "attaching"
            ELSE "up"

Store == INSTANCE MediaStore WITH queued <- Queued, receiver <- Receiver

DeliveryInit ==
    /\ Init /\ owner = <<>>
    /\ Store!Init

-----------------------------------------------------------------------------
(* Steps of one component.                                                 *)

Upload(u) ==
    /\ UNCHANGED threadVars
    /\ \/ \E kind \in {"unary", "chunked"}, n \in 1..MaxFiles : Store!Begin(u, kind, n)
       \/ Store!Cancel(u)
       \/ Store!WriteBegin(u)
       \/ Store!WriteEnd(u)
       \/ Store!WriteError(u)
       \/ Store!EmptyFile(u)
       \/ \E m \in 1..MaxChunks : Store!FileMetadata(u, m)
       \/ Store!Chunk(u)
       \/ Store!ChunkError(u)

Disk(f) ==
    /\ UNCHANGED threadVars
    /\ Store!Land(f) \/ Store!LandError(f) \/ Store!MessengerOpens(f) \/ Store!Visit(f)

Cleanup ==
    /\ UNCHANGED threadVars
    /\ Store!ScanStart \/ Store!Remove \/ Store!RemoveError \/ Store!ScanEnd \/ Store!Tick

\* Steps of the thread that tell the messenger nothing.
Quiet ==
    /\ running
    /\ Attach \/ AttachError \/ Receive \/ Build \/ BuildError
       \/ CallDeclined \/ CallError \/ FallbackDeclined \/ FallbackError
    /\ UNCHANGED <<owner, running, job, writeVars, handed, cleanVars>>

\* reply, mark_read, enter_channel
EnqueueOther ==
    /\ running
    /\ Enqueue([kind |-> "Reply", parts |-> 1])
    /\ owner' = Append(owner, NoUpload)
    /\ UNCHANGED <<running, job, writeVars, handed, cleanVars>>

-----------------------------------------------------------------------------
(* Steps of both.                                                          *)

StoredAll(u) ==
    /\ running
    /\ job[u].phase = "open" /\ job[u].left = 0 /\ job[u].stored = job[u].count

\* media::store and self.enqueue: one action for all files of the upload, of
\* one part if they are sent together.
Accept(u, multiple) ==
    /\ StoredAll(u)
    /\ Enqueue(IF multiple THEN [kind |-> "SendMediaMultiple", parts |-> 1]
               ELSE [kind |-> "SendMedia", parts |-> job[u].count])
    /\ owner' = Append(owner, u)
    /\ job' = [job EXCEPT ![u].phase = "done"]
    /\ UNCHANGED <<running, writeVars, handed, cleanVars>>

Refuse(u) ==
    /\ StoredAll(u)
    /\ EnqueueError
    /\ job' = [job EXCEPT ![u].phase = "refused"]
    /\ UNCHANGED <<owner, running, writeVars, handed, cleanVars>>

\* Fault: the loop hands over the file after the current one.
NextFileOfPart(n, k) ==
    IF owner[n] = NoUpload THEN {}
    ELSE IF accepted[n].kind = "SendMedia" THEN {<<owner[n], k + 1>>}
    ELSE {<<owner[n], i>> : i \in 1..job[owner[n]].count}

\* The files that an intent names.
FilesOfPart(n, k) ==
    IF owner[n] = NoUpload THEN {}
    ELSE IF accepted[n].kind = "SendMedia" THEN {<<owner[n], k>>}
    ELSE {<<owner[n], i>> : i \in 1..job[owner[n]].count}

\* The activity manager takes an intent, and the messenger the files it names.
Deliver ==
    /\ running
    /\ Call \/ Fallback
    /\ handed' = handed \cup FilesOfPart(taken, part)
    /\ UNCHANGED <<owner, running, job, writeVars, cleanVars>>

\* Fault: what was queued survives the process and is sent again.
QueueKept ==
    /\ taken' = 0 /\ thread' = "attach" /\ part' = 1
    /\ outcome' = [n \in Numbers |-> "none"]
    /\ UNCHANGED <<accepted, refused, started, declined, owner>>

\* The queue and the thread go with the process.
ThreadGone ==
    /\ accepted' = <<>> /\ refused' = FALSE
    /\ taken' = 0 /\ thread' = "attach" /\ part' = 1
    /\ started' = <<>> /\ declined' = {}
    /\ outcome' = [n \in Numbers |-> "none"]
    /\ owner' = <<>>

Crash ==
    /\ running /\ running' = FALSE
    /\ ThreadGone
    /\ Store!HandlersGone
    /\ UNCHANGED <<disk, age, finished, handed, expired, kept>>

\* create_dir_all, a new thread and a new cleanup task
Restart ==
    /\ ~running /\ running' = TRUE
    /\ UNCHANGED <<threadVars, job, writeVars, handed, cleanVars>>

-----------------------------------------------------------------------------
DeliveryNext ==
    \/ \E u \in Uploads :
        \/ Upload(u)
        \/ \E multiple \in BOOLEAN : Accept(u, multiple)
        \/ Refuse(u)
    \/ \E f \in Uploads \X (1..MaxFiles) : Disk(f)
    \/ Cleanup
    \/ Quiet
    \/ EnqueueOther
    \/ Deliver
    \/ Crash
    \/ Restart

deliveryVars == <<threadVars, running, job, writeVars, handed, cleanVars>>

DeliverySpec == DeliveryInit /\ [][DeliveryNext]_deliveryVars

-----------------------------------------------------------------------------
(* Properties.                                                             *)

\* With the action thread in its place the media store is what MediaStore
\* says: a file is named to the messenger only while the action of its upload
\* is at work, an action leaves the queue once, and none outlives the process.
ImplementsStore == Store!Spec

\* A file that waits in the queue of the thread, behind other actions and the
\* files before it, or for the messenger to open it, is missing only if it
\* once lay unwritten for longer than RETENTION.
NeededFilesStay == Store!NeededFilesStay
=============================================================================
