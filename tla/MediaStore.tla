---------------------------- MODULE MediaStore ----------------------------
(***************************************************************************)
(* The temporary files of SendMedia and SendMediaByChunk                   *)
(* (src/media.rs, src/service.rs): uploads create them, failed             *)
(* uploads remove them, accepted uploads hand them to the action thread,   *)
(* which names them to the messenger in intents, and a cleanup task        *)
(* removes what has not been written to for RETENTION.  Nobody else ever   *)
(* deletes a file, so the cleanup runs against uploads that are still      *)
(* going on, actions still queued and files the messenger has yet to open. *)
(*                                                                         *)
(* A file is <<u, k>>: the k-th file of upload u, with a fresh UUID as its *)
(* name.  Its content is the question whether all its bytes are on disk.   *)
(* tokio::fs::write (SendMedia) returns after the last byte is written;    *)
(* tokio::fs::File::write_all (SendMediaByChunk) hands the buffer to a     *)
(* blocking task and returns, and the outcome of that write is seen by the *)
(* next operation on the file, if there is one.                            *)
(*                                                                         *)
(* Time is the age of a file since it was last written, in ticks.          *)
(***************************************************************************)
EXTENDS Naturals, FiniteSets

CONSTANTS
    Uploads,     \* calls of SendMedia and SendMediaByChunk
    MaxFiles,    \* bound: files of one upload
    MaxChunks,   \* bound: chunks of one file
    Retention    \* RETENTION in ticks

ASSUME MediaConstants ==
    /\ MaxFiles \in Nat \ {0}
    /\ MaxChunks \in Nat \ {0}
    /\ Retention \in Nat

Files == Uploads \X (1..MaxFiles)
NoFile == <<>>

Phases == {"new", "open", "done", "refused", "failed", "cancelled"}
Jobs == [phase  : Phases,
         kind   : {"unary", "chunked"},
         count  : 0..MaxFiles,      \* files announced
         stored : 0..MaxFiles,      \* stored.len()
         left   : 0..MaxChunks]     \* chunks the current file lacks; 0 = None

VARIABLES
    running,   \* the server process is up
    receiver,  \* its action thread: "attaching", "up" or "gone"
    job,       \* job[u]: the handler of upload u
    disk,      \* files that exist
    age,       \* age[f]: ticks since f was last written, at most Retention + 1
    finished,  \* files all of whose bytes have been given to a write
    inflight,  \* files with a write that has not reached the disk
    broken,    \* files that have lost a write
    queued,    \* uploads whose action waits for the action thread
    handed,    \* files named in an intent and not yet opened by the messenger
    scan,      \* cleanup task: "idle", "scan", or "remove"
    todo,      \* entries the current scan has yet to visit
    stale,     \* entries last modified before the cutoff of this scan
    victim,    \* entry about to be removed
    expired,   \* history: files once idle for more than Retention
    kept       \* history: files a failed upload could not remove

jobVars   == <<running, receiver, job>>
fileVars  == <<disk, age, finished, inflight, broken>>
sendVars  == <<queued, handed>>
cleanVars == <<scan, todo, stale, victim>>
histVars  == <<expired, kept>>
vars == <<jobVars, fileVars, sendVars, cleanVars, histVars>>

TypeOK ==
    /\ running \in BOOLEAN /\ receiver \in {"attaching", "up", "gone"}
    /\ job \in [Uploads -> Jobs]
    /\ disk \in SUBSET Files
    /\ age \in [Files -> 0..(Retention + 1)]
    /\ finished \in SUBSET Files
    /\ inflight \in SUBSET Files
    /\ broken \in SUBSET Files
    /\ queued \in SUBSET Uploads
    /\ handed \in SUBSET Files
    /\ scan \in {"idle", "scan", "remove"}
    /\ todo \in SUBSET Files /\ stale \in SUBSET Files
    /\ victim \in Files \cup {NoFile}
    /\ expired \in SUBSET Files /\ kept \in SUBSET Files

Init ==
    /\ running = TRUE /\ receiver = "attaching"
    /\ job = [u \in Uploads |->
                [phase |-> "new", kind |-> "unary", count |-> 0, stored |-> 0, left |-> 0]]
    /\ disk = {} /\ age = [f \in Files |-> 0]
    /\ finished = {} /\ inflight = {} /\ broken = {}
    /\ queued = {} /\ handed = {}
    /\ scan = "idle" /\ todo = {} /\ stale = {} /\ victim = NoFile
    /\ expired = {} /\ kept = {}

FilesOf(u) == {<<u, k>> : k \in 1..job[u].count}
Stored(u)  == {<<u, k>> : k \in 1..job[u].stored}

Open(u, kind) == running /\ job[u].phase = "open" /\ job[u].kind = kind

\* A write to f reaches the disk: its mtime is now.
Touch(f) ==
    /\ age' = [age EXCEPT ![f] = 0]
    /\ stale' = stale \ {f}

-----------------------------------------------------------------------------
(* Both calls.                                                             *)

\* The request is accepted: at least one file, and a valid mode.
Begin(u, kind, n) ==
    /\ running
    /\ job[u].phase = "new"
    /\ job' = [job EXCEPT ![u] = [phase |-> "open", kind |-> kind, count |-> n,
                                  stored |-> 0, left |-> 0]]
    /\ UNCHANGED <<running, receiver, fileVars, sendVars, cleanVars, histVars>>

\* Fault: the whole directory is emptied.
RemoveDirectory(u) ==
    /\ disk' = {}
    /\ UNCHANGED kept

\* remove_stored: every removal is tried, and its result ignored.
RemoveStored(u) ==
    \E K \in SUBSET (Stored(u) \cap disk) :
        /\ disk' = disk \ (Stored(u) \ K)
        /\ kept' = kept \cup K

\* Fault: an upload may end in the middle of a file.
AcceptIncomplete(u) ==
    /\ running /\ receiver # "gone"
    /\ job[u].phase = "open" /\ job[u].stored = job[u].count
    /\ job' = [job EXCEPT ![u].phase = "done"]
    /\ queued' = queued \cup {u}
    /\ UNCHANGED <<running, receiver, fileVars, handed, cleanVars, histVars>>

\* Everything announced is stored, and the action thread takes the action.
Accept(u) ==
    /\ running /\ receiver # "gone"
    /\ job[u].phase = "open" /\ job[u].left = 0 /\ job[u].stored = job[u].count
    /\ job' = [job EXCEPT ![u].phase = "done"]
    /\ queued' = queued \cup {u}
    /\ UNCHANGED <<running, receiver, fileVars, handed, cleanVars, histVars>>

\* The action thread is gone: UNAVAILABLE, and the files stay.
Refuse(u) ==
    /\ running /\ receiver = "gone"
    /\ job[u].phase = "open" /\ job[u].left = 0 /\ job[u].stored = job[u].count
    /\ job' = [job EXCEPT ![u].phase = "refused"]
    /\ UNCHANGED <<running, receiver, fileVars, sendVars, cleanVars, histVars>>

\* The caller goes away and the handler is dropped where it stands; a write
\* already handed to a blocking task goes on.
Cancel(u) ==
    /\ running
    /\ job[u].phase = "open"
    /\ job' = [job EXCEPT ![u].phase = "cancelled"]
    /\ UNCHANGED <<running, receiver, fileVars, sendVars, cleanVars, histVars>>

-----------------------------------------------------------------------------
(* SendMedia: media::store.                                                *)

\* tokio::fs::write creates the next file ...
WriteBegin(u) ==
    LET f == <<u, job[u].stored + 1>> IN
    /\ Open(u, "unary")
    /\ job[u].left = 0 /\ job[u].stored < job[u].count
    /\ job' = [job EXCEPT ![u].left = 1]
    /\ disk' = disk \cup {f}
    /\ inflight' = inflight \cup {f}
    /\ Touch(f)
    /\ UNCHANGED <<running, receiver, finished, broken, sendVars,
                   scan, todo, victim, histVars>>

\* ... and returns when its last byte is written.
WriteEnd(u) ==
    LET f == <<u, job[u].stored + 1>> IN
    /\ Open(u, "unary")
    /\ job[u].left = 1
    /\ job' = [job EXCEPT ![u].left = 0, ![u].stored = @ + 1]
    /\ inflight' = inflight \ {f}
    /\ finished' = finished \cup {f}
    /\ Touch(f)
    /\ UNCHANGED <<running, receiver, disk, broken, sendVars,
                   scan, todo, victim, histVars>>

\* It fails: the files before it are removed, what it wrote itself is not.
WriteError(u) ==
    LET f == <<u, job[u].stored + 1>> IN
    /\ Open(u, "unary")
    /\ job[u].left = 1
    /\ job' = [job EXCEPT ![u].phase = "failed"]
    /\ inflight' = inflight \ {f}
    /\ broken' = broken \cup {f}
    /\ RemoveStored(u)
    /\ UNCHANGED <<running, receiver, age, finished, sendVars, cleanVars, expired>>

\* The next file has no data.
EmptyFile(u) ==
    /\ Open(u, "unary")
    /\ job[u].left = 0 /\ job[u].stored < job[u].count
    /\ job' = [job EXCEPT ![u].phase = "failed"]
    /\ RemoveStored(u)
    /\ UNCHANGED <<running, receiver, age, finished, inflight, broken, sendVars,
                   cleanVars, expired>>

-----------------------------------------------------------------------------
(* SendMediaByChunk: media::store_chunks.                                  *)

\* Fault: the announced number of files is not enforced.
FileMetadataUncounted(u, m) ==
    LET f == <<u, job[u].stored + 1>> IN
    /\ Open(u, "chunked")
    /\ job[u].left = 0
    /\ job' = [job EXCEPT ![u].left = m, ![u].stored = @ + 1]
    /\ disk' = disk \cup {f}
    /\ Touch(f)
    /\ UNCHANGED <<running, receiver, finished, inflight, broken, sendVars,
                   scan, todo, victim, histVars>>

\* Payload::FileMetadata, for a file of m chunks
FileMetadata(u, m) ==
    LET f == <<u, job[u].stored + 1>> IN
    /\ Open(u, "chunked")
    /\ job[u].left = 0 /\ job[u].stored < job[u].count
    /\ job' = [job EXCEPT ![u].left = m, ![u].stored = @ + 1]
    /\ disk' = disk \cup {f}
    /\ Touch(f)
    /\ UNCHANGED <<running, receiver, finished, inflight, broken, sendVars,
                   scan, todo, victim, histVars>>

\* Payload::Chunk: write_all waits for the write before it, and returns its
\* error; after the last chunk the file is dropped without a flush.
Chunk(u) ==
    LET f == <<u, job[u].stored>> IN
    /\ Open(u, "chunked")
    /\ job[u].left > 0
    /\ f \notin inflight \cup broken
    /\ job' = [job EXCEPT ![u].left = @ - 1]
    /\ inflight' = inflight \cup {f}
    /\ finished' = IF job[u].left = 1 THEN finished \cup {f} ELSE finished
    /\ UNCHANGED <<running, receiver, disk, age, broken, sendVars, cleanVars, histVars>>

\* Fault: an error returns without remove_stored.
ChunkErrorLeaving(u) ==
    /\ Open(u, "chunked")
    /\ job' = [job EXCEPT ![u].phase = "failed"]
    /\ UNCHANGED <<running, receiver, fileVars, sendVars, cleanVars, histVars>>

\* Any error of store_chunks_inner: a message out of place, a size or count
\* that does not fit, a broken stream, a file that cannot be created or written.
ChunkError(u) ==
    /\ Open(u, "chunked")
    /\ job' = [job EXCEPT ![u].phase = "failed"]
    /\ RemoveStored(u)
    /\ UNCHANGED <<running, receiver, age, finished, inflight, broken, sendVars,
                   cleanVars, expired>>

\* A blocking task nobody awaits comes to its end ...
Unawaited(f) ==
    /\ f \in inflight
    /\ ~Open(f[1], "unary")

Land(f) ==
    /\ Unawaited(f)
    /\ inflight' = inflight \ {f}
    /\ Touch(f)
    /\ UNCHANGED <<jobVars, disk, finished, broken, sendVars,
                   scan, todo, victim, histVars>>

\* ... or fails.
LandError(f) ==
    /\ Unawaited(f)
    /\ inflight' = inflight \ {f}
    /\ broken' = broken \cup {f}
    /\ UNCHANGED <<jobVars, disk, age, finished, sendVars, cleanVars, histVars>>

-----------------------------------------------------------------------------
(* The action thread and the messenger.                                    *)

\* The thread has attached and has its API ...
Attach ==
    /\ running /\ receiver = "attaching"
    /\ receiver' = "up"
    /\ UNCHANGED <<running, job, fileVars, sendVars, cleanVars, histVars>>

\* ... or panics, and the queue is lost with it.
AttachError ==
    /\ running /\ receiver = "attaching"
    /\ receiver' = "gone"
    /\ queued' = {}
    /\ UNCHANGED <<running, job, fileVars, handed, cleanVars, histVars>>

\* Action::SendMedia: an intent names the next files, all of them or one by
\* one, until the last or the first that fails.
Process(u) ==
    /\ running /\ receiver = "up"
    /\ u \in queued
    /\ queued' \in {queued, queued \ {u}}
    /\ \E i, j \in 0..job[u].count : handed' = handed \cup {<<u, k>> : k \in (i + 1)..j}
    /\ UNCHANGED <<jobVars, fileVars, cleanVars, histVars>>

MessengerOpens(f) ==
    /\ f \in handed
    /\ handed' = handed \ {f}
    /\ UNCHANGED <<jobVars, fileVars, queued, cleanVars, histVars>>

-----------------------------------------------------------------------------
(* The cleanup task.                                                       *)

\* Fault: the cutoff includes files that have just reached RETENTION.
ScanStartEarly ==
    /\ running
    /\ scan = "idle"
    /\ scan' = "scan"
    /\ todo' = disk
    /\ stale' = {f \in disk : age[f] >= Retention}
    /\ UNCHANGED <<jobVars, fileVars, sendVars, victim, histVars>>

\* Fault: only files that were stored completely are considered.
ScanStartFinishedOnly ==
    /\ running
    /\ scan = "idle"
    /\ scan' = "scan"
    /\ todo' = disk \cap finished
    /\ stale' = {f \in disk : age[f] > Retention}
    /\ UNCHANGED <<jobVars, fileVars, sendVars, victim, histVars>>

\* interval.tick(): the cutoff is taken, the directory is opened.
ScanStart ==
    /\ running
    /\ scan = "idle"
    /\ scan' = "scan"
    /\ todo' = disk
    /\ stale' = {f \in disk : age[f] > Retention}
    /\ UNCHANGED <<jobVars, fileVars, sendVars, victim, histVars>>

\* The next entry's metadata is read and compared with the cutoff.
Visit(f) ==
    /\ running
    /\ scan = "scan"
    /\ f \in todo
    /\ todo' = todo \ {f}
    /\ IF f \in stale \cap disk
       THEN scan' = "remove" /\ victim' = f
       ELSE UNCHANGED <<scan, victim>>
    /\ UNCHANGED <<jobVars, fileVars, sendVars, stale, histVars>>

\* remove_file comes later, and does not look again.
Remove ==
    /\ running
    /\ scan = "remove"
    /\ scan' = "scan" /\ victim' = NoFile
    /\ disk' = disk \ {victim}
    /\ UNCHANGED <<jobVars, age, finished, inflight, broken, sendVars,
                   todo, stale, histVars>>

RemoveError ==
    /\ running
    /\ scan = "remove"
    /\ scan' = "scan" /\ victim' = NoFile
    /\ UNCHANGED <<jobVars, fileVars, sendVars, todo, stale, histVars>>

\* The directory is read to its end, or next_entry fails.
ScanEnd ==
    /\ running
    /\ scan = "scan"
    /\ scan' = "idle" /\ todo' = {} /\ stale' = {}
    /\ UNCHANGED <<jobVars, fileVars, sendVars, victim, histVars>>

-----------------------------------------------------------------------------
(* Time and crashes.                                                       *)

Tick ==
    /\ age' = [f \in Files |->
                 IF f \in disk /\ age[f] <= Retention THEN age[f] + 1 ELSE age[f]]
    /\ age' # age
    /\ expired' = expired \cup {f \in disk : age[f] >= Retention}
    /\ UNCHANGED <<jobVars, disk, finished, inflight, broken, sendVars,
                   cleanVars, kept>>

\* The handlers, their writes and the cleanup task go with the process.
HandlersGone ==
    /\ job' = [u \in Uploads |-> IF job[u].phase = "open"
                                 THEN [job[u] EXCEPT !.phase = "cancelled"] ELSE job[u]]
    /\ inflight' = {} /\ broken' = broken \cup inflight
    /\ scan' = "idle" /\ todo' = {} /\ stale' = {} /\ victim' = NoFile

\* The queue goes too, the files stay.
Crash ==
    /\ running
    /\ running' = FALSE /\ receiver' = "gone"
    /\ HandlersGone
    /\ queued' = {}
    /\ UNCHANGED <<disk, age, finished, handed, histVars>>

Restart ==
    /\ ~running
    /\ running' = TRUE
    /\ receiver' = "attaching"
    /\ UNCHANGED <<job, fileVars, sendVars, cleanVars, histVars>>

-----------------------------------------------------------------------------
Next ==
    \/ \E u \in Uploads, kind \in {"unary", "chunked"}, n \in 1..MaxFiles :
         Begin(u, kind, n)
    \/ \E u \in Uploads :
        \/ Accept(u)
        \/ Refuse(u)
        \/ Cancel(u)
        \/ WriteBegin(u)
        \/ WriteEnd(u)
        \/ WriteError(u)
        \/ EmptyFile(u)
        \/ \E m \in 1..MaxChunks : FileMetadata(u, m)
        \/ Chunk(u)
        \/ ChunkError(u)
        \/ Process(u)
    \/ \E f \in Files :
        \/ Land(f)
        \/ LandError(f)
        \/ MessengerOpens(f)
        \/ Visit(f)
    \/ Attach
    \/ AttachError
    \/ ScanStart
    \/ Remove
    \/ RemoveError
    \/ ScanEnd
    \/ Tick
    \/ Crash
    \/ Restart

Spec == Init /\ [][Next]_vars

\* Time passes, a blocking task ends, the interval ticks, and an entry that
\* comes up again and again is not missed, nor its removal refused, for ever.
Fairness ==
    /\ WF_vars(Tick)
    /\ WF_vars(ScanStart)
    /\ WF_vars(ScanEnd)
    /\ \A f \in Files :
        /\ WF_vars(Land(f) \/ LandError(f))
        /\ SF_vars(Visit(f))
        /\ SF_vars(Remove /\ victim = f)

FairSpec == Spec /\ Fairness

-----------------------------------------------------------------------------
(* Properties.                                                             *)

QueuedFiles == UNION {FilesOf(u) : u \in queued}

\* All bytes of f are on disk.
Complete(f) == f \in finished /\ f \notin inflight \cup broken

\* A file somebody still needs, in the queue or with the messenger, is missing
\* only if it once lay unwritten for longer than RETENTION: neither the failure
\* of another upload nor a scan that overlaps the upload takes it away.
NeededFilesStay == handed \cup QueuedFiles \subseteq disk \cup expired

\* A call that fails leaves none of its files behind, except one whose removal
\* failed and the file a failed SendMedia was just writing.
FailureCleansUp ==
    \A u \in Uploads : job[u].phase = "failed" =>
        \A k \in 1..MaxFiles : <<u, k>> \in disk =>
            \/ <<u, k>> \in kept
            \/ job[u].kind = "unary" /\ <<u, k>> \in broken /\ k = job[u].stored + 1

\* An action is queued only for files whose bytes have all been given to a
\* write; those of SendMedia are on disk, and of SendMediaByChunk each lacks
\* at most the outcome of its last write.
QueuedFilesWritten ==
    \A u \in queued : \A f \in FilesOf(u) :
        f \in finished /\ (job[u].kind = "unary" => Complete(f))

\* No file stays for ever once the server stays up, whether its upload was
\* accepted, failed, was cancelled or cut off by a crash.
FilesReclaimed ==
    <>[]running => \A f \in Files : f \in disk ~> f \notin disk

\* What store_chunks reports: a call that returns success has stored its
\* files, because a failed write makes it fail with "failed to store media
\* file" and a short one with "the final media file is incomplete".
AcceptedIsStored ==
    \A u \in queued : \A f \in FilesOf(u) : Complete(f)
=============================================================================
