-------------------------- MODULE MediaStoreProofs --------------------------
(***************************************************************************)
(* Proofs about the temporary files of uploads, for any number of uploads, *)
(* files and chunks, any RETENTION, and any interleaving of handlers,      *)
(* unawaited writes, the cleanup task, crashes and restarts.               *)
(*                                                                         *)
(* All the properties rest on one correspondence: which files of an upload *)
(* exist, or have been written, is told by how far its handler has come    *)
(* (stored, left), except for what cleanup took, and cleanup only takes    *)
(* files that have once been older than RETENTION (CleanInv).              *)
(***************************************************************************)
EXTENDS MediaStore, TLAPS

\* SendMedia is writing this file: it is not in stored yet.
Writing(u, k) == job[u].kind = "unary" /\ job[u].left > 0 /\ k = job[u].stored + 1

\* The handler has come to file k.
Begun(u, k) == k <= job[u].stored \/ Writing(u, k)

JobInv(u) ==
    /\ job[u].stored <= job[u].count
    /\ job[u].phase = "new" =>
        job[u].kind = "unary" /\ job[u].count = 0 /\ job[u].left = 0
    /\ job[u].phase # "new" => job[u].count > 0
    /\ job[u].phase = "open" => running
    /\ job[u].phase = "done" => job[u].left = 0 /\ job[u].stored = job[u].count
    /\ job[u].kind = "unary" /\ job[u].left > 0 =>
        job[u].left = 1 /\ job[u].stored < job[u].count
    /\ job[u].kind = "chunked" /\ job[u].left > 0 => job[u].stored > 0

\* Only begun files exist, and while the upload may still be accepted, or has
\* been, only cleanup can have taken one of them.
DiskInv(u) ==
    \A k \in 1..MaxFiles :
        /\ <<u, k>> \in disk => Begun(u, k)
        /\ job[u].phase \in {"open", "done"} /\ Begun(u, k) => <<u, k>> \in disk \cup expired

FailInv(u) ==
    job[u].phase = "failed" =>
        \A k \in 1..MaxFiles : <<u, k>> \in disk =>
            <<u, k>> \in kept \/ (Writing(u, k) /\ <<u, k>> \in broken)

\* Which files have been given to writes, and have lost none.
WriteInv(u) ==
    \A k \in 1..MaxFiles :
        /\ job[u].phase \in {"new", "open"} /\ job[u].kind = "unary" =>
            /\ ~Begun(u, k) => <<u, k>> \notin inflight
            /\ k > job[u].stored => <<u, k>> \notin broken
        /\ job[u].phase \in {"open", "done"} /\ job[u].kind = "unary" /\ k <= job[u].stored =>
            Complete(<<u, k>>)
        /\ job[u].phase \in {"open", "done"} /\ k <= job[u].stored =>
            <<u, k>> \in finished \/ (k = job[u].stored /\ job[u].left > 0)

\* Only accepted uploads are queued or named to the messenger.
SendInv(u) ==
    /\ u \in queued => job[u].phase = "done"
    /\ \A k \in 1..MaxFiles : <<u, k>> \in handed =>
        job[u].phase = "done" /\ k <= job[u].count

UploadInv(u) == JobInv(u) /\ DiskInv(u) /\ FailInv(u) /\ WriteInv(u) /\ SendInv(u)

\* What cleanup has found old, is about to remove, or would find old now, has
\* once been idle for more than RETENTION.
CleanInv ==
    /\ \A f \in disk : age[f] > Retention => f \in expired
    /\ stale \subseteq expired
    /\ scan = "remove" => victim \in expired

IInv == TypeOK /\ CleanInv /\ \A u \in Uploads : UploadInv(u)

-----------------------------------------------------------------------------
(* Files and jobs.                                                         *)

LEMMA FileFact ==
  /\ \A u \in Uploads, k \in 1..MaxFiles : <<u, k>> \in Files
  /\ \A f \in Files : f[1] \in Uploads /\ f[2] \in 1..MaxFiles /\ f = <<f[1], f[2]>>
  BY DEF Files

LEMMA JobFact ==
  ASSUME TypeOK, NEW u \in Uploads
  PROVE  /\ job[u].phase \in Phases
         /\ job[u].kind \in {"unary", "chunked"}
         /\ job[u].count \in 0..MaxFiles
         /\ job[u].stored \in 0..MaxFiles
         /\ job[u].left \in 0..MaxChunks
  BY DEF TypeOK, Jobs

\* An upload whose job a step leaves alone keeps its invariant if none of its
\* files appears, if a file that goes was expired, and if a write to one of
\* them fails only where nobody awaits it.
LEMMA UploadStill ==
  ASSUME TypeOK, NEW v \in Uploads, UploadInv(v),
         job'[v] = job[v],
         job[v].phase = "open" => running',
         v \in queued' => v \in queued,
         \A k \in 1..MaxFiles :
            /\ <<v, k>> \in disk' => <<v, k>> \in disk
            /\ <<v, k>> \in disk \cup expired => <<v, k>> \in disk' \cup expired'
            /\ <<v, k>> \in finished => <<v, k>> \in finished'
            /\ <<v, k>> \in inflight' => <<v, k>> \in inflight
            /\ <<v, k>> \in broken' =>
                <<v, k>> \in broken \/ (<<v, k>> \in inflight /\ ~Open(v, "unary"))
            /\ <<v, k>> \in broken => <<v, k>> \in broken'
            /\ <<v, k>> \in kept => <<v, k>> \in kept'
            /\ <<v, k>> \in handed' => <<v, k>> \in handed
  PROVE  UploadInv(v)'
<1>1. JobInv(v)'
  BY DEF UploadInv, JobInv
<1>2. DiskInv(v)'
  BY DEF UploadInv, DiskInv, Begun, Writing
<1>3. FailInv(v)'
  BY DEF UploadInv, FailInv, Writing
<1>4. WriteInv(v)'
  <2>1. job[v].phase = "new" => \A k \in 1..MaxFiles : ~Begun(v, k)
    BY JobFact DEF UploadInv, JobInv, Begun, Writing
  <2>2. job[v].phase = "open" /\ job[v].kind = "unary" => Open(v, "unary")
    BY DEF UploadInv, JobInv, Open
  <2>3. \A k \in 1..MaxFiles : Begun(v, k)' = Begun(v, k)
    BY DEF Begun, Writing
  <2> QED
    BY <2>1, <2>2, <2>3 DEF UploadInv, WriteInv, Complete
<1>5. SendInv(v)'
  BY DEF UploadInv, SendInv
<1> QED
  BY <1>1, <1>2, <1>3, <1>4, <1>5 DEF UploadInv

-----------------------------------------------------------------------------
(* Type correctness: a handler never stores more files than announced.     *)

LEMMA TypeInit == Init => TypeOK
  BY MediaConstants DEF Init, TypeOK, Jobs, Phases, Files

LEMMA TypeStep ==
  ASSUME TypeOK, \A u \in Uploads : JobInv(u), CleanInv, [Next]_vars
  PROVE  TypeOK'
<1> USE MediaConstants, FileFact
<1> USE DEF vars, jobVars, fileVars, sendVars, cleanVars, histVars
<1>1. ASSUME NEW u \in Uploads, NEW kind \in {"unary", "chunked"},
             NEW n \in 1..MaxFiles, Begin(u, kind, n)
      PROVE  TypeOK'
  <2>1. job' \in [Uploads -> Jobs]
    BY <1>1 DEF TypeOK, Begin, Jobs, Phases
  <2> QED
    BY <1>1, <2>1 DEF TypeOK, Begin
<1>2. ASSUME NEW u \in Uploads, Accept(u) \/ Refuse(u) \/ Cancel(u)
      PROVE  TypeOK'
  <2>1. job' \in [Uploads -> Jobs]
    BY <1>2 DEF TypeOK, Accept, Refuse, Cancel, Jobs, Phases
  <2> QED
    BY <1>2, <2>1 DEF TypeOK, Accept, Refuse, Cancel
<1>3. ASSUME NEW u \in Uploads, WriteBegin(u) PROVE TypeOK'
  <2>1. job[u].stored + 1 \in 1..MaxFiles
    BY <1>3, JobFact DEF WriteBegin
  <2>2. job' \in [Uploads -> Jobs]
    BY <1>3 DEF TypeOK, WriteBegin, Jobs
  <2> QED
    BY <1>3, <2>1, <2>2 DEF TypeOK, WriteBegin, Touch
<1>4. ASSUME NEW u \in Uploads, WriteEnd(u) PROVE TypeOK'
  <2>1. job[u].stored + 1 \in 1..MaxFiles
    BY <1>4, JobFact DEF WriteEnd, JobInv, Open
  <2>2. job' \in [Uploads -> Jobs]
    BY <1>4, <2>1 DEF TypeOK, WriteEnd, Jobs
  <2> QED
    BY <1>4, <2>1, <2>2 DEF TypeOK, WriteEnd, Touch
<1>5. ASSUME NEW u \in Uploads, WriteError(u) \/ EmptyFile(u) \/ ChunkError(u)
      PROVE  TypeOK'
  <2>1. WriteError(u) => job[u].stored + 1 \in 1..MaxFiles
    BY JobFact DEF WriteError, JobInv, Open
  <2>2. job' \in [Uploads -> Jobs]
    BY <1>5 DEF TypeOK, WriteError, EmptyFile, ChunkError, Jobs, Phases
  <2>3. disk' \in SUBSET Files /\ kept' \in SUBSET Files
    BY <1>5 DEF TypeOK, WriteError, EmptyFile, ChunkError, RemoveStored
  <2>4. broken' \in SUBSET Files /\ inflight' \in SUBSET Files
    BY <1>5, <2>1 DEF TypeOK, WriteError, EmptyFile, ChunkError
  <2> QED
    BY <1>5, <2>2, <2>3, <2>4 DEF TypeOK, WriteError, EmptyFile, ChunkError
<1>6. ASSUME NEW u \in Uploads, NEW m \in 1..MaxChunks, FileMetadata(u, m)
      PROVE  TypeOK'
  <2>1. job[u].stored + 1 \in 1..MaxFiles
    BY <1>6, JobFact DEF FileMetadata
  <2>2. job' \in [Uploads -> Jobs]
    BY <1>6, <2>1 DEF TypeOK, FileMetadata, Jobs
  <2> QED
    BY <1>6, <2>1, <2>2 DEF TypeOK, FileMetadata, Touch
<1>7. ASSUME NEW u \in Uploads, Chunk(u) PROVE TypeOK'
  <2>1. job[u].stored \in 1..MaxFiles
    BY <1>7, JobFact DEF Chunk, JobInv, Open
  <2>2. job[u].left - 1 \in 0..MaxChunks
    BY <1>7, JobFact DEF Chunk
  <2>3. job' \in [Uploads -> Jobs]
    BY <1>7, <2>2 DEF TypeOK, Chunk, Jobs
  <2> QED
    BY <1>7, <2>1, <2>3 DEF TypeOK, Chunk
<1>8. ASSUME NEW f \in Files, Land(f) \/ LandError(f) PROVE TypeOK'
  BY <1>8 DEF TypeOK, Land, LandError, Unawaited, Touch
<1>9. ASSUME NEW u \in Uploads, Process(u) PROVE TypeOK'
  <2>1. handed' \in SUBSET Files
    <3>1. PICK i \in 0..job[u].count, j \in 0..job[u].count :
            handed' = handed \cup {<<u, k>> : k \in (i + 1)..j}
      BY <1>9 DEF Process
    <3>2. \A k \in (i + 1)..j : k \in 1..MaxFiles
      BY <3>1, JobFact
    <3> QED
      BY <3>1, <3>2 DEF TypeOK
  <2> QED
    BY <1>9, <2>1 DEF TypeOK, Process
<1>10. ASSUME NEW f \in Files, MessengerOpens(f) PROVE TypeOK'
  BY <1>10 DEF TypeOK, MessengerOpens
<1>11. CASE Attach \/ AttachError \/ Restart
  BY <1>11 DEF TypeOK, Attach, AttachError, Restart
<1>12. ASSUME NEW f \in Files, Visit(f) PROVE TypeOK'
  BY <1>12 DEF TypeOK, Visit
<1>13. CASE ScanStart \/ Remove \/ RemoveError \/ ScanEnd
  BY <1>13 DEF TypeOK, ScanStart, Remove, RemoveError, ScanEnd
<1>14. CASE Tick
  <2>1. age' \in [Files -> 0..(Retention + 1)]
    BY <1>14 DEF TypeOK, Tick
  <2> QED
    BY <1>14, <2>1 DEF TypeOK, Tick
<1>15. CASE Crash
  <2>1. job' \in [Uploads -> Jobs]
    BY <1>15 DEF TypeOK, Crash, HandlersGone, Jobs, Phases
  <2> QED
    BY <1>15, <2>1 DEF TypeOK, Crash, HandlersGone
<1>16. CASE UNCHANGED vars
  BY <1>16 DEF TypeOK
<1> QED
  BY <1>1, <1>2, <1>3, <1>4, <1>5, <1>6, <1>7, <1>8, <1>9, <1>10, <1>11,
     <1>12, <1>13, <1>14, <1>15, <1>16 DEF Next

-----------------------------------------------------------------------------
(* Cleanup.                                                                *)

\* A write to a file makes it young again.
LEMMA TouchKeepsClean ==
  ASSUME TypeOK, TypeOK', CleanInv, NEW f, Touch(f), disk' \subseteq disk \cup {f},
         UNCHANGED <<scan, victim, expired>>
  PROVE  CleanInv'
<1>1. /\ age \in [Files -> 0..(Retention + 1)] /\ disk' \subseteq Files
      /\ Retention \in Nat
  BY MediaConstants DEF TypeOK
<1>2. \A g \in disk' : age'[g] > Retention => g \in disk /\ age[g] > Retention
  BY <1>1 DEF Touch
<1> QED
  BY <1>2 DEF CleanInv, Touch

LEMMA CleanStep ==
  ASSUME TypeOK, TypeOK', CleanInv, [Next]_vars
  PROVE  CleanInv'
<1> USE MediaConstants
<1> USE DEF vars, jobVars, fileVars, sendVars, cleanVars, histVars
<1>1. ASSUME NEW u \in Uploads, WriteBegin(u) \/ WriteEnd(u) PROVE CleanInv'
  BY <1>1, TouchKeepsClean DEF WriteBegin, WriteEnd
<1>2. ASSUME NEW u \in Uploads, NEW m \in 1..MaxChunks, FileMetadata(u, m)
      PROVE  CleanInv'
  BY <1>2, TouchKeepsClean DEF FileMetadata
<1>3. ASSUME NEW f \in Files, Land(f) PROVE CleanInv'
  BY <1>3, TouchKeepsClean DEF Land
<1>4. CASE disk' \subseteq disk /\ UNCHANGED <<age, cleanVars, expired>>
  BY <1>4 DEF CleanInv
<1>5. ASSUME NEW u \in Uploads, WriteError(u) \/ EmptyFile(u) \/ ChunkError(u)
      PROVE  CleanInv'
  BY <1>4, <1>5 DEF WriteError, EmptyFile, ChunkError, RemoveStored
<1>6. CASE ScanStart
  BY <1>6 DEF CleanInv, ScanStart
<1>7. ASSUME NEW f \in Files, Visit(f) PROVE CleanInv'
  BY <1>7 DEF CleanInv, Visit
<1>8. CASE Remove \/ RemoveError
  BY <1>8 DEF CleanInv, Remove, RemoveError
<1>9. CASE ScanEnd
  BY <1>9 DEF CleanInv, ScanEnd
<1>10. CASE Tick
  <2>1. /\ age \in [Files -> 0..(Retention + 1)] /\ disk \subseteq Files
        /\ Retention \in Nat
    BY DEF TypeOK
  <2>2. \A f \in disk : age'[f] > Retention => age[f] >= Retention
    BY <1>10, <2>1 DEF Tick
  <2> QED
    BY <1>10, <2>2 DEF CleanInv, Tick
<1>11. CASE Crash
  BY <1>11 DEF CleanInv, Crash, HandlersGone
<1> QED
  BY <1>1, <1>2, <1>3, <1>4, <1>5, <1>6, <1>7, <1>8, <1>9, <1>10, <1>11
     DEF Next, Begin, Accept, Refuse, Cancel, Chunk, LandError, Attach,
         AttachError, Process, MessengerOpens, Restart

-----------------------------------------------------------------------------
(* Uploads.                                                                *)

LEMMA UploadStep ==
  ASSUME IInv, [Next]_vars
  PROVE  \A v \in Uploads : UploadInv(v)'
<1> USE MediaConstants
<1> USE DEF vars, jobVars, fileVars, sendVars, cleanVars, histVars
<1> SUFFICES ASSUME NEW v \in Uploads PROVE UploadInv(v)'
  OBVIOUS
<1>0. TypeOK /\ CleanInv /\ UploadInv(v)
  BY DEF IInv
<1>j. /\ job \in [Uploads -> Jobs]
      /\ job[v].phase \in Phases /\ job[v].kind \in {"unary", "chunked"}
      /\ job[v].count \in 0..MaxFiles /\ job[v].stored \in 0..MaxFiles
      /\ job[v].left \in 0..MaxChunks
  BY <1>0, JobFact DEF TypeOK
<1>1. ASSUME NEW u \in Uploads, NEW kind \in {"unary", "chunked"},
             NEW n \in 1..MaxFiles, Begin(u, kind, n)
      PROVE  UploadInv(v)'
  <2>1. CASE u # v
    BY <1>0, <1>j, <1>1, <2>1, UploadStill DEF Begin
  <2>2. CASE u = v
    <3>1. /\ job'[v].phase = "open" /\ job'[v].kind = kind /\ job'[v].count = n
          /\ job'[v].stored = 0 /\ job'[v].left = 0
          /\ running /\ job[v].phase = "new"
          /\ UNCHANGED <<running, fileVars, sendVars, histVars>>
      BY <1>j, <1>1, <2>2 DEF Begin
    <3>2. \A k \in 1..MaxFiles : ~Begun(v, k) /\ ~Begun(v, k)'
      BY <1>0, <1>j, <3>1 DEF UploadInv, JobInv, Begun, Writing
    <3>3. \A k \in 1..MaxFiles :
            <<v, k>> \notin disk \cup inflight \cup broken
      BY <1>0, <1>j, <3>1, <3>2 DEF UploadInv, JobInv, DiskInv, WriteInv
    <3>4. JobInv(v)'
      BY <3>1 DEF JobInv
    <3>5. DiskInv(v)' /\ FailInv(v)'
      BY <3>1, <3>2, <3>3 DEF DiskInv, FailInv
    <3>6. WriteInv(v)'
      BY <3>1, <3>2, <3>3 DEF WriteInv
    <3>7. SendInv(v)'
      BY <1>0, <3>1 DEF UploadInv, SendInv
    <3> QED
      BY <3>4, <3>5, <3>6, <3>7 DEF UploadInv
  <2> QED
    BY <2>1, <2>2
<1>2. ASSUME NEW u \in Uploads, Accept(u) \/ Refuse(u) \/ Cancel(u)
      PROVE  UploadInv(v)'
  <2>1. CASE u # v
    BY <1>0, <1>j, <1>2, <2>1, UploadStill DEF Accept, Refuse, Cancel
  <2>2. CASE u = v
    <3>1. /\ job'[v].phase \in {"done", "refused", "cancelled"}
          /\ job'[v].phase = "done" =>
              job[v].left = 0 /\ job[v].stored = job[v].count
          /\ job'[v].kind = job[v].kind /\ job'[v].count = job[v].count
          /\ job'[v].stored = job[v].stored /\ job'[v].left = job[v].left
          /\ job[v].phase = "open"
          /\ v \in queued' => job'[v].phase = "done" \/ v \in queued
          /\ UNCHANGED <<running, fileVars, handed, histVars>>
      <4>1. CASE Accept(v)
        BY <1>j, <4>1 DEF Accept
      <4>2. CASE Refuse(v)
        BY <1>j, <4>2 DEF Refuse
      <4>3. CASE Cancel(v)
        BY <1>j, <4>3 DEF Cancel
      <4> QED
        BY <1>2, <2>2, <4>1, <4>2, <4>3
    <3>2. \A k \in 1..MaxFiles : Begun(v, k)' = Begun(v, k)
      BY <3>1 DEF Begun, Writing
    <3>3. JobInv(v)'
      BY <1>0, <3>1 DEF UploadInv, JobInv
    <3>4. DiskInv(v)' /\ FailInv(v)'
      BY <1>0, <3>1, <3>2 DEF UploadInv, DiskInv, FailInv
    <3>5. WriteInv(v)'
      BY <1>0, <3>1, <3>2 DEF UploadInv, WriteInv, Complete
    <3>6. SendInv(v)'
      BY <1>0, <3>1 DEF UploadInv, SendInv
    <3> QED
      BY <3>3, <3>4, <3>5, <3>6 DEF UploadInv
  <2> QED
    BY <2>1, <2>2
<1>3. ASSUME NEW u \in Uploads, WriteBegin(u) PROVE UploadInv(v)'
  <2>1. CASE u # v
    <3> DEFINE f == <<u, job[u].stored + 1>>
    <3>1. job'[v] = job[v]
      BY <1>j, <1>3, <2>1 DEF WriteBegin
    <3>2. /\ disk' = disk \cup {f} /\ inflight' = inflight \cup {f}
          /\ UNCHANGED <<running, finished, broken, sendVars, histVars>>
      BY <1>3 DEF WriteBegin
    <3>3. \A k : <<v, k>> # f
      BY <2>1
    <3> HIDE DEF f
    <3> QED
      BY <1>0, <3>1, <3>2, <3>3, UploadStill DEF UploadInv, JobInv
  <2>2. CASE u = v
    <3> DEFINE f == <<v, job[v].stored + 1>>
    <3>1. /\ job'[v].phase = "open" /\ job'[v].kind = "unary"
          /\ job'[v].count = job[v].count /\ job'[v].stored = job[v].stored
          /\ job'[v].left = 1 /\ job[v].left = 0
          /\ job[v].stored < job[v].count
          /\ job[v].phase = "open" /\ job[v].kind = "unary"
          /\ disk' = disk \cup {f} /\ inflight' = inflight \cup {f}
          /\ UNCHANGED <<running, finished, broken, sendVars, histVars>>
      BY <1>j, <1>3, <2>2 DEF WriteBegin, Open
    <3>2. \A k \in 1..MaxFiles :
            Begun(v, k)' <=> Begun(v, k) \/ k = job[v].stored + 1
      BY <1>j, <3>1 DEF Begun, Writing
    <3>3. JobInv(v)'
      BY <1>0, <3>1 DEF UploadInv, JobInv
    <3>4. DiskInv(v)' /\ FailInv(v)'
      BY <1>0, <3>1, <3>2 DEF UploadInv, DiskInv, FailInv
    <3>5. WriteInv(v)'
      BY <1>0, <1>j, <3>1, <3>2 DEF UploadInv, WriteInv, Complete
    <3>6. SendInv(v)'
      BY <1>0, <3>1 DEF UploadInv, SendInv
    <3> QED
      BY <3>3, <3>4, <3>5, <3>6 DEF UploadInv
  <2> QED
    BY <2>1, <2>2
<1>4. ASSUME NEW u \in Uploads, WriteEnd(u) PROVE UploadInv(v)'
  <2>1. CASE u # v
    <3> DEFINE f == <<u, job[u].stored + 1>>
    <3>1. job'[v] = job[v]
      BY <1>j, <1>4, <2>1 DEF WriteEnd
    <3>2. /\ inflight' = inflight \ {f} /\ finished' = finished \cup {f}
          /\ UNCHANGED <<running, disk, broken, sendVars, histVars>>
      BY <1>4 DEF WriteEnd
    <3>3. \A k : <<v, k>> # f
      BY <2>1
    <3> HIDE DEF f
    <3> QED
      BY <1>0, <3>1, <3>2, <3>3, UploadStill DEF UploadInv, JobInv
  <2>2. CASE u = v
    <3> DEFINE f == <<v, job[v].stored + 1>>
    <3>1. /\ job'[v].phase = "open" /\ job'[v].kind = "unary"
          /\ job'[v].count = job[v].count /\ job'[v].stored = job[v].stored + 1
          /\ job'[v].left = 0 /\ job[v].left = 1
          /\ job[v].phase = "open" /\ job[v].kind = "unary"
          /\ inflight' = inflight \ {f} /\ finished' = finished \cup {f}
          /\ UNCHANGED <<running, disk, broken, sendVars, histVars>>
      BY <1>j, <1>4, <2>2 DEF WriteEnd, Open
    <3>2. \A k \in 1..MaxFiles : Begun(v, k)' <=> Begun(v, k)
      BY <1>j, <3>1 DEF Begun, Writing
    <3>3. JobInv(v)'
      BY <1>0, <1>j, <3>1 DEF UploadInv, JobInv
    <3>4. DiskInv(v)' /\ FailInv(v)'
      BY <1>0, <3>1, <3>2 DEF UploadInv, DiskInv, FailInv
    <3>5. WriteInv(v)'
      <4>1. \A k \in 1..MaxFiles : k <= job[v].stored + 1 =>
              k <= job[v].stored \/ k = job[v].stored + 1
        BY <1>j
      <4>2. \A k \in 1..MaxFiles : k <= job[v].stored => Complete(<<v, k>>)'
        BY <1>0, <1>j, <3>1 DEF UploadInv, WriteInv, Complete
      <4>3. \A k \in 1..MaxFiles : k = job[v].stored + 1 => Complete(<<v, k>>)'
        BY <1>0, <1>j, <3>1 DEF UploadInv, WriteInv, Complete
      <4>4. \A k \in 1..MaxFiles :
              /\ ~Begun(v, k)' => <<v, k>> \notin inflight'
              /\ k > job'[v].stored => <<v, k>> \notin broken'
        BY <1>0, <1>j, <3>1, <3>2 DEF UploadInv, WriteInv
      <4> QED
        BY <1>0, <3>1, <4>1, <4>2, <4>3, <4>4 DEF WriteInv, Complete
    <3>6. SendInv(v)'
      BY <1>0, <3>1 DEF UploadInv, SendInv
    <3> QED
      BY <3>3, <3>4, <3>5, <3>6 DEF UploadInv
  <2> QED
    BY <2>1, <2>2
<1>5. ASSUME NEW u \in Uploads, WriteError(u) \/ EmptyFile(u) \/ ChunkError(u)
      PROVE  UploadInv(v)'
  <2>0. PICK K \in SUBSET (Stored(u) \cap disk) :
          disk' = disk \ (Stored(u) \ K) /\ kept' = kept \cup K
    BY <1>5 DEF WriteError, EmptyFile, ChunkError, RemoveStored
  <2>1. CASE u # v
    <3>1. \A k \in 1..MaxFiles : <<v, k>> \notin Stored(u)
      BY <2>1 DEF Stored
    <3>2. job'[v] = job[v]
      BY <1>j, <1>5, <2>1 DEF WriteError, EmptyFile, ChunkError
    <3>3. UNCHANGED <<running, finished, sendVars, expired>>
      BY <1>5 DEF WriteError, EmptyFile, ChunkError
    <3>4. \A k \in 1..MaxFiles :
           /\ <<v, k>> \in broken' <=> <<v, k>> \in broken
           /\ <<v, k>> \in inflight' <=> <<v, k>> \in inflight
      BY <1>5, <2>1 DEF WriteError, EmptyFile, ChunkError
    <3>5. \A k \in 1..MaxFiles :
           /\ <<v, k>> \in disk' <=> <<v, k>> \in disk
           /\ <<v, k>> \in kept => <<v, k>> \in kept'
      BY <2>0, <3>1
    <3>6. job[v].phase = "open" => running'
      BY <1>0, <3>3 DEF UploadInv, JobInv
    <3>7. \A k \in 1..MaxFiles :
            /\ <<v, k>> \in disk \cup expired => <<v, k>> \in disk' \cup expired'
            /\ <<v, k>> \in finished => <<v, k>> \in finished'
            /\ <<v, k>> \in handed' => <<v, k>> \in handed
      BY <3>3, <3>5
    <3>8. v \in queued' => v \in queued
      BY <3>3
    <3> QED
      BY <1>0, <3>2, <3>4, <3>5, <3>6, <3>7, <3>8, UploadStill
  <2>2. CASE u = v
    <3>1. /\ job'[v].phase = "failed" /\ job[v].phase = "open"
          /\ job'[v].kind = job[v].kind /\ job'[v].count = job[v].count
          /\ job'[v].stored = job[v].stored /\ job'[v].left = job[v].left
          /\ job[v].kind = "unary" =>
              job[v].left = 0 \/ <<v, job[v].stored + 1>> \in broken'
          /\ UNCHANGED <<running, sendVars, expired>>
      <4>1. CASE WriteError(v)
        BY <1>j, <4>1 DEF WriteError, Open
      <4>2. CASE EmptyFile(v)
        BY <1>j, <4>2 DEF EmptyFile, Open
      <4>3. CASE ChunkError(v)
        BY <1>j, <4>3 DEF ChunkError, Open
      <4> QED
        BY <1>5, <2>2, <4>1, <4>2, <4>3
    <3>2. \A k : (Begun(v, k)' <=> Begun(v, k)) /\ (Writing(v, k)' <=> Writing(v, k))
      BY <3>1 DEF Begun, Writing
    <3>3. \A k \in 1..MaxFiles : <<v, k>> \in Stored(v) <=> k <= job[v].stored
      BY <1>j DEF Stored
    <3>4. JobInv(v)'
      BY <1>0, <3>1 DEF UploadInv, JobInv
    <3>5. DiskInv(v)'
      BY <1>0, <2>0, <3>1, <3>2 DEF UploadInv, DiskInv
    <3>6. FailInv(v)'
      <4> SUFFICES ASSUME NEW k \in 1..MaxFiles, <<v, k>> \in disk'
                   PROVE  \/ <<v, k>> \in kept'
                          \/ Writing(v, k) /\ <<v, k>> \in broken'
        BY <3>2 DEF FailInv
      <4>1. Begun(v, k)
        BY <1>0, <2>0 DEF UploadInv, DiskInv
      <4>2. CASE k <= job[v].stored
        BY <2>0, <2>2, <3>3, <4>2
      <4>3. CASE Writing(v, k)
        BY <1>j, <3>1, <4>3 DEF Writing
      <4> QED
        BY <4>1, <4>2, <4>3 DEF Begun
    <3>7. WriteInv(v)'
      BY <3>1 DEF WriteInv
    <3>8. SendInv(v)'
      BY <1>0, <3>1 DEF UploadInv, SendInv
    <3> QED
      BY <3>4, <3>5, <3>6, <3>7, <3>8 DEF UploadInv
  <2> QED
    BY <2>1, <2>2
<1>6. ASSUME NEW u \in Uploads, NEW m \in 1..MaxChunks, FileMetadata(u, m)
      PROVE  UploadInv(v)'
  <2>1. CASE u # v
    <3> DEFINE f == <<u, job[u].stored + 1>>
    <3>1. job'[v] = job[v]
      BY <1>j, <1>6, <2>1 DEF FileMetadata
    <3>2. /\ disk' = disk \cup {f}
          /\ UNCHANGED <<running, finished, inflight, broken, sendVars, histVars>>
      BY <1>6 DEF FileMetadata
    <3>3. \A k : <<v, k>> # f
      BY <2>1
    <3> HIDE DEF f
    <3> QED
      BY <1>0, <3>1, <3>2, <3>3, UploadStill DEF UploadInv, JobInv
  <2>2. CASE u = v
    <3> DEFINE f == <<v, job[v].stored + 1>>
    <3>1. /\ job'[v].phase = "open" /\ job'[v].kind = "chunked"
          /\ job'[v].count = job[v].count /\ job'[v].stored = job[v].stored + 1
          /\ job'[v].left = m /\ job[v].left = 0
          /\ job[v].stored < job[v].count
          /\ job[v].phase = "open" /\ job[v].kind = "chunked"
          /\ disk' = disk \cup {f}
          /\ UNCHANGED <<running, finished, inflight, broken, sendVars, histVars>>
      BY <1>j, <1>6, <2>2 DEF FileMetadata, Open
    <3>2. \A k \in 1..MaxFiles :
            Begun(v, k)' <=> Begun(v, k) \/ k = job[v].stored + 1
      BY <1>j, <3>1 DEF Begun, Writing
    <3>3. JobInv(v)'
      BY <1>0, <1>j, <3>1 DEF UploadInv, JobInv
    <3>4. DiskInv(v)' /\ FailInv(v)'
      BY <1>0, <3>1, <3>2 DEF UploadInv, DiskInv, FailInv
    <3>5. WriteInv(v)'
      BY <1>0, <1>j, <3>1, <3>2 DEF UploadInv, WriteInv, Complete
    <3>6. SendInv(v)'
      BY <1>0, <3>1 DEF UploadInv, SendInv
    <3> QED
      BY <3>3, <3>4, <3>5, <3>6 DEF UploadInv
  <2> QED
    BY <2>1, <2>2
<1>7. ASSUME NEW u \in Uploads, Chunk(u) PROVE UploadInv(v)'
  <2>1. CASE u # v
    <3> DEFINE f == <<u, job[u].stored>>
    <3>1. job'[v] = job[v]
      BY <1>j, <1>7, <2>1 DEF Chunk
    <3>2. /\ inflight' = inflight \cup {f} /\ finished' \in {finished, finished \cup {f}}
          /\ UNCHANGED <<running, disk, broken, sendVars, histVars>>
      BY <1>7 DEF Chunk
    <3>3. \A k : <<v, k>> # f
      BY <2>1
    <3> HIDE DEF f
    <3> QED
      BY <1>0, <3>1, <3>2, <3>3, UploadStill DEF UploadInv, JobInv
  <2>2. CASE u = v
    <3> DEFINE f == <<v, job[v].stored>>
    <3>1. /\ job'[v].phase = "open" /\ job'[v].kind = "chunked"
          /\ job'[v].count = job[v].count /\ job'[v].stored = job[v].stored
          /\ job'[v].left = job[v].left - 1 /\ job[v].left > 0
          /\ job[v].phase = "open" /\ job[v].kind = "chunked"
          /\ finished' = IF job[v].left = 1 THEN finished \cup {f} ELSE finished
          /\ UNCHANGED <<running, disk, broken, sendVars, histVars>>
      BY <1>j, <1>7, <2>2 DEF Chunk, Open
    <3>2. \A k \in 1..MaxFiles : Begun(v, k)' <=> Begun(v, k)
      BY <3>1 DEF Begun, Writing
    <3>3. JobInv(v)'
      BY <1>0, <1>j, <3>1 DEF UploadInv, JobInv
    <3>4. DiskInv(v)' /\ FailInv(v)'
      BY <1>0, <3>1, <3>2 DEF UploadInv, DiskInv, FailInv
    <3>5. WriteInv(v)'
      BY <1>0, <1>j, <3>1, <3>2 DEF UploadInv, WriteInv, Complete
    <3>6. SendInv(v)'
      BY <1>0, <3>1 DEF UploadInv, SendInv
    <3> QED
      BY <3>3, <3>4, <3>5, <3>6 DEF UploadInv
  <2> QED
    BY <2>1, <2>2
<1>8. ASSUME NEW f \in Files, Land(f) \/ LandError(f) PROVE UploadInv(v)'
  <2>1. /\ UNCHANGED <<jobVars, disk, finished, sendVars, histVars>>
        /\ inflight' \subseteq inflight /\ broken \subseteq broken'
        /\ \A k : <<v, k>> \in broken' =>
             <<v, k>> \in broken \/ (<<v, k>> \in inflight /\ ~Open(v, "unary"))
    BY <1>8 DEF Land, LandError, Unawaited
  <2> QED
    BY <1>0, <2>1, UploadStill DEF UploadInv, JobInv
<1>9. ASSUME NEW u \in Uploads, Process(u) PROVE UploadInv(v)'
  <2>1. UNCHANGED <<jobVars, fileVars, histVars>> /\ queued' \subseteq queued /\ u \in queued
    BY <1>9 DEF Process
  <2>2. PICK i \in 0..job[u].count, j \in 0..job[u].count :
          handed' = handed \cup {<<u, k>> : k \in (i + 1)..j}
    BY <1>9 DEF Process
  <2>3. CASE u # v
    BY <1>0, <2>1, <2>2, <2>3, UploadStill DEF UploadInv, JobInv
  <2>4. CASE u = v
    <3>1. \A k \in 1..MaxFiles : <<v, k>> \in handed' =>
            <<v, k>> \in handed \/ k <= job[v].count
      BY <1>j, <2>2, <2>4
    <3>2. SendInv(v)'
      BY <1>0, <2>1, <2>4, <3>1 DEF UploadInv, SendInv
    <3> QED
      BY <1>0, <2>1, <3>2 DEF UploadInv, JobInv, DiskInv, FailInv, WriteInv,
                              Begun, Writing, Complete
  <2> QED
    BY <2>3, <2>4
<1>10. ASSUME NEW f \in Files, MessengerOpens(f) \/ Visit(f) PROVE UploadInv(v)'
  BY <1>0, <1>10, UploadStill DEF MessengerOpens, Visit, UploadInv, JobInv
<1>11. CASE Attach \/ AttachError \/ ScanStart \/ RemoveError \/ ScanEnd
  BY <1>0, <1>11, UploadStill
     DEF Attach, AttachError, ScanStart, RemoveError, ScanEnd, UploadInv, JobInv
<1>12. CASE Remove
  BY <1>0, <1>12, UploadStill DEF Remove, CleanInv, UploadInv, JobInv
<1>13. CASE Tick \/ Restart
  BY <1>0, <1>13, UploadStill DEF Tick, Restart, UploadInv, JobInv
<1>14. CASE Crash
  <2>1. /\ job'[v].phase = IF job[v].phase = "open" THEN "cancelled" ELSE job[v].phase
        /\ job'[v].kind = job[v].kind /\ job'[v].count = job[v].count
        /\ job'[v].stored = job[v].stored /\ job'[v].left = job[v].left
        /\ inflight' = {} /\ broken' = broken \cup inflight /\ queued' = {}
        /\ UNCHANGED <<disk, finished, handed, histVars>>
    BY <1>j, <1>14 DEF Crash, HandlersGone
  <2>2. \A k : (Begun(v, k)' <=> Begun(v, k)) /\ (Writing(v, k)' <=> Writing(v, k))
    BY <2>1 DEF Begun, Writing
  <2>3. JobInv(v)'
    BY <1>0, <2>1 DEF UploadInv, JobInv
  <2>4. DiskInv(v)' /\ FailInv(v)'
    BY <1>0, <2>1, <2>2 DEF UploadInv, DiskInv, FailInv
  <2>5. WriteInv(v)'
    <3>1. job[v].phase = "new" => \A k \in 1..MaxFiles : ~Begun(v, k)
      BY <1>0, <1>j DEF UploadInv, JobInv, Begun, Writing
    <3> QED
      BY <1>0, <2>1, <2>2, <3>1 DEF UploadInv, WriteInv, Complete
  <2>6. SendInv(v)'
    BY <1>0, <2>1 DEF UploadInv, SendInv
  <2> QED
    BY <2>3, <2>4, <2>5, <2>6 DEF UploadInv
<1>15. CASE UNCHANGED vars
  BY <1>0, <1>15, UploadStill DEF UploadInv, JobInv
<1> QED
  BY <1>1, <1>2, <1>3, <1>4, <1>5, <1>6, <1>7, <1>8, <1>9, <1>10, <1>11,
     <1>12, <1>13, <1>14, <1>15 DEF Next

-----------------------------------------------------------------------------
(* The theorems.                                                           *)

LEMMA InvInit == Init => IInv
<1> SUFFICES ASSUME Init PROVE IInv
  OBVIOUS
<1>1. CleanInv
  BY DEF Init, CleanInv
<1>2. ASSUME NEW u \in Uploads PROVE UploadInv(u)
  BY MediaConstants DEF Init, UploadInv, JobInv, DiskInv, FailInv, WriteInv, SendInv,
     Begun, Writing
<1> QED
  BY <1>1, <1>2, TypeInit DEF IInv

LEMMA InvStep == IInv /\ [Next]_vars => IInv'
<1> SUFFICES ASSUME IInv, [Next]_vars PROVE IInv'
  OBVIOUS
<1>1. TypeOK /\ CleanInv /\ \A u \in Uploads : JobInv(u)
  BY DEF IInv, UploadInv
<1>2. TypeOK'
  BY <1>1, TypeStep
<1> QED
  BY <1>1, <1>2, CleanStep, UploadStep DEF IInv

\* The inductive invariant holds in every reachable state.
THEOREM Invariance == Spec => []IInv
  BY InvInit, InvStep, PTL DEF Spec

\* Every reachable state of the store is well-typed: a handler never stores
\* more files than were announced.
THEOREM TypeCorrect == Spec => []TypeOK
<1>1. IInv => TypeOK
  BY DEF IInv
<1> QED
  BY <1>1, Invariance, PTL

\* A call that fails leaves behind none of its files, but those it could not
\* remove and the one a failed SendMedia was writing.
THEOREM FailureTheorem == Spec => []FailureCleansUp
<1>1. IInv => FailureCleansUp
  <2> SUFFICES ASSUME IInv, NEW u \in Uploads, job[u].phase = "failed",
                      NEW k \in 1..MaxFiles, <<u, k>> \in disk
               PROVE  \/ <<u, k>> \in kept
                      \/ /\ job[u].kind = "unary" /\ <<u, k>> \in broken
                         /\ k = job[u].stored + 1
    BY DEF FailureCleansUp
  <2> QED
    BY DEF IInv, UploadInv, FailInv, Writing
<1> QED
  BY <1>1, Invariance, PTL

\* An accepted action finds the files it names given to a write completely,
\* and those of SendMedia on disk.
THEOREM WrittenTheorem == Spec => []QueuedFilesWritten
<1>1. IInv => QueuedFilesWritten
  <2> SUFFICES ASSUME IInv, NEW u \in queued, NEW k \in 1..job[u].count
               PROVE  /\ <<u, k>> \in finished
                      /\ job[u].kind = "unary" => Complete(<<u, k>>)
    BY DEF QueuedFilesWritten, FilesOf
  <2>1. TypeOK /\ u \in Uploads /\ UploadInv(u)
    BY DEF IInv, TypeOK
  <2>2. /\ job[u].phase = "done" /\ job[u].left = 0
        /\ job[u].stored = job[u].count
    BY <2>1 DEF UploadInv, SendInv, JobInv
  <2>3. k \in 1..MaxFiles /\ k <= job[u].stored
    BY <2>1, <2>2, MediaConstants, JobFact
  <2> QED
    BY <2>1, <2>2, <2>3 DEF UploadInv, WriteInv
<1> QED
  BY <1>1, Invariance, PTL

LEMMA NeededLemma == IInv => NeededFilesStay
<1> SUFFICES ASSUME IInv, NEW f \in handed \cup QueuedFiles
             PROVE  f \in disk \cup expired
  BY DEF NeededFilesStay
<1>1. TypeOK
  BY DEF IInv
<1>2. PICK u \in Uploads, k \in 1..MaxFiles :
        f = <<u, k>> /\ job[u].phase = "done" /\ k <= job[u].count
  <2>1. CASE f \in handed
    <3>1. f[1] \in Uploads /\ f[2] \in 1..MaxFiles /\ f = <<f[1], f[2]>>
      BY <1>1, <2>1, FileFact DEF TypeOK
    <3> QED
      BY <2>1, <3>1 DEF IInv, UploadInv, SendInv
  <2>2. CASE f \in QueuedFiles
    <3>1. PICK u \in queued : f \in FilesOf(u)
      BY <2>2 DEF QueuedFiles
    <3>2. PICK k \in 1..job[u].count : f = <<u, k>>
      BY <3>1 DEF FilesOf
    <3>3. u \in Uploads
      BY <1>1 DEF TypeOK
    <3>4. k \in 1..MaxFiles /\ k <= job[u].count
      BY <1>1, <3>3, MediaConstants, JobFact
    <3> QED
      BY <3>2, <3>3, <3>4 DEF IInv, UploadInv, SendInv
  <2> QED
    BY <2>1, <2>2
<1>3. Begun(u, k)
  BY <1>2 DEF IInv, UploadInv, JobInv, Begun
<1> QED
  BY <1>2, <1>3 DEF IInv, UploadInv, DiskInv

\* A file that is queued, or with the messenger, is missing only if it once
\* lay unwritten for longer than RETENTION, whatever else fails or overlaps.
THEOREM NeededTheorem == Spec => []NeededFilesStay
  BY NeededLemma, Invariance, PTL
=============================================================================
