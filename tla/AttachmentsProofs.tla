------------------------- MODULE AttachmentsProofs -------------------------
(***************************************************************************)
(* Theorems of Attachments, for every value of its constants: any files    *)
(* and workers, any limit, any number of attempts, requeues and troubles.  *)
(***************************************************************************)
EXTENDS Attachments, FiniteSetTheorems, TLAPS

\* The request was told that the file is stored, or it was withdrawn; and the
\* latter alone.
Finalized == {"STORED", "DELETE_PENDING", "DELETED"}
Withdrawn == {"DELETE_PENDING", "DELETED"}

\* A file between its two stores: while its bytes may still arrive it is not
\* accepted, when it is accepted they are there, and who removes them does so
\* for a file that was withdrawn.
BytesOK(f) ==
  /\ row[f].storage = "NONE" => upload[f] = "NONE"
  /\ upload[f] = "PUT" => row[f].storage = "PENDING_UPLOAD"
  /\ upload[f] \in {"NONE", "PUT", "FINALIZE"} => f \notin late
  /\ upload[f] = "FINALIZE" /\ row[f].storage = "PENDING_UPLOAD" => f \in object
  /\ f \in late => \/ row[f].storage \in {"PENDING_UPLOAD", "UPLOAD_FAILED"}
                   \/ row[f].storage = "DELETE_PENDING" /\ row[f].deleted
  /\ row[f].storage = "DELETED" => f \notin object
  /\ \A p \in {"DELETE", "RECONCILE"} :
       /\ erase[p][f] # "NONE" => row[f].storage \in Withdrawn /\ f \notin late
       /\ erase[p][f] = "MARK" => f \notin object

\* A file and its job.
JobOK(f) ==
  /\ job[f].status # "NONE" => row[f].storage \in Finalized /\ f \notin late
  /\ requeued[f] = 0 => row[f].attempts <= job[f].attempts
  /\ /\ row[f].storage = "STORED"
     /\ row[f].scan = "PENDING_SCAN"
     /\ requeued[f] = 0
     => job[f].status \in {"PENDING", "RETRY", "PROCESSING"}

Scanning(w) == work[w].step \in {"SCAN", "COMMIT"}

\* What a worker may rely on though its lease is over.
TaskOK(w) ==
  LET t == work[w] IN
  t.step # "IDLE" =>
    /\ t.file \in Files
    /\ t.attempt > 0
    /\ job[t.file].status # "NONE"
    /\ t.step = "BURY" => ~Awaiting(t.file)
    /\ t.step \in {"REMOVE", "MARK"} => row[t.file].storage \in Withdrawn
    /\ t.step = "MARK" => t.file \notin object
    /\ Scanning(w) => t.attempt <= row[t.file].attempts

\* The attempt number fences: two scans of a file never have the same.
ClaimsDiffer ==
  \A v, w \in Workers :
    /\ Scanning(v) /\ Scanning(w)
    /\ work[v].file = work[w].file
    /\ work[v].attempt = work[w].attempt
    => v = w

Inv ==
  /\ TypeOK
  /\ \A f \in Files : BytesOK(f) /\ JobOK(f)
  /\ \A w \in Workers : TaskOK(w)
  /\ ClaimsDiffer
  /\ IsFiniteSet(Counted) /\ Cardinality(Counted) <= MaxFiles

-----------------------------------------------------------------------------
\* The four fields of a row, and what is known of it beside.
Eraser == {"DELETE", "RECONCILE"}

\* Nothing happens to a file.
Untouched(g) ==
  /\ row'[g] = row[g] /\ job'[g] = job[g]
  /\ upload'[g] = upload[g] /\ requeued'[g] = requeued[g]
  /\ \A p \in Eraser : erase'[p][g] = erase[p][g]
  /\ g \in late' <=> g \in late
  /\ g \in object' <=> g \in object

\* What no step takes back from a file, whoever works on it.
Kept(f) ==
  /\ job[f].status # "NONE" => job'[f].status # "NONE"
  /\ job[f].status # "NONE" /\ ~Awaiting(f) => ~Awaiting(f)'
  /\ job[f].status # "NONE" /\ row[f].storage \in Withdrawn =>
       row'[f].storage \in Withdrawn /\ (f \in object' => f \in object)

\* A step on one file leaves it in order, and counts it against the limit
\* only if there is room.
FileStep(f) ==
  /\ TypeOK'
  /\ BytesOK(f)' /\ JobOK(f)'
  /\ Kept(f)
  /\ f \in Counted' => f \in Counted \/ Cardinality(Counted) < MaxFiles
  /\ \A g \in Files \ {f} : Untouched(g)

\* Uploads.
LEMMA UploadFile ==
  ASSUME Inv, NEW f \in Files, Upload(f)
  PROVE  FileStep(f) /\ row'[f].attempts = row[f].attempts
<1> USE DEF FileStep, Counted, Kept, Untouched, BytesOK, JobOK, TypeOK, Finalized, Withdrawn,
            Awaiting, Eraser, untouchedByUpload, StorageStatus, ScanStatus, JobStatus, Attachment, Job
<1>0. TypeOK /\ BytesOK(f) /\ JobOK(f)
  BY DEF Inv
<1>1. CASE Reserve(f)
  <2>0. row[f] \in Attachment
    BY <1>0
  <2>1. TypeOK'
    BY <1>0, <1>1, <2>0 DEF Reserve
  <2>2. BytesOK(f)' /\ JobOK(f)'
    BY <1>0, <1>1, <2>0 DEF Reserve
  <2> QED
    BY <1>0, <1>1, <2>0, <2>1, <2>2 DEF Reserve
<1>2. CASE PutSucceeds(f)
  BY <1>0, <1>2 DEF PutSucceeds
<1>3. CASE PutFails(f)
  BY <1>0, <1>3 DEF PutFails
<1>4. CASE Finalize(f)
  <2>0. row[f] \in Attachment /\ job[f] \in Job
    BY <1>0
  <2>1. /\ upload[f] = "FINALIZE" /\ row[f].storage = "PENDING_UPLOAD"
        /\ f \in object /\ f \notin late /\ row[f].deleted = FALSE
        /\ \A p \in Eraser : erase[p][f] = "NONE"
    BY <1>0, <1>4, <2>0 DEF Finalize, Finalizes
  <2>2. PICK next \in {"DONE", "MARK"} : upload' = [upload EXCEPT ![f] = next]
    BY <1>4 DEF Finalize
  <2>3. CASE /\ row' = [row EXCEPT ![f].storage = "STORED", ![f].scan = "PENDING_SCAN"]
             /\ job' = [job EXCEPT ![f].status = "PENDING"]
    BY <1>0, <1>4, <2>0, <2>1, <2>2, <2>3 DEF Finalize
  <2>4. CASE /\ row' = [row EXCEPT ![f].storage = "STORED",
                                   ![f].scan = "SCAN_SKIPPED_BY_ADMIN"]
             /\ UNCHANGED job
    BY <1>0, <1>4, <2>0, <2>1, <2>2, <2>4 DEF Finalize
  <2> QED
    BY <1>4, <2>3, <2>4 DEF Finalize
<1>5. CASE FinalizeFails(f)
  BY <1>0, <1>5 DEF FinalizeFails
<1>6. CASE Mark(f)
  <2>1. CASE UNCHANGED row
    BY <1>0, <1>6, <2>1 DEF Mark
  <2>2. CASE /\ row[f].storage = "PENDING_UPLOAD"
             /\ row' = [row EXCEPT ![f].storage = "UPLOAD_FAILED"]
    <3>1. row[f] \in Attachment
      BY <1>0
    <3> QED
      BY <1>0, <1>6, <2>2, <3>1 DEF Mark
  <2> QED
    BY <1>6, <2>1, <2>2 DEF Mark, markUploadFailed
<1>7. CASE LatePut(f)
  <2>1. CASE UNCHANGED object
    BY <1>0, <1>7, <2>1 DEF LatePut
  <2>2. CASE object' = object \cup {f}
    BY <1>0, <1>7, <2>2 DEF LatePut
  <2> QED
    BY <1>7, <2>1, <2>2 DEF LatePut
<1>8. CASE UploadCrash(f)
  BY <1>0, <1>8 DEF UploadCrash
<1> QED
  BY <1>1, <1>2, <1>3, <1>4, <1>5, <1>6, <1>7, <1>8 DEF Upload, UploadStep

\* Deletions and the reconciler.
LEMMA EraseFile ==
  ASSUME Inv, NEW f \in Files, Erasure(f)
  PROVE  FileStep(f) /\ row'[f].attempts = row[f].attempts
<1> USE DEF FileStep, Counted, Kept, Untouched, BytesOK, JobOK, TypeOK, Finalized, Withdrawn,
            Awaiting, Eraser, untouchedByErase, StorageStatus, ScanStatus, JobStatus, Attachment, Job
<1>0. TypeOK /\ BytesOK(f) /\ JobOK(f) /\ row[f] \in Attachment
  BY DEF Inv
<1>1. CASE deleteAttachment(f)
  BY <1>0, <1>1 DEF deleteAttachment, Deletable
<1>2. CASE Reconcile(f)
  BY <1>0, <1>2 DEF Reconcile, Abandoned, Settled
<1>3. ASSUME NEW p \in Eraser, Remove(p, f)
      PROVE  FileStep(f) /\ row'[f].attempts = row[f].attempts
  BY <1>0, <1>3 DEF Remove
<1>4. ASSUME NEW p \in Eraser, MarkDeleted(p, f)
      PROVE  FileStep(f) /\ row'[f].attempts = row[f].attempts
  <2>1. TypeOK'
    BY <1>0, <1>4 DEF MarkDeleted
  <2>2. BytesOK(f)' /\ JobOK(f)'
    BY <1>0, <1>4 DEF MarkDeleted
  <2> QED
    BY <1>0, <1>4, <2>1, <2>2 DEF MarkDeleted
<1>5. ASSUME NEW p \in Eraser, EraseFails(p, f)
      PROVE  FileStep(f) /\ row'[f].attempts = row[f].attempts
  BY <1>0, <1>5 DEF EraseFails
<1> QED
  BY <1>1, <1>2, <1>3, <1>4, <1>5 DEF Erasure

\* The administrator's requeue.
LEMMA RequeueFile ==
  ASSUME Inv, NEW f \in Files, retryEvent(f)
  PROVE  FileStep(f) /\ row'[f].attempts = row[f].attempts
<1> USE DEF FileStep, Counted, Kept, Untouched, BytesOK, JobOK, TypeOK, Finalized, Withdrawn,
            Awaiting, Eraser, StorageStatus, ScanStatus, JobStatus, Attachment, Job
<1>0. TypeOK /\ BytesOK(f) /\ JobOK(f) /\ row[f] \in Attachment
  BY DEF Inv
<1> QED
  BY <1>0, BoundsAssumption DEF retryEvent, BoundsAssumption

\* A worker's step on a file f: its task is in order afterwards, and every
\* other scan of the file has a number of its own that the row has reached.
WorkStep(w, f) ==
  /\ FileStep(f)
  /\ TaskOK(w)'
  /\ Scanning(w)' => work'[w].file = f
  /\ \A v \in Workers \ {w} :
       /\ work'[v] = work[v]
       /\ Scanning(v) /\ work[v].file = f =>
            /\ work[v].attempt <= row'[f].attempts
            /\ Scanning(w)' /\ work'[w].file = f =>
                 work'[w].attempt # work[v].attempt

\* What a worker's step starts from.
LEMMA AtWork ==
  ASSUME Inv, NEW w \in Workers, work[w].step # "IDLE",
         NEW f, f = work[w].file
  PROVE  /\ f \in Files /\ TypeOK /\ BytesOK(f) /\ JobOK(f)
         /\ row[f] \in Attachment /\ job[f] \in Job /\ work[w] \in Task
         /\ TaskOK(w)
         /\ \A v \in Workers \ {w} :
              Scanning(v) /\ work[v].file = f =>
                /\ work[v].attempt <= row[f].attempts
                /\ Scanning(w) => work[v].attempt # work[w].attempt
BY DEF Inv, TypeOK, TaskOK, ClaimsDiffer, Scanning

\* Claiming a job: there is one, so the file is stored or was.
LEMMA ClaimStep ==
  ASSUME Inv, NEW w \in Workers, NEW f \in Files, claim(w, f)
  PROVE  WorkStep(w, f)
<1> DEFINE t == [step |-> "START", file |-> f, attempt |-> job[f].attempts + 1,
                 outcome |-> "NONE"]
<1>0. /\ TypeOK /\ BytesOK(f) /\ JobOK(f) /\ row[f] \in Attachment /\ job[f] \in Job
      /\ \A v \in Workers : TaskOK(v)
  BY DEF Inv, TypeOK
<1>1. /\ job[f].status \in {"PENDING", "RETRY", "PROCESSING"}
      /\ job[f].attempts + 1 \in 1 .. MaxClaims
      /\ job' = [job EXCEPT ![f].status = "PROCESSING", ![f].attempts = @ + 1]
      /\ work' = [work EXCEPT ![w] = t]
      /\ UNCHANGED <<row, object, untouchedByScan>>
      /\ troubles' \in 0 .. MaxTroubles
  BY <1>0, BoundsAssumption
  DEF claim, Claimable, Goto, Job, TypeOK, BoundsAssumption
<1>2. TypeOK'
  <2>1. t \in Task
    BY <1>1 DEF Task
  <2>2. job' \in [Files -> Job]
    BY <1>0, <1>1 DEF TypeOK, Job, JobStatus
  <2> QED
    BY <1>0, <1>1, <2>1, <2>2 DEF TypeOK, untouchedByScan
<1>3. FileStep(f)
  BY <1>0, <1>1, <1>2
  DEF FileStep, Counted, Kept, Untouched, BytesOK, JobOK, TypeOK, Awaiting,
      Eraser, untouchedByScan, Attachment, Job
<1>4. TaskOK(w)'
  BY <1>0, <1>1 DEF TaskOK, Scanning, TypeOK
<1>5. work \in [Workers -> Task]
  BY <1>0 DEF TypeOK
<1>6. ~Scanning(w)' /\ \A v \in Workers \ {w} : work'[v] = work[v]
  BY <1>1, <1>5 DEF Scanning
<1> QED
  BY <1>0, <1>1, <1>3, <1>4, <1>6 DEF WorkStep, TaskOK, Scanning

\* A task t on the file f that worker w may go on with.
Follows(w, f, t) ==
  /\ t.file = f /\ t.attempt = work[w].attempt
  /\ t.step \in {"SCAN", "COMMIT"} => Scanning(w)
  /\ t.step = "BURY" => ~Awaiting(f)'
  /\ t.step \in {"REMOVE", "MARK"} => row'[f].storage \in Withdrawn
  /\ t.step = "MARK" => f \notin object'

\* A step that leaves the attempt of the row alone, or makes it greater
\* without scanning.
LEMMA TaskMoves ==
  ASSUME Inv, NEW w \in Workers, work[w].step # "IDLE",
         NEW f \in Files, f = work[w].file,
         FileStep(f), row'[f].attempts = row[f].attempts,
         NEW t, Goto(w, t), t = Resting \/ Follows(w, f, t)
  PROVE  WorkStep(w, f)
<1>0. /\ TaskOK(w) /\ work \in [Workers -> Task]
      /\ job[f].status # "NONE"
  BY AtWork DEF TypeOK, TaskOK
<1>1. work'[w] = t /\ \A v \in Workers \ {w} : work'[v] = work[v]
  BY <1>0 DEF Goto
<1>2. job'[f].status # "NONE"
  BY <1>0 DEF FileStep, Kept
<1>3. TaskOK(w)'
  <2>1. CASE t = Resting
    BY <1>1, <2>1 DEF TaskOK, Resting
  <2>2. CASE Follows(w, f, t)
    BY <1>0, <1>1, <1>2, <2>2 DEF TaskOK, Follows, Scanning
  <2> QED
    BY <2>1, <2>2
<1>4. Scanning(w)' => t.file = f /\ Scanning(w) /\ t.attempt = work[w].attempt
  BY <1>1 DEF Scanning, Follows, Resting
<1> QED
  BY <1>1, <1>3, <1>4, AtWork DEF WorkStep

\* The types of a step that changes no more than these.
LEMMA ScanTypes ==
  ASSUME TypeOK, row' \in [Files -> Attachment], job' \in [Files -> Job],
         object' \subseteq Files, NEW w \in Workers, NEW t \in Task, Goto(w, t),
         UNCHANGED untouchedByScan, troubles' \in 0 .. MaxTroubles
  PROVE  TypeOK'
BY DEF TypeOK, untouchedByScan, Goto

\* A worker without a job.
LEMMA Rested == Resting \in Task
BY BoundsAssumption DEF Resting, Task, BoundsAssumption

\* A step of a worker that only changes its task.
LEMMA QuietStep ==
  ASSUME Inv, NEW w \in Workers, work[w].step # "IDLE",
         NEW f \in Files, f = work[w].file,
         NEW t \in Task, Goto(w, t), t = Resting \/ Follows(w, f, t),
         UNCHANGED <<row, job, object, untouchedByScan>>,
         troubles' \in 0 .. MaxTroubles
  PROVE  WorkStep(w, f)
<1>1. /\ f \in Files /\ TypeOK /\ BytesOK(f) /\ JobOK(f)
  BY AtWork
<1>2. TypeOK'
  BY <1>1, ScanTypes DEF TypeOK
<1>3. FileStep(f)
  <2>1. BytesOK(f)' /\ JobOK(f)'
    BY <1>1 DEF BytesOK, JobOK, untouchedByScan
  <2>2. Kept(f) /\ (f \in Counted' => f \in Counted)
    BY DEF Kept, Awaiting, Counted
  <2>3. \A g \in Files : Untouched(g)
    BY DEF Untouched, untouchedByScan
  <2> QED
    BY <1>2, <2>1, <2>2, <2>3 DEF FileStep
<1> QED
  BY <1>3, TaskMoves

\* The beginning of a scan: the number of the attempt passes that of the row,
\* so no other scan of the file has it.
LEMMA StartStep ==
  ASSUME Inv, NEW w \in Workers, NEW f \in Files, f = work[w].file, startScan(w)
  PROVE  WorkStep(w, f)
<1> DEFINE t == work[w]
<1>0. /\ t.step = "START"
      /\ TypeOK /\ BytesOK(f) /\ JobOK(f) /\ TaskOK(w)
      /\ row[f] \in Attachment /\ job[f] \in Job /\ t \in Task
      /\ UNCHANGED <<job, object, troubles, untouchedByScan>>
      /\ work \in [Workers -> Task]
  BY AtWork DEF startScan, TypeOK
<1>1. CASE UNCHANGED row /\ Rest(w)
  BY <1>0, <1>1, QuietStep, Rested DEF Rest, TypeOK
<1>2. CASE /\ UNCHANGED row /\ ~Awaiting(f)
           /\ Goto(w, [t EXCEPT !.step = "BURY"])
  <2> DEFINE n == [t EXCEPT !.step = "BURY"]
  <2>1. /\ n \in Task /\ n.step = "BURY" /\ n.file = f /\ n.attempt = t.attempt
        /\ Goto(w, n)
    BY <1>0, <1>2 DEF Task
  <2>2. Follows(w, f, n)
    BY <1>0, <1>2, <2>1 DEF Follows, Awaiting
  <2> HIDE DEF n
  <2> QED
    BY <1>0, <1>2, <2>1, <2>2, QuietStep DEF TypeOK
<1>3. CASE /\ Held(w) /\ Awaiting(f) /\ Newer(w)
           /\ row' = [row EXCEPT ![f].attempts = t.attempt]
           /\ Goto(w, [t EXCEPT !.step = "SCAN"])
  <2> DEFINE n == [t EXCEPT !.step = "SCAN"]
  <2>1. /\ n \in Task /\ n.step = "SCAN" /\ n.file = f /\ n.attempt = t.attempt
        /\ Goto(w, n)
    BY <1>0, <1>3 DEF Task
  <2>2. /\ t.attempt \in 0 .. MaxClaims
        /\ row[f].attempts < t.attempt
        /\ job[f].attempts = t.attempt
        /\ job[f].status = "PROCESSING"
    BY <1>0, <1>3 DEF Task, Newer, Held
  <2>3. /\ row' \in [Files -> Attachment]
        /\ row'[f] = [row[f] EXCEPT !.attempts = t.attempt]
        /\ \A g \in Files \ {f} : row'[g] = row[g]
    BY <1>0, <1>3, <2>2 DEF TypeOK, Attachment
  <2>4. /\ row'[f].storage = row[f].storage /\ row'[f].scan = row[f].scan
        /\ row'[f].deleted = row[f].deleted /\ row'[f].attempts = t.attempt
    BY <1>0, <2>3 DEF Attachment
  <2> HIDE DEF n
  <2>5. TypeOK'
    BY <1>0, <1>3, <2>1, <2>3, ScanTypes DEF TypeOK
  <2>6. FileStep(f)
    <3>1. BytesOK(f)'
      BY <1>0, <2>4 DEF BytesOK, untouchedByScan
    <3>2. JobOK(f)'
      BY <1>0, <2>2, <2>4 DEF JobOK, untouchedByScan
    <3>3. Kept(f) /\ (f \in Counted' => f \in Counted)
      BY <1>0, <2>4 DEF Kept, Awaiting, Counted
    <3>4. \A g \in Files \ {f} : Untouched(g)
      BY <1>0, <2>3 DEF Untouched, untouchedByScan
    <3> QED
      BY <2>5, <3>1, <3>2, <3>3, <3>4 DEF FileStep
  <2>7. work'[w] = n /\ \A v \in Workers \ {w} : work'[v] = work[v]
    BY <1>0, <2>1 DEF Goto
  <2>8. TaskOK(w)'
    BY <1>0, <2>1, <2>2, <2>4, <2>7 DEF TaskOK, Scanning
  <2>9. ASSUME NEW v \in Workers \ {w}, Scanning(v), work[v].file = f
        PROVE  work[v].attempt <= row'[f].attempts /\ n.attempt # work[v].attempt
    <3>1. work[v].attempt <= row[f].attempts /\ work[v].attempt \in Nat
      BY <1>0, <2>9, AtWork DEF TypeOK, Task
    <3>2. row[f].attempts \in Nat /\ t.attempt \in Nat
      BY <1>0, <2>2 DEF Attachment
    <3> QED
      BY <2>1, <2>2, <2>4, <3>1, <3>2
  <2> QED
    BY <2>1, <2>6, <2>7, <2>8, <2>9 DEF WorkStep
<1> QED
  BY <1>1, <1>2, <1>3 DEF startScan

\* A job is buried when nothing waits for its scan.
LEMMA BuryStep ==
  ASSUME Inv, NEW w \in Workers, NEW f \in Files, f = work[w].file, deadLetter(w)
  PROVE  WorkStep(w, f)
<1>0. /\ work[w].step = "BURY"
      /\ TypeOK /\ BytesOK(f) /\ JobOK(f) /\ TaskOK(w)
      /\ row[f] \in Attachment /\ job[f] \in Job
      /\ ~Awaiting(f) /\ job[f].status # "NONE"
      /\ UNCHANGED <<row, object, troubles, untouchedByScan>>
      /\ Goto(w, Resting)
  BY AtWork DEF deadLetter, TaskOK, Rest
<1>1. CASE UNCHANGED job
  BY <1>0, <1>1, QuietStep, Rested DEF TypeOK
<1>2. CASE job' = [job EXCEPT ![f].status = "DEAD_LETTER"]
  <2>1. /\ job' \in [Files -> Job]
        /\ job'[f].status = "DEAD_LETTER" /\ job'[f].attempts = job[f].attempts
        /\ \A g \in Files \ {f} : job'[g] = job[g]
    BY <1>0, <1>2 DEF TypeOK, Job, JobStatus
  <2>2. TypeOK'
    BY <1>0, <2>1, ScanTypes, Rested DEF TypeOK
  <2>3. FileStep(f)
    <3>1. BytesOK(f)'
      BY <1>0 DEF BytesOK, untouchedByScan
    <3>2. JobOK(f)'
      BY <1>0, <2>1 DEF JobOK, Awaiting, Attachment, untouchedByScan
    <3>3. Kept(f) /\ (f \in Counted' => f \in Counted)
      BY <1>0, <2>1 DEF Kept, Awaiting, Counted
    <3>4. \A g \in Files \ {f} : Untouched(g)
      BY <1>0, <2>1 DEF Untouched, untouchedByScan
    <3> QED
      BY <2>2, <3>1, <3>2, <3>3, <3>4 DEF FileStep
  <2> QED
    BY <1>0, <2>3, TaskMoves
<1> QED
  BY <1>1, <1>2 DEF deadLetter

\* The scan itself writes nothing.
LEMMA ScanStep ==
  ASSUME Inv, NEW w \in Workers, NEW f \in Files, f = work[w].file, scan(w)
  PROVE  WorkStep(w, f)
<1>0. work[w].step = "SCAN" /\ work[w] \in Task /\ TypeOK
  BY AtWork DEF scan
<1>1. PICK outcome \in {"UNREACHABLE", "CLEAN", "INFECTED", "ERROR", "MISSING"} :
        Goto(w, [work[w] EXCEPT !.step = "COMMIT", !.outcome = outcome])
  BY DEF scan
<1> DEFINE n == [work[w] EXCEPT !.step = "COMMIT", !.outcome = outcome]
<1>2. /\ n \in Task /\ n.step = "COMMIT" /\ n.file = f
      /\ n.attempt = work[w].attempt /\ Goto(w, n)
  BY <1>0, <1>1 DEF Task
<1>3. Follows(w, f, n)
  BY <1>0, <1>2 DEF Follows, Scanning
<1> HIDE DEF n
<1> QED
  BY <1>0, <1>2, <1>3, QuietStep DEF scan, TypeOK

\* The worker whose attempt the row expects holds it; without a requeue the
\* number of the job tells the same.
LEMMA HeldIsExpected ==
  ASSUME Inv, NEW w \in Workers, NEW f \in Files, f = work[w].file,
         Scanning(w), Held(w), Awaiting(f), requeued[f] = 0
  PROVE  Expects(w)
<1>1. /\ work[w].step # "IDLE" /\ work[w].attempt <= row[f].attempts
      /\ row[f].attempts <= job[f].attempts /\ job[f].attempts = work[w].attempt
  BY AtWork DEF Scanning, TaskOK, JobOK, Held
<1>2. row[f].attempts \in Nat /\ work[w].attempt \in Nat
  BY <1>1, AtWork DEF Attachment, Task
<1> QED
  BY <1>1, <1>2 DEF Expects

\* A row a and an entry j that end or go on with a scan.
Outcome(f, a, j) ==
  /\ a \in Attachment /\ j \in Job
  /\ a.attempts = row[f].attempts /\ a.deleted = row[f].deleted
  /\ a.storage \in {"STORED", "DELETE_PENDING"}
  /\ j.attempts = job[f].attempts /\ j.status # "NONE"
  /\ a.scan = "PENDING_SCAN" => j.status = "RETRY"

\* The commit of an outcome.
LEMMA CommitStep ==
  ASSUME Inv, NEW w \in Workers, NEW f \in Files, f = work[w].file,
         work[w].step = "COMMIT",
         NEW a, NEW j, Held(w) /\ Expects(w) => Outcome(f, a, j),
         Commit(w, a, j),
         NEW t \in Task, Goto(w, t),
         IF Held(w) /\ Expects(w) /\ a.storage = "DELETE_PENDING"
         THEN t = [work[w] EXCEPT !.step = "REMOVE"] ELSE t = Resting,
         UNCHANGED <<object, troubles, untouchedByScan>>
  PROVE  WorkStep(w, f)
<1>0. /\ work[w].step # "IDLE" /\ work[w] \in Task /\ Scanning(w)
      /\ TypeOK /\ BytesOK(f) /\ JobOK(f) /\ TaskOK(w)
      /\ row[f] \in Attachment /\ job[f] \in Job
      /\ job[f].status # "NONE"
  BY AtWork DEF TaskOK, Scanning
<1>1. CASE ~Held(w)
  BY <1>0, <1>1, QuietStep DEF Commit, TypeOK
<1>2. CASE Held(w) /\ ~Expects(w)
  <2>1. /\ t = Resting /\ UNCHANGED row
        /\ job' = [job EXCEPT ![f].status = "DEAD_LETTER"]
    BY <1>2 DEF Commit
  <2>2. /\ job' \in [Files -> Job]
        /\ job'[f].status = "DEAD_LETTER" /\ job'[f].attempts = job[f].attempts
        /\ \A g \in Files \ {f} : job'[g] = job[g]
    BY <1>0, <2>1 DEF TypeOK, Job, JobStatus
  <2>3. TypeOK'
    BY <1>0, <2>1, <2>2, ScanTypes DEF TypeOK
  <2>4. FileStep(f)
    <3>1. BytesOK(f)'
      BY <1>0, <2>1 DEF BytesOK, untouchedByScan
    <3>2. Awaiting(f) => requeued[f] # 0
      BY <1>0, <1>2, HeldIsExpected
    <3>3. JobOK(f)'
      BY <1>0, <2>1, <2>2, <3>2 DEF JobOK, Awaiting, Attachment, untouchedByScan
    <3>4. Kept(f) /\ (f \in Counted' => f \in Counted)
      BY <1>0, <2>1, <2>2 DEF Kept, Awaiting, Counted
    <3>5. \A g \in Files \ {f} : Untouched(g)
      BY <1>0, <2>1, <2>2 DEF Untouched, untouchedByScan
    <3> QED
      BY <2>3, <3>1, <3>3, <3>4, <3>5 DEF FileStep
  <2> QED
    BY <1>0, <2>1, <2>4, TaskMoves
<1>3. CASE Held(w) /\ Expects(w)
  <2>0. /\ a \in Attachment /\ j \in Job
        /\ a.attempts = row[f].attempts /\ a.deleted = row[f].deleted
        /\ a.storage \in {"STORED", "DELETE_PENDING"}
        /\ j.attempts = job[f].attempts /\ j.status # "NONE"
        /\ a.scan = "PENDING_SCAN" => j.status = "RETRY"
    BY <1>3 DEF Outcome
  <2>1. row' = [row EXCEPT ![f] = a] /\ job' = [job EXCEPT ![f] = j]
    BY <1>3 DEF Commit
  <2>2. /\ row' \in [Files -> Attachment] /\ job' \in [Files -> Job]
        /\ row'[f] = a /\ job'[f] = j
        /\ \A g \in Files \ {f} : row'[g] = row[g] /\ job'[g] = job[g]
    BY <1>0, <2>0, <2>1 DEF TypeOK
  <2>3. TypeOK'
    BY <1>0, <2>2, ScanTypes DEF TypeOK
  <2>4. row[f].storage = "STORED" /\ Awaiting(f) /\ ~row[f].deleted
    BY <1>3 DEF Expects, Awaiting
  <2>5. FileStep(f)
    <3>1. BytesOK(f)'
      BY <1>0, <2>0, <2>2, <2>4 DEF BytesOK, untouchedByScan, Withdrawn
    <3>2. JobOK(f)'
      BY <1>0, <2>0, <2>2, <2>4 DEF JobOK, Finalized, untouchedByScan
    <3>3. Kept(f) /\ (f \in Counted' => f \in Counted)
      BY <1>0, <2>0, <2>2, <2>4 DEF Kept, Counted, Withdrawn
    <3>4. \A g \in Files \ {f} : Untouched(g)
      BY <1>0, <2>2 DEF Untouched, untouchedByScan
    <3> QED
      BY <2>3, <3>1, <3>2, <3>3, <3>4 DEF FileStep
  <2>6. t = Resting \/ Follows(w, f, t)
    <3>1. CASE t = [work[w] EXCEPT !.step = "REMOVE"] /\ a.storage = "DELETE_PENDING"
      <4>1. t.step = "REMOVE" /\ t.file = f /\ t.attempt = work[w].attempt
        BY <1>0, <3>1 DEF Task
      <4> QED
        BY <2>2, <3>1, <4>1 DEF Follows, Withdrawn
    <3> QED
      BY <1>3, <3>1
  <2> QED
    BY <1>0, <2>0, <2>2, <2>5, <2>6, TaskMoves
<1> QED
  BY <1>1, <1>2, <1>3

\* A verdict.
LEMMA CompleteStep ==
  ASSUME Inv, NEW w \in Workers, NEW f \in Files, f = work[w].file, complete(w)
  PROVE  WorkStep(w, f)
<1> DEFINE t == work[w]
           a == [row[f] EXCEPT !.scan = t.outcome,
                   !.storage = IF t.outcome = "INFECTED" THEN "DELETE_PENDING" ELSE @]
           j == [job[f] EXCEPT !.status = "DELIVERED"]
           n == IF t.outcome = "INFECTED" /\ Held(w) /\ Expects(w)
                THEN [t EXCEPT !.step = "REMOVE"] ELSE Resting
<1>1. t.step = "COMMIT" /\ t.outcome \in {"CLEAN", "INFECTED"}
  BY DEF complete
<1>2. t \in Task /\ row[f] \in Attachment /\ job[f] \in Job
  BY <1>1, AtWork
<1>3. Commit(w, a, j) /\ UNCHANGED <<object, troubles, untouchedByScan>>
  BY DEF complete
<1>4. Goto(w, n) /\ n \in Task
  BY <1>2, Rested DEF complete, Rest, Task
<1>5. ASSUME Held(w), Expects(w)
      PROVE  /\ Outcome(f, a, j)
             /\ a.storage = IF t.outcome = "INFECTED" THEN "DELETE_PENDING" ELSE "STORED"
  <2>1. row[f].storage = "STORED" /\ row[f].deleted = FALSE
    BY <1>2, <1>5 DEF Expects, Awaiting, Attachment
  <2>2. /\ a \in Attachment /\ a.attempts = row[f].attempts
        /\ a.deleted = row[f].deleted /\ a.scan = t.outcome
        /\ a.storage = IF t.outcome = "INFECTED" THEN "DELETE_PENDING" ELSE "STORED"
    BY <1>1, <1>2, <2>1 DEF Attachment, StorageStatus, ScanStatus
  <2>3. j \in Job /\ j.attempts = job[f].attempts /\ j.status = "DELIVERED"
    BY <1>2 DEF Job, JobStatus
  <2> HIDE DEF a, j
  <2> QED
    BY <1>1, <2>2, <2>3 DEF Outcome
<1> HIDE DEF a, j
<1>6. IF Held(w) /\ Expects(w) /\ a.storage = "DELETE_PENDING"
      THEN n = [t EXCEPT !.step = "REMOVE"] ELSE n = Resting
  BY <1>1, <1>5
<1> HIDE DEF n
<1> QED
  BY <1>1, <1>3, <1>4, <1>5, <1>6, CommitStep

\* No verdict.
LEMMA RetryStep ==
  ASSUME Inv, NEW w \in Workers, NEW f \in Files, f = work[w].file, retryOrFail(w)
  PROVE  WorkStep(w, f)
<1> DEFINE a(s) == [row[f] EXCEPT !.scan = s]
           j(s) == [job[f] EXCEPT !.status = s]
<1>1. work[w].step = "COMMIT" /\ UNCHANGED <<object, troubles, untouchedByScan>>
      /\ Goto(w, Resting) /\ Resting \in Task
  BY Rested DEF retryOrFail, Rest
<1>2. row[f] \in Attachment /\ job[f] \in Job
  BY <1>1, AtWork
<1>3. PICK s \in {"SCAN_ERROR", "PENDING_SCAN"}, d \in {"DEAD_LETTER", "RETRY"} :
        Commit(w, a(s), j(d)) /\ (s = "PENDING_SCAN" => d = "RETRY")
  BY DEF retryOrFail
<1>4. ASSUME Held(w), Expects(w)
      PROVE  Outcome(f, a(s), j(d)) /\ a(s).storage = "STORED"
  <2>1. row[f].storage = "STORED" /\ row[f].deleted = FALSE
    BY <1>2, <1>4 DEF Expects, Awaiting, Attachment
  <2>2. /\ a(s) \in Attachment /\ a(s).attempts = row[f].attempts
        /\ a(s).deleted = row[f].deleted /\ a(s).scan = s /\ a(s).storage = "STORED"
    BY <1>2, <2>1 DEF Attachment, StorageStatus, ScanStatus
  <2>3. j(d) \in Job /\ j(d).attempts = job[f].attempts /\ j(d).status = d
    BY <1>2 DEF Job, JobStatus
  <2> HIDE DEF a, j
  <2> QED
    BY <1>3, <2>2, <2>3 DEF Outcome
<1> HIDE DEF a, j
<1> QED
  BY <1>1, <1>3, <1>4, CommitStep

\* An attempt is given back: every other scan of the file has a number below
\* it, and so at most the one the row goes back to.
LEMMA DeferStep ==
  ASSUME Inv, NEW w \in Workers, NEW f \in Files, f = work[w].file,
         deferDependencyUnavailable(w)
  PROVE  WorkStep(w, f)
<1> DEFINE t == work[w]
           k == t.attempt - 1
<1>0. /\ t.step = "COMMIT" /\ t.step # "IDLE" /\ Scanning(w)
      /\ UNCHANGED <<object, troubles, untouchedByScan>>
      /\ Goto(w, Resting) /\ Resting \in Task
  BY Rested DEF deferDependencyUnavailable, Rest, Scanning
<1>1. /\ t \in Task /\ row[f] \in Attachment /\ job[f] \in Job
      /\ TypeOK /\ BytesOK(f) /\ JobOK(f) /\ t.attempt > 0
      /\ work \in [Workers -> Task]
  BY <1>0, AtWork DEF TaskOK, TypeOK
<1>2. CASE UNCHANGED <<row, job>>
  BY <1>0, <1>1, <1>2, QuietStep DEF TypeOK
<1>3. CASE Held(w) /\ Expects(w)
  <2>1. /\ row' = [row EXCEPT ![f].scan = "PENDING_SCAN", ![f].attempts = k]
        /\ job' = [job EXCEPT ![f] = [status |-> "RETRY", attempts |-> k]]
    BY <1>3 DEF deferDependencyUnavailable
  <2>2. /\ row[f].storage = "STORED" /\ row[f].deleted = FALSE
        /\ row[f].attempts = t.attempt /\ Awaiting(f) /\ job[f].status = "PROCESSING"
    BY <1>1, <1>3 DEF Expects, Held, Awaiting, Attachment
  <2>3. k \in 0 .. MaxClaims /\ k \in Nat
    BY <1>1, BoundsAssumption DEF Task, BoundsAssumption
  <2>4. /\ row' \in [Files -> Attachment] /\ job' \in [Files -> Job]
        /\ row'[f].storage = "STORED" /\ row'[f].scan = "PENDING_SCAN"
        /\ row'[f].attempts = k /\ row'[f].deleted = row[f].deleted
        /\ job'[f] = [status |-> "RETRY", attempts |-> k]
        /\ \A g \in Files \ {f} : row'[g] = row[g] /\ job'[g] = job[g]
    <3> HIDE DEF k
    <3> DEFINE a == [row[f] EXCEPT !.scan = "PENDING_SCAN", !.attempts = k]
               j == [status |-> "RETRY", attempts |-> k]
    <3>1. a \in Attachment /\ a.storage = "STORED" /\ a.scan = "PENDING_SCAN"
          /\ a.attempts = k /\ a.deleted = row[f].deleted
      BY <1>1, <2>2, <2>3 DEF Attachment, ScanStatus
    <3>2. j \in Job
      BY <2>3 DEF Job, JobStatus
    <3>3. row' = [row EXCEPT ![f] = a] /\ job' = [job EXCEPT ![f] = j]
      BY <2>1
    <3> HIDE DEF a
    <3> QED
      BY <1>1, <3>1, <3>2, <3>3 DEF TypeOK
  <2> HIDE DEF k
  <2>5. TypeOK'
    BY <1>0, <1>1, <2>4, ScanTypes DEF TypeOK
  <2>6. FileStep(f)
    <3>1. BytesOK(f)'
      BY <1>0, <1>1, <2>2, <2>4 DEF BytesOK, untouchedByScan, Withdrawn
    <3>2. JobOK(f)'
      BY <1>0, <1>1, <2>2, <2>3, <2>4 DEF JobOK, Finalized, untouchedByScan
    <3>3. Kept(f) /\ (f \in Counted' => f \in Counted)
      BY <1>0, <2>2, <2>4 DEF Kept, Counted, Withdrawn
    <3>4. \A g \in Files \ {f} : Untouched(g)
      BY <1>0, <2>4 DEF Untouched, untouchedByScan
    <3> QED
      BY <2>5, <3>1, <3>2, <3>3, <3>4 DEF FileStep
  <2>7. work'[w] = Resting /\ \A v \in Workers \ {w} : work'[v] = work[v]
    BY <1>0, <1>1 DEF Goto
  <2>8. TaskOK(w)' /\ ~Scanning(w)'
    BY <2>7 DEF TaskOK, Scanning, Resting
  <2>9. ASSUME NEW v \in Workers \ {w}, Scanning(v), work[v].file = f
        PROVE  work[v].attempt <= row'[f].attempts
    <3>1. /\ work[v].attempt <= row[f].attempts /\ work[v].attempt # t.attempt
          /\ work[v].attempt \in Nat
      BY <1>0, <1>1, <2>9, AtWork DEF Task
    <3>2. t.attempt \in Nat
      BY <1>1 DEF Task
    <3> QED
      BY <2>2, <2>4, <3>1, <3>2 DEF k
  <2> QED
    BY <2>6, <2>7, <2>8, <2>9 DEF WorkStep
<1> QED
  BY <1>2, <1>3 DEF deferDependencyUnavailable

\* The bytes of an infected file are removed, which only leaves fewer of them.
LEMMA RemoveInfectedStep ==
  ASSUME Inv, NEW w \in Workers, NEW f \in Files, f = work[w].file, RemoveInfected(w)
  PROVE  WorkStep(w, f)
<1> DEFINE n == [work[w] EXCEPT !.step = "MARK"]
<1>0. /\ work[w].step = "REMOVE"
      /\ TypeOK /\ BytesOK(f) /\ JobOK(f) /\ TaskOK(w) /\ work[w] \in Task
      /\ row[f].storage \in Withdrawn
      /\ object' = object \ {f}
      /\ UNCHANGED <<row, job, troubles, untouchedByScan>>
  BY AtWork DEF RemoveInfected, TaskOK
<1>1. /\ n \in Task /\ n.step = "MARK" /\ n.file = f
      /\ n.attempt = work[w].attempt /\ Goto(w, n)
  BY <1>0 DEF Task, RemoveInfected
<1> HIDE DEF n
<1>2. TypeOK'
  BY <1>0, <1>1, ScanTypes DEF TypeOK
<1>3. FileStep(f)
  <2>1. BytesOK(f)' /\ JobOK(f)'
    BY <1>0 DEF BytesOK, JobOK, untouchedByScan, Withdrawn
  <2>2. Kept(f) /\ (f \in Counted' => f \in Counted)
    BY <1>0 DEF Kept, Awaiting, Counted
  <2>3. \A g \in Files \ {f} : Untouched(g)
    BY <1>0 DEF Untouched, untouchedByScan
  <2> QED
    BY <1>2, <2>1, <2>2, <2>3 DEF FileStep
<1>4. Follows(w, f, n)
  BY <1>0, <1>1 DEF Follows
<1> QED
  BY <1>0, <1>1, <1>3, <1>4, TaskMoves

\* The row of an infected file says DELETED: its bytes are gone, and nothing
\* is under way for a file that has a job.
LEMMA MarkInfectedStep ==
  ASSUME Inv, NEW w \in Workers, NEW f \in Files, f = work[w].file, MarkInfected(w)
  PROVE  WorkStep(w, f)
<1>0. /\ work[w].step = "MARK"
      /\ TypeOK /\ BytesOK(f) /\ JobOK(f) /\ TaskOK(w) /\ row[f] \in Attachment
      /\ row[f].storage \in Withdrawn /\ f \notin object
      /\ job[f].status # "NONE"
      /\ Goto(w, Resting)
      /\ UNCHANGED <<job, object, troubles, untouchedByScan>>
  BY AtWork DEF MarkInfected, TaskOK, Rest
<1>1. CASE UNCHANGED row
  BY <1>0, <1>1, QuietStep, Rested DEF TypeOK
<1>2. CASE /\ row[f].storage = "DELETE_PENDING"
           /\ row' = [row EXCEPT ![f].storage = "DELETED"]
  <2>1. /\ row' \in [Files -> Attachment]
        /\ row'[f] = [row[f] EXCEPT !.storage = "DELETED"]
        /\ \A g \in Files \ {f} : row'[g] = row[g]
    BY <1>0, <1>2 DEF TypeOK, Attachment, StorageStatus
  <2>2. /\ row'[f].storage = "DELETED" /\ row'[f].scan = row[f].scan
        /\ row'[f].deleted = row[f].deleted /\ row'[f].attempts = row[f].attempts
    BY <1>0, <2>1 DEF Attachment
  <2>3. TypeOK'
    BY <1>0, <2>1, Rested, ScanTypes DEF TypeOK
  <2>4. FileStep(f)
    <3>1. BytesOK(f)'
      BY <1>0, <1>2, <2>2 DEF BytesOK, JobOK, untouchedByScan, Withdrawn
    <3>2. JobOK(f)'
      BY <1>0, <2>2 DEF JobOK, Finalized, untouchedByScan
    <3>3. Kept(f) /\ (f \in Counted' => f \in Counted)
      BY <1>0, <1>2, <2>2 DEF Kept, Awaiting, Counted, Withdrawn
    <3>4. \A g \in Files \ {f} : Untouched(g)
      BY <1>0, <2>1 DEF Untouched, untouchedByScan
    <3> QED
      BY <2>3, <3>1, <3>2, <3>3, <3>4 DEF FileStep
  <2> QED
    BY <1>0, <2>2, <2>4, TaskMoves
<1> QED
  BY <1>0, <1>1, <1>2 DEF MarkInfected

\* The worker stops.
LEMMA CrashStep ==
  ASSUME Inv, NEW w \in Workers, NEW f \in Files, f = work[w].file, WorkerCrash(w)
  PROVE  WorkStep(w, f)
<1>1. troubles' \in 0 .. MaxTroubles
  BY BoundsAssumption DEF WorkerCrash, Inv, TypeOK, BoundsAssumption
<1>2. work[w].step # "IDLE" /\ Goto(w, Resting)
      /\ UNCHANGED <<row, job, object, untouchedByScan>>
  BY DEF WorkerCrash, Rest
<1> QED
  BY <1>1, <1>2, QuietStep, Rested

\* Every step of a worker is a step on one file.
LEMMA WorkerStep ==
  ASSUME Inv, NEW w \in Workers, Work(w) \/ WorkerCrash(w)
  PROVE  \E f \in Files : WorkStep(w, f)
<1>1. CASE \E f \in Files : claim(w, f)
  BY <1>1, ClaimStep
<1>2. CASE ~ \E f \in Files : claim(w, f)
  <2>1. work[w].step # "IDLE"
    BY <1>2 DEF Work, WorkerCrash, startScan, deadLetter, scan, complete, retryOrFail,
                deferDependencyUnavailable, RemoveInfected, MarkInfected
  <2>2. PICK f : f = work[w].file
    OBVIOUS
  <2>3. f \in Files
    BY <2>1, <2>2, AtWork
  <2> QED
    BY <1>2, <2>2, <2>3, StartStep, BuryStep, ScanStep, CompleteStep, RetryStep,
       DeferStep, RemoveInfectedStep, MarkInfectedStep, CrashStep DEF Work
<1> QED
  BY <1>1, <1>2

-----------------------------------------------------------------------------
\* The files that count: one more at most, and only where there was room.
LEMMA CountedStep ==
  ASSUME Inv, NEW f \in Files, FileStep(f)
  PROVE  IsFiniteSet(Counted') /\ Cardinality(Counted') <= MaxFiles
<1>1. IsFiniteSet(Counted) /\ Cardinality(Counted) <= MaxFiles
  BY DEF Inv
<1>2. \A g \in Files \ {f} : g \in Counted' <=> g \in Counted
  BY DEF FileStep, Untouched, Counted
<1>3. MaxFiles \in Nat
  BY BoundsAssumption DEF BoundsAssumption
<1>4. CASE f \in Counted' => f \in Counted
  <2>1. Counted' \subseteq Counted
    BY <1>2, <1>4 DEF Counted
  <2>2. /\ IsFiniteSet(Counted') /\ Cardinality(Counted') <= Cardinality(Counted)
        /\ Cardinality(Counted) \in Nat /\ Cardinality(Counted') \in Nat
    BY <1>1, <2>1, FS_Subset, FS_CardinalityType
  <2> QED
    BY <1>1, <1>3, <2>2
<1>5. CASE f \in Counted' /\ f \notin Counted
  <2>1. Counted' = Counted \cup {f}
    BY <1>2, <1>5 DEF Counted
  <2>2. /\ IsFiniteSet(Counted \cup {f})
        /\ Cardinality(Counted \cup {f}) = Cardinality(Counted) + 1
        /\ Cardinality(Counted) \in Nat
    BY <1>1, <1>5, FS_AddElement, FS_CardinalityType
  <2>3. Cardinality(Counted) < MaxFiles
    BY <1>5 DEF FileStep
  <2> QED
    BY <1>3, <2>1, <2>2, <2>3
<1> QED
  BY <1>4, <1>5

\* The other files are in order as they were.
LEMMA OtherFiles ==
  ASSUME Inv, NEW f \in Files, FileStep(f), NEW g \in Files
  PROVE  BytesOK(g)' /\ JobOK(g)'
<1>1. CASE g = f
  BY <1>1 DEF FileStep
<1>2. CASE g # f
  <2>1. Untouched(g) /\ BytesOK(g) /\ JobOK(g)
    BY <1>2 DEF FileStep, Inv
  <2>2. BytesOK(g)'
    BY <2>1 DEF Untouched, BytesOK, Eraser
  <2>3. JobOK(g)'
    BY <2>1 DEF Untouched, JobOK
  <2> QED
    BY <2>2, <2>3
<1> QED
  BY <1>1, <1>2

\* And so is a worker that did not move, unless the attempts of its scan's
\* row went back below its own.
LEMMA OtherWorkers ==
  ASSUME Inv, NEW f \in Files, FileStep(f), NEW v \in Workers, work'[v] = work[v],
         Scanning(v) /\ work[v].file = f => work[v].attempt <= row'[f].attempts
  PROVE  TaskOK(v)'
<1> SUFFICES ASSUME work[v].step # "IDLE"
             PROVE  TaskOK(v)'
  BY DEF TaskOK
<1>1. PICK g : g = work[v].file
  OBVIOUS
<1>2. g \in Files /\ TaskOK(v)
  BY <1>1, AtWork
<1>3. CASE g = f
  BY <1>1, <1>2, <1>3 DEF FileStep, Kept, TaskOK, Scanning
<1>4. CASE g # f
  <2>1. Untouched(g)
    BY <1>2, <1>4 DEF FileStep
  <2>2. Awaiting(g)' <=> Awaiting(g)
    BY <2>1 DEF Untouched, Awaiting
  <2> QED
    BY <1>1, <1>2, <2>1, <2>2 DEF Untouched, TaskOK, Scanning
<1> QED
  BY <1>3, <1>4

\* A step on a file that is not a worker's.
LEMMA FileKeepsInv ==
  ASSUME Inv, NEW f \in Files, FileStep(f), row'[f].attempts = row[f].attempts,
         UNCHANGED work
  PROVE  Inv'
<1>1. ASSUME NEW v \in Workers
      PROVE  TaskOK(v)'
  <2>1. Scanning(v) /\ work[v].file = f => work[v].attempt <= row[f].attempts
    BY DEF Inv, TaskOK, Scanning
  <2> QED
    BY <2>1, OtherWorkers
<1>2. ClaimsDiffer'
  BY DEF Inv, ClaimsDiffer, Scanning
<1>3. \A g \in Files : BytesOK(g)' /\ JobOK(g)'
  BY OtherFiles
<1>4. TypeOK'
  BY DEF FileStep
<1>5. IsFiniteSet(Counted') /\ Cardinality(Counted') <= MaxFiles
  BY CountedStep
<1> QED
  BY <1>1, <1>2, <1>3, <1>4, <1>5 DEF Inv

\* A step of a worker.
LEMMA WorkKeepsInv ==
  ASSUME Inv, NEW w \in Workers, NEW f \in Files, WorkStep(w, f)
  PROVE  Inv'
<1>0. FileStep(f)
  BY DEF WorkStep
<1>1. ASSUME NEW v \in Workers
      PROVE  TaskOK(v)'
  <2>1. CASE v = w
    BY <2>1 DEF WorkStep
  <2>2. CASE v # w
    BY <1>0, <2>2, OtherWorkers DEF WorkStep
  <2> QED
    BY <2>1, <2>2
<1>2. ClaimsDiffer'
  <2> SUFFICES ASSUME NEW u \in Workers, NEW v \in Workers, u # v,
                      Scanning(u)', Scanning(v)',
                      work'[u].file = work'[v].file,
                      work'[u].attempt = work'[v].attempt
               PROVE  FALSE
    BY DEF ClaimsDiffer
  <2>1. CASE u # w /\ v # w
    BY <2>1 DEF WorkStep, Inv, ClaimsDiffer, Scanning
  <2>2. CASE u = w
    BY <2>2 DEF WorkStep, Scanning
  <2>3. CASE v = w
    BY <2>3 DEF WorkStep, Scanning
  <2> QED
    BY <2>1, <2>2, <2>3
<1>3. \A g \in Files : BytesOK(g)' /\ JobOK(g)'
  BY <1>0, OtherFiles
<1>4. TypeOK'
  BY <1>0 DEF FileStep
<1>5. IsFiniteSet(Counted') /\ Cardinality(Counted') <= MaxFiles
  BY <1>0, CountedStep
<1> QED
  BY <1>1, <1>2, <1>3, <1>4, <1>5 DEF Inv

\* At the beginning there is nothing.
LEMMA InvInit == Init => Inv
<1> SUFFICES ASSUME Init PROVE Inv
  OBVIOUS
<1>1. TypeOK
  BY BoundsAssumption, Rested
  DEF Init, TypeOK, Attachment, Job, StorageStatus, ScanStatus, JobStatus, BoundsAssumption
<1>2. ASSUME NEW f \in Files
      PROVE  BytesOK(f) /\ JobOK(f)
  BY DEF Init, BytesOK, JobOK, Withdrawn, Finalized
<1>3. ASSUME NEW w \in Workers
      PROVE  TaskOK(w) /\ ~Scanning(w)
  BY DEF Init, TaskOK, Scanning, Resting
<1>4. ClaimsDiffer
  BY <1>3 DEF ClaimsDiffer
<1>5. Counted = {} /\ IsFiniteSet(Counted) /\ Cardinality(Counted) <= MaxFiles
  <2>1. Counted = {}
    BY DEF Init, Counted
  <2> QED
    BY <2>1, FS_EmptySet, BoundsAssumption DEF BoundsAssumption
<1> QED
  BY <1>1, <1>2, <1>3, <1>4, <1>5 DEF Inv

\* The request is closed under whatever is going on.
LEMMA CloseKeepsInv == Inv /\ CloseRequest => Inv'
<1> SUFFICES ASSUME Inv, CloseRequest PROVE Inv'
  OBVIOUS
<1>1. TypeOK'
  BY DEF Inv, TypeOK, CloseRequest
<1>2. ASSUME NEW f \in Files
      PROVE  BytesOK(f)' /\ JobOK(f)'
  BY DEF Inv, CloseRequest, BytesOK, JobOK
<1>3. ASSUME NEW w \in Workers
      PROVE  TaskOK(w)'
  <2>1. TaskOK(w)
    BY DEF Inv
  <2> QED
    BY <2>1 DEF CloseRequest, TaskOK, Scanning, Awaiting
<1>4. ClaimsDiffer' /\ Counted' = Counted
  BY DEF Inv, ClaimsDiffer, CloseRequest, Scanning, Counted
<1> QED
  BY <1>1, <1>2, <1>3, <1>4 DEF Inv

\* The invariant is inductive.
LEMMA InvStep == Inv /\ [Next]_vars => Inv'
<1> SUFFICES ASSUME Inv, [Next]_vars PROVE Inv'
  OBVIOUS
<1>1. CASE CloseRequest
  BY <1>1, CloseKeepsInv
<1>2. ASSUME NEW f \in Files, Upload(f)
      PROVE  Inv'
  <2>1. UNCHANGED work
    BY <1>2 DEF Upload, UploadStep, Reserve, PutSucceeds, PutFails, Finalize, FinalizeFails,
                Mark, LatePut, UploadCrash, untouchedByUpload
  <2> QED
    BY <1>2, <2>1, UploadFile, FileKeepsInv
<1>3. ASSUME NEW f \in Files, Erasure(f)
      PROVE  Inv'
  <2>1. UNCHANGED work
    BY <1>3 DEF Erasure, deleteAttachment, Reconcile, Remove, MarkDeleted, EraseFails,
                untouchedByErase
  <2> QED
    BY <1>3, <2>1, EraseFile, FileKeepsInv
<1>4. ASSUME NEW f \in Files, retryEvent(f)
      PROVE  Inv'
  BY <1>4, RequeueFile, FileKeepsInv DEF retryEvent
<1>5. ASSUME NEW w \in Workers, Work(w) \/ WorkerCrash(w)
      PROVE  Inv'
  BY <1>5, WorkerStep, WorkKeepsInv
<1>6. CASE UNCHANGED vars
  <2>1. TypeOK' /\ ClaimsDiffer' /\ Counted' = Counted
    BY <1>6 DEF Inv, vars, TypeOK, ClaimsDiffer, Scanning, Counted
  <2>2. ASSUME NEW f \in Files
        PROVE  BytesOK(f)' /\ JobOK(f)'
    BY <1>6 DEF Inv, vars, BytesOK, JobOK
  <2>3. ASSUME NEW w \in Workers
        PROVE  TaskOK(w)'
    <3>1. TaskOK(w)
      BY DEF Inv
    <3> QED
      BY <1>6, <3>1 DEF vars, TaskOK, Scanning, Awaiting
  <2> QED
    BY <2>1, <2>2, <2>3 DEF Inv
<1> QED
  BY <1>1, <1>2, <1>3, <1>4, <1>5, <1>6 DEF Next

\* What the theorems below rest on.
LEMMA Always == Spec => []Inv
<1>1. Init => Inv
  BY InvInit
<1>2. Inv /\ [Next]_vars => Inv'
  BY InvStep
<1> QED
  BY <1>1, <1>2, PTL DEF Spec

-----------------------------------------------------------------------------
\* Reservations, uploads in flight, failures and removals overlap in any
\* order, and the files that are stored or on their way never exceed the
\* limit: reserving counts what is reserved.
THEOREM Capacity == Spec => []CapacityHeld
<1>1. ASSUME Inv
      PROVE  CapacityHeld
  <2> DEFINE S == {f \in Files :
         row[f].storage \in {"PENDING_UPLOAD", "STORED"} /\ ~row[f].deleted}
  <2>1. S \subseteq Counted
    BY DEF Counted
  <2>2. IsFiniteSet(Counted) /\ Cardinality(Counted) <= MaxFiles
    BY <1>1 DEF Inv
  <2> HIDE DEF S
  <2>3. /\ Cardinality(S) <= Cardinality(Counted)
        /\ Cardinality(S) \in Nat /\ Cardinality(Counted) \in Nat
    BY <2>1, <2>2, FS_Subset, FS_CardinalityType
  <2>4. MaxFiles \in Nat
    BY BoundsAssumption DEF BoundsAssumption
  <2>5. Cardinality(S) <= MaxFiles
    BY <2>2, <2>3, <2>4
  <2> QED
    BY <2>5 DEF S, CapacityHeld
<1> QED
  BY <1>1, Always, PTL

\* A row says DELETED only once no bytes are left and no upload that was given
\* up can still bring some.
THEOREM DeletedForGood == Spec => []DeletedLeavesNoBytes
<1>1. ASSUME Inv
      PROVE  DeletedLeavesNoBytes
  BY <1>1 DEF Inv, BytesOK, DeletedLeavesNoBytes
<1> QED
  BY <1>1, Always, PTL

\* Two workers that could both commit an outcome would have the same attempt,
\* the one the row expects.
LEMMA OneCommits ==
  ASSUME Inv, NEW f \in Files
  PROVE  Cardinality({w \in Workers :
           /\ work[w].file = f
           /\ work[w].step \in {"SCAN", "COMMIT"}
           /\ Held(w) /\ Expects(w)}) <= 1
<1> DEFINE S == {w \in Workers :
       /\ work[w].file = f
       /\ work[w].step \in {"SCAN", "COMMIT"}
       /\ Held(w) /\ Expects(w)}
<1>1. ASSUME NEW v \in S, NEW w \in S
      PROVE  v = w
  BY <1>1 DEF Inv, ClaimsDiffer, Scanning, Expects
<1> HIDE DEF S
<1>2. CASE S = {}
  BY <1>2, FS_EmptySet DEF S
<1>3. CASE S # {}
  <2>1. PICK w \in S : TRUE
    BY <1>3
  <2>2. S = {w}
    BY <1>1, <2>1
  <2>3. Cardinality(S) = 1
    BY <2>2, FS_Singleton
  <2>4. Cardinality(S) <= 1
    BY <2>3
  <2> QED
    BY <2>4 DEF S
<1> QED
  BY <1>2, <1>3

\* Rows and jobs are well formed, a file that waits for its scan has a job
\* that some worker will still claim, and however leases run out, attempts are
\* given back and jobs are requeued, no two workers could commit an outcome
\* for one file.
THEOREM Scans == Spec => []ScansInv
<1>1. ASSUME Inv
      PROVE  ScansInv
  <2>1. TypeOK /\ ScanNotStranded
    BY <1>1 DEF Inv, JobOK, ScanNotStranded
  <2>2. OneScanCanCommit
    BY <1>1, OneCommits DEF OneScanCanCommit
  <2> QED
    BY <2>1, <2>2 DEF ScansInv
<1> QED
  BY <1>1, Always, PTL

-----------------------------------------------------------------------------
\* What a client sees of a file f in a step: nothing, or one event of the life
\* of a file.
Seen(f) ==
  \/ /\ Phase(f)' = Phase(f)
     /\ \/ f \in object' <=> f \in object
        \/ Phase(f) \in {"NEW", "GONE"} /\ f \in object'
        \/ Phase(f) = "GONE" /\ f \notin object'
  \/ /\ f \in object' <=> f \in object
     /\ \/ Phase(f) = "NEW" /\ f \in object /\ Phase(f)' \in {"WAITING", "READY"}
        \/ Phase(f) = "WAITING" /\ Phase(f)' = "READY"
        \/ Phase(f) # "GONE" /\ Phase(f)' = "GONE"

\* A row's phase.
LEMMA PhaseType == \A f \in Files : Phase(f) \in {"NEW", "WAITING", "READY", "GONE"}
BY DEF Phase

\* Such a step is one of FileLifecycle, when nothing else is seen.
LEMMA SeenStep ==
  ASSUME NEW f \in Files, Seen(f),
         \A g \in Files \ {f} : Phase(g)' = Phase(g) /\ (g \in object' <=> g \in object)
  PROVE  [Lifecycle!Next]_Lifecycle!vars
<1> DEFINE phase == [g \in Files |-> Phase(g)]
           bytes == [g \in Files |-> g \in object]
<1>1. CASE Phase(f)' = Phase(f) /\ (f \in object' <=> f \in object)
  <2>1. \A g \in Files : Phase(g)' = Phase(g) /\ ((g \in object)' = (g \in object))
    BY <1>1
  <2>2. phase' = phase /\ bytes' = bytes
    BY <2>1, Zenon
  <2> QED
    BY <2>2 DEF Lifecycle!vars
<1>2. CASE Phase(f)' = Phase(f) /\ ~(f \in object' <=> f \in object)
  <2>1. phase' = phase
    BY <1>2, Zenon
  <2>2. CASE f \in object' /\ f \notin object
    <3>0. /\ \A g \in Files \ {f} : (g \in object') = (g \in object)
          /\ (f \in object') = TRUE
      BY <2>2
    <3>1. bytes' = [bytes EXCEPT ![f] = TRUE]
      BY <3>0, Zenon
    <3>2. Lifecycle!Put(f)
      BY <1>2, <2>1, <2>2, <3>1 DEF Seen, Lifecycle!Put
    <3> QED
      BY <3>2 DEF Lifecycle!Next
  <2>3. CASE f \notin object' /\ f \in object
    <3>0. /\ \A g \in Files \ {f} : (g \in object') = (g \in object)
          /\ (f \in object') = FALSE
      BY <2>3
    <3>1. bytes' = [bytes EXCEPT ![f] = FALSE]
      BY <3>0, Zenon
    <3>2. Lifecycle!Erase(f)
      BY <1>2, <2>1, <2>3, <3>1 DEF Seen, Lifecycle!Erase
    <3> QED
      BY <3>2 DEF Lifecycle!Next
  <2> QED
    BY <1>2, <2>2, <2>3
<1>3. CASE Phase(f)' # Phase(f)
  <2>1. \A g \in Files : (g \in object)' = (g \in object)
    BY <1>3 DEF Seen
  <2>2. bytes' = bytes
    BY <2>1, Zenon
  <2>3. phase' = [phase EXCEPT ![f] = Phase(f)']
    BY Zenon
  <2>4. \/ Lifecycle!Accept(f) \/ Lifecycle!Clear(f) \/ Lifecycle!Withdraw(f)
    BY <1>3, <2>2, <2>3, PhaseType
    DEF Seen, Lifecycle!Accept, Lifecycle!Clear, Lifecycle!Withdraw, Lifecycle!Become
  <2> QED
    BY <2>4 DEF Lifecycle!Next
<1> QED
  BY <1>1, <1>2, <1>3

\* Uploads and removals.
LEMMA FileSeen ==
  ASSUME Inv, NEW f \in Files, Upload(f) \/ Erasure(f) \/ retryEvent(f)
  PROVE  Seen(f)
<1> USE DEF Seen, Phase
<1>0. TypeOK /\ BytesOK(f) /\ row[f] \in Attachment
  BY DEF Inv, TypeOK
<1>1. CASE Upload(f)
  <2>1. CASE Reserve(f)
    BY <1>0, <2>1 DEF Reserve, TypeOK, Attachment
  <2>2. CASE PutSucceeds(f)
    BY <1>0, <2>2 DEF PutSucceeds, BytesOK
  <2>3. CASE Finalize(f)
    BY <1>0, <2>3 DEF Finalize, Finalizes, BytesOK, TypeOK, Attachment
  <2>4. CASE Mark(f)
    BY <1>0, <2>4 DEF Mark, markUploadFailed, TypeOK, Attachment
  <2>5. CASE LatePut(f)
    BY <1>0, <2>5 DEF LatePut, BytesOK
  <2>6. CASE PutFails(f) \/ FinalizeFails(f) \/ UploadCrash(f)
    BY <2>6 DEF PutFails, FinalizeFails, UploadCrash
  <2> QED
    BY <1>1, <2>1, <2>2, <2>3, <2>4, <2>5, <2>6 DEF Upload, UploadStep
<1>2. CASE Erasure(f)
  <2>1. CASE deleteAttachment(f)
    BY <1>0, <2>1 DEF deleteAttachment, Deletable, TypeOK, Attachment
  <2>2. CASE Reconcile(f)
    BY <1>0, <2>2 DEF Reconcile, Abandoned, TypeOK, Attachment
  <2>3. ASSUME NEW p \in Eraser, Remove(p, f)
        PROVE  Seen(f)
    BY <1>0, <2>3 DEF Remove, BytesOK, Eraser, Withdrawn
  <2>4. ASSUME NEW p \in Eraser, MarkDeleted(p, f)
        PROVE  Seen(f)
    BY <1>0, <2>4 DEF MarkDeleted, TypeOK, Attachment
  <2>5. ASSUME NEW p \in Eraser, EraseFails(p, f)
        PROVE  Seen(f)
    BY <2>5 DEF EraseFails
  <2> QED
    BY <1>2, <2>1, <2>2, <2>3, <2>4, <2>5 DEF Erasure, Eraser
<1>3. CASE retryEvent(f)
  BY <1>3 DEF retryEvent
<1> QED
  BY <1>1, <1>2, <1>3

\* A scan that is committed is due, so its file waits for it; bytes are
\* removed only of a file that was withdrawn.
LEMMA WorkSeen ==
  ASSUME Inv, NEW w \in Workers, work[w].step # "IDLE", NEW f \in Files,
         f = work[w].file, Work(w) \/ WorkerCrash(w)
  PROVE  Seen(f)
<1> USE DEF Seen, Phase
<1>0. TypeOK /\ TaskOK(w) /\ row[f] \in Attachment
  BY AtWork
<1>1. CASE UNCHANGED <<row, object>>
  BY <1>1
<1>2. CASE startScan(w)
  BY <1>0, <1>2 DEF startScan, TypeOK, Attachment
<1>3. CASE complete(w)
  <2>1. UNCHANGED object
    BY <1>3 DEF complete
  <2>2. CASE UNCHANGED row
    BY <2>1, <2>2
  <2>3. CASE /\ Expects(w)
             /\ work[w].outcome \in {"CLEAN", "INFECTED"}
             /\ row' = [row EXCEPT ![f] = [row[f] EXCEPT
                  !.scan = work[w].outcome,
                  !.storage = IF work[w].outcome = "INFECTED"
                              THEN "DELETE_PENDING" ELSE @]]
    BY <1>0, <2>1, <2>3 DEF Expects, Awaiting, TypeOK, Attachment
  <2> QED
    BY <1>3, <2>2, <2>3 DEF complete, Commit
<1>4. CASE retryOrFail(w)
  BY <1>0, <1>4 DEF retryOrFail, Commit, Expects, Awaiting, TypeOK, Attachment
<1>5. CASE deferDependencyUnavailable(w)
  BY <1>0, <1>5 DEF deferDependencyUnavailable, Expects, Awaiting, TypeOK, Attachment
<1>6. CASE RemoveInfected(w)
  BY <1>0, <1>6 DEF RemoveInfected, TaskOK, Withdrawn
<1>7. CASE MarkInfected(w)
  BY <1>0, <1>7 DEF MarkInfected, TypeOK, Attachment
<1> QED
  BY <1>1, <1>2, <1>3, <1>4, <1>5, <1>6, <1>7
  DEF Work, WorkerCrash, claim, deadLetter, scan

\* Nothing is seen of the files a step is not about.
LEMMA OthersUnseen ==
  ASSUME NEW f \in Files, FileStep(f), NEW g \in Files \ {f}
  PROVE  Phase(g)' = Phase(g) /\ (g \in object' <=> g \in object)
BY DEF FileStep, Untouched, Phase

\* Every step of the system is a step of the life of a file, or none.
LEMMA LifeStep ==
  ASSUME Inv, [Next]_vars
  PROVE  [Lifecycle!Next]_Lifecycle!vars
<1>1. CASE UNCHANGED <<row, object>>
  BY <1>1 DEF Lifecycle!vars, Phase
<1>2. ASSUME NEW f \in Files, Upload(f) \/ Erasure(f) \/ retryEvent(f)
      PROVE  [Lifecycle!Next]_Lifecycle!vars
  <2>1. FileStep(f)
    BY <1>2, UploadFile, EraseFile, RequeueFile
  <2> QED
    BY <1>2, <2>1, FileSeen, OthersUnseen, SeenStep
<1>3. ASSUME NEW w \in Workers, work[w].step # "IDLE", Work(w) \/ WorkerCrash(w)
      PROVE  [Lifecycle!Next]_Lifecycle!vars
  <2>1. PICK f : f = work[w].file
    OBVIOUS
  <2>2. f \in Files
    BY <1>3, <2>1, AtWork
  <2>3. Seen(f)
    BY <1>3, <2>1, <2>2, WorkSeen
  <2>4. FileStep(f)
    BY <1>3, <2>1, <2>2, StartStep, BuryStep, ScanStep, CompleteStep, RetryStep, DeferStep,
       RemoveInfectedStep, MarkInfectedStep, CrashStep DEF Work, WorkStep, claim
  <2> QED
    BY <2>2, <2>3, <2>4, OthersUnseen, SeenStep
<1>4. ASSUME NEW w \in Workers, work[w].step = "IDLE", Work(w) \/ WorkerCrash(w)
      PROVE  UNCHANGED <<row, object>>
  BY <1>4 DEF Work, WorkerCrash, claim, startScan, deadLetter, scan, complete, retryOrFail,
              deferDependencyUnavailable, RemoveInfected, MarkInfected
<1> QED
  BY <1>1, <1>2, <1>3, <1>4 DEF Next, CloseRequest, vars

\* Attachments implements FileLifecycle: whatever the two stores, the uploads,
\* the workers and the reconciler do, in any order and with any failure, a
\* client sees a file accepted once and with its bytes, cleared at most once,
\* erased only after it was withdrawn, and never back.
THEOREM LifecycleImplemented == Spec => ImplementsLifecycle
<1>1. Init => Lifecycle!Init
  <2> SUFFICES ASSUME Init PROVE Lifecycle!Init
    OBVIOUS
  <2>1. \A f \in Files : Phase(f) = "NEW" /\ (f \in object) = FALSE
    BY DEF Init, Phase
  <2> QED
    BY <2>1, Zenon DEF Lifecycle!Init
<1>2. Inv /\ [Next]_vars => [Lifecycle!Next]_Lifecycle!vars
  BY LifeStep
<1> QED
  BY <1>1, <1>2, Always, PTL DEF Spec, ImplementsLifecycle, Lifecycle!Spec
=============================================================================
