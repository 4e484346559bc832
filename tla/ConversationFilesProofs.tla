---------------------- MODULE ConversationFilesProofs ----------------------
(***************************************************************************)
(* Theorems of ConversationFiles, for every value of its constants: any    *)
(* files and workers, leases that outlive scans or not, any number of      *)
(* attempts, requeues and stops.                                           *)
(***************************************************************************)
EXTENDS ConversationFiles, FiniteSetTheorems, TLAPS

\* The conversation was told that the file is stored; it was withdrawn; its
\* job has come to an end.
Finalized == {"STORED", "DELETE_PENDING", "DELETED", "EXPIRED"}
Withdrawn == {"DELETE_PENDING", "DELETED"}
Ended == {"DELIVERED", "DEAD_LETTER"}

\* A file between its two stores: bytes arrive only while the row is neither
\* stored nor withdrawn.
BytesOK(f) ==
  /\ row[f].storage = "NONE" => upload[f] = "NONE"
  /\ upload[f] = "PUT" => row[f].storage = "PENDING_UPLOAD"
  /\ f \in late => /\ upload[f] \in {"MARK", "DONE"}
                   /\ row[f].storage \in {"PENDING_UPLOAD", "UPLOAD_FAILED"}
  /\ row[f].storage = "DELETED" => f \notin object

\* A file and its job.
JobOK(f) ==
  /\ job[f].status # "NONE" => row[f].storage \in Finalized
  /\ requeued[f] = 0 => row[f].attempts <= job[f].attempts
  /\ /\ row[f].storage = "STORED"
     /\ row[f].scan = "PENDING_SCAN"
     /\ requeued[f] = 0
     => job[f].status \in {"PENDING", "RETRY", "PROCESSING"}

Scanning(w) == work[w].step \in {"SCAN", "COMMIT"}

\* A file whose scan was given up: nobody still scans it under the number that
\* its row expects, so that a failure that comes late is not written.
GivenUp(f) == requeued[f] = 0 /\ job[f].status \in Ended /\ Awaiting(f)

NobodyExpected(f) ==
  GivenUp(f) =>
    \A w \in Workers :
      Scanning(w) /\ work[w].file = f => work[w].attempt # row[f].attempts

\* What a worker may rely on though its lease is over, and though others end
\* the same file.
TaskOK(w) ==
  LET t == work[w] IN
  /\ t.step \notin {"IDLE", "SWEEP"} => t.file \in Files
  /\ t.step \in ScanSteps => t.attempt > 0 /\ job[t.file].status # "NONE"
  /\ t.step = "BURY" => ~Awaiting(t.file)
  /\ t.step \in {"REMOVE", "MARK", "ERASE", "ERASED"} =>
       row[t.file].storage \in Withdrawn
  /\ t.step \in {"MARK", "ERASED"} => t.file \notin object
  /\ Scanning(w) => t.attempt <= row[t.file].attempts

\* The attempt number fences: two scans of a file never have the same.
ClaimsDiffer ==
  \A v, w \in Workers :
    /\ Scanning(v) /\ Scanning(w)
    /\ work[v].file = work[w].file
    /\ work[v].attempt = work[w].attempt
    => v = w

Inv ==
  /\ TypeOK
  /\ \A f \in Files : BytesOK(f) /\ JobOK(f) /\ NobodyExpected(f)
  /\ \A w \in Workers : TaskOK(w)
  /\ ClaimsDiffer

-----------------------------------------------------------------------------
\* Nothing happens to a file.
Untouched(g) ==
  /\ row'[g] = row[g] /\ job'[g] = job[g]
  /\ upload'[g] = upload[g] /\ requeued'[g] = requeued[g]
  /\ g \in late' <=> g \in late
  /\ g \in object' <=> g \in object

\* What no step takes back from a file, whoever works on it.
Kept(f) ==
  /\ job[f].status # "NONE" => job'[f].status # "NONE"
  /\ job[f].status # "NONE" /\ ~Awaiting(f) => ~Awaiting(f)'
  /\ row[f].storage \in Withdrawn =>
       row'[f].storage \in Withdrawn /\ (f \in object' => f \in object)
  /\ row[f].storage = "EXPIRED" => row'[f].storage = "EXPIRED"

\* A step on one file leaves it in order.
FileStep(f) ==
  /\ TypeOK'
  /\ BytesOK(f)' /\ JobOK(f)'
  /\ Kept(f)
  /\ \A g \in Files \ {f} : Untouched(g)

\* A step that is not a worker's leaves what the scans rely on.
PeopleStep(f) ==
  /\ FileStep(f)
  /\ row'[f].attempts = row[f].attempts
  /\ GivenUp(f)' => GivenUp(f)
  /\ UNCHANGED work

\* What a step on a file starts from.
LEMMA InOrder ==
  ASSUME Inv, NEW f \in Files
  PROVE  TypeOK /\ BytesOK(f) /\ JobOK(f) /\ row[f] \in Attachment /\ job[f] \in Job
BY DEF Inv, TypeOK

\* Uploads.
LEMMA UploadFile ==
  ASSUME Inv, NEW f \in Files, Reserve(f) \/ UploadStep(f) \/ LatePut(f)
  PROVE  PeopleStep(f)
<1> USE DEF PeopleStep, FileStep, GivenUp, Kept, Untouched, BytesOK, JobOK, TypeOK, Finalized,
            Withdrawn, Ended, Awaiting, untouchedByUpload, StorageStatus, ScanStatus, JobStatus,
            Attachment, Job
<1>0. TypeOK /\ BytesOK(f) /\ JobOK(f) /\ row[f] \in Attachment /\ job[f] \in Job
  BY InOrder
<1>1. CASE Reserve(f)
  BY <1>0, <1>1 DEF Reserve
<1>2. CASE PutSucceeds(f)
  BY <1>0, <1>2 DEF PutSucceeds
<1>3. CASE PutFails(f)
  BY <1>0, <1>3 DEF PutFails
<1>4. CASE Finalize(f)
  <2>1. /\ upload[f] = "FINALIZE" /\ row[f].storage = "PENDING_UPLOAD"
        /\ f \notin late /\ row[f].deleted = FALSE
    BY <1>0, <1>4 DEF Finalize, Finalizes
  <2>2. PICK next \in {"DONE", "MARK"} : upload' = [upload EXCEPT ![f] = next]
    BY <1>4 DEF Finalize
  <2>3. CASE /\ row' = [row EXCEPT ![f].storage = "STORED", ![f].scan = "PENDING_SCAN"]
             /\ job' = [job EXCEPT ![f].status = "PENDING"]
    BY <1>0, <1>4, <2>1, <2>2, <2>3 DEF Finalize
  <2>4. CASE /\ row' = [row EXCEPT ![f].storage = "STORED",
                                   ![f].scan = "SCAN_SKIPPED_BY_ADMIN"]
             /\ UNCHANGED job
    BY <1>0, <1>4, <2>1, <2>2, <2>4 DEF Finalize
  <2> QED
    BY <1>4, <2>3, <2>4 DEF Finalize
<1>5. CASE FinalizeFails(f)
  BY <1>0, <1>5 DEF FinalizeFails
<1>6. CASE Mark(f)
  <2>1. CASE UNCHANGED row
    BY <1>0, <1>6, <2>1 DEF Mark
  <2>2. CASE /\ row[f].storage = "PENDING_UPLOAD"
             /\ row' = [row EXCEPT ![f].storage = "UPLOAD_FAILED"]
    BY <1>0, <1>6, <2>2 DEF Mark
  <2> QED
    BY <1>6, <2>1, <2>2 DEF Mark, markUploadFailed
<1>7. CASE LatePut(f)
  <2>1. CASE UNCHANGED object
    BY <1>0, <1>7, <2>1 DEF LatePut
  <2>2. CASE object' = object \cup {f}
    BY <1>0, <1>7, <2>2 DEF LatePut
  <2> QED
    BY <1>7, <2>1, <2>2 DEF LatePut
<1> QED
  BY <1>1, <1>2, <1>3, <1>4, <1>5, <1>6, <1>7 DEF UploadStep

\* Time, and the recipients.
LEMMA ReaderFile ==
  ASSUME Inv, NEW f \in Files,
         \/ GrowOld(f) \/ DeadlinePasses(f)
         \/ Open(f) \/ recordRecipientDownload(f) \/ submitPaymentReceipt(f)
  PROVE  PeopleStep(f)
<1> USE DEF PeopleStep, FileStep, GivenUp, Kept, Untouched, BytesOK, JobOK, TypeOK, Finalized,
            Withdrawn, Ended, Awaiting, untouchedByReader, people, stores, Attachment
<1>0. TypeOK /\ BytesOK(f) /\ JobOK(f) /\ row[f] \in Attachment /\ job[f] \in Job
  BY InOrder
<1>1. CASE GrowOld(f)
  BY <1>0, <1>1 DEF GrowOld
<1>2. CASE DeadlinePasses(f)
  BY <1>0, <1>2 DEF DeadlinePasses
<1>3. CASE Open(f)
  BY <1>0, <1>3 DEF Open
<1>4. CASE recordRecipientDownload(f)
  <2>1. CASE UNCHANGED row
    BY <1>0, <1>4, <2>1 DEF recordRecipientDownload
  <2>2. CASE /\ row[f].storage = "STORED"
             /\ row' = [row EXCEPT ![f].downloaded = TRUE, ![f].deadline = "AHEAD"]
    <3> DEFINE a == [row[f] EXCEPT !.downloaded = TRUE, !.deadline = "AHEAD"]
    <3>1. /\ a \in Attachment /\ a.storage = row[f].storage /\ a.scan = row[f].scan
          /\ a.attempts = row[f].attempts /\ a.deleted = row[f].deleted
      BY <1>0
    <3>2. row' = [row EXCEPT ![f] = a]
      BY <1>0, <2>2
    <3> HIDE DEF a
    <3>3. /\ row' \in [Files -> Attachment] /\ row'[f] = a
          /\ \A g \in Files \ {f} : row'[g] = row[g]
      BY <1>0, <3>1, <3>2
    <3> QED
      BY <1>0, <1>4, <3>1, <3>3 DEF recordRecipientDownload
  <2> QED
    BY <1>4, <2>1, <2>2 DEF recordRecipientDownload
<1>5. CASE submitPaymentReceipt(f)
  BY <1>0, <1>5 DEF submitPaymentReceipt
<1> QED
  BY <1>1, <1>2, <1>3, <1>4, <1>5

\* The administrator.
LEMMA AdminFile ==
  ASSUME Inv, NEW f \in Files,
         \/ extendRetention(f) \/ retryEvent(f)
         \/ purgeNow(f) \/ PurgeObject(f) \/ PurgeRow(f) \/ PurgeStops(f)
  PROVE  PeopleStep(f)
<1> USE DEF PeopleStep, FileStep, GivenUp, Kept, Untouched, BytesOK, JobOK, TypeOK, Finalized,
            Withdrawn, Ended, Awaiting, untouchedByAdmin, stores, Attachment
<1>0. TypeOK /\ BytesOK(f) /\ JobOK(f) /\ row[f] \in Attachment /\ job[f] \in Job
  BY InOrder
<1>1. CASE extendRetention(f)
  BY <1>0, <1>1 DEF extendRetention
<1>2. CASE retryEvent(f)
  BY <1>0, <1>2, BoundsAssumption DEF retryEvent, BoundsAssumption, Job, JobStatus
<1>3. CASE purgeNow(f)
  BY <1>0, <1>3 DEF purgeNow
<1>4. CASE PurgeObject(f)
  <2>1. object' = object \/ object' = object \ {f}
    BY <1>4 DEF PurgeObject
  <2> QED
    BY <1>0, <1>4, <2>1 DEF PurgeObject
<1>5. CASE PurgeRow(f)
  <2>1. CASE UNCHANGED row
    BY <1>0, <1>5, <2>1 DEF PurgeRow
  <2>2. CASE /\ row[f].storage = "STORED"
             /\ row' = [row EXCEPT ![f].storage = "EXPIRED"]
    BY <1>0, <1>5, <2>2 DEF PurgeRow, StorageStatus
  <2> QED
    BY <1>5, <2>1, <2>2 DEF PurgeRow, Expires
<1>6. CASE PurgeStops(f)
  BY <1>0, <1>6 DEF PurgeStops
<1> QED
  BY <1>1, <1>2, <1>3, <1>4, <1>5, <1>6

-----------------------------------------------------------------------------
\* A worker's step on a file f: its task is in order afterwards, and every
\* other scan of the file has a number of its own that the row has reached.
WorkStep(w, f) ==
  /\ FileStep(f)
  /\ TaskOK(w)' /\ NobodyExpected(f)'
  /\ Scanning(w)' => work'[w].file = f
  /\ \A v \in Workers \ {w} :
       /\ work'[v] = work[v]
       /\ Scanning(v) /\ work[v].file = f =>
            /\ work[v].attempt <= row'[f].attempts
            /\ Scanning(w)' => work'[w].attempt # work[v].attempt

\* What a worker's step starts from.
LEMMA AtWork ==
  ASSUME Inv, NEW w \in Workers, work[w].step \notin {"IDLE", "SWEEP"},
         NEW f, f = work[w].file
  PROVE  /\ f \in Files /\ TypeOK /\ BytesOK(f) /\ JobOK(f)
         /\ row[f] \in Attachment /\ job[f] \in Job /\ work[w] \in Task
         /\ work \in [Workers -> Task]
         /\ TaskOK(w) /\ NobodyExpected(f)
BY DEF Inv, TypeOK, TaskOK

\* The other scans of the file.
LEMMA OtherScans ==
  ASSUME Inv, NEW w \in Workers, NEW v \in Workers \ {w}, NEW f \in Files,
         Scanning(v), work[v].file = f
  PROVE  /\ work[v].attempt <= row[f].attempts
         /\ work[v].attempt \in Nat /\ row[f].attempts \in Nat
         /\ Scanning(w) /\ work[w].file = f => work[v].attempt # work[w].attempt
<1>1. work[v] \in Task /\ row[f] \in Attachment /\ TaskOK(v)
  BY DEF Inv, TypeOK
<1> QED
  BY <1>1 DEF TaskOK, Inv, ClaimsDiffer, Scanning, Task, Attachment

\* A task t on the file f that worker w may go on with.
Follows(w, f, t) ==
  /\ t.file = f /\ t.attempt = work[w].attempt
  /\ t.step \in ScanSteps => work[w].step \in ScanSteps
  /\ t.step \in {"SCAN", "COMMIT"} => Scanning(w)
  /\ t.step = "BURY" => ~Awaiting(f)'
  /\ t.step \in {"REMOVE", "MARK", "ERASE", "ERASED"} => row'[f].storage \in Withdrawn
  /\ t.step \in {"MARK", "ERASED"} => f \notin object'

\* The task of a worker that is done, or sweeps.
Free(t) == t = Resting \/ t.step = "SWEEP"

\* A step that leaves the attempts of the row alone, and does not end the scan
\* of a file that waits, unless it was this worker's to end.
LEMMA TaskMoves ==
  ASSUME Inv, NEW w \in Workers, work[w].step \notin {"IDLE", "SWEEP"},
         NEW f, f = work[w].file,
         FileStep(f), row'[f].attempts = row[f].attempts,
         NEW t, Goto(w, t), Free(t) \/ Follows(w, f, t),
         GivenUp(f)' => GivenUp(f) \/ (Scanning(w) /\ Expects(w) /\ Free(t))
  PROVE  WorkStep(w, f)
<1>0. /\ TaskOK(w) /\ NobodyExpected(f) /\ work \in [Workers -> Task] /\ f \in Files
      /\ work[w].step \in ScanSteps => job[f].status # "NONE"
  BY AtWork DEF TaskOK
<1>1. work'[w] = t /\ \A v \in Workers \ {w} : work'[v] = work[v]
  BY <1>0 DEF Goto
<1>2. work[w].step \in ScanSteps => job'[f].status # "NONE"
  BY <1>0 DEF FileStep, Kept
<1>3. TaskOK(w)'
  <2>1. CASE Free(t)
    BY <1>1, <2>1 DEF TaskOK, Free, Resting, Scanning, ScanSteps
  <2>2. CASE Follows(w, f, t)
    BY <1>0, <1>1, <1>2, <2>2 DEF TaskOK, Follows, Scanning, ScanSteps
  <2> QED
    BY <2>1, <2>2
<1>4. Scanning(w)' => t.file = f /\ Scanning(w) /\ t.attempt = work[w].attempt /\ ~Free(t)
  BY <1>1 DEF Scanning, Follows, Free, Resting
<1>5. NobodyExpected(f)'
  <2> SUFFICES ASSUME GivenUp(f)', NEW v \in Workers, Scanning(v)', work'[v].file = f
               PROVE  work'[v].attempt # row[f].attempts
    BY DEF NobodyExpected
  <2>1. CASE v = w
    BY <1>0, <1>1, <1>4, <2>1 DEF NobodyExpected
  <2>2. CASE v # w
    <3>1. work'[v] = work[v] /\ Scanning(v) /\ work[v].file = f
      BY <1>1, <2>2 DEF Scanning
    <3>2. Scanning(w) /\ Expects(w) => work[w].attempt = row[f].attempts
      BY DEF Expects
    <3> QED
      BY <1>0, <2>2, <3>1, <3>2, OtherScans DEF NobodyExpected
  <2> QED
    BY <2>1, <2>2
<1> QED
  BY <1>0, <1>1, <1>3, <1>4, <1>5, OtherScans DEF WorkStep

\* The types of a step that changes no more than these.
LEMMA WorkTypes ==
  ASSUME TypeOK, row' \in [Files -> Attachment], job' \in [Files -> Job],
         object' \subseteq Files, NEW w \in Workers, NEW t \in Task, Goto(w, t),
         UNCHANGED people, stops' \in 0 .. MaxStops
  PROVE  TypeOK'
BY DEF TypeOK, people, Goto

\* A worker without a job.
LEMMA Rested == Resting \in Task /\ Free(Resting)
BY BoundsAssumption DEF Resting, Task, Free, BoundsAssumption

\* A step of a worker that only changes its task.
LEMMA QuietStep ==
  ASSUME Inv, NEW w \in Workers, work[w].step \notin {"IDLE", "SWEEP"},
         NEW f, f = work[w].file,
         NEW t \in Task, Goto(w, t), Free(t) \/ Follows(w, f, t),
         UNCHANGED <<stores, people>>, stops' \in 0 .. MaxStops
  PROVE  WorkStep(w, f)
<1>1. /\ f \in Files /\ TypeOK /\ BytesOK(f) /\ JobOK(f)
  BY AtWork
<1>2. TypeOK'
  BY <1>1, WorkTypes DEF TypeOK, stores
<1>3. FileStep(f)
  <2>1. BytesOK(f)' /\ JobOK(f)'
    BY <1>1 DEF BytesOK, JobOK, people, stores
  <2>2. Kept(f)
    BY DEF Kept, Awaiting, stores
  <2>3. \A g \in Files : Untouched(g)
    BY DEF Untouched, people, stores
  <2> QED
    BY <1>2, <2>1, <2>2, <2>3 DEF FileStep
<1>4. GivenUp(f)' <=> GivenUp(f)
  BY DEF GivenUp, Awaiting, people, stores
<1> QED
  BY <1>3, <1>4, TaskMoves DEF stores

-----------------------------------------------------------------------------
\* Claiming a job: there is one, so the file is stored or was.
LEMMA ClaimStep ==
  ASSUME Inv, NEW w \in Workers, NEW f \in Files, claim(w, f)
  PROVE  WorkStep(w, f)
<1> DEFINE t == [Resting EXCEPT !.step = "START", !.file = f,
                                !.attempt = job[f].attempts + 1]
<1>0. /\ TypeOK /\ BytesOK(f) /\ JobOK(f) /\ row[f] \in Attachment /\ job[f] \in Job
  BY InOrder
<1>1. /\ job[f].status \in {"PENDING", "RETRY", "PROCESSING"}
      /\ job[f].attempts + 1 \in 1 .. MaxClaims
      /\ job' = [job EXCEPT ![f].status = "PROCESSING", ![f].attempts = @ + 1]
      /\ work' = [work EXCEPT ![w] = t]
      /\ UNCHANGED <<row, object, people, stops>>
  BY <1>0, BoundsAssumption DEF claim, Claimable, Goto, Job, BoundsAssumption
<1>2. t \in Task /\ t.step = "START" /\ t.file = f /\ t.attempt = job[f].attempts + 1
  <2>1. job[f].attempts + 1 \in 0 .. MaxClaims
    BY <1>0, <1>1 DEF Job
  <2>2. PICK k \in 0 .. MaxClaims : k = job[f].attempts + 1
    BY <2>1
  <2>3. t = [Resting EXCEPT !.step = "START", !.file = f, !.attempt = k]
    BY <2>2
  <2> HIDE DEF t
  <2> QED
    BY <2>2, <2>3 DEF Task, Resting, ScanSteps
<1> HIDE DEF t
<1>3. /\ job' \in [Files -> Job] /\ job'[f].status = "PROCESSING"
      /\ job'[f].attempts = job[f].attempts + 1
      /\ \A g \in Files \ {f} : job'[g] = job[g]
  BY <1>0, <1>1 DEF TypeOK, Job, JobStatus
<1>4. TypeOK'
  BY <1>0, <1>1, <1>2, <1>3, WorkTypes DEF TypeOK, Goto
<1>5. FileStep(f)
  <2>1. BytesOK(f)'
    BY <1>0, <1>1 DEF BytesOK, people
  <2>2. JobOK(f)'
    BY <1>0, <1>1, <1>3 DEF JobOK, people, Attachment, Job
  <2>3. Kept(f) /\ \A g \in Files \ {f} : Untouched(g)
    BY <1>0, <1>1, <1>3 DEF Kept, Awaiting, Untouched, people
  <2> QED
    BY <1>4, <2>1, <2>2, <2>3 DEF FileStep
<1>6. work'[w] = t /\ \A v \in Workers \ {w} : work'[v] = work[v]
  BY <1>0, <1>1 DEF TypeOK
<1>7. TaskOK(w)' /\ ~Scanning(w)'
  BY <1>0, <1>1, <1>2, <1>3, <1>6 DEF TaskOK, Scanning, ScanSteps, Job
<1>8. NobodyExpected(f)'
  BY <1>3 DEF NobodyExpected, GivenUp, Ended
<1> QED
  BY <1>1, <1>5, <1>6, <1>7, <1>8, OtherScans DEF WorkStep

\* The beginning of a scan: the number of the attempt passes that of the row,
\* so no other scan of the file has it.
LEMMA StartStep ==
  ASSUME Inv, NEW w \in Workers, NEW f, f = work[w].file, start(w)
  PROVE  WorkStep(w, f)
<1> DEFINE t == work[w]
<1>0. /\ t.step = "START" /\ t.step \notin {"IDLE", "SWEEP"} /\ t.step \in ScanSteps
      /\ UNCHANGED <<job, object, people, stops>>
  BY DEF start, ScanSteps
<1>1. /\ f \in Files /\ TypeOK /\ BytesOK(f) /\ JobOK(f) /\ TaskOK(w)
      /\ row[f] \in Attachment /\ job[f] \in Job /\ t \in Task
      /\ work \in [Workers -> Task] /\ stops \in 0 .. MaxStops
  BY <1>0, AtWork DEF TypeOK
<1>2. CASE UNCHANGED row /\ Rest(w)
  BY <1>0, <1>1, <1>2, QuietStep, Rested DEF Rest, stores
<1>3. CASE /\ UNCHANGED row /\ ~Awaiting(f)
           /\ Goto(w, [t EXCEPT !.step = "BURY"])
  <2> DEFINE n == [t EXCEPT !.step = "BURY"]
  <2>1. /\ n \in Task /\ n.step = "BURY" /\ n.file = f /\ n.attempt = t.attempt
        /\ Goto(w, n)
    BY <1>1, <1>3 DEF Task, ScanSteps
  <2>2. Follows(w, f, n)
    BY <1>0, <1>3, <2>1 DEF Follows, Awaiting
  <2> HIDE DEF n
  <2> QED
    BY <1>0, <1>1, <1>3, <2>1, <2>2, QuietStep DEF stores
<1>4. CASE /\ Held(w) /\ Awaiting(f) /\ Newer(w)
           /\ row' = [row EXCEPT ![f].attempts = t.attempt]
           /\ Goto(w, [t EXCEPT !.step = "SCAN"])
  <2> DEFINE n == [t EXCEPT !.step = "SCAN"]
  <2>1. /\ n \in Task /\ n.step = "SCAN" /\ n.file = f /\ n.attempt = t.attempt
        /\ Goto(w, n)
    BY <1>1, <1>4 DEF Task, ScanSteps
  <2>2. /\ t.attempt \in 0 .. MaxClaims /\ t.attempt \in Nat
        /\ row[f].attempts \in Nat /\ row[f].attempts < t.attempt
        /\ job[f].attempts = t.attempt /\ job[f].status = "PROCESSING"
    BY <1>1, <1>4 DEF Task, Attachment, Newer, Held
  <2>3. /\ row' \in [Files -> Attachment]
        /\ row'[f] = [row[f] EXCEPT !.attempts = t.attempt]
        /\ \A g \in Files \ {f} : row'[g] = row[g]
    BY <1>1, <1>4, <2>2 DEF TypeOK, Attachment
  <2>4. /\ row'[f].storage = row[f].storage /\ row'[f].scan = row[f].scan
        /\ row'[f].deleted = row[f].deleted /\ row'[f].attempts = t.attempt
    BY <1>1, <2>3 DEF Attachment
  <2> HIDE DEF n
  <2>5. TypeOK'
    BY <1>0, <1>1, <2>1, <2>3, WorkTypes DEF TypeOK
  <2>6. FileStep(f)
    <3>1. BytesOK(f)'
      BY <1>0, <1>1, <2>4 DEF BytesOK, people
    <3>2. JobOK(f)'
      BY <1>0, <1>1, <2>2, <2>4 DEF JobOK, people
    <3>3. Kept(f) /\ \A g \in Files \ {f} : Untouched(g)
      BY <1>0, <1>1, <2>3, <2>4 DEF Kept, Awaiting, Untouched, people
    <3> QED
      BY <2>5, <3>1, <3>2, <3>3 DEF FileStep
  <2>7. work'[w] = n /\ \A v \in Workers \ {w} : work'[v] = work[v]
    BY <1>1, <2>1 DEF Goto
  <2>8. TaskOK(w)'
    BY <1>0, <1>1, <2>1, <2>2, <2>4, <2>7 DEF TaskOK, Scanning, ScanSteps
  <2>9. NobodyExpected(f)'
    BY <1>0, <2>2 DEF NobodyExpected, GivenUp, Ended
  <2>10. ASSUME NEW v \in Workers \ {w}, Scanning(v), work[v].file = f
         PROVE  work[v].attempt <= row'[f].attempts /\ n.attempt # work[v].attempt
    <3>1. work[v].attempt <= row[f].attempts /\ work[v].attempt \in Nat
      BY <1>1, <2>10, OtherScans
    <3> QED
      BY <2>1, <2>2, <2>4, <3>1
  <2> QED
    BY <2>1, <2>6, <2>7, <2>8, <2>9, <2>10 DEF WorkStep
<1> QED
  BY <1>2, <1>3, <1>4 DEF start

\* A step that only changes the status of a job: to one it may have.
LEMMA JobEnded ==
  ASSUME Inv, NEW f \in Files, NEW w \in Workers, NEW t \in Task, Goto(w, t),
         NEW s \in Ended, job' = [job EXCEPT ![f].status = s],
         job[f].status # "NONE", requeued[f] = 0 => ~Awaiting(f),
         UNCHANGED <<row, object, people, stops>>
  PROVE  FileStep(f) /\ ~GivenUp(f)'
<1>0. TypeOK /\ BytesOK(f) /\ JobOK(f) /\ row[f] \in Attachment /\ job[f] \in Job
  BY InOrder
<1>1. /\ job' \in [Files -> Job]
      /\ job'[f].status = s /\ job'[f].attempts = job[f].attempts
      /\ \A g \in Files \ {f} : job'[g] = job[g]
  BY <1>0 DEF TypeOK, Job, JobStatus, Ended
<1>2. TypeOK'
  BY <1>0, <1>1, WorkTypes DEF TypeOK
<1>3. BytesOK(f)'
  BY <1>0 DEF BytesOK, people
<1>4. JobOK(f)'
  BY <1>0, <1>1 DEF JobOK, Awaiting, Attachment, people
<1>5. Kept(f) /\ \A g \in Files \ {f} : Untouched(g)
  BY <1>0, <1>1 DEF Kept, Awaiting, Untouched, Ended, people
<1>6. ~GivenUp(f)'
  BY DEF GivenUp, Awaiting, people
<1> QED
  BY <1>2, <1>3, <1>4, <1>5, <1>6 DEF FileStep

\* A job is buried when nothing waits for its scan.
LEMMA BuryStep ==
  ASSUME Inv, NEW w \in Workers, NEW f, f = work[w].file, deadLetter(w)
  PROVE  WorkStep(w, f)
<1>0. /\ work[w].step = "BURY" /\ work[w].step \notin {"IDLE", "SWEEP"}
      /\ work[w].step \in ScanSteps
      /\ UNCHANGED <<row, object, people, stops>> /\ Goto(w, Resting)
  BY DEF deadLetter, Rest, ScanSteps
<1>1. /\ f \in Files /\ ~Awaiting(f) /\ job[f].status # "NONE" /\ stops \in 0 .. MaxStops
  BY <1>0, AtWork DEF TaskOK, TypeOK
<1>2. CASE UNCHANGED job
  BY <1>0, <1>1, <1>2, QuietStep, Rested DEF stores
<1>3. CASE job' = [job EXCEPT ![f].status = "DEAD_LETTER"]
  <2>1. FileStep(f) /\ ~GivenUp(f)'
    BY <1>0, <1>1, <1>3, JobEnded, Rested DEF Ended
  <2> QED
    BY <1>0, <2>1, TaskMoves, Rested
<1> QED
  BY <1>2, <1>3 DEF deadLetter

\* The scan itself writes nothing.
LEMMA ScanStep ==
  ASSUME Inv, NEW w \in Workers, NEW f, f = work[w].file, scan(w)
  PROVE  WorkStep(w, f)
<1>0. /\ work[w].step = "SCAN" /\ work[w].step \notin {"IDLE", "SWEEP"}
      /\ UNCHANGED <<stores, people, stops>>
  BY DEF scan
<1>1. work[w] \in Task /\ stops \in 0 .. MaxStops
  BY <1>0, AtWork DEF TypeOK
<1>2. PICK outcome \in {"UNREACHABLE", "CLEAN", "INFECTED", "ERROR", "MISSING"} :
        Goto(w, [work[w] EXCEPT !.step = "COMMIT", !.outcome = outcome])
  BY DEF scan
<1> DEFINE n == [work[w] EXCEPT !.step = "COMMIT", !.outcome = outcome]
<1>3. /\ n \in Task /\ n.step = "COMMIT" /\ n.file = f
      /\ n.attempt = work[w].attempt /\ Goto(w, n)
  BY <1>1, <1>2 DEF Task, ScanSteps
<1>4. Follows(w, f, n)
  BY <1>0, <1>3 DEF Follows, Scanning, ScanSteps
<1> HIDE DEF n
<1> QED
  BY <1>0, <1>1, <1>3, <1>4, QuietStep

\* The worker whose attempt the row expects holds it; without a requeue the
\* number of the job tells the same.
LEMMA HeldIsExpected ==
  ASSUME Inv, NEW w \in Workers, NEW f, f = work[w].file,
         Scanning(w), Held(w), Awaiting(f), requeued[f] = 0
  PROVE  Expects(w)
<1>1. work[w].step \notin {"IDLE", "SWEEP"}
  BY DEF Scanning
<1>2. /\ work[w].attempt <= row[f].attempts
      /\ row[f].attempts <= job[f].attempts /\ job[f].attempts = work[w].attempt
      /\ row[f].attempts \in Nat /\ work[w].attempt \in Nat
  BY <1>1, AtWork DEF TaskOK, JobOK, Held, Attachment, Task
<1> QED
  BY <1>2 DEF Expects

\* A verdict, or the end of the attempts.
LEMMA FinishStep ==
  ASSUME Inv, NEW w \in Workers, NEW f, f = work[w].file, finish(w)
  PROVE  WorkStep(w, f)
<1> DEFINE t == work[w]
<1>0. /\ t.step = "COMMIT" /\ t.step \notin {"IDLE", "SWEEP"} /\ t.step \in ScanSteps
      /\ Scanning(w)
      /\ UNCHANGED <<object, people, stops>>
  BY DEF finish, Scanning, ScanSteps
<1>1. /\ f \in Files /\ TypeOK /\ BytesOK(f) /\ JobOK(f) /\ TaskOK(w)
      /\ row[f] \in Attachment /\ job[f] \in Job /\ t \in Task
      /\ stops \in 0 .. MaxStops /\ job[f].status # "NONE"
  BY <1>0, AtWork DEF TypeOK, TaskOK
<1>2. CASE UNCHANGED <<row, job>> /\ Rest(w)
  BY <1>0, <1>1, <1>2, QuietStep, Rested DEF Rest, stores
<1>3. CASE /\ Held(w) /\ ~Expects(w)
           /\ job' = [job EXCEPT ![f].status = "DEAD_LETTER"]
           /\ Rest(w) /\ UNCHANGED row
  <2>1. requeued[f] = 0 => ~Awaiting(f)
    BY <1>0, <1>3, HeldIsExpected
  <2>2. FileStep(f) /\ ~GivenUp(f)'
    BY <1>0, <1>1, <1>3, <2>1, JobEnded, Rested DEF Ended, Rest
  <2> QED
    BY <1>0, <1>3, <2>2, TaskMoves, Rested DEF Rest
<1>4. ASSUME Held(w), Expects(w),
             NEW verdict \in {"CLEAN", "INFECTED", "SCAN_ERROR"},
             NEW storage,
             storage = IF verdict = "INFECTED" THEN "DELETE_PENDING" ELSE "STORED",
             NEW s, s = IF verdict = "SCAN_ERROR" THEN "DEAD_LETTER" ELSE "DELIVERED",
             row' = [row EXCEPT ![f].scan = verdict, ![f].storage = storage],
             job' = [job EXCEPT ![f].status = s],
             NEW n, Goto(w, n),
             n = IF verdict = "INFECTED" THEN [t EXCEPT !.step = "REMOVE"] ELSE Resting
      PROVE  WorkStep(w, f)
  <2>1. Awaiting(f) /\ row[f].storage = "STORED" /\ row[f].deleted = FALSE
    BY <1>1, <1>4 DEF Expects, Awaiting, Attachment
  <2>2. /\ row' \in [Files -> Attachment]
        /\ row'[f].storage = storage /\ row'[f].scan = verdict
        /\ row'[f].attempts = row[f].attempts /\ row'[f].deleted = FALSE
        /\ \A g \in Files \ {f} : row'[g] = row[g]
    <3> DEFINE a == [row[f] EXCEPT !.scan = verdict, !.storage = storage]
    <3>1. /\ a \in Attachment /\ a.storage = storage /\ a.scan = verdict
          /\ a.attempts = row[f].attempts /\ a.deleted = FALSE
      BY <1>1, <1>4, <2>1 DEF Attachment, StorageStatus, ScanStatus
    <3>2. row' = [row EXCEPT ![f] = a]
      BY <1>1, <1>4 DEF TypeOK
    <3> HIDE DEF a
    <3> QED
      BY <1>1, <3>1, <3>2 DEF TypeOK
  <2>3. /\ job' \in [Files -> Job]
        /\ job'[f].status = s /\ job'[f].attempts = job[f].attempts
        /\ \A g \in Files \ {f} : job'[g] = job[g]
    BY <1>1, <1>4 DEF TypeOK, Job, JobStatus
  <2>4. /\ n \in Task
        /\ verdict = "INFECTED" =>
             n.step = "REMOVE" /\ n.file = f /\ n.attempt = t.attempt
    BY <1>1, <1>4, Rested DEF Task, ScanSteps
  <2>5. TypeOK'
    BY <1>0, <1>1, <1>4, <2>2, <2>3, <2>4, WorkTypes DEF TypeOK
  <2>6. FileStep(f)
    <3>1. BytesOK(f)'
      BY <1>0, <1>1, <1>4, <2>1, <2>2 DEF BytesOK, people
    <3>2. JobOK(f)'
      BY <1>0, <1>1, <1>4, <2>2, <2>3 DEF JobOK, Finalized, people
    <3>3. Kept(f)
      BY <1>0, <1>4, <2>1, <2>2, <2>3 DEF Kept, Withdrawn
    <3>4. \A g \in Files \ {f} : Untouched(g)
      BY <1>0, <2>2, <2>3 DEF Untouched, people
    <3> QED
      BY <2>5, <3>1, <3>2, <3>3, <3>4 DEF FileStep
  <2>7. Free(n) \/ Follows(w, f, n)
    <3>1. CASE verdict = "INFECTED"
      BY <1>0, <1>4, <2>2, <2>4, <3>1 DEF Follows, Withdrawn
    <3> QED
      BY <1>4, <3>1, Rested
  <2>8. GivenUp(f)' => Free(n)
    BY <1>1, <1>4, <2>2, Rested DEF GivenUp, Awaiting
  <2> QED
    BY <1>0, <1>4, <2>2, <2>6, <2>7, <2>8, TaskMoves
<1> DEFINE v == IF t.outcome \in {"CLEAN", "INFECTED"} THEN t.outcome ELSE "SCAN_ERROR"
<1>5. v \in {"CLEAN", "INFECTED", "SCAN_ERROR"}
  OBVIOUS
<1>6. CASE /\ Held(w) /\ Expects(w)
           /\ row' = [row EXCEPT
                ![f].scan = v,
                ![f].storage = IF v = "INFECTED" THEN "DELETE_PENDING" ELSE "STORED"]
           /\ job' = [job EXCEPT ![f].status =
                IF v = "SCAN_ERROR" THEN "DEAD_LETTER" ELSE "DELIVERED"]
           /\ IF v = "INFECTED" THEN Goto(w, [t EXCEPT !.step = "REMOVE"]) ELSE Rest(w)
  <2> HIDE DEF v
  <2>1. PICK n : n = IF v = "INFECTED" THEN [t EXCEPT !.step = "REMOVE"] ELSE Resting
    OBVIOUS
  <2>2. Goto(w, n)
    BY <1>6, <2>1 DEF Rest
  <2> QED
    BY <1>4, <1>5, <1>6, <2>1, <2>2
<1> QED
  BY <1>2, <1>3, <1>6 DEF finish

\* No verdict: the row that expects the attempt waits for another one, whether
\* the job is still held or not, and the attempt counts or is given back.  As
\* no other scan has the same number, they are all below.
LEMMA RescheduleStep ==
  ASSUME Inv, NEW w \in Workers, NEW f, f = work[w].file,
         retryOrFail(w) \/ deferStorage(w)
  PROVE  WorkStep(w, f)
<1> DEFINE t == work[w]
<1>0. /\ t.step = "COMMIT" /\ t.step \notin {"IDLE", "SWEEP"} /\ t.step \in ScanSteps
      /\ Scanning(w)
      /\ UNCHANGED <<object, people, stops>> /\ Goto(w, Resting)
  BY DEF retryOrFail, deferStorage, Rest, Scanning, ScanSteps
<1>1. /\ f \in Files /\ TypeOK /\ BytesOK(f) /\ JobOK(f) /\ TaskOK(w) /\ NobodyExpected(f)
      /\ row[f] \in Attachment /\ job[f] \in Job /\ t \in Task
      /\ work \in [Workers -> Task]
      /\ stops \in 0 .. MaxStops /\ job[f].status # "NONE" /\ t.attempt > 0
  BY <1>0, AtWork DEF TypeOK, TaskOK
<1>2. PICK k \in {t.attempt, t.attempt - 1} : Reschedule(w, k)
  BY DEF retryOrFail, deferStorage
<1>3. /\ k \in 0 .. MaxClaims /\ k \in Nat /\ t.attempt \in Nat
      /\ k <= t.attempt /\ t.attempt <= k + 1
  BY <1>1, BoundsAssumption DEF Task, BoundsAssumption
<1>4. CASE UNCHANGED <<row, job>>
  BY <1>0, <1>1, <1>4, QuietStep, Rested DEF stores
<1>5. CASE Expects(w)
  <2>1. /\ row[f].storage = "STORED" /\ row[f].deleted = FALSE
        /\ row[f].attempts = t.attempt /\ Awaiting(f)
    BY <1>1, <1>5 DEF Expects, Awaiting, Attachment
  <2>2. /\ row' \in [Files -> Attachment]
        /\ row'[f].storage = "STORED" /\ row'[f].scan = "PENDING_SCAN"
        /\ row'[f].attempts = k /\ row'[f].deleted = FALSE
        /\ \A g \in Files \ {f} : row'[g] = row[g]
    <3> DEFINE a == [row[f] EXCEPT !.scan = "PENDING_SCAN", !.attempts = k]
    <3>1. /\ a \in Attachment /\ a.storage = "STORED" /\ a.scan = "PENDING_SCAN"
          /\ a.attempts = k /\ a.deleted = FALSE
      BY <1>1, <1>3, <2>1 DEF Attachment, ScanStatus
    <3>2. row' = [row EXCEPT ![f] = a]
      BY <1>1, <1>2, <1>5 DEF TypeOK, Reschedule
    <3> HIDE DEF a
    <3> QED
      BY <1>1, <3>1, <3>2 DEF TypeOK
  <2>3. ~GivenUp(f)
    BY <1>0, <1>1, <2>1 DEF NobodyExpected
  <2>4. /\ job' \in [Files -> Job]
        /\ \/ job'[f] = [status |-> "RETRY", attempts |-> k]
           \/ job'[f] = job[f]
        /\ \A g \in Files \ {f} : job'[g] = job[g]
    <3>1. [status |-> "RETRY", attempts |-> k] \in Job
      BY <1>3 DEF Job, JobStatus
    <3> QED
      BY <1>1, <1>2, <3>1 DEF Reschedule, TypeOK
  <2>5. TypeOK'
    BY <1>0, <1>1, <2>2, <2>4, WorkTypes, Rested DEF TypeOK
  <2>6. ~GivenUp(f)'
    BY <1>0, <2>1, <2>3, <2>4 DEF GivenUp, Ended, people
  <2>7. FileStep(f)
    <3>1. BytesOK(f)'
      BY <1>0, <1>1, <2>1, <2>2 DEF BytesOK, people
    <3>2. JobOK(f)'
      <4>1. CASE job'[f] = [status |-> "RETRY", attempts |-> k]
        BY <1>0, <1>3, <2>2, <4>1 DEF JobOK, Finalized, people
      <4>2. CASE job'[f] = job[f]
        <5>1. requeued[f] = 0 => job[f].status \in {"PENDING", "RETRY", "PROCESSING"}
          BY <1>1, <2>1, <2>3 DEF GivenUp, Job, JobStatus, Ended
        <5>2. requeued[f] = 0 => k <= job[f].attempts
          BY <1>1, <1>3, <2>1 DEF JobOK, Job
        <5> QED
          BY <1>0, <2>2, <4>2, <5>1, <5>2 DEF JobOK, Finalized, people
      <4> QED
        BY <2>4, <4>1, <4>2
    <3>3. Kept(f)
      BY <1>0, <1>1, <2>1, <2>2, <2>4 DEF Kept, Withdrawn
    <3>4. \A g \in Files \ {f} : Untouched(g)
      BY <1>0, <2>2, <2>4 DEF Untouched, people
    <3> QED
      BY <2>5, <3>1, <3>2, <3>3, <3>4 DEF FileStep
  <2>8. work'[w] = Resting /\ \A v \in Workers \ {w} : work'[v] = work[v]
    BY <1>0, <1>1 DEF Goto
  <2>9. TaskOK(w)' /\ ~Scanning(w)'
    BY <2>8 DEF TaskOK, Scanning, Resting, ScanSteps
  <2>10. ASSUME NEW v \in Workers \ {w}, Scanning(v), work[v].file = f
         PROVE  work[v].attempt <= row'[f].attempts
    <3>1. /\ work[v].attempt <= row[f].attempts /\ work[v].attempt # t.attempt
          /\ work[v].attempt \in Nat
      BY <1>0, <1>1, <2>10, OtherScans
    <3> QED
      BY <1>3, <2>1, <2>2, <3>1
  <2> QED
    BY <2>6, <2>7, <2>8, <2>9, <2>10 DEF WorkStep, NobodyExpected
<1> QED
  BY <1>2, <1>4, <1>5 DEF Reschedule

\* The bytes of an infected or abandoned file are removed, which only leaves
\* fewer of them.
LEMMA EraseStep ==
  ASSUME Inv, NEW w \in Workers, NEW f, f = work[w].file,
         RemoveInfected(w) \/ Erase(w)
  PROVE  WorkStep(w, f)
<1>0. /\ work[w].step \in {"REMOVE", "ERASE"} /\ work[w].step \notin {"IDLE", "SWEEP"}
      /\ object' = object \ {f}
      /\ UNCHANGED <<row, job, people, stops>>
  BY DEF RemoveInfected, Erase
<1>1. /\ f \in Files /\ TypeOK /\ BytesOK(f) /\ JobOK(f) /\ TaskOK(w) /\ work[w] \in Task
      /\ row[f].storage \in Withdrawn
  BY <1>0, AtWork DEF TaskOK
<1>2. PICK s \in {"MARK", "ERASED"} :
        /\ Goto(w, [work[w] EXCEPT !.step = s])
        /\ s = "MARK" => work[w].step = "REMOVE"
  BY DEF RemoveInfected, Erase
<1> DEFINE n == [work[w] EXCEPT !.step = s]
<1>3. /\ n \in Task /\ n.step = s /\ n.file = f
      /\ n.attempt = work[w].attempt /\ Goto(w, n)
  BY <1>1, <1>2 DEF Task, ScanSteps
<1> HIDE DEF n
<1>4. TypeOK'
  BY <1>0, <1>1, <1>3, WorkTypes DEF TypeOK
<1>5. FileStep(f)
  <2>1. BytesOK(f)' /\ JobOK(f)'
    BY <1>0, <1>1 DEF BytesOK, JobOK, people, Withdrawn
  <2>2. Kept(f)
    BY <1>0, <1>1 DEF Kept, Awaiting
  <2>3. \A g \in Files \ {f} : Untouched(g)
    BY <1>0 DEF Untouched, people
  <2> QED
    BY <1>4, <2>1, <2>2, <2>3 DEF FileStep
<1>6. Follows(w, f, n)
  BY <1>0, <1>1, <1>2, <1>3 DEF Follows, ScanSteps
<1>7. GivenUp(f)' => GivenUp(f)
  BY <1>0 DEF GivenUp, Awaiting, people
<1> QED
  BY <1>0, <1>3, <1>5, <1>6, <1>7, TaskMoves

\* A row goes to its last status, and keeps everything else.
LEMMA RowEnds ==
  ASSUME Inv, NEW f \in Files, NEW s,
         \/ s = "DELETED" /\ row[f].storage = "DELETE_PENDING" /\ f \notin object
         \/ s = "EXPIRED" /\ row[f].storage = "STORED",
         row' = [row EXCEPT ![f].storage = s],
         NEW w \in Workers, NEW t \in Task, Goto(w, t),
         UNCHANGED <<job, object, people, stops>>
  PROVE  FileStep(f) /\ ~GivenUp(f)' /\ row'[f].attempts = row[f].attempts
<1>0. TypeOK /\ BytesOK(f) /\ JobOK(f) /\ row[f] \in Attachment /\ job[f] \in Job
  BY InOrder
<1>1. /\ row' \in [Files -> Attachment]
      /\ row'[f].storage = s /\ row'[f].scan = row[f].scan
      /\ row'[f].attempts = row[f].attempts /\ row'[f].deleted = row[f].deleted
      /\ \A g \in Files \ {f} : row'[g] = row[g]
  <2> DEFINE a == [row[f] EXCEPT !.storage = s]
  <2>1. /\ a \in Attachment /\ a.storage = s /\ a.scan = row[f].scan
        /\ a.attempts = row[f].attempts /\ a.deleted = row[f].deleted
    BY <1>0 DEF Attachment, StorageStatus
  <2>2. row' = [row EXCEPT ![f] = a]
    OBVIOUS
  <2> HIDE DEF a
  <2> QED
    BY <1>0, <2>1, <2>2 DEF TypeOK
<1>2. TypeOK'
  BY <1>0, <1>1, WorkTypes DEF TypeOK
<1>3. BytesOK(f)'
  BY <1>0, <1>1 DEF BytesOK, people
<1>4. JobOK(f)'
  BY <1>0, <1>1 DEF JobOK, Finalized, people
<1>5. Kept(f)
  BY <1>0, <1>1 DEF Kept, Awaiting, Withdrawn
<1>6. \A g \in Files \ {f} : Untouched(g)
  BY <1>1 DEF Untouched, people
<1>7. ~GivenUp(f)'
  BY <1>1 DEF GivenUp, Awaiting
<1> QED
  BY <1>1, <1>2, <1>3, <1>4, <1>5, <1>6, <1>7 DEF FileStep

\* The row says DELETED once its bytes are gone, and EXPIRED after a sweep.
LEMMA MarkStep ==
  ASSUME Inv, NEW w \in Workers, NEW f, f = work[w].file,
         MarkInfected(w) \/ MarkErased(w) \/ SweepRow(w)
  PROVE  WorkStep(w, f)
<1>0. /\ work[w].step \in {"MARK", "ERASED", "EXPIRE"}
      /\ work[w].step \notin {"IDLE", "SWEEP"}
      /\ UNCHANGED <<job, object, people, stops>>
  BY DEF MarkInfected, MarkErased, SweepRow
<1>1. /\ f \in Files /\ work[w] \in Task /\ stops \in 0 .. MaxStops
      /\ work[w].step \in {"MARK", "ERASED"} => f \notin object
  BY <1>0, AtWork DEF TaskOK, TypeOK
<1>2. PICK t \in Task : Goto(w, t) /\ Free(t)
  <2>1. CASE MarkInfected(w) \/ MarkErased(w)
    BY <2>1, Rested DEF MarkInfected, MarkErased, Rest
  <2>2. CASE SweepRow(w)
    <3> DEFINE n == [work[w] EXCEPT !.step = "SWEEP", !.file = NoFile]
    <3>1. n \in Task /\ n.step = "SWEEP"
      BY <1>1 DEF Task
    <3>2. Goto(w, Resting) \/ Goto(w, n)
      BY <2>2 DEF SweepRow, Rest
    <3> HIDE DEF n
    <3> QED
      BY <3>1, <3>2, Rested DEF Free
  <2> QED
    BY <2>1, <2>2
<1>3. CASE UNCHANGED row
  BY <1>0, <1>1, <1>2, <1>3, QuietStep DEF stores
<1>4. ASSUME NEW s,
             \/ /\ s = "DELETED" /\ row[f].storage = "DELETE_PENDING"
                /\ work[w].step \in {"MARK", "ERASED"}
             \/ s = "EXPIRED" /\ row[f].storage = "STORED",
             row' = [row EXCEPT ![f].storage = s]
      PROVE  WorkStep(w, f)
  <2>1. FileStep(f) /\ ~GivenUp(f)' /\ row'[f].attempts = row[f].attempts
    BY <1>0, <1>1, <1>2, <1>4, RowEnds
  <2> QED
    BY <1>0, <1>2, <2>1, TaskMoves
<1> QED
  BY <1>3, <1>4 DEF MarkInfected, MarkErased, SweepRow, Expires

\* A worker that gives up a removal.
LEMMA EraseFailsStep ==
  ASSUME Inv, NEW w \in Workers, NEW f, f = work[w].file, EraseFails(w)
  PROVE  WorkStep(w, f)
<1>0. work[w].step \notin {"IDLE", "SWEEP"} /\ Goto(w, Resting)
      /\ UNCHANGED <<stores, people, stops>>
  BY DEF EraseFails, Rest
<1>1. stops \in 0 .. MaxStops
  BY DEF Inv, TypeOK
<1> QED
  BY <1>0, <1>1, QuietStep, Rested

\* Work that is no scan.
LEMMA AsideMoves ==
  ASSUME Inv, NEW w \in Workers, NEW f \in Files,
         FileStep(f), row'[f].attempts = row[f].attempts, GivenUp(f)' => GivenUp(f),
         NEW t, Goto(w, t), t.file = f,
         t.step = "EXPIRE" \/ (t.step = "ERASE" /\ row'[f].storage \in Withdrawn)
  PROVE  WorkStep(w, f)
<1>1. work \in [Workers -> Task] /\ NobodyExpected(f)
  BY DEF Inv, TypeOK
<1>2. work'[w] = t /\ \A v \in Workers \ {w} : work'[v] = work[v]
  BY <1>1 DEF Goto
<1>3. TaskOK(w)' /\ ~Scanning(w)'
  BY <1>2 DEF TaskOK, Scanning, ScanSteps
<1>4. NobodyExpected(f)'
  BY <1>1, <1>2, <1>3 DEF NobodyExpected, Scanning
<1> QED
  BY <1>2, <1>3, <1>4, OtherScans DEF WorkStep

\* The reconciler takes an abandoned file of which nothing is in flight.
LEMMA ReconcileStep ==
  ASSUME Inv, NEW w \in Workers, NEW f \in Files, Reconcile(w, f)
  PROVE  WorkStep(w, f)
<1>0. TypeOK /\ BytesOK(f) /\ JobOK(f) /\ row[f] \in Attachment /\ job[f] \in Job
  BY InOrder
<1> DEFINE t == [Resting EXCEPT !.step = "ERASE", !.file = f]
           d == row[f].deleted \/ row[f].scan # "INFECTED"
           a == [row[f] EXCEPT !.storage = "DELETE_PENDING", !.deleted = d]
<1>1. t \in Task /\ t.step = "ERASE" /\ t.file = f
  BY Rested DEF Task, Resting
<1>2. /\ row' = [row EXCEPT ![f] = a] /\ Goto(w, t)
      /\ UNCHANGED <<job, object, people, stops>>
      /\ row[f].storage \in {"PENDING_UPLOAD", "UPLOAD_FAILED", "DELETE_PENDING"}
      /\ upload[f] # "PUT" /\ f \notin late
  <2>1. row' = [row EXCEPT ![f].storage = "DELETE_PENDING",
                           ![f].deleted = @ \/ row[f].scan # "INFECTED"]
    BY DEF Reconcile
  <2>2. row' = [row EXCEPT ![f] = a]
    BY <1>0, <2>1 DEF TypeOK
  <2> QED
    BY <2>2 DEF Reconcile, Abandoned, Settled
<1>3. d \in BOOLEAN
  BY <1>0 DEF Attachment
<1> HIDE DEF t, d
<1>4. /\ a \in Attachment /\ a.storage = "DELETE_PENDING" /\ a.scan = row[f].scan
      /\ a.attempts = row[f].attempts
  BY <1>0, <1>3 DEF Attachment, StorageStatus
<1> HIDE DEF a
<1>5. /\ row' \in [Files -> Attachment] /\ row'[f] = a
      /\ \A g \in Files \ {f} : row'[g] = row[g]
  BY <1>0, <1>2, <1>4 DEF TypeOK
<1>6. TypeOK'
  BY <1>0, <1>1, <1>2, <1>5, WorkTypes DEF TypeOK
<1>7. FileStep(f)
  <2>1. BytesOK(f)'
    BY <1>0, <1>2, <1>4, <1>5 DEF BytesOK, people
  <2>2. JobOK(f)'
    BY <1>0, <1>2, <1>4, <1>5 DEF JobOK, Finalized, people
  <2>3. Kept(f)
    BY <1>0, <1>2, <1>4, <1>5 DEF Kept, Awaiting, Withdrawn
  <2>4. \A g \in Files \ {f} : Untouched(g)
    BY <1>2, <1>5 DEF Untouched, people
  <2> QED
    BY <1>6, <2>1, <2>2, <2>3, <2>4 DEF FileStep
<1>8. ~GivenUp(f)' /\ row'[f].storage \in Withdrawn
  BY <1>4, <1>5 DEF GivenUp, Awaiting, Withdrawn
<1> QED
  BY <1>1, <1>2, <1>4, <1>5, <1>7, <1>8, AsideMoves

\* A sweep removes the bytes of a file it has chosen, if it can.
LEMMA SweepObjectStep ==
  ASSUME Inv, NEW w \in Workers, NEW f \in Files, SweepObject(w, f)
  PROVE  WorkStep(w, f)
<1>0. TypeOK /\ BytesOK(f) /\ JobOK(f) /\ work[w] \in Task
  BY InOrder DEF TypeOK
<1> DEFINE t == [work[w] EXCEPT !.step = "EXPIRE", !.file = f, !.chosen = @ \ {f}]
<1>1. t \in Task /\ t.step = "EXPIRE" /\ t.file = f /\ Goto(w, t)
  BY <1>0 DEF SweepObject, Task
<1> HIDE DEF t
<1>2. /\ object' = object \/ object' = object \ {f}
      /\ UNCHANGED <<row, job, people, stops>>
  BY DEF SweepObject
<1>3. TypeOK'
  BY <1>0, <1>1, <1>2, WorkTypes DEF TypeOK
<1>4. FileStep(f)
  <2>1. BytesOK(f)' /\ JobOK(f)'
    BY <1>0, <1>2 DEF BytesOK, JobOK, people
  <2>2. Kept(f)
    BY <1>2 DEF Kept, Awaiting
  <2>3. \A g \in Files \ {f} : Untouched(g)
    BY <1>2 DEF Untouched, people
  <2> QED
    BY <1>3, <2>1, <2>2, <2>3 DEF FileStep
<1>5. GivenUp(f)' => GivenUp(f)
  BY <1>2 DEF GivenUp, Awaiting, people
<1> QED
  BY <1>1, <1>2, <1>4, <1>5, AsideMoves

\* Every step of a worker, but for those that only begin or end its work, is
\* a step on one file.
LEMMA WorkerStep ==
  ASSUME Inv, NEW w \in Workers,
         (\E f \in Files : claim(w, f) \/ Reconcile(w, f)) \/ Step(w)
  PROVE  \E f \in Files : WorkStep(w, f)
<1>1. CASE \E f \in Files : claim(w, f) \/ Reconcile(w, f) \/ SweepObject(w, f)
  BY <1>1, ClaimStep, ReconcileStep, SweepObjectStep
<1>2. CASE \/ start(w) \/ deadLetter(w) \/ scan(w)
           \/ finish(w) \/ retryOrFail(w) \/ deferStorage(w)
           \/ RemoveInfected(w) \/ MarkInfected(w)
           \/ Erase(w) \/ EraseFails(w) \/ MarkErased(w) \/ SweepRow(w)
  <2>1. work[w].step \notin {"IDLE", "SWEEP"}
    BY <1>2 DEF start, deadLetter, scan, finish, retryOrFail, deferStorage, RemoveInfected,
                MarkInfected, Erase, EraseFails, MarkErased, SweepRow
  <2>2. PICK f : f = work[w].file
    OBVIOUS
  <2>3. f \in Files
    BY <2>1, <2>2, AtWork
  <2> QED
    BY <1>2, <2>2, <2>3, StartStep, BuryStep, ScanStep, FinishStep, RescheduleStep, EraseStep,
       MarkStep, EraseFailsStep
<1> QED
  BY <1>1, <1>2 DEF Step

-----------------------------------------------------------------------------
\* The other files are in order as they were, if the worker that moved scans
\* none of them.
LEMMA OtherFiles ==
  ASSUME Inv, NEW f \in Files, FileStep(f), NEW g \in Files, g # f,
         \A v \in Workers : Scanning(v)' /\ work'[v].file = g => work'[v] = work[v]
  PROVE  BytesOK(g)' /\ JobOK(g)' /\ NobodyExpected(g)'
<1>1. Untouched(g) /\ BytesOK(g) /\ JobOK(g) /\ NobodyExpected(g)
  BY DEF FileStep, Inv
<1>2. BytesOK(g)'
  BY <1>1 DEF Untouched, BytesOK
<1>3. JobOK(g)'
  BY <1>1 DEF Untouched, JobOK
<1>4. GivenUp(g)' <=> GivenUp(g)
  BY <1>1 DEF Untouched, GivenUp, Awaiting
<1>5. NobodyExpected(g)'
  BY <1>1, <1>4 DEF Untouched, NobodyExpected, Scanning
<1> QED
  BY <1>2, <1>3, <1>5

\* And so is a worker that did not move, unless the attempts of its scan's
\* row went back below its own.
LEMMA OtherWorkers ==
  ASSUME Inv, NEW f \in Files, FileStep(f), NEW v \in Workers, work'[v] = work[v],
         Scanning(v) /\ work[v].file = f => work[v].attempt <= row'[f].attempts
  PROVE  TaskOK(v)'
<1>0. CASE work[v].step \in {"IDLE", "SWEEP"}
  BY <1>0 DEF TaskOK, Scanning, ScanSteps
<1> SUFFICES ASSUME work[v].step \notin {"IDLE", "SWEEP"}
             PROVE  TaskOK(v)'
  BY <1>0
<1>1. PICK g : g = work[v].file
  OBVIOUS
<1>2. g \in Files /\ TaskOK(v)
  BY <1>1, AtWork
<1>3. CASE g = f
  BY <1>1, <1>2, <1>3 DEF FileStep, Kept, TaskOK, Scanning, ScanSteps
<1>4. CASE g # f
  <2>1. Untouched(g)
    BY <1>2, <1>4 DEF FileStep
  <2>2. Awaiting(g)' <=> Awaiting(g)
    BY <2>1 DEF Untouched, Awaiting
  <2> QED
    BY <1>1, <1>2, <2>1, <2>2 DEF Untouched, TaskOK, Scanning
<1> QED
  BY <1>3, <1>4

\* A step on a file that is not a worker's.
LEMMA PeopleKeepInv ==
  ASSUME Inv, NEW f \in Files, PeopleStep(f)
  PROVE  Inv'
<1>0. FileStep(f) /\ UNCHANGED work /\ row'[f].attempts = row[f].attempts
  BY DEF PeopleStep
<1>1. ASSUME NEW v \in Workers
      PROVE  TaskOK(v)'
  <2>1. Scanning(v) /\ work[v].file = f => work[v].attempt <= row[f].attempts
    BY DEF Inv, TaskOK, Scanning
  <2> QED
    BY <1>0, <2>1, OtherWorkers
<1>2. ClaimsDiffer'
  BY <1>0 DEF Inv, ClaimsDiffer, Scanning
<1>3. ASSUME NEW g \in Files
      PROVE  BytesOK(g)' /\ JobOK(g)' /\ NobodyExpected(g)'
  <2>1. CASE g = f
    <3>1. NobodyExpected(f)'
      BY <1>0 DEF PeopleStep, Inv, NobodyExpected, Scanning
    <3> QED
      BY <1>0, <2>1, <3>1 DEF FileStep
  <2>2. CASE g # f
    BY <1>0, <2>2, OtherFiles
  <2> QED
    BY <2>1, <2>2
<1> QED
  BY <1>0, <1>1, <1>2, <1>3 DEF Inv, FileStep

\* A step of a worker.
LEMMA WorkKeepsInv ==
  ASSUME Inv, NEW w \in Workers, NEW f \in Files, WorkStep(w, f)
  PROVE  Inv'
<1>0. FileStep(f)
  BY DEF WorkStep
<1>1. ASSUME NEW v \in Workers
      PROVE  TaskOK(v)'
  <2>1. CASE v = w
    BY <2>1 DEF WorkStep
  <2>2. CASE v # w
    BY <1>0, <2>2, OtherWorkers DEF WorkStep
  <2> QED
    BY <2>1, <2>2
<1>2. ClaimsDiffer'
  <2> SUFFICES ASSUME NEW u \in Workers, NEW v \in Workers, u # v,
                      Scanning(u)', Scanning(v)',
                      work'[u].file = work'[v].file,
                      work'[u].attempt = work'[v].attempt
               PROVE  FALSE
    BY DEF ClaimsDiffer
  <2>1. CASE u # w /\ v # w
    BY <2>1 DEF WorkStep, Inv, ClaimsDiffer, Scanning
  <2>2. CASE u = w
    BY <2>2 DEF WorkStep, Scanning
  <2>3. CASE v = w
    BY <2>3 DEF WorkStep, Scanning
  <2> QED
    BY <2>1, <2>2, <2>3
<1>3. ASSUME NEW g \in Files
      PROVE  BytesOK(g)' /\ JobOK(g)' /\ NobodyExpected(g)'
  <2>1. CASE g = f
    BY <2>1 DEF WorkStep, FileStep
  <2>2. CASE g # f
    <3>1. \A v \in Workers : Scanning(v)' /\ work'[v].file = g => work'[v] = work[v]
      BY <2>2 DEF WorkStep
    <3> QED
      BY <1>0, <2>2, <3>1, OtherFiles
  <2> QED
    BY <2>1, <2>2
<1> QED
  BY <1>0, <1>1, <1>2, <1>3 DEF Inv, FileStep

\* A worker begins a sweep, or stops.
LEMMA TurnKeepsInv ==
  ASSUME Inv, NEW w \in Workers, NEW t \in Task, Goto(w, t),
         t.step \in {"IDLE", "SWEEP"}, UNCHANGED <<stores, people>>,
         stops' \in 0 .. MaxStops
  PROVE  Inv'
<1>0. TypeOK /\ work'[w] = t /\ \A v \in Workers \ {w} : work'[v] = work[v]
  BY DEF Inv, TypeOK, Goto
<1>1. TypeOK'
  BY <1>0, WorkTypes DEF TypeOK, stores
<1>2. ASSUME NEW v \in Workers
      PROVE  TaskOK(v)'
  <2>1. CASE v = w
    BY <1>0, <2>1 DEF TaskOK, Scanning, ScanSteps
  <2>2. CASE v # w
    <3>1. work'[v] = work[v] /\ TaskOK(v)
      BY <1>0, <2>2 DEF Inv
    <3> QED
      BY <3>1 DEF TaskOK, Scanning, Awaiting, stores
  <2> QED
    BY <2>1, <2>2
<1>3. \A v \in Workers : Scanning(v)' => v # w /\ Scanning(v) /\ work'[v] = work[v]
  BY <1>0 DEF Scanning
<1>4. ClaimsDiffer'
  BY <1>3 DEF Inv, ClaimsDiffer
<1>5. ASSUME NEW f \in Files
      PROVE  BytesOK(f)' /\ JobOK(f)' /\ NobodyExpected(f)'
  <2>1. BytesOK(f)' /\ JobOK(f)'
    BY DEF Inv, BytesOK, JobOK, stores, people
  <2>2. GivenUp(f)' <=> GivenUp(f)
    BY DEF GivenUp, Awaiting, stores, people
  <2>3. NobodyExpected(f)'
    BY <1>3, <2>2 DEF Inv, NobodyExpected, stores
  <2> QED
    BY <2>1, <2>3
<1> QED
  BY <1>1, <1>2, <1>4, <1>5 DEF Inv

\* At the beginning there is nothing.
LEMMA InvInit == Init => Inv
<1> SUFFICES ASSUME Init PROVE Inv
  OBVIOUS
<1>1. TypeOK
  BY BoundsAssumption, Rested
  DEF Init, TypeOK, Attachment, Job, StorageStatus, ScanStatus, JobStatus, BoundsAssumption
<1>2. ASSUME NEW w \in Workers
      PROVE  TaskOK(w) /\ ~Scanning(w)
  BY DEF Init, TaskOK, Scanning, Resting, ScanSteps
<1>3. ASSUME NEW f \in Files
      PROVE  BytesOK(f) /\ JobOK(f) /\ NobodyExpected(f)
  BY <1>2 DEF Init, BytesOK, JobOK, NobodyExpected
<1>4. ClaimsDiffer
  BY <1>2 DEF ClaimsDiffer
<1> QED
  BY <1>1, <1>2, <1>3, <1>4 DEF Inv

\* A step concerns one file, or none.
LEMMA Steps ==
  ASSUME Inv, [Next]_vars
  PROVE  \/ \E f \in Files : PeopleStep(f)
         \/ \E f \in Files, w \in Workers : WorkStep(w, f)
         \/ /\ UNCHANGED <<stores, people>>
            /\ stops' \in 0 .. MaxStops
            /\ \E w \in Workers, t \in Task : Goto(w, t) /\ t.step \in {"IDLE", "SWEEP"}
         \/ UNCHANGED vars
<1>1. ASSUME NEW f \in Files, GrowOld(f) \/ DeadlinePasses(f) \/ Person(f)
      PROVE  PeopleStep(f)
  BY <1>1, UploadFile, ReaderFile, AdminFile DEF Person
<1>2. ASSUME NEW w \in Workers, (\E f \in Files : claim(w, f) \/ Reconcile(w, f)) \/ Step(w)
      PROVE  \E f \in Files : WorkStep(w, f)
  BY <1>2, WorkerStep
<1>3. ASSUME NEW w \in Workers, Sweep(w)
      PROVE  /\ UNCHANGED <<stores, people>> /\ stops' \in 0 .. MaxStops
             /\ \E t \in Task : Goto(w, t) /\ t.step \in {"IDLE", "SWEEP"}
  <2>1. PICK chosen \in SUBSET Files :
          Goto(w, [Resting EXCEPT !.step = "SWEEP", !.chosen = chosen])
    BY <1>3 DEF Sweep
  <2>2. [Resting EXCEPT !.step = "SWEEP", !.chosen = chosen] \in Task
    BY Rested DEF Task, Resting
  <2>3. [Resting EXCEPT !.step = "SWEEP", !.chosen = chosen].step = "SWEEP"
    BY DEF Resting
  <2> QED
    BY <1>3, <2>1, <2>2, <2>3 DEF Sweep, Inv, TypeOK
<1>4. ASSUME NEW w \in Workers, WorkerStops(w)
      PROVE  /\ UNCHANGED <<stores, people>> /\ stops' \in 0 .. MaxStops
             /\ \E t \in Task : Goto(w, t) /\ t.step \in {"IDLE", "SWEEP"}
  <2>1. stops' \in 0 .. MaxStops
    BY <1>4, BoundsAssumption DEF WorkerStops, Inv, TypeOK, BoundsAssumption
  <2>2. Resting.step = "IDLE"
    BY DEF Resting
  <2> QED
    BY <1>4, <2>1, <2>2, Rested DEF WorkerStops, Rest
<1> QED
  BY <1>1, <1>2, <1>3, <1>4 DEF Next

\* The invariant is inductive.
LEMMA InvStep == Inv /\ [Next]_vars => Inv'
<1> SUFFICES ASSUME Inv, [Next]_vars PROVE Inv'
  OBVIOUS
<1>1. CASE UNCHANGED vars
  <2>1. TypeOK' /\ ClaimsDiffer'
    BY <1>1 DEF Inv, vars, stores, people, TypeOK, ClaimsDiffer, Scanning
  <2>2. ASSUME NEW f \in Files
        PROVE  BytesOK(f)' /\ JobOK(f)' /\ NobodyExpected(f)'
    BY <1>1 DEF Inv, vars, stores, people, BytesOK, JobOK, NobodyExpected, GivenUp,
                Awaiting, Scanning
  <2>3. ASSUME NEW w \in Workers
        PROVE  TaskOK(w)'
    <3>1. TaskOK(w)
      BY DEF Inv
    <3> QED
      BY <1>1, <3>1 DEF vars, stores, people, TaskOK, Scanning, Awaiting
  <2> QED
    BY <2>1, <2>2, <2>3 DEF Inv
<1> QED
  BY <1>1, Steps, PeopleKeepInv, WorkKeepsInv, TurnKeepsInv

\* What the theorems below rest on.
LEMMA Always == Spec => []Inv
<1>1. Init => Inv
  BY InvInit
<1>2. Inv /\ [Next]_vars => Inv'
  BY InvStep
<1> QED
  BY <1>1, <1>2, PTL DEF Spec

-----------------------------------------------------------------------------
\* DELETED is said only of a file whose bytes are gone for good: no PUT that
\* was still under way, and no late failure of one, can bring them back.
THEOREM DeletedForGood == Spec => []DeletedLeavesNoBytes
<1>1. ASSUME Inv
      PROVE  DeletedLeavesNoBytes
  BY <1>1 DEF Inv, BytesOK, DeletedLeavesNoBytes
<1> QED
  BY <1>1, Always, PTL

\* Two workers that could both commit an outcome would have the same attempt,
\* the one the row expects.
LEMMA OneCommits ==
  ASSUME Inv, NEW f \in Files
  PROVE  Cardinality({w \in Workers :
           /\ work[w].file = f
           /\ work[w].step \in {"SCAN", "COMMIT"}
           /\ Held(w) /\ Expects(w)}) <= 1
<1> DEFINE S == {w \in Workers :
       /\ work[w].file = f
       /\ work[w].step \in {"SCAN", "COMMIT"}
       /\ Held(w) /\ Expects(w)}
<1>1. ASSUME NEW v \in S, NEW w \in S
      PROVE  v = w
  BY <1>1 DEF Inv, ClaimsDiffer, Scanning, Expects
<1> HIDE DEF S
<1>2. CASE S = {}
  BY <1>2, FS_EmptySet DEF S
<1>3. CASE S # {}
  <2>1. PICK w \in S : TRUE
    BY <1>3
  <2>2. S = {w}
    BY <1>1, <2>1
  <2>3. Cardinality(S) = 1
    BY <2>2, FS_Singleton
  <2>4. Cardinality(S) <= 1
    BY <2>3
  <2> QED
    BY <2>4 DEF S
<1> QED
  BY <1>2, <1>3

\* Rows and jobs are well formed, a file that waits for its scan has a job
\* that some worker will still claim, and though leases run out under slow
\* workers and failures are written without a look at the job, no two workers
\* could commit an outcome for one file.
THEOREM Scans == Spec => []ScansInv
<1>1. ASSUME Inv
      PROVE  ScansInv
  <2>1. TypeOK /\ ScanNotStranded
    BY <1>1 DEF Inv, JobOK, ScanNotStranded
  <2>2. OneScanCanCommit
    BY <1>1, OneCommits DEF OneScanCanCommit
  <2> QED
    BY <2>1, <2>2 DEF ScansInv
<1> QED
  BY <1>1, Always, PTL

\* A file that has expired stays so, and one that was withdrawn has no other
\* end: whatever was under way when it went, a verdict, a failure, a download,
\* an extension, a purge or a sweep, looks at the row before it writes.
THEOREM GoneForGood == Spec => GoneStaysGone
<1>1. ASSUME Inv, [Next]_vars, NEW f \in Files
      PROVE  /\ row[f].storage = "EXPIRED" => row'[f].storage = "EXPIRED"
             /\ row[f].storage \in Withdrawn => row'[f].storage \in Withdrawn
  <2>1. ASSUME NEW g \in Files, FileStep(g)
        PROVE  Kept(f) \/ row'[f] = row[f]
    BY <2>1 DEF FileStep, Untouched
  <2>2. CASE UNCHANGED row
    BY <2>2
  <2>3. CASE \E g \in Files : FileStep(g)
    BY <2>1, <2>3 DEF Kept
  <2> QED
    BY <1>1, <2>2, <2>3, Steps DEF PeopleStep, WorkStep, stores, vars
<1>2. Inv /\ [Next]_vars =>
        \A f \in Files :
          /\ row[f].storage = "EXPIRED" => row'[f].storage = "EXPIRED"
          /\ row[f].storage \in {"DELETE_PENDING", "DELETED"} =>
               row'[f].storage \in {"DELETE_PENDING", "DELETED"}
  BY <1>1 DEF Withdrawn
<1> QED
  BY <1>2, Always, PTL DEF Spec, GoneStaysGone
=============================================================================
