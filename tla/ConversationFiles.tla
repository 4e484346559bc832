------------------------- MODULE ConversationFiles -------------------------
(***************************************************************************)
(* The files of a conversation: uploads (UnifiedConversationAttachment-    *)
(* Service), the scans, reconciliation and retention sweeps of the worker  *)
(* processes, the administrator's storage page (StorageAdminService), the  *)
(* recipients whose downloads start a file's last days, and the payment    *)
(* receipts that refer to a file (FinanceService).                         *)
(*                                                                         *)
(* A worker runs one of its processors at a time; a worker, an upload, a   *)
(* reader and an administrator interleave.  Each transaction and each call *)
(* of the object store is one action.  Time is a deadline that is AHEAD or *)
(* has PASSED, and the set of files that have grown old.                   *)
(*                                                                         *)
(* Variants whose name has a suffix after an underscore are mistakes for   *)
(* the runs to catch; no action uses them.                                 *)
(***************************************************************************)
EXTENDS Naturals, FiniteSets

CONSTANTS
  Files,         \* attachment ids of one conversation and request
  Workers,       \* worker processes: one, or two while one replaces another
  MaxFiles,      \* files the conversation may take
  MaxAttempts,   \* scans a job may fail before it is given up
  LeaseOutlives, \* whether a lease outlives every scan of a live worker
  MaxClaims,     \* bound: the highest attempt number of a job
  MaxRequeues,   \* bound: times an administrator requeues a job
  MaxStops       \* bound: times a worker stops in the middle of its work

ASSUME BoundsAssumption ==
  /\ MaxFiles \in Nat \ {0} /\ MaxAttempts \in Nat \ {0}
  /\ MaxClaims \in Nat /\ MaxRequeues \in Nat /\ MaxStops \in Nat
  /\ LeaseOutlives \in BOOLEAN

CONSTANT NoFile
ASSUME NoFileAssumption == NoFile \notin Files

VARIABLES
  row,       \* unified_conversation_attachments
  aged,      \* files older than the retention of files nobody downloaded
  job,       \* the outbox event UNIFIED_ATTACHMENT_SCAN_REQUESTED of each file
  object,    \* the files whose bytes the object store holds
  upload,    \* the step each upload is at
  late,      \* files whose PUT was given up but may still take effect
  work,      \* what each worker is doing
  reading,   \* files a recipient has opened and whose download is not recorded
  purge,     \* the step of an administrator's purge of each file
  receipts,  \* files a payment receipt refers to
  requeued,  \* times each job was requeued
  stops      \* times a worker stopped

stores == <<row, job, object>>
people == <<aged, upload, late, reading, purge, receipts, requeued>>
vars == <<stores, people, work, stops>>

-----------------------------------------------------------------------------
StorageStatus ==
  {"NONE", "PENDING_UPLOAD", "STORED", "DELETE_PENDING", "DELETED",
   "UPLOAD_FAILED", "EXPIRED"}
ScanStatus ==
  {"NOT_REQUIRED", "PENDING_SCAN", "CLEAN", "INFECTED", "SCAN_ERROR",
   "SCAN_SKIPPED_BY_ADMIN"}
JobStatus ==
  {"NONE", "PENDING", "RETRY", "PROCESSING", "DELIVERED", "DEAD_LETTER"}

\* A row, where deadline is delete_after, and the table's CHECKs on it.
Attachment ==
  {a \in [storage : StorageStatus, scan : ScanStatus, attempts : 0 .. MaxClaims,
          deleted : BOOLEAN, downloaded : BOOLEAN,
          deadline : {"NONE", "AHEAD", "PASSED"}] :
     /\ a.scan # "NOT_REQUIRED" =>
          a.storage \in {"STORED", "DELETE_PENDING", "DELETED", "EXPIRED"}
     /\ a.deleted => a.storage \in {"DELETE_PENDING", "DELETED"}}

Job == [status : JobStatus, attempts : 0 .. MaxClaims]

ScanSteps == {"START", "BURY", "SCAN", "COMMIT", "REMOVE", "MARK"}

\* A worker scans (ScanSteps), ends an abandoned file (ERASE, ERASED) or
\* sweeps: it removes the bytes of the files it has chosen (SWEEP), each
\* followed by the update of its row (EXPIRE).
Task ==
  [step : {"IDLE", "ERASE", "ERASED", "SWEEP", "EXPIRE"} \cup ScanSteps,
   file : Files \cup {NoFile}, attempt : 0 .. MaxClaims,
   outcome : {"NONE", "CLEAN", "INFECTED", "ERROR", "MISSING", "UNREACHABLE"},
   chosen : SUBSET Files]

Resting == [step |-> "IDLE", file |-> NoFile, attempt |-> 0,
            outcome |-> "NONE", chosen |-> {}]

\* The rows satisfy the table's CHECKs, so no statement is aborted by them,
\* and jobs and processes are well formed.
TypeOK ==
  /\ row \in [Files -> Attachment]
  /\ job \in [Files -> Job]
  /\ work \in [Workers -> Task]
  /\ upload \in [Files -> {"NONE", "PUT", "FINALIZE", "MARK", "DONE"}]
  /\ purge \in [Files -> {"NONE", "REMOVE", "MARK"}]
  /\ \A s \in {aged, object, late, reading, receipts} : s \subseteq Files
  /\ requeued \in [Files -> 0 .. MaxRequeues]
  /\ stops \in 0 .. MaxStops

Init ==
  /\ row = [f \in Files |->
       [storage |-> "NONE", scan |-> "NOT_REQUIRED", attempts |-> 0,
        deleted |-> FALSE, downloaded |-> FALSE, deadline |-> "NONE"]]
  /\ job = [f \in Files |-> [status |-> "NONE", attempts |-> 0]]
  /\ work = [w \in Workers |-> Resting]
  /\ upload = [f \in Files |-> "NONE"]
  /\ purge = [f \in Files |-> "NONE"]
  /\ aged = {} /\ object = {} /\ late = {} /\ reading = {} /\ receipts = {}
  /\ requeued = [f \in Files |-> 0]
  /\ stops = 0

\* Days go by: for a file nobody downloads, and for a deadline.
GrowOld(f) ==
  /\ row[f].storage # "NONE"
  /\ f \notin aged
  /\ aged' = aged \cup {f}
  /\ UNCHANGED <<stores, upload, late, reading, purge, receipts, requeued,
                 work, stops>>

DeadlinePasses(f) ==
  /\ row[f].deadline = "AHEAD"
  /\ row' = [row EXCEPT ![f].deadline = "PASSED"]
  /\ UNCHANGED <<job, object, people, work, stops>>

-----------------------------------------------------------------------------
(***************************************************************************)
(* UnifiedConversationAttachmentService.                                   *)
(***************************************************************************)
untouchedByUpload ==
  <<aged, reading, purge, receipts, requeued, work, stops>>

\* The files that count against the limit: reservations and expired files do,
\* failures do not.
Counted ==
  {f \in Files : /\ row[f].storage \notin {"NONE", "UPLOAD_FAILED"}
                 /\ ~row[f].deleted}

Reserve(f) ==
  /\ row[f].storage = "NONE"
  /\ Cardinality(Counted) < MaxFiles
  /\ row' = [row EXCEPT ![f].storage = "PENDING_UPLOAD"]
  /\ upload' = [upload EXCEPT ![f] = "PUT"]
  /\ UNCHANGED <<job, object, late, untouchedByUpload>>

PutSucceeds(f) ==
  /\ upload[f] = "PUT"
  /\ object' = object \cup {f}
  /\ upload' = [upload EXCEPT ![f] = "FINALIZE"]
  /\ UNCHANGED <<row, job, late, untouchedByUpload>>

\* An error, or a server that stops, does not say whether the bytes in flight
\* will be kept.
PutFails(f) ==
  /\ upload[f] = "PUT"
  /\ late' \in {late, late \cup {f}}
  /\ \E next \in {"MARK", "DONE"} : upload' = [upload EXCEPT ![f] = next]
  /\ UNCHANGED <<row, job, object, untouchedByUpload>>

LatePut(f) ==
  /\ f \in late
  /\ late' = late \ {f}
  /\ object' \in {object, object \cup {f}}
  /\ UNCHANGED <<row, job, upload, untouchedByUpload>>

Finalizes(f) == row[f].storage = "PENDING_UPLOAD"

\* The row is STORED and its scan is queued, or skipped while the administrator
\* has the scanner off.  If the answer of the commit is lost, the handler takes
\* the path of a failure.
Finalize(f) ==
  /\ upload[f] = "FINALIZE"
  /\ Finalizes(f)
  /\ \/ /\ row' = [row EXCEPT ![f].storage = "STORED", ![f].scan = "PENDING_SCAN"]
        /\ job' = [job EXCEPT ![f].status = "PENDING"]
     \/ /\ row' = [row EXCEPT ![f].storage = "STORED",
                              ![f].scan = "SCAN_SKIPPED_BY_ADMIN"]
        /\ UNCHANGED job
  /\ \E next \in {"DONE", "MARK"} : upload' = [upload EXCEPT ![f] = next]
  /\ UNCHANGED <<object, late, untouchedByUpload>>

\* The guard or the database refuses, or the server stops.
FinalizeFails(f) ==
  /\ upload[f] = "FINALIZE"
  /\ \E next \in {"MARK", "DONE"} : upload' = [upload EXCEPT ![f] = next]
  /\ UNCHANGED <<row, job, object, late, untouchedByUpload>>

\* Only a row that is still reserved is marked.
markUploadFailed(f) ==
  row' = IF row[f].storage = "PENDING_UPLOAD"
         THEN [row EXCEPT ![f].storage = "UPLOAD_FAILED"]
         ELSE row

\* Errors of the marking itself are swallowed.
Mark(f) ==
  /\ upload[f] = "MARK"
  /\ upload' = [upload EXCEPT ![f] = "DONE"]
  /\ markUploadFailed(f) \/ UNCHANGED row
  /\ UNCHANGED <<job, object, late, untouchedByUpload>>

untouchedByReader ==
  <<job, object, aged, upload, late, purge, receipts, requeued, work, stops>>

\* openAuthorizedAttachment: the row was read, and the object is opened.
Open(f) ==
  /\ row[f].storage = "STORED"
  /\ row[f].scan \in {"CLEAN", "SCAN_SKIPPED_BY_ADMIN"}
  /\ f \in object
  /\ f \notin reading
  /\ reading' = reading \cup {f}
  /\ UNCHANGED <<row, untouchedByReader>>

\* recordRecipientDownload starts the file's last days, unless it is gone by
\* then; a failure is only logged.
recordRecipientDownload(f) ==
  /\ f \in reading
  /\ reading' = reading \ {f}
  /\ \/ /\ row[f].storage = "STORED"
        /\ row' = [row EXCEPT ![f].downloaded = TRUE, ![f].deadline = "AHEAD"]
     \/ UNCHANGED row
  /\ UNCHANGED untouchedByReader

\* submitPaymentReceipt refers to a file that is STORED, scanned or not.
submitPaymentReceipt(f) ==
  /\ row[f].storage = "STORED"
  /\ receipts' = receipts \cup {f}
  /\ UNCHANGED <<stores, aged, upload, late, reading, purge, requeued, work,
                 stops>>

-----------------------------------------------------------------------------
(***************************************************************************)
(* The administrator: StorageAdminService and OutboxMonitorService.        *)
(***************************************************************************)
untouchedByAdmin ==
  <<aged, upload, late, reading, receipts, work, stops>>

extendRetention(f) ==
  /\ row[f].storage = "STORED"
  /\ row' = [row EXCEPT ![f].deadline = "AHEAD"]
  /\ UNCHANGED <<job, object, purge, requeued, untouchedByAdmin>>

\* purgeNow reads the row, removes the object and updates the row.
purgeNow(f) ==
  /\ purge[f] = "NONE"
  /\ row[f].storage = "STORED"
  /\ purge' = [purge EXCEPT ![f] = "REMOVE"]
  /\ UNCHANGED <<stores, requeued, untouchedByAdmin>>

\* A failure of the store is swallowed.
PurgeObject(f) ==
  /\ purge[f] = "REMOVE"
  /\ object' \in {object, object \ {f}}
  /\ purge' = [purge EXCEPT ![f] = "MARK"]
  /\ UNCHANGED <<row, job, requeued, untouchedByAdmin>>

\* The row expires whatever it has become.
Expires_AnyStatus(f) == row' = [row EXCEPT ![f].storage = "EXPIRED"]

\* Only a row that is still stored expires.
Expires(f) ==
  row' = IF row[f].storage = "STORED"
         THEN [row EXCEPT ![f].storage = "EXPIRED"]
         ELSE row

PurgeRow(f) ==
  /\ purge[f] = "MARK"
  /\ Expires(f)
  /\ purge' = [purge EXCEPT ![f] = "NONE"]
  /\ UNCHANGED <<job, object, requeued, untouchedByAdmin>>

\* The web server stops, or the database fails.
PurgeStops(f) ==
  /\ purge[f] # "NONE"
  /\ purge' = [purge EXCEPT ![f] = "NONE"]
  /\ UNCHANGED <<stores, requeued, untouchedByAdmin>>

\* OutboxMonitorService.retryEvent: the attempts of the job start over, those
\* of the row do not.
retryEvent(f) ==
  /\ job[f].status \in {"DEAD_LETTER", "RETRY"}
  /\ requeued[f] < MaxRequeues
  /\ job' = [job EXCEPT ![f] = [status |-> "PENDING", attempts |-> 0]]
  /\ requeued' = [requeued EXCEPT ![f] = @ + 1]
  /\ UNCHANGED <<row, object, purge, untouchedByAdmin>>

-----------------------------------------------------------------------------
(***************************************************************************)
(* A worker: UnifiedAttachmentScanProcessor.  The job's attempt number is  *)
(* the fencing token of the worker that claimed it.                        *)
(***************************************************************************)
Goto(w, task) == work' = [work EXCEPT ![w] = task]
Rest(w) == Goto(w, Resting)

\* No live worker still works on the job: its lease may run out.  Where a
\* lease does not outlive a scan, it may run out at any time.
LeaseOver(f) ==
  \/ ~LeaseOutlives
  \/ \A w \in Workers : ~(work[w].file = f /\ work[w].step \in ScanSteps)

\* A job whose worker is gone is nobody's.
Claimable_Fresh(f) == job[f].status \in {"PENDING", "RETRY"}

Claimable(f) ==
  \/ job[f].status \in {"PENDING", "RETRY"}
  \/ job[f].status = "PROCESSING" /\ LeaseOver(f)

claim(w, f) ==
  /\ work[w].step = "IDLE"
  /\ Claimable(f)
  /\ job[f].attempts < MaxClaims
  /\ job' = [job EXCEPT ![f].status = "PROCESSING", ![f].attempts = @ + 1]
  /\ Goto(w, [Resting EXCEPT !.step = "START", !.file = f,
                             !.attempt = job[f].attempts + 1])
  /\ UNCHANGED <<row, object, people, stops>>

\* The job is still this worker's.
Held(w) ==
  LET j == job[work[w].file] IN
  j.status = "PROCESSING" /\ j.attempts = work[w].attempt

Awaiting(f) ==
  /\ ~row[f].deleted
  /\ row[f].storage = "STORED"
  /\ row[f].scan \in {"PENDING_SCAN", "SCAN_ERROR"}

\* An attempt may begin again with the number of one that has begun.
Newer_OrSame(w) == row[work[w].file].attempts <= work[w].attempt

Newer(w) == row[work[w].file].attempts < work[w].attempt

\* A stale claim is dropped, a file that cannot be scanned has its job buried,
\* and otherwise the attempt is written to the row.
start(w) ==
  LET t == work[w] IN
  /\ t.step = "START"
  /\ \/ /\ Held(w) /\ Awaiting(t.file) /\ Newer(w)
        /\ row' = [row EXCEPT ![t.file].attempts = t.attempt]
        /\ Goto(w, [t EXCEPT !.step = "SCAN"])
     \/ /\ Held(w) /\ ~Awaiting(t.file)
        /\ Goto(w, [t EXCEPT !.step = "BURY"])
        /\ UNCHANGED row
     \/ /\ ~Held(w) \/ (Awaiting(t.file) /\ ~Newer(w))
        /\ Rest(w)
        /\ UNCHANGED row
  /\ UNCHANGED <<job, object, people, stops>>

deadLetter(w) ==
  /\ work[w].step = "BURY"
  /\ job' = IF Held(w) THEN [job EXCEPT ![work[w].file].status = "DEAD_LETTER"]
            ELSE job
  /\ Rest(w)
  /\ UNCHANGED <<row, object, people, stops>>

\* The object is looked up, opened and read by the scanner, whose verdict is
\* whatever its signatures of the day say.
scan(w) ==
  LET t == work[w] IN
  /\ t.step = "SCAN"
  /\ \E outcome \in {"UNREACHABLE"} \cup
          IF t.file \in object THEN {"CLEAN", "INFECTED", "ERROR"}
                             ELSE {"MISSING"} :
       Goto(w, [t EXCEPT !.step = "COMMIT", !.outcome = outcome])
  /\ UNCHANGED <<stores, people, stops>>

\* The row still waits for the verdict of this attempt.
Expects(w) ==
  Awaiting(work[w].file) /\ row[work[w].file].attempts = work[w].attempt

GivesUp(w) == work[w].attempt >= MaxAttempts

\* finish: nothing unless the job is still held, and the job is buried when
\* the row no longer waits for this attempt.  The bytes of an infected file are
\* removed if its verdict was applied.
finish(w) ==
  LET t == work[w]
      verdict == IF t.outcome \in {"CLEAN", "INFECTED"} THEN t.outcome
                 ELSE "SCAN_ERROR"
      infected == verdict = "INFECTED"
  IN
  /\ t.step = "COMMIT"
  /\ \/ t.outcome \in {"CLEAN", "INFECTED"}
     \/ t.outcome \in {"ERROR", "MISSING"} /\ GivesUp(w)
  /\ \/ /\ ~Held(w)
        /\ Rest(w)
        /\ UNCHANGED <<row, job>>
     \/ /\ Held(w) /\ ~Expects(w)
        /\ job' = [job EXCEPT ![t.file].status = "DEAD_LETTER"]
        /\ Rest(w)
        /\ UNCHANGED row
     \/ /\ Held(w) /\ Expects(w)
        /\ row' = [row EXCEPT
             ![t.file].scan = verdict,
             ![t.file].storage = IF infected THEN "DELETE_PENDING" ELSE "STORED"]
        /\ job' = [job EXCEPT ![t.file].status =
             IF verdict = "SCAN_ERROR" THEN "DEAD_LETTER" ELSE "DELIVERED"]
        /\ IF infected THEN Goto(w, [t EXCEPT !.step = "REMOVE"]) ELSE Rest(w)
  /\ UNCHANGED <<object, people, stops>>

\* The failed attempt is written to the row that expects it without a look at
\* the job, and then to the job if that is still held; a row that does not
\* expect it leaves the job to its lease.
Reschedule(w, attempts) ==
  LET f == work[w].file IN
  /\ row' = IF Expects(w)
            THEN [row EXCEPT ![f].scan = "PENDING_SCAN", ![f].attempts = attempts]
            ELSE row
  /\ job' = IF Expects(w) /\ Held(w)
            THEN [job EXCEPT ![f] = [status |-> "RETRY", attempts |-> attempts]]
            ELSE job

retryOrFail(w) ==
  /\ work[w].step = "COMMIT"
  /\ work[w].outcome \in {"ERROR", "MISSING"}
  /\ ~GivesUp(w)
  /\ Reschedule(w, work[w].attempt)
  /\ Rest(w)
  /\ UNCHANGED <<object, people, stops>>

\* The store cannot be reached: the attempt is given back.
deferStorage(w) ==
  /\ work[w].step = "COMMIT"
  /\ work[w].outcome = "UNREACHABLE"
  /\ Reschedule(w, work[w].attempt - 1)
  /\ Rest(w)
  /\ UNCHANGED <<object, people, stops>>

RemoveInfected(w) ==
  /\ work[w].step = "REMOVE"
  /\ object' = object \ {work[w].file}
  /\ Goto(w, [work[w] EXCEPT !.step = "MARK"])
  /\ UNCHANGED <<row, job, people, stops>>

MarkInfected(w) ==
  LET f == work[w].file IN
  /\ work[w].step = "MARK"
  /\ row' = IF /\ row[f].storage = "DELETE_PENDING"
               /\ row[f].scan = "INFECTED"
               /\ row[f].attempts = work[w].attempt
            THEN [row EXCEPT ![f].storage = "DELETED"]
            ELSE row
  /\ Rest(w)
  /\ UNCHANGED <<job, object, people, stops>>

-----------------------------------------------------------------------------
(***************************************************************************)
(* A worker: UnifiedAttachmentStorageReconciler.                           *)
(***************************************************************************)

\* The ages are not waited for.
Settled_Never(f) == TRUE

\* The minimum ages stand for this: nothing is in flight to the store.  An
\* operation of the store is cut off after at most 30 minutes, a reservation
\* is claimed after an hour; a marked failure waits another five minutes.
Settled(f) == upload[f] # "PUT" /\ f \notin late

\* Only uploads are ended, withdrawals are left to those who began them.
Abandoned_Uploads(f) == row[f].storage \in {"PENDING_UPLOAD", "UPLOAD_FAILED"}

Abandoned(f) ==
  row[f].storage \in {"PENDING_UPLOAD", "UPLOAD_FAILED", "DELETE_PENDING"}

\* An infected file keeps its deleted_at, so that it stays visible.
Reconcile(w, f) ==
  /\ work[w].step = "IDLE"
  /\ Abandoned(f)
  /\ Settled(f)
  /\ row' = [row EXCEPT ![f].storage = "DELETE_PENDING",
                        ![f].deleted = @ \/ row[f].scan # "INFECTED"]
  /\ Goto(w, [Resting EXCEPT !.step = "ERASE", !.file = f])
  /\ UNCHANGED <<job, object, people, stops>>

\* An object that is absent already is a success; any other failure leaves
\* DELETE_PENDING for the next pass.
Erase(w) ==
  /\ work[w].step = "ERASE"
  /\ object' = object \ {work[w].file}
  /\ Goto(w, [work[w] EXCEPT !.step = "ERASED"])
  /\ UNCHANGED <<row, job, people, stops>>

EraseFails(w) ==
  /\ work[w].step \in {"ERASE", "REMOVE"}
  /\ Rest(w)
  /\ UNCHANGED <<stores, people, stops>>

MarkErased(w) ==
  LET f == work[w].file IN
  /\ work[w].step = "ERASED"
  /\ row' = IF row[f].storage = "DELETE_PENDING"
            THEN [row EXCEPT ![f].storage = "DELETED"]
            ELSE row
  /\ Rest(w)
  /\ UNCHANGED <<job, object, people, stops>>

-----------------------------------------------------------------------------
(***************************************************************************)
(* A worker: UnifiedAttachmentRetentionSweeper.                            *)
(***************************************************************************)

\* Only the files nobody downloaded are swept.
Due_Undownloaded(f) ==
  /\ row[f].storage = "STORED"
  /\ f \notin receipts
  /\ ~row[f].downloaded /\ row[f].deadline = "NONE" /\ f \in aged

Due(f) ==
  /\ row[f].storage = "STORED" /\ ~row[f].deleted
  /\ f \notin receipts
  /\ \/ ~row[f].downloaded /\ row[f].deadline = "NONE" /\ f \in aged
     \/ row[f].deadline = "PASSED"

\* The files to sweep are read without a lock.
Sweep(w) ==
  LET chosen == {f \in Files : Due(f)} IN
  /\ work[w].step = "IDLE"
  /\ chosen # {}
  /\ Goto(w, [Resting EXCEPT !.step = "SWEEP", !.chosen = chosen])
  /\ UNCHANGED <<stores, people, stops>>

\* A failure of the store is swallowed.
SweepObject(w, f) ==
  /\ work[w].step = "SWEEP"
  /\ f \in work[w].chosen
  /\ object' \in {object, object \ {f}}
  /\ Goto(w, [work[w] EXCEPT !.step = "EXPIRE", !.file = f, !.chosen = @ \ {f}])
  /\ UNCHANGED <<row, job, people, stops>>

SweepRow(w) ==
  LET t == work[w] IN
  /\ t.step = "EXPIRE"
  /\ Expires(t.file)
  /\ IF t.chosen = {} THEN Rest(w)
     ELSE Goto(w, [t EXCEPT !.step = "SWEEP", !.file = NoFile])
  /\ UNCHANGED <<job, object, people, stops>>

\* The worker stops, or a statement of it throws: a job keeps its lease until
\* that runs out, and the rest of a sweep is dropped.
WorkerStops(w) ==
  /\ work[w].step # "IDLE"
  /\ stops < MaxStops
  /\ stops' = stops + 1
  /\ Rest(w)
  /\ UNCHANGED <<stores, people>>

-----------------------------------------------------------------------------
\* What the handler of an upload does next.
UploadStep(f) ==
  \/ PutSucceeds(f) \/ PutFails(f)
  \/ Finalize(f) \/ FinalizeFails(f)
  \/ Mark(f)

Person(f) ==
  \/ Reserve(f) \/ UploadStep(f) \/ LatePut(f)
  \/ Open(f) \/ recordRecipientDownload(f)
  \/ submitPaymentReceipt(f)
  \/ extendRetention(f) \/ retryEvent(f)
  \/ purgeNow(f) \/ PurgeObject(f) \/ PurgeRow(f) \/ PurgeStops(f)

\* What a worker in the middle of something does next.
Step(w) ==
  \/ start(w) \/ deadLetter(w) \/ scan(w)
  \/ finish(w) \/ retryOrFail(w) \/ deferStorage(w)
  \/ RemoveInfected(w) \/ MarkInfected(w)
  \/ Erase(w) \/ EraseFails(w) \/ MarkErased(w)
  \/ \E f \in Files : SweepObject(w, f)
  \/ SweepRow(w)

Next ==
  \/ \E f \in Files : GrowOld(f) \/ DeadlinePasses(f) \/ Person(f)
  \/ \E w \in Workers :
       \/ \E f \in Files : claim(w, f) \/ Reconcile(w, f)
       \/ Sweep(w) \/ Step(w) \/ WorkerStops(w)

Spec == Init /\ [][Next]_vars

\* The loop of a worker comes to each of its processors again and again, and
\* its supervisor restarts it; the object store, asked over and over, sometimes
\* answers.
Reached(w) == scan(w) /\ work'[w].outcome # "UNREACHABLE"

Fairness ==
  /\ \A w \in Workers :
       /\ WF_vars(Step(w)) /\ SF_vars(Reached(w))
       /\ SF_vars(Erase(w)) /\ SF_vars(Sweep(w))
       /\ \A f \in Files : SF_vars(claim(w, f)) /\ SF_vars(Reconcile(w, f))
  /\ \A f \in Files : WF_vars(LatePut(f)) /\ WF_vars(UploadStep(f))

FairSpec == Spec /\ Fairness

-----------------------------------------------------------------------------
(***************************************************************************)
(* Properties.                                                             *)
(***************************************************************************)

\* DELETED is said only of a file whose bytes are gone for good: no PUT that
\* was still under way can bring them back.
DeletedLeavesNoBytes ==
  \A f \in Files : row[f].storage = "DELETED" => f \notin object \cup late

\* What has expired or was withdrawn stays so: no verdict, late failure,
\* download, extension or sweep that was already under way brings it back or
\* gives it another end.
GoneStaysGone ==
  [][\A f \in Files :
       /\ row[f].storage = "EXPIRED" => row'[f].storage = "EXPIRED"
       /\ row[f].storage \in {"DELETE_PENDING", "DELETED"} =>
            row'[f].storage \in {"DELETE_PENDING", "DELETED"}]_vars

\* Leases run out under slow workers and failures are written without a look
\* at the job: still no two workers could commit an outcome for one file.
OneScanCanCommit ==
  \A f \in Files : Cardinality({w \in Workers :
    /\ work[w].file = f
    /\ work[w].step \in {"SCAN", "COMMIT"}
    /\ Held(w) /\ Expects(w)}) <= 1

\* A file that waits for its scan has a job some worker will still claim; an
\* administrator's requeue aside, which starts the fencing numbers over.
ScanNotStranded ==
  \A f \in Files :
    /\ row[f].storage = "STORED"
    /\ row[f].scan = "PENDING_SCAN"
    /\ requeued[f] = 0
    => job[f].status \in {"PENDING", "RETRY", "PROCESSING"}

\* Types, and the two together: every scan that is due has a worker to come,
\* and never two that could end it.
ScansInv == TypeOK /\ ScanNotStranded /\ OneScanCanCommit

\* A scan job ends, though its file may expire or be withdrawn while it is
\* scanned, and the failure of such a scan says nothing to the job.
JobEnds ==
  \A f \in Files :
    job[f].status \in {"PENDING", "RETRY", "PROCESSING"}
      ~> job[f].status \in {"DELIVERED", "DEAD_LETTER"}

\* The bytes of an infected file do not stay, through stops of the worker and
\* failures of the store.
InfectedIsErased ==
  \A f \in Files :
    row[f].scan = "INFECTED" ~> row[f].storage = "DELETED" /\ f \notin object

\* A file whose deadline has passed is purged, unless it becomes a receipt or
\* is given more time.
DueIsPurged ==
  \A f \in Files :
    row[f].storage = "STORED" /\ row[f].deadline = "PASSED"
      ~> \/ row[f].storage # "STORED"
         \/ f \in receipts
         \/ row[f].deadline = "AHEAD"

-----------------------------------------------------------------------------
(***************************************************************************)
(* What a comment says, against the code.                                  *)
(***************************************************************************)

\* "Payment-receipt attachments are financial records and are never swept."
ReceiptsNeverSwept ==
  [][\A w \in Workers, f \in Files :
       work[w].step = "EXPIRE" /\ work[w].file = f /\ row'[f] # row[f]
         => f \notin receipts]_vars
=============================================================================
