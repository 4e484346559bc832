---------------------------- MODULE Attachments ----------------------------
(***************************************************************************)
(* The files of a request: their rows and scan jobs in PostgreSQL, their   *)
(* bytes in the object store, and the processes that work on both without  *)
(* a transaction around them: uploads and deletions                        *)
(* (RequestAttachmentService), scan workers (AttachmentScanProcessor), the *)
(* reconciler of abandoned objects (AttachmentStorageReconciler) and the   *)
(* administrator who requeues a job (OutboxMonitorService).                *)
(*                                                                         *)
(* Each transaction, each call of the object store and each scan is one    *)
(* action.  A process that stops, or whose next statement fails, leaves    *)
(* what it has done.  The version check of the request is in               *)
(* ServiceRequests; here a call may be refused at any time.                *)
(*                                                                         *)
(* Variants whose name has a suffix after an underscore are mistakes for   *)
(* the runs to catch; no action uses them.                                 *)
(***************************************************************************)
EXTENDS Naturals, FiniteSets

CONSTANTS
  Files,         \* attachment ids; each names its object's key too
  Workers,       \* scan workers: the worker process and the manual CLI
  MaxFiles,      \* files a request may hold
  MaxAttempts,   \* scans a job may fail before it is given up
  MaxClaims,     \* bound: the highest attempt number of a job
  MaxRequeues,   \* bound: times an administrator requeues a job
  MaxTroubles    \* bound: workers that stop, and leases they outlive

ASSUME BoundsAssumption ==
  /\ MaxFiles \in Nat \ {0} /\ MaxAttempts \in Nat \ {0}
  /\ MaxClaims \in Nat /\ MaxRequeues \in Nat /\ MaxTroubles \in Nat

CONSTANT NoFile
ASSUME NoFileAssumption == NoFile \notin Files

VARIABLES
  open,      \* whether the request is in a status that takes files
  row,       \* service_request_attachments
  job,       \* the outbox event ATTACHMENT_SCAN_REQUESTED of each file
  object,    \* the files whose bytes the object store holds
  upload,    \* the step each upload is at
  late,      \* files whose PUT was given up but may still take effect
  erase,     \* the step of each removal, by the process that makes it
  work,      \* the job each worker holds
  requeued,  \* times each job was requeued
  troubles   \* times a worker stopped or outlived its lease

vars == <<open, row, job, object, upload, late, erase, work, requeued, troubles>>

-----------------------------------------------------------------------------
StorageStatus ==
  {"NONE", "PENDING_UPLOAD", "STORED", "DELETE_PENDING", "DELETED",
   "UPLOAD_FAILED"}
ScanStatus ==
  {"NOT_REQUIRED", "PENDING_SCAN", "CLEAN", "INFECTED", "SCAN_ERROR",
   "SCAN_SKIPPED_BY_ADMIN"}
JobStatus ==
  {"NONE", "PENDING", "RETRY", "PROCESSING", "DELIVERED", "DEAD_LETTER"}

\* A row and the table's CHECKs on it.
Attachment ==
  {a \in [storage : StorageStatus, scan : ScanStatus, attempts : 0 .. MaxClaims,
          deleted : BOOLEAN] :
     /\ a.scan # "NOT_REQUIRED" =>
          a.storage \in {"STORED", "DELETE_PENDING", "DELETED"}
     /\ a.deleted => a.storage \in {"DELETE_PENDING", "DELETED"}}

Job == [status : JobStatus, attempts : 0 .. MaxClaims]

\* What a worker holds on to: its job, the attempt it claimed and, once it has
\* scanned, the outcome.
Task ==
  [step : {"IDLE", "START", "BURY", "SCAN", "COMMIT", "REMOVE", "MARK"},
   file : Files \cup {NoFile}, attempt : 0 .. MaxClaims,
   outcome : {"NONE", "CLEAN", "INFECTED", "ERROR", "MISSING", "UNREACHABLE"}]

Resting == [step |-> "IDLE", file |-> NoFile, attempt |-> 0, outcome |-> "NONE"]

\* The rows satisfy the table's CHECKs, so no statement is aborted by them,
\* and jobs and processes are well formed.
TypeOK ==
  /\ open \in BOOLEAN
  /\ row \in [Files -> Attachment]
  /\ job \in [Files -> Job]
  /\ object \subseteq Files
  /\ upload \in [Files -> {"NONE", "PUT", "FINALIZE", "MARK", "DONE"}]
  /\ late \subseteq Files
  /\ erase \in [{"DELETE", "RECONCILE"} -> [Files -> {"NONE", "REMOVE", "MARK"}]]
  /\ work \in [Workers -> Task]
  /\ requeued \in [Files -> 0 .. MaxRequeues]
  /\ troubles \in 0 .. MaxTroubles

Init ==
  /\ open = TRUE
  /\ row = [f \in Files |-> [storage |-> "NONE", scan |-> "NOT_REQUIRED",
                             attempts |-> 0, deleted |-> FALSE]]
  /\ job = [f \in Files |-> [status |-> "NONE", attempts |-> 0]]
  /\ object = {}
  /\ upload = [f \in Files |-> "NONE"]
  /\ late = {}
  /\ erase = [p \in {"DELETE", "RECONCILE"} |-> [f \in Files |-> "NONE"]]
  /\ work = [w \in Workers |-> Resting]
  /\ requeued = [f \in Files |-> 0]
  /\ troubles = 0

\* The request reaches a status without exits.
CloseRequest ==
  /\ open
  /\ open' = FALSE
  /\ UNCHANGED <<row, job, object, upload, late, erase, work, requeued, troubles>>

-----------------------------------------------------------------------------
(***************************************************************************)
(* RequestAttachmentService.                                               *)
(***************************************************************************)
untouchedByUpload == <<open, erase, work, requeued, troubles>>

\* Reservations of uploads in progress are not counted.
Counted_Stored == {f \in Files : row[f].storage = "STORED"}

\* The files that count against the limit: reservations do, failures do not.
Counted ==
  {f \in Files : /\ row[f].storage \notin {"NONE", "UPLOAD_FAILED"}
                 /\ ~row[f].deleted}

Reserve(f) ==
  /\ open
  /\ row[f].storage = "NONE"
  /\ Cardinality(Counted) < MaxFiles
  /\ row' = [row EXCEPT ![f].storage = "PENDING_UPLOAD"]
  /\ upload' = [upload EXCEPT ![f] = "PUT"]
  /\ UNCHANGED <<job, object, late, untouchedByUpload>>

PutSucceeds(f) ==
  /\ upload[f] = "PUT"
  /\ object' = object \cup {f}
  /\ upload' = [upload EXCEPT ![f] = "FINALIZE"]
  /\ UNCHANGED <<row, job, late, untouchedByUpload>>

\* An error from the store does not say whether the bytes will be kept.
PutFails(f) ==
  /\ upload[f] = "PUT"
  /\ late' \in {late, late \cup {f}}
  /\ upload' = [upload EXCEPT ![f] = "MARK"]
  /\ UNCHANGED <<row, job, object, untouchedByUpload>>

\* What was in flight arrives, or is lost.
LatePut(f) ==
  /\ f \in late
  /\ late' = late \ {f}
  /\ object' \in {object, object \cup {f}}
  /\ UNCHANGED <<row, job, upload, untouchedByUpload>>

\* The row is finalised whatever became of the reservation.
Finalizes_AnyStatus(f) == open

Finalizes(f) == open /\ row[f].storage = "PENDING_UPLOAD"

\* The row is STORED and its job is queued, or the scan is skipped while the
\* administrator has the scanner off.  The answer of the commit may be lost,
\* and the handler then takes the path of a failure.
Finalize(f) ==
  /\ upload[f] = "FINALIZE"
  /\ Finalizes(f)
  /\ \/ /\ row' = [row EXCEPT ![f].storage = "STORED", ![f].scan = "PENDING_SCAN"]
        /\ job' = [job EXCEPT ![f].status = "PENDING"]
     \/ /\ row' = [row EXCEPT ![f].storage = "STORED",
                              ![f].scan = "SCAN_SKIPPED_BY_ADMIN"]
        /\ UNCHANGED job
  /\ \E next \in {"DONE", "MARK"} : upload' = [upload EXCEPT ![f] = next]
  /\ UNCHANGED <<object, late, untouchedByUpload>>

\* A guard or the database refuses.
FinalizeFails(f) ==
  /\ upload[f] = "FINALIZE"
  /\ upload' = [upload EXCEPT ![f] = "MARK"]
  /\ UNCHANGED <<row, job, object, late, untouchedByUpload>>

\* Only a row that is still reserved is marked.
markUploadFailed(f) ==
  row' = IF row[f].storage = "PENDING_UPLOAD"
         THEN [row EXCEPT ![f].storage = "UPLOAD_FAILED"]
         ELSE row

\* Errors of the marking itself are swallowed.
Mark(f) ==
  /\ upload[f] = "MARK"
  /\ upload' = [upload EXCEPT ![f] = "DONE"]
  /\ markUploadFailed(f) \/ UNCHANGED row
  /\ UNCHANGED <<job, object, late, untouchedByUpload>>

\* The server stops; a PUT in flight may still take effect.
UploadCrash(f) ==
  /\ upload[f] \in {"PUT", "FINALIZE", "MARK"}
  /\ upload' = [upload EXCEPT ![f] = "DONE"]
  /\ late' \in IF upload[f] = "PUT" THEN {late, late \cup {f}} ELSE {late}
  /\ UNCHANGED <<row, job, object, untouchedByUpload>>

untouchedByErase == <<open, job, upload, late, work, requeued, troubles>>

\* A reservation may be deleted while its PUT is in flight.
Deletable_Reserved(f) == row[f].storage # "NONE" /\ ~row[f].deleted

Deletable(f) ==
  row[f].storage \notin {"NONE", "PENDING_UPLOAD"} /\ ~row[f].deleted

\* deleteAttachment hides the file, and then removes its bytes unless the
\* upload failed: those are left to the reconciler and its age fence.
deleteAttachment(f) ==
  /\ open
  /\ Deletable(f)
  /\ row' = [row EXCEPT ![f].storage = "DELETE_PENDING", ![f].deleted = TRUE]
  /\ erase' = IF row[f].storage = "UPLOAD_FAILED" THEN erase
              ELSE [erase EXCEPT !["DELETE"][f] = "REMOVE"]
  /\ UNCHANGED <<object, untouchedByErase>>

-----------------------------------------------------------------------------
(***************************************************************************)
(* AttachmentStorageReconciler, and the removal it shares with deletion.   *)
(***************************************************************************)

\* The minimum ages stand for this: nothing is in flight to the store.  An
\* operation of the store is cut off after at most 30 minutes, a reservation
\* is claimed after an hour; a marked failure waits another five minutes.
Settled(f) == upload[f] # "PUT" /\ f \notin late

\* A reservation is left to its upload.
Abandoned_Marked(f) == row[f].storage \in {"UPLOAD_FAILED", "DELETE_PENDING"}

Abandoned(f) ==
  row[f].storage \in {"PENDING_UPLOAD", "UPLOAD_FAILED", "DELETE_PENDING"}

\* An infected file keeps its deleted_at, so that it stays visible.
Reconcile(f) ==
  /\ Abandoned(f)
  /\ Settled(f)
  /\ erase["RECONCILE"][f] = "NONE"
  /\ row' = [row EXCEPT ![f].storage = "DELETE_PENDING",
                        ![f].deleted = @ \/ row[f].scan # "INFECTED"]
  /\ erase' = [erase EXCEPT !["RECONCILE"][f] = "REMOVE"]
  /\ UNCHANGED <<object, untouchedByErase>>

\* An object that is absent already is a success.
Remove(p, f) ==
  /\ erase[p][f] = "REMOVE"
  /\ object' = object \ {f}
  /\ erase' = [erase EXCEPT ![p][f] = "MARK"]
  /\ UNCHANGED <<row, untouchedByErase>>

MarkDeleted(p, f) ==
  /\ erase[p][f] = "MARK"
  /\ row' = IF row[f].storage = "DELETE_PENDING"
            THEN [row EXCEPT ![f].storage = "DELETED"]
            ELSE row
  /\ erase' = [erase EXCEPT ![p][f] = "NONE"]
  /\ UNCHANGED <<object, untouchedByErase>>

\* The store or the database fails, or the process stops: DELETE_PENDING
\* stays for the next pass.
EraseFails(p, f) ==
  /\ erase[p][f] # "NONE"
  /\ erase' = [erase EXCEPT ![p][f] = "NONE"]
  /\ UNCHANGED <<row, object, untouchedByErase>>

-----------------------------------------------------------------------------
(***************************************************************************)
(* AttachmentScanProcessor.  The job's attempt number is the fencing token *)
(* of the worker that claimed it.                                          *)
(***************************************************************************)
untouchedByScan == <<open, upload, late, erase, requeued>>

Goto(w, task) == work' = [work EXCEPT ![w] = task]
Rest(w) == Goto(w, Resting)

\* A job whose worker is gone is nobody's.
Claimable_Fresh(f) == job[f].status \in {"PENDING", "RETRY"}

\* A job that waits, or whose lease ran out.
Claimable(f) == job[f].status \in {"PENDING", "RETRY", "PROCESSING"}

\* The lease runs out under a live worker: it outlives most scans, not all.
\* (The lease of a worker that is gone runs out for certain.)
Overrun(f) ==
  job[f].status = "PROCESSING" /\ \E w \in Workers : work[w].file = f

claim(w, f) ==
  /\ work[w].step = "IDLE"
  /\ Claimable(f)
  /\ job[f].attempts < MaxClaims
  /\ IF Overrun(f) THEN troubles < MaxTroubles /\ troubles' = troubles + 1
     ELSE UNCHANGED troubles
  /\ job' = [job EXCEPT ![f].status = "PROCESSING", ![f].attempts = @ + 1]
  /\ Goto(w, [step |-> "START", file |-> f, attempt |-> job[f].attempts + 1,
              outcome |-> "NONE"])
  /\ UNCHANGED <<row, object, untouchedByScan>>

\* The job is still this worker's.
Held(w) ==
  LET j == job[work[w].file] IN
  j.status = "PROCESSING" /\ j.attempts = work[w].attempt

Awaiting(f) ==
  /\ ~row[f].deleted
  /\ row[f].storage = "STORED"
  /\ row[f].scan \in {"PENDING_SCAN", "SCAN_ERROR"}

\* An attempt may begin again with the number of one that has begun.
Newer_OrSame(w) == row[work[w].file].attempts <= work[w].attempt

Newer(w) == row[work[w].file].attempts < work[w].attempt

\* startScan: a stale claim is dropped, a file that cannot be scanned has its
\* job buried, and otherwise the attempt is written to the row.
startScan(w) ==
  LET t == work[w] IN
  /\ t.step = "START"
  /\ \/ /\ Held(w) /\ Awaiting(t.file) /\ Newer(w)
        /\ row' = [row EXCEPT ![t.file].attempts = t.attempt]
        /\ Goto(w, [t EXCEPT !.step = "SCAN"])
     \/ /\ Held(w) /\ ~Awaiting(t.file)
        /\ Goto(w, [t EXCEPT !.step = "BURY"])
        /\ UNCHANGED row
     \/ /\ ~Held(w) \/ (Awaiting(t.file) /\ ~Newer(w))
        /\ Rest(w)
        /\ UNCHANGED row
  /\ UNCHANGED <<job, object, troubles, untouchedByScan>>

deadLetter(w) ==
  /\ work[w].step = "BURY"
  /\ job' = IF Held(w) THEN [job EXCEPT ![work[w].file].status = "DEAD_LETTER"]
            ELSE job
  /\ Rest(w)
  /\ UNCHANGED <<row, object, troubles, untouchedByScan>>

\* The object is looked up, opened and read by the scanner, whose verdict is
\* whatever its signatures of the day say.
scan(w) ==
  LET t == work[w] IN
  /\ t.step = "SCAN"
  /\ \E outcome \in {"UNREACHABLE"} \cup
          IF t.file \in object THEN {"CLEAN", "INFECTED", "ERROR"}
                             ELSE {"MISSING"} :
       Goto(w, [t EXCEPT !.step = "COMMIT", !.outcome = outcome])
  /\ UNCHANGED <<row, job, object, troubles, untouchedByScan>>

\* The row still waits for the verdict of this attempt.
Expects(w) ==
  Awaiting(work[w].file) /\ row[work[w].file].attempts = work[w].attempt

\* The commit of an outcome: nothing unless the job is still held, and the
\* job is buried when the row no longer waits for this attempt.
Commit(w, attachment, entry) ==
  LET f == work[w].file IN
  IF ~Held(w) THEN UNCHANGED <<row, job>>
  ELSE IF ~Expects(w)
  THEN /\ job' = [job EXCEPT ![f].status = "DEAD_LETTER"]
       /\ UNCHANGED row
  ELSE /\ row' = [row EXCEPT ![f] = attachment]
       /\ job' = [job EXCEPT ![f] = entry]

\* complete and finishTerminal.  A clean file is delivered, an infected one
\* is withdrawn, and its bytes are removed if the verdict was applied.
complete(w) ==
  LET t == work[w]
      a == row[t.file]
  IN
  /\ t.step = "COMMIT"
  /\ t.outcome \in {"CLEAN", "INFECTED"}
  /\ Commit(w,
       [a EXCEPT !.scan = t.outcome,
                 !.storage = IF t.outcome = "INFECTED" THEN "DELETE_PENDING" ELSE @],
       [job[t.file] EXCEPT !.status = "DELIVERED"])
  /\ IF t.outcome = "INFECTED" /\ Held(w) /\ Expects(w)
     THEN Goto(w, [t EXCEPT !.step = "REMOVE"])
     ELSE Rest(w)
  /\ UNCHANGED <<object, troubles, untouchedByScan>>

GivesUp(w) == work[w].attempt >= MaxAttempts

retryOrFail(w) ==
  LET t == work[w]
      a == row[t.file]
  IN
  /\ t.step = "COMMIT"
  /\ t.outcome \in {"ERROR", "MISSING"}
  /\ IF GivesUp(w)
     THEN Commit(w, [a EXCEPT !.scan = "SCAN_ERROR"],
                 [job[t.file] EXCEPT !.status = "DEAD_LETTER"])
     ELSE Commit(w, [a EXCEPT !.scan = "PENDING_SCAN"],
                 [job[t.file] EXCEPT !.status = "RETRY"])
  /\ Rest(w)
  /\ UNCHANGED <<object, troubles, untouchedByScan>>

\* The store cannot be reached: the attempt is given back on both rows.  A
\* row that no longer expects it leaves the job to its lease.
deferDependencyUnavailable(w) ==
  LET t == work[w] IN
  /\ t.step = "COMMIT"
  /\ t.outcome = "UNREACHABLE"
  /\ IF Held(w) /\ Expects(w)
     THEN /\ row' = [row EXCEPT ![t.file].scan = "PENDING_SCAN",
                               ![t.file].attempts = t.attempt - 1]
          /\ job' = [job EXCEPT ![t.file] =
               [status |-> "RETRY", attempts |-> t.attempt - 1]]
     ELSE UNCHANGED <<row, job>>
  /\ Rest(w)
  /\ UNCHANGED <<object, troubles, untouchedByScan>>

RemoveInfected(w) ==
  /\ work[w].step = "REMOVE"
  /\ object' = object \ {work[w].file}
  /\ Goto(w, [work[w] EXCEPT !.step = "MARK"])
  /\ UNCHANGED <<row, job, troubles, untouchedByScan>>

MarkInfected(w) ==
  LET f == work[w].file IN
  /\ work[w].step = "MARK"
  /\ row' = IF /\ row[f].storage = "DELETE_PENDING"
               /\ row[f].scan = "INFECTED"
               /\ row[f].attempts = work[w].attempt
            THEN [row EXCEPT ![f].storage = "DELETED"]
            ELSE row
  /\ Rest(w)
  /\ UNCHANGED <<job, object, troubles, untouchedByScan>>

\* The worker stops, or a statement of the job throws: the job keeps its
\* lease until that runs out.
WorkerCrash(w) ==
  /\ work[w].step # "IDLE"
  /\ troubles < MaxTroubles
  /\ troubles' = troubles + 1
  /\ Rest(w)
  /\ UNCHANGED <<row, job, object, untouchedByScan>>

\* OutboxMonitorService.retryEvent: the attempts of the job start over, those
\* of the row do not.
retryEvent(f) ==
  /\ job[f].status \in {"DEAD_LETTER", "RETRY"}
  /\ requeued[f] < MaxRequeues
  /\ job' = [job EXCEPT ![f] = [status |-> "PENDING", attempts |-> 0]]
  /\ requeued' = [requeued EXCEPT ![f] = @ + 1]
  /\ UNCHANGED <<open, row, object, upload, late, erase, work, troubles>>

-----------------------------------------------------------------------------
\* What the handler of an upload does next.
UploadStep(f) ==
  \/ PutSucceeds(f) \/ PutFails(f)
  \/ Finalize(f) \/ FinalizeFails(f)
  \/ Mark(f)

Upload(f) == Reserve(f) \/ UploadStep(f) \/ LatePut(f) \/ UploadCrash(f)

Erasure(f) ==
  \/ deleteAttachment(f)
  \/ Reconcile(f)
  \/ \E p \in {"DELETE", "RECONCILE"} :
       Remove(p, f) \/ MarkDeleted(p, f) \/ EraseFails(p, f)

\* What a worker that runs does next.
Work(w) ==
  \/ \E f \in Files : claim(w, f)
  \/ startScan(w) \/ deadLetter(w) \/ scan(w)
  \/ complete(w) \/ retryOrFail(w) \/ deferDependencyUnavailable(w)
  \/ RemoveInfected(w) \/ MarkInfected(w)

Next ==
  \/ CloseRequest
  \/ \E f \in Files : Upload(f) \/ Erasure(f) \/ retryEvent(f)
  \/ \E w \in Workers : Work(w) \/ WorkerCrash(w)

Spec == Init /\ [][Next]_vars

\* The worker process polls forever, and its supervisor restarts it; the
\* object store, asked over and over, sometimes answers.
Reached(w) == scan(w) /\ work'[w].outcome # "UNREACHABLE"

Fairness ==
  /\ \A w \in Workers : WF_vars(Work(w)) /\ SF_vars(Reached(w))
  /\ \A f \in Files : /\ WF_vars(LatePut(f))
                       /\ WF_vars(UploadStep(f))
                       /\ WF_vars(Reconcile(f))
                       /\ SF_vars(Remove("RECONCILE", f))
                       /\ SF_vars(MarkDeleted("RECONCILE", f))

FairSpec == Spec /\ Fairness

-----------------------------------------------------------------------------
(***************************************************************************)
(* Properties.                                                             *)
(***************************************************************************)

\* The limit holds however reservations, uploads in flight, failures and
\* removals overlap.
CapacityHeld ==
  Cardinality({f \in Files :
    row[f].storage \in {"PENDING_UPLOAD", "STORED"} /\ ~row[f].deleted}) <= MaxFiles

\* DELETED is said only of a file whose bytes are gone for good: no PUT that
\* was still under way can bring them back.
DeletedLeavesNoBytes ==
  \A f \in Files : row[f].storage = "DELETED" => f \notin object \cup late

\* A file that waits for its scan has a job some worker will still claim; an
\* administrator's requeue aside, which starts the fencing numbers over.
ScanNotStranded ==
  \A f \in Files :
    /\ row[f].storage = "STORED"
    /\ row[f].scan = "PENDING_SCAN"
    /\ requeued[f] = 0
    => job[f].status \in {"PENDING", "RETRY", "PROCESSING"}

\* Leases run out under slow workers, attempts are given back and jobs are
\* requeued: still no two workers could commit an outcome for one file.
OneScanCanCommit ==
  \A f \in Files : Cardinality({w \in Workers :
    /\ work[w].file = f
    /\ work[w].step \in {"SCAN", "COMMIT"}
    /\ Held(w) /\ Expects(w)}) <= 1

\* Types, and the two together: every scan that is due has a worker to come,
\* and never two that could end it.
ScansInv == TypeOK /\ ScanNotStranded /\ OneScanCanCommit

\* Whatever the two stores and their processes do, a client sees the life
\* FileLifecycle promises: a file that is shown as stored has its bytes, a
\* lost answer, a stale scan or a late failure never takes it back, and what
\* was withdrawn stays withdrawn.
Phase(f) ==
  IF row[f].storage \in {"NONE", "PENDING_UPLOAD"} THEN "NEW"
  ELSE IF row[f].storage # "STORED" THEN "GONE"
  ELSE IF row[f].scan \in {"CLEAN", "SCAN_SKIPPED_BY_ADMIN"} THEN "READY"
  ELSE "WAITING"

Lifecycle ==
  INSTANCE FileLifecycle WITH
    File <- Files,
    phase <- [f \in Files |-> Phase(f)],
    bytes <- [f \in Files |-> f \in object]

ImplementsLifecycle == Lifecycle!Spec

\* A file does not wait for its scan forever, through crashes of workers,
\* leases that run out and outages of the store; an administrator's requeue
\* aside.
ScanEnds ==
  \A f \in Files :
    row[f].storage = "STORED" /\ row[f].scan = "PENDING_SCAN"
      ~> \/ row[f].scan # "PENDING_SCAN" \/ row[f].storage # "STORED"
         \/ requeued[f] > 0

\* No upload that was abandoned, refused or failed keeps its reservation or
\* its bytes.
ReservationEnds ==
  \A f \in Files :
    row[f].storage \in {"PENDING_UPLOAD", "UPLOAD_FAILED"}
      ~> row[f].storage \in {"STORED", "DELETED"}
=============================================================================
