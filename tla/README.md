# ITQANAK: a TLA+ development

ITQANAK is a service platform for students: a student drafts a request for a
service, attaches files, submits it, is offered a price, accepts it, and pays.
Administrators work on the requests, quote them, keep the dues and the ledger,
and talk to the student in one conversation. A Next.js application
(`apps/web`) serves both, a worker process (`apps/worker`) does what must not
wait for a page, PostgreSQL holds the state, an object store holds the bytes of
files, Redis the rate limits.

This directory holds TLA+ models of the parts whose correctness depends on the
order of things (several people acting on one row, operations made of several
transactions, work that a database and an object store share), the TLC
configurations that check them, and theorems proved with TLAPS.

Contents: [the system](#the-system), [hard behaviours](#what-is-hard-here),
[the modules](#the-modules), [runs](#the-runs), [fairness](#fairness),
[proofs](#the-proofs), [disagreements found](#where-documents-and-code-disagree),
[limits](#what-is-not-modelled), [plan](#plan).

## The system

Paths are relative to the repository. "State" is what the component keeps
between two calls.

| Component | State | Operations | Correct when |
|---|---|---|---|
| Request state machine, `packages/core/src/request-state.ts` | none: a matrix of statuses and actors | `canTransitionRequest` | every change of status anywhere is one of its rows |
| Requests, `packages/requests/src/service.ts`, `admin-service.ts` | `service_requests`, `service_request_events`, `service_request_assignments`, `request_submission_keys` | create, edit, submit, cancel, generic transitions, assign, archive, restore | the history explains the row; nobody overwrites what they have not seen; a submitted request has its submission on record |
| Quotes, `quote-service.ts` | `service_quotes`, `service_quote_finance_dues` | create, accept, reject, expire, withdraw | one offer is open at a time; an accepted quote is billed once, nothing else is; a closed request stays closed |
| Finance, `packages/finance/src/service.ts` | `finance_dues`, `finance_ledger_entries`, `finance_payment_submissions` | create, pay, reverse, void a due; submit and review a receipt; settle an invoice; split a payment; replace an amount | ledger and projection agree at every moment; no due is collected twice; a debt is not lost when an operation stops half-way |
| Request attachments, `attachments.ts`, `scan-processor.ts`, `reconciliation.ts` | `service_request_attachments`, `outbox_events` of type `ATTACHMENT_SCAN_REQUESTED`, objects in the store | reserve, PUT, finalise, delete; claim, scan, commit, retry, defer; reconcile | a file shown as stored has its bytes; removed bytes stay removed; one scan at a time can commit; no file waits for ever |
| Conversation attachments, `unified-attachments.ts`, `unified-attachment-*.ts`, `storage-admin.ts` | `unified_conversation_attachments`, objects in the store | as above, with expiry, purge and extension of the retention | a receipt keeps its image; what has expired leaves no bytes |
| Conversation, `unified-conversation-service.ts`, `chat-service.ts`, `support-service.ts`, `group-channel-service.ts`, and its page `unified-chat-workspace.tsx` | `support_conversations`, `support_messages`, `support_message_revisions`, sessions, pins, reactions, read marks; in the browser the messages shown, the entries not yet confirmed, the cursor, and a copy on the device | send, edit, delete, list, poll, react, pin, mark read, close a session | a message sent again is there once; what is deleted stays so; the page comes to show what the database holds |
| Notifications, `apps/worker/src/whatsapp.ts`, `web-push.ts` | `outbox_events`, `push_subscriptions`, receipts | claim, send, record, retry, give up | what was queued reaches someone or is given up; it is repeated only when nobody could tell; an end is final |
| Mails of accounts, `packages/auth/src/auth-email.ts` | `auth_email_outbox` | queue, take back, claim, check, send, record | the mail of a link that works is not lost; a mail is repeated only when nobody could tell that it went out |
| Identity, `packages/auth/src/service.ts` | users, credentials, sessions, roles, verification and reset links, recoveries by telephone | register, verify, log in, change, reset, recover, suspend, grant, revoke | a link works once; a session that lives was opened under what holds now |
| Operations, `packages/operations/src` | `platform_operational_settings`, retention settings | pause, maintenance, requeue an event, sweep | a requeued event is attempted |
| Worker, `apps/worker/src/index.ts` | heartbeat | one loop over all processors | each processor is reached again and again |
| Catalog and content, `packages/catalog`, `packages/content` | versioned rows | create, edit, publish | no lost update |
| Migrations, `packages/db/src/migrations.ts` | `schema_migrations` and an advisory lock | apply, verify | each file once, in order |
| Storage, `packages/storage` | objects | PUT, open, remove, scan | a removal is idempotent; an operation is cut off |
| Web, `apps/web` | spool budget and stream subscriptions, per process | routes | the budget is given back once |

How they interact. Web routes call one operation of a service each. The
services share the database: `respondToQuote` writes the request, its history,
the quote and a finance due in one transaction; attachments advance the version
of their request; finalising an upload queues a scan job in `outbox_events`,
which the worker claims; the monitoring page requeues such jobs. The object
store takes part in no transaction. Clients send the version they last read
(optimistic concurrency); the services lock the row (`FOR UPDATE`) and compare.

## What is hard here

* **Stale clients.** Eleven operations write a request; each compares the
  caller's version with the locked row, the answer to a quote compares the
  quote's status instead.
* **Paths that meet.** A quote may be answered, withdrawn, lapse, or be overtaken
  by a cancellation of its request; billing is decided in one of these paths.
* **Operations without a transaction around them.** Reviewing a receipt,
  settling an invoice, splitting a payment and replacing an amount run two or
  more transactions after each other on values read without a lock.
* **What is read before a transaction.** A login compares the password first and
  opens the session later; a reset looks at its link, then locks the account; a
  mail is checked, handed over and recorded in three steps.
* **Two stores.** The row of a file and its bytes change at different times; a
  PUT whose outcome is unknown may take effect later; the answer of a commit may
  be lost.
* **Leases and fencing.** Scan workers crash, outlive their lease, and give
  attempts back when the store is down; the attempt number is the fencing token.
  The senders of notifications and mails have leases without a fencing token.
* **Answers and records that are lost.** A mail server, WhatsApp or a push service
  may take a message and the answer not come; the statement that records a success
  may fail. The senders take both for a failure and send again.
* **A page that polls.** Messages are named by the time their transaction began
  and seen from the time it committed; a poll reads in several statements; the
  answers to the page's own calls come in between and may be lost; what the
  device kept is merged over what the server says.
* **An administrator in the middle**, requeueing, archiving, deleting.

PROJECT.json lists these one by one under `hazards`, each at its line with the
properties that would catch it going wrong.

## The modules

Each module's operators keep the names of the methods and columns they stand
for, and PROJECT.json's `map` gives the lines of each. Definitions with a suffix
after an underscore (`Expected_AnyVersion`) are mistakes one could make in that
code: no action uses them; a run must fail when the definition before the
underscore is replaced by one.

* **RequestStates**: the statuses and the matrix of `request-state.ts` as a set
  of pairs with the roles each is allowed to, and the sets of statuses other
  operations depend on.
* **ServiceRequests** (on RequestStates): one action per operation of
  `RequestService`, `AdminRequestService` and `ServiceQuoteService`. Each of
  them is one transaction that locks the request first, so each is one action.
  A client is modelled by `seen`, the snapshot it last read; the version it
  sends is that snapshot's. A request is named by its student's submission key,
  a quote by its administrator's client key, so that a retried creation is a
  step that changes nothing. `lapsed` replaces the clock: a quote's expiry passes at some
  moment (`Lapse`), and `ExpireInstead` is the branch of `respondToQuote` that
  finds it passed. `log` is `service_request_events`: each version of a row has one
  event, under the version it makes (`createQuote` and an immediate submission may make
  two versions at once). Creating, accepting, rejecting or withdrawing a quote also adds the
  record of `appendQuoteEvent`, under the version reached by then (`QuoteEntry`), and
  creating one on a request that already is QUOTED adds only that. An expiry
  has none. The end of a scan, whose actor is the system, is here the act of a user.
  Title, description, subject and the rest of the form are one value, `Briefs`. The CHECK of the
  table that ties `submitted_at` to the status is a guard (`SubmittedCheck`), since it is what
  refuses one of the paths.
* **Finance**: single-transaction operations are one action each. An
  administrator's longer operation is a process with a program counter (`op`),
  one action per transaction or statement outside one; another administrator's
  steps come in between, `Crash` ends an operation anywhere, a failed step ends
  it too. `replaces` is not a column: it records which due a reissued one was
  made for, to state what a reissue promises.
* **DueLifecycle**: what the ledger promises of a due: issued once, paid only
  while owed, given back only when paid, void for good. `Finance` implements it
  (`ImplementsLifecycle`): the refinement mapping takes the status of the row
  and the number of payments that no reversal names.
* **Attachments**: rows, jobs and objects, and the processes on them: `upload`
  (one per file), `erase` (deletion and reconciler), `work` (scan workers),
  `late` (a PUT that was given up and may still take effect). Times are
  abstracted: `Settled` stands for the minimum ages of the reconciler (an
  upload's age fence of an hour against store operations that are cut off after at most
  30 minutes). A lease is chosen longer than the store's and the scanner's time-outs
  together (`scanJobLeaseMs`, scan-processor.ts:73-78); a worker may still be held up
  longer (`Overrun`), as it may stop: both are troubles, of which there are `MaxTroubles`.
* **FileLifecycle**: what a client may rely on: a file is accepted once and only
  with its bytes, its bytes go only after it was withdrawn, and what was
  withdrawn never comes back. `Attachments` implements it.
* **ConversationFiles**: the second pipeline of files. A worker is one process
  that does one thing at a time (`work`: scan, end an abandoned file, sweep), as
  the loop of `apps/worker/src/index.ts` does; uploads, recipients (`reading`),
  an administrator's purge (`purge`) and the receipts of finance (`receipts`)
  go on beside it. A deadline is NONE, AHEAD or PASSED, and `aged` holds the
  files older than the retention of files nobody downloaded. The failure path of
  its scans writes the row without holding the job, unlike that of Attachments
  (`Reschedule`), and its sweeps and purges remove bytes before the row says so: it
  does not implement FileLifecycle, whose `Erase` comes after the withdrawal.
* **Accounts**: every operation of `AuthService` that changes an account, a
  session, a link, a recovery or a role. Each transaction locks the row of its
  account first, so each is one action; what runs before it (`readCredentials`,
  `authenticateSession`, `openResetLink`) is an action of its own, and `call`
  holds what the call knows in between. A password is a number that only grows,
  since hashes are salted; a session carries the password and the roles it was
  opened with, which are not columns, to state what a session promises.
* **AuthMail** extends Accounts: `AccountsStep` is a transaction of Accounts with
  what it writes into `auth_email_outbox`, and the processor is the steps of a worker
  (`processBatch`, `Check`, `Deliver`, `RecordFails`, `Record`), between which accounts and
  other workers go on. The server may take a mail and its answer be lost (`Deliver`), and
  the update to SENT may fail (`RecordFails`): both are in the `try` of the code,
  and its `catch` records a failure. `TakeBack` is the statement that frees mails after
  ten minutes. `accepted`, and `doubts`, the times that nobody could tell whether the
  server had the mail, are history. Delivery is at least once, as `docs/AUTH_EMAIL.md` says.
* **Notifications**: the two senders that share `outbox_events`. A worker claims
  (`claim`), reads whom to tell (`read`), sends to the support's number or to one
  device after the other (`sendToSupport`, `push`), marks the message as delivered
  (`markReceipt`) and records (`finish`). An answer may be lost after the number or a
  device got the event, and the statement that records the support's success may
  fail (`finishFails`): the event is then sent again. Leases, stops, requeues, devices that end
  and people who read go on beside it. An event goes to the newest devices of its recipient,
  `Limit` (20 in the code) at most: what is delivered "for lack of devices" may pass over
  those beyond, and `NobodyForgotten` says so. `reached`, `unsure`
  (what was reached and taken for a failure) and `disturbed` are history.
* **Conversations**: the database (`rows`, `revs`, and the transactions under
  way, `open`) and one tab of the chat page. `clock` counts starts and commits of
  transactions, the only times the database and the page compare. `calls` and
  `answers` are what is on its way between the two; `outbox`, `tries` and `fetch`
  are the page's optimistic entries and their requests; `poll` is a list request
  with its anchor, what it has read so far and its cursor; `shown` and `cursor`
  are what the page holds. `LeavePage` and `OpenPage` are a page that is opened
  again over the copy on the device. `late` and `beyond` are history: of messages whose
  text came from an old reading, and of those that came by their revision alone,
  without having been read as messages. A message that is read
  with its latest revision (`Fold`) stands for the view `latest_revision`.
* **MC\*** modules give the constants for TLC. **ServiceRequestsProofs**,
  **FinanceProofs**, **AttachmentsProofs**, **ConversationFilesProofs**, **AccountsProofs**,
  **AuthMailProofs**, **NotificationsProofs** and **ConversationsProofs** hold the theorems.

Composition: ServiceRequests includes the creation of dues by a quote
(`createFinanceDue`) and by an administrator, so that quoting and billing meet;
what happens to a due afterwards is Finance's. Attachments takes from requests
only whether the request takes files (`open`); the advance of the request's
version by an attachment is an action of ServiceRequests (`attachmentChange`).
ConversationFiles takes from finance only that a receipt may come to refer to a
stored file at any time.
AuthMail is the composition of the accounts with their mails. Notifications takes
from the conversation only that a message may be read at any time.

## The runs

| Run | Instance | Checks |
|---|---|---|
| `requests` | one request, two quotes, a student, an administrator, two contents, six versions | history and submission explain the row; billing exactly of accepted quotes; billed by the owner only; one open offer; closed is final; no blind write |
| `finance_receipts` | one student, two administrators, two dues, two receipts, four versions of a due | `LedgerInv` (types, ledger explains dues, one payment stands); operations act on what they read; a receipt is decided once |
| `finance_reissue` | two administrators, three dues, amounts 1 and 2, no receipts | the lifecycle of dues; reissued before voided; a split conserves the amount |
| `attachment_uploads` | two files for one place, one worker, one trouble | capacity; deleted leaves no bytes; the lifecycle of files |
| `attachment_scans` | one file, two workers, two troubles, a requeue, two scans before giving up, FairSpec | `ScansInv` (types, no file stranded, one scan can commit); a scan ends; a reservation ends |
| `conversation_scans` | one file, two workers, leases that run out at any time, a requeue, a stop | `ScansInv`; deleted leaves no bytes; gone stays gone |
| `conversation_liveness` | one file, one worker, two stops, FairSpec | jobs end; infected bytes are erased; overdue files are purged |
| `accounts` | an administrator who is signed in, a student who comes; two calls, two passwords, links and recoveries, two sessions of the student | `LinksInv` (types with the tables' constraints, one link works, an approved recovery holds its link); a live session is current; passwords change for a reason; an administrator stays |
| `auth_mail` | one person, two mails, two workers, two attempts, one trouble (a stop, a slow worker, an answer or a record that is lost), with fairness | `MailInv` (types, a working link is mailed, repeated only when in doubt); an end stays; every mail ends |
| `notifications` | two events of either kind, two devices (which is the limit), two workers that claim two pushes at once, two attempts, one trouble (a lease, a stop, a requeue, an answer or a record that is lost), FairSpec | `DeliveryInv` (types, nobody forgotten, the tick is true); twice only when in doubt; an end stays; every event ends |
| `conversations` | one message of the tab sent up to twice, two of the other party, two edits or deletions, six starts and commits, one re-opening, FairSpec | `MessagesInv` (types, sent once, a deletion holds); a message is missed only when passed; a text is stale only when late; an entry goes only for its message; the tab catches up |
| `receipt_swept` | two files, one worker | one sentence of a comment, which the code violates |

An invariant that is a conjunction (`LedgerInv`, `ScansInv`, `LinksInv`, `MailInv`,
`DeliveryInv`, `MessagesInv`) joins a module's types with the parts that are about the
same rows; the parts are named and commented one by one. `TypeOK` of
ServiceRequests is in no run: it is proved.

Why these bounds are enough. `requests`: the services' operations touch one
request and one quote at a time and no invariant relates two requests; a second
quote is needed for the single open offer and for a new offer after a refusal;
six versions admit draft, submission, quote (two versions), answer and one more
step after it, on every path. One administrator is enough because staleness
is between `seen` and the row, and the student is the other party.
`finance_receipts`: two administrators are the smallest number that interleave,
two dues the smallest invoice on which settling can stop half-way, four versions
admit pay, reverse, pay. `finance_reissue`: a split makes two dues out of one.
`attachment_uploads`: two files compete for the single place; one worker, since
what workers do to each other is the question of `attachment_scans`, where two
of them, two attempts before giving up and a highest attempt number of four cover losing a lease,
giving an attempt back, retrying and the last failure. `conversation_scans`
asks the same of the other pipeline, with sweeps, purges, downloads and uploads
beside the two workers; one file is enough, because no operation of a conversation
file looks at another file but the limit on their number, which works as that of
`attachment_uploads`. `receipt_swept` has two files, so that a batch holds both. `accounts`: what a call
does to one account never reads another, but for the count of administrators; two
calls are one that has read and one that changes what it read; two of a kind is
what "at most one works" needs. The run starts with the administrator created, since
`createAdmin` comes first and comes once. `auth_mail`: two mails are the old link's and the new
link's: a person who registers is followed up to the second verification link, one whom
`createAdmin` lets in verified up to a second reset link or a new password; two attempts are one that fails and the last. `notifications`: two events claimed
together are what makes one wait for its turn under a lease that has begun, two
devices are what makes a result mixed, three claims are the two attempts and the
one after a trouble. In both, one trouble is enough for a message to go out once more than
it should, and `TwiceOnlyWhenInDoubt` and `RepeatedOnlyWhenInDoubt` are proved for any
number. `conversations`: six points in time are three whole transactions,
enough for one that starts earlier and commits later than another, around every step
of a poll, and for a message with two revisions. They are too few for the third way to miss a
message (see below), which takes four transactions: the theorem covers it, and TLC passes an instance with
`MaxClock = 8`, one try, one revision and no re-opening, which is not among the runs.

Bounds in the modules: `MaxVersion` (versions of a request, of a due), `MaxDues`,
`MaxReceipts`, `MaxClaims` (attempt numbers), `MaxRequeues`, `MaxTroubles`,
`MaxStops`, `MaxPasswords`, `MaxSessions`, `MaxLinks`, `MaxRecoveries`, `MaxMails`,
`MaxClock`, `MaxTries`, `MaxTheirs`, `MaxRevisions`, `MaxOpenings`; all are
guards, so a behaviour stops there. `MaxFiles`, `MaxAttempts`, `Batch` and `Limit` are the
program's own limits; more devices than `Limit` are left to the theorems. All runs but those of requests and finance say
`CHECK_DEADLOCK FALSE`: once the request is closed, the files are gone, or links,
mails, events and times are used up and every process is at
rest, the system really may do nothing. In the other runs reading a page is
always possible, or an administrator can always begin or end an operation.

Symmetry is used for values that are only compared for equality (quotes,
contents, administrators, workers, calls), and never in a liveness run.

## Fairness

In `attachment_scans` (`FairSpec` of Attachments):

* `WF(Work(w))`: a worker that can take a step takes one. The worker's loop polls
  until it is stopped and its container is started again (`restart: unless-stopped` in compose.production.yaml);
  `WorkerCrash` loses what it was doing, within `MaxTroubles`. It includes
  that the scanner answers its readiness check again some day and that
  the scan queue is not left paused for ever.
* `SF(Reached(w))`: an object store asked over and over sometimes answers.
  Without it a deferral, which gives the attempt back, repeats for ever.
* `WF(UploadStep(f))`: a handler that has not crashed goes on; a crash
  (`UploadCrash`) has no fairness and may happen at any step.
* `WF(LatePut(f))`, `WF(Reconcile(f))`, and `SF` for the reconciler's removal
  and its mark: what is in flight arrives or is lost; the reconciler is reached in every turn
  of the worker's loop; its removal may fail, but not always.

`ScanEnds` leaves out the files that an administrator has requeued: the attempt
number of the file does not start over with that of the job, so that such a job may
be dropped without a scan (see below).

In `conversation_liveness` (`FairSpec` of ConversationFiles) a worker is the whole loop: `WF(Step(w))`, that it goes on
with what it began; `SF` of `claim`, `Reconcile` and `Sweep`, since the loop
comes to each of its processors in every turn, however short the moments are in
which it is idle between them; `SF` of `Erase` and `Reached`, and `WF` of
`LatePut` and `UploadStep`, as above. Nothing is assumed of people: purges,
downloads and extensions may never come or never stop.

In `auth_mail` (`MailFairness`): `WF` of a worker's step, and of `TakeBack` for a mail
whose worker is gone, since that statement runs at the beginning of every batch.
`notifications` (`Fairness` of Notifications): `WF` of a worker's step and of
`LeaseOver`, since time goes by. Nothing is assumed of the services that are
called: each sending may fail every time. Answers and records that are lost are
troubles, which come to an end.

In `conversations` (`Fairness` of Conversations): `WF(StartPoll)`, the page's timer as long as
the tab is visible; `SF` of `ReadRows`, `ReadRevisions` and `TakePoll`, that of
all polls some get through, though each may fail at any step; `WF(OpenPage)`, that
a page asked for comes. Nothing is assumed of transactions: they may stay
open or fail. Neither do the answers to the page's own calls have to come.

## The proofs

`ServiceRequestsProofs` proves, for every set of requests, quotes, students,
administrators, contents and amounts and for every bound:

* `TypeCorrect == Spec => []TypeOK`. `TypeOK` is inductive as it stands; the
  lemmas `UpdatedRow`, `UpdatedRowType`, `EntryType` and `AdvanceType` say what
  the helpers that build rows and events return, and `TypeStep` has a step per action.
* `QuotesBilledOnce == Spec => []AcceptedQuoteBilledOnce`. The invariant is
  inductive together with `TypeOK`. `QuoteSteps` classifies what a step can do
  to quotes and quote dues (nothing, create, expire, accept, reject, withdraw),
  and `ClosedQuote` says what closing leaves of a quote; `BilledStep` goes
  through the classes. Types are needed because accepting reads the quote's own request and amount.
* `OneOffer == Spec => []OneOpenOffer`, from the same classification: only
  creation makes a pending quote, and its guard finds no other one on the
  request.

Its second part is about the history. `RowSteps` says that a row and its
history change in six ways only: the row is made, it is filed (archived or
restored), it goes on by one version and one event, it does so for the sake of a quote,
which is recorded after it, a quote takes it through review by two versions, or
a quote is recorded and the row stays. `MovesFollow` says that every update the operations write follows
from the row before it. From these:

* `RowsHaveTheirHistory == Spec => []HistoryExplainsRows`, inductive with
  `TypeOK`. `EntryExplains` is the heart of it: a history that explains a row,
  with the event of an update of that row, explains the updated row. `QuoteEntryExplains`
  says the same of the record of a quote, which leaves the row as it is. The three
  events of `createQuote` (`ThreeMore`) are two uses of the one and one of the other.
* `ClosedStaysClosed == Spec => ClosedIsFinal`. No transition leaves a terminal
  status (`TerminalStatuses` computes the three from the matrix), and accepting
  a quote needs a request that is QUOTED.
* `OwnersCommit == Spec => []BilledByOwner`, inductive with `TypeOK` and
  `HistoryExplainsRows`: `HistoryGrows` says that events are never rewritten, and
  needs to know that a request that does not exist has none.
* `NobodyWritesBlind == Spec => NoBlindWrite`. The strengthening is
  `SnapshotsAreOld`: what a client holds is of a version the row has had, and if
  the row still has that version it still is that row. `VersionsGrow` (a row's
  version only grows, and its snapshot changes with the version only) makes it
  inductive. `WritesAreExpected` says that every change other than an answer to
  an offer was guarded by the version of its author.

The assumptions are the modules' own: `OwnerAssumption`, `RolesAssumption`,
`MaxVersionAssumption` and `NullAssumption`, evaluated by TLC in the run `requests`.

`FinanceProofs` proves all that the runs check of Finance, for any number of
students, administrators, dues, versions and receipts. Its invariant `Inv` has three parts:

* `RowsOK`: each due is `Good` with its ledger. That is more than the two invariants
  it is for: an entry is related to an earlier one only (`LooksBack`), and the standing
  payments are a set of one element or none (`Collected`), so that no cardinality is
  needed before the end. `GoodAppend` is the heart: the entry of a transition from
  the row's status leaves row and ledger `Good`.
* `ReceiptsOK`: a receipt names a due.
* `OpsOK`: what an operation without a lock may still rely on (`Holds`): the rows
  it names exist, the due that it makes void has its successor, the two parts of a
  split add up. Other operations do not disturb it (`HoldsOn`), since no step
  takes back what is `Kept`: rows, amounts, what a row replaces, and that it is void.

`DuesSteps` says that a step leaves dues and entries alone, makes a due, or takes
one due through one transition. From `Inv` and this follow

* `LedgerAgrees == Spec => []LedgerInv`;
* `LifecycleImplemented == Spec => ImplementsLifecycle`: each of the three kinds of
  step is a stutter, an `Issue`, or one of the other steps of DueLifecycle;
* `DecisionsStand == Spec => DecidedOnce`, where the guard of `Decide` and the
  condition of `ClearReceipts` do the work;
* `StaleReadsFail`, `ReplacedBeforeVoid` and `SplitAddsUp`, for `ActsOnWhatItRead`,
  `IssuedBeforeVoid` and `SplitConserves`. They need that an operation moves by its
  own steps only (`OwnStep`) and what it holds then (`Holds`).

The assumptions are those of Finance, `StudentsAssumption`, `PricesAssumption`
and `BoundsAssumption`, evaluated by TLC in both runs of finance.

`AttachmentsProofs` proves the safety properties of Attachments, for any files
and workers, any limit and any number of attempts, requeues and troubles. No
property of the two runs is inductive by itself; the invariant `Inv` relates what the
processes hold to the rows they left:

* `BytesOK(f)` follows a file's bytes: while they may still arrive (`upload`, `late`) the
  row is not accepted; a row about to be finalised has them; whoever removes them does so
  for a withdrawn file of which nothing is in flight, and marks the row after they are gone.
* `JobOK(f)` ties the job to its row: a file with a job was finalised; unless it was
  requeued, the row's attempt is never ahead of the job's, and a file that waits has
  a job that can be claimed.
* `TaskOK(w)` is what a worker may still rely on when its lease is over: the attempt
  it scans under is at most the row's, what it buries does not wait, what it removes was withdrawn.
* `ClaimsDiffer`: two scans of one file never have the same attempt number. This is the
  fencing argument; `DeferStep` is its hard case, as an attempt that is given back makes the
  row's number go down: the worker that gives it back held the highest one, alone.
* `Counted`, with the reservations, is finite and within the limit.

Each action is a step on one file (`FileStep`): it keeps that file in order, leaves the
others `Untouched`, and does not take back what a worker that lost its lease relies on
(`Kept`). A worker's step is also a `WorkStep`, which keeps its attempt apart from all others.
`FileKeepsInv` and `WorkKeepsInv` conclude once for all actions. From `Inv`:
`Capacity == Spec => []CapacityHeld`, `DeletedForGood == Spec => []DeletedLeavesNoBytes`,
`Scans == Spec => []ScansInv`, and `LifecycleImplemented == Spec => ImplementsLifecycle`,
where `Seen` lists what a step may show of a file and `SeenStep` maps it to FileLifecycle.
The assumptions are `BoundsAssumption` and `NoFileAssumption`, evaluated by TLC in both
runs of attachments.

`ConversationFilesProofs` proves the same of the second pipeline, whose protocol is
another, so that its invariant is too:

* `BytesOK`, `JobOK`, `TaskOK` and `ClaimsDiffer` are as above; a worker may now also
  erase an abandoned file or sweep an expired one, and what it relies on then is part of `TaskOK`.
* `NobodyExpected(f)` makes up for the failure path, which writes the row without holding the
  job: once a scan was given up (the job has ended, the file still waits, nobody requeued it),
  no scan still under way has the number that the row expects. Without it a failure that
  comes late could take the row back to waiting with no job left to scan it.

A step is a person's (`PeopleStep`), who leaves attempts and workers alone, or a worker's on one
file (`WorkStep`), or a worker's turn that touches no file; the lemma `Steps` sorts them.
`RescheduleStep` is the hard case. From `Inv`: `DeletedForGood == Spec => []DeletedLeavesNoBytes`,
`Scans == Spec => []ScansInv` and `GoneForGood == Spec => GoneStaysGone`. The assumptions are
`BoundsAssumption` and `NoFileAssumption`, evaluated by TLC in `conversation_scans` and
`conversation_liveness`.

`AccountsProofs` proves all that the run `accounts` checks, for any people and calls and
any number of passwords, sessions, links and recoveries. `Inv` has five parts:

* `PeopleOK`: who is not registered has no address, number or role to lose; verified is who
  is beyond pending; one administrator at most, as granting the role looks for another.
* `LinksOK`, for each table of links, and `OwnersOK`: of one person's links one at most
  works, and links belong to registered people.
* `RecoveriesOK`: an approved recovery holds a link *of its own account*, which still works.
  `ApprovedHoldsItsLink` does not say whose, and is not inductive for that reason: a reset
  by a link ends the approved recoveries of the link's person only.
* `SessionsOK`, which is `LiveSessionIsCurrent`: inductive once people and calls are.
* `CallsOK`: a call's knowledge is stale but not untrue for ever (`Truthful`): a caller
  authenticated as the administrator still is one, and a link stays its person's.

`Fewer` (links that only lose their force), `Undone` (recoveries that lose their approval) and
`TableStep` (one new link) say what the helpers of the transactions return; each part
has a lemma with a step per action (`PeopleKept`, `LinksKept`, `RecoveriesKept`,
`SessionsKept`, `CallsKept`). The theorems are `LinksAgree == Spec => []LinksInv`,
`SessionsAreCurrent == Spec => []LiveSessionIsCurrent`,
`PasswordsChangeForAReason == Spec => ChangesForAReason`, where the link that was looked at
early must belong to the person whose row is locked (`Truthful`), and
`AnAdministratorStays == Spec => AdministratorStays`: only an administrator suspends, not
himself, and there is no second one; the role of the only one is never taken.
The assumptions are `BoundsAssumption` (an account has at least its first password) and
`NoUserAssumption`, evaluated by TLC in the run `accounts`.

`AuthMailProofs` extends AccountsProofs, as the module extends Accounts, and proves what the run
`auth_mail` checks of safety, for any accounts, mails, workers, attempts and troubles.
Every step of the composition is a step of Accounts or leaves its variables alone
(`AccountsGoOn`), so that `MailIsAccounts == MailSpec => Spec`, and the `Inv` of Accounts holds here.
`OutboxInv` adds three parts to it:

* `OutboxOK`: types without bounds, and what a worker has in hand: nothing, or a mail of the
  outbox under a number that is not ahead of the mail's (`Holds`).
* `LinksFollowed`: a mail's link is one of its addressee, and a link that a worker found
  superseded stays so. `Aged` says that no transaction brings a link back into force; the
  transactions that take back mails revoke the links of those mails in the same step, which
  keeps `WorkingLinkIsMailed`.
* `Counted(m)`, for each mail, of which all is counting. What may still be sent again: the
  workers that have the mail in hand and, for all they know, have not had it taken (`Chances`),
  with the chance that it waits and the times it was taken, are at most one more than the
  doubts. This is the inductive form of `RepeatedOnlyWhenInDoubt`, which counts what the
  server took but says nothing of who could hand it over once more. For the bounds of
  `TypeOK`, as the attempts are compared with their limit only when a sending fails
  and the bound is no guard of the code: the workers that have the mail in hand, with the chance
  that it waits or that the holder of its last number is gone, are at most one more than the
  troubles; near the limit, the attempts with all who may still add one are at most the limit
  and the troubles.

Each step of a worker is first brought to a form that says what it does to one mail and one
worker (`Claims`, `Turns`, `Hands`, `Records`, `Takes`, `Quits`), where a lost answer and a lost record
are both of the form `Hands`; the parts of the invariant are kept by these forms. From
`OutboxInv`: `MailsAreRight == MailSpec => []MailInv` and `EndedMailsStay == MailSpec => EndedStays`.
The assumptions are `MailAssumption` and those of Accounts, evaluated by TLC in the run `auth_mail`.

`NotificationsProofs` proves the safety properties of Notifications, for any number of events,
devices, workers, attempts and troubles, any batch and any limit. `Inv` has three parts:

* `DeliveryInv` itself.
* `WorkerOK(w)`: what a worker knows is true when it writes it, lease or no lease. Who has
  accepted has brought its event to someone (`Brought`). Of a push that nobody took and nobody
  refused for now, the devices that are registered are among those left, or the gone and the
  left together are as many as one event is sent to (`Exhausted`): a set that only grows, so
  that devices may end at any time.
* Every event is disturbed or `Calm`: an event whose lease never ran out is in one pair of
  hands, has reached each device at most once more than it was `unsure`, comes back only if
  each delivery was taken for a failure, and whoever holds it knows of the one delivery that was
  not (`Sent`). This is the inductive form of `TwiceOnlyWhenInDoubt`, which counts deliveries but
  says nothing of who could make one more.

`Growing` (types of events, deliveries and ends of devices are never taken back) carries
`WorkerOK` over the steps of others (`WorkerStays`), `CalmStays`, `QuietCalm`, `GotCalm`,
`LostCalm` (a lost answer) and `FailsCalm` (a lost record) do so for `Calm`. From `Inv`: `DeliveriesAreTrue == Spec => []DeliveryInv`,
`SentOnce == Spec => []TwiceOnlyWhenInDoubt` and `EndsStand == Spec => EndedStays`. The assumption
is `BoundsAssumption`, evaluated by TLC in the run `notifications`.

`ConversationsProofs` proves the safety properties of Conversations, for any messages of the
user and the other party, any number of transactions that overlap in any way, and any tries,
revisions and re-openings. Every step of the database has one of five forms (`DatabaseStep`: a
transaction begins, writes a message, checks a revision, commits one, or nothing is written) and
every step of the tab one of those of `ViewStep`; a step does one or the other (`AllSteps`). The
invariant is `ChatInv`:

* `StampsOK`: no two starts or commits have the same time, and every transaction under way has
  room to commit. The latter is the bound's guard and needs the cardinality of `open`.
* `RevisionsOK`, `AnswersOK`, `TabOK`: revisions are of messages older than they are, and
  what the tab hears of in an answer is its user's own message or one it already shows.
* `DeletionsOK`: a deletion is `Undone`, by an edit that began before it committed, or `Final`:
  nobody who has been through the trigger's check can still undo it. This is the inductive form of
  `DeletionHolds`; the step that matters is the check, which reads only what is committed.
* `PollOK`, `PollSkips`, `PollIsCurrent`: what a poll between its two readings may have left out
  or read too early. With them `MissedOnlyWhenPassed` and `StaleOnlyWhenLate` are inductive.
  `FoldMoves` is the heart of the second: a revision that is committed under a cursor already
  past its stamp was overtaken.

The proof of `MissedOnlyWhenPassed` failed at first, and rightly: the property gave two reasons,
and there is a third. A delta's second statement also reads the messages of
revisions that the first did not list (`unified-conversation-service.ts:908-930`), so a message
written and edited between the two comes by its revision alone, and takes the anchor past an
older one that was committed between them too. TLC shows it with four transactions. From
`ChatInv`: `MessagesAreRight == Spec => []MessagesInv`, `NoneMissedUnpassed == Spec =>
[]MissedOnlyWhenPassed`, `NoneStaleUnlessLate == Spec => []StaleOnlyWhenLate`; and
`EntriesSettle == Spec => EntrySettles`. The assumptions are `NoKeyAssumption` and
`BoundsAssumption`, evaluated by TLC in the run `conversations`.

With these, every safety property that a passing run checks, invariant or action property, is
proved too. Out of TLAPS's reach and left to TLC for good: the liveness properties of
Attachments, ConversationFiles, AuthMail, Notifications and Conversations under fairness.

## Where documents and code disagree

One run ends with a violation, and `findings` in PROJECT.json quotes the sentence:
`receipt_swept`. Receipts are "never swept"; one that is sent in between the
choice of a sweep and its turn loses its image.

The models take these steps too, without a run of their own:

* Migration 034 says that requests with a due stay "fully visible"; an
  archived request can be billed afterwards and stays hidden
  (`admin-service.ts:807` checks dues when it archives, billing does not look whether
  the request is archived).
* A due "stays UNPAID until the administrator accepts a submission"
  (`027_finance_payment_submissions.sql`): a reviewer may record the payment in the name of a
  receipt and another reject the receipt before the first decides it.
* Replacing an amount "voids the current due and reissues an equivalent one [...]
  Failure-safe" (`packages/finance/src/service.ts`): a stop between the two leaves both payable.
* `docs/REQUEST_STATE_MACHINE.md:47-49` has no QUOTED -> UNDER_REVIEW; the code
  takes it (`request-state.ts:70`) when an offer is refused or withdrawn.
* "Any receipt the student uploaded against this consolidated invoice is now
  resolved" (`packages/finance/src/service.ts:1405`): settling an invoice accepts
  also a receipt that was sent in after the list, for a due it did not pay.
* "Re-queues [...] for another delivery attempt" (`outbox-monitor-service.ts:190`):
  a requeued scan job is dropped without a scan, because the file's own attempt
  number does not start over.
* "Receipts are never purged" (`storage-admin.tsx:125`): the page hides the button
  of a receipt, but `purgeNow` behind it does not look for one.
* "delete_after set -> the object is purged once that time passes"
  (`037_attachment_retention_hold.sql:7`): a sweep removes a file whose deadline was
  moved ahead after the sweep chose it.
* "a stray object is harmless and caught by the storage reconciler"
  (`unified-attachment-retention.ts:102`): the reconciler does not look at
  expired rows, so the object of a file that expired while the store failed stays.
* "the caller already holds everything up to and including `afterId`"
  (`unified-conversation-service.ts:868-870`) and "a dropped stream or a missed
  notification is harmless" because the poll is reliable (`conversation-stream.ts:24-28`): the page's anchor
  is the newest message it holds, and its own message, one stamped later and committed
  earlier, or one both written and edited between the two readings of a poll takes it past
  one it never read. `MissedOnlyWhenPassed` says
  that these are the only three ways; a page that is opened again shows the message.
* "everything edited/deleted at or before this instant is already reflected locally"
  (`unified-chat-workspace.tsx:2061-2063`), and "a missed notification is caught by the
  incremental revision poll" (migration 026): `StaleOnlyWhenLate` names the exceptions, a revision
  that commits between the two readings of a poll, one overtaken by a later stamp, and an
  answer that comes late.
* "then fold the server-fresh page on top" (`unified-chat-workspace.tsx:2528-2530`): the
  code merges the device's copy over the fresh page (`OpenPage`), under the cursor of that page,
  so that an edit made while the tab was away stays unseen until the next one.
* An edit that begins while a deletion is under way and is stamped later wins over it: the
  text is shown again. `DeletionHolds` says that only such an edit can.

## What is not modelled

* Wording, validation of forms, audit rows, notifications and messages that the
  operations post: nothing the properties speak of depends on them.
* Amounts have no upper bound and one currency. The arithmetic of minor units is
  integer subtraction in the code and here.
* Sizes of files: the limit on the total of bytes works as the limit on their
  number does, and only the latter is modelled.
* Clocks: see ServiceRequests (`lapsed`), Attachments (`Settled`, `Overrun`) and
  ConversationFiles (`deadline`, `aged`). A download that shortens an extension
  is therefore not visible: both put the deadline ahead. The delays between attempts of
  mails and notifications are any time.
* Accounts: display names, profiles and lists, which relate no two pieces of state;
  hashes, tokens and CSRF checks are what they promise; rate limits only
  refuse. The two expiries of a session are one.
* Conversations: pages and limits are larger than the conversation (a page has 100
  messages, a delta 200); stamps are unique (microseconds in the code); the tab is visible; the
  rows of changed messages are read together with the list of changes; the 15 minutes
  in which one may edit are a refusal that may come. Receipts and
  read marks, reactions, pins, the archive of old messages, the group channel and the
  older chat of a request are left out, and with them these hazards: the limit
  of five pins is checked without a lock; reactions shown optimistically are not
  reconciled by the poll, and the device's copy hides those of the other party; a
  failed read mark is not repeated, and marks cover messages that were not fetched
  yet; entries that failed vanish when the page's props change.
* Notifications: the registration of new devices; the texts and requests of the
  two services. A push that one device accepted and another refused for now is
  not repeated for the second (`NobodyForgotten` asks for one).
* `SCAN_SKIPPED_DEVELOPMENT`: scanning disabled by configuration, refused in production.
* The components marked `not_modelled` in PROJECT.json, with the reason. Most of
  the code's lines are there: pages and route handlers that hold no state
  between two calls, lists, validation, configuration and scripts.

Hazards without a property. Settling an invoice accepts every pending receipt of
the student (`finance/src/service.ts:1408`): no sentence says which it should accept.
The requeue of an event starts the job's attempts over but not the file's
(`outbox-monitor-service.ts:209`); the scan properties leave requeued files out. A download after the
sweep has chosen a file does not save it (`unified-attachment-retention.ts:95`), and the
bytes of a file that expires while the store fails stay (`:100`). An
administrator's purge reads, removes and then writes (`storage-admin.ts:270`).
Events nobody claimed for 90 days are deleted whatever waits for them
(`apps/worker/src/outbox.ts:109`), and a processor that throws in every turn of the worker's loop keeps those after
it from their turn (`apps/worker/src/index.ts:178`): the fairness above assumes
that no processor does. A mail whose worker stops each time is claimed without end
(`packages/auth/src/auth-email.ts:221`), since only a failure compares the attempts with
their limit: troubles end in `auth_mail`, and what is proved is that attempts beyond the limit need
as many troubles.

## Plan

Done: RequestStates and ServiceRequests, Finance with DueLifecycle, Attachments with
FileLifecycle, ConversationFiles, Accounts, AuthMail, Notifications and Conversations, each
with the theorems about its safety properties.

To do, in this order:

1. Read marks, pins and reactions of a conversation, in a module of their own.
2. Small modules: migration runner, upload spool budget, pause switch and worker loop.
