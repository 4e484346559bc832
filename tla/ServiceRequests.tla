-------------------------- MODULE ServiceRequests --------------------------
(***************************************************************************)
(* Service requests, their append-only history, the quotes offered on them *)
(* and the dues that acceptance of a quote creates: what RequestService,   *)
(* AdminRequestService and ServiceQuoteService do to PostgreSQL.           *)
(*                                                                         *)
(* Every operation of those services runs in one transaction that locks    *)
(* the request row first, so every operation is one action.  What a client *)
(* knows is the last snapshot it read; the version it sends is that        *)
(* snapshot's version.  A request is named by its student's submission key *)
(* and a quote by its administrator's client key, so a retried creation    *)
(* finds its row and changes nothing.                                      *)
(***************************************************************************)
EXTENDS RequestStates, Naturals, Sequences

CONSTANTS
  Requests,     \* submission keys, one request each
  Quotes,       \* client quote keys, one quote each
  Students,     \* users with the STUDENT role
  Admins,       \* users with the ADMIN role
  Owner,        \* the student of a request, [Requests -> Students]
  Briefs,       \* contents of the editable fields of a request
  Amounts,      \* amounts a quote may name
  MaxVersion    \* bound: the largest version of a request that is explored

ASSUME OwnerAssumption == Owner \in [Requests -> Students]
ASSUME RolesAssumption == Students \cap Admins = {}
ASSUME MaxVersionAssumption == MaxVersion \in Nat

CONSTANTS NoRequest, NoQuote, NoOne, Unread   \* absent rows and values

VARIABLES
  requests,   \* service_requests and service_request_assignments
  log,        \* service_request_events of a request, in order
  quotes,     \* service_quotes
  lapsed,     \* the quotes whose expires_at has passed
  dues,       \* finance_dues with service_quote_finance_dues
  seen        \* the snapshot of a request a client last read

vars == <<requests, log, quotes, lapsed, dues, seen>>

Users == Students \cup Admins
Role(u) == IF u \in Students THEN "STUDENT" ELSE "ADMIN"

Exists(r) == requests[r] # NoRequest

\* The part of a request row that decisions are based on.
Snapshot(r) ==
  [version  |-> requests[r].version,  status |-> requests[r].status,
   brief    |-> requests[r].brief,    assignee |-> requests[r].assignee]

QuoteStatuses == {"PENDING", "ACCEPTED", "REJECTED", "EXPIRED", "WITHDRAWN"}

PendingOn(r) ==
  {q \in Quotes : /\ quotes[q] # NoQuote
                  /\ quotes[q].request = r
                  /\ quotes[q].status = "PENDING"}

-----------------------------------------------------------------------------
(***************************************************************************)
(* Types.                                                                  *)
(***************************************************************************)
Versions == 1 .. MaxVersion

Request ==
  [version : Versions, status : requestStatuses, brief : Briefs,
   assignee : Admins \cup {NoOne}, submitted : BOOLEAN, archived : BOOLEAN]

Event ==
  [version : Versions, from : requestStatuses, to : requestStatuses,
   actor : Users, quote : Quotes \cup {NoQuote}]

SnapshotRecord ==
  [version : Versions, status : requestStatuses, brief : Briefs,
   assignee : Admins \cup {NoOne}]

Quote ==
  [request : Requests, creator : Admins, amount : Amounts,
   status : QuoteStatuses]

Due == [request : Requests, quote : Quotes \cup {NoQuote}, amount : Amounts]

ASSUME NullAssumption ==
  /\ NoRequest \notin Request
  /\ NoQuote \notin Quote \cup Quotes
  /\ NoOne \notin Admins
  /\ Unread \notin SnapshotRecord

\* The rows of the six tables, and what clients hold, are well formed.
TypeOK ==
  /\ requests \in [Requests -> Request \cup {NoRequest}]
  /\ log \in [Requests -> Seq(Event)]
  /\ quotes \in [Quotes -> Quote \cup {NoQuote}]
  /\ lapsed \subseteq Quotes
  /\ dues \subseteq Due
  /\ seen \in [Users -> [Requests -> SnapshotRecord \cup {Unread}]]

Init ==
  /\ requests = [r \in Requests |-> NoRequest]
  /\ log = [r \in Requests |-> <<>>]
  /\ quotes = [q \in Quotes |-> NoQuote]
  /\ lapsed = {}
  /\ dues = {}
  /\ seen = [u \in Users |-> [r \in Requests |-> Unread]]

-----------------------------------------------------------------------------
(***************************************************************************)
(* The steps every operation is made of.  Variants whose name has a suffix *)
(* after an underscore are mistakes for the runs to catch; no action uses  *)
(* them.                                                                   *)
(***************************************************************************)

\* The update is guarded by the row's existence alone.
Expected_AnyVersion(u, r) == Exists(r) /\ seen[u][r] # Unread

\* expectedVersion is that of the caller's last read, and the locked row
\* still has it.
Expected(u, r) ==
  /\ Exists(r)
  /\ seen[u][r] # Unread
  /\ seen[u][r].version = requests[r].version

\* UPDATE ... SET version = version + 1 with what the operation changes.
Touched(row) == [row EXCEPT !.version = @ + 1]
Moved(row, to) == [row EXCEPT !.version = @ + 1, !.status = to]
Edited(row, b) == [row EXCEPT !.version = @ + 1, !.brief = b]
Assigned(row, x) == [row EXCEPT !.version = @ + 1, !.assignee = x]

\* submitted_at and the accepted integrity policy are written with the status.
Submitted(row) ==
  [row EXCEPT !.version = @ + 1, !.status = "SUBMITTED", !.submitted = TRUE]

\* Archiving leaves the version alone.
Archived(row, flag) == [row EXCEPT !.archived = flag]

\* The event takes the version the row had.
Entry_OldVersion(old, new, u) ==
  [version |-> old.version, from |-> old.status, to |-> new.status, actor |-> u,
   quote |-> NoQuote]

\* appendEvent for an update of a row; from = to stands for the two NULLs of
\* an event that changes no status.
Entry(old, new, u) ==
  [version |-> new.version, from |-> old.status, to |-> new.status, actor |-> u,
   quote |-> NoQuote]

\* appendQuoteEvent: what became of a quote, under the version the row has by
\* then, which the event of the row's own change has already taken.
QuoteEntry(row, u, q) ==
  [version |-> row.version, from |-> row.status, to |-> row.status, actor |-> u,
   quote |-> q]

Within(row) == row.version <= MaxVersion

\* One versioned change of request r by u, and its event.
Advance(r, u, new) ==
  /\ Within(new)
  /\ requests' = [requests EXCEPT ![r] = new]
  /\ log' = [log EXCEPT ![r] = Append(@, Entry(requests[r], new, u))]

\* The same for the sake of quote q, which has its record after it.
AdvanceNoted(r, u, new, q) ==
  /\ Within(new)
  /\ requests' = [requests EXCEPT ![r] = new]
  /\ log' = [log EXCEPT ![r] = Append(Append(@, Entry(requests[r], new, u)),
                                     QuoteEntry(new, u, q))]

\* Quote q is recorded and the row stays as it is.
Noted(r, u, q) ==
  /\ log' = [log EXCEPT ![r] = Append(@, QuoteEntry(requests[r], u, q))]
  /\ UNCHANGED requests

\* A GET of the request by its owner or by staff.
Read(u, r) ==
  /\ Exists(r)
  /\ u \in Admins \/ u = Owner[r]
  /\ seen' = [seen EXCEPT ![u][r] = Snapshot(r)]
  /\ UNCHANGED <<requests, log, quotes, lapsed, dues>>

-----------------------------------------------------------------------------
(***************************************************************************)
(* RequestService: the student's operations.                               *)
(***************************************************************************)
NewRequest(status, version, b) ==
  [version |-> version, status |-> status, brief |-> b, assignee |-> NoOne,
   submitted |-> status # "DRAFT", archived |-> FALSE]

\* The service and its category are active: the catalogue is not modelled,
\* and a creation or a submission may be refused at any time.
createDraft(s, r, b) ==
  /\ s = Owner[r]
  /\ ~Exists(r)
  /\ Within(NewRequest("DRAFT", 1, b))
  /\ requests' = [requests EXCEPT ![r] = NewRequest("DRAFT", 1, b)]
  /\ log' = [log EXCEPT ![r] = <<[version |-> 1, from |-> "DRAFT", to |-> "DRAFT",
                                  actor |-> s, quote |-> NoQuote]>>]
  /\ UNCHANGED <<quotes, lapsed, dues, seen>>

updateDraft(s, r, b) ==
  /\ s = Owner[r]
  /\ Expected(s, r)
  /\ requests[r].status = "DRAFT"
  /\ Advance(r, s, Edited(requests[r], b))
  /\ UNCHANGED <<quotes, lapsed, dues, seen>>

submit(s, r) ==
  /\ s = Owner[r]
  /\ Expected(s, r)
  /\ requests[r].status = "DRAFT"
  /\ Advance(r, s, Submitted(requests[r]))
  /\ UNCHANGED <<quotes, lapsed, dues, seen>>

cancel(s, r) ==
  /\ s = Owner[r]
  /\ Expected(s, r)
  /\ canTransitionRequest(requests[r].status, "CANCELLED", "STUDENT")
  /\ Advance(r, s, Moved(requests[r], "CANCELLED"))
  /\ UNCHANGED <<quotes, lapsed, dues, seen>>

\* The table's CHECK: only a draft or a cancelled request may lack
\* submitted_at.
SubmittedCheck(row) ==
  row.status \in {"DRAFT", "CANCELLED"} \/ row.submitted

\* The student's other transitions.  DRAFT -> SUBMITTED is in the matrix and
\* among the allowed targets, but the operation writes no submitted_at: the
\* CHECK of the table aborts it.
transitionStudentRequest(s, r, to) ==
  /\ s = Owner[r]
  /\ to \in {"SUBMITTED", "ACCEPTED", "REVISION_REQUESTED", "COMPLETED"}
  /\ Expected(s, r)
  /\ canTransitionRequest(requests[r].status, to, "STUDENT")
  /\ SubmittedCheck(Moved(requests[r], to))
  /\ Advance(r, s, Moved(requests[r], to))
  /\ UNCHANGED <<quotes, lapsed, dues, seen>>

-----------------------------------------------------------------------------
(***************************************************************************)
(* AdminRequestService.                                                    *)
(***************************************************************************)

\* submitImmediately writes version 2 and both events in one transaction.
createRequestForStudent(a, r, b, submitImmediately) ==
  LET created == [version |-> 1, from |-> "DRAFT", to |-> "DRAFT", actor |-> a,
                  quote |-> NoQuote]
      sent == [version |-> 2, from |-> "DRAFT", to |-> "SUBMITTED", actor |-> a,
               quote |-> NoQuote]
  IN
  /\ ~Exists(r)
  /\ \/ /\ submitImmediately
        /\ Within(NewRequest("SUBMITTED", 2, b))
        /\ requests' = [requests EXCEPT ![r] = NewRequest("SUBMITTED", 2, b)]
        /\ log' = [log EXCEPT ![r] = <<created, sent>>]
     \/ /\ ~submitImmediately
        /\ Within(NewRequest("DRAFT", 1, b))
        /\ requests' = [requests EXCEPT ![r] = NewRequest("DRAFT", 1, b)]
        /\ log' = [log EXCEPT ![r] = <<created>>]
  /\ UNCHANGED <<quotes, lapsed, dues, seen>>

\* Any status may be edited; an edit that changes nothing is not one.
updateRequestDetails(a, r, b) ==
  /\ Expected(a, r)
  /\ b # requests[r].brief
  /\ Advance(r, a, Edited(requests[r], b))
  /\ UNCHANGED <<quotes, lapsed, dues, seen>>

transitionRequestStatus(a, r, to) ==
  /\ Expected(a, r)
  /\ requests[r].status # "DRAFT"
  /\ canTransitionRequest(requests[r].status, to, "ADMIN")
  /\ Advance(r, a, Moved(requests[r], to))
  /\ UNCHANGED <<quotes, lapsed, dues, seen>>

assignRequest(a, r, assignee) ==
  /\ Expected(a, r)
  /\ assignee # requests[r].assignee
  /\ Advance(r, a, Assigned(requests[r], assignee))
  /\ UNCHANGED <<quotes, lapsed, dues, seen>>

\* Archiving and restoring write neither a version nor an event.
archivePendingRequests(r) ==
  /\ Exists(r)
  /\ ~requests[r].archived
  /\ isStalePendingStatus(requests[r].status)
  /\ \A d \in dues : d.request # r
  /\ requests' = [requests EXCEPT ![r] = Archived(@, TRUE)]
  /\ UNCHANGED <<log, quotes, lapsed, dues, seen>>

restorePendingRequest(r) ==
  /\ Exists(r)
  /\ requests[r].archived
  /\ requests' = [requests EXCEPT ![r] = Archived(@, FALSE)]
  /\ UNCHANGED <<log, quotes, lapsed, dues, seen>>

-----------------------------------------------------------------------------
(***************************************************************************)
(* ServiceQuoteService.  A quote has version 1 while it is PENDING and 2   *)
(* afterwards, so that the check of its version is the check of its        *)
(* status.                                                                 *)
(***************************************************************************)

\* expires_at of a pending quote passes.
Lapse(q) ==
  /\ quotes[q] # NoQuote
  /\ quotes[q].status = "PENDING"
  /\ q \notin lapsed
  /\ lapsed' = lapsed \cup {q}
  /\ UNCHANGED <<requests, log, quotes, dues, seen>>

\* The new quote is not held back by one that is still open.
NoneOpen_Unchecked(r) == TRUE

NoneOpen(r) == PendingOn(r) \subseteq lapsed

\* A pending quote whose time is over is expired first, any other pending
\* quote refuses the new one; the request is taken to QUOTED in as many
\* steps as its status needs, each with its own version and event, and the
\* quote is recorded under the last of them.
createQuote(a, q, r, amount) ==
  LET row == requests[r]
      reviewed == Moved(row, "UNDER_REVIEW")
      quoted == Moved(reviewed, "QUOTED")
  IN
  /\ quotes[q] = NoQuote
  /\ Expected(a, r)
  /\ NoneOpen(r)
  /\ quotes' = [x \in Quotes |->
                  IF x = q
                  THEN [request |-> r, creator |-> a, amount |-> amount,
                        status |-> "PENDING"]
                  ELSE IF x \in PendingOn(r) \cap lapsed
                  THEN [quotes[x] EXCEPT !.status = "EXPIRED"]
                  ELSE quotes[x]]
  /\ \/ /\ row.status \in {"SUBMITTED", "WAITING_FOR_STUDENT"}
        /\ Within(quoted)
        /\ requests' = [requests EXCEPT ![r] = quoted]
        /\ log' = [log EXCEPT ![r] =
                     @ \o <<Entry(row, reviewed, a), Entry(reviewed, quoted, a),
                            QuoteEntry(quoted, a, q)>>]
     \/ /\ row.status = "UNDER_REVIEW"
        /\ AdvanceNoted(r, a, Moved(row, "QUOTED"), q)
     \/ /\ row.status = "QUOTED"
        /\ Noted(r, a, q)
  /\ UNCHANGED <<lapsed, dues, seen>>

\* A response, or a withdrawal, of a quote whose time is over only marks it.
ExpireInstead(q) ==
  /\ quotes[q] # NoQuote
  /\ quotes[q].status = "PENDING"
  /\ q \in lapsed
  /\ quotes' = [quotes EXCEPT ![q].status = "EXPIRED"]
  /\ UNCHANGED <<requests, log, lapsed, dues, seen>>

\* The due is inserted without the row that maps it to its quote.
createFinanceDue_Unmapped(q) ==
  dues' = dues \cup {[request |-> quotes[q].request, quote |-> NoQuote,
                      amount |-> quotes[q].amount]}

\* The due of an accepted quote, unless the quote already has one.
createFinanceDue(q) ==
  dues' = IF \E d \in dues : d.quote = q
          THEN dues
          ELSE dues \cup {[request |-> quotes[q].request, quote |-> q,
                           amount |-> quotes[q].amount]}

\* The answer looks at the quote alone.
Open_AnyRequest(q) ==
  /\ quotes[q] # NoQuote
  /\ Exists(quotes[q].request)
  /\ quotes[q].status = "PENDING"
  /\ q \notin lapsed

\* A quote that can still be answered or withdrawn.
Open(q) ==
  /\ quotes[q] # NoQuote
  /\ Exists(quotes[q].request)
  /\ quotes[q].status = "PENDING"
  /\ q \notin lapsed
  /\ requests[quotes[q].request].status = "QUOTED"

\* The quote is closed, its request moves on, and both have their event.
Close(q, u, outcome, to) ==
  LET r == quotes[q].request IN
  /\ quotes' = [quotes EXCEPT ![q].status = outcome]
  /\ AdvanceNoted(r, u, Moved(requests[r], to), q)

\* The two decisions of respondToQuote are guarded by the quote's version
\* alone: the request may have a version the student has not read.
acceptQuote(s, q) ==
  /\ Open(q)
  /\ s = Owner[quotes[q].request]
  /\ Close(q, s, "ACCEPTED", "ACCEPTED")
  /\ createFinanceDue(q)
  /\ UNCHANGED <<lapsed, seen>>

\* A due is created whatever the decision.
rejectQuote_Billed(s, q) ==
  /\ Open(q)
  /\ s = Owner[quotes[q].request]
  /\ Close(q, s, "REJECTED", "UNDER_REVIEW")
  /\ createFinanceDue(q)
  /\ UNCHANGED <<lapsed, seen>>

rejectQuote(s, q) ==
  /\ Open(q)
  /\ s = Owner[quotes[q].request]
  /\ Close(q, s, "REJECTED", "UNDER_REVIEW")
  /\ UNCHANGED <<lapsed, dues, seen>>

\* By the administrator who made the quote, on the request as that
\* administrator last read it.
withdrawQuote(a, q) ==
  /\ Open(q)
  /\ a = quotes[q].creator
  /\ Expected(a, quotes[q].request)
  /\ Close(q, a, "WITHDRAWN", "UNDER_REVIEW")
  /\ UNCHANGED <<lapsed, dues, seen>>

-----------------------------------------------------------------------------
(***************************************************************************)
(* What other components do to the same rows.                              *)
(***************************************************************************)

\* A file is finalised (without a version check), removed (with one) or its
\* scan ends: the request gets a new version and an event and keeps its
\* content.
attachmentChange(u, r) ==
  /\ Exists(r)
  /\ u \in Admins \/ u = Owner[r]
  /\ eligibleAttachmentStatus(requests[r].status)
  /\ Advance(r, u, Touched(requests[r]))
  /\ UNCHANGED <<quotes, lapsed, dues, seen>>

\* FinanceService.createDue on a request that is no draft.
createDue(r, amount) ==
  /\ Exists(r)
  /\ requests[r].status # "DRAFT"
  /\ dues' = dues \cup {[request |-> r, quote |-> NoQuote, amount |-> amount]}
  /\ UNCHANGED <<requests, log, quotes, lapsed, seen>>

-----------------------------------------------------------------------------
StudentNext ==
  \E s \in Students, r \in Requests :
    \/ \E b \in Briefs : createDraft(s, r, b) \/ updateDraft(s, r, b)
    \/ submit(s, r)
    \/ cancel(s, r)
    \/ \E to \in requestStatuses : transitionStudentRequest(s, r, to)

AdminNext ==
  \E a \in Admins, r \in Requests :
    \/ \E b \in Briefs :
         \/ \E now \in BOOLEAN : createRequestForStudent(a, r, b, now)
         \/ updateRequestDetails(a, r, b)
    \/ \E to \in requestStatuses : transitionRequestStatus(a, r, to)
    \/ \E x \in Admins \cup {NoOne} : assignRequest(a, r, x)
    \/ \E q \in Quotes, m \in Amounts : createQuote(a, q, r, m)

QuoteNext ==
  \E q \in Quotes :
    \/ Lapse(q)
    \/ ExpireInstead(q)
    \/ \E s \in Students : acceptQuote(s, q) \/ rejectQuote(s, q)
    \/ \E a \in Admins : withdrawQuote(a, q)

OtherNext ==
  \E r \in Requests :
    \/ archivePendingRequests(r)
    \/ restorePendingRequest(r)
    \/ \E u \in Users : Read(u, r) \/ attachmentChange(u, r)
    \/ \E m \in Amounts : createDue(r, m)

Next == StudentNext \/ AdminNext \/ QuoteNext \/ OtherNext

Spec == Init /\ [][Next]_vars

-----------------------------------------------------------------------------
(***************************************************************************)
(* Properties.                                                             *)
(***************************************************************************)

\* The history of a request explains its row: its creation comes first, every
\* later version has the one change that made it, the record of a quote stands
\* under the version reached by then and changes nothing, each change of status
\* starts where the one before it ended, every change is a transition of the
\* matrix, and the last event has the row's version and status.
HistoryExplainsRow(r) ==
  LET e == log[r] IN
  IF ~Exists(r) THEN e = <<>>
  ELSE /\ Len(e) > 0
       /\ e[1].version = 1 /\ e[1].from = "DRAFT" /\ e[1].to = "DRAFT"
       /\ \A i \in 2 .. Len(e) :
            /\ e[i].version =
                 e[i - 1].version + (IF e[i].quote = NoQuote THEN 1 ELSE 0)
            /\ e[i].quote = NoQuote \/ e[i].from = e[i].to
            /\ e[i].from = e[i - 1].to
            /\ e[i].from = e[i].to \/ <<e[i].from, e[i].to>> \in requestTransitions
       /\ e[Len(e)].version = requests[r].version
       /\ e[Len(e)].to = requests[r].status

\* A request that left DRAFT other than by cancellation has its submission
\* and its accepted integrity policy on record, whichever of the four paths
\* out of DRAFT it took.
SubmissionOnRecord(r) ==
  Exists(r) /\ requests[r].status \notin {"DRAFT", "CANCELLED"}
    => requests[r].submitted

\* The row of every request is explained: by its history, and by the
\* submission on record.
HistoryExplainsRows ==
  \A r \in Requests : HistoryExplainsRow(r) /\ SubmissionOnRecord(r)

\* An accepted quote is billed by exactly one due, of the quoted amount and
\* on the quoted request, and no other quote is billed.
AcceptedQuoteBilledOnce ==
  \A q \in Quotes :
    IF quotes[q] # NoQuote /\ quotes[q].status = "ACCEPTED"
    THEN {d \in dues : d.quote = q} =
           {[request |-> quotes[q].request, quote |-> q,
             amount |-> quotes[q].amount]}
    ELSE \A d \in dues : d.quote # q

\* Nobody but its owner commits a request to a price: every due that came from
\* a quote has, in the history of its request, the owner's own QUOTED ->
\* ACCEPTED, whatever administrators did before and after it.
BilledByOwner ==
  \A d \in dues : d.quote # NoQuote =>
    \E i \in 1 .. Len(log[d.request]) :
      LET e == log[d.request][i] IN
      /\ <<e.from, e.to>> = <<"QUOTED", "ACCEPTED">>
      /\ e.actor = Owner[d.request]

\* A student is never offered two prices for one request.
OneOpenOffer ==
  \A r \in Requests : \A p, q \in PendingOn(r) : p = q

\* No answer to a quote, by anyone, reopens or bills a closed request: what a
\* terminal request's status is, and which of its quotes are billed, is final.
ClosedIsFinal ==
  [][\A r \in Requests :
       Exists(r) /\ requests[r].status \in Terminal =>
         /\ requests'[r].status = requests[r].status
         /\ \A d \in dues' \ dues : d.request = r => d.quote = NoQuote]_vars

\* No client overwrites what it has not seen: whoever changes a request's
\* status, fields or assignee had read exactly the row it replaces, unless
\* the change is the student's answer to an offer (which names the offer).
NoBlindWrite ==
  [][\A r \in Requests :
       LET u == log'[r][Len(log'[r])].actor
           answered == \E q \in PendingOn(r) :
                         quotes'[q].status \in {"ACCEPTED", "REJECTED"}
       IN /\ Exists(r)
          /\ \/ requests'[r].status # requests[r].status
             \/ requests'[r].brief # requests[r].brief
             \/ requests'[r].assignee # requests[r].assignee
          /\ ~answered
          => seen[u][r] = Snapshot(r)]_vars
=============================================================================
