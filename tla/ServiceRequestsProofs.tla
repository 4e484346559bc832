----------------------- MODULE ServiceRequestsProofs -----------------------
(***************************************************************************)
(* Theorems of ServiceRequests, for every value of its constants: first    *)
(* that its state is well formed and that quotes are billed and offered    *)
(* once, then what the history says of the rows, and what nobody may do    *)
(* to them.                                                                *)
(***************************************************************************)
EXTENDS ServiceRequests, TLAPS

(***************************************************************************)
(* What the operations write.                                              *)
(***************************************************************************)

\* The statuses named in the operations are statuses.
LEMMA NamedStatuses ==
  /\ {"DRAFT", "SUBMITTED", "CANCELLED", "UNDER_REVIEW", "QUOTED", "ACCEPTED"}
       \subseteq requestStatuses
  /\ {"PENDING", "ACCEPTED", "REJECTED", "EXPIRED", "WITHDRAWN"} = QuoteStatuses
BY DEF requestStatuses, QuoteStatuses

\* An update takes a row to the next version and sets the field it is for.
LEMMA UpdatedRow ==
  ASSUME NEW row \in Request
  PROVE  /\ /\ Touched(row).version = row.version + 1
            /\ Touched(row).status = row.status
            /\ Touched(row).brief = row.brief
            /\ Touched(row).assignee = row.assignee
            /\ Touched(row).submitted = row.submitted
         /\ \A to \in requestStatuses :
              /\ Moved(row, to).version = row.version + 1
              /\ Moved(row, to).status = to
              /\ Moved(row, to).submitted = row.submitted
         /\ \A b \in Briefs :
              /\ Edited(row, b).version = row.version + 1
              /\ Edited(row, b).status = row.status
              /\ Edited(row, b).submitted = row.submitted
         /\ \A x \in Admins \cup {NoOne} :
              /\ Assigned(row, x).version = row.version + 1
              /\ Assigned(row, x).status = row.status
              /\ Assigned(row, x).submitted = row.submitted
         /\ /\ Submitted(row).version = row.version + 1
            /\ Submitted(row).status = "SUBMITTED"
            /\ Submitted(row).submitted = TRUE
BY DEF Request, Touched, Moved, Edited, Assigned, Submitted

\* Within the bound, the updated row is a row.
LEMMA UpdatedRowType ==
  ASSUME NEW row \in Request
  PROVE  /\ Within(Touched(row)) => Touched(row) \in Request
         /\ \A to \in requestStatuses :
              Within(Moved(row, to)) => Moved(row, to) \in Request
         /\ \A b \in Briefs :
              Within(Edited(row, b)) => Edited(row, b) \in Request
         /\ \A x \in Admins \cup {NoOne} :
              Within(Assigned(row, x)) => Assigned(row, x) \in Request
         /\ Within(Submitted(row)) => Submitted(row) \in Request
<1> DEFINE next == row.version + 1
<1>1. next <= MaxVersion => next \in Versions
  BY MaxVersionAssumption DEF Request, Versions, MaxVersionAssumption
<1>2. Within(Touched(row)) => Touched(row) \in Request
  BY <1>1, UpdatedRow DEF Within, Touched, Request
<1>3. ASSUME NEW to \in requestStatuses, Within(Moved(row, to))
      PROVE  Moved(row, to) \in Request
  BY <1>1, <1>3, UpdatedRow DEF Within, Moved, Request
<1>4. ASSUME NEW b \in Briefs, Within(Edited(row, b))
      PROVE  Edited(row, b) \in Request
  BY <1>1, <1>4, UpdatedRow DEF Within, Edited, Request
<1>5. ASSUME NEW x \in Admins \cup {NoOne}, Within(Assigned(row, x))
      PROVE  Assigned(row, x) \in Request
  BY <1>1, <1>5, UpdatedRow DEF Within, Assigned, Request
<1>6. Within(Submitted(row)) => Submitted(row) \in Request
  BY <1>1, UpdatedRow, NamedStatuses DEF Within, Submitted, Request
<1> QED
  BY <1>2, <1>3, <1>4, <1>5, <1>6

\* What the operations read about a request that exists, and about a quote
\* that can still be answered.
LEMMA RowTypes ==
  ASSUME TypeOK
  PROVE  /\ \A r \in Requests : Exists(r) => requests[r] \in Request
         /\ \A q \in Quotes : quotes[q] # NoQuote => quotes[q] \in Quote
         /\ \A q \in Quotes : Open(q) => /\ quotes[q].request \in Requests
                                         /\ Exists(quotes[q].request)
                                         /\ quotes[q] \in Quote
BY DEF TypeOK, Exists, Open, Quote

\* An event of an update is an event.
LEMMA EntryType ==
  ASSUME NEW old \in Request, NEW new \in Request, NEW u \in Users
  PROVE  Entry(old, new, u) \in Event
BY DEF Entry, Event, Request

\* So is the record of a quote.
LEMMA QuoteEntryType ==
  ASSUME NEW row \in Request, NEW u \in Users, NEW q \in Quotes
  PROVE  QuoteEntry(row, u, q) \in Event
BY DEF QuoteEntry, Event, Request

\* Advance writes a row and an event of the right type.
LEMMA AdvanceType ==
  ASSUME TypeOK, NEW r \in Requests, NEW u \in Users, NEW new \in Request,
         Exists(r), Advance(r, u, new)
  PROVE  /\ requests' \in [Requests -> Request \cup {NoRequest}]
         /\ log' \in [Requests -> Seq(Event)]
<1>1. Entry(requests[r], new, u) \in Event
  BY RowTypes, EntryType
<1>2. Append(log[r], Entry(requests[r], new, u)) \in Seq(Event)
  BY <1>1 DEF TypeOK
<1> QED
  BY <1>2 DEF Advance, TypeOK

\* AdvanceNoted writes a row and two events of the right type.
LEMMA AdvanceNotedType ==
  ASSUME TypeOK, NEW r \in Requests, NEW u \in Users, NEW new \in Request,
         NEW q \in Quotes, Exists(r), AdvanceNoted(r, u, new, q)
  PROVE  /\ requests' \in [Requests -> Request \cup {NoRequest}]
         /\ log' \in [Requests -> Seq(Event)]
<1>1. Entry(requests[r], new, u) \in Event /\ QuoteEntry(new, u, q) \in Event
  BY RowTypes, EntryType, QuoteEntryType
<1>2. Append(Append(log[r], Entry(requests[r], new, u)), QuoteEntry(new, u, q))
        \in Seq(Event)
  BY <1>1 DEF TypeOK
<1> QED
  BY <1>2 DEF AdvanceNoted, TypeOK

\* Noted writes an event of the right type.
LEMMA NotedType ==
  ASSUME TypeOK, NEW r \in Requests, NEW u \in Users, NEW q \in Quotes,
         Exists(r), Noted(r, u, q)
  PROVE  /\ requests' \in [Requests -> Request \cup {NoRequest}]
         /\ log' \in [Requests -> Seq(Event)]
<1>1. QuoteEntry(requests[r], u, q) \in Event
  BY RowTypes, QuoteEntryType
<1>2. Append(log[r], QuoteEntry(requests[r], u, q)) \in Seq(Event)
  BY <1>1 DEF TypeOK
<1> QED
  BY <1>2 DEF Noted, TypeOK

-----------------------------------------------------------------------------
(***************************************************************************)
(* Type correctness.                                                       *)
(***************************************************************************)

\* Every operation writes rows, events, quotes, dues and snapshots of the
\* types their tables have.
LEMMA TypeStep == TypeOK /\ [Next]_vars => TypeOK'
<1> SUFFICES ASSUME TypeOK, [Next]_vars PROVE TypeOK'
  OBVIOUS
<1>1. ASSUME NEW s \in Students, NEW r \in Requests, NEW b \in Briefs,
             createDraft(s, r, b)
      PROVE  TypeOK'
  <2>1. NewRequest("DRAFT", 1, b) \in Request
    BY <1>1, NamedStatuses, MaxVersionAssumption
    DEF createDraft, NewRequest, Within, Request, Versions, MaxVersionAssumption
  <2>2. [version |-> 1, from |-> "DRAFT", to |-> "DRAFT", actor |-> s,
         quote |-> NoQuote] \in Event
    BY <2>1, NamedStatuses DEF NewRequest, Request, Event, Users
  <2> QED
    BY <1>1, <2>1, <2>2 DEF createDraft, TypeOK
<1>2. ASSUME NEW s \in Students, NEW r \in Requests, NEW b \in Briefs,
             updateDraft(s, r, b)
      PROVE  TypeOK'
  <2>1. Exists(r) /\ requests[r] \in Request /\ s \in Users
    BY <1>2, RowTypes DEF updateDraft, Expected, Users
  <2>2. Advance(r, s, Edited(requests[r], b))
    BY <1>2 DEF updateDraft
  <2>3. Edited(requests[r], b) \in Request
    BY <2>1, <2>2, UpdatedRowType, NamedStatuses DEF Advance
  <2> QED
    BY <1>2, <2>1, <2>2, <2>3, AdvanceType DEF updateDraft, TypeOK
<1>3. ASSUME NEW s \in Students, NEW r \in Requests,
             submit(s, r)
      PROVE  TypeOK'
  <2>1. Exists(r) /\ requests[r] \in Request /\ s \in Users
    BY <1>3, RowTypes DEF submit, Expected, Users
  <2>2. Advance(r, s, Submitted(requests[r]))
    BY <1>3 DEF submit
  <2>3. Submitted(requests[r]) \in Request
    BY <2>1, <2>2, UpdatedRowType, NamedStatuses DEF Advance
  <2> QED
    BY <1>3, <2>1, <2>2, <2>3, AdvanceType DEF submit, TypeOK
<1>4. ASSUME NEW s \in Students, NEW r \in Requests,
             cancel(s, r)
      PROVE  TypeOK'
  <2>1. Exists(r) /\ requests[r] \in Request /\ s \in Users
    BY <1>4, RowTypes DEF cancel, Expected, Users
  <2>2. Advance(r, s, Moved(requests[r], "CANCELLED"))
    BY <1>4 DEF cancel
  <2>3. Moved(requests[r], "CANCELLED") \in Request
    BY <2>1, <2>2, UpdatedRowType, NamedStatuses DEF Advance
  <2> QED
    BY <1>4, <2>1, <2>2, <2>3, AdvanceType DEF cancel, TypeOK
<1>5. ASSUME NEW s \in Students, NEW r \in Requests, NEW to \in requestStatuses,
             transitionStudentRequest(s, r, to)
      PROVE  TypeOK'
  <2>1. Exists(r) /\ requests[r] \in Request /\ s \in Users
    BY <1>5, RowTypes DEF transitionStudentRequest, Expected, Users
  <2>2. Advance(r, s, Moved(requests[r], to))
    BY <1>5 DEF transitionStudentRequest
  <2>3. Moved(requests[r], to) \in Request
    BY <2>1, <2>2, UpdatedRowType, NamedStatuses DEF Advance
  <2> QED
    BY <1>5, <2>1, <2>2, <2>3, AdvanceType DEF transitionStudentRequest, TypeOK
<1>6. ASSUME NEW a \in Admins, NEW r \in Requests, NEW b \in Briefs,
             NEW now \in BOOLEAN, createRequestForStudent(a, r, b, now)
      PROVE  TypeOK'
  <2>1. CASE now
    <3>1. NewRequest("SUBMITTED", 2, b) \in Request
      BY <1>6, <2>1, NamedStatuses, MaxVersionAssumption
      DEF createRequestForStudent, NewRequest, Within, Request, Versions,
          MaxVersionAssumption
    <3>2. /\ [version |-> 1, from |-> "DRAFT", to |-> "DRAFT", actor |-> a,
              quote |-> NoQuote] \in Event
          /\ [version |-> 2, from |-> "DRAFT", to |-> "SUBMITTED", actor |-> a,
              quote |-> NoQuote] \in Event
      BY <3>1, NamedStatuses, MaxVersionAssumption
      DEF NewRequest, Request, Event, Users, Versions, MaxVersionAssumption
    <3>3. /\ requests' = [requests EXCEPT ![r] = NewRequest("SUBMITTED", 2, b)]
          /\ log' = [log EXCEPT ![r] =
               <<[version |-> 1, from |-> "DRAFT", to |-> "DRAFT", actor |-> a,
                  quote |-> NoQuote],
                 [version |-> 2, from |-> "DRAFT", to |-> "SUBMITTED", actor |-> a,
                  quote |-> NoQuote]>>]
          /\ UNCHANGED <<quotes, lapsed, dues, seen>>
      BY <1>6, <2>1, Zenon DEF createRequestForStudent
    <3> QED
      BY <3>1, <3>2, <3>3 DEF TypeOK
  <2>2. CASE ~now
    <3>1. NewRequest("DRAFT", 1, b) \in Request
      BY <1>6, <2>2, NamedStatuses, MaxVersionAssumption
      DEF createRequestForStudent, NewRequest, Within, Request, Versions,
          MaxVersionAssumption
    <3>2. [version |-> 1, from |-> "DRAFT", to |-> "DRAFT", actor |-> a,
           quote |-> NoQuote] \in Event
      BY <3>1, NamedStatuses DEF NewRequest, Request, Event, Users
    <3>3. /\ requests' = [requests EXCEPT ![r] = NewRequest("DRAFT", 1, b)]
          /\ log' = [log EXCEPT ![r] =
               <<[version |-> 1, from |-> "DRAFT", to |-> "DRAFT", actor |-> a,
                  quote |-> NoQuote]>>]
          /\ UNCHANGED <<quotes, lapsed, dues, seen>>
      BY <1>6, <2>2, Zenon DEF createRequestForStudent
    <3> QED
      BY <3>1, <3>2, <3>3 DEF TypeOK
  <2> QED
    BY <2>1, <2>2
<1>7. ASSUME NEW a \in Admins, NEW r \in Requests, NEW b \in Briefs,
             updateRequestDetails(a, r, b)
      PROVE  TypeOK'
  <2>1. Exists(r) /\ requests[r] \in Request /\ a \in Users
    BY <1>7, RowTypes DEF updateRequestDetails, Expected, Users
  <2>2. Advance(r, a, Edited(requests[r], b))
    BY <1>7 DEF updateRequestDetails
  <2>3. Edited(requests[r], b) \in Request
    BY <2>1, <2>2, UpdatedRowType, NamedStatuses DEF Advance
  <2> QED
    BY <1>7, <2>1, <2>2, <2>3, AdvanceType DEF updateRequestDetails, TypeOK
<1>8. ASSUME NEW a \in Admins, NEW r \in Requests, NEW to \in requestStatuses,
             transitionRequestStatus(a, r, to)
      PROVE  TypeOK'
  <2>1. Exists(r) /\ requests[r] \in Request /\ a \in Users
    BY <1>8, RowTypes DEF transitionRequestStatus, Expected, Users
  <2>2. Advance(r, a, Moved(requests[r], to))
    BY <1>8 DEF transitionRequestStatus
  <2>3. Moved(requests[r], to) \in Request
    BY <2>1, <2>2, UpdatedRowType, NamedStatuses DEF Advance
  <2> QED
    BY <1>8, <2>1, <2>2, <2>3, AdvanceType DEF transitionRequestStatus, TypeOK
<1>9. ASSUME NEW a \in Admins, NEW r \in Requests, NEW x \in Admins \cup {NoOne},
             assignRequest(a, r, x)
      PROVE  TypeOK'
  <2>1. Exists(r) /\ requests[r] \in Request /\ a \in Users
    BY <1>9, RowTypes DEF assignRequest, Expected, Users
  <2>2. Advance(r, a, Assigned(requests[r], x))
    BY <1>9 DEF assignRequest
  <2>3. Assigned(requests[r], x) \in Request
    BY <2>1, <2>2, UpdatedRowType, NamedStatuses DEF Advance
  <2> QED
    BY <1>9, <2>1, <2>2, <2>3, AdvanceType DEF assignRequest, TypeOK
<1>10. ASSUME NEW a \in Admins, NEW r \in Requests, NEW q \in Quotes,
              NEW m \in Amounts, createQuote(a, q, r, m)
       PROVE  TypeOK'
  <2> DEFINE row == requests[r]
             reviewed == Moved(row, "UNDER_REVIEW")
             quoted == Moved(reviewed, "QUOTED")
  <2>1. Exists(r) /\ row \in Request /\ a \in Users
    BY <1>10, RowTypes DEF createQuote, Expected, Users
  <2>2. quotes' \in [Quotes -> Quote \cup {NoQuote}]
    <3>1. [request |-> r, creator |-> a, amount |-> m, status |-> "PENDING"]
            \in Quote
      BY NamedStatuses DEF Quote
    <3>2. ASSUME NEW x \in PendingOn(r)
          PROVE  [quotes[x] EXCEPT !.status = "EXPIRED"] \in Quote
      <4>1. quotes[x] \in Quote
        BY RowTypes DEF PendingOn
      <4> QED
        BY <4>1, NamedStatuses DEF Quote
    <3> QED
      BY <1>10, <3>1, <3>2 DEF createQuote, TypeOK
  <2>3. /\ requests' \in [Requests -> Request \cup {NoRequest}]
        /\ log' \in [Requests -> Seq(Event)]
    <3>1. CASE /\ row.status \in {"SUBMITTED", "WAITING_FOR_STUDENT"}
               /\ Within(quoted)
               /\ requests' = [requests EXCEPT ![r] = quoted]
               /\ log' = [log EXCEPT ![r] =
                            @ \o <<Entry(row, reviewed, a),
                                   Entry(reviewed, quoted, a),
                                   QuoteEntry(quoted, a, q)>>]
      <4>1. row.version \in Nat /\ reviewed.version = row.version + 1
        BY <2>1, MaxVersionAssumption
        DEF Moved, Request, Versions, MaxVersionAssumption
      <4>2. reviewed \in Request
        <5>1. quoted.version = reviewed.version + 1
          BY <4>1 DEF Moved, Request
        <5>2. Within(reviewed)
          BY <3>1, <4>1, <5>1, MaxVersionAssumption
          DEF Within, MaxVersionAssumption
        <5> QED
          BY <2>1, <5>2, UpdatedRowType, NamedStatuses
      <4>3. quoted \in Request
        BY <3>1, <4>2, UpdatedRowType, NamedStatuses
      <4>4. /\ Entry(row, reviewed, a) \in Event
            /\ Entry(reviewed, quoted, a) \in Event
            /\ QuoteEntry(quoted, a, q) \in Event
        BY <2>1, <4>2, <4>3, EntryType, QuoteEntryType
      <4> HIDE DEF row, reviewed, quoted
      <4>5. log[r] \o <<Entry(row, reviewed, a), Entry(reviewed, quoted, a),
                        QuoteEntry(quoted, a, q)>> \in Seq(Event)
        BY <4>4 DEF TypeOK
      <4> QED
        BY <3>1, <4>3, <4>5 DEF TypeOK
    <3>2. CASE AdvanceNoted(r, a, Moved(row, "QUOTED"), q)
      <4>1. Moved(row, "QUOTED") \in Request
        BY <2>1, <3>2, UpdatedRowType, NamedStatuses DEF AdvanceNoted
      <4> QED
        BY <2>1, <3>2, <4>1, AdvanceNotedType
    <3>3. CASE Noted(r, a, q)
      BY <2>1, <3>3, NotedType
    <3> QED
      BY <1>10, <3>1, <3>2, <3>3 DEF createQuote
  <2> QED
    BY <1>10, <2>2, <2>3 DEF createQuote, TypeOK
<1>11. ASSUME NEW q \in Quotes, Lapse(q)
       PROVE  TypeOK'
  BY <1>11 DEF Lapse, TypeOK
<1>12. ASSUME NEW q \in Quotes, ExpireInstead(q)
       PROVE  TypeOK'
  <2>1. quotes[q] \in Quote
    BY <1>12, RowTypes DEF ExpireInstead
  <2>2. [quotes[q] EXCEPT !.status = "EXPIRED"] \in Quote
    BY <2>1, NamedStatuses DEF Quote
  <2> QED
    BY <1>12, <2>2 DEF ExpireInstead, TypeOK
<1>13. ASSUME NEW q \in Quotes, NEW u \in Users, Open(q),
              NEW outcome \in QuoteStatuses,
              NEW to \in requestStatuses, Close(q, u, outcome, to)
       PROVE  /\ requests' \in [Requests -> Request \cup {NoRequest}]
              /\ log' \in [Requests -> Seq(Event)]
              /\ quotes' \in [Quotes -> Quote \cup {NoQuote}]
  <2> DEFINE r == quotes[q].request
  <2>1. /\ quotes[q] \in Quote
        /\ r \in Requests
        /\ Exists(r)
        /\ requests[r] \in Request
    BY <1>13, RowTypes
  <2>2. [quotes[q] EXCEPT !.status = outcome] \in Quote
    BY <2>1 DEF Quote
  <2>3. AdvanceNoted(r, u, Moved(requests[r], to), q)
    BY <1>13 DEF Close
  <2>4. Moved(requests[r], to) \in Request
    BY <2>1, <2>3, UpdatedRowType DEF AdvanceNoted
  <2>5. quotes' = [quotes EXCEPT ![q] = [quotes[q] EXCEPT !.status = outcome]]
    BY <1>13 DEF Close
  <2> QED
    BY <2>1, <2>2, <2>3, <2>4, <2>5, AdvanceNotedType DEF TypeOK
<1>14. ASSUME NEW s \in Students, NEW q \in Quotes, acceptQuote(s, q)
       PROVE  TypeOK'
  <2>1. /\ Open(q)
        /\ Close(q, s, "ACCEPTED", "ACCEPTED")
    BY <1>14 DEF acceptQuote
  <2>2. quotes[q] \in Quote /\ s \in Users
    BY <2>1, RowTypes DEF Users
  <2>3. dues' \subseteq Due
    <3>1. [request |-> quotes[q].request, quote |-> q, amount |-> quotes[q].amount]
            \in Due
      BY <2>2 DEF Due, Quote
    <3> QED
      BY <1>14, <3>1 DEF acceptQuote, createFinanceDue, TypeOK
  <2> QED
    BY <1>13, <1>14, <2>1, <2>2, <2>3, NamedStatuses DEF acceptQuote, TypeOK
<1>15. ASSUME NEW s \in Students, NEW q \in Quotes, rejectQuote(s, q)
       PROVE  TypeOK'
  BY <1>13, <1>15, NamedStatuses DEF rejectQuote, Users, TypeOK
<1>16. ASSUME NEW a \in Admins, NEW q \in Quotes, withdrawQuote(a, q)
       PROVE  TypeOK'
  BY <1>13, <1>16, NamedStatuses DEF withdrawQuote, Users, TypeOK
<1>17. ASSUME NEW r \in Requests, archivePendingRequests(r)
       PROVE  TypeOK'
  <2>1. requests[r] \in Request
    BY <1>17, RowTypes DEF archivePendingRequests
  <2>2. Archived(requests[r], TRUE) \in Request /\ Archived(requests[r], FALSE) \in Request
    BY <2>1 DEF Archived, Request
  <2> QED
    BY <1>17, <2>2 DEF archivePendingRequests, TypeOK
<1>18. ASSUME NEW r \in Requests, restorePendingRequest(r)
       PROVE  TypeOK'
  <2>1. requests[r] \in Request
    BY <1>18, RowTypes DEF restorePendingRequest
  <2>2. Archived(requests[r], TRUE) \in Request /\ Archived(requests[r], FALSE) \in Request
    BY <2>1 DEF Archived, Request
  <2> QED
    BY <1>18, <2>2 DEF restorePendingRequest, TypeOK
<1>19. ASSUME NEW u \in Users, NEW r \in Requests, Read(u, r)
       PROVE  TypeOK'
  <2>1. Snapshot(r) \in SnapshotRecord
    <3>1. requests[r] \in Request
      BY <1>19, RowTypes DEF Read
    <3> QED
      BY <3>1 DEF Snapshot, SnapshotRecord, Request
  <2> QED
    BY <1>19, <2>1 DEF Read, TypeOK
<1>20. ASSUME NEW u \in Users, NEW r \in Requests, attachmentChange(u, r)
       PROVE  TypeOK'
  <2>1. Exists(r) /\ requests[r] \in Request
    BY <1>20, RowTypes DEF attachmentChange
  <2>2. Advance(r, u, Touched(requests[r]))
    BY <1>20 DEF attachmentChange
  <2>3. Touched(requests[r]) \in Request
    BY <2>1, <2>2, UpdatedRowType DEF Advance
  <2> QED
    BY <1>20, <2>1, <2>2, <2>3, AdvanceType DEF attachmentChange, TypeOK
<1>21. ASSUME NEW r \in Requests, NEW m \in Amounts, createDue(r, m)
       PROVE  TypeOK'
  <2>1. [request |-> r, quote |-> NoQuote, amount |-> m] \in Due
    BY DEF Due
  <2> QED
    BY <1>21, <2>1 DEF createDue, TypeOK
<1>22. CASE UNCHANGED vars
  BY <1>22 DEF vars, TypeOK
<1> QED
  BY <1>1, <1>2, <1>3, <1>4, <1>5, <1>6, <1>7, <1>8, <1>9, <1>10, <1>11, <1>12,
     <1>14, <1>15, <1>16, <1>17, <1>18, <1>19, <1>20, <1>21, <1>22
  DEF Next, StudentNext, AdminNext, QuoteNext, OtherNext

LEMMA TypeInit == Init => TypeOK
BY DEF Init, TypeOK

\* Every reachable row is well formed, whatever the requests, quotes, users
\* and amounts, and however many versions a request goes through.
THEOREM TypeCorrect == Spec => []TypeOK
<1> QED
  BY TypeInit, TypeStep, PTL DEF Spec

-----------------------------------------------------------------------------
(***************************************************************************)
(* Quotes and their dues.                                                  *)
(***************************************************************************)

\* The steps that touch no quote and no due.
QuotesUntouched == UNCHANGED <<quotes, dues>>

\* Of the operations only five touch a quote or a due.
LEMMA QuoteSteps ==
  ASSUME [Next]_vars
  PROVE  \/ QuotesUntouched
         \/ \E a \in Admins, r \in Requests, q \in Quotes, m \in Amounts :
              createQuote(a, q, r, m)
         \/ \E q \in Quotes : ExpireInstead(q)
         \/ \E s \in Students, q \in Quotes : acceptQuote(s, q)
         \/ \E s \in Students, q \in Quotes : rejectQuote(s, q)
         \/ \E a \in Admins, q \in Quotes : withdrawQuote(a, q)
         \/ \E r \in Requests, m \in Amounts : createDue(r, m)
<1>1. CASE UNCHANGED vars
  BY <1>1 DEF vars, QuotesUntouched
<1>2. CASE StudentNext
  BY <1>2 DEF StudentNext, createDraft, updateDraft, submit, cancel,
              transitionStudentRequest, QuotesUntouched
<1>3. CASE AdminNext
  <2>1. PICK a \in Admins, r \in Requests :
          \/ \E b \in Briefs :
               \/ \E now \in BOOLEAN : createRequestForStudent(a, r, b, now)
               \/ updateRequestDetails(a, r, b)
          \/ \E to \in requestStatuses : transitionRequestStatus(a, r, to)
          \/ \E x \in Admins \cup {NoOne} : assignRequest(a, r, x)
          \/ \E q \in Quotes, m \in Amounts : createQuote(a, q, r, m)
    BY <1>3, Zenon DEF AdminNext
  <2>2. CASE \E q \in Quotes, m \in Amounts : createQuote(a, q, r, m)
    BY <2>2, Zenon
  <2>3. CASE ~\E q \in Quotes, m \in Amounts : createQuote(a, q, r, m)
    BY <2>1, <2>3, Zenon DEF createRequestForStudent, updateRequestDetails,
                             transitionRequestStatus, assignRequest, QuotesUntouched
  <2> QED
    BY <2>2, <2>3
<1>4. CASE QuoteNext
  BY <1>4 DEF QuoteNext, Lapse, QuotesUntouched
<1>5. CASE OtherNext
  BY <1>5 DEF OtherNext, archivePendingRequests, restorePendingRequest, Read,
              attachmentChange, QuotesUntouched
<1> QED
  BY <1>1, <1>2, <1>3, <1>4, <1>5 DEF Next

\* Closing an open quote changes its status and nothing else of any quote.
LEMMA ClosedQuote ==
  ASSUME TypeOK, NEW q \in Quotes, NEW u, NEW outcome, NEW to,
         Open(q), Close(q, u, outcome, to)
  PROVE  /\ quotes[q] \in Quote
         /\ quotes[q].status = "PENDING"
         /\ quotes'[q] = [quotes[q] EXCEPT !.status = outcome]
         /\ \A x \in Quotes \ {q} : quotes'[x] = quotes[x]
BY RowTypes DEF Open, Close, TypeOK

\* What AcceptedQuoteBilledOnce says of one quote.
BilledRight(q) ==
  IF quotes[q] # NoQuote /\ quotes[q].status = "ACCEPTED"
  THEN {d \in dues : d.quote = q} =
         {[request |-> quotes[q].request, quote |-> q,
           amount |-> quotes[q].amount]}
  ELSE \A d \in dues : d.quote # q

\* The quote that changes is billed when, and only when, it is accepted.
LEMMA BilledStep ==
  TypeOK /\ AcceptedQuoteBilledOnce /\ [Next]_vars => AcceptedQuoteBilledOnce'
<1> SUFFICES ASSUME TypeOK, AcceptedQuoteBilledOnce, [Next]_vars,
                    NEW x \in Quotes
             PROVE  BilledRight(x)'
  BY DEF AcceptedQuoteBilledOnce, BilledRight
<1>0. BilledRight(x)
  BY DEF AcceptedQuoteBilledOnce, BilledRight
<1>1. CASE QuotesUntouched
  BY <1>0, <1>1 DEF QuotesUntouched, BilledRight
<1>2. ASSUME NEW a \in Admins, NEW r \in Requests, NEW q \in Quotes,
             NEW m \in Amounts, createQuote(a, q, r, m)
      PROVE  BilledRight(x)'
  <2>1. dues' = dues /\ quotes[q] = NoQuote
    BY <1>2 DEF createQuote
  <2>2. CASE x = q
    <3>1. quotes'[q] = [request |-> r, creator |-> a, amount |-> m,
                        status |-> "PENDING"]
      BY <1>2 DEF createQuote
    <3> QED
      BY <1>0, <2>1, <2>2, <3>1 DEF BilledRight
  <2>3. CASE x # q /\ x \in PendingOn(r) \cap lapsed
    <3>1. quotes'[x] = [quotes[x] EXCEPT !.status = "EXPIRED"]
      BY <1>2, <2>3 DEF createQuote
    <3>2. quotes[x] \in Quote /\ quotes[x].status = "PENDING"
      BY <2>3, RowTypes DEF PendingOn
    <3>3. quotes'[x].status = "EXPIRED"
      BY <3>1, <3>2 DEF Quote
    <3> QED
      BY <1>0, <2>1, <3>2, <3>3 DEF BilledRight
  <2>4. CASE x # q /\ x \notin PendingOn(r) \cap lapsed
    <3>1. quotes'[x] = quotes[x]
      BY <1>2, <2>4 DEF createQuote
    <3> QED
      BY <1>0, <2>1, <3>1 DEF BilledRight
  <2> QED
    BY <2>2, <2>3, <2>4
<1>3. ASSUME NEW q \in Quotes, ExpireInstead(q)
      PROVE  BilledRight(x)'
  <2>1. quotes[q] \in Quote /\ quotes[q].status = "PENDING" /\ dues' = dues
    BY <1>3, RowTypes DEF ExpireInstead
  <2>2. quotes'[q] = [quotes[q] EXCEPT !.status = "EXPIRED"]
    BY <1>3 DEF ExpireInstead, TypeOK
  <2>3. quotes'[q].status = "EXPIRED"
    BY <2>1, <2>2 DEF Quote
  <2>4. x # q => quotes'[x] = quotes[x]
    BY <1>3 DEF ExpireInstead, TypeOK
  <2> QED
    BY <1>0, <2>1, <2>3, <2>4 DEF BilledRight
<1>4. ASSUME NEW s \in Students, NEW q \in Quotes, acceptQuote(s, q)
      PROVE  BilledRight(x)'
  <2>1. /\ quotes[q] \in Quote
        /\ quotes[q].status = "PENDING"
        /\ quotes'[q] = [quotes[q] EXCEPT !.status = "ACCEPTED"]
        /\ \A y \in Quotes \ {q} : quotes'[y] = quotes[y]
    BY <1>4, ClosedQuote DEF acceptQuote
  <2>2. /\ quotes'[q].status = "ACCEPTED"
        /\ quotes'[q].request = quotes[q].request
        /\ quotes'[q].amount = quotes[q].amount
        /\ quotes'[q] # NoQuote
    <3>1. quotes'[q] \in Quote
      BY <2>1, NamedStatuses DEF Quote
    <3> QED
      BY <2>1, <3>1, NullAssumption DEF Quote, NullAssumption
  <2>3. \A d \in dues : d.quote # q
    BY <2>1, <1>4 DEF AcceptedQuoteBilledOnce
  <2>4. dues' = dues \cup {[request |-> quotes[q].request, quote |-> q,
                            amount |-> quotes[q].amount]}
    BY <1>4, <2>3 DEF acceptQuote, createFinanceDue
  <2>5. CASE x = q
    BY <2>2, <2>3, <2>4, <2>5 DEF BilledRight
  <2>6. CASE x # q
    <3>1. quotes'[x] = quotes[x]
      BY <2>1, <2>6
    <3>2. {d \in dues' : d.quote = x} = {d \in dues : d.quote = x}
      BY <2>4, <2>6
    <3> QED
      BY <1>0, <2>4, <2>6, <3>1, <3>2 DEF BilledRight
  <2> QED
    BY <2>5, <2>6
<1>5. ASSUME NEW u, NEW outcome, NEW to, NEW q \in Quotes,
             outcome # "ACCEPTED", dues' = dues,
             Open(q), Close(q, u, outcome, to)
      PROVE  BilledRight(x)'
  <2>1. /\ quotes[q] \in Quote
        /\ quotes[q].status = "PENDING"
        /\ quotes'[q] = [quotes[q] EXCEPT !.status = outcome]
        /\ \A y \in Quotes \ {q} : quotes'[y] = quotes[y]
    BY <1>5, ClosedQuote
  <2>2. quotes'[q].status = outcome
    BY <2>1 DEF Quote
  <2> QED
    BY <1>0, <1>5, <2>1, <2>2 DEF BilledRight
<1>6. ASSUME NEW s \in Students, NEW q \in Quotes, rejectQuote(s, q)
      PROVE  BilledRight(x)'
  BY <1>5, <1>6 DEF rejectQuote
<1>7. ASSUME NEW a \in Admins, NEW q \in Quotes, withdrawQuote(a, q)
      PROVE  BilledRight(x)'
  BY <1>5, <1>7 DEF withdrawQuote
<1>8. ASSUME NEW r \in Requests, NEW m \in Amounts, createDue(r, m)
      PROVE  BilledRight(x)'
  <2>1. /\ quotes' = quotes
        /\ dues' = dues \cup {[request |-> r, quote |-> NoQuote, amount |-> m]}
    BY <1>8 DEF createDue
  <2>2. x # NoQuote
    BY NullAssumption DEF NullAssumption
  <2>3. {d \in dues' : d.quote = x} = {d \in dues : d.quote = x}
    BY <2>1, <2>2
  <2> QED
    BY <1>0, <2>1, <2>2, <2>3 DEF BilledRight
<1> QED
  BY <1>1, <1>2, <1>3, <1>4, <1>6, <1>7, <1>8, QuoteSteps

\* However quotes are made, answered, withdrawn and expire, and whatever else
\* happens to their requests, every accepted quote is billed by one due of its
\* own amount and no other quote is billed.
THEOREM QuotesBilledOnce == Spec => []AcceptedQuoteBilledOnce
<1>1. Init => AcceptedQuoteBilledOnce
  BY DEF Init, AcceptedQuoteBilledOnce
<1> QED
  BY <1>1, TypeInit, TypeStep, BilledStep, PTL DEF Spec

-----------------------------------------------------------------------------
\* A quote is pending after a step only if it was before, or was just created
\* when nothing else was open.
LEMMA OfferStep == TypeOK /\ OneOpenOffer /\ [Next]_vars => OneOpenOffer'
<1> SUFFICES ASSUME TypeOK, OneOpenOffer, [Next]_vars
             PROVE  OneOpenOffer'
  OBVIOUS
<1>1. ASSUME \A x \in Quotes : quotes'[x] # quotes[x] /\ quotes'[x] # NoQuote =>
                 quotes'[x].status # "PENDING"
      PROVE  OneOpenOffer'
  BY <1>1 DEF OneOpenOffer, PendingOn
<1>2. CASE QuotesUntouched
  BY <1>2 DEF QuotesUntouched, OneOpenOffer, PendingOn
<1>3. ASSUME NEW a \in Admins, NEW r \in Requests, NEW q \in Quotes,
             NEW m \in Amounts, createQuote(a, q, r, m)
      PROVE  OneOpenOffer'
  <2>1. PendingOn(r) \subseteq lapsed /\ quotes[q] = NoQuote
    BY <1>3 DEF createQuote, NoneOpen
  <2>2. quotes'[q].request = r
    BY <1>3 DEF createQuote
  <2>3. ASSUME NEW x \in PendingOn(r)
        PROVE  quotes'[x].status = "EXPIRED"
    <3>1. x # q /\ quotes[x] \in Quote
      BY <2>1, RowTypes DEF PendingOn
    <3>2. quotes'[x] = [quotes[x] EXCEPT !.status = "EXPIRED"]
      BY <1>3, <2>1, <2>3, <3>1 DEF createQuote, PendingOn
    <3> QED
      BY <3>1, <3>2 DEF Quote
  <2>4. \A x \in Quotes \ (PendingOn(r) \cup {q}) : quotes'[x] = quotes[x]
    BY <1>3 DEF createQuote
  <2>5. PendingOn(r)' \subseteq {q}
    BY <2>3, <2>4 DEF PendingOn
  <2>6. ASSUME NEW o \in Requests \ {r}
        PROVE  PendingOn(o)' \subseteq PendingOn(o)
    BY <2>2, <2>3, <2>4 DEF PendingOn
  <2> QED
    BY <2>5, <2>6 DEF OneOpenOffer
<1>4. ASSUME NEW q \in Quotes, ExpireInstead(q)
      PROVE  OneOpenOffer'
  <2>1. quotes[q] \in Quote
    BY <1>4, RowTypes DEF ExpireInstead
  <2>2. /\ quotes'[q] = [quotes[q] EXCEPT !.status = "EXPIRED"]
        /\ \A x \in Quotes \ {q} : quotes'[x] = quotes[x]
    BY <1>4 DEF ExpireInstead, TypeOK
  <2>3. quotes'[q].status = "EXPIRED"
    BY <2>1, <2>2 DEF Quote
  <2> QED
    BY <1>1, <2>2, <2>3
<1>5. ASSUME NEW u, NEW outcome, NEW to, NEW q \in Quotes,
             outcome # "PENDING", Open(q), Close(q, u, outcome, to)
      PROVE  OneOpenOffer'
  <2>1. /\ quotes[q] \in Quote
        /\ quotes'[q] = [quotes[q] EXCEPT !.status = outcome]
        /\ \A y \in Quotes \ {q} : quotes'[y] = quotes[y]
    BY <1>5, ClosedQuote
  <2>2. quotes'[q].status = outcome
    BY <2>1 DEF Quote
  <2> QED
    BY <1>1, <1>5, <2>1, <2>2
<1>6. ASSUME NEW s \in Students, NEW q \in Quotes,
             acceptQuote(s, q) \/ rejectQuote(s, q)
      PROVE  OneOpenOffer'
  BY <1>5, <1>6 DEF acceptQuote, rejectQuote
<1>7. ASSUME NEW a \in Admins, NEW q \in Quotes, withdrawQuote(a, q)
      PROVE  OneOpenOffer'
  BY <1>5, <1>7 DEF withdrawQuote
<1>8. ASSUME NEW r \in Requests, NEW m \in Amounts, createDue(r, m)
      PROVE  OneOpenOffer'
  BY <1>8 DEF createDue, OneOpenOffer, PendingOn
<1> QED
  BY <1>2, <1>3, <1>4, <1>6, <1>7, <1>8, QuoteSteps

\* At most one quote of a request can be answered at any time.
THEOREM OneOffer == Spec => []OneOpenOffer
<1>1. Init => OneOpenOffer
  BY DEF Init, OneOpenOffer, PendingOn
<1> QED
  BY <1>1, TypeInit, TypeStep, OfferStep, PTL DEF Spec

(***************************************************************************)
(* The history explains the row.                                           *)
(***************************************************************************)

\* What HistoryExplainsRows says of one row and its events.
Legal(from, to) == from = to \/ <<from, to>> \in requestTransitions

Continues(f, e) ==
  /\ e.version = f.version + (IF e.quote = NoQuote THEN 1 ELSE 0)
  /\ e.quote = NoQuote \/ e.from = e.to
  /\ e.from = f.to
  /\ Legal(e.from, e.to)

Explains(e, row) ==
  /\ Len(e) > 0
  /\ e[1].version = 1 /\ e[1].from = "DRAFT" /\ e[1].to = "DRAFT"
  /\ \A i \in 2 .. Len(e) : Continues(e[i - 1], e[i])
  /\ e[Len(e)].version = row.version
  /\ e[Len(e)].to = row.status

OnRecord(row) == row.status \notin {"DRAFT", "CANCELLED"} => row.submitted

RowExplained(r) ==
  IF Exists(r) THEN Explains(log[r], requests[r]) /\ OnRecord(requests[r])
  ELSE log[r] = <<>>

\* The property, row by row.
LEMMA RowsExplained == HistoryExplainsRows <=> \A r \in Requests : RowExplained(r)
BY Zenon DEF HistoryExplainsRows, HistoryExplainsRow, SubmissionOnRecord, RowExplained,
       Explains, Continues, OnRecord, Legal

\* A row that may come after another one.
Follows(row, new) ==
  /\ new.version = row.version + 1
  /\ Legal(row.status, new.status)
  /\ OnRecord(row) => OnRecord(new)

\* What an event says.
LEMMA EntryFields ==
  ASSUME NEW old, NEW new, NEW u
  PROVE  /\ Entry(old, new, u).from = old.status
         /\ Entry(old, new, u).to = new.status
         /\ Entry(old, new, u).actor = u
BY DEF Entry

\* A history that one more event continues explains the row it leads to.
LEMMA OneMoreExplains ==
  ASSUME NEW row \in Request, NEW new, NEW d, NEW e \in Seq(Event),
         Explains(e, row), Continues(e[Len(e)], d),
         d.version = new.version, d.to = new.status
  PROVE  Explains(Append(e, d), new)
<1> DEFINE n == Len(e)
           f == Append(e, d)
<1>1. n \in Nat \ {0}
  BY DEF Explains
<1>2. /\ Len(f) = n + 1
      /\ f[n + 1] = d
      /\ \A i \in 1 .. n : f[i] = e[i]
  BY <1>1
<1>3. ASSUME NEW i \in 2 .. n + 1
      PROVE  Continues(f[i - 1], f[i])
  <2>1. CASE i = n + 1
    BY <1>1, <1>2, <2>1
  <2>2. CASE i \in 2 .. n
    <3>1. f[i] = e[i] /\ f[i - 1] = e[i - 1]
      BY <1>1, <1>2, <2>2
    <3> QED
      BY <2>2, <3>1 DEF Explains
  <2> QED
    BY <1>1, <2>1, <2>2
<1>4. f[1] = e[1]
  BY <1>1, <1>2
<1>5. f[1].version = 1 /\ f[1].from = "DRAFT" /\ f[1].to = "DRAFT"
  BY <1>4 DEF Explains
<1> HIDE DEF f
<1> QED
  BY <1>1, <1>2, <1>3, <1>5 DEF Explains

\* The event of an update goes on where the history ended.
LEMMA EntryExplains ==
  ASSUME NEW row \in Request, NEW new \in Request, NEW u \in Users,
         NEW e \in Seq(Event), Explains(e, row), Follows(row, new)
  PROVE  Explains(Append(e, Entry(row, new, u)), new)
<1>1. Continues(e[Len(e)], Entry(row, new, u))
  BY DEF Continues, Entry, Explains, Follows
<1> QED
  BY <1>1, OneMoreExplains DEF Entry

\* The record of a quote changes nothing.
LEMMA QuoteEntryExplains ==
  ASSUME NEW row \in Request, NEW u \in Users, NEW q \in Quotes,
         NEW e \in Seq(Event), Explains(e, row)
  PROVE  Explains(Append(e, QuoteEntry(row, u, q)), row)
<1>1. q # NoQuote
  BY NullAssumption DEF NullAssumption
<1>2. row.version + 0 = row.version
  BY MaxVersionAssumption DEF Request, Versions, MaxVersionAssumption
<1>3. Continues(e[Len(e)], QuoteEntry(row, u, q))
  BY <1>1, <1>2 DEF Continues, QuoteEntry, Explains, Legal
<1> QED
  BY <1>3, OneMoreExplains DEF QuoteEntry

-----------------------------------------------------------------------------
(***************************************************************************)
(* How rows and histories change.                                          *)
(***************************************************************************)

\* A row that exists goes on by one version and one event.
GoesOn(r, u, new) ==
  /\ Exists(r)
  /\ new \in Request
  /\ Follows(requests[r], new)
  /\ Advance(r, u, new)

\* A row that exists goes on for the sake of a quote, which is recorded.
Answers(r, u, new, q) ==
  /\ Exists(r)
  /\ new \in Request
  /\ Follows(requests[r], new)
  /\ AdvanceNoted(r, u, new, q)

\* Nothing leaves a cancelled request, and the transitions the operations
\* name are in the matrix.
LEMMA Matrix ==
  /\ \A to : <<"CANCELLED", to>> \notin requestTransitions
  /\ <<"DRAFT", "SUBMITTED">> \in requestTransitions
  /\ <<"SUBMITTED", "UNDER_REVIEW">> \in requestTransitions
  /\ <<"WAITING_FOR_STUDENT", "UNDER_REVIEW">> \in requestTransitions
  /\ <<"UNDER_REVIEW", "QUOTED">> \in requestTransitions
  /\ <<"QUOTED", "ACCEPTED">> \in requestTransitions
  /\ <<"QUOTED", "UNDER_REVIEW">> \in requestTransitions
  /\ studentOrStaff \subseteq requestTransitions
BY DEF requestTransitions, studentOrStaff, staff

\* A legal move keeps the submission on record, and so does any update that
\* leaves the status alone.
LEMMA MovesFollow ==
  ASSUME NEW row \in Request
  PROVE  /\ \A to \in requestStatuses :
              /\ <<row.status, to>> \in requestTransitions
              /\ row.status # "DRAFT" \/ SubmittedCheck(Moved(row, to))
              => Follows(row, Moved(row, to))
         /\ row.status = "DRAFT" => Follows(row, Submitted(row))
         /\ Follows(row, Touched(row))
         /\ \A b \in Briefs : Follows(row, Edited(row, b))
         /\ \A x \in Admins \cup {NoOne} : Follows(row, Assigned(row, x))
<1>1. ASSUME NEW to \in requestStatuses, <<row.status, to>> \in requestTransitions,
             row.status # "DRAFT" \/ SubmittedCheck(Moved(row, to))
      PROVE  Follows(row, Moved(row, to))
  <2>1. row.status # "CANCELLED"
    BY <1>1, Matrix
  <2> QED
    BY <1>1, <2>1, UpdatedRow DEF Follows, Legal, OnRecord, SubmittedCheck
<1>2. row.status = "DRAFT" => Follows(row, Submitted(row))
  BY UpdatedRow, Matrix DEF Follows, Legal, OnRecord
<1>3. Follows(row, Touched(row))
  BY UpdatedRow DEF Follows, Legal, OnRecord
<1>4. ASSUME NEW b \in Briefs PROVE Follows(row, Edited(row, b))
  BY UpdatedRow DEF Follows, Legal, OnRecord
<1>5. ASSUME NEW x \in Admins \cup {NoOne} PROVE Follows(row, Assigned(row, x))
  BY UpdatedRow DEF Follows, Legal, OnRecord
<1> QED
  BY <1>1, <1>2, <1>3, <1>4, <1>5

\* The operations of a student or an administrator that update a row go on
\* from it.
LEMMA UpdatesGoOn ==
  ASSUME TypeOK, NEW r \in Requests, NEW u \in Users,
         \/ \E b \in Briefs : updateDraft(u, r, b) \/ updateRequestDetails(u, r, b)
         \/ submit(u, r)
         \/ cancel(u, r)
         \/ \E to \in requestStatuses : \/ transitionStudentRequest(u, r, to)
                                        \/ transitionRequestStatus(u, r, to)
         \/ \E x \in Admins \cup {NoOne} : assignRequest(u, r, x)
         \/ attachmentChange(u, r)
  PROVE  \E new \in Request : GoesOn(r, u, new)
<1> DEFINE row == requests[r]
<1>1. Exists(r) /\ row \in Request
  BY RowTypes DEF updateDraft, updateRequestDetails, submit, cancel, Expected,
       transitionStudentRequest, transitionRequestStatus, assignRequest,
       attachmentChange
<1>2. ASSUME NEW b \in Briefs, updateDraft(u, r, b) \/ updateRequestDetails(u, r, b)
      PROVE  GoesOn(r, u, Edited(row, b))
  <2>1. Advance(r, u, Edited(row, b))
    BY <1>2 DEF updateDraft, updateRequestDetails
  <2> QED
    BY <1>1, <2>1, MovesFollow, UpdatedRowType DEF GoesOn, Advance
<1>3. ASSUME submit(u, r)
      PROVE  GoesOn(r, u, Submitted(row))
  <2>1. Advance(r, u, Submitted(row)) /\ row.status = "DRAFT"
    BY <1>3 DEF submit
  <2> QED
    BY <1>1, <2>1, MovesFollow, UpdatedRowType DEF GoesOn, Advance
<1>4. ASSUME cancel(u, r)
      PROVE  GoesOn(r, u, Moved(row, "CANCELLED"))
  <2>1. /\ Advance(r, u, Moved(row, "CANCELLED"))
        /\ <<row.status, "CANCELLED">> \in requestTransitions
    BY <1>4, Matrix DEF cancel, canTransitionRequest
  <2>2. SubmittedCheck(Moved(row, "CANCELLED"))
    <3>1. "CANCELLED" \in requestStatuses
      BY NamedStatuses
    <3>2. Moved(row, "CANCELLED").status = "CANCELLED"
      BY <1>1, <3>1, UpdatedRow
    <3> QED
      BY <3>2 DEF SubmittedCheck
  <2> QED
    BY <1>1, <2>1, <2>2, MovesFollow, UpdatedRowType, NamedStatuses
    DEF GoesOn, Advance
<1>5. ASSUME NEW to \in requestStatuses,
             transitionStudentRequest(u, r, to) \/ transitionRequestStatus(u, r, to)
      PROVE  GoesOn(r, u, Moved(row, to))
  <2>1. /\ Advance(r, u, Moved(row, to))
        /\ <<row.status, to>> \in requestTransitions
        /\ row.status # "DRAFT" \/ SubmittedCheck(Moved(row, to))
    BY <1>5, Matrix
    DEF transitionStudentRequest, transitionRequestStatus, canTransitionRequest
  <2> QED
    BY <1>1, <2>1, MovesFollow, UpdatedRowType DEF GoesOn, Advance
<1>6. ASSUME NEW x \in Admins \cup {NoOne}, assignRequest(u, r, x)
      PROVE  GoesOn(r, u, Assigned(row, x))
  <2>1. Advance(r, u, Assigned(row, x))
    BY <1>6 DEF assignRequest
  <2> QED
    BY <1>1, <2>1, MovesFollow, UpdatedRowType DEF GoesOn, Advance
<1>7. ASSUME attachmentChange(u, r)
      PROVE  GoesOn(r, u, Touched(row))
  <2>1. Advance(r, u, Touched(row))
    BY <1>7 DEF attachmentChange
  <2> QED
    BY <1>1, <2>1, MovesFollow, UpdatedRowType DEF GoesOn, Advance
<1> QED
  BY <1>2, <1>3, <1>4, <1>5, <1>6, <1>7, Zenon DEF GoesOn

\* So do the answers to a quote and its withdrawal, which record the quote.
LEMMA AnswersGoOn ==
  ASSUME TypeOK, NEW q \in Quotes, NEW u \in Users,
         NEW outcome, NEW to \in {"ACCEPTED", "UNDER_REVIEW"},
         Open(q), Close(q, u, outcome, to)
  PROVE  \E new \in Request : Answers(quotes[q].request, u, new, q)
<1> DEFINE r == quotes[q].request
           row == requests[r]
<1>1. r \in Requests /\ Exists(r) /\ row \in Request /\ row.status = "QUOTED"
  BY RowTypes DEF Open
<1>2. AdvanceNoted(r, u, Moved(row, to), q) /\ to \in requestStatuses
  BY NamedStatuses DEF Close
<1>3. Follows(row, Moved(row, to))
  BY <1>1, <1>2, Matrix, MovesFollow
<1> QED
  BY <1>1, <1>2, <1>3, UpdatedRowType DEF Answers, AdvanceNoted

\* A row is made, as a draft or submitted at once.
Opening(u) ==
  [version |-> 1, from |-> "DRAFT", to |-> "DRAFT", actor |-> u, quote |-> NoQuote]

Sent(u) ==
  [version |-> 2, from |-> "DRAFT", to |-> "SUBMITTED", actor |-> u,
   quote |-> NoQuote]

Made(r, u, b) ==
  /\ ~Exists(r)
  /\ \/ /\ Within(NewRequest("DRAFT", 1, b))
        /\ requests' = [requests EXCEPT ![r] = NewRequest("DRAFT", 1, b)]
        /\ log' = [log EXCEPT ![r] = <<Opening(u)>>]
     \/ /\ Within(NewRequest("SUBMITTED", 2, b))
        /\ requests' = [requests EXCEPT ![r] = NewRequest("SUBMITTED", 2, b)]
        /\ log' = [log EXCEPT ![r] = <<Opening(u), Sent(u)>>]

\* A row is archived or restored.
Filed(r, flag) ==
  /\ Exists(r)
  /\ requests' = [requests EXCEPT ![r] = Archived(@, flag)]
  /\ log' = log

\* A quote takes its request through review in one transaction.
ReviewedAndQuoted(r, a, q) ==
  LET row == requests[r]
      reviewed == Moved(row, "UNDER_REVIEW")
      quoted == Moved(reviewed, "QUOTED")
  IN
  /\ Exists(r)
  /\ row.status \in {"SUBMITTED", "WAITING_FOR_STUDENT"}
  /\ Within(quoted)
  /\ requests' = [requests EXCEPT ![r] = quoted]
  /\ log' = [log EXCEPT ![r] =
               @ \o <<Entry(row, reviewed, a), Entry(reviewed, quoted, a),
                      QuoteEntry(quoted, a, q)>>]

\* A quote is recorded on a row that exists.
Recorded(r, u, q) == Exists(r) /\ Noted(r, u, q)

\* There are no other ways to change a row or its history.
LEMMA RowSteps ==
  ASSUME TypeOK, [Next]_vars
  PROVE  \/ UNCHANGED <<requests, log>>
         \/ \E r \in Requests, u \in Users, b \in Briefs : Made(r, u, b)
         \/ \E r \in Requests, flag \in BOOLEAN : Filed(r, flag)
         \/ \E r \in Requests, a \in Users, q \in Quotes : ReviewedAndQuoted(r, a, q)
         \/ \E r \in Requests, u \in Users, q \in Quotes : Recorded(r, u, q)
         \/ \E r \in Requests, u \in Users, new \in Request : GoesOn(r, u, new)
         \/ \E r \in Requests, u \in Users, new \in Request, q \in Quotes :
              Answers(r, u, new, q)
<1> DEFINE Goal ==
       \/ UNCHANGED <<requests, log>>
       \/ \E r \in Requests, u \in Users, b \in Briefs : Made(r, u, b)
       \/ \E r \in Requests, flag \in BOOLEAN : Filed(r, flag)
       \/ \E r \in Requests, a \in Users, q \in Quotes : ReviewedAndQuoted(r, a, q)
       \/ \E r \in Requests, u \in Users, q \in Quotes : Recorded(r, u, q)
       \/ \E r \in Requests, u \in Users, new \in Request : GoesOn(r, u, new)
       \/ \E r \in Requests, u \in Users, new \in Request, q \in Quotes :
            Answers(r, u, new, q)
<1>1. ASSUME NEW s \in Students, NEW r \in Requests, NEW b \in Briefs,
             createDraft(s, r, b)
      PROVE  Made(r, s, b) /\ s \in Users
  BY <1>1 DEF createDraft, Made, Opening, Users
<1>2. ASSUME NEW a \in Admins, NEW r \in Requests, NEW b \in Briefs,
             NEW now \in BOOLEAN, createRequestForStudent(a, r, b, now)
      PROVE  Made(r, a, b) /\ a \in Users
  BY <1>2, Zenon DEF createRequestForStudent, Made, Opening, Sent, Users
<1>3. ASSUME NEW r \in Requests,
             archivePendingRequests(r) \/ restorePendingRequest(r)
      PROVE  \E flag \in BOOLEAN : Filed(r, flag)
  BY <1>3, Zenon DEF archivePendingRequests, restorePendingRequest, Filed
<1>4. ASSUME NEW a \in Admins, NEW r \in Requests, NEW q \in Quotes,
             NEW m \in Amounts, createQuote(a, q, r, m)
      PROVE  Goal
  <2> DEFINE row == requests[r]
  <2>1. Exists(r) /\ row \in Request /\ a \in Users
    BY <1>4, RowTypes DEF createQuote, Expected, Users
  <2>2. \/ ReviewedAndQuoted(r, a, q)
        \/ row.status = "UNDER_REVIEW" /\ AdvanceNoted(r, a, Moved(row, "QUOTED"), q)
        \/ Recorded(r, a, q)
    BY <1>4, <2>1, Zenon DEF createQuote, ReviewedAndQuoted, Recorded
  <2>3. CASE row.status = "UNDER_REVIEW" /\ AdvanceNoted(r, a, Moved(row, "QUOTED"), q)
    <3>1. Follows(row, Moved(row, "QUOTED"))
      BY <2>1, <2>3, Matrix, MovesFollow, NamedStatuses
    <3>2. /\ Answers(r, a, Moved(row, "QUOTED"), q)
          /\ Moved(row, "QUOTED") \in Request
      BY <2>1, <2>3, <3>1, UpdatedRowType, NamedStatuses DEF Answers, AdvanceNoted
    <3> QED
      BY <2>1, <3>2
  <2> QED
    BY <2>1, <2>2, <2>3
<1>5. ASSUME NEW q \in Quotes, Lapse(q) \/ ExpireInstead(q)
      PROVE  Goal
  BY <1>5 DEF Lapse, ExpireInstead
<1>6. ASSUME NEW u \in Users, NEW q \in Quotes,
             acceptQuote(u, q) \/ rejectQuote(u, q) \/ withdrawQuote(u, q)
      PROVE  Goal
  <2>1. \E outcome \in QuoteStatuses, to \in {"ACCEPTED", "UNDER_REVIEW"} :
           Open(q) /\ Close(q, u, outcome, to)
    BY <1>6, NamedStatuses DEF acceptQuote, rejectQuote, withdrawQuote
  <2>2. quotes[q].request \in Requests
    BY <2>1, RowTypes
  <2> QED
    BY <2>1, <2>2, AnswersGoOn
<1>7. ASSUME NEW r \in Requests,
             (\E u \in Users : Read(u, r)) \/ \E m \in Amounts : createDue(r, m)
      PROVE  Goal
  BY <1>7 DEF Read, createDue
<1>8. CASE UNCHANGED vars
  BY <1>8 DEF vars
<1>9. CASE StudentNext
  <2>1. ASSUME NEW s \in Students, NEW r \in Requests,
               \/ \E b \in Briefs : updateDraft(s, r, b)
               \/ submit(s, r)
               \/ cancel(s, r)
               \/ \E to \in requestStatuses : transitionStudentRequest(s, r, to)
        PROVE  Goal
    BY <2>1, UpdatesGoOn DEF Users
  <2> QED
    BY <1>1, <1>9, <2>1 DEF StudentNext
<1>10. CASE AdminNext
  <2>1. ASSUME NEW a \in Admins, NEW r \in Requests,
               \/ \E b \in Briefs : updateRequestDetails(a, r, b)
               \/ \E to \in requestStatuses : transitionRequestStatus(a, r, to)
               \/ \E x \in Admins \cup {NoOne} : assignRequest(a, r, x)
        PROVE  Goal
    BY <2>1, UpdatesGoOn DEF Users
  <2> QED
    BY <1>2, <1>4, <1>10, <2>1 DEF AdminNext
<1>11. CASE QuoteNext
  BY <1>5, <1>6, <1>11 DEF QuoteNext, Users
<1>12. CASE OtherNext
  <2>1. ASSUME NEW u \in Users, NEW r \in Requests, attachmentChange(u, r)
        PROVE  Goal
    BY <2>1, UpdatesGoOn
  <2>2. PICK r \in Requests :
          \/ archivePendingRequests(r) \/ restorePendingRequest(r)
          \/ \E u \in Users : Read(u, r)
          \/ \E u \in Users : attachmentChange(u, r)
          \/ \E m \in Amounts : createDue(r, m)
    BY <1>12, Zenon DEF OtherNext
  <2>3. CASE archivePendingRequests(r) \/ restorePendingRequest(r)
    BY <1>3, <2>3
  <2>4. CASE \/ \E u \in Users : Read(u, r)
             \/ \E m \in Amounts : createDue(r, m)
    BY <1>7, <2>4
  <2> QED
    BY <2>1, <2>2, <2>3, <2>4, Zenon
<1> QED
  BY <1>8, <1>9, <1>10, <1>11, <1>12 DEF Next

\* Three more events are added one after another.
LEMMA ThreeMore ==
  ASSUME NEW S, NEW e \in Seq(S), NEW f, NEW g, NEW h
  PROVE  /\ e \o <<f, g, h>> = Append(Append(Append(e, f), g), h)
         /\ LET t == e \o <<f, g, h>> IN t[Len(t)] = h
OBVIOUS

\* A row and a history that fit are all that the property asks for.
LEMMA Explained ==
  ASSUME NEW r \in Requests, requests'[r] \in Request,
         Explains(log'[r], requests'[r]), OnRecord(requests'[r])
  PROVE  RowExplained(r)'
BY NullAssumption DEF RowExplained, Exists, NullAssumption

\* Every way of changing a row leaves it explained.
LEMMA HistoryStep ==
  TypeOK /\ HistoryExplainsRows /\ [Next]_vars => HistoryExplainsRows'
<1> SUFFICES ASSUME TypeOK, HistoryExplainsRows, [Next]_vars, NEW x \in Requests
             PROVE  RowExplained(x)'
  BY Zenon DEF HistoryExplainsRows, HistoryExplainsRow, SubmissionOnRecord,
               RowExplained, Explains, Continues, OnRecord, Legal
<1>0. \A r \in Requests : RowExplained(r)
  BY RowsExplained
<1>1. CASE UNCHANGED <<requests, log>>
  BY <1>0, <1>1 DEF RowExplained, Exists
<1>2. ASSUME NEW r \in Requests, NEW u \in Users, NEW b \in Briefs, Made(r, u, b)
      PROVE  RowExplained(x)'
  <2>1. CASE x # r
    <3>1. requests'[x] = requests[x] /\ log'[x] = log[x]
      BY <1>2, <2>1 DEF Made, TypeOK
    <3> QED
      BY <1>0, <3>1 DEF RowExplained, Exists
  <2>2. CASE /\ Within(NewRequest("DRAFT", 1, b))
             /\ requests'[r] = NewRequest("DRAFT", 1, b)
             /\ log'[r] = <<Opening(u)>>
    <3>1. NewRequest("DRAFT", 1, b) \in Request
      BY <2>2, NamedStatuses, MaxVersionAssumption
      DEF NewRequest, Within, Request, Versions, MaxVersionAssumption
    <3>2. Explains(<<Opening(u)>>, NewRequest("DRAFT", 1, b))
      BY DEF Explains, Continues, Opening, NewRequest
    <3>3. OnRecord(NewRequest("DRAFT", 1, b))
      BY DEF OnRecord, NewRequest
    <3> QED
      BY <2>1, <2>2, <3>1, <3>2, <3>3, Explained
  <2>3. CASE /\ Within(NewRequest("SUBMITTED", 2, b))
             /\ requests'[r] = NewRequest("SUBMITTED", 2, b)
             /\ log'[r] = <<Opening(u), Sent(u)>>
    <3>1. NewRequest("SUBMITTED", 2, b) \in Request
      BY <2>3, NamedStatuses, MaxVersionAssumption
      DEF NewRequest, Within, Request, Versions, MaxVersionAssumption
    <3>2. Explains(log'[r], NewRequest("SUBMITTED", 2, b))
      BY <2>3, Matrix DEF Explains, Continues, Opening, Sent, NewRequest, Legal
    <3>3. OnRecord(NewRequest("SUBMITTED", 2, b))
      BY DEF OnRecord, NewRequest
    <3> QED
      BY <2>1, <2>3, <3>1, <3>2, <3>3, Explained
  <2>4. /\ requests \in [Requests -> Request \cup {NoRequest}]
        /\ log \in [Requests -> Seq(Event)]
    BY DEF TypeOK
  <2> QED
    BY <1>2, <2>1, <2>2, <2>3, <2>4 DEF Made
<1>3. ASSUME NEW r \in Requests, NEW flag \in BOOLEAN, Filed(r, flag)
      PROVE  RowExplained(x)'
  <2>1. requests[r] \in Request /\ Exists(r)
    BY <1>3, RowTypes DEF Filed
  <2>2. /\ Archived(requests[r], flag).status = requests[r].status
        /\ Archived(requests[r], flag).version = requests[r].version
        /\ Archived(requests[r], flag).submitted = requests[r].submitted
    BY <2>1 DEF Archived, Request
  <2>3. /\ requests'[r] = Archived(requests[r], flag)
        /\ x # r => requests'[x] = requests[x]
        /\ log' = log
    BY <1>3 DEF Filed, TypeOK
  <2>4. CASE x = r
    <3>1. Archived(requests[r], flag) \in Request
      BY <2>1 DEF Archived, Request
    <3>2. Explains(log[r], requests[r]) /\ OnRecord(requests[r])
      BY <1>0, <2>1 DEF RowExplained
    <3>3. /\ Explains(log[r], Archived(requests[r], flag))
          /\ OnRecord(Archived(requests[r], flag))
      BY <2>2, <3>2 DEF Explains, OnRecord
    <3> QED
      BY <2>3, <2>4, <3>1, <3>3, Explained
  <2>5. CASE x # r
    BY <1>0, <2>3, <2>5 DEF RowExplained, Exists
  <2> QED
    BY <2>4, <2>5
<1>4. ASSUME NEW r \in Requests, NEW u \in Users, NEW new \in Request,
             GoesOn(r, u, new)
      PROVE  RowExplained(x)'
  <2>1. /\ requests'[r] = new
        /\ log'[r] = Append(log[r], Entry(requests[r], new, u))
        /\ x # r => requests'[x] = requests[x] /\ log'[x] = log[x]
    BY <1>4 DEF GoesOn, Advance, TypeOK
  <2>2. /\ Exists(r)
        /\ requests[r] \in Request
        /\ log[r] \in Seq(Event)
        /\ Follows(requests[r], new)
    BY <1>4, RowTypes DEF GoesOn, TypeOK
  <2>3. Explains(log[r], requests[r]) /\ OnRecord(requests[r])
    BY <1>0, <2>2 DEF RowExplained
  <2>4. Explains(log'[r], new) /\ OnRecord(new)
    BY <2>1, <2>2, <2>3, EntryExplains DEF Follows
  <2>5. CASE x # r
    BY <1>0, <2>1, <2>5 DEF RowExplained, Exists
  <2> QED
    BY <2>1, <2>4, <2>5, Explained
<1>5. ASSUME NEW r \in Requests, NEW a \in Users, NEW q \in Quotes,
             ReviewedAndQuoted(r, a, q)
      PROVE  RowExplained(x)'
  <2> DEFINE row == requests[r]
             reviewed == Moved(row, "UNDER_REVIEW")
             quoted == Moved(reviewed, "QUOTED")
  <2>1. /\ Exists(r)
        /\ row \in Request
        /\ log[r] \in Seq(Event)
    BY <1>5, RowTypes DEF ReviewedAndQuoted, TypeOK
  <2>2. /\ row.status \in {"SUBMITTED", "WAITING_FOR_STUDENT"}
        /\ Within(quoted)
        /\ requests'[r] = quoted
        /\ log'[r] = log[r] \o <<Entry(row, reviewed, a), Entry(reviewed, quoted, a),
                                 QuoteEntry(quoted, a, q)>>
        /\ x # r => requests'[x] = requests[x] /\ log'[x] = log[x]
    BY <1>5 DEF ReviewedAndQuoted, TypeOK
  <2>3. reviewed \in Request /\ quoted \in Request
    <3>1. /\ row.version \in Nat
          /\ reviewed.version = row.version + 1
          /\ quoted.version = reviewed.version + 1
      BY <2>1, MaxVersionAssumption
      DEF Moved, Request, Versions, MaxVersionAssumption
    <3>2. Within(reviewed)
      BY <2>2, <3>1, MaxVersionAssumption DEF Within, MaxVersionAssumption
    <3> QED
      BY <2>1, <2>2, <3>2, UpdatedRowType, NamedStatuses
  <2>4. Follows(row, reviewed)
    BY <2>1, <2>2, Matrix, MovesFollow, NamedStatuses
  <2>5. Follows(reviewed, quoted)
    <3>1. reviewed.status = "UNDER_REVIEW"
      BY <2>1, UpdatedRow, NamedStatuses
    <3> QED
      BY <2>3, <3>1, Matrix, MovesFollow, NamedStatuses
  <2>6. Explains(log[r], row) /\ OnRecord(row)
    BY <1>0, <2>1 DEF RowExplained
  <2> HIDE DEF reviewed, quoted
  <2> DEFINE between == Append(log[r], Entry(row, reviewed, a))
  <2>7. Explains(between, reviewed) /\ between \in Seq(Event)
    <3>1. Entry(row, reviewed, a) \in Event
      BY <2>1, <2>3, EntryType
    <3> QED
      BY <2>1, <2>3, <2>4, <2>6, <3>1, EntryExplains
  <2> HIDE DEF between
  <2> DEFINE after == Append(between, Entry(reviewed, quoted, a))
  <2>8. Explains(after, quoted) /\ after \in Seq(Event)
    <3>1. Entry(reviewed, quoted, a) \in Event
      BY <2>3, EntryType
    <3> QED
      BY <2>3, <2>5, <2>7, <3>1, EntryExplains
  <2> HIDE DEF after
  <2>9. Explains(Append(after, QuoteEntry(quoted, a, q)), quoted)
    BY <2>3, <2>8, QuoteEntryExplains
  <2>10. log'[r] = Append(after, QuoteEntry(quoted, a, q))
    BY <2>1, <2>2, ThreeMore DEF after, between
  <2>11. Explains(log'[r], requests'[r]) /\ OnRecord(requests'[r])
    BY <2>2, <2>4, <2>5, <2>6, <2>9, <2>10 DEF Follows
  <2>12. CASE x # r
    BY <1>0, <2>2, <2>12 DEF RowExplained, Exists
  <2> QED
    BY <2>2, <2>3, <2>11, <2>12, Explained
<1>6. ASSUME NEW r \in Requests, NEW u \in Users, NEW q \in Quotes, Recorded(r, u, q)
      PROVE  RowExplained(x)'
  <2>1. /\ requests' = requests
        /\ log'[r] = Append(log[r], QuoteEntry(requests[r], u, q))
        /\ x # r => log'[x] = log[x]
    BY <1>6 DEF Recorded, Noted, TypeOK
  <2>2. requests[r] \in Request /\ log[r] \in Seq(Event) /\ Exists(r)
    BY <1>6, RowTypes DEF Recorded, TypeOK
  <2>3. Explains(log[r], requests[r]) /\ OnRecord(requests[r])
    BY <1>0, <2>2 DEF RowExplained
  <2>4. Explains(log'[r], requests[r])
    BY <2>1, <2>2, <2>3, QuoteEntryExplains
  <2>5. CASE x # r
    BY <1>0, <2>1, <2>5 DEF RowExplained, Exists
  <2> QED
    BY <2>1, <2>2, <2>3, <2>4, <2>5, Explained
<1>7. ASSUME NEW r \in Requests, NEW u \in Users, NEW new \in Request,
             NEW q \in Quotes, Answers(r, u, new, q)
      PROVE  RowExplained(x)'
  <2> DEFINE changed == Append(log[r], Entry(requests[r], new, u))
  <2>1. /\ requests'[r] = new
        /\ log'[r] = Append(changed, QuoteEntry(new, u, q))
        /\ x # r => requests'[x] = requests[x] /\ log'[x] = log[x]
    BY <1>7 DEF Answers, AdvanceNoted, TypeOK
  <2>2. /\ Exists(r)
        /\ requests[r] \in Request
        /\ log[r] \in Seq(Event)
        /\ Follows(requests[r], new)
    BY <1>7, RowTypes DEF Answers, TypeOK
  <2>3. Explains(log[r], requests[r]) /\ OnRecord(requests[r])
    BY <1>0, <2>2 DEF RowExplained
  <2>4. Explains(changed, new) /\ changed \in Seq(Event)
    <3>1. Entry(requests[r], new, u) \in Event
      BY <2>2, EntryType
    <3> QED
      BY <2>2, <2>3, <3>1, EntryExplains
  <2> HIDE DEF changed
  <2>5. Explains(log'[r], new) /\ OnRecord(new)
    BY <2>1, <2>2, <2>3, <2>4, QuoteEntryExplains DEF Follows
  <2>6. CASE x # r
    BY <1>0, <2>1, <2>6 DEF RowExplained, Exists
  <2> QED
    BY <2>1, <2>5, <2>6, Explained
<1> QED
  BY <1>1, <1>2, <1>3, <1>4, <1>5, <1>6, <1>7, RowSteps

\* Whatever students, administrators and file events do to a request, and in
\* whatever order, every version after the first has the one change that made
\* it, the records of quotes stand under the version reached by then, each event
\* starts where the one before it ended, every change of status is one of the
\* matrix, the last event has the row's version and status, and the submission
\* is on record.
THEOREM RowsHaveTheirHistory == Spec => []HistoryExplainsRows
<1>1. Init => HistoryExplainsRows
  BY DEF Init, HistoryExplainsRows, HistoryExplainsRow, SubmissionOnRecord, Exists
<1> QED
  BY <1>1, TypeInit, TypeStep, HistoryStep, PTL DEF Spec

-----------------------------------------------------------------------------
(***************************************************************************)
(* Closed requests.                                                        *)
(***************************************************************************)

\* The terminal statuses, as the matrix defines them.
LEMMA TerminalStatuses == Terminal = {"COMPLETED", "CANCELLED", "REJECTED"}
BY DEF Terminal, requestStatuses, requestTransitions, studentOrStaff, staff

\* A closed request keeps its status.
LEMMA ClosedKeepsStatus ==
  ASSUME TypeOK, [Next]_vars, NEW x \in Requests, Exists(x),
         requests[x].status \in Terminal
  PROVE  requests'[x].status = requests[x].status
<1>1. CASE UNCHANGED <<requests, log>>
  BY <1>1
<1>2. ASSUME NEW r \in Requests, NEW u \in Users, NEW b \in Briefs, Made(r, u, b)
      PROVE  requests'[x].status = requests[x].status
  <2>1. x # r
    BY <1>2 DEF Made
  <2> QED
    BY <1>2, <2>1 DEF Made, TypeOK
<1>3. ASSUME NEW r \in Requests, NEW flag \in BOOLEAN, Filed(r, flag)
      PROVE  requests'[x].status = requests[x].status
  <2>1. requests[r] \in Request
    BY <1>3, RowTypes DEF Filed
  <2>2. Archived(requests[r], flag).status = requests[r].status
    BY <2>1 DEF Archived, Request
  <2> QED
    BY <1>3, <2>2 DEF Filed, TypeOK
<1>4. ASSUME NEW r \in Requests, NEW u \in Users, NEW new \in Request,
             GoesOn(r, u, new) \/ \E q \in Quotes : Answers(r, u, new, q)
      PROVE  requests'[x].status = requests[x].status
  <2>1. /\ requests'[r] = new
        /\ x # r => requests'[x] = requests[x]
    BY <1>4 DEF GoesOn, Advance, Answers, AdvanceNoted, TypeOK
  <2>2. x = r => new.status = requests[x].status
    <3>1. \A e \in requestTransitions : e[1] \notin Terminal
      BY DEF Terminal
    <3>2. \A to : <<requests[x].status, to>> \notin requestTransitions
      BY <3>1
    <3> QED
      BY <1>4, <3>2 DEF GoesOn, Answers, Follows, Legal
  <2> QED
    BY <2>1, <2>2
<1>5. ASSUME NEW r \in Requests, NEW a \in Users, NEW q \in Quotes,
             ReviewedAndQuoted(r, a, q)
      PROVE  requests'[x].status = requests[x].status
  <2>1. x # r
    BY <1>5, TerminalStatuses DEF ReviewedAndQuoted
  <2> QED
    BY <1>5, <2>1 DEF ReviewedAndQuoted, TypeOK
<1>6. ASSUME NEW r \in Requests, NEW u \in Users, NEW q \in Quotes, Recorded(r, u, q)
      PROVE  requests'[x].status = requests[x].status
  BY <1>6 DEF Recorded, Noted
<1> QED
  BY <1>1, <1>2, <1>3, <1>4, <1>5, <1>6, RowSteps

\* A quote of a closed request brings no due.
LEMMA ClosedNotBilled ==
  ASSUME TypeOK, [Next]_vars, NEW x \in Requests, Exists(x),
         requests[x].status \in Terminal,
         NEW d \in dues' \ dues, d.request = x
  PROVE  d.quote = NoQuote
<1>1. CASE QuotesUntouched
  BY <1>1 DEF QuotesUntouched
<1>2. ASSUME NEW s \in Students, NEW q \in Quotes, acceptQuote(s, q)
      PROVE  FALSE
  <2>1. requests[quotes[q].request].status = "QUOTED"
    BY <1>2 DEF acceptQuote, Open
  <2>2. d = [request |-> quotes[q].request, quote |-> q, amount |-> quotes[q].amount]
    BY <1>2 DEF acceptQuote, createFinanceDue
  <2> QED
    BY <2>1, <2>2, TerminalStatuses
<1>3. ASSUME NEW r \in Requests, NEW m \in Amounts, createDue(r, m)
      PROVE  d.quote = NoQuote
  BY <1>3 DEF createDue
<1>4. ASSUME NEW a \in Admins, NEW r \in Requests, NEW q \in Quotes,
             NEW m \in Amounts, createQuote(a, q, r, m)
      PROVE  FALSE
  BY <1>4 DEF createQuote
<1>5. ASSUME NEW q \in Quotes, ExpireInstead(q)
      PROVE  FALSE
  BY <1>5 DEF ExpireInstead
<1>6. ASSUME NEW u, NEW q \in Quotes, rejectQuote(u, q) \/ withdrawQuote(u, q)
      PROVE  FALSE
  BY <1>6 DEF rejectQuote, withdrawQuote
<1> QED
  BY <1>1, <1>2, <1>3, <1>4, <1>5, <1>6, QuoteSteps

\* What became of a completed, cancelled or rejected request is final: no
\* later operation by anyone changes its status or bills one of its quotes.
THEOREM ClosedStaysClosed == Spec => ClosedIsFinal
<1> DEFINE A == \A r \in Requests :
       Exists(r) /\ requests[r].status \in Terminal =>
         /\ requests'[r].status = requests[r].status
         /\ \A d \in dues' \ dues : d.request = r => d.quote = NoQuote
<1>1. TypeOK /\ [Next]_vars => [A]_vars
  <2> SUFFICES ASSUME TypeOK, [Next]_vars PROVE A
    OBVIOUS
  <2> QED
    BY ClosedKeepsStatus, ClosedNotBilled
<1> QED
  BY <1>1, TypeInit, TypeStep, PTL DEF Spec, ClosedIsFinal

-----------------------------------------------------------------------------
(***************************************************************************)
(* Who committed a request to a price.                                     *)
(***************************************************************************)

\* Events are never rewritten.
LEMMA HistoryGrows ==
  ASSUME TypeOK, HistoryExplainsRows, [Next]_vars, NEW x \in Requests,
         NEW i \in 1 .. Len(log[x])
  PROVE  i \in 1 .. Len(log'[x]) /\ log'[x][i] = log[x][i]
<1>0. log[x] \in Seq(Event) /\ (~Exists(x) => log[x] = <<>>)
  BY RowsExplained DEF RowExplained, TypeOK
<1>1. CASE UNCHANGED <<requests, log>>
  BY <1>1
<1>2. ASSUME NEW r \in Requests, NEW u \in Users, NEW b \in Briefs, Made(r, u, b)
      PROVE  log'[x] = log[x]
  <2>1. x # r
    BY <1>0, <1>2 DEF Made
  <2> QED
    BY <1>2, <2>1 DEF Made, TypeOK
<1>3. ASSUME NEW r \in Requests, NEW flag \in BOOLEAN, Filed(r, flag)
      PROVE  log'[x] = log[x]
  BY <1>3 DEF Filed
<1>4. ASSUME NEW r \in Requests, NEW u \in Users, NEW new \in Request,
             GoesOn(r, u, new)
      PROVE  \/ log'[x] = log[x]
             \/ log'[x] = Append(log[x], Entry(requests[x], new, u))
  BY <1>4 DEF GoesOn, Advance, TypeOK
<1>5. ASSUME NEW r \in Requests, NEW a \in Users, NEW q \in Quotes,
             ReviewedAndQuoted(r, a, q)
      PROVE  \/ log'[x] = log[x]
             \/ \E e, f, g : log'[x] = log[x] \o <<e, f, g>>
  BY <1>5 DEF ReviewedAndQuoted, TypeOK
<1>6. ASSUME NEW r \in Requests, NEW u \in Users, NEW q \in Quotes, Recorded(r, u, q)
      PROVE  \/ log'[x] = log[x]
             \/ \E e : log'[x] = Append(log[x], e)
  BY <1>6 DEF Recorded, Noted, TypeOK
<1>7. ASSUME NEW r \in Requests, NEW u \in Users, NEW new \in Request,
             NEW q \in Quotes, Answers(r, u, new, q)
      PROVE  \/ log'[x] = log[x]
             \/ \E e, f : log'[x] = Append(Append(log[x], e), f)
  BY <1>7 DEF Answers, AdvanceNoted, TypeOK
<1>8. ASSUME NEW e, log'[x] = Append(log[x], e)
      PROVE  i \in 1 .. Len(log'[x]) /\ log'[x][i] = log[x][i]
  BY <1>0, <1>8
<1>9. ASSUME NEW e, NEW f, log'[x] = Append(Append(log[x], e), f)
      PROVE  i \in 1 .. Len(log'[x]) /\ log'[x][i] = log[x][i]
  BY <1>0, <1>9
<1>10. ASSUME NEW e, NEW f, NEW g, log'[x] = log[x] \o <<e, f, g>>
       PROVE  i \in 1 .. Len(log'[x]) /\ log'[x][i] = log[x][i]
  BY <1>0, <1>10
<1> QED
  BY <1>1, <1>2, <1>3, <1>4, <1>5, <1>8, <1>9, <1>6, <1>7, <1>10, RowSteps

\* What BilledByOwner asks of the request of a due.
OwnerAgreed(r) ==
  \E i \in 1 .. Len(log[r]) :
    /\ <<log[r][i].from, log[r][i].to>> = <<"QUOTED", "ACCEPTED">>
    /\ log[r][i].actor = Owner[r]

\* The step that makes a due of a quote writes the owner's acceptance.
LEMMA BilledByOwnerStep ==
  TypeOK /\ HistoryExplainsRows /\ BilledByOwner /\ [Next]_vars => BilledByOwner'
<1> SUFFICES ASSUME TypeOK, HistoryExplainsRows, BilledByOwner, [Next]_vars,
                    NEW d \in dues', d.quote # NoQuote
             PROVE  OwnerAgreed(d.request)'
  BY Zenon DEF BilledByOwner, OwnerAgreed
<1>1. CASE d \in dues
  <2>1. OwnerAgreed(d.request) /\ d.request \in Requests
    BY <1>1 DEF BilledByOwner, OwnerAgreed, TypeOK, Due
  <2> QED
    BY <2>1, HistoryGrows DEF OwnerAgreed
<1>2. CASE d \notin dues
  <2>1. ASSUME NEW s \in Students, NEW q \in Quotes, acceptQuote(s, q)
        PROVE  OwnerAgreed(d.request)'
    <3> DEFINE r == d.request
    <3>1. r = quotes[q].request
      BY <1>2, <2>1 DEF acceptQuote, createFinanceDue
    <3>2. /\ r \in Requests
          /\ log[r] \in Seq(Event)
          /\ requests[r] \in Request
          /\ requests[r].status = "QUOTED"
      BY <2>1, <3>1, RowTypes DEF acceptQuote, Open, TypeOK
    <3>3. /\ s = Owner[r]
          /\ log'[r] = Append(
               Append(log[r], Entry(requests[r], Moved(requests[r], "ACCEPTED"), s)),
               QuoteEntry(Moved(requests[r], "ACCEPTED"), s, q))
      BY <2>1, <3>1, <3>2 DEF acceptQuote, Close, AdvanceNoted, TypeOK
    <3> DEFINE n == Len(log[r]) + 1
    <3>4. /\ n \in 1 .. Len(log'[r])
          /\ log'[r][n] = Entry(requests[r], Moved(requests[r], "ACCEPTED"), s)
      BY <3>2, <3>3
    <3>5. /\ <<log'[r][n].from, log'[r][n].to>> = <<"QUOTED", "ACCEPTED">>
          /\ log'[r][n].actor = Owner[r]
      <4>1. Moved(requests[r], "ACCEPTED").status = "ACCEPTED"
        BY <3>2, UpdatedRow, NamedStatuses
      <4>2. /\ log'[r][n].from = requests[r].status
            /\ log'[r][n].to = Moved(requests[r], "ACCEPTED").status
            /\ log'[r][n].actor = s
        BY <3>4, EntryFields
      <4> QED
        BY <3>2, <3>3, <4>1, <4>2
    <3> HIDE DEF n, r
    <3>6. \E i \in 1 .. Len(log'[r]) :
            /\ <<log'[r][i].from, log'[r][i].to>> = <<"QUOTED", "ACCEPTED">>
            /\ log'[r][i].actor = Owner[r]
      BY <3>4, <3>5, Zenon
    <3> QED
      BY <3>6, Zenon DEF OwnerAgreed, r
  <2>2. ASSUME NEW r \in Requests, NEW m \in Amounts, createDue(r, m)
        PROVE  FALSE
    BY <1>2, <2>2 DEF createDue
  <2>3. ASSUME NEW a \in Admins, NEW r \in Requests, NEW q \in Quotes,
               NEW m \in Amounts, createQuote(a, q, r, m)
        PROVE  FALSE
    BY <1>2, <2>3 DEF createQuote
  <2>4. ASSUME NEW u, NEW q \in Quotes,
               ExpireInstead(q) \/ rejectQuote(u, q) \/ withdrawQuote(u, q)
        PROVE  FALSE
    BY <1>2, <2>4 DEF ExpireInstead, rejectQuote, withdrawQuote
  <2>5. CASE QuotesUntouched
    BY <1>2, <2>5 DEF QuotesUntouched
  <2> QED
    BY <2>1, <2>2, <2>3, <2>4, <2>5, QuoteSteps
<1> QED
  BY <1>1, <1>2

\* A due that came from a quote was agreed to by the owner of its request: the
\* owner's own acceptance is in the history and is never rewritten.
THEOREM OwnersCommit == Spec => []BilledByOwner
<1>1. Init => BilledByOwner /\ HistoryExplainsRows
  BY DEF Init, BilledByOwner, HistoryExplainsRows, HistoryExplainsRow,
         SubmissionOnRecord, Exists
<1> QED
  BY <1>1, TypeInit, TypeStep, HistoryStep, BilledByOwnerStep, PTL DEF Spec

-----------------------------------------------------------------------------
(***************************************************************************)
(* Nobody overwrites what it has not seen.                                 *)
(***************************************************************************)

\* What makes NoBlindWrite inductive: a client's snapshot is of a version the
\* row has had, and if the row still has that version it still is that row.
SnapshotIsOld(u, r) ==
  seen[u][r] # Unread =>
    /\ Exists(r)
    /\ seen[u][r].version <= requests[r].version
    /\ seen[u][r].version = requests[r].version => seen[u][r] = Snapshot(r)

SnapshotsAreOld == \A u \in Users, r \in Requests : SnapshotIsOld(u, r)

\* A row's version only grows, and its snapshot changes with the version only.
LEMMA VersionsGrow ==
  ASSUME TypeOK, [Next]_vars, NEW x \in Requests, Exists(x)
  PROVE  /\ Exists(x)'
         /\ \/ requests'[x].version > requests[x].version
            \/ Snapshot(x)' = Snapshot(x)
         /\ requests'[x].version >= requests[x].version
<1>0. requests[x] \in Request /\ requests[x].version \in Nat
  BY RowTypes, MaxVersionAssumption DEF Request, Versions, MaxVersionAssumption
<1>1. ASSUME requests'[x] = requests[x]
      PROVE  Exists(x)' /\ Snapshot(x)' = Snapshot(x)
  BY <1>1 DEF Exists, Snapshot
<1>2. ASSUME requests'[x] \in Request
      PROVE  Exists(x)'
  BY <1>2, NullAssumption DEF Exists, NullAssumption
<1>3. ASSUME NEW r \in Requests, NEW u \in Users, NEW b \in Briefs, Made(r, u, b)
      PROVE  requests'[x] = requests[x]
  BY <1>3 DEF Made, TypeOK
<1>4. ASSUME NEW r \in Requests, NEW flag \in BOOLEAN, Filed(r, flag)
      PROVE  \/ requests'[x] = requests[x]
             \/ Exists(x)' /\ Snapshot(x)' = Snapshot(x)
  <2>1. CASE x = r
    <3>1. requests'[x] = Archived(requests[x], flag)
      BY <1>4, <2>1 DEF Filed, TypeOK
    <3>2. requests'[x] \in Request /\ Snapshot(x)' = Snapshot(x)
      BY <1>0, <3>1 DEF Archived, Request, Snapshot
    <3> QED
      BY <1>2, <3>2
  <2> QED
    BY <1>4, <2>1 DEF Filed, TypeOK
<1>5. ASSUME NEW r \in Requests, NEW u \in Users, NEW new \in Request,
             GoesOn(r, u, new) \/ \E q \in Quotes : Answers(r, u, new, q)
      PROVE  \/ requests'[x] = requests[x]
             \/ /\ requests'[x] \in Request
                /\ requests'[x].version = requests[x].version + 1
  BY <1>5 DEF GoesOn, Answers, Follows, Advance, AdvanceNoted, TypeOK
<1>6. ASSUME NEW r \in Requests, NEW u \in Users, NEW q \in Quotes, Recorded(r, u, q)
      PROVE  requests'[x] = requests[x]
  BY <1>6 DEF Recorded, Noted
<1>7. ASSUME NEW r \in Requests, NEW a \in Users, NEW q \in Quotes,
             ReviewedAndQuoted(r, a, q)
      PROVE  \/ requests'[x] = requests[x]
             \/ /\ requests'[x] \in Request
                /\ requests'[x].version = requests[x].version + 2
  <2> DEFINE reviewed == Moved(requests[x], "UNDER_REVIEW")
             quoted == Moved(reviewed, "QUOTED")
  <2>1. CASE x = r
    <3>1. requests'[x] = quoted /\ Within(quoted)
      BY <1>7, <2>1 DEF ReviewedAndQuoted, TypeOK
    <3>2. quoted.version = requests[x].version + 2
      BY <1>0 DEF Moved, Request
    <3>3. quoted.version \in Versions
      BY <1>0, <3>1, <3>2, MaxVersionAssumption
      DEF Within, Versions, MaxVersionAssumption
    <3>4. quoted = [requests[x] EXCEPT !.version = quoted.version,
                                       !.status = "QUOTED"]
      BY <1>0 DEF Moved, Request
    <3> HIDE DEF quoted
    <3>5. quoted \in Request
      BY <1>0, <3>3, <3>4, NamedStatuses DEF Request
    <3> QED
      BY <3>1, <3>2, <3>5
  <2> QED
    BY <1>7, <2>1 DEF ReviewedAndQuoted, TypeOK
<1>8. ASSUME Snapshot(x)' = Snapshot(x)
      PROVE  requests'[x].version = requests[x].version
  BY <1>8 DEF Snapshot
<1> QED
  <2>1. \/ Exists(x)' /\ Snapshot(x)' = Snapshot(x)
        \/ Exists(x)' /\ \E k \in {1, 2} :
             requests'[x].version = requests[x].version + k
    BY <1>1, <1>2, <1>3, <1>4, <1>5, <1>7, <1>6, RowSteps
  <2> QED
    BY <1>0, <1>8, <2>1

\* What clients hold changes by reading alone.
LEMMA SeenSteps ==
  ASSUME [Next]_vars
  PROVE  seen' = seen \/ \E u \in Users, r \in Requests : Read(u, r)
<1>1. CASE UNCHANGED vars
  BY <1>1 DEF vars
<1>2. CASE StudentNext
  BY <1>2 DEF StudentNext, createDraft, updateDraft, submit, cancel,
              transitionStudentRequest
<1>3. CASE AdminNext
  <2>1. ASSUME NEW a \in Admins, NEW r \in Requests, NEW q \in Quotes,
               NEW m \in Amounts, createQuote(a, q, r, m)
        PROVE  seen' = seen
    BY <2>1 DEF createQuote
  <2>2. ASSUME NEW a \in Admins, NEW r \in Requests, NEW b \in Briefs,
               NEW now \in BOOLEAN, createRequestForStudent(a, r, b, now)
        PROVE  seen' = seen
    BY <2>2, Zenon DEF createRequestForStudent
  <2> QED
    BY <1>3, <2>1, <2>2 DEF AdminNext, updateRequestDetails,
                            transitionRequestStatus, assignRequest
<1>4. CASE QuoteNext
  BY <1>4 DEF QuoteNext, Lapse, ExpireInstead, acceptQuote, rejectQuote,
              withdrawQuote
<1>5. CASE OtherNext
  BY <1>5, Zenon DEF OtherNext, archivePendingRequests, restorePendingRequest,
                     attachmentChange, createDue
<1> QED
  BY <1>1, <1>2, <1>3, <1>4, <1>5 DEF Next

\* Snapshots only age.
LEMMA SnapshotStep ==
  TypeOK /\ SnapshotsAreOld /\ [Next]_vars => SnapshotsAreOld'
<1> SUFFICES ASSUME TypeOK, SnapshotsAreOld, [Next]_vars,
                    NEW u \in Users, NEW x \in Requests
             PROVE  SnapshotIsOld(u, x)'
  BY DEF SnapshotsAreOld
<1>0. SnapshotIsOld(u, x)
  BY DEF SnapshotsAreOld
<1>1. CASE seen'[u][x] = seen[u][x]
  <2>1. CASE seen[u][x] = Unread
    BY <1>1, <2>1 DEF SnapshotIsOld
  <2>2. CASE seen[u][x] # Unread
    <3>1. /\ Exists(x)
          /\ seen[u][x].version <= requests[x].version
          /\ seen[u][x].version = requests[x].version => seen[u][x] = Snapshot(x)
      BY <1>0, <2>2 DEF SnapshotIsOld
    <3>2. seen[u][x].version \in Nat /\ requests[x].version \in Nat
      BY <2>2, <3>1, RowTypes, MaxVersionAssumption
      DEF TypeOK, SnapshotRecord, Request, Versions, MaxVersionAssumption
    <3>3. /\ Exists(x)'
          /\ \/ requests'[x].version > requests[x].version
             \/ Snapshot(x)' = Snapshot(x)
          /\ requests'[x].version >= requests[x].version
      BY <3>1, VersionsGrow
    <3>4. TypeOK'
      BY TypeStep
    <3>5. requests'[x].version \in Nat
      BY <3>3, <3>4, MaxVersionAssumption
      DEF TypeOK, Exists, Request, Versions, MaxVersionAssumption
    <3>6. Snapshot(x)' = Snapshot(x) => requests'[x].version = requests[x].version
      BY DEF Snapshot
    <3> QED
      BY <1>1, <3>1, <3>2, <3>3, <3>5, <3>6 DEF SnapshotIsOld
  <2> QED
    BY <2>1, <2>2
<1>2. CASE seen'[u][x] # seen[u][x]
  <2>1. PICK v \in Users, r \in Requests : Read(v, r)
    BY <1>2, SeenSteps
  <2>2. /\ requests' = requests
        /\ Exists(r)
        /\ seen' = [seen EXCEPT ![v][r] = Snapshot(r)]
    BY <2>1 DEF Read
  <2>3. u = v /\ x = r
    BY <1>2, <2>2 DEF TypeOK
  <2>4. seen'[u][x] = Snapshot(x)
    BY <2>2, <2>3 DEF TypeOK
  <2>5. /\ Exists(x)'
        /\ Snapshot(x)' = Snapshot(x)
        /\ Snapshot(x).version = requests[x].version
        /\ requests[x].version \in Nat
    BY <2>2, <2>3, RowTypes, MaxVersionAssumption
    DEF Exists, Snapshot, Request, Versions, MaxVersionAssumption
  <2> QED
    BY <2>2, <2>4, <2>5 DEF SnapshotIsOld
<1> QED
  BY <1>1, <1>2

\* What a step does to the part of a request that decisions are based on.
Changed(x) ==
  /\ Exists(x)
  /\ \/ requests'[x].status # requests[x].status
     \/ requests'[x].brief # requests[x].brief
     \/ requests'[x].assignee # requests[x].assignee

Answered(x) ==
  \E q \in PendingOn(x) : quotes'[q].status \in {"ACCEPTED", "REJECTED"}

\* The step is u's, and u sent the version of the row.
WroteExpected(x, u) ==
  Expected(u, x) /\ log'[x][Len(log'[x])].actor = u

\* The event of an update names its author.
LEMMA AuthorNamed ==
  ASSUME TypeOK, NEW r \in Requests, NEW u, NEW new, Advance(r, u, new)
  PROVE  /\ log'[r][Len(log'[r])].actor = u
         /\ \A x \in Requests \ {r} : requests'[x] = requests[x]
<1>1. log'[r] = Append(log[r], Entry(requests[r], new, u)) /\ log[r] \in Seq(Event)
  BY DEF Advance, TypeOK
<1>2. log'[r][Len(log'[r])] = Entry(requests[r], new, u)
  BY <1>1
<1> QED
  BY <1>2 DEF Entry, Advance, TypeOK

\* So does the record of a quote after it.
LEMMA AuthorNotedToo ==
  ASSUME TypeOK, NEW r \in Requests, NEW u, NEW new, NEW q,
         AdvanceNoted(r, u, new, q)
  PROVE  /\ log'[r][Len(log'[r])].actor = u
         /\ \A x \in Requests \ {r} : requests'[x] = requests[x]
<1>1. /\ log'[r] = Append(Append(log[r], Entry(requests[r], new, u)),
                          QuoteEntry(new, u, q))
      /\ log[r] \in Seq(Event)
  BY DEF AdvanceNoted, TypeOK
<1>2. log'[r][Len(log'[r])] = QuoteEntry(new, u, q)
  BY <1>1
<1> QED
  BY <1>2 DEF QuoteEntry, AdvanceNoted, TypeOK

\* Whoever changes a request, other than by answering an offer, sent the
\* version of the row it changes.
LEMMA WritesAreExpected ==
  ASSUME TypeOK, [Next]_vars, NEW x \in Requests, Changed(x), ~Answered(x)
  PROVE  \E u \in Users : WroteExpected(x, u)
<1>1. ASSUME requests' = requests
      PROVE  FALSE
  BY <1>1 DEF Changed
<1>2. ASSUME NEW r \in Requests, NEW u \in Users, NEW new,
             Expected(u, r),
             Advance(r, u, new) \/ \E q \in Quotes : AdvanceNoted(r, u, new, q)
      PROVE  WroteExpected(x, u)
  <2>1. x = r
    BY <1>2, AuthorNamed, AuthorNotedToo DEF Changed
  <2> QED
    BY <1>2, <2>1, AuthorNamed, AuthorNotedToo DEF WroteExpected
<1>3. ASSUME NEW r \in Requests, ~Exists(r),
             \A y \in Requests \ {r} : requests'[y] = requests[y]
      PROVE  FALSE
  BY <1>3 DEF Changed
<1>4. ASSUME NEW s \in Students, NEW r \in Requests, NEW b \in Briefs,
             createDraft(s, r, b)
      PROVE  FALSE
  BY <1>3, <1>4 DEF createDraft, TypeOK
<1>5. ASSUME NEW a \in Admins, NEW r \in Requests, NEW b \in Briefs,
             NEW now \in BOOLEAN, createRequestForStudent(a, r, b, now)
      PROVE  FALSE
  <2>1. /\ ~Exists(r)
        /\ \E new : requests' = [requests EXCEPT ![r] = new]
    BY <1>5, Zenon DEF createRequestForStudent
  <2> QED
    BY <1>3, <2>1 DEF TypeOK
<1>6. ASSUME NEW r \in Requests,
             archivePendingRequests(r) \/ restorePendingRequest(r)
      PROVE  FALSE
  <2>1. \E flag \in BOOLEAN : Filed(r, flag)
    BY <1>6, Zenon DEF archivePendingRequests, restorePendingRequest, Filed
  <2>2. requests[r] \in Request
    BY <2>1, RowTypes DEF Filed
  <2>3. \A flag \in BOOLEAN :
          /\ Archived(requests[r], flag).status = requests[r].status
          /\ Archived(requests[r], flag).brief = requests[r].brief
          /\ Archived(requests[r], flag).assignee = requests[r].assignee
    BY <2>2 DEF Archived, Request
  <2> QED
    BY <2>1, <2>3 DEF Changed, Filed, TypeOK
<1>7. ASSUME NEW u \in Users, NEW r \in Requests, attachmentChange(u, r)
      PROVE  FALSE
  <2>1. Advance(r, u, Touched(requests[r])) /\ requests[r] \in Request
    BY <1>7, RowTypes DEF attachmentChange
  <2>2. requests'[r] = Touched(requests[r])
    BY <2>1 DEF Advance, TypeOK
  <2>3. /\ requests'[r].status = requests[r].status
        /\ requests'[r].brief = requests[r].brief
        /\ requests'[r].assignee = requests[r].assignee
    BY <2>1, <2>2, UpdatedRow
  <2> QED
    BY <2>1, <2>3, AuthorNamed DEF Changed
<1>8. ASSUME NEW s, NEW q \in Quotes, acceptQuote(s, q) \/ rejectQuote(s, q)
      PROVE  FALSE
  <2> DEFINE r == quotes[q].request
  <2>1. PICK outcome \in {"ACCEPTED", "REJECTED"}, to \in requestStatuses :
          Open(q) /\ Close(q, s, outcome, to)
    BY <1>8, NamedStatuses DEF acceptQuote, rejectQuote
  <2>2. r \in Requests /\ quotes[q] \in Quote
    BY <2>1, RowTypes
  <2>3. x = r
    BY <2>1, <2>2, AuthorNotedToo DEF Close, Changed
  <2>4. quotes'[q].status = outcome
    BY <2>1, <2>2 DEF Close, TypeOK, Quote
  <2>5. q \in PendingOn(x)
    BY <2>1, <2>3 DEF PendingOn, Open
  <2> QED
    BY <2>4, <2>5 DEF Answered
<1>9. ASSUME NEW a \in Admins, NEW q \in Quotes, withdrawQuote(a, q)
      PROVE  WroteExpected(x, a)
  BY <1>2, <1>9, RowTypes DEF withdrawQuote, Close, Users
<1>10. ASSUME NEW a \in Admins, NEW r \in Requests, NEW q \in Quotes,
              NEW m \in Amounts, createQuote(a, q, r, m)
       PROVE  WroteExpected(x, a)
  <2> DEFINE row == requests[r]
             reviewed == Moved(row, "UNDER_REVIEW")
             quoted == Moved(reviewed, "QUOTED")
  <2>1. CASE /\ requests' = [requests EXCEPT ![r] = quoted]
             /\ log' = [log EXCEPT ![r] =
                          @ \o <<Entry(row, reviewed, a), Entry(reviewed, quoted, a),
                                 QuoteEntry(quoted, a, q)>>]
    <3>1. x = r
      BY <2>1 DEF Changed, TypeOK
    <3> HIDE DEF row, reviewed, quoted
    <3>2. /\ log'[r] = log[r] \o <<Entry(row, reviewed, a), Entry(reviewed, quoted, a),
                                   QuoteEntry(quoted, a, q)>>
          /\ log[r] \in Seq(Event)
      BY <2>1 DEF TypeOK
    <3>3. log'[r][Len(log'[r])] = QuoteEntry(quoted, a, q)
      BY <3>2, ThreeMore
    <3>4. log'[r][Len(log'[r])].actor = a
      BY <3>3 DEF QuoteEntry
    <3> QED
      BY <1>10, <3>1, <3>4 DEF createQuote, WroteExpected
  <2>2. CASE AdvanceNoted(r, a, Moved(row, "QUOTED"), q)
    BY <1>2, <1>10, <2>2 DEF createQuote, Users
  <2>3. CASE Noted(r, a, q)
    BY <1>1, <2>3 DEF Noted
  <2> QED
    BY <1>10, <2>1, <2>2, <2>3, Zenon DEF createQuote
<1>11. ASSUME NEW u \in Users, NEW r \in Requests,
              \/ \E b \in Briefs : updateDraft(u, r, b) \/ updateRequestDetails(u, r, b)
              \/ submit(u, r)
              \/ cancel(u, r)
              \/ \E to \in requestStatuses : \/ transitionStudentRequest(u, r, to)
                                             \/ transitionRequestStatus(u, r, to)
              \/ \E y \in Admins \cup {NoOne} : assignRequest(u, r, y)
       PROVE  WroteExpected(x, u)
  <2>1. Expected(u, r) /\ \E new : Advance(r, u, new)
    BY <1>11, Zenon DEF updateDraft, updateRequestDetails, submit, cancel,
         transitionStudentRequest, transitionRequestStatus, assignRequest
  <2> QED
    BY <1>2, <2>1
<1>12. CASE StudentNext
  BY <1>4, <1>11, <1>12 DEF StudentNext, Users
<1>13. CASE AdminNext
  BY <1>5, <1>10, <1>11, <1>13 DEF AdminNext, Users
<1>14. CASE QuoteNext
  BY <1>1, <1>8, <1>9, <1>14 DEF QuoteNext, Lapse, ExpireInstead, Users
<1>15. CASE OtherNext
  BY <1>1, <1>6, <1>7, <1>15 DEF OtherNext, Read, createDue
<1>16. CASE UNCHANGED vars
  BY <1>1, <1>16 DEF vars
<1> QED
  BY <1>12, <1>13, <1>14, <1>15, <1>16 DEF Next

\* Whoever changes a request's status, fields or assignee had read exactly the
\* row it replaces, unless it is the student answering an offer.
THEOREM NobodyWritesBlind == Spec => NoBlindWrite
<1> DEFINE A == \A r \in Requests :
       LET u == log'[r][Len(log'[r])].actor
           answered == \E q \in PendingOn(r) :
                         quotes'[q].status \in {"ACCEPTED", "REJECTED"}
       IN /\ Exists(r)
          /\ \/ requests'[r].status # requests[r].status
             \/ requests'[r].brief # requests[r].brief
             \/ requests'[r].assignee # requests[r].assignee
          /\ ~answered
          => seen[u][r] = Snapshot(r)
<1>1. Init => SnapshotsAreOld
  BY DEF Init, SnapshotsAreOld, SnapshotIsOld
<1>2. TypeOK /\ SnapshotsAreOld /\ [Next]_vars => [A]_vars
  <2> SUFFICES ASSUME TypeOK, SnapshotsAreOld, [Next]_vars,
                      NEW r \in Requests, Changed(r), ~Answered(r)
               PROVE  seen[log'[r][Len(log'[r])].actor][r] = Snapshot(r)
    BY Zenon DEF Changed, Answered
  <2>1. PICK u \in Users : WroteExpected(r, u)
    BY WritesAreExpected
  <2>2. seen[u][r] = Snapshot(r)
    BY <2>1 DEF WroteExpected, Expected, SnapshotsAreOld, SnapshotIsOld
  <2> QED
    BY <2>1, <2>2 DEF WroteExpected
<1> QED
  BY <1>1, <1>2, TypeInit, TypeStep, SnapshotStep, PTL DEF Spec, NoBlindWrite
=============================================================================
