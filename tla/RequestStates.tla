--------------------------- MODULE RequestStates ---------------------------
(***************************************************************************)
(* The workflow policy of a service request: the statuses, the matrix of   *)
(* transitions with the roles that may take each, and the statuses in      *)
(* which other components still act on a request.                          *)
(***************************************************************************)

requestStatuses ==
  {"DRAFT", "SUBMITTED", "UNDER_REVIEW", "WAITING_FOR_STUDENT", "QUOTED",
   "ACCEPTED", "IN_PROGRESS", "DELIVERED", "REVISION_REQUESTED",
   "COMPLETED", "CANCELLED", "REJECTED"}

\* Transitions a student, an administrator and the system may take.
studentOrStaff ==
  { <<"DRAFT", "SUBMITTED">>, <<"DRAFT", "CANCELLED">>,
    <<"SUBMITTED", "CANCELLED">>,
    <<"WAITING_FOR_STUDENT", "SUBMITTED">>,
    <<"WAITING_FOR_STUDENT", "CANCELLED">>,
    <<"QUOTED", "ACCEPTED">>, <<"QUOTED", "UNDER_REVIEW">>,
    <<"QUOTED", "CANCELLED">>,
    <<"ACCEPTED", "CANCELLED">>,
    <<"DELIVERED", "REVISION_REQUESTED">>, <<"DELIVERED", "COMPLETED">> }

\* Transitions of the staff alone.
staff ==
  { <<"SUBMITTED", "UNDER_REVIEW">>, <<"SUBMITTED", "REJECTED">>,
    <<"UNDER_REVIEW", "WAITING_FOR_STUDENT">>, <<"UNDER_REVIEW", "QUOTED">>,
    <<"UNDER_REVIEW", "IN_PROGRESS">>, <<"UNDER_REVIEW", "REJECTED">>,
    <<"UNDER_REVIEW", "CANCELLED">>,
    <<"WAITING_FOR_STUDENT", "UNDER_REVIEW">>,
    <<"WAITING_FOR_STUDENT", "REJECTED">>,
    <<"QUOTED", "REJECTED">>,
    <<"ACCEPTED", "IN_PROGRESS">>,
    <<"IN_PROGRESS", "WAITING_FOR_STUDENT">>, <<"IN_PROGRESS", "DELIVERED">>,
    <<"IN_PROGRESS", "CANCELLED">>,
    <<"REVISION_REQUESTED", "IN_PROGRESS">>,
    <<"REVISION_REQUESTED", "DELIVERED">> }

requestTransitions == studentOrStaff \cup staff

canTransitionRequest(from, to, role) ==
  <<from, to>> \in IF role = "STUDENT" THEN studentOrStaff
                                       ELSE requestTransitions

\* Statuses in which files may still be added, removed or scanned.
eligibleAttachmentStatus(status) ==
  status \notin {"COMPLETED", "CANCELLED", "REJECTED"}

\* Statuses an administrator may archive when they have gone idle.
isStalePendingStatus(status) ==
  status \in {"DRAFT", "SUBMITTED", "UNDER_REVIEW", "QUOTED"}

\* The statuses no transition leaves.
Terminal == {s \in requestStatuses : \A e \in requestTransitions : e[1] # s}
=============================================================================
