------------------------------ MODULE Accounts ------------------------------
(***************************************************************************)
(* AuthService: accounts and their passwords, the sessions opened under    *)
(* them, the single-use links that verify an address or reset a password,  *)
(* the recovery of a password through WhatsApp support, and the roles.     *)
(*                                                                         *)
(* The users row is what the transactions of one account lock, so each     *)
(* transaction is one action.  What runs before a transaction, the reading *)
(* of a password hash, the authentication of a session, the first look at  *)
(* a link, is an action of its own, and other calls come in between.       *)
(*                                                                         *)
(* A password is its version: hashes are salted, so none comes back.       *)
(* Rows are in the order of their creation and are referred to by place,   *)
(* 0 being NULL.  The two expiries of a session are one.                   *)
(*                                                                         *)
(* Variants whose name has a suffix after an underscore are mistakes for   *)
(* the runs to catch; no action uses them.                                 *)
(***************************************************************************)
EXTENDS Naturals, Sequences, FiniteSets

CONSTANTS
  Users,         \* the people: addresses and numbers that may be registered
  Calls,         \* calls the servers handle at the same time
  MaxPasswords,  \* bound: passwords of one account
  MaxSessions,   \* bound: sessions ever opened by each person
  MaxLinks,      \* bound: links ever made, of each kind
  MaxRecoveries  \* bound: recoveries ever asked for

ASSUME BoundsAssumption ==
  /\ MaxPasswords \in Nat \ {0} /\ {MaxLinks, MaxRecoveries} \subseteq Nat
  /\ MaxSessions \in [Users -> Nat]

CONSTANT NoUser
ASSUME NoUserAssumption == NoUser \notin Users

VARIABLES
  user,     \* the users row of each person, with user_credentials
  roles,    \* user_roles
  session,  \* user_sessions
  verify,   \* email_verification_tokens
  reset,    \* password_reset_tokens
  recovery, \* phone_password_reset_requests
  call      \* what each call holds between two of its steps

links == <<verify, reset>>
rows == <<user, roles, session, links, recovery>>
vars == <<rows, call>>

-----------------------------------------------------------------------------
Account ==
  [status : {"NONE", "PENDING_VERIFICATION", "ACTIVE", "SUSPENDED"},
   email : BOOLEAN, emailVerified : BOOLEAN,
   phone : {"NOT_REQUIRED", "PENDING", "VERIFIED"},
   password : 0 .. MaxPasswords]

Unregistered ==
  [status |-> "NONE", email |-> FALSE, emailVerified |-> FALSE,
   phone |-> "NOT_REQUIRED", password |-> 0]

\* Roles and password are no columns: what the session was opened with,
\* forgotten when it is OVER: revoked, expired or deleted.
Session ==
  [user : Users, status : {"LIVE", "OVER"},
   password : 0 .. MaxPasswords, roles : SUBSET {"STUDENT", "ADMIN"}]

Link == [user : Users, status : {"LIVE", "EXPIRED", "USED", "REVOKED"}]

Recovery ==
  [user : Users, expired : BOOLEAN, link : 0 .. MaxLinks,
   status : {"PENDING", "APPROVED", "REJECTED", "EXPIRED", "LINK_EXPIRED",
             "COMPLETED"}]

Call ==
  [step : {"IDLE", "LOGIN", "AUTHENTICATED", "CHANGE", "RESET"},
   user : Users \cup {NoUser}, session : Nat,
   password : 0 .. MaxPasswords, link : 0 .. MaxLinks,
   roles : SUBSET {"STUDENT", "ADMIN"}]

Idle == [step |-> "IDLE", user |-> NoUser, session |-> 0, password |-> 0,
         link |-> 0, roles |-> {}]

Verified(u) == user[u].emailVerified \/ user[u].phone = "VERIFIED"
Administrators == {u \in Users : "ADMIN" \in roles[u]}

\* Neither used nor revoked: a link that has expired may still be so.  Of
\* REVOKED links, the rows may have been deleted since.
Live(r) == r.status \in {"LIVE", "EXPIRED"}
Usable(r) == r.status = "LIVE"

\* The tables' constraints hold, so no statement is aborted by one: an
\* account is verified from the moment it is more than pending, one person
\* at most is the administrator, and one recovery of a person is approved.
TypeOK ==
  /\ user \in [Users -> Account]
  /\ roles \in [Users -> SUBSET {"STUDENT", "ADMIN"}]
  /\ call \in [Calls -> Call]
  /\ \A i \in DOMAIN session : session[i] \in Session
  /\ \A i \in DOMAIN verify : verify[i] \in Link
  /\ \A i \in DOMAIN reset : reset[i] \in Link
  /\ \A i \in DOMAIN recovery : recovery[i] \in Recovery
  /\ \A u \in Users :
       Verified(u) <=> user[u].status \in {"ACTIVE", "SUSPENDED"}
  /\ Cardinality(Administrators) <= 1
  /\ \A i, j \in DOMAIN recovery :
       /\ recovery[i].status = "APPROVED"
       /\ recovery[j].status = "APPROVED"
       /\ recovery[i].user = recovery[j].user
       => i = j

Init ==
  /\ user = [u \in Users |-> Unregistered]
  /\ roles = [u \in Users |-> {}]
  /\ session = <<>> /\ verify = <<>> /\ reset = <<>>
  /\ recovery = <<>>
  /\ call = [c \in Calls |-> Idle]

-----------------------------------------------------------------------------
(***************************************************************************)
(* What the transactions share.                                            *)
(***************************************************************************)
\* UPDATE ... SET revoked_at WHERE user_id = u AND used_at IS NULL AND
\* revoked_at IS NULL, in all but one of the rows.
RevokeBut(rows_, u, kept) ==
  [i \in DOMAIN rows_ |->
     IF rows_[i].user = u /\ i # kept /\ Live(rows_[i])
     THEN [rows_[i] EXCEPT !.status = "REVOKED"] ELSE rows_[i]]

Revoke(rows_, u) == RevokeBut(rows_, u, 0)
Spend(rows_, i) == [rows_ EXCEPT ![i].status = "USED"]

newLink(u) == [user |-> u, status |-> "LIVE"]

newSession(u, password) ==
  [user |-> u, status |-> "LIVE", password |-> password, roles |-> roles[u]]

\* The sessions but for those at the places in ended.
SessionsWithout(ended) ==
  [i \in DOMAIN session |->
     IF i \in ended
     THEN [session[i] EXCEPT !.status = "OVER", !.password = 0, !.roles = {}]
     ELSE session[i]]

SessionsOf(u) == {i \in DOMAIN session : session[i].user = u}

\* Requests of one account that were approved lose their link.
expireApproved(u) ==
  [i \in DOMAIN recovery |->
     IF recovery[i].user = u /\ recovery[i].status = "APPROVED"
     THEN [recovery[i] EXCEPT !.status = "LINK_EXPIRED", !.link = 0]
     ELSE recovery[i]]

RoomForLink(s) == Len(s) < MaxLinks
RoomForSession(u) == Cardinality(SessionsOf(u)) < MaxSessions[u]
RoomForPassword(u) == user[u].password < MaxPasswords

Goto(c, next) == call' = [call EXCEPT ![c] = next]
End(c) == Goto(c, Idle)

-----------------------------------------------------------------------------
(***************************************************************************)
(* Registration and verification.                                          *)
(***************************************************************************)
registerStudent(u, byPhone) ==
  /\ user[u].status = "NONE"
  /\ user' = [user EXCEPT ![u] =
       [status |-> "PENDING_VERIFICATION", email |-> TRUE,
        emailVerified |-> FALSE, password |-> 1,
        phone |-> IF byPhone THEN "PENDING" ELSE "NOT_REQUIRED"]]
  /\ roles' = [roles EXCEPT ![u] = {"STUDENT"}]
  /\ IF byPhone THEN UNCHANGED verify
     ELSE /\ RoomForLink(verify)
          /\ verify' = Append(verify, newLink(u))
  /\ UNCHANGED <<session, reset, recovery, call>>

\* The minute that must lie between two mails passes at any time.
requestEmailVerification(u) ==
  /\ user[u].status = "PENDING_VERIFICATION"
  /\ user[u].phone # "PENDING"
  /\ RoomForLink(verify)
  /\ verify' = Append(Revoke(verify, u), newLink(u))
  /\ UNCHANGED <<user, roles, session, reset, recovery, call>>

verifyEmail(i) ==
  LET u == verify[i].user IN
  /\ Usable(verify[i])
  /\ verify' = RevokeBut(Spend(verify, i), u, i)
  /\ user' = IF /\ user[u].status = "PENDING_VERIFICATION"
                /\ user[u].phone # "PENDING"
             THEN [user EXCEPT ![u].status = "ACTIVE", ![u].emailVerified = TRUE]
             ELSE user
  /\ UNCHANGED <<roles, session, reset, recovery, call>>

\* The administrator's call was authenticated with these roles, a while ago.
ByAdministrator(c) ==
  /\ call[c].step = "AUTHENTICATED"
  /\ "ADMIN" \in call[c].roles

confirmPhoneVerification(c, u) ==
  /\ ByAdministrator(c)
  /\ user[u].phone = "PENDING"
  /\ user' = [user EXCEPT
       ![u].phone = "VERIFIED",
       ![u].status = IF @ = "PENDING_VERIFICATION" THEN "ACTIVE" ELSE @]
  /\ End(c)
  /\ UNCHANGED <<roles, session, links, recovery>>

\* The account's first password is one that nobody knows.
createStudentByAdmin(c, u) ==
  /\ ByAdministrator(c)
  /\ user[u].status = "NONE"
  /\ RoomForLink(reset) /\ Len(recovery) < MaxRecoveries
  /\ user' = [user EXCEPT ![u] =
       [status |-> "ACTIVE", email |-> FALSE, emailVerified |-> FALSE,
        phone |-> "VERIFIED", password |-> 0]]
  /\ roles' = [roles EXCEPT ![u] = {"STUDENT"}]
  /\ reset' = Append(reset, newLink(u))
  /\ recovery' = Append(recovery, [user |-> u, expired |-> FALSE,
                                   status |-> "APPROVED", link |-> Len(reset) + 1])
  /\ End(c)
  /\ UNCHANGED <<session, verify>>

setStudentAccountStatus(c, u, from, to) ==
  /\ ByAdministrator(c) /\ call[c].user # u
  /\ "STUDENT" \in roles[u]
  /\ user[u].status = from
  /\ user' = [user EXCEPT ![u].status = to]
  /\ session' = IF to = "SUSPENDED" THEN SessionsWithout(SessionsOf(u)) ELSE session
  /\ End(c)
  /\ UNCHANGED <<roles, links, recovery>>

-----------------------------------------------------------------------------
(***************************************************************************)
(* Sessions.                                                               *)
(***************************************************************************)
\* The hash is read and the typed password compared with it; the person
\* types the password of that moment, or the call ends here.
readCredentials(c, u) ==
  /\ call[c].step = "IDLE"
  /\ user[u].status = "ACTIVE" /\ user[u].password > 0
  /\ Goto(c, [Idle EXCEPT !.step = "LOGIN", !.user = u,
                          !.password = user[u].password])
  /\ UNCHANGED rows

Unchanged(c) == user[call[c].user].password = call[c].password

StillMayLogIn_Password(c) == user[call[c].user].status = "ACTIVE"

StillMayLogIn(c) ==
  /\ Unchanged(c)
  /\ user[call[c].user].status = "ACTIVE"

\* A browser that held a session of the account gives it up.
login(c) ==
  LET u == call[c].user IN
  /\ call[c].step = "LOGIN"
  /\ \/ /\ StillMayLogIn(c)
        /\ RoomForSession(u)
        /\ \E prior \in {0} \cup SessionsOf(u) :
             session' = Append(SessionsWithout({prior}),
                               newSession(u, call[c].password))
     \/ ~StillMayLogIn(c) /\ UNCHANGED session
  /\ End(c)
  /\ UNCHANGED <<user, roles, links, recovery>>

authenticateSession(c, i) ==
  LET u == session[i].user IN
  /\ call[c].step = "IDLE"
  /\ Usable(session[i])
  /\ user[u].status = "ACTIVE"
  /\ Goto(c, [Idle EXCEPT !.step = "AUTHENTICATED", !.user = u,
                          !.session = i, !.roles = roles[u]])
  /\ UNCHANGED rows

logout(c) ==
  /\ call[c].step = "AUTHENTICATED"
  /\ session' = SessionsWithout({call[c].session})
  /\ End(c)
  /\ UNCHANGED <<user, roles, links, recovery>>

revokeSession(c, i) ==
  /\ call[c].step = "AUTHENTICATED"
  /\ session[i].user = call[c].user /\ Usable(session[i])
  /\ session' = SessionsWithout({i})
  /\ End(c)
  /\ UNCHANGED <<user, roles, links, recovery>>

revokeAllSessions(c, kept) ==
  /\ call[c].step = "AUTHENTICATED"
  /\ session' = SessionsWithout(SessionsOf(call[c].user) \ {kept})
  /\ End(c)
  /\ UNCHANGED <<user, roles, links, recovery>>

\* Every other call of an authenticated person, and every call given up.
Leave(c) ==
  /\ call[c].step # "IDLE"
  /\ End(c)
  /\ UNCHANGED rows

-----------------------------------------------------------------------------
(***************************************************************************)
(* Passwords.                                                              *)
(***************************************************************************)
\* The current password was typed correctly, the new one is another.
verifyCurrentPassword(c) ==
  LET u == call[c].user IN
  /\ call[c].step = "AUTHENTICATED"
  /\ user[u].password > 0
  /\ RoomForPassword(u) /\ RoomForSession(u)
  /\ Goto(c, [Idle EXCEPT !.step = "CHANGE", !.user = u,
                          !.password = user[u].password])
  /\ UNCHANGED rows

newPassword(u) == [user EXCEPT ![u].password = @ + 1]

changePassword(c) ==
  LET u == call[c].user IN
  /\ call[c].step = "CHANGE"
  /\ \/ /\ StillMayLogIn(c)
        /\ RoomForPassword(u) /\ RoomForSession(u)
        /\ user' = newPassword(u)
        /\ recovery' = expireApproved(u)
        /\ reset' = Revoke(reset, u)
        /\ session' = Append(SessionsWithout(SessionsOf(u)),
                             newSession(u, user[u].password + 1))
     \/ ~StillMayLogIn(c) /\ UNCHANGED <<user, recovery, reset, session>>
  /\ End(c)
  /\ UNCHANGED <<roles, verify>>

requestPasswordReset(u) ==
  /\ user[u].status = "ACTIVE" /\ user[u].emailVerified
  /\ RoomForLink(reset)
  /\ recovery' = expireApproved(u)
  /\ reset' = Append(Revoke(reset, u), newLink(u))
  /\ UNCHANGED <<user, roles, session, verify, call>>

\* The link is looked at before the account is locked, to find the account.
openResetLink(c, i) ==
  /\ call[c].step = "IDLE"
  /\ Usable(reset[i])
  /\ RoomForPassword(reset[i].user)
  /\ Goto(c, [Idle EXCEPT !.step = "RESET", !.user = reset[i].user, !.link = i])
  /\ UNCHANGED rows

StillResets_Unchecked(c) == user[call[c].user].status = "ACTIVE"

StillResets(c) ==
  /\ user[call[c].user].status = "ACTIVE"
  /\ Usable(reset[call[c].link])

completedBy(i) ==
  [r \in DOMAIN recovery |->
     IF recovery[r].status = "APPROVED" /\ recovery[r].user = reset[i].user
     THEN [recovery[r] EXCEPT
             !.status = IF recovery[r].link = i THEN "COMPLETED" ELSE "LINK_EXPIRED",
             !.link = 0]
     ELSE recovery[r]]

resetPassword(c) ==
  LET u == call[c].user
      i == call[c].link
  IN
  /\ call[c].step = "RESET"
  /\ \/ /\ StillResets(c)
        /\ RoomForPassword(u)
        /\ user' = newPassword(u)
        /\ recovery' = completedBy(i)
        /\ reset' = RevokeBut(Spend(reset, i), u, i)
        /\ session' = SessionsWithout(SessionsOf(u))
     \/ ~StillResets(c) /\ UNCHANGED <<user, recovery, reset, session>>
  /\ End(c)
  /\ UNCHANGED <<roles, verify>>

-----------------------------------------------------------------------------
(***************************************************************************)
(* Recovery through support.                                               *)
(***************************************************************************)
MayRecover(u) == user[u].status = "ACTIVE" /\ user[u].phone = "VERIFIED"

requestPhonePasswordReset(u) ==
  /\ MayRecover(u)
  /\ Len(recovery) < MaxRecoveries
  /\ recovery' = Append(recovery, [user |-> u, status |-> "PENDING",
                                   expired |-> FALSE, link |-> 0])
  /\ UNCHANGED <<user, roles, session, links, call>>

\* Both decisions end with a recovery nobody decided in time.
tooLate(r) ==
  /\ recovery[r].expired
  /\ recovery' = [recovery EXCEPT ![r].status = "EXPIRED"]

issuePhonePasswordReset(c, r) ==
  LET u == recovery[r].user IN
  /\ ByAdministrator(c)
  /\ MayRecover(u)
  /\ recovery[r].status = "PENDING"
  /\ \/ tooLate(r) /\ UNCHANGED reset
     \/ /\ ~recovery[r].expired
        /\ RoomForLink(reset)
        /\ recovery' = [q \in DOMAIN recovery |->
             IF q = r
             THEN [recovery[q] EXCEPT !.status = "APPROVED", !.link = Len(reset) + 1]
             ELSE IF recovery[q].user = u /\ recovery[q].status = "PENDING"
             THEN [recovery[q] EXCEPT !.status = "EXPIRED"]
             ELSE expireApproved(u)[q]]
        /\ reset' = Append(Revoke(reset, u), newLink(u))
  /\ End(c)
  /\ UNCHANGED <<user, roles, session, verify>>

rejectPhonePasswordReset(c, r) ==
  /\ ByAdministrator(c)
  /\ recovery[r].status = "PENDING"
  /\ \/ tooLate(r)
     \/ /\ ~recovery[r].expired
        /\ recovery' = [recovery EXCEPT ![r].status = "REJECTED"]
  /\ End(c)
  /\ UNCHANGED <<user, roles, session, links>>

-----------------------------------------------------------------------------
(***************************************************************************)
(* Roles, given and taken by an operator at a console.                     *)
(***************************************************************************)
createAdmin(u) ==
  /\ Administrators = {}
  /\ user[u].status = "NONE"
  /\ user' = [user EXCEPT ![u] =
       [status |-> "ACTIVE", email |-> TRUE, emailVerified |-> TRUE,
        phone |-> "NOT_REQUIRED", password |-> 1]]
  /\ roles' = [roles EXCEPT ![u] = {"ADMIN"}]
  /\ UNCHANGED <<session, links, recovery, call>>

grantRole(u, role) ==
  /\ user[u].email
  /\ role = "ADMIN" => Administrators \subseteq {u}
  /\ roles' = [roles EXCEPT ![u] = @ \cup {role}]
  /\ session' = SessionsWithout(SessionsOf(u))
  /\ UNCHANGED <<user, links, recovery, call>>

AnotherServes_Counts(u) == Administrators # {}

\* The last administrator who can still sign in keeps the role.
AnotherServes(u) ==
  \E a \in Administrators \ {u} : user[a].status = "ACTIVE" /\ Verified(a)

revokeRole(u, role) ==
  /\ user[u].email
  /\ role = "ADMIN" => AnotherServes(u)
  /\ role \in roles[u]
  /\ roles' = [roles EXCEPT ![u] = @ \ {role}]
  /\ session' = SessionsWithout(SessionsOf(u))
  /\ UNCHANGED <<user, links, recovery, call>>

-----------------------------------------------------------------------------
(***************************************************************************)
(* Time, and the clean-up an operator runs.                                *)
(***************************************************************************)
\* One row at a time comes to its end.
Expire ==
  \/ \E i \in DOMAIN session :
       /\ Usable(session[i])
       /\ session' = SessionsWithout({i})
       /\ UNCHANGED <<user, roles, links, recovery, call>>
  \/ \E i \in DOMAIN verify :
       /\ Usable(verify[i])
       /\ verify' = [verify EXCEPT ![i].status = "EXPIRED"]
       /\ UNCHANGED <<user, roles, session, reset, recovery, call>>
  \/ \E i \in DOMAIN reset :
       /\ Usable(reset[i])
       /\ reset' = [reset EXCEPT ![i].status = "EXPIRED"]
       /\ UNCHANGED <<user, roles, session, verify, recovery, call>>
  \/ \E r \in DOMAIN recovery :
       /\ ~recovery[r].expired /\ recovery[r].status = "PENDING"
       /\ recovery' = [recovery EXCEPT ![r].expired = TRUE]
       /\ UNCHANGED <<user, roles, session, links, call>>

letGo_Keeps == recovery

\* Approved recoveries let go of the links that are about to be deleted, and
\* nobody waits any longer for those that were not decided in time.
letGo ==
  [r \in DOMAIN recovery |->
     IF /\ recovery[r].status = "APPROVED"
        /\ reset[recovery[r].link].status \in {"EXPIRED", "REVOKED"}
     THEN [recovery[r] EXCEPT !.status = "LINK_EXPIRED", !.link = 0]
     ELSE IF recovery[r].status = "PENDING" /\ recovery[r].expired
     THEN [recovery[r] EXCEPT !.status = "EXPIRED"]
     ELSE recovery[r]]

\* Some of the links that have expired are old enough to be deleted.
Cleaned(rows_, old) ==
  [i \in DOMAIN rows_ |->
     IF i \in old /\ rows_[i].status = "EXPIRED"
     THEN [rows_[i] EXCEPT !.status = "REVOKED"] ELSE rows_[i]]

\* Expired sessions are deleted, links when they are old.
cleanupExpired ==
  /\ \E old \in SUBSET (1 .. MaxLinks) :
       /\ verify' = Cleaned(verify, old)
       /\ reset' = Cleaned(reset, old)
  /\ recovery' = letGo
  /\ UNCHANGED <<user, roles, session, call>>

-----------------------------------------------------------------------------
RoleStep(u) ==
  \/ createAdmin(u)
  \/ \E role \in {"STUDENT", "ADMIN"} : grantRole(u, role) \/ revokeRole(u, role)

AccountStep(u) ==
  \/ \E byPhone \in BOOLEAN : registerStudent(u, byPhone)
  \/ requestEmailVerification(u)
  \/ requestPasswordReset(u)
  \/ requestPhonePasswordReset(u)

SessionStep(c) ==
  \/ \E u \in Users : readCredentials(c, u)
  \/ \E i \in DOMAIN session : authenticateSession(c, i) \/ revokeSession(c, i)
  \/ login(c) \/ logout(c) \/ Leave(c)
  \/ \E kept \in {0, call[c].session} : revokeAllSessions(c, kept)

PasswordStep(c) ==
  \/ verifyCurrentPassword(c) \/ changePassword(c)
  \/ \E i \in DOMAIN reset : openResetLink(c, i)
  \/ resetPassword(c)

StudentStep(c, u) ==
  \/ confirmPhoneVerification(c, u)
  \/ createStudentByAdmin(c, u)
  \/ setStudentAccountStatus(c, u, "ACTIVE", "SUSPENDED")
  \/ setStudentAccountStatus(c, u, "SUSPENDED", "ACTIVE")

RecoveryStep(c, r) ==
  \/ issuePhonePasswordReset(c, r)
  \/ rejectPhonePasswordReset(c, r)

Next ==
  \/ \E u \in Users : AccountStep(u) \/ RoleStep(u)
  \/ \E c \in Calls : \/ SessionStep(c) \/ PasswordStep(c)
                      \/ \E u \in Users : StudentStep(c, u)
                      \/ \E r \in DOMAIN recovery : RecoveryStep(c, r)
  \/ \E i \in DOMAIN verify : verifyEmail(i)
  \/ Expire
  \/ cleanupExpired

Spec == Init /\ [][Next]_vars

-----------------------------------------------------------------------------
(***************************************************************************)
(* Properties.                                                             *)
(***************************************************************************)

\* A session that still opens the account was opened under the password and
\* the roles the account has now, and the account is not suspended: a login
\* whose password was read before a reset, a change of roles or a suspension
\* cannot slip in after it.
LiveSessionIsCurrent ==
  \A i \in DOMAIN session :
    Usable(session[i]) =>
      /\ session[i].password = user[session[i].user].password
      /\ session[i].roles = roles[session[i].user]
      /\ user[session[i].user].status = "ACTIVE"

\* However often links are asked for, by mail or through support, at most one
\* of a kind still works.
OneLinkWorks ==
  \A s \in {verify, reset} : \A i, j \in DOMAIN s :
    Live(s[i]) /\ Live(s[j]) /\ s[i].user = s[j].user => i = j

\* A recovery that is shown as approved holds a link that was neither used,
\* revoked nor deleted.
ApprovedHoldsItsLink ==
  \A r \in DOMAIN recovery :
    recovery[r].status = "APPROVED" =>
      recovery[r].link # 0 /\ Live(reset[recovery[r].link])

\* Types with the tables' constraints, and the two together: links and
\* recoveries agree, in the middle of every call.
LinksInv == TypeOK /\ OneLinkWorks /\ ApprovedHoldsItsLink

\* A password gives way only to a link of its own account that still worked
\* and is spent by it, or to a person who typed that very password.
ChangesForAReason ==
  [][\A u \in Users :
       user[u].status # "NONE" /\ user'[u].password # user[u].password =>
         \/ \E i \in DOMAIN reset :
              /\ reset[i].user = u /\ Usable(reset[i])
              /\ reset'[i].status = "USED"
         \/ \E c \in Calls :
              /\ call[c].step = "CHANGE" /\ call[c].user = u
              /\ call[c].password = user[u].password]_vars

\* Once someone can administer the platform, someone always can.
AdministratorStays ==
  [][(\E u \in Administrators : user[u].status = "ACTIVE")
      => (\E u \in Administrators : user[u].status = "ACTIVE")']_vars
=============================================================================
