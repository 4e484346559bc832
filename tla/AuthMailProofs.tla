--------------------------- MODULE AuthMailProofs ---------------------------
(***************************************************************************)
(* Theorems of AuthMail, for every value of its constants: any accounts,   *)
(* mails, workers, attempts and troubles.                                  *)
(***************************************************************************)
EXTENDS AuthMail, AccountsProofs

\* A row of the outbox and what a worker has in hand, without the bounds of
\* their numbers: that they are bounded takes an argument (Counted).
Kinds == {"VERIFY_EMAIL", "PASSWORD_RESET", "PASSWORD_CHANGED"}

Row ==
  [user : Users, kind : Kinds,
   link : 0 .. MaxLinks,
   status : {"PENDING", "PROCESSING", "SENT", "FAILED", "DEAD"},
   attempts : Nat, accepted : Nat, doubts : Nat]

Hand ==
  [mail : Nat, attempts : Nat,
   step : {"IDLE", "CLAIMED", "CURRENT", "SENT", "FAILED", "SUPERSEDED"}]

\* A worker has nothing in hand, or a mail of the outbox under a number that is
\* not ahead of the mail's.
Holds(w) ==
  \/ work[w] = AtRest
  \/ /\ work[w].step # "IDLE"
     /\ work[w].mail \in DOMAIN mail
     /\ work[w].attempts <= mail[work[w].mail].attempts

OutboxOK ==
  /\ mail \in Seq(Row) /\ Len(mail) <= MaxMails
  /\ work \in [Workers -> Hand] /\ \A w \in Workers : Holds(w)
  /\ troubles \in 0 .. MaxTroubles

\* The link a mail carries is one of its addressee.
LinkOf(u, kind, link) ==
  /\ kind = "VERIFY_EMAIL" => link \in DOMAIN verify /\ verify[link].user = u
  /\ kind = "PASSWORD_RESET" => link \in DOMAIN reset /\ reset[link].user = u

Fits(m) == LinkOf(mail[m].user, mail[m].kind, mail[m].link)

\* What a worker found superseded stays so, and what was given up while its
\* link works had all its attempts.
LinksFollowed ==
  /\ \A m \in DOMAIN mail : Fits(m)
  /\ \A w \in Workers : work[w].step = "SUPERSEDED" => ~Works(work[w].mail)
  /\ WorkingLinkIsMailed

\* The workers that have mail m in hand; those of them that may give it back
\* for another attempt; those that may still hand it to the server; and those
\* that, for all they know, have not had it taken.
On(m) == {w \in Workers : work[w].mail = m}
Able(m) == {w \in On(m) : work[w].attempts < MaxAttempts}
Sending(m) == {w \in On(m) : work[w].step \in {"CLAIMED", "CURRENT"}}
Chances(m) == {w \in On(m) : work[w].step # "SENT"}

\* The mail waits for a worker, or the worker that has its last number left.
Waits(m) == IF mail[m].status \in {"PENDING", "FAILED"} THEN 1 ELSE 0
Left(m) ==
  IF /\ mail[m].status = "PROCESSING"
     /\ \A w \in On(m) : work[w].attempts # mail[m].attempts
  THEN 1 ELSE 0

\* Each trouble brings one more chance of a mail to be claimed into being,
\* and once the attempts are all but used up, no attempt is without one.  Each
\* doubt brings one more chance of a mail to be sent again.
Counted(m) ==
  /\ IsFiniteSet(On(m))
  /\ Cardinality(On(m)) + Waits(m) + Left(m) <= 1 + troubles
  /\ mail[m].attempts + 1 >= MaxAttempts =>
       mail[m].attempts + Waits(m) + Left(m) + Cardinality(Able(m))
         <= MaxAttempts + troubles
  /\ mail[m].accepted + Cardinality(Sending(m)) <= mail[m].attempts
  /\ mail[m].accepted + Cardinality(Chances(m)) + Waits(m) <= 1 + mail[m].doubts

OutboxInv ==
  /\ Inv
  /\ OutboxOK
  /\ LinksFollowed
  /\ \A m \in DOMAIN mail : Counted(m)

-----------------------------------------------------------------------------
\* A table of links t that follows s: places and people stay, and no link that
\* could not be used can be used.
Aged(s, t) ==
  /\ DOMAIN s \subseteq DOMAIN t
  /\ \A i \in DOMAIN s : t[i].user = s[i].user /\ (Usable(t[i]) => Usable(s[i]))

\* Revoked links cannot be used, and the others are as they were.
LEMMA RevokeAged ==
  ASSUME NEW s \in Seq(Link), NEW u, NEW kept
  PROVE  /\ Aged(s, RevokeBut(s, u, kept))
         /\ RevokeBut(s, u, kept) \in Seq(Link)
         /\ Len(RevokeBut(s, u, kept)) = Len(s)
         /\ \A i \in DOMAIN s :
              s[i].user = u /\ i # kept => ~Usable(RevokeBut(s, u, kept)[i])
<1> DEFINE t == RevokeBut(s, u, kept)
<1>1. /\ Fewer(s, t)
      /\ \A i \in DOMAIN s :
           /\ s[i].user = u /\ i # kept => ~Live(t[i])
           /\ s[i].user # u \/ i = kept => t[i] = s[i]
  BY RevokeFewer
<1> HIDE DEF t
<1> QED
  BY <1>1 DEF Fewer, Aged, Live, Usable, t

\* Nor can the link that is spent.
LEMMA SpentAged ==
  ASSUME NEW s \in Seq(Link), NEW i \in DOMAIN s, NEW u
  PROVE  /\ Aged(s, RevokeBut(Spend(s, i), u, i))
         /\ \A j \in DOMAIN s :
              s[j].user = u => ~Usable(RevokeBut(Spend(s, i), u, i)[j])
<1> DEFINE t == RevokeBut(Spend(s, i), u, i)
<1>1. /\ Fewer(s, t)
      /\ \A j \in DOMAIN s : s[j].user = u \/ j = i => ~Live(t[j])
      /\ \A j \in DOMAIN s : s[j].user # u /\ j # i => t[j] = s[j]
  BY SpentFewer
<1> HIDE DEF t
<1> QED
  BY <1>1 DEF Fewer, Aged, Live, Usable, t

\* A new link disturbs no other, and is the one at the end.
LEMMA AppendAged ==
  ASSUME NEW s \in Seq(Link), NEW t \in Seq(Link), Aged(s, t), Len(t) = Len(s),
         NEW u \in Users
  PROVE  LET r == Append(t, newLink(u)) IN
         /\ Aged(s, r)
         /\ Len(s) + 1 \in DOMAIN r /\ r[Len(s) + 1].user = u
         /\ \A i \in DOMAIN s : r[i] = t[i]
<1> DEFINE r == Append(t, newLink(u))
<1>1. newLink(u) \in Link /\ newLink(u).user = u
  BY DEF newLink, Link
<1>2. /\ DOMAIN r = DOMAIN t \cup {Len(t) + 1}
      /\ r[Len(t) + 1] = newLink(u)
      /\ \A i \in DOMAIN t : r[i] = t[i]
  BY <1>1, Extended
<1> HIDE DEF r
<1>3. \A i \in DOMAIN s : r[i] = t[i]
  BY <1>2 DEF Aged
<1>4. Aged(s, r)
  BY <1>2, <1>3 DEF Aged
<1> QED
  BY <1>1, <1>2, <1>3, <1>4 DEF r

\* A person's links are revoked and one is made.
LEMMA RenewedAged ==
  ASSUME NEW s \in Seq(Link), NEW u \in Users
  PROVE  LET r == Append(Revoke(s, u), newLink(u)) IN
         /\ Aged(s, r)
         /\ Len(s) + 1 \in DOMAIN r /\ r[Len(s) + 1].user = u
         /\ \A i \in DOMAIN s : s[i].user = u => ~Usable(r[i])
<1> DEFINE t == RevokeBut(s, u, 0)
           r == Append(t, newLink(u))
<1>1. 0 \notin DOMAIN s
  OBVIOUS
<1>2. /\ Aged(s, t) /\ t \in Seq(Link) /\ Len(t) = Len(s)
      /\ \A i \in DOMAIN s : s[i].user = u => ~Usable(t[i])
  BY <1>1, RevokeAged
<1> HIDE DEF t
<1>3. /\ Aged(s, r)
      /\ Len(s) + 1 \in DOMAIN r /\ r[Len(s) + 1].user = u
      /\ \A i \in DOMAIN s : r[i] = t[i]
  BY <1>2, AppendAged
<1> HIDE DEF r
<1>4. \A i \in DOMAIN s : s[i].user = u => ~Usable(r[i])
  BY <1>2, <1>3
<1>5. r = Append(Revoke(s, u), newLink(u))
  BY DEF r, t, Revoke
<1> QED
  BY <1>3, <1>4, <1>5

\* Links come to their end and are deleted.
LEMMA EndedAged ==
  ASSUME NEW s \in Seq(Link)
  PROVE  /\ Aged(s, s)
         /\ \A i \in DOMAIN s :
              Usable(s[i]) => Aged(s, [s EXCEPT ![i].status = "EXPIRED"])
         /\ \A old : Aged(s, Cleaned(s, old))
<1>1. Aged(s, s)
  BY DEF Aged
<1>2. ASSUME NEW i \in DOMAIN s, Usable(s[i])
      PROVE  Aged(s, [s EXCEPT ![i].status = "EXPIRED"])
  <2> DEFINE y == [s[i] EXCEPT !.status = "EXPIRED"]
             t == [s EXCEPT ![i] = y]
  <2>1. y.user = s[i].user /\ y.status = "EXPIRED"
    <3>1. s[i] \in Link
      OBVIOUS
    <3> QED
      BY <3>1 DEF Link
  <2>2. DOMAIN t = DOMAIN s /\ \A j \in DOMAIN s : t[j] = IF j = i THEN y ELSE s[j]
    OBVIOUS
  <2> HIDE DEF t, y
  <2>3. Aged(s, t)
    BY <2>1, <2>2 DEF Aged, Usable
  <2> QED
    BY <2>3 DEF t, y
<1>3. ASSUME NEW old
      PROVE  Aged(s, Cleaned(s, old))
  <2> DEFINE t == Cleaned(s, old)
  <2>1. \A i \in DOMAIN s : s[i] \in Link
    OBVIOUS
  <2>2. DOMAIN t = DOMAIN s
    BY DEF Cleaned
  <2>3. \A i \in DOMAIN s :
          IF i \in old /\ s[i].status = "EXPIRED"
          THEN t[i].user = s[i].user /\ t[i].status = "REVOKED"
          ELSE t[i] = s[i]
    BY <2>1 DEF Cleaned, Link
  <2> HIDE DEF t
  <2>4. Aged(s, t)
    BY <2>2, <2>3 DEF Aged, Usable
  <2> QED
    BY <2>4 DEF t
<1> QED
  BY <1>1, <1>2, <1>3

\* The links that verify an address age.
LEMMA VerifyAges ==
  ASSUME Inv, [Next]_vars
  PROVE  Aged(verify, verify')
<1> DEFINE Goal == Aged(verify, verify')
<1>0. verify \in Seq(Link)
  BY DEF Inv, LinksOK
<1>1. CASE UNCHANGED verify
  BY <1>0, <1>1, EndedAged
<1>2. ASSUME NEW u \in Users, NEW byPhone \in BOOLEAN, registerStudent(u, byPhone),
             ~UNCHANGED verify
      PROVE  Goal
  <2>1. verify' = Append(verify, newLink(u))
    BY <1>2 DEF registerStudent
  <2> QED
    BY <1>0, <2>1, EndedAged, AppendAged
<1>3. ASSUME NEW u \in Users, requestEmailVerification(u)
      PROVE  Goal
  BY <1>0, <1>3, RenewedAged DEF requestEmailVerification
<1>4. ASSUME NEW i \in DOMAIN verify, verifyEmail(i)
      PROVE  Goal
  BY <1>0, <1>4, SpentAged DEF verifyEmail
<1>5. ASSUME NEW i \in DOMAIN verify, Usable(verify[i]),
             verify' = [verify EXCEPT ![i].status = "EXPIRED"]
      PROVE  Goal
  BY <1>0, <1>5, EndedAged
<1>6. CASE cleanupExpired
  BY <1>0, <1>6, EndedAged DEF cleanupExpired
<1>7. Goal
  BY <1>1, <1>2, <1>3, <1>4, <1>5, <1>6
  DEF Next, AccountStep, RoleStep, SessionStep, PasswordStep, StudentStep, RecoveryStep,
      requestPasswordReset, requestPhonePasswordReset, createAdmin, grantRole, revokeRole,
      readCredentials, authenticateSession, revokeSession, login, logout, Leave,
      revokeAllSessions, verifyCurrentPassword, changePassword, openResetLink, resetPassword,
      confirmPhoneVerification, createStudentByAdmin, setStudentAccountStatus,
      issuePhonePasswordReset, rejectPhonePasswordReset, Expire, vars, rows, links
<1> QED
  BY <1>7 DEF Goal

\* What the three operations that take a person's reset links away leave.
LEMMA ResetTaken ==
  ASSUME Inv
  PROVE  /\ \A c \in Calls : resetPassword(c) /\ reset' # reset =>
              /\ Aged(reset, reset')
              /\ \A i \in DOMAIN reset : reset[i].user = call[c].user => ~Usable(reset'[i])
         /\ \A c \in Calls : changePassword(c) => Aged(reset, reset')
         /\ \A c \in Calls, r \in DOMAIN recovery :
              issuePhonePasswordReset(c, r) /\ reset' # reset =>
                /\ Aged(reset, reset')
                /\ \A i \in DOMAIN reset :
                     reset[i].user = recovery[r].user => ~Usable(reset'[i])
<1>0. reset \in Seq(Link) /\ 0 \notin DOMAIN reset
  BY DEF Inv, LinksOK
<1>1. ASSUME NEW c \in Calls, resetPassword(c), reset' # reset
      PROVE  /\ Aged(reset, reset')
             /\ \A i \in DOMAIN reset : reset[i].user = call[c].user => ~Usable(reset'[i])
  <2> DEFINE i == call[c].link
  <2>1. i \in DOMAIN reset
    BY <1>1 DEF Inv, CallsOK, Truthful, resetPassword
  <2>2. reset' = RevokeBut(Spend(reset, i), call[c].user, i)
    BY <1>1 DEF resetPassword
  <2> QED
    BY <1>0, <2>1, <2>2, SpentAged
<1>2. ASSUME NEW c \in Calls, changePassword(c)
      PROVE  Aged(reset, reset')
  <2>1. reset' = reset \/ reset' = RevokeBut(reset, call[c].user, 0)
    BY <1>2 DEF changePassword, Revoke
  <2> QED
    BY <1>0, <2>1, RevokeAged, EndedAged
<1>3. ASSUME NEW c \in Calls, NEW r \in DOMAIN recovery, issuePhonePasswordReset(c, r),
             reset' # reset
      PROVE  /\ Aged(reset, reset')
             /\ \A i \in DOMAIN reset :
                  reset[i].user = recovery[r].user => ~Usable(reset'[i])
  <2>1. PICK u \in Users : u = recovery[r].user
    <3>1. recovery[r] \in Recovery
      BY DEF Inv, RecoveriesOK
    <3> QED
      BY <3>1 DEF Recovery
  <2>2. reset' = Append(Revoke(reset, u), newLink(u))
    BY <1>3, <2>1 DEF issuePhonePasswordReset
  <2> QED
    BY <1>0, <2>1, <2>2, RenewedAged
<1> QED
  BY <1>1, <1>2, <1>3

\* The links that reset a password age.
LEMMA ResetAges ==
  ASSUME Inv, [Next]_vars
  PROVE  Aged(reset, reset')
<1> DEFINE Goal == Aged(reset, reset')
<1>0. reset \in Seq(Link)
  BY DEF Inv, LinksOK
<1>1. CASE UNCHANGED reset
  BY <1>0, <1>1, EndedAged
<1>2. ASSUME NEW c \in Calls, NEW u \in Users, createStudentByAdmin(c, u)
      PROVE  Goal
  BY <1>0, <1>2, EndedAged, AppendAged DEF createStudentByAdmin
<1>3. ASSUME NEW u \in Users, requestPasswordReset(u)
      PROVE  Goal
  BY <1>0, <1>3, RenewedAged DEF requestPasswordReset
<1>4. ASSUME NEW c \in Calls, changePassword(c) \/ resetPassword(c)
      PROVE  Goal
  BY <1>1, <1>4, ResetTaken
<1>5. ASSUME NEW c \in Calls, NEW r \in DOMAIN recovery, issuePhonePasswordReset(c, r)
      PROVE  Goal
  BY <1>1, <1>5, ResetTaken
<1>6. ASSUME NEW i \in DOMAIN reset, Usable(reset[i]),
             reset' = [reset EXCEPT ![i].status = "EXPIRED"]
      PROVE  Goal
  BY <1>0, <1>6, EndedAged
<1>7. CASE cleanupExpired
  BY <1>0, <1>7, EndedAged DEF cleanupExpired
<1>8. Goal
  BY <1>1, <1>2, <1>3, <1>4, <1>5, <1>6, <1>7
  DEF Next, AccountStep, RoleStep, SessionStep, PasswordStep, StudentStep, RecoveryStep,
      registerStudent, requestEmailVerification, verifyEmail,
      requestPhonePasswordReset, createAdmin, grantRole, revokeRole,
      readCredentials, authenticateSession, revokeSession, login, logout, Leave,
      revokeAllSessions, verifyCurrentPassword, openResetLink,
      confirmPhoneVerification, setStudentAccountStatus,
      rejectPhonePasswordReset, Expire, vars, rows, links
<1> QED
  BY <1>8 DEF Goal

-----------------------------------------------------------------------------
\* What the accounts do is a step of Accounts, and the workers leave them alone.
LEMMA AccountsGoOn ==
  /\ AccountsStep => Next
  /\ [MailNext]_allVars => [Next]_vars
<1>1. ASSUME AccountsStep PROVE Next
  <2>1. ASSUME NEW u \in Users, NEW byPhone \in BOOLEAN, Registration(u, byPhone)
        PROVE  Next
    BY <2>1 DEF Registration, Next, AccountStep
  <2>2. ASSUME NEW u \in Users, requestEmailVerification(u) \/ requestPasswordReset(u)
        PROVE  Next
    BY <2>2 DEF Next, AccountStep
  <2>3. ASSUME NEW u \in Users, NEW c \in Calls, Replaced(c, u)
        PROVE  Next
    BY <2>3 DEF Replaced, Next, RecoveryStep
  <2>4. ASSUME NEW i \in DOMAIN verify, Verification(i)
        PROVE  Next
    BY <2>4 DEF Verification, Next
  <2>5. CASE Silent
    BY <2>5 DEF Silent, Next, AccountStep, PasswordStep, RecoveryStep
  <2> QED
    BY <1>1, <2>1, <2>2, <2>3, <2>4, <2>5 DEF AccountsStep
<1>2. ASSUME MailNext PROVE Next \/ UNCHANGED vars
  BY <1>1, <1>2
  DEF MailNext, WorkerStep, processBatch, Check, Deliver, RecordFails, Record, TakeBack, Stop
<1>3. UNCHANGED allVars => UNCHANGED vars
  BY DEF allVars
<1> QED
  BY <1>1, <1>2, <1>3

\* The accounts know nothing of the outbox: whatever the workers and the mail
\* server do, they behave as Accounts says, so that all its theorems hold here.
THEOREM MailIsAccounts == MailSpec => Spec
<1>1. MailInit => Init
  BY DEF MailInit
<1>2. [MailNext]_allVars => [Next]_vars
  BY AccountsGoOn
<1> QED
  BY <1>1, <1>2, PTL DEF MailSpec, Spec

-----------------------------------------------------------------------------
\* What all but the status of two rows have in common.
Same(r, q) ==
  /\ r.user = q.user /\ r.kind = q.kind /\ r.link = q.link
  /\ r.attempts = q.attempts /\ r.accepted = q.accepted
  /\ r.doubts = q.doubts

\* The mails of one person and kind that wait are taken back.
LEMMA CancelRows ==
  ASSUME NEW s \in Seq(Row), NEW u, NEW kind
  PROVE  LET t == cancelPendingAuthEmails(s, u, kind) IN
         /\ t \in Seq(Row) /\ Len(t) = Len(s) /\ DOMAIN t = DOMAIN s
         /\ \A m \in DOMAIN s :
              \/ t[m] = s[m]
              \/ /\ s[m].user = u /\ s[m].kind = kind
                 /\ s[m].status \in {"PENDING", "FAILED"}
                 /\ t[m].status = "DEAD" /\ Same(t[m], s[m])
<1> DEFINE t == cancelPendingAuthEmails(s, u, kind)
           y(m) == [s[m] EXCEPT !.status = "DEAD"]
<1>1. \A m \in DOMAIN s : s[m] \in Row
  OBVIOUS
<1>2. \A m \in DOMAIN s : y(m) \in Row /\ y(m).status = "DEAD" /\ Same(y(m), s[m])
  BY <1>1 DEF Row, Same
<1> HIDE DEF y
<1>3. t = [m \in DOMAIN s |-> IF /\ s[m].user = u /\ s[m].kind = kind
                                 /\ s[m].status \in {"PENDING", "FAILED"}
                              THEN y(m) ELSE s[m]]
  BY DEF cancelPendingAuthEmails, y
<1>4. t \in [DOMAIN s -> Row]
  BY <1>1, <1>2, <1>3
<1>5. t \in Seq(Row) /\ Len(t) = Len(s) /\ DOMAIN t = DOMAIN s
  BY <1>4, MapSeq
<1>6. \A m \in DOMAIN s : t[m] = IF /\ s[m].user = u /\ s[m].kind = kind
                                    /\ s[m].status \in {"PENDING", "FAILED"}
                                 THEN y(m) ELSE s[m]
  BY <1>3
<1> HIDE DEF t
<1> QED
  BY <1>2, <1>5, <1>6 DEF t

\* The outbox t is s with a mail at its end, at place n.
Lengthened(t, s, u, kind, link, n) ==
  /\ t \in Seq(Row) /\ Len(t) = n
  /\ DOMAIN t = DOMAIN s \cup {n} /\ n \notin DOMAIN s
  /\ \A m \in DOMAIN s : t[m] = s[m]
  /\ t[n].user = u /\ t[n].kind = kind /\ t[n].link = link
  /\ t[n].status = "PENDING" /\ t[n].attempts = 0 /\ t[n].accepted = 0
  /\ t[n].doubts = 0

\* A mail is queued.
LEMMA QueueRow ==
  ASSUME NEW s \in Seq(Row), NEW u \in Users, NEW link \in 0 .. MaxLinks,
         NEW kind \in Kinds
  PROVE  Lengthened(enqueueAuthEmail(s, u, kind, link), s, u, kind, link, Len(s) + 1)
<1> DEFINE r == [user |-> u, kind |-> kind, link |-> link, status |-> "PENDING",
                 attempts |-> 0, accepted |-> 0, doubts |-> 0]
<1>1. /\ r \in Row
      /\ r.user = u /\ r.kind = kind /\ r.link = link /\ r.status = "PENDING"
      /\ r.attempts = 0 /\ r.accepted = 0 /\ r.doubts = 0
  BY DEF Row
<1>2. enqueueAuthEmail(s, u, kind, link) = Append(s, r)
  BY DEF enqueueAuthEmail
<1> HIDE DEF r
<1>3. /\ Append(s, r) \in Seq(Row)
      /\ Len(Append(s, r)) = Len(s) + 1
      /\ DOMAIN Append(s, r) = DOMAIN s \cup {Len(s) + 1}
      /\ Len(s) + 1 \notin DOMAIN s
      /\ Append(s, r)[Len(s) + 1] = r
      /\ \A i \in DOMAIN s : Append(s, r)[i] = s[i]
  BY <1>1, Extended
<1> QED
  BY <1>1, <1>2, <1>3 DEF Lengthened

\* A mail that waited was taken back, with its link.
Cancelled(m) ==
  /\ mail[m].status \in {"PENDING", "FAILED"}
  /\ mail'[m].status = "DEAD" /\ Same(mail'[m], mail[m])
  /\ ~Works(m)'

\* A mail was queued, with a link of its addressee.
Queued(m) ==
  /\ mail'[m].status = "PENDING" /\ mail'[m].attempts = 0 /\ mail'[m].accepted = 0
  /\ mail'[m].doubts = 0
  /\ Fits(m)'

\* The outbox so far, but for the mails that were taken back.
Retaken(t) ==
  \A m \in DOMAIN mail : mail'[m] = t[m] => mail'[m] = mail[m] \/ Cancelled(m)

\* What the accounts do to the outbox.
Moved ==
  /\ mail' \in Seq(Row) /\ Len(mail') <= MaxMails
  /\ DOMAIN mail \subseteq DOMAIN mail'
  /\ \A m \in DOMAIN mail : mail'[m] = mail[m] \/ Cancelled(m)
  /\ \A m \in DOMAIN mail' \ DOMAIN mail : Queued(m)

\* Mails are taken back when the links they carry have stopped to work.
LEMMA CancelMoves ==
  ASSUME mail \in Seq(Row), \A m \in DOMAIN mail : Fits(m),
         NEW u, NEW kind \in {"VERIFY_EMAIL", "PASSWORD_RESET"},
         kind = "VERIFY_EMAIL" =>
           \A i \in DOMAIN verify : verify[i].user = u => ~Usable(verify'[i]),
         kind = "PASSWORD_RESET" =>
           \A i \in DOMAIN reset : reset[i].user = u => ~Usable(reset'[i]),
         NEW m \in DOMAIN mail,
         mail'[m] = cancelPendingAuthEmails(mail, u, kind)[m]
  PROVE  mail'[m] = mail[m] \/ Cancelled(m)
<1>1. \/ mail'[m] = mail[m]
      \/ /\ mail[m].user = u /\ mail[m].kind = kind
         /\ mail[m].status \in {"PENDING", "FAILED"}
         /\ mail'[m].status = "DEAD" /\ Same(mail'[m], mail[m])
  BY CancelRows
<1>2. CASE /\ mail[m].user = u /\ mail[m].kind = kind
           /\ mail[m].status \in {"PENDING", "FAILED"}
           /\ mail'[m].status = "DEAD" /\ Same(mail'[m], mail[m])
  <2>1. mail'[m].kind = kind /\ mail'[m].link = mail[m].link
    BY <1>2 DEF Same
  <2>2. Fits(m)
    OBVIOUS
  <2>3. ~Works(m)'
    BY <1>2, <2>1, <2>2 DEF Works, Fits, LinkOf
  <2> QED
    BY <1>2, <2>3 DEF Cancelled
<1> QED
  BY <1>1, <1>2

\* A mail is queued behind those that stay or were taken back.
LEMMA QueueMoves ==
  ASSUME mail \in Seq(Row), Len(mail) < MaxMails,
         NEW t \in Seq(Row), Len(t) = Len(mail), DOMAIN t = DOMAIN mail,
         NEW u \in Users, NEW link \in 0 .. MaxLinks,
         NEW kind \in Kinds,
         LinkOf(u, kind, link)',
         mail' = enqueueAuthEmail(t, u, kind, link),
         Retaken(t)
  PROVE  Moved
<1>0. PICK n : n = Len(mail) + 1
  OBVIOUS
<1>1. Lengthened(mail', t, u, kind, link, n)
  BY <1>0, QueueRow
<1>2. Len(mail') <= MaxMails
  <2>1. Len(mail) \in Nat /\ MaxMails \in Nat
    BY MailAssumption DEF MailAssumption
  <2> QED
    BY <1>0, <1>1, <2>1 DEF Lengthened
<1>3. Queued(n)
  BY <1>1 DEF Queued, Fits, LinkOf, Lengthened
<1> QED
  BY <1>1, <1>2, <1>3 DEF Moved, Retaken, Lengthened

\* An outbox of which nothing was taken back.
LEMMA NothingRetaken == Retaken(mail)
BY DEF Retaken

\* The number of a new link is one of a link.
LEMMA LinkNumber ==
  ASSUME NEW s \in Seq(Link), RoomForLink(s)
  PROVE  Len(s) + 1 \in 0 .. MaxLinks
<1>1. Len(s) \in Nat /\ MaxLinks \in Nat
  BY BoundsAssumption DEF BoundsAssumption
<1> QED
  BY <1>1 DEF RoomForLink

\* What the accounts do to the outbox fits what they do to their links.
LEMMA RegistrationMoves ==
  ASSUME OutboxInv, Room, NEW u \in Users, NEW byPhone \in BOOLEAN,
         Registration(u, byPhone)
  PROVE  Moved
<1>0. /\ mail \in Seq(Row) /\ Len(mail) <= MaxMails /\ Len(mail) < MaxMails
      /\ verify \in Seq(Link)
  BY DEF OutboxInv, OutboxOK, Room, Inv, LinksOK
<1>1. CASE byPhone
  <2>1. mail' = mail
    BY <1>1 DEF Registration
  <2> QED
    BY <1>0, <2>1 DEF Moved
<1>2. CASE ~byPhone
  <2>1. PICK n : n = Len(verify) + 1
    OBVIOUS
  <2>2. /\ mail' = enqueueAuthEmail(mail, u, "VERIFY_EMAIL", n)
        /\ RoomForLink(verify) /\ verify' = Append(verify, newLink(u))
    BY <1>2, <2>1 DEF Registration, registerStudent
  <2>3. n \in 0 .. MaxLinks
    BY <1>0, <2>1, <2>2, LinkNumber
  <2>4. n \in DOMAIN verify' /\ verify'[n].user = u
    BY <1>0, <2>1, <2>2, EndedAged, AppendAged
  <2>5. LinkOf(u, "VERIFY_EMAIL", n)'
    BY <2>4 DEF LinkOf
  <2>6. "VERIFY_EMAIL" \in Kinds
    BY DEF Kinds
  <2> QED
    BY <1>0, <2>2, <2>3, <2>5, <2>6, NothingRetaken, QueueMoves
<1> QED
  BY <1>1, <1>2

\* The first mail's link is taken with the mail, before another is queued.
LEMMA ReplacingMoves ==
  ASSUME OutboxInv, Room, NEW u \in Users, NEW kind \in Kinds, NEW n \in 0 .. MaxLinks,
         mail' = Replacing(u, kind, n),
         kind \in {"VERIFY_EMAIL", "PASSWORD_RESET"},
         LinkOf(u, kind, n)',
         kind = "VERIFY_EMAIL" =>
           \A i \in DOMAIN verify : verify[i].user = u => ~Usable(verify'[i]),
         kind = "PASSWORD_RESET" =>
           \A i \in DOMAIN reset : reset[i].user = u => ~Usable(reset'[i])
  PROVE  Moved
<1>0. /\ mail \in Seq(Row) /\ Len(mail) < MaxMails
      /\ \A m \in DOMAIN mail : Fits(m)
  BY DEF OutboxInv, OutboxOK, LinksFollowed, Room
<1>1. PICK t : t = cancelPendingAuthEmails(mail, u, kind)
  OBVIOUS
<1>2. t \in Seq(Row) /\ Len(t) = Len(mail) /\ DOMAIN t = DOMAIN mail
  BY <1>0, <1>1, CancelRows
<1>3. mail' = enqueueAuthEmail(t, u, kind, n)
  BY <1>1 DEF Replacing
<1>4. Retaken(t)
  BY <1>0, <1>1, CancelMoves DEF Retaken
<1> QED
  BY <1>0, <1>2, <1>3, <1>4, QueueMoves

\* Mails are taken back and nothing is queued.
LEMMA TakingMoves ==
  ASSUME OutboxInv, NEW u, NEW kind \in {"VERIFY_EMAIL", "PASSWORD_RESET"},
         mail' = cancelPendingAuthEmails(mail, u, kind),
         kind = "VERIFY_EMAIL" =>
           \A i \in DOMAIN verify : verify[i].user = u => ~Usable(verify'[i]),
         kind = "PASSWORD_RESET" =>
           \A i \in DOMAIN reset : reset[i].user = u => ~Usable(reset'[i])
  PROVE  Moved
<1>0. /\ mail \in Seq(Row) /\ Len(mail) <= MaxMails
      /\ \A m \in DOMAIN mail : Fits(m)
  BY DEF OutboxInv, OutboxOK, LinksFollowed
<1>1. mail' \in Seq(Row) /\ Len(mail') = Len(mail) /\ DOMAIN mail' = DOMAIN mail
  BY <1>0, CancelRows
<1>2. \A m \in DOMAIN mail : mail'[m] = mail[m] \/ Cancelled(m)
  BY <1>0, CancelMoves
<1> QED
  BY <1>0, <1>1, <1>2 DEF Moved

\* A new password may bring a mail that says so.
LEMMA ToldMoves ==
  ASSUME OutboxInv, Room, NEW u \in Users, NEW t \in Seq(Row),
         Len(t) = Len(mail), DOMAIN t = DOMAIN mail, Retaken(t),
         mail' = t \/ mail' = Told(t, u)
  PROVE  Moved
<1>0. mail \in Seq(Row) /\ Len(mail) <= MaxMails /\ Len(mail) < MaxMails
  BY DEF OutboxInv, OutboxOK, Room
<1>1. CASE mail' = t
  BY <1>0, <1>1 DEF Moved, Retaken
<1>2. CASE mail' = enqueueAuthEmail(t, u, "PASSWORD_CHANGED", 0)
  <2>1. 0 \in 0 .. MaxLinks /\ "PASSWORD_CHANGED" \in Kinds
    BY BoundsAssumption DEF BoundsAssumption, Kinds
  <2>2. LinkOf(u, "PASSWORD_CHANGED", 0)'
    BY DEF LinkOf
  <2> QED
    BY <1>0, <1>2, <2>1, <2>2, QueueMoves
<1> QED
  BY <1>1, <1>2 DEF Told

\* A password is changed or reset, or support issues a link.
LEMMA ReplacedMoves ==
  ASSUME OutboxInv, Room, NEW u \in Users, NEW c \in Calls, Replaced(c, u)
  PROVE  Moved
<1>0. /\ mail \in Seq(Row) /\ Inv /\ \A m \in DOMAIN mail : Fits(m)
  BY DEF OutboxInv, OutboxOK, LinksFollowed
<1>1. PICK t : t = IF call[c].step = "CHANGE" \/ reset' = reset THEN mail
                   ELSE cancelPendingAuthEmails(mail, u, "PASSWORD_RESET")
  OBVIOUS
<1>2. mail' = t \/ mail' = Told(t, u)
  BY <1>1 DEF Replaced
<1>3. CASE call[c].step = "CHANGE" \/ reset' = reset
  <2>1. t = mail
    BY <1>1, <1>3
  <2> QED
    BY <1>0, <1>2, <2>1, NothingRetaken, ToldMoves
<1>4. CASE ~(call[c].step = "CHANGE" \/ reset' = reset)
  <2>1. t = cancelPendingAuthEmails(mail, u, "PASSWORD_RESET")
    BY <1>1, <1>4
  <2>2. t \in Seq(Row) /\ Len(t) = Len(mail) /\ DOMAIN t = DOMAIN mail
    BY <1>0, <2>1, CancelRows
  <2>3. \A i \in DOMAIN reset : reset[i].user = u => ~Usable(reset'[i])
    <3>1. CASE call[c].user = u /\ PasswordStep(c)
      <4>1. resetPassword(c)
        BY <1>4, <3>1
        DEF PasswordStep, verifyCurrentPassword, changePassword, openResetLink, rows, links
      <4> QED
        BY <1>0, <1>4, <3>1, <4>1, ResetTaken
    <3>2. ASSUME NEW r \in DOMAIN recovery, recovery[r].user = u,
                 issuePhonePasswordReset(c, r)
          PROVE  \A i \in DOMAIN reset : reset[i].user = u => ~Usable(reset'[i])
      BY <1>0, <1>4, <3>2, ResetTaken
    <3> QED
      BY <3>1, <3>2 DEF Replaced
  <2>4. Retaken(t)
    BY <1>0, <2>1, <2>3, CancelMoves DEF Retaken
  <2> QED
    BY <1>2, <2>2, <2>4, ToldMoves
<1> QED
  BY <1>3, <1>4

\* All of it together.
LEMMA AccountsMove ==
  ASSUME OutboxInv, AccountsStep
  PROVE  /\ Moved /\ work' = work /\ troubles' = troubles
         /\ Aged(verify, verify') /\ Aged(reset, reset')
<1>0. /\ Inv /\ verify \in Seq(Link) /\ reset \in Seq(Link)
      /\ \A i \in DOMAIN verify : verify[i].user \in Users
  <2>1. Inv /\ verify \in Seq(Link) /\ reset \in Seq(Link)
    BY DEF OutboxInv, Inv, LinksOK
  <2>2. \A i \in DOMAIN verify : verify[i] \in Link
    BY <2>1
  <2> QED
    BY <2>1, <2>2 DEF Link
<1>1. work' = work /\ troubles' = troubles
  BY DEF AccountsStep
<1>2. Aged(verify, verify') /\ Aged(reset, reset')
  BY <1>0, AccountsGoOn, VerifyAges, ResetAges
<1>3. /\ "VERIFY_EMAIL" \in Kinds /\ "PASSWORD_RESET" \in Kinds
  BY DEF Kinds
<1>4. ASSUME NEW u \in Users, Room, requestEmailVerification(u),
             mail' = Replacing(u, "VERIFY_EMAIL", Len(verify) + 1)
      PROVE  Moved
  <2>1. PICK n : n = Len(verify) + 1
    OBVIOUS
  <2>2. RoomForLink(verify) /\ verify' = Append(Revoke(verify, u), newLink(u))
    BY <1>4 DEF requestEmailVerification
  <2>3. n \in 0 .. MaxLinks
    BY <1>0, <2>1, <2>2, LinkNumber
  <2>4. /\ n \in DOMAIN verify' /\ verify'[n].user = u
        /\ \A i \in DOMAIN verify : verify[i].user = u => ~Usable(verify'[i])
    BY <1>0, <2>1, <2>2, RenewedAged
  <2>5. LinkOf(u, "VERIFY_EMAIL", n)'
    BY <2>4 DEF LinkOf
  <2> QED
    BY <1>3, <1>4, <2>1, <2>3, <2>4, <2>5, ReplacingMoves
<1>5. ASSUME NEW u \in Users, Room, requestPasswordReset(u),
             mail' = Replacing(u, "PASSWORD_RESET", Len(reset) + 1)
      PROVE  Moved
  <2>1. PICK n : n = Len(reset) + 1
    OBVIOUS
  <2>2. RoomForLink(reset) /\ reset' = Append(Revoke(reset, u), newLink(u))
    BY <1>5 DEF requestPasswordReset
  <2>3. n \in 0 .. MaxLinks
    BY <1>0, <2>1, <2>2, LinkNumber
  <2>4. /\ n \in DOMAIN reset' /\ reset'[n].user = u
        /\ \A i \in DOMAIN reset : reset[i].user = u => ~Usable(reset'[i])
    BY <1>0, <2>1, <2>2, RenewedAged
  <2>5. LinkOf(u, "PASSWORD_RESET", n)'
    BY <2>4 DEF LinkOf
  <2> QED
    BY <1>3, <1>5, <2>1, <2>3, <2>4, <2>5, ReplacingMoves
<1>6. ASSUME NEW i \in DOMAIN verify, Verification(i)
      PROVE  Moved
  <2>1. PICK u \in Users : u = verify[i].user
    BY <1>0
  <2>2. verify' = RevokeBut(Spend(verify, i), u, i)
    BY <1>6, <2>1 DEF Verification, verifyEmail
  <2>3. \A j \in DOMAIN verify : verify[j].user = u => ~Usable(verify'[j])
    BY <1>0, <2>2, SpentAged
  <2>4. mail' = cancelPendingAuthEmails(mail, u, "VERIFY_EMAIL")
    BY <1>6, <2>1 DEF Verification
  <2> QED
    BY <2>3, <2>4, TakingMoves
<1>7. ASSUME Silent
      PROVE  Moved
  <2>1. mail' = mail
    BY <1>7 DEF Silent
  <2>2. mail \in Seq(Row) /\ Len(mail) <= MaxMails
    BY DEF OutboxInv, OutboxOK
  <2> QED
    BY <2>1, <2>2 DEF Moved
<1>8. Moved
  BY <1>4, <1>5, <1>6, <1>7, RegistrationMoves, ReplacedMoves DEF AccountsStep
<1> QED
  BY <1>1, <1>2, <1>8

-----------------------------------------------------------------------------
Statuses == {"PENDING", "PROCESSING", "SENT", "FAILED", "DEAD"}
Steps == {"IDLE", "CLAIMED", "CURRENT", "SENT", "FAILED", "SUPERSEDED"}

\* A row with other values in its columns.
LEMMA RowWritten ==
  ASSUME NEW r \in Row, NEW s \in Statuses, NEW n \in Nat, NEW d \in Nat
  PROVE  /\ [r EXCEPT !.status = s] \in Row
         /\ [r EXCEPT !.status = s, !.attempts = n] \in Row
         /\ [r EXCEPT !.status = s, !.doubts = d] \in Row
         /\ [r EXCEPT !.accepted = n, !.doubts = d] \in Row
BY DEF Row, Statuses

\* A step concerns at most mail m and worker w.
Only(m, w) ==
  /\ mail' \in Seq(Row) /\ Len(mail') = Len(mail) /\ DOMAIN mail' = DOMAIN mail
  /\ \A k \in DOMAIN mail : k # m => mail'[k] = mail[k]
  /\ work' \in [Workers -> Hand]
  /\ \A v \in Workers : v # w => work'[v] = work[v]

\* The row of mail m changes.
LEMMA OnlyMail ==
  ASSUME OutboxOK, NEW m \in DOMAIN mail, NEW r \in Row,
         mail' = [mail EXCEPT ![m] = r],
         NEW w, work' \in [Workers -> Hand], \A v \in Workers : v # w => work'[v] = work[v]
  PROVE  Only(m, w) /\ mail'[m] = r
<1>1. mail \in [DOMAIN mail -> Row]
  BY DEF OutboxOK
<1>2. mail' \in [DOMAIN mail -> Row]
  BY <1>1
<1>3. mail' \in Seq(Row) /\ Len(mail') = Len(mail) /\ DOMAIN mail' = DOMAIN mail
  BY <1>2, MapSeq DEF OutboxOK
<1>4. mail'[m] = r /\ \A k \in DOMAIN mail : k # m => mail'[k] = mail[k]
  BY <1>1
<1> QED
  BY <1>3, <1>4 DEF Only

\* What a worker that has something in hand has.
LEMMA InHand ==
  ASSUME OutboxOK, NEW w \in Workers, work[w] # AtRest \/ work[w].step # "IDLE"
  PROVE  /\ work[w] # AtRest /\ work[w] \in Hand
         /\ work[w].mail \in DOMAIN mail
         /\ mail[work[w].mail] \in Row
         /\ work[w].attempts <= mail[work[w].mail].attempts
<1>1. AtRest.step = "IDLE"
  BY DEF AtRest
<1>2. Holds(w) /\ work[w] \in Hand
  BY DEF OutboxOK
<1>3. /\ work[w].mail \in DOMAIN mail
      /\ work[w].attempts <= mail[work[w].mail].attempts
  BY <1>1, <1>2 DEF Holds
<1>4. mail[work[w].mail] \in Row
  BY <1>3 DEF OutboxOK
<1> QED
  BY <1>1, <1>2, <1>3, <1>4

\* A worker claims a mail.
Claims(w, m) ==
  /\ Only(m, w) /\ UNCHANGED <<vars, troubles>>
  /\ work[w] = AtRest /\ mail[m].status \in {"PENDING", "FAILED"}
  /\ Same([mail'[m] EXCEPT !.attempts = mail[m].attempts], mail[m])
  /\ mail'[m].status = "PROCESSING" /\ mail'[m].attempts = mail[m].attempts + 1
  /\ work'[w].mail = m /\ work'[w].attempts = mail[m].attempts + 1
  /\ work'[w].step = "CLAIMED"

\* A worker at rest claims one mail that may be claimed.
LEMMA ClaimStep ==
  ASSUME OutboxOK, NEW w \in Workers, processBatch(w)
  PROVE  \E m \in DOMAIN mail : Claims(w, m)
<1>1. PICK m \in DOMAIN mail :
        /\ Claimable(m)
        /\ mail' = [mail EXCEPT ![m].status = "PROCESSING", ![m].attempts = @ + 1]
        /\ work' = [work EXCEPT ![w] = [mail |-> m, step |-> "CLAIMED",
                                         attempts |-> mail[m].attempts + 1]]
  BY DEF processBatch
<1>2. mail[m] \in Row /\ m \in Nat
  BY DEF OutboxOK
<1>3. PICK n \in Nat : n = mail[m].attempts + 1
  BY <1>2 DEF Row
<1>4. PICK s \in Statuses : s = "PROCESSING"
  BY DEF Statuses
<1> DEFINE r == [mail[m] EXCEPT !.status = s, !.attempts = n]
<1>5. r \in Row
  BY <1>2, RowWritten
<1>6. mail' = [mail EXCEPT ![m] = r]
  BY <1>1, <1>3, <1>4
<1>7. /\ r.status = "PROCESSING" /\ r.attempts = n
      /\ Same([r EXCEPT !.attempts = mail[m].attempts], mail[m])
  BY <1>2, <1>4 DEF Row, Same
<1> HIDE DEF r
<1> DEFINE h == [mail |-> m, step |-> "CLAIMED", attempts |-> n]
<1>8. h \in Hand /\ h.mail = m /\ h.attempts = n /\ h.step = "CLAIMED"
  BY <1>2 DEF Hand
<1>9. work' = [work EXCEPT ![w] = h]
  BY <1>1, <1>3
<1> HIDE DEF h
<1>10. /\ work' \in [Workers -> Hand] /\ work'[w] = h
       /\ \A v \in Workers : v # w => work'[v] = work[v]
  BY <1>8, <1>9 DEF OutboxOK
<1>11. Only(m, w) /\ mail'[m] = r
  BY <1>5, <1>6, <1>10, OnlyMail
<1>12. work[w] = AtRest /\ UNCHANGED <<vars, troubles>>
  BY DEF processBatch
<1>13. mail[m].status \in {"PENDING", "FAILED"}
  BY <1>1 DEF Claimable
<1> QED
  BY <1>3, <1>7, <1>8, <1>10, <1>11, <1>12, <1>13 DEF Claims

\* A worker goes on with its mail or leaves it as it is.
Turns(w, m, step) ==
  /\ UNCHANGED <<vars, troubles>> /\ mail' = mail
  /\ work[w].mail = m
  /\ Only(m, w)
  /\ work'[w].mail = m /\ work'[w].attempts = work[w].attempts /\ work'[w].step = step
  /\ \/ work[w].step = "CLAIMED" /\ step \in {"CURRENT", "SUPERSEDED", "FAILED"}
     \/ work[w].step = "SUPERSEDED" /\ step = "FAILED"
  /\ step = "SUPERSEDED" => ~Works(m)

\* A worker's hand moves to another step.
LEMMA StepWritten ==
  ASSUME OutboxOK, NEW w \in Workers, NEW s \in Steps,
         work' = [work EXCEPT ![w].step = s]
  PROVE  /\ work' \in [Workers -> Hand]
         /\ \A v \in Workers : v # w => work'[v] = work[v]
         /\ work'[w].mail = work[w].mail /\ work'[w].attempts = work[w].attempts
         /\ work'[w].step = s
<1>1. work \in [Workers -> Hand]
  BY DEF OutboxOK
<1> DEFINE h == [work[w] EXCEPT !.step = s]
<1>2. /\ h \in Hand /\ h.mail = work[w].mail /\ h.attempts = work[w].attempts
      /\ h.step = s
  BY <1>1 DEF Hand, Steps
<1>3. work' = [work EXCEPT ![w] = h]
  BY <1>1
<1> HIDE DEF h
<1> QED
  BY <1>1, <1>2, <1>3

\* What a worker finds out without the mail server is a turn.
LEMMA TurnStep ==
  ASSUME OutboxOK, NEW w \in Workers, NEW step \in Steps,
         UNCHANGED <<vars, mail, troubles>>, work' = [work EXCEPT ![w].step = step],
         \/ work[w].step = "CLAIMED" /\ step \in {"CURRENT", "SUPERSEDED", "FAILED"}
         \/ work[w].step = "SUPERSEDED" /\ step = "FAILED",
         step = "SUPERSEDED" => ~Works(work[w].mail)
  PROVE  \E m \in DOMAIN mail : Turns(w, m, step)
<1>1. PICK m \in DOMAIN mail : m = work[w].mail /\ mail[m] \in Row
  BY InHand
<1>2. /\ work' \in [Workers -> Hand]
      /\ \A v \in Workers : v # w => work'[v] = work[v]
      /\ work'[w].mail = m /\ work'[w].attempts = work[w].attempts
      /\ work'[w].step = step
  BY <1>1, StepWritten
<1>3. Only(m, w)
  BY <1>2 DEF Only, OutboxOK
<1>4. step = "SUPERSEDED" => ~Works(m)
  BY <1>1
<1> QED
  BY <1>1, <1>2, <1>3, <1>4 DEF Turns

\* Looking at the link of a mail is a turn of the worker that has it.
LEMMA CheckStep ==
  ASSUME OutboxOK, NEW w \in Workers, Check(w)
  PROVE  \E m \in DOMAIN mail : \E step \in Steps : Turns(w, m, step)
<1>1. PICK found \in Steps :
        found = IF isCurrentActionPayload(work[w].mail) THEN "CURRENT" ELSE "SUPERSEDED"
  BY DEF Steps
<1>2. "FAILED" \in Steps
  BY DEF Steps
<1>3. /\ work[w].step = "CLAIMED" /\ UNCHANGED <<vars, mail, troubles>>
      /\ \/ work' = [work EXCEPT ![w].step = found]
         \/ work' = [work EXCEPT ![w].step = "FAILED"]
  BY <1>1 DEF Check
<1>4. PICK m \in DOMAIN mail : m = work[w].mail /\ mail[m] \in Row
  BY <1>3, InHand
<1>5. found = "SUPERSEDED" => ~Works(work[w].mail)
  BY <1>1, <1>4 DEF isCurrentActionPayload, Works
<1>6. found \in {"CURRENT", "SUPERSEDED"}
  BY <1>1
<1>7. CASE work' = [work EXCEPT ![w].step = found]
  BY <1>3, <1>5, <1>6, <1>7, TurnStep
<1>8. CASE work' = [work EXCEPT ![w].step = "FAILED"]
  BY <1>2, <1>3, <1>8, TurnStep
<1> QED
  BY <1>3, <1>7, <1>8

\* The row of a mail with other counts, and what is left of it then.
Counts(r, n, d) == [r EXCEPT !.accepted = n, !.doubts = d]

SameButCounts(r, q) ==
  r.user = q.user /\ r.kind = q.kind /\ r.link = q.link /\ r.attempts = q.attempts

\* The two rows that a worker writes when it hands a mail over, or has.
Writes(w, m, n, d, step) ==
  /\ mail' = [mail EXCEPT ![m] = Counts(mail[m], n, d)]
  /\ work' = [work EXCEPT ![w].step = step]

\* The server takes the mail, or refuses it, or takes it and the worker does not
\* know, because the answer is lost or because it could not record it.
Hands(w, m, n, d, step) ==
  /\ UNCHANGED vars
  /\ work[w].mail = m
  /\ Only(m, w)
  /\ work'[w].mail = m /\ work'[w].attempts = work[w].attempts /\ work'[w].step = step
  /\ \/ /\ work[w].step = "CURRENT" /\ troubles' = troubles
        /\ \/ n = mail[m].accepted + 1 /\ d = mail[m].doubts /\ step = "SENT"
           \/ n = mail[m].accepted /\ d = mail[m].doubts /\ step = "FAILED"
     \/ /\ troubles < MaxTroubles /\ troubles' = troubles + 1
        /\ d = mail[m].doubts + 1 /\ step = "FAILED"
        /\ \/ work[w].step = "CURRENT" /\ n = mail[m].accepted + 1
           \/ work[w].step = "SENT" /\ n = mail[m].accepted
  /\ mail'[m].accepted = n /\ mail'[m].doubts = d /\ mail'[m].status = mail[m].status
  /\ SameButCounts(mail'[m], mail[m])

\* The row of a mail and the hand of its worker are written.
LEMMA HandsWritten ==
  ASSUME OutboxOK, NEW w \in Workers, NEW m \in DOMAIN mail, m = work[w].mail,
         NEW n \in Nat, NEW d \in Nat, NEW step \in Steps,
         Writes(w, m, n, d, step)
  PROVE  /\ Only(m, w)
         /\ work'[w].mail = m /\ work'[w].attempts = work[w].attempts
         /\ work'[w].step = step
         /\ mail'[m].accepted = n /\ mail'[m].doubts = d
         /\ mail'[m].status = mail[m].status
         /\ SameButCounts(mail'[m], mail[m])
<1>1. mail[m] \in Row
  BY DEF OutboxOK
<1> DEFINE r == Counts(mail[m], n, d)
<1>2. /\ r \in Row /\ r.accepted = n /\ r.doubts = d /\ r.status = mail[m].status
      /\ SameButCounts(r, mail[m])
  <2>1. r \in Row
    BY <1>1, RowWritten DEF Statuses, Counts
  <2> QED
    BY <1>1, <2>1 DEF Row, Counts, SameButCounts
<1>3. mail' = [mail EXCEPT ![m] = r] /\ work' = [work EXCEPT ![w].step = step]
  BY DEF Writes
<1> HIDE DEF r
<1>4. /\ work' \in [Workers -> Hand]
      /\ \A v \in Workers : v # w => work'[v] = work[v]
      /\ work'[w].mail = m /\ work'[w].attempts = work[w].attempts
      /\ work'[w].step = step
  BY <1>3, StepWritten
<1>5. Only(m, w) /\ mail'[m] = r
  BY <1>2, <1>3, <1>4, OnlyMail
<1> QED
  BY <1>2, <1>4, <1>5

\* Handing a mail over is accepted and counted, or refused, or accepted and the
\* worker does not hear of it.
LEMMA DeliverStep ==
  ASSUME OutboxOK, NEW w \in Workers, Deliver(w)
  PROVE  \E m \in DOMAIN mail : \E n, d \in Nat, step \in Steps : Hands(w, m, n, d, step)
<1>1. work[w].step = "CURRENT" /\ UNCHANGED vars
  BY DEF Deliver
<1>2. PICK m \in DOMAIN mail : m = work[w].mail /\ mail[m] \in Row
  BY <1>1, InHand
<1>3. PICK a \in Nat, b \in Nat : a = mail[m].accepted /\ b = mail[m].doubts
  BY <1>2 DEF Row
<1>4. a + 1 \in Nat /\ b + 1 \in Nat /\ "SENT" \in Steps /\ "FAILED" \in Steps
  BY DEF Steps
<1>5. mail \in [DOMAIN mail -> Row]
  BY DEF OutboxOK
<1>6. CASE /\ mail' = [mail EXCEPT ![m].accepted = @ + 1]
           /\ work' = [work EXCEPT ![w].step = "SENT"] /\ troubles' = troubles
  <2>1. Writes(w, m, a + 1, b, "SENT")
    BY <1>2, <1>3, <1>5, <1>6 DEF Row, Counts, Writes
  <2>2. /\ Only(m, w)
        /\ work'[w].mail = m /\ work'[w].attempts = work[w].attempts
        /\ work'[w].step = "SENT"
        /\ mail'[m].accepted = a + 1 /\ mail'[m].doubts = b
        /\ mail'[m].status = mail[m].status
        /\ SameButCounts(mail'[m], mail[m])
    BY <1>2, <1>3, <1>4, <2>1, HandsWritten
  <2>3. Hands(w, m, a + 1, b, "SENT")
    BY <1>1, <1>2, <1>3, <1>6, <2>2 DEF Hands
  <2> QED
    BY <1>4, <2>3
<1>7. CASE /\ mail' = mail
           /\ work' = [work EXCEPT ![w].step = "FAILED"] /\ troubles' = troubles
  <2>1. mail[m] = Counts(mail[m], a, b)
    BY <1>2, <1>3 DEF Row, Counts
  <2>2. mail = [mail EXCEPT ![m] = mail[m]]
    BY <1>5
  <2>3. Writes(w, m, a, b, "FAILED")
    BY <1>7, <2>1, <2>2 DEF Writes
  <2>4. /\ Only(m, w)
        /\ work'[w].mail = m /\ work'[w].attempts = work[w].attempts
        /\ work'[w].step = "FAILED"
        /\ mail'[m].accepted = a /\ mail'[m].doubts = b
        /\ mail'[m].status = mail[m].status
        /\ SameButCounts(mail'[m], mail[m])
    BY <1>2, <1>3, <1>4, <2>3, HandsWritten
  <2>5. Hands(w, m, a, b, "FAILED")
    BY <1>1, <1>2, <1>3, <1>7, <2>4 DEF Hands
  <2> QED
    BY <1>4, <2>5
<1>8. CASE /\ mail' = [mail EXCEPT ![m].accepted = @ + 1, ![m].doubts = @ + 1]
           /\ work' = [work EXCEPT ![w].step = "FAILED"] /\ Trouble
  <2>1. Writes(w, m, a + 1, b + 1, "FAILED")
    BY <1>2, <1>3, <1>5, <1>8 DEF Row, Counts, Writes
  <2>2. /\ Only(m, w)
        /\ work'[w].mail = m /\ work'[w].attempts = work[w].attempts
        /\ work'[w].step = "FAILED"
        /\ mail'[m].accepted = a + 1 /\ mail'[m].doubts = b + 1
        /\ mail'[m].status = mail[m].status
        /\ SameButCounts(mail'[m], mail[m])
    BY <1>2, <1>3, <1>4, <2>1, HandsWritten
  <2>3. Hands(w, m, a + 1, b + 1, "FAILED")
    BY <1>1, <1>2, <1>3, <1>8, <2>2 DEF Hands, Trouble
  <2> QED
    BY <1>4, <2>3
<1> QED
  BY <1>2, <1>6, <1>7, <1>8 DEF Deliver

\* A record that fails is a doubt, if the mail was sent, and a turn, if not.
LEMMA RecordFailsStep ==
  ASSUME OutboxOK, NEW w \in Workers, RecordFails(w)
  PROVE  \E m \in DOMAIN mail :
           \/ \E step \in Steps : Turns(w, m, step)
           \/ \E n, d \in Nat, step \in Steps : Hands(w, m, n, d, step)
<1>1. /\ work[w].step \in {"SENT", "SUPERSEDED"} /\ UNCHANGED vars
      /\ work' = [work EXCEPT ![w].step = "FAILED"]
  BY DEF RecordFails
<1>2. PICK m \in DOMAIN mail : m = work[w].mail /\ mail[m] \in Row
  BY <1>1, InHand
<1>3. PICK a \in Nat, b \in Nat : a = mail[m].accepted /\ b = mail[m].doubts
  BY <1>2 DEF Row
<1>4. b + 1 \in Nat /\ "FAILED" \in Steps
  BY DEF Steps
<1>5. mail \in [DOMAIN mail -> Row]
  BY DEF OutboxOK
<1>6. CASE work[w].step = "SENT"
  <2>1. mail' = [mail EXCEPT ![m].doubts = @ + 1] /\ Trouble
    BY <1>2, <1>6 DEF RecordFails
  <2>2. Writes(w, m, a, b + 1, "FAILED")
    BY <1>1, <1>2, <1>3, <1>5, <2>1 DEF Row, Counts, Writes
  <2>3. /\ Only(m, w)
        /\ work'[w].mail = m /\ work'[w].attempts = work[w].attempts
        /\ work'[w].step = "FAILED"
        /\ mail'[m].accepted = a /\ mail'[m].doubts = b + 1
        /\ mail'[m].status = mail[m].status
        /\ SameButCounts(mail'[m], mail[m])
    BY <1>2, <1>3, <1>4, <2>2, HandsWritten
  <2>4. Hands(w, m, a, b + 1, "FAILED")
    BY <1>1, <1>2, <1>3, <1>6, <2>1, <2>3 DEF Hands, Trouble
  <2> QED
    BY <1>4, <2>4
<1>7. CASE work[w].step = "SUPERSEDED"
  <2>1. UNCHANGED <<vars, mail, troubles>>
    BY <1>1, <1>7 DEF RecordFails
  <2> QED
    BY <1>1, <1>4, <1>7, <2>1, TurnStep
<1> QED
  BY <1>1, <1>6, <1>7

\* A worker records how it went, unless somebody else has been there.
Records(w, m) ==
  /\ UNCHANGED <<vars, troubles>>
  /\ work[w].mail = m /\ work[w].step \in {"SENT", "FAILED", "SUPERSEDED"}
  /\ Only(m, w) /\ work'[w] = AtRest
  /\ Same(mail'[m], mail[m])
  /\ IF mail[m].status = "PROCESSING" THEN mail'[m].status = Outcome(w)
     ELSE mail'[m].status = mail[m].status

\* A worker records the end of its mail and rests.
LEMMA RecordStep ==
  ASSUME OutboxOK, NEW w \in Workers, Record(w)
  PROVE  \E m \in DOMAIN mail : Records(w, m)
<1>1. /\ work[w].step \in {"SENT", "FAILED", "SUPERSEDED"} /\ UNCHANGED <<vars, troubles>>
      /\ work' = [work EXCEPT ![w] = AtRest]
  BY DEF Record
<1>2. PICK m \in DOMAIN mail : m = work[w].mail /\ mail[m] \in Row
  BY <1>1, InHand
<1>3. mail \in [DOMAIN mail -> Row]
  BY DEF OutboxOK
<1>4. AtRest \in Hand
  BY DEF AtRest, Hand
<1>5. /\ work' \in [Workers -> Hand] /\ work'[w] = AtRest
      /\ \A v \in Workers : v # w => work'[v] = work[v]
  BY <1>1, <1>4 DEF OutboxOK
<1>6. PICK s \in Statuses :
        s = IF mail[m].status = "PROCESSING" THEN Outcome(w) ELSE mail[m].status
  <2>1. Outcome(w) \in Statuses
    BY DEF Outcome, Statuses
  <2>2. mail[m].status \in Statuses
    BY <1>2 DEF Row, Statuses
  <2> QED
    BY <2>1, <2>2
<1> DEFINE r == [mail[m] EXCEPT !.status = s]
<1>7. r \in Row /\ r.status = s /\ Same(r, mail[m])
  <2>1. r \in Row
    BY <1>2, RowWritten
  <2> QED
    BY <1>2, <2>1 DEF Row, Same
<1>8. mail' = [mail EXCEPT ![m] = r]
  <2>1. CASE mail[m].status = "PROCESSING"
    <3>1. mail' = [mail EXCEPT ![m].status = Outcome(w)]
      BY <1>2, <2>1 DEF Record, StillProcessing
    <3> QED
      BY <1>6, <2>1, <3>1
  <2>2. CASE mail[m].status # "PROCESSING"
    <3>1. mail' = mail
      BY <1>2, <2>2 DEF Record, StillProcessing
    <3>2. s = mail[m].status
      BY <1>6, <2>2
    <3>3. mail[m] = [mail[m] EXCEPT !.status = mail[m].status]
      BY <1>2 DEF Row
    <3>4. mail = [mail EXCEPT ![m] = mail[m]]
      BY <1>3
    <3> QED
      BY <3>1, <3>2, <3>3, <3>4
  <2> QED
    BY <2>1, <2>2
<1> HIDE DEF r
<1>9. Only(m, w) /\ mail'[m] = r
  BY <1>5, <1>7, <1>8, OnlyMail
<1> QED
  BY <1>1, <1>2, <1>5, <1>6, <1>7, <1>9 DEF Records

\* A mail is taken from its worker.
Takes(m) ==
  /\ UNCHANGED <<vars, work>>
  /\ \A w : Only(m, w)
  /\ mail[m].status = "PROCESSING" /\ mail'[m].status = "FAILED"
  /\ mail'[m].doubts = mail[m].doubts + 1
  /\ Same([mail'[m] EXCEPT !.doubts = mail[m].doubts], mail[m])
  /\ \/ (\A w \in Workers : work[w].mail # m) /\ troubles' = troubles
     \/ troubles < MaxTroubles /\ troubles' = troubles + 1

\* Taking a mail back either finds nobody who holds it, or is one of the troubles.
LEMMA TakeStep ==
  ASSUME OutboxOK, NEW m \in DOMAIN mail, TakeBack(m)
  PROVE  Takes(m)
<1>1. mail[m] \in Row
  BY DEF OutboxOK
<1>2. PICK s \in Statuses, d \in Nat : s = "FAILED" /\ d = mail[m].doubts + 1
  BY <1>1 DEF Statuses, Row
<1> DEFINE r == [mail[m] EXCEPT !.status = s, !.doubts = d]
<1>3. r \in Row
  BY <1>1, RowWritten
<1>4. /\ r.status = "FAILED" /\ r.doubts = mail[m].doubts + 1
      /\ Same([r EXCEPT !.doubts = mail[m].doubts], mail[m])
  BY <1>1, <1>2 DEF Row, Same
<1>5. mail' = [mail EXCEPT ![m] = r]
  BY <1>2 DEF TakeBack
<1> HIDE DEF r
<1>6. UNCHANGED <<vars, work>> /\ mail[m].status = "PROCESSING"
  BY DEF TakeBack
<1>7. \A w : Only(m, w) /\ mail'[m] = r
  BY <1>3, <1>5, <1>6, OnlyMail DEF OutboxOK
<1>8. \/ (\A w \in Workers : work[w].mail # m) /\ troubles' = troubles
      \/ troubles < MaxTroubles /\ troubles' = troubles + 1
  BY DEF TakeBack, Abandoned, Trouble
<1> QED
  BY <1>4, <1>6, <1>7, <1>8 DEF Takes

\* A worker stops.
Quits(w, m) ==
  /\ UNCHANGED vars /\ mail' = mail
  /\ Only(m, w)
  /\ work[w].mail = m /\ work'[w] = AtRest
  /\ troubles < MaxTroubles /\ troubles' = troubles + 1

\* A worker that stops lets go of one mail, which is one of the troubles.
LEMMA QuitStep ==
  ASSUME OutboxOK, NEW w \in Workers, Stop(w)
  PROVE  \E m \in DOMAIN mail : Quits(w, m)
<1>1. /\ work[w] # AtRest /\ troubles < MaxTroubles /\ troubles' = troubles + 1
      /\ work' = [work EXCEPT ![w] = AtRest] /\ UNCHANGED vars /\ mail' = mail
  BY DEF Stop, Trouble
<1>2. PICK m \in DOMAIN mail : m = work[w].mail
  BY <1>1, InHand
<1>3. AtRest \in Hand
  BY DEF AtRest, Hand
<1>4. /\ work' \in [Workers -> Hand] /\ work'[w] = AtRest
      /\ \A v \in Workers : v # w => work'[v] = work[v]
  BY <1>1, <1>3 DEF OutboxOK
<1>5. Only(m, w)
  BY <1>1, <1>4 DEF Only, OutboxOK
<1> QED
  BY <1>1, <1>2, <1>4, <1>5 DEF Quits

\* Every step is one of these, or of the accounts.
LEMMA Cases ==
  ASSUME OutboxOK, MailNext
  PROVE  \/ AccountsStep
         \/ \E m \in DOMAIN mail :
              \/ Takes(m)
              \/ \E w \in Workers :
                   \/ Claims(w, m) \/ Records(w, m) \/ Quits(w, m)
                   \/ \E step \in Steps : Turns(w, m, step)
                   \/ \E n, d \in Nat, step \in Steps : Hands(w, m, n, d, step)
<1> DEFINE Goal == \/ AccountsStep
                   \/ \E m \in DOMAIN mail :
                        \/ Takes(m)
                        \/ \E w \in Workers :
                             \/ Claims(w, m) \/ Records(w, m) \/ Quits(w, m)
                             \/ \E step \in Steps : Turns(w, m, step)
                             \/ \E n, d \in Nat, step \in Steps : Hands(w, m, n, d, step)
<1>1. CASE AccountsStep
  BY <1>1
<1>2. ASSUME NEW w \in Workers, processBatch(w) PROVE Goal
  BY <1>2, ClaimStep
<1>3. ASSUME NEW w \in Workers, Check(w) PROVE Goal
  BY <1>3, CheckStep
<1>4. ASSUME NEW w \in Workers, Deliver(w) PROVE Goal
  BY <1>4, DeliverStep
<1>5. ASSUME NEW w \in Workers, RecordFails(w) PROVE Goal
  BY <1>5, RecordFailsStep
<1>6. ASSUME NEW w \in Workers, Record(w) PROVE Goal
  BY <1>6, RecordStep
<1>7. ASSUME NEW w \in Workers, Stop(w) PROVE Goal
  BY <1>7, QuitStep
<1>8. ASSUME NEW m \in DOMAIN mail, TakeBack(m) PROVE Goal
  BY <1>8, TakeStep
<1>9. Goal
  BY <1>1, <1>2, <1>3, <1>4, <1>5, <1>6, <1>7, <1>8 DEF MailNext, WorkerStep
<1> QED
  BY <1>9 DEF Goal

-----------------------------------------------------------------------------
\* What every step leaves of the rows.
Grown ==
  /\ mail' \in Seq(Row) /\ Len(mail') <= MaxMails
  /\ DOMAIN mail \subseteq DOMAIN mail'
  /\ \A k \in DOMAIN mail :
       /\ mail'[k].user = mail[k].user /\ mail'[k].kind = mail[k].kind
       /\ mail'[k].link = mail[k].link
       /\ mail[k].attempts <= mail'[k].attempts

\* A row that changed in these columns only.
LEMMA GrownRow ==
  ASSUME OutboxOK, NEW m \in DOMAIN mail, NEW w, Only(m, w),
         mail'[m].user = mail[m].user /\ mail'[m].kind = mail[m].kind,
         mail'[m].link = mail[m].link, mail[m].attempts <= mail'[m].attempts
  PROVE  Grown
<1>1. /\ mail' \in Seq(Row) /\ Len(mail') = Len(mail) /\ DOMAIN mail' = DOMAIN mail
      /\ \A k \in DOMAIN mail : k # m => mail'[k] = mail[k]
  BY DEF Only
<1>2. Len(mail) <= MaxMails /\ \A k \in DOMAIN mail : mail[k].attempts \in Nat
  <2>1. \A k \in DOMAIN mail : mail[k] \in Row
    BY DEF OutboxOK
  <2> QED
    BY <2>1 DEF OutboxOK, Row
<1>3. \A k \in DOMAIN mail :
        /\ mail'[k].user = mail[k].user /\ mail'[k].kind = mail[k].kind
        /\ mail'[k].link = mail[k].link
        /\ mail[k].attempts <= mail'[k].attempts
  BY <1>1, <1>2
<1> QED
  BY <1>1, <1>2, <1>3 DEF Grown

\* No step takes a mail away, gives it to another person or forgets an attempt.
LEMMA Grows ==
  ASSUME OutboxInv, MailNext
  PROVE  Grown
<1>0. OutboxOK /\ \A k \in DOMAIN mail : mail[k].attempts \in Nat
  <2>1. OutboxOK /\ \A k \in DOMAIN mail : mail[k] \in Row
    BY DEF OutboxInv, OutboxOK
  <2> QED
    BY <2>1 DEF Row
<1>1. CASE AccountsStep
  <2>1. Moved
    BY <1>1, AccountsMove
  <2>2. \A k \in DOMAIN mail : mail'[k] = mail[k] \/ Same(mail'[k], mail[k])
    BY <2>1 DEF Moved, Cancelled
  <2> QED
    BY <1>0, <2>1, <2>2 DEF Moved, Grown, Same
<1>2. ASSUME NEW m \in DOMAIN mail, Takes(m)
      PROVE  Grown
  <2>1. /\ Only(m, m)
        /\ mail'[m].user = mail[m].user /\ mail'[m].kind = mail[m].kind
        /\ mail'[m].link = mail[m].link /\ mail'[m].attempts = mail[m].attempts
    BY <1>2 DEF Takes, Same, Only
  <2> QED
    BY <1>0, <2>1, GrownRow
<1>3. ASSUME NEW m \in DOMAIN mail, NEW w \in Workers, Claims(w, m)
      PROVE  Grown
  <2>1. /\ Only(m, w)
        /\ mail'[m].user = mail[m].user /\ mail'[m].kind = mail[m].kind
        /\ mail'[m].link = mail[m].link /\ mail'[m].attempts = mail[m].attempts + 1
    BY <1>3 DEF Claims, Same
  <2> QED
    BY <1>0, <2>1, GrownRow
<1>4. ASSUME NEW m \in DOMAIN mail, NEW w \in Workers, Records(w, m)
      PROVE  Grown
  <2>1. /\ Only(m, w)
        /\ mail'[m].user = mail[m].user /\ mail'[m].kind = mail[m].kind
        /\ mail'[m].link = mail[m].link /\ mail'[m].attempts = mail[m].attempts
    BY <1>4 DEF Records, Same
  <2> QED
    BY <1>0, <2>1, GrownRow
<1>5. ASSUME NEW m \in DOMAIN mail, NEW w \in Workers, NEW n \in Nat, NEW d \in Nat,
             NEW step \in Steps,
             Hands(w, m, n, d, step)
      PROVE  Grown
  <2>1. /\ Only(m, w)
        /\ mail'[m].user = mail[m].user /\ mail'[m].kind = mail[m].kind
        /\ mail'[m].link = mail[m].link /\ mail'[m].attempts = mail[m].attempts
    BY <1>5 DEF Hands, SameButCounts, Same
  <2> QED
    BY <1>0, <2>1, GrownRow
<1>6. ASSUME mail' = mail
      PROVE  Grown
  BY <1>0, <1>6 DEF Grown, OutboxOK
<1> QED
  BY <1>0, <1>1, <1>2, <1>3, <1>4, <1>5, <1>6, Cases DEF Turns, Quits

\* What a worker that does not move has is still there.
LEMMA HoldsOn ==
  ASSUME OutboxOK, Grown, NEW w \in Workers, work'[w] = work[w]
  PROVE  Holds(w)'
<1>1. Holds(w)
  BY DEF OutboxOK
<1>2. CASE work[w] = AtRest
  BY <1>2 DEF Holds
<1>3. CASE work[w] # AtRest
  <2>1. PICK m \in DOMAIN mail : m = work[w].mail /\ work[w].attempts <= mail[m].attempts
    BY <1>1, <1>3 DEF Holds
  <2>2. m \in DOMAIN mail' /\ mail[m].attempts <= mail'[m].attempts
    BY DEF Grown
  <2>3. mail[m] \in Row /\ mail'[m] \in Row /\ work[w] \in Hand
    BY <2>2 DEF OutboxOK, Grown
  <2>4. mail[m].attempts \in Nat /\ mail'[m].attempts \in Nat /\ work[w].attempts \in Nat
    BY <2>3 DEF Row, Hand
  <2>5. work[w].attempts <= mail'[m].attempts
    BY <2>1, <2>2, <2>4
  <2> QED
    BY <1>1, <1>3, <2>1, <2>2, <2>5 DEF Holds
<1> QED
  BY <1>2, <1>3

\* Rows and hands keep their shape, and hands their mails.
LEMMA OutboxKept ==
  ASSUME OutboxInv, MailNext
  PROVE  OutboxOK'
<1>0. OutboxOK /\ Grown /\ MaxTroubles \in Nat /\ troubles \in 0 .. MaxTroubles
  BY Grows, MailAssumption DEF OutboxInv, OutboxOK, MailAssumption
<1>1. /\ work' \in [Workers -> Hand] /\ troubles' \in 0 .. MaxTroubles
      /\ \A w \in Workers : Holds(w)'
  <2>1. CASE AccountsStep
    <3>1. work' = work /\ troubles' = troubles
      BY <2>1, AccountsMove
    <3>2. \A w \in Workers : Holds(w)'
      BY <1>0, <3>1, HoldsOn
    <3> QED
      BY <1>0, <3>1, <3>2 DEF OutboxOK
  <2>2. ASSUME NEW m \in DOMAIN mail, Takes(m)
        PROVE  /\ work' \in [Workers -> Hand] /\ troubles' \in 0 .. MaxTroubles
               /\ \A w \in Workers : Holds(w)'
    <3>1. work' = work /\ troubles' \in 0 .. MaxTroubles
      BY <1>0, <2>2 DEF Takes
    <3>2. \A w \in Workers : Holds(w)'
      BY <1>0, <3>1, HoldsOn
    <3> QED
      BY <1>0, <3>1, <3>2 DEF OutboxOK
  <2>3. ASSUME NEW m \in DOMAIN mail, NEW w \in Workers, Only(m, w), Holds(w)',
               troubles' = troubles \/ (troubles < MaxTroubles /\ troubles' = troubles + 1)
        PROVE  /\ work' \in [Workers -> Hand] /\ troubles' \in 0 .. MaxTroubles
               /\ \A v \in Workers : Holds(v)'
    <3>1. troubles' \in 0 .. MaxTroubles
      BY <1>0, <2>3
    <3>2. /\ work' \in [Workers -> Hand]
          /\ \A v \in Workers : v # w => work'[v] = work[v]
      BY <2>3 DEF Only
    <3>3. \A v \in Workers : Holds(v)'
      BY <1>0, <2>3, <3>2, HoldsOn
    <3> QED
      BY <3>1, <3>2, <3>3
  <2>4. ASSUME NEW m \in DOMAIN mail, NEW w \in Workers, Claims(w, m)
        PROVE  Only(m, w) /\ troubles' = troubles /\ Holds(w)'
    <3>1. mail[m] \in Row
      BY <1>0 DEF OutboxOK
    <3>2. work'[w].attempts <= mail'[m].attempts
      BY <2>4, <3>1 DEF Claims, Row
    <3> QED
      BY <1>0, <2>4, <3>2 DEF Claims, Holds, Grown
  <2>5. ASSUME NEW m \in DOMAIN mail, NEW w \in Workers, Only(m, w),
               work[w].mail = m, work[w].step # "IDLE", work'[w].step # "IDLE",
               work'[w].mail = m, work'[w].attempts = work[w].attempts
        PROVE  Holds(w)'
    <3>1. work[w].attempts <= mail[m].attempts
      BY <1>0, <2>5, InHand
    <3>2. m \in DOMAIN mail' /\ mail[m].attempts <= mail'[m].attempts
      BY <1>0 DEF Grown
    <3>3. mail[m] \in Row /\ mail'[m] \in Row /\ work[w] \in Hand
      BY <1>0, <3>2 DEF OutboxOK, Grown
    <3>4. mail[m].attempts \in Nat /\ mail'[m].attempts \in Nat /\ work[w].attempts \in Nat
      BY <3>3 DEF Row, Hand
    <3>5. work[w].attempts <= mail'[m].attempts
      BY <3>1, <3>2, <3>4
    <3> QED
      BY <2>5, <3>2, <3>5 DEF Holds
  <2>6. ASSUME NEW m \in DOMAIN mail, NEW w \in Workers, NEW step \in Steps,
               Turns(w, m, step)
        PROVE  Only(m, w) /\ troubles' = troubles /\ Holds(w)'
    BY <2>5, <2>6 DEF Turns
  <2>7. ASSUME NEW m \in DOMAIN mail, NEW w \in Workers, NEW n \in Nat, NEW d \in Nat,
               NEW step \in Steps, Hands(w, m, n, d, step)
        PROVE  /\ Only(m, w) /\ Holds(w)'
               /\ troubles' = troubles \/ (troubles < MaxTroubles /\ troubles' = troubles + 1)
    BY <2>5, <2>7 DEF Hands
  <2>8. ASSUME NEW m \in DOMAIN mail, NEW w \in Workers, Records(w, m)
        PROVE  Only(m, w) /\ troubles' = troubles /\ Holds(w)'
    BY <2>8 DEF Records, Holds
  <2>9. ASSUME NEW m \in DOMAIN mail, NEW w \in Workers, Quits(w, m)
        PROVE  Only(m, w) /\ troubles < MaxTroubles /\ troubles' = troubles + 1 /\ Holds(w)'
    BY <2>9 DEF Quits, Holds
  <2> QED
    BY <1>0, <2>1, <2>2, <2>3, <2>4, <2>6, <2>7, <2>8, <2>9, Cases
<1> QED
  BY <1>0, <1>1 DEF OutboxOK, Grown

-----------------------------------------------------------------------------
\* Both tables of links age with every step.
LEMMA LinksAge ==
  ASSUME OutboxInv, MailNext
  PROVE  Aged(verify, verify') /\ Aged(reset, reset')
<1>1. Inv /\ [Next]_vars
  BY AccountsGoOn DEF OutboxInv
<1> QED
  BY <1>1, VerifyAges, ResetAges

\* The link of a mail stays its addressee's, and works only if it did.
LEMMA WorkedBefore ==
  ASSUME OutboxInv, Grown, Aged(verify, verify'), Aged(reset, reset'),
         NEW m \in DOMAIN mail
  PROVE  Fits(m)' /\ (Works(m)' => Works(m))
<1>1. Fits(m)
  BY DEF OutboxInv, LinksFollowed
<1>2. /\ mail'[m].user = mail[m].user /\ mail'[m].kind = mail[m].kind
      /\ mail'[m].link = mail[m].link
  BY DEF Grown
<1> QED
  BY <1>1, <1>2 DEF Fits, LinkOf, Works, Aged

\* A mail is given up for one of three reasons: it was taken back with its link,
\* its link was found not to work, or its attempts were used up.
LEMMA GivenUpFor ==
  ASSUME OutboxInv, MailNext, Grown, NEW k \in DOMAIN mail,
         Aged(verify, verify'), Aged(reset, reset'),
         mail'[k].status = "DEAD", mail[k].status # "DEAD"
  PROVE  ~Works(k)' \/ mail'[k].attempts >= MaxAttempts
<1> DEFINE Goal == ~Works(k)' \/ mail'[k].attempts >= MaxAttempts
<1>0. OutboxOK
  BY DEF OutboxInv
<1>1. CASE AccountsStep
  BY <1>1, AccountsMove DEF Moved, Cancelled
<1>2. ASSUME NEW m \in DOMAIN mail, NEW w, Only(m, w), mail'[m].status # "DEAD"
      PROVE  FALSE
  BY <1>2 DEF Only
<1>3. ASSUME NEW m \in DOMAIN mail, Takes(m)
      PROVE  Goal
  <2>1. Only(m, m) /\ mail'[m].status # "DEAD"
    BY <1>3 DEF Takes, Only
  <2> QED
    BY <1>2, <2>1
<1>4. ASSUME NEW m \in DOMAIN mail, NEW w \in Workers, Claims(w, m)
      PROVE  Goal
  BY <1>2, <1>4 DEF Claims
<1>5. ASSUME NEW m \in DOMAIN mail, NEW w \in Workers, NEW n \in Nat, NEW d \in Nat,
             NEW step \in Steps,
             Hands(w, m, n, d, step)
      PROVE  Goal
  BY <1>2, <1>5 DEF Hands, Only
<1>6. ASSUME mail' = mail
      PROVE  Goal
  BY <1>6
<1>7. ASSUME NEW m \in DOMAIN mail, NEW w \in Workers, Records(w, m)
      PROVE  Goal
  <2>1. k = m
    BY <1>7 DEF Records, Only
  <2>2. /\ work[w].mail = k /\ mail[k].status = "PROCESSING" /\ Outcome(w) = "DEAD"
        /\ mail'[k].attempts = mail[k].attempts
    BY <1>7, <2>1 DEF Records, Same
  <2>3. CASE work[w].step = "SUPERSEDED"
    <3>1. ~Works(k)
      BY <2>2, <2>3 DEF OutboxInv, LinksFollowed
    <3> QED
      BY <3>1, WorkedBefore
  <2>4. CASE work[w].attempts >= MaxAttempts
    <3>1. work[w].step # "IDLE"
      BY <1>7 DEF Records
    <3>2. work[w].attempts <= mail[k].attempts /\ mail[k] \in Row /\ work[w] \in Hand
      BY <1>0, <2>2, <3>1, InHand
    <3>3. mail[k].attempts \in Nat /\ work[w].attempts \in Nat /\ MaxAttempts \in Nat
      BY <3>2, MailAssumption DEF Row, Hand, MailAssumption
    <3> QED
      BY <2>2, <2>4, <3>2, <3>3
  <2> QED
    BY <2>2, <2>3, <2>4 DEF Outcome
<1>8. Goal
  BY <1>0, <1>1, <1>3, <1>4, <1>5, <1>6, <1>7, Cases DEF Turns, Quits
<1> QED
  BY <1>8 DEF Goal

\* Links are followed.
LEMMA LinksKeptUp ==
  ASSUME OutboxInv, MailNext
  PROVE  LinksFollowed'
<1>0. /\ OutboxOK /\ OutboxOK' /\ Grown
      /\ Aged(verify, verify') /\ Aged(reset, reset')
  BY OutboxKept, Grows, LinksAge DEF OutboxInv
<1>1. ASSUME NEW k \in DOMAIN mail', k \notin DOMAIN mail
      PROVE  Fits(k)' /\ mail'[k].status # "DEAD"
  <2>1. CASE AccountsStep
    BY <1>1, <2>1, AccountsMove DEF Moved, Queued
  <2>2. ASSUME NEW m, NEW w, Only(m, w)
        PROVE  FALSE
    BY <1>1, <2>2 DEF Only
  <2>3. ASSUME NEW m, Takes(m)
        PROVE  FALSE
    <3>1. Only(m, m)
      BY <2>3 DEF Takes
    <3> QED
      BY <2>2, <3>1
  <2>4. ASSUME NEW m \in DOMAIN mail, NEW w \in Workers, Claims(w, m) \/ Records(w, m)
        PROVE  FALSE
    BY <2>2, <2>4 DEF Claims, Records
  <2>5. ASSUME NEW m \in DOMAIN mail, NEW w \in Workers, NEW n \in Nat, NEW d \in Nat,
             NEW step \in Steps,
               Hands(w, m, n, d, step)
        PROVE  FALSE
    BY <2>2, <2>5 DEF Hands
  <2>6. mail' # mail
    BY <1>1
  <2> QED
    BY <1>0, <2>1, <2>3, <2>4, <2>5, <2>6, Cases DEF Turns, Quits
<1>2. \A k \in DOMAIN mail' : Fits(k)'
  BY <1>0, <1>1, WorkedBefore
<1>3. ASSUME NEW w \in Workers, work'[w].step = "SUPERSEDED"
      PROVE  ~Works(work[w].mail)'
  <2> DEFINE Goal == ~Works(work[w].mail)'
  <2>1. ASSUME work'[w] = work[w]
        PROVE  Goal
    <3>1. PICK k \in DOMAIN mail : k = work[w].mail
      BY <1>0, <1>3, <2>1, InHand
    <3>2. ~Works(k)
      BY <1>3, <2>1, <3>1 DEF OutboxInv, LinksFollowed
    <3>3. ~Works(k)'
      BY <1>0, <3>2, WorkedBefore
    <3>4. work'[w].mail = k
      BY <2>1, <3>1
    <3> QED
      BY <3>3, <3>4
  <2>2. CASE AccountsStep
    BY <2>1, <2>2, AccountsMove
  <2>3. ASSUME NEW m \in DOMAIN mail, Takes(m)
        PROVE  Goal
    BY <2>1, <2>3 DEF Takes
  <2>4. ASSUME NEW m \in DOMAIN mail, NEW v \in Workers, Only(m, v), work'[v].step # "SUPERSEDED"
        PROVE  Goal
    BY <1>3, <2>1, <2>4 DEF Only
  <2>5. ASSUME NEW m \in DOMAIN mail, NEW v \in Workers,
               Claims(v, m) \/ Records(v, m) \/ Quits(v, m)
        PROVE  Goal
    BY <2>4, <2>5 DEF Claims, Records, Quits, AtRest
  <2>6. ASSUME NEW m \in DOMAIN mail, NEW v \in Workers, NEW n \in Nat, NEW d \in Nat,
             NEW step \in Steps,
               Hands(v, m, n, d, step)
        PROVE  Goal
    BY <2>4, <2>6 DEF Hands
  <2>7. ASSUME NEW m \in DOMAIN mail, NEW v \in Workers, NEW step \in Steps,
               Turns(v, m, step)
        PROVE  Goal
    <3>1. CASE v = w
      <4>1. work'[w].mail = m /\ ~Works(m)
        BY <1>3, <2>7, <3>1 DEF Turns
      <4>2. ~Works(m)'
        BY <1>0, <4>1, WorkedBefore
      <4> QED
        BY <4>1, <4>2
    <3>2. CASE v # w
      BY <2>1, <2>7, <3>2 DEF Turns, Only
    <3> QED
      BY <3>1, <3>2
  <2>8. Goal
    BY <1>0, <2>2, <2>3, <2>5, <2>6, <2>7, Cases
  <2> QED
    BY <2>8
<1>4. ASSUME NEW k \in DOMAIN mail', Works(k)', mail'[k].status = "DEAD"
      PROVE  mail'[k].attempts >= MaxAttempts
  <2>1. k \in DOMAIN mail
    BY <1>1, <1>4
  <2>2. CASE mail[k].status = "DEAD"
    <3>1. Works(k)
      BY <1>0, <1>4, <2>1, WorkedBefore
    <3>2. mail[k].attempts >= MaxAttempts
      BY <2>1, <2>2, <3>1 DEF OutboxInv, LinksFollowed, WorkingLinkIsMailed
    <3>3. mail[k].attempts <= mail'[k].attempts /\ mail[k] \in Row /\ mail'[k] \in Row
      BY <1>0, <2>1 DEF Grown, OutboxOK
    <3>4. mail[k].attempts \in Nat /\ mail'[k].attempts \in Nat /\ MaxAttempts \in Nat
      BY <3>3, MailAssumption DEF Row, MailAssumption
    <3> QED
      BY <3>2, <3>3, <3>4
  <2>3. CASE mail[k].status # "DEAD"
    BY <1>0, <1>4, <2>1, <2>3, GivenUpFor
  <2> QED
    BY <2>2, <2>3
<1>5. WorkingLinkIsMailed'
  BY <1>4 DEF WorkingLinkIsMailed
<1> QED
  BY <1>2, <1>3, <1>5 DEF LinksFollowed

\* What has ended is never taken up again.
LEMMA EndedOnes ==
  ASSUME OutboxInv, MailNext, NEW k \in DOMAIN mail, Ended(k)
  PROVE  mail'[k].status = mail[k].status
<1> DEFINE Goal == mail'[k].status = mail[k].status
<1>0. OutboxOK /\ mail[k].status \notin {"PENDING", "FAILED", "PROCESSING"}
  BY DEF OutboxInv, Ended
<1>1. CASE AccountsStep
  BY <1>0, <1>1, AccountsMove DEF Moved, Cancelled
<1>2. ASSUME NEW m \in DOMAIN mail, Takes(m)
      PROVE  Goal
  <2>1. Only(m, m) /\ k # m
    BY <1>0, <1>2 DEF Takes, Only
  <2> QED
    BY <2>1 DEF Only
<1>3. ASSUME NEW m \in DOMAIN mail, NEW w \in Workers, Claims(w, m)
      PROVE  Goal
  BY <1>0, <1>3 DEF Claims, Only
<1>4. ASSUME NEW m \in DOMAIN mail, NEW w \in Workers, Records(w, m)
      PROVE  Goal
  BY <1>0, <1>4 DEF Records, Only
<1>5. ASSUME NEW m \in DOMAIN mail, NEW w \in Workers, NEW n \in Nat, NEW d \in Nat,
             NEW step \in Steps,
             Hands(w, m, n, d, step)
      PROVE  Goal
  BY <1>5 DEF Hands, Only
<1>6. Goal
  BY <1>0, <1>1, <1>2, <1>3, <1>4, <1>5, Cases DEF Turns, Quits
<1> QED
  BY <1>6

-----------------------------------------------------------------------------
\* Nobody has a mail in hand that is not in the outbox, such as 0.
LEMMA NobodyOn ==
  ASSUME OutboxOK, NEW w \in Workers
  PROVE  /\ 0 \notin DOMAIN mail /\ AtRest.mail = 0 /\ AtRest.step = "IDLE"
         /\ work[w].mail \notin DOMAIN mail => work[w] = AtRest /\ work[w].mail = 0
         /\ work[w].mail \in DOMAIN mail => work[w].step # "IDLE"
<1>1. 0 \notin DOMAIN mail
  BY DEF OutboxOK
<1>2. AtRest.mail = 0 /\ AtRest.step = "IDLE"
  BY DEF AtRest
<1>3. Holds(w)
  BY DEF OutboxOK
<1> QED
  BY <1>1, <1>2, <1>3 DEF Holds

\* The mails a step of worker w with mail m does not concern.
LEMMA Elsewhere ==
  ASSUME OutboxOK, NEW m \in DOMAIN mail, NEW w \in Workers, Only(m, w),
         work[w].mail \in {0, m}, work'[w].mail \in {0, m},
         NEW k \in DOMAIN mail, k # m
  PROVE  /\ mail'[k] = mail[k]
         /\ \A v \in Workers :
              /\ work[v].mail = k => work'[v] = work[v]
              /\ work'[v].mail = k => work'[v] = work[v]
<1>1. 0 \notin DOMAIN mail
  BY NobodyOn
<1> QED
  BY <1>1 DEF Only

-----------------------------------------------------------------------------
\* What is counted are numbers.
LEMMA Sizes ==
  ASSUME OutboxOK, NEW m \in DOMAIN mail, IsFiniteSet(On(m))
  PROVE  /\ IsFiniteSet(Able(m)) /\ IsFiniteSet(Sending(m))
         /\ Cardinality(On(m)) \in Nat /\ Cardinality(Able(m)) \in Nat
         /\ Cardinality(Sending(m)) \in Nat
         /\ IsFiniteSet(Chances(m)) /\ Cardinality(Chances(m)) \in Nat
         /\ Cardinality(Able(m)) <= Cardinality(On(m))
         /\ Waits(m) \in {0, 1} /\ Left(m) \in {0, 1}
         /\ mail[m].attempts \in Nat /\ mail[m].accepted \in Nat
         /\ mail[m].doubts \in Nat
         /\ troubles \in Nat /\ MaxAttempts \in Nat \ {0}
<1>1. Able(m) \subseteq On(m) /\ Sending(m) \subseteq On(m) /\ Chances(m) \subseteq On(m)
  BY DEF Able, Sending, Chances
<1>2. /\ IsFiniteSet(Able(m)) /\ Cardinality(Able(m)) <= Cardinality(On(m))
      /\ IsFiniteSet(Sending(m)) /\ IsFiniteSet(Chances(m))
  BY <1>1, FS_Subset
<1>3. /\ Cardinality(On(m)) \in Nat /\ Cardinality(Able(m)) \in Nat
      /\ Cardinality(Sending(m)) \in Nat /\ Cardinality(Chances(m)) \in Nat
  BY <1>2, FS_CardinalityType
<1>4. Waits(m) \in {0, 1} /\ Left(m) \in {0, 1}
  BY DEF Waits, Left
<1>5. mail[m] \in Row /\ troubles \in Nat
  BY DEF OutboxOK
<1>6. mail[m].attempts \in Nat /\ mail[m].accepted \in Nat /\ mail[m].doubts \in Nat
  BY <1>5 DEF Row
<1> QED
  BY <1>2, <1>3, <1>4, <1>5, <1>6, MailAssumption DEF MailAssumption

\* A set that a worker joins, and one that it leaves.
LEMMA Joined ==
  ASSUME NEW S, IsFiniteSet(S), NEW w, w \notin S, NEW T, T = S \cup {w}
  PROVE  IsFiniteSet(T) /\ Cardinality(T) = Cardinality(S) + 1
BY FS_AddElement

\* A set is one larger than what is left when an element leaves it.
LEMMA LeftBehind ==
  ASSUME NEW S, IsFiniteSet(S), NEW w \in S, NEW T, T = S \ {w}
  PROVE  /\ IsFiniteSet(T) /\ Cardinality(T) \in Nat
         /\ Cardinality(T) + 1 = Cardinality(S)
<1>1. IsFiniteSet(T) /\ Cardinality(T) = Cardinality(S) - 1
  BY FS_RemoveElement
<1>2. Cardinality(T) \in Nat /\ Cardinality(S) \in Nat
  BY <1>1, FS_CardinalityType
<1> QED
  BY <1>1, <1>2

\* A mail whose workers stay counts as before.
LEMMA StaysCounted ==
  ASSUME OutboxOK, NEW k \in DOMAIN mail, Counted(k),
         \A v \in Workers : work[v].mail = k \/ work'[v].mail = k => work'[v] = work[v],
         mail'[k].accepted = mail[k].accepted, mail'[k].attempts = mail[k].attempts,
         mail'[k].doubts = mail[k].doubts,
         \/ mail'[k].status = mail[k].status
         \/ mail[k].status \in {"PENDING", "FAILED"} /\ mail'[k].status = "DEAD",
         troubles' = troubles \/ troubles' = troubles + 1
  PROVE  Counted(k)'
<1>1. On(k)' = On(k)
  BY DEF On
<1>2. \A v \in On(k) : work'[v] = work[v]
  BY DEF On
<1>3. Able(k)' = Able(k) /\ Sending(k)' = Sending(k) /\ Chances(k)' = Chances(k)
  BY <1>1, <1>2 DEF Able, Sending, Chances
<1>4. /\ Waits(k)' = Waits(k) \/ Waits(k)' = 0
      /\ Left(k)' = Left(k) \/ Left(k)' = 0
  BY <1>1, <1>2 DEF Waits, Left
<1>5. IsFiniteSet(On(k))
  BY DEF Counted
<1>6. /\ Cardinality(On(k)) \in Nat /\ Cardinality(Able(k)) \in Nat
      /\ Cardinality(Sending(k)) \in Nat /\ Cardinality(Chances(k)) \in Nat
      /\ Waits(k) \in {0, 1} /\ Left(k) \in {0, 1}
      /\ mail[k].attempts \in Nat /\ mail[k].accepted \in Nat /\ mail[k].doubts \in Nat
      /\ troubles \in Nat /\ MaxAttempts \in Nat \ {0}
  BY <1>5, Sizes
<1> QED
  BY <1>1, <1>3, <1>4, <1>5, <1>6 DEF Counted

\* A claim: the mail no longer waits, it has one worker more and one attempt.
LEMMA ClaimCounted ==
  ASSUME OutboxOK, NEW m \in DOMAIN mail, NEW w \in Workers, Claims(w, m), Counted(m)
  PROVE  Counted(m)'
<1>0. /\ IsFiniteSet(On(m)) /\ work[w].mail # m
      /\ work'[w].mail = m /\ work'[w].attempts = mail[m].attempts + 1
      /\ work'[w].step = "CLAIMED"
      /\ \A v \in Workers : v # w => work'[v] = work[v]
      /\ mail'[m].attempts = mail[m].attempts + 1 /\ mail'[m].accepted = mail[m].accepted
      /\ mail'[m].doubts = mail[m].doubts
      /\ mail[m].status \in {"PENDING", "FAILED"} /\ mail'[m].status = "PROCESSING"
      /\ troubles' = troubles
  BY NobodyOn DEF Counted, Claims, Only, Same
<1>1. /\ IsFiniteSet(Able(m)) /\ IsFiniteSet(Sending(m))
      /\ Cardinality(On(m)) \in Nat /\ Cardinality(Able(m)) \in Nat
      /\ Cardinality(Sending(m)) \in Nat /\ Cardinality(Able(m)) <= Cardinality(On(m))
      /\ IsFiniteSet(Chances(m)) /\ Cardinality(Chances(m)) \in Nat
      /\ mail[m].attempts \in Nat /\ mail[m].accepted \in Nat /\ mail[m].doubts \in Nat
      /\ troubles \in Nat /\ MaxAttempts \in Nat \ {0}
  BY <1>0, Sizes
<1>2. w \notin On(m) /\ w \notin Able(m) /\ w \notin Sending(m) /\ w \notin Chances(m)
  BY <1>0 DEF On, Able, Sending, Chances
<1>3. /\ On(m)' = On(m) \cup {w}
      /\ \A v \in On(m) : v # w => work'[v] = work[v]
  BY <1>0 DEF On
<1>4. Sending(m)' = Sending(m) \cup {w} /\ Chances(m)' = Chances(m) \cup {w}
  <2>1. \A v : v \in Sending(m)' <=> v \in Sending(m) \cup {w}
    BY <1>0, <1>2, <1>3 DEF Sending
  <2>2. \A v : v \in Chances(m)' <=> v \in Chances(m) \cup {w}
    BY <1>0, <1>2, <1>3 DEF Chances
  <2> QED
    BY <2>1, <2>2
<1>5. IF mail[m].attempts + 1 < MaxAttempts
      THEN Able(m)' = Able(m) \cup {w} ELSE Able(m)' = Able(m)
  <2>1. CASE mail[m].attempts + 1 < MaxAttempts
    <3>1. \A v : v \in Able(m)' <=> v \in Able(m) \cup {w}
      BY <1>0, <1>1, <1>2, <1>3, <2>1 DEF Able
    <3> QED
      BY <1>1, <2>1, <3>1
  <2>2. CASE ~(mail[m].attempts + 1 < MaxAttempts)
    <3>1. \A v : v \in Able(m)' <=> v \in Able(m)
      BY <1>0, <1>1, <1>2, <1>3, <2>2 DEF Able
    <3>2. Able(m)' = Able(m)
      BY <3>1
    <3> QED
      BY <2>2, <3>2
  <2> QED
    BY <2>1, <2>2
<1>6. Waits(m) = 1 /\ Left(m) = 0 /\ Waits(m)' = 0 /\ Left(m)' = 0
  <2>1. w \in On(m)' /\ work'[w].attempts = mail'[m].attempts
    BY <1>0, <1>3
  <2> QED
    BY <1>0, <2>1 DEF Waits, Left
<1>7. /\ IsFiniteSet(On(m)') /\ Cardinality(On(m)') = Cardinality(On(m)) + 1
  BY <1>0, <1>2, <1>3, Joined
<1>8. /\ Cardinality(Sending(m)') = Cardinality(Sending(m)) + 1
      /\ Cardinality(Chances(m)') = Cardinality(Chances(m)) + 1
  BY <1>1, <1>2, <1>4, Joined
<1>9. IF mail[m].attempts + 1 < MaxAttempts
      THEN Cardinality(Able(m)') = Cardinality(Able(m)) + 1
      ELSE Cardinality(Able(m)') = Cardinality(Able(m))
  BY <1>1, <1>2, <1>5, Joined
<1>10. /\ Cardinality(On(m)) + 1 <= 1 + troubles
       /\ mail[m].attempts + 1 >= MaxAttempts =>
            mail[m].attempts + 1 + Cardinality(Able(m)) <= MaxAttempts + troubles
       /\ mail[m].accepted + Cardinality(Sending(m)) <= mail[m].attempts
       /\ mail[m].accepted + (Cardinality(Chances(m)) + 1) <= 1 + mail[m].doubts
  BY <1>1, <1>6 DEF Counted
<1>11. mail'[m].attempts + 1 >= MaxAttempts =>
         mail'[m].attempts + Cardinality(Able(m)') <= MaxAttempts + troubles
  BY <1>0, <1>1, <1>9, <1>10
<1> QED
  BY <1>0, <1>1, <1>6, <1>7, <1>8, <1>10, <1>11 DEF Counted

\* A worker goes on with its mail.
LEMMA GoesOn ==
  ASSUME OutboxOK, NEW m \in DOMAIN mail, NEW w \in Workers,
         work[w].mail = m, work'[w].mail = m, work'[w].attempts = work[w].attempts,
         \A v \in Workers : v # w => work'[v] = work[v],
         mail'[m].attempts = mail[m].attempts, mail'[m].status = mail[m].status
  PROVE  /\ On(m)' = On(m) /\ Able(m)' = Able(m)
         /\ Waits(m)' = Waits(m) /\ Left(m)' = Left(m)
         /\ w \in Sending(m) <=> work[w].step \in {"CLAIMED", "CURRENT"}
         /\ w \in Chances(m) <=> work[w].step # "SENT"
         /\ Sending(m)' = IF work'[w].step \in {"CLAIMED", "CURRENT"}
                          THEN Sending(m) \cup {w} ELSE Sending(m) \ {w}
         /\ Chances(m)' = IF work'[w].step # "SENT"
                          THEN Chances(m) \cup {w} ELSE Chances(m) \ {w}
<1>1. On(m)' = On(m) /\ w \in On(m)
  BY DEF On
<1>2. \A v \in On(m) :
        /\ work'[v].attempts = work[v].attempts
        /\ v # w => work'[v] = work[v]
  BY DEF On
<1>3. Able(m)' = Able(m)
  <2>1. \A v : v \in Able(m)' <=> v \in Able(m)
    BY <1>1, <1>2 DEF Able
  <2> QED
    BY <2>1
<1>4. Waits(m)' = Waits(m) /\ Left(m)' = Left(m)
  BY <1>1, <1>2 DEF Waits, Left
<1>5. Sending(m)' = IF work'[w].step \in {"CLAIMED", "CURRENT"}
                    THEN Sending(m) \cup {w} ELSE Sending(m) \ {w}
  <2>1. \A v : v \in Sending(m)' <=>
                 v \in (IF work'[w].step \in {"CLAIMED", "CURRENT"}
                        THEN Sending(m) \cup {w} ELSE Sending(m) \ {w})
    BY <1>1, <1>2 DEF Sending
  <2> QED
    BY <2>1
<1>6. Chances(m)' = IF work'[w].step # "SENT"
                    THEN Chances(m) \cup {w} ELSE Chances(m) \ {w}
  <2>1. \A v : v \in Chances(m)' <=>
                 v \in (IF work'[w].step # "SENT"
                        THEN Chances(m) \cup {w} ELSE Chances(m) \ {w})
    BY <1>1, <1>2 DEF Chances
  <2> QED
    BY <2>1
<1>7. /\ w \in Sending(m) <=> work[w].step \in {"CLAIMED", "CURRENT"}
      /\ w \in Chances(m) <=> work[w].step # "SENT"
  BY <1>1 DEF Sending, Chances
<1> QED
  BY <1>1, <1>3, <1>4, <1>5, <1>6, <1>7

\* One fewer sends, or as many as before; what the mail server took and what
\* nobody knows of it make up for the chances.
LEMMA GoesOnCounted ==
  ASSUME OutboxOK, NEW m \in DOMAIN mail, Counted(m),
         On(m)' = On(m), Able(m)' = Able(m), Waits(m)' = Waits(m), Left(m)' = Left(m),
         mail'[m].attempts = mail[m].attempts, troubles' = troubles \/ troubles' = troubles + 1,
         mail'[m].accepted + Cardinality(Sending(m)')
           <= mail[m].accepted + Cardinality(Sending(m)),
         NEW k \in Nat,
         mail'[m].accepted + Cardinality(Chances(m)')
           <= mail[m].accepted + Cardinality(Chances(m)) + k,
         mail'[m].doubts = mail[m].doubts + k,
         mail'[m].accepted \in Nat, Cardinality(Sending(m)') \in Nat,
         Cardinality(Chances(m)') \in Nat
  PROVE  Counted(m)'
<1>1. /\ Cardinality(On(m)) \in Nat /\ Cardinality(Able(m)) \in Nat
      /\ Cardinality(Sending(m)) \in Nat /\ Cardinality(Chances(m)) \in Nat
      /\ Waits(m) \in {0, 1} /\ Left(m) \in {0, 1}
      /\ mail[m].attempts \in Nat /\ mail[m].accepted \in Nat /\ mail[m].doubts \in Nat
      /\ troubles \in Nat /\ MaxAttempts \in Nat \ {0}
  BY Sizes DEF Counted
<1>2. /\ Cardinality(On(m)) + Waits(m) + Left(m) <= 1 + troubles
      /\ mail[m].attempts + 1 >= MaxAttempts =>
           mail[m].attempts + Waits(m) + Left(m) + Cardinality(Able(m))
             <= MaxAttempts + troubles
      /\ mail[m].accepted + Cardinality(Sending(m)) <= mail[m].attempts
      /\ mail[m].accepted + Cardinality(Chances(m)) + Waits(m) <= 1 + mail[m].doubts
      /\ IsFiniteSet(On(m))
  BY DEF Counted
<1>3. /\ Cardinality(On(m)) + Waits(m) + Left(m) <= 1 + troubles'
      /\ mail[m].attempts + 1 >= MaxAttempts =>
           mail[m].attempts + Waits(m) + Left(m) + Cardinality(Able(m))
             <= MaxAttempts + troubles'
  BY <1>1, <1>2
<1>4. mail'[m].accepted + Cardinality(Sending(m)') <= mail[m].attempts
  BY <1>1, <1>2
<1>5. mail'[m].accepted + Cardinality(Chances(m)') + Waits(m) <= 1 + mail'[m].doubts
  BY <1>1, <1>2
<1> QED
  BY <1>2, <1>3, <1>4, <1>5 DEF Counted

\* What the worker finds out leaves the mail as it is.
LEMMA TurnCounted ==
  ASSUME OutboxOK, NEW m \in DOMAIN mail, NEW w \in Workers, NEW step,
         Turns(w, m, step), Counted(m)
  PROVE  Counted(m)'
<1>1. /\ work[w].mail = m /\ work'[w].mail = m /\ work'[w].attempts = work[w].attempts
      /\ \A v \in Workers : v # w => work'[v] = work[v]
      /\ mail'[m] = mail[m] /\ troubles' = troubles
      /\ work[w].step \in {"CLAIMED", "SUPERSEDED"} /\ work'[w].step # "SENT"
      /\ work[w].step # "CLAIMED" => work'[w].step \notin {"CLAIMED", "CURRENT"}
      /\ IsFiniteSet(On(m))
  BY DEF Turns, Only, Counted
<1>2. /\ On(m)' = On(m) /\ Able(m)' = Able(m)
      /\ Waits(m)' = Waits(m) /\ Left(m)' = Left(m)
      /\ Sending(m)' \in {Sending(m), Sending(m) \ {w}} /\ Chances(m)' = Chances(m)
  <2>1. /\ On(m)' = On(m) /\ Able(m)' = Able(m)
        /\ Waits(m)' = Waits(m) /\ Left(m)' = Left(m)
        /\ w \in Sending(m) <=> work[w].step \in {"CLAIMED", "CURRENT"}
        /\ w \in Chances(m) <=> work[w].step # "SENT"
        /\ Sending(m)' = IF work'[w].step \in {"CLAIMED", "CURRENT"}
                         THEN Sending(m) \cup {w} ELSE Sending(m) \ {w}
        /\ Chances(m)' = IF work'[w].step # "SENT"
                         THEN Chances(m) \cup {w} ELSE Chances(m) \ {w}
    BY <1>1, GoesOn
  <2>2. w \in Chances(m) /\ Chances(m)' = Chances(m)
    BY <1>1, <2>1
  <2>3. CASE work'[w].step \in {"CLAIMED", "CURRENT"}
    BY <1>1, <2>1, <2>2, <2>3
  <2>4. CASE work'[w].step \notin {"CLAIMED", "CURRENT"}
    BY <2>1, <2>2, <2>4
  <2> QED
    BY <2>3, <2>4
<1>3. /\ IsFiniteSet(Sending(m)) /\ Cardinality(Sending(m)) \in Nat
      /\ Cardinality(Chances(m)) \in Nat
      /\ mail[m].accepted \in Nat /\ mail[m].doubts \in Nat
  BY <1>1, Sizes
<1>4. Sending(m)' \subseteq Sending(m)
  BY <1>2
<1>5. /\ Cardinality(Sending(m)') \in Nat
      /\ Cardinality(Sending(m)') <= Cardinality(Sending(m))
  BY <1>3, <1>4, FS_Subset, FS_CardinalityType
<1>6. /\ mail'[m].attempts = mail[m].attempts /\ mail'[m].accepted = mail[m].accepted
      /\ mail'[m].doubts = mail[m].doubts + 0
  BY <1>1, <1>3
<1>7. /\ mail'[m].accepted + Cardinality(Sending(m)')
           <= mail[m].accepted + Cardinality(Sending(m))
      /\ mail'[m].accepted + Cardinality(Chances(m)')
           <= mail[m].accepted + Cardinality(Chances(m)) + 0
      /\ mail'[m].accepted \in Nat /\ Cardinality(Chances(m)') \in Nat /\ 0 \in Nat
  BY <1>2, <1>3, <1>5, <1>6
<1> QED
  BY <1>1, <1>2, <1>5, <1>6, <1>7, GoesOnCounted

\* What the mail server took is a chance less, unless there is a doubt more.
LEMMA HandCounted ==
  ASSUME OutboxOK, NEW m \in DOMAIN mail, NEW w \in Workers,
         NEW n \in Nat, NEW d \in Nat, NEW step,
         Hands(w, m, n, d, step), Counted(m)
  PROVE  Counted(m)'
<1>1. /\ work[w].mail = m /\ work'[w].mail = m /\ work'[w].attempts = work[w].attempts
      /\ \A v \in Workers : v # w => work'[v] = work[v]
      /\ mail'[m].attempts = mail[m].attempts /\ mail'[m].status = mail[m].status
      /\ work'[w].step = step /\ step \in {"SENT", "FAILED"}
      /\ mail'[m].accepted = n /\ mail'[m].doubts = d
      /\ troubles' = troubles \/ troubles' = troubles + 1
      /\ IsFiniteSet(On(m))
  BY DEF Hands, Only, SameButCounts, Counted
<1>2. /\ On(m)' = On(m) /\ Able(m)' = Able(m)
      /\ Waits(m)' = Waits(m) /\ Left(m)' = Left(m)
      /\ Sending(m)' = Sending(m) \ {w}
      /\ Chances(m)' = IF step # "SENT" THEN Chances(m) \cup {w} ELSE Chances(m) \ {w}
      /\ w \in Sending(m) <=> work[w].step \in {"CLAIMED", "CURRENT"}
      /\ w \in Chances(m) <=> work[w].step # "SENT"
  BY <1>1, GoesOn
<1>3. /\ IsFiniteSet(Sending(m)) /\ Cardinality(Sending(m)) \in Nat
      /\ IsFiniteSet(Chances(m)) /\ Cardinality(Chances(m)) \in Nat
      /\ mail[m].accepted \in Nat /\ mail[m].doubts \in Nat
  BY <1>1, Sizes
<1>4. ASSUME work[w].step = "CURRENT"
      PROVE  /\ Cardinality(Sending(m)') \in Nat
             /\ Cardinality(Sending(m)') + 1 = Cardinality(Sending(m))
  BY <1>2, <1>3, <1>4, LeftBehind
<1>5. CASE /\ work[w].step = "CURRENT" /\ n = mail[m].accepted + 1
           /\ d = mail[m].doubts /\ step = "SENT"
  <2>1. /\ Cardinality(Chances(m)') \in Nat
        /\ Cardinality(Chances(m)') + 1 = Cardinality(Chances(m))
    BY <1>2, <1>3, <1>5, LeftBehind
  <2>2. /\ n + Cardinality(Sending(m)') <= mail[m].accepted + Cardinality(Sending(m))
        /\ n + Cardinality(Chances(m)') <= mail[m].accepted + Cardinality(Chances(m)) + 0
        /\ d = mail[m].doubts + 0 /\ 0 \in Nat
    BY <1>3, <1>4, <1>5, <2>1
  <2> QED
    BY <1>1, <1>2, <1>4, <1>5, <2>1, <2>2, GoesOnCounted
<1>6. CASE /\ work[w].step = "CURRENT" /\ n = mail[m].accepted
           /\ d = mail[m].doubts /\ step = "FAILED"
  <2>1. Chances(m)' = Chances(m)
    BY <1>2, <1>6
  <2>2. /\ n + Cardinality(Sending(m)') <= mail[m].accepted + Cardinality(Sending(m))
        /\ n + Cardinality(Chances(m)') <= mail[m].accepted + Cardinality(Chances(m)) + 0
        /\ d = mail[m].doubts + 0 /\ 0 \in Nat /\ Cardinality(Chances(m)') \in Nat
    BY <1>3, <1>4, <1>6, <2>1
  <2> QED
    BY <1>1, <1>2, <1>4, <1>6, <2>2, GoesOnCounted
<1>7. CASE /\ work[w].step = "CURRENT" /\ n = mail[m].accepted + 1
           /\ d = mail[m].doubts + 1 /\ step = "FAILED"
  <2>1. Chances(m)' = Chances(m)
    BY <1>2, <1>7
  <2>2. /\ n + Cardinality(Sending(m)') <= mail[m].accepted + Cardinality(Sending(m))
        /\ n + Cardinality(Chances(m)') <= mail[m].accepted + Cardinality(Chances(m)) + 1
        /\ 1 \in Nat /\ Cardinality(Chances(m)') \in Nat
    BY <1>3, <1>4, <1>7, <2>1
  <2> QED
    BY <1>1, <1>2, <1>4, <1>7, <2>2, GoesOnCounted
<1>8. CASE /\ work[w].step = "SENT" /\ n = mail[m].accepted
           /\ d = mail[m].doubts + 1 /\ step = "FAILED"
  <2>1. Sending(m)' = Sending(m) /\ Chances(m)' = Chances(m) \cup {w} /\ w \notin Chances(m)
    BY <1>2, <1>8
  <2>2. Cardinality(Chances(m)') = Cardinality(Chances(m)) + 1
    BY <1>3, <2>1, Joined
  <2>3. /\ n + Cardinality(Sending(m)') <= mail[m].accepted + Cardinality(Sending(m))
        /\ n + Cardinality(Chances(m)') <= mail[m].accepted + Cardinality(Chances(m)) + 1
        /\ 1 \in Nat /\ Cardinality(Chances(m)') \in Nat /\ Cardinality(Sending(m)') \in Nat
    BY <1>3, <1>8, <2>1, <2>2
  <2> QED
    BY <1>1, <1>2, <1>8, <2>3, GoesOnCounted
<1> QED
  BY <1>5, <1>6, <1>7, <1>8 DEF Hands

\* A worker leaves its mail.
LEMMA RestSets ==
  ASSUME OutboxOK, NEW m \in DOMAIN mail, NEW w \in Workers, Counted(m),
         work[w].mail = m, work'[w] = AtRest,
         \A v \in Workers : v # w => work'[v] = work[v]
  PROVE  /\ On(m)' = On(m) \ {w} /\ w \in On(m)
         /\ Able(m)' = Able(m) \ {w} /\ Sending(m)' = Sending(m) \ {w}
         /\ IsFiniteSet(On(m)') /\ Cardinality(On(m)') \in Nat
         /\ Cardinality(On(m)') + 1 = Cardinality(On(m))
         /\ Cardinality(Able(m)') \in Nat /\ Cardinality(Able(m)) \in Nat
         /\ Cardinality(Able(m)') <= Cardinality(Able(m))
         /\ w \in Able(m) => Cardinality(Able(m)') + 1 = Cardinality(Able(m))
         /\ Cardinality(Sending(m)') \in Nat /\ Cardinality(Sending(m)) \in Nat
         /\ Cardinality(Sending(m)') <= Cardinality(Sending(m))
         /\ Cardinality(Chances(m)') \in Nat /\ Cardinality(Chances(m)) \in Nat
         /\ Cardinality(Chances(m)') <= Cardinality(Chances(m))
         /\ work[w].step # "SENT" =>
              Cardinality(Chances(m)') + 1 = Cardinality(Chances(m))
<1>1. AtRest.mail # m
  BY NobodyOn
<1>2. On(m)' = On(m) \ {w} /\ w \in On(m)
  BY <1>1 DEF On
<1>3. \A v \in On(m)' : work'[v] = work[v]
  BY <1>2 DEF On
<1>4. /\ Able(m)' = Able(m) \ {w} /\ Sending(m)' = Sending(m) \ {w}
      /\ Chances(m)' = Chances(m) \ {w}
  BY <1>2, <1>3 DEF Able, Sending, Chances
<1>5. /\ IsFiniteSet(On(m)) /\ IsFiniteSet(Able(m)) /\ IsFiniteSet(Sending(m))
      /\ Cardinality(Able(m)) \in Nat /\ Cardinality(Sending(m)) \in Nat
      /\ IsFiniteSet(Chances(m)) /\ Cardinality(Chances(m)) \in Nat
  BY Sizes DEF Counted
<1>6. /\ IsFiniteSet(On(m)') /\ Cardinality(On(m)') \in Nat
      /\ Cardinality(On(m)') + 1 = Cardinality(On(m))
  BY <1>2, <1>5, LeftBehind
<1>7. /\ IsFiniteSet(Able(m)') /\ Cardinality(Able(m)') <= Cardinality(Able(m))
      /\ IsFiniteSet(Sending(m)') /\ Cardinality(Sending(m)') <= Cardinality(Sending(m))
      /\ IsFiniteSet(Chances(m)') /\ Cardinality(Chances(m)') <= Cardinality(Chances(m))
  BY <1>4, <1>5, FS_Subset
<1>8. /\ Cardinality(Able(m)') \in Nat /\ Cardinality(Sending(m)') \in Nat
      /\ Cardinality(Chances(m)') \in Nat
  BY <1>7, FS_CardinalityType
<1>9. w \in Able(m) => Cardinality(Able(m)') + 1 = Cardinality(Able(m))
  BY <1>4, <1>5, LeftBehind
<1>10. work[w].step # "SENT" => Cardinality(Chances(m)') + 1 = Cardinality(Chances(m))
  <2>1. work[w].step # "SENT" => w \in Chances(m)
    BY <1>2 DEF Chances
  <2> QED
    BY <1>4, <1>5, <2>1, LeftBehind
<1> QED
  BY <1>2, <1>4, <1>5, <1>6, <1>7, <1>8, <1>9, <1>10

\* A worker records: the mail waits again at most in the place of the worker.
LEMMA RecordCounted ==
  ASSUME OutboxOK, NEW m \in DOMAIN mail, NEW w \in Workers, Records(w, m), Counted(m)
  PROVE  Counted(m)'
<1>0. /\ work[w].mail = m /\ work'[w] = AtRest
      /\ \A v \in Workers : v # w => work'[v] = work[v]
      /\ mail'[m].attempts = mail[m].attempts /\ mail'[m].accepted = mail[m].accepted
      /\ mail'[m].doubts = mail[m].doubts /\ troubles' = troubles /\ IsFiniteSet(On(m))
  BY DEF Counted, Records, Only, Same
<1>1. /\ IsFiniteSet(On(m)') /\ Cardinality(On(m)') \in Nat
      /\ Cardinality(On(m)') + 1 = Cardinality(On(m)) /\ w \in On(m)
      /\ Cardinality(Able(m)') \in Nat /\ Cardinality(Able(m)) \in Nat
      /\ Cardinality(Able(m)') <= Cardinality(Able(m))
      /\ w \in Able(m) => Cardinality(Able(m)') + 1 = Cardinality(Able(m))
      /\ Cardinality(Sending(m)') \in Nat /\ Cardinality(Sending(m)) \in Nat
      /\ Cardinality(Sending(m)') <= Cardinality(Sending(m))
      /\ Cardinality(Chances(m)') \in Nat /\ Cardinality(Chances(m)) \in Nat
      /\ Cardinality(Chances(m)') <= Cardinality(Chances(m))
      /\ work[w].step # "SENT" =>
           Cardinality(Chances(m)') + 1 = Cardinality(Chances(m))
  BY <1>0, RestSets
<1>2. /\ Waits(m) \in {0, 1} /\ Left(m) \in {0, 1}
      /\ mail[m].attempts \in Nat /\ mail[m].accepted \in Nat /\ mail[m].doubts \in Nat
      /\ troubles \in Nat /\ MaxAttempts \in Nat \ {0}
  BY <1>0, Sizes
<1>3. Left(m)' = 0
  <2>1. mail'[m].status # "PROCESSING"
    BY DEF Records, Outcome
  <2> QED
    BY <2>1 DEF Left
<1>4. Waits(m)' \in {0, 1}
  BY DEF Waits
<1>5. Waits(m)' = 1 => Waits(m) = 1 \/ (w \in Able(m) /\ work[w].step # "SENT")
  <2>1. CASE mail[m].status # "PROCESSING"
    <3>1. mail'[m].status = mail[m].status
      BY <2>1 DEF Records
    <3> QED
      BY <3>1 DEF Waits
  <2>2. CASE mail[m].status = "PROCESSING"
    <3>1. mail'[m].status = Outcome(w)
      BY <2>2 DEF Records
    <3>2. mail'[m].status \in {"PENDING", "FAILED"} =>
            ~(work[w].attempts >= MaxAttempts) /\ work[w].step # "SENT"
      BY <3>1 DEF Outcome
    <3>3. work[w].attempts \in Nat
      BY DEF OutboxOK, Hand
    <3> QED
      BY <1>1, <1>2, <3>2, <3>3 DEF Waits, Able
  <2> QED
    BY <2>1, <2>2
<1>6. /\ Cardinality(On(m)) + Waits(m) + Left(m) <= 1 + troubles
      /\ mail[m].attempts + 1 >= MaxAttempts =>
           mail[m].attempts + Waits(m) + Left(m) + Cardinality(Able(m))
             <= MaxAttempts + troubles
      /\ mail[m].accepted + Cardinality(Sending(m)) <= mail[m].attempts
      /\ mail[m].accepted + Cardinality(Chances(m)) + Waits(m) <= 1 + mail[m].doubts
  BY DEF Counted
<1>7. Cardinality(On(m)') + Waits(m)' + Left(m)' <= 1 + troubles
  BY <1>1, <1>2, <1>3, <1>4, <1>6
<1>8. mail[m].attempts + 1 >= MaxAttempts =>
        mail[m].attempts + Waits(m)' + Left(m)' + Cardinality(Able(m)')
          <= MaxAttempts + troubles
  BY <1>1, <1>2, <1>3, <1>4, <1>5, <1>6
<1>9. mail[m].accepted + Cardinality(Sending(m)') <= mail[m].attempts
  BY <1>1, <1>2, <1>6
<1>10. mail[m].accepted + Cardinality(Chances(m)') + Waits(m)' <= 1 + mail[m].doubts
  BY <1>1, <1>2, <1>4, <1>5, <1>6
<1> QED
  BY <1>0, <1>1, <1>7, <1>8, <1>9, <1>10 DEF Counted

\* A worker stops: perhaps it leaves the mail to nobody, but it is counted.
LEMMA QuitCounted ==
  ASSUME OutboxOK, NEW m \in DOMAIN mail, NEW w \in Workers, Quits(w, m), Counted(m)
  PROVE  Counted(m)'
<1>0. /\ work[w].mail = m /\ work'[w] = AtRest
      /\ \A v \in Workers : v # w => work'[v] = work[v]
      /\ mail'[m] = mail[m]
      /\ troubles' = troubles + 1 /\ IsFiniteSet(On(m))
  BY DEF Counted, Quits, Only
<1>1. /\ IsFiniteSet(On(m)') /\ Cardinality(On(m)') \in Nat
      /\ Cardinality(On(m)') + 1 = Cardinality(On(m))
      /\ Cardinality(Able(m)') \in Nat /\ Cardinality(Able(m)) \in Nat
      /\ Cardinality(Able(m)') <= Cardinality(Able(m))
      /\ Cardinality(Sending(m)') \in Nat /\ Cardinality(Sending(m)) \in Nat
      /\ Cardinality(Sending(m)') <= Cardinality(Sending(m))
      /\ Cardinality(Chances(m)') \in Nat /\ Cardinality(Chances(m)) \in Nat
      /\ Cardinality(Chances(m)') <= Cardinality(Chances(m))
  BY <1>0, RestSets
<1>2. /\ Waits(m) \in {0, 1} /\ Left(m) \in {0, 1}
      /\ mail[m].attempts \in Nat /\ mail[m].accepted \in Nat /\ mail[m].doubts \in Nat
      /\ troubles \in Nat /\ MaxAttempts \in Nat \ {0}
  BY <1>0, Sizes
<1>3. Left(m)' \in {0, 1} /\ Waits(m)' = Waits(m)
  BY <1>0 DEF Left, Waits
<1>4. /\ Cardinality(On(m)) + Waits(m) + Left(m) <= 1 + troubles
      /\ mail[m].attempts + 1 >= MaxAttempts =>
           mail[m].attempts + Waits(m) + Left(m) + Cardinality(Able(m))
             <= MaxAttempts + troubles
      /\ mail[m].accepted + Cardinality(Sending(m)) <= mail[m].attempts
      /\ mail[m].accepted + Cardinality(Chances(m)) + Waits(m) <= 1 + mail[m].doubts
  BY DEF Counted
<1>5. Cardinality(On(m)') + Waits(m)' + Left(m)' <= 1 + (troubles + 1)
  BY <1>1, <1>2, <1>3, <1>4
<1>6. mail[m].attempts + 1 >= MaxAttempts =>
        mail[m].attempts + Waits(m)' + Left(m)' + Cardinality(Able(m)')
          <= MaxAttempts + (troubles + 1)
  BY <1>1, <1>2, <1>3, <1>4
<1>7. mail[m].accepted + Cardinality(Sending(m)') <= mail[m].attempts
  BY <1>1, <1>2, <1>4
<1>8. mail[m].accepted + Cardinality(Chances(m)') + Waits(m)' <= 1 + mail[m].doubts
  BY <1>1, <1>2, <1>3, <1>4
<1> QED
  BY <1>0, <1>1, <1>5, <1>6, <1>7, <1>8 DEF Counted

\* A mail is taken back: from nobody, or that is one of the troubles.
LEMMA TakeCounted ==
  ASSUME OutboxOK, NEW m \in DOMAIN mail, Takes(m), Counted(m)
  PROVE  Counted(m)'
<1>0. /\ work' = work /\ IsFiniteSet(On(m))
      /\ mail'[m].attempts = mail[m].attempts /\ mail'[m].accepted = mail[m].accepted
      /\ mail'[m].doubts = mail[m].doubts + 1
      /\ mail[m].status = "PROCESSING" /\ mail'[m].status = "FAILED"
      /\ \/ (\A w \in Workers : work[w].mail # m) /\ troubles' = troubles
         \/ troubles' = troubles + 1
  BY DEF Counted, Takes, Same
<1>1. /\ On(m)' = On(m) /\ Able(m)' = Able(m) /\ Sending(m)' = Sending(m)
      /\ Chances(m)' = Chances(m)
  BY <1>0 DEF On, Able, Sending, Chances
<1>2. /\ Left(m) \in {0, 1} /\ troubles \in Nat /\ MaxAttempts \in Nat \ {0}
      /\ mail[m].attempts \in Nat /\ mail[m].accepted \in Nat /\ mail[m].doubts \in Nat
      /\ Cardinality(Chances(m)) \in Nat
      /\ Cardinality(On(m)) \in Nat /\ Cardinality(Able(m)) \in Nat
  BY <1>0, Sizes
<1>3. Waits(m) = 0 /\ Waits(m)' = 1 /\ Left(m)' = 0
  BY <1>0 DEF Waits, Left
<1>4. troubles' = troubles => Left(m) = 1
  <2>1. CASE \A w \in Workers : work[w].mail # m
    <3>1. On(m) = {}
      BY <2>1 DEF On
    <3> QED
      BY <1>0, <3>1 DEF Left
  <2> QED
    BY <1>0, <1>2, <2>1
<1>5. troubles' = troubles \/ troubles' = troubles + 1
  BY <1>0
<1>6. /\ Cardinality(On(m)) + Waits(m) + Left(m) <= 1 + troubles
      /\ mail[m].attempts + 1 >= MaxAttempts =>
           mail[m].attempts + Waits(m) + Left(m) + Cardinality(Able(m))
             <= MaxAttempts + troubles
      /\ mail[m].accepted + Cardinality(Sending(m)) <= mail[m].attempts
      /\ mail[m].accepted + Cardinality(Chances(m)) + Waits(m) <= 1 + mail[m].doubts
  BY DEF Counted
<1>7. /\ Cardinality(On(m)) + 1 + 0 <= 1 + troubles'
      /\ mail[m].attempts + 1 >= MaxAttempts =>
           mail[m].attempts + 1 + 0 + Cardinality(Able(m)) <= MaxAttempts + troubles'
  BY <1>2, <1>3, <1>4, <1>5, <1>6
<1>8. mail[m].accepted + Cardinality(Chances(m)) + 1 <= 1 + mail'[m].doubts
  BY <1>0, <1>2, <1>3, <1>6
<1> QED
  BY <1>0, <1>1, <1>3, <1>6, <1>7, <1>8 DEF Counted

\* A mail that was just queued.
LEMMA QueuedCounted ==
  ASSUME OutboxOK, OutboxOK', NEW k \in DOMAIN mail', k \notin DOMAIN mail,
         work' = work, Queued(k)
  PROVE  Counted(k)'
<1>1. 0 \notin DOMAIN mail'
  BY DEF OutboxOK
<1>2. \A w \in Workers : work'[w].mail # k
  BY <1>1, NobodyOn
<1>3. On(k)' = {}
  BY <1>2 DEF On
<1>4. Able(k)' = {} /\ Sending(k)' = {} /\ Chances(k)' = {}
  BY <1>3 DEF Able, Sending, Chances
<1>5. /\ mail'[k].status = "PENDING" /\ mail'[k].attempts = 0
      /\ mail'[k].accepted = 0 /\ mail'[k].doubts = 0
  BY DEF Queued
<1>6. Waits(k)' = 1 /\ Left(k)' = 0
  BY <1>5 DEF Waits, Left
<1>7. troubles' \in Nat /\ MaxAttempts \in Nat \ {0}
  BY MailAssumption DEF OutboxOK, MailAssumption
<1>8. IsFiniteSet({}) /\ Cardinality({}) = 0
  BY FS_EmptySet
<1>9. /\ IsFiniteSet(On(k)') /\ Cardinality(On(k)') = 0
      /\ Cardinality(Able(k)') = 0 /\ Cardinality(Sending(k)') = 0
      /\ Cardinality(Chances(k)') = 0
  BY <1>3, <1>4, <1>8
<1>10. 0 + 1 + 0 <= 1 + troubles' /\ 0 + 1 + 0 + 0 <= MaxAttempts + troubles'
  <2>1. PICK s \in Nat : s = troubles'
    BY <1>7
  <2>2. 0 + 1 + 0 <= 1 + s /\ 0 + 1 + 0 + 0 <= MaxAttempts + s
    BY <1>7
  <2> QED
    BY <2>1, <2>2
<1> QED
  BY <1>5, <1>6, <1>9, <1>10 DEF Counted

\* Every mail counts after a step as it did before.
LEMMA CountedKept ==
  ASSUME OutboxInv, MailNext
  PROVE  \A k \in DOMAIN mail' : Counted(k)'
<1>0. /\ OutboxOK /\ OutboxOK'
      /\ \A k \in DOMAIN mail : Counted(k)
  BY OutboxKept DEF OutboxInv
<1> SUFFICES ASSUME NEW k \in DOMAIN mail'
             PROVE  Counted(k)'
  OBVIOUS
<1> DEFINE Goal == Counted(k)'
<1>1. CASE AccountsStep
  <2>1. Moved /\ work' = work /\ troubles' = troubles
    BY <1>1, AccountsMove
  <2>2. CASE k \in DOMAIN mail
    <3>1. /\ mail'[k].accepted = mail[k].accepted /\ mail'[k].attempts = mail[k].attempts
          /\ mail'[k].doubts = mail[k].doubts
          /\ \/ mail'[k].status = mail[k].status
             \/ mail[k].status \in {"PENDING", "FAILED"} /\ mail'[k].status = "DEAD"
      BY <2>1, <2>2 DEF Moved, Cancelled, Same
    <3> QED
      BY <1>0, <2>1, <2>2, <3>1, StaysCounted
  <2>3. CASE k \notin DOMAIN mail
    <3>1. Queued(k)
      BY <2>1, <2>3 DEF Moved
    <3> QED
      BY <1>0, <2>1, <2>3, <3>1, QueuedCounted
  <2> QED
    BY <2>2, <2>3
<1>2. ASSUME NEW m \in DOMAIN mail, NEW w \in Workers, Only(m, w),
             work[w].mail \in {0, m}, work'[w].mail \in {0, m},
             troubles' = troubles \/ troubles' = troubles + 1, Counted(m)'
      PROVE  Goal
  <2>1. k \in DOMAIN mail
    BY <1>2 DEF Only
  <2>2. CASE k # m
    <3>1. /\ mail'[k] = mail[k]
          /\ \A v \in Workers :
               work[v].mail = k \/ work'[v].mail = k => work'[v] = work[v]
      BY <1>0, <1>2, <2>1, <2>2, Elsewhere
    <3> QED
      BY <1>0, <1>2, <2>1, <3>1, StaysCounted
  <2> QED
    BY <1>2, <2>2
<1>3. ASSUME NEW m \in DOMAIN mail, Takes(m)
      PROVE  Goal
  <2>1. Only(m, m) /\ work' = work /\ (troubles' = troubles \/ troubles' = troubles + 1)
    BY <1>3 DEF Takes
  <2>2. CASE k # m
    <3>1. k \in DOMAIN mail /\ mail'[k] = mail[k]
      BY <2>1, <2>2 DEF Only
    <3> QED
      BY <1>0, <2>1, <3>1, StaysCounted
  <2>3. CASE k = m
    BY <1>0, <1>3, <2>3, TakeCounted
  <2> QED
    BY <2>2, <2>3
<1>4. ASSUME NEW m \in DOMAIN mail, NEW w \in Workers, Claims(w, m)
      PROVE  Goal
  <2>1. Only(m, w) /\ work[w].mail = 0 /\ work'[w].mail = m /\ troubles' = troubles
    BY <1>4 DEF Claims, AtRest
  <2>2. Counted(m)'
    BY <1>0, <1>4, ClaimCounted
  <2> QED
    BY <1>2, <2>1, <2>2
<1>5. ASSUME NEW m \in DOMAIN mail, NEW w \in Workers, NEW step \in Steps,
             Turns(w, m, step)
      PROVE  Goal
  <2>1. Only(m, w) /\ work[w].mail = m /\ work'[w].mail = m /\ troubles' = troubles
    BY <1>5 DEF Turns
  <2>2. Counted(m)'
    BY <1>0, <1>5, TurnCounted
  <2> QED
    BY <1>2, <2>1, <2>2
<1>6. ASSUME NEW m \in DOMAIN mail, NEW w \in Workers, NEW n \in Nat, NEW d \in Nat,
             NEW step \in Steps, Hands(w, m, n, d, step)
      PROVE  Goal
  <2>1. /\ Only(m, w) /\ work[w].mail = m /\ work'[w].mail = m
        /\ troubles' = troubles \/ troubles' = troubles + 1
    BY <1>6 DEF Hands
  <2>2. Counted(m)'
    BY <1>0, <1>6, HandCounted
  <2> QED
    BY <1>2, <2>1, <2>2
<1>7. ASSUME NEW m \in DOMAIN mail, NEW w \in Workers, Records(w, m)
      PROVE  Goal
  <2>1. Only(m, w) /\ work[w].mail = m /\ work'[w].mail = 0 /\ troubles' = troubles
    BY <1>7 DEF Records, AtRest
  <2>2. Counted(m)'
    BY <1>0, <1>7, RecordCounted
  <2> QED
    BY <1>2, <2>1, <2>2
<1>8. ASSUME NEW m \in DOMAIN mail, NEW w \in Workers, Quits(w, m)
      PROVE  Goal
  <2>1. Only(m, w) /\ work[w].mail = m /\ work'[w].mail = 0 /\ troubles' = troubles + 1
    BY <1>8 DEF Quits, AtRest
  <2>2. Counted(m)'
    BY <1>0, <1>8, QuitCounted
  <2> QED
    BY <1>2, <2>1, <2>2
<1>9. Goal
  BY <1>0, <1>1, <1>3, <1>4, <1>5, <1>6, <1>7, <1>8, Cases
<1> QED
  BY <1>9

-----------------------------------------------------------------------------
\* The invariant is inductive.
LEMMA OutboxStep == OutboxInv /\ [MailNext]_allVars => OutboxInv'
<1>1. ASSUME OutboxInv, MailNext
      PROVE  OutboxInv'
  <2>1. Inv'
    BY <1>1, AccountsGoOn, InvStep DEF OutboxInv
  <2> QED
    BY <1>1, <2>1, OutboxKept, LinksKeptUp, CountedKept DEF OutboxInv
<1>2. ASSUME OutboxInv, UNCHANGED allVars
      PROVE  OutboxInv'
  <2>1. Inv'
    <3>1. Inv /\ UNCHANGED vars
      BY <1>2 DEF OutboxInv, allVars
    <3> QED
      BY <3>1, InvStep
  <2>2. UNCHANGED <<user, verify, reset, mail, work, troubles>>
    BY <1>2 DEF allVars, mailVars, vars, rows, links
  <2>3. OutboxOK' /\ LinksFollowed'
    <3>1. OutboxOK /\ LinksFollowed
      BY <1>2 DEF OutboxInv
    <3>2. OutboxOK'
      BY <2>2, <3>1 DEF OutboxOK, Holds
    <3>3. \A m : (Fits(m)' <=> Fits(m)) /\ (Works(m)' <=> Works(m))
      BY <2>2 DEF Fits, LinkOf, Works
    <3>4. \A w \in Workers : ~Works(work[w].mail) => ~Works(work[w].mail)'
      BY <2>2 DEF Works
    <3>5. WorkingLinkIsMailed'
      BY <2>2, <3>1, <3>3 DEF LinksFollowed, WorkingLinkIsMailed
    <3> QED
      BY <2>2, <3>1, <3>2, <3>3, <3>4, <3>5 DEF LinksFollowed
  <2>4. \A k \in DOMAIN mail' : Counted(k)'
    <3>1. \A k \in DOMAIN mail : Counted(k)
      BY <1>2 DEF OutboxInv
    <3>2. ASSUME NEW k
          PROVE  /\ On(k)' = On(k) /\ Able(k)' = Able(k)
                 /\ Sending(k)' = Sending(k) /\ Chances(k)' = Chances(k)
                 /\ Waits(k)' = Waits(k) /\ Left(k)' = Left(k)
      BY <2>2 DEF On, Able, Sending, Chances, Waits, Left
    <3>3. ASSUME NEW k, Counted(k) PROVE Counted(k)'
      BY <2>2, <3>2, <3>3 DEF Counted
    <3> QED
      BY <2>2, <3>1, <3>3
  <2> QED
    BY <2>1, <2>3, <2>4 DEF OutboxInv
<1> QED
  BY <1>1, <1>2

\* At the beginning nothing is queued.
LEMMA OutboxInit == MailInit => OutboxInv
<1> SUFFICES ASSUME MailInit PROVE OutboxInv
  OBVIOUS
<1>1. Inv
  BY InvInit DEF MailInit
<1>2. /\ mail = <<>> /\ troubles = 0
      /\ work \in [Workers -> Hand] /\ \A w \in Workers : work[w] = AtRest
  <2>1. AtRest \in Hand
    BY DEF AtRest, Hand
  <2> QED
    BY <2>1 DEF MailInit
<1>3. /\ <<>> \in Seq(Row) /\ Len(<<>>) = 0
      /\ \A k \in DOMAIN <<>> : FALSE
  BY EmptySeq
<1>4. MaxMails \in Nat /\ MaxTroubles \in Nat
  BY MailAssumption DEF MailAssumption
<1>5. OutboxOK
  BY <1>2, <1>3, <1>4 DEF OutboxOK, Holds
<1>6. LinksFollowed
  <2>1. AtRest.step # "SUPERSEDED"
    BY DEF AtRest
  <2> QED
    BY <1>2, <1>3, <2>1 DEF LinksFollowed, WorkingLinkIsMailed
<1> QED
  BY <1>1, <1>2, <1>3, <1>5, <1>6 DEF OutboxInv

\* OutboxInv holds in every state of the specification.
LEMMA OutboxAlways == MailSpec => []OutboxInv
<1>1. MailInit => OutboxInv
  BY OutboxInit
<1>2. OutboxInv /\ [MailNext]_allVars => OutboxInv'
  BY OutboxStep
<1> QED
  BY <1>1, <1>2, PTL DEF MailSpec

\* The attempts of a mail exceed their limit by no more than the troubles,
\* and the server has taken it no oftener than it was attempted.
LEMMA Limited ==
  ASSUME OutboxInv, NEW m \in DOMAIN mail
  PROVE  /\ mail[m].attempts \in 0 .. MaxAttempts + MaxTroubles
         /\ mail[m].accepted \in 0 .. MaxAttempts + MaxTroubles
<1>1. OutboxOK /\ Counted(m) /\ IsFiniteSet(On(m))
  BY DEF OutboxInv, Counted
<1>2. /\ Cardinality(Able(m)) \in Nat /\ Cardinality(Sending(m)) \in Nat
      /\ Waits(m) \in {0, 1} /\ Left(m) \in {0, 1}
      /\ mail[m].attempts \in Nat /\ mail[m].accepted \in Nat
      /\ troubles \in Nat /\ MaxAttempts \in Nat \ {0}
  BY <1>1, Sizes
<1>3. troubles <= MaxTroubles /\ MaxTroubles \in Nat
  BY <1>1, MailAssumption DEF OutboxOK, MailAssumption
<1>4. /\ mail[m].attempts + 1 >= MaxAttempts =>
           mail[m].attempts + Waits(m) + Left(m) + Cardinality(Able(m))
             <= MaxAttempts + troubles
      /\ mail[m].accepted + Cardinality(Sending(m)) <= mail[m].attempts
  BY <1>1 DEF Counted
<1>5. mail[m].attempts <= MaxAttempts + MaxTroubles
  BY <1>2, <1>3, <1>4
<1>6. mail[m].accepted <= MaxAttempts + MaxTroubles
  BY <1>2, <1>3, <1>4, <1>5
<1> QED
  BY <1>2, <1>3, <1>5, <1>6

\* No mail is lost while its link works, each repetition of one has its own time
\* that nobody could tell whether it had gone, and attempts are limited: whatever
\* the workers, their stops, the answers and records that are lost, the ten
\* minutes after which a mail is taken over, and the transactions that replace
\* links and take mails back do to each other.
THEOREM MailsAreRight == MailSpec => []MailInv
<1>1. ASSUME OutboxInv
      PROVE  MailInv
  <2>1. OutboxOK /\ WorkingLinkIsMailed
    BY <1>1 DEF OutboxInv, LinksFollowed
  <2>2. ASSUME NEW m \in DOMAIN mail
        PROVE  mail[m] \in Mail
    <3>1. mail[m] \in Row
      BY <2>1 DEF OutboxOK
    <3>2. /\ mail[m].attempts \in 0 .. MaxAttempts + MaxTroubles
          /\ mail[m].accepted \in 0 .. MaxAttempts + MaxTroubles
      BY <1>1, Limited
    <3> QED
      BY <3>1, <3>2 DEF Row, Kinds, Mail
  <2>3. ASSUME NEW w \in Workers
        PROVE  work[w] \in Work
    <3>1. /\ MaxMails \in Nat /\ MaxTroubles \in Nat /\ MaxAttempts \in Nat
          /\ 0 \in 0 .. MaxMails /\ 0 \in 0 .. MaxAttempts + MaxTroubles
      BY MailAssumption DEF MailAssumption
    <3>2. CASE work[w] = AtRest
      BY <3>1, <3>2 DEF AtRest, Work
    <3>3. CASE work[w] # AtRest
      <4>1. /\ work[w] \in Hand /\ work[w].mail \in DOMAIN mail
            /\ work[w].attempts <= mail[work[w].mail].attempts
        BY <2>1, <3>3, InHand
      <4>2. mail[work[w].mail].attempts \in 0 .. MaxAttempts + MaxTroubles
        BY <1>1, <4>1, Limited
      <4>3. work[w].mail \in 0 .. MaxMails
        BY <2>1, <3>1, <4>1 DEF OutboxOK
      <4>4. work[w].attempts \in 0 .. MaxAttempts + MaxTroubles
        BY <3>1, <4>1, <4>2 DEF Hand
      <4> QED
        BY <4>1, <4>3, <4>4 DEF Hand, Work
    <3> QED
      BY <3>2, <3>3
  <2>4. work \in [Workers -> Work]
    BY <2>1, <2>3 DEF OutboxOK
  <2>5. MailTypeOK
    BY <2>1, <2>2, <2>4 DEF MailTypeOK, OutboxOK
  <2>6. RepeatedOnlyWhenInDoubt
    <3>1. ASSUME NEW m \in DOMAIN mail
          PROVE  mail[m].accepted <= 1 + mail[m].doubts
      <4>1. Counted(m) /\ IsFiniteSet(On(m))
        BY <1>1 DEF OutboxInv, Counted
      <4>2. /\ Cardinality(Chances(m)) \in Nat /\ Waits(m) \in {0, 1}
            /\ mail[m].accepted \in Nat /\ mail[m].doubts \in Nat
        BY <2>1, <4>1, Sizes
      <4> QED
        BY <4>1, <4>2 DEF Counted
    <3> QED
      BY <3>1 DEF RepeatedOnlyWhenInDoubt
  <2> QED
    BY <2>1, <2>5, <2>6 DEF MailInv
<1> QED
  BY <1>1, OutboxAlways, PTL

\* Sent and given up are final: a worker that was slow, a mail that is taken
\* back and a transaction that takes back mails leave them alone.
THEOREM EndedMailsStay == MailSpec => EndedStays
<1>1. ASSUME OutboxInv, [MailNext]_allVars
      PROVE  \A m \in DOMAIN mail : Ended(m) => mail'[m].status = mail[m].status
  <2>1. CASE MailNext
    BY <1>1, <2>1, EndedOnes
  <2>2. CASE UNCHANGED allVars
    BY <2>2 DEF allVars, mailVars
  <2> QED
    BY <1>1, <2>1, <2>2
<1>2. OutboxInv /\ [MailNext]_allVars =>
        [\A m \in DOMAIN mail : Ended(m) => mail'[m].status = mail[m].status]_allVars
  BY <1>1
<1> QED
  BY <1>2, OutboxAlways, PTL DEF MailSpec, EndedStays
=============================================================================
