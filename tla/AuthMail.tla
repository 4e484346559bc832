------------------------------ MODULE AuthMail ------------------------------
(***************************************************************************)
(* The mails of the accounts: auth_email_outbox, which the transactions of *)
(* Accounts fill and clear, and AuthEmailOutboxProcessor, which sends.     *)
(*                                                                         *)
(* A transaction of Accounts and what it writes into the outbox are one    *)
(* action.  A sending is four steps of a worker: claim, look whether the   *)
(* link still works, hand over to the mail server, record.  Each may fail; *)
(* the accounts and other workers go on between them, and a worker may     *)
(* stop anywhere or take longer than the ten minutes after which its mail  *)
(* is taken over.                                                          *)
(***************************************************************************)
EXTENDS Accounts

CONSTANTS
  Workers,
  MaxMails,     \* bound: mails ever queued
  MaxAttempts,  \* max_attempts of the table
  MaxTroubles   \* bound: workers that stop or are too slow, answers and
                \* records that are lost

ASSUME MailAssumption ==
  /\ {MaxMails, MaxTroubles} \subseteq Nat
  /\ MaxAttempts \in Nat \ {0}

VARIABLES
  mail,     \* auth_email_outbox
  work,     \* what each worker does
  troubles  \* troubles so far

mailVars == <<mail, work, troubles>>
allVars == <<vars, mailVars>>

\* Kind and link are the payload; the last two are not columns: the times the
\* mail server took the mail, and the times nobody could tell whether it had:
\* its answer was lost, or the worker could not record it, or was interrupted.
Mail ==
  [user : Users, kind : {"VERIFY_EMAIL", "PASSWORD_RESET", "PASSWORD_CHANGED"},
   link : 0 .. MaxLinks,
   status : {"PENDING", "PROCESSING", "SENT", "FAILED", "DEAD"},
   attempts : 0 .. MaxAttempts + MaxTroubles,
   accepted : 0 .. MaxAttempts + MaxTroubles, doubts : Nat]

Work ==
  [mail : 0 .. MaxMails, attempts : 0 .. MaxAttempts + MaxTroubles,
   step : {"IDLE", "CLAIMED", "CURRENT", "SENT", "FAILED", "SUPERSEDED"}]

MailTypeOK ==
  /\ \A m \in DOMAIN mail : mail[m] \in Mail
  /\ work \in [Workers -> Work]
  /\ troubles \in 0 .. MaxTroubles

AtRest == [mail |-> 0, attempts |-> 0, step |-> "IDLE"]

MailInit ==
  /\ Init
  /\ mail = <<>>
  /\ work = [w \in Workers |-> AtRest]
  /\ troubles = 0

-----------------------------------------------------------------------------
(***************************************************************************)
(* What the transactions write into the outbox.                            *)
(***************************************************************************)
enqueueAuthEmail(mails, u, kind, link) ==
  Append(mails, [user |-> u, kind |-> kind, link |-> link, status |-> "PENDING",
                 attempts |-> 0, accepted |-> 0, doubts |-> 0])

cancelPendingAuthEmails(mails, u, kind) ==
  [m \in DOMAIN mails |->
     IF /\ mails[m].user = u /\ mails[m].kind = kind
        /\ mails[m].status \in {"PENDING", "FAILED"}
     THEN [mails[m] EXCEPT !.status = "DEAD"]
     ELSE mails[m]]

Room == Len(mail) < MaxMails

Replacing_Backwards(u, kind, link) ==
  cancelPendingAuthEmails(enqueueAuthEmail(mail, u, kind, link), u, kind)

\* The mails with the old links are taken back before the new one is queued.
Replacing(u, kind, link) ==
  enqueueAuthEmail(cancelPendingAuthEmails(mail, u, kind), u, kind, link)

\* Accounts without an address are not told.
Told(mails, u) ==
  IF user[u].email THEN enqueueAuthEmail(mails, u, "PASSWORD_CHANGED", 0) ELSE mails

Registration(u, byPhone) ==
  /\ registerStudent(u, byPhone)
  /\ mail' = IF byPhone THEN mail
             ELSE enqueueAuthEmail(mail, u, "VERIFY_EMAIL", Len(verify) + 1)

Verification(i) ==
  /\ verifyEmail(i)
  /\ mail' = cancelPendingAuthEmails(mail, verify[i].user, "VERIFY_EMAIL")

\* Only a change by the person leaves the mails with links where they are:
\* their links no longer work.  Support's links are for people who have no
\* verified address, so that there is no mail to take back.
Replaced(c, u) ==
  /\ \/ call[c].user = u /\ PasswordStep(c)
     \/ \E r \in DOMAIN recovery :
          recovery[r].user = u /\ issuePhonePasswordReset(c, r)
  /\ LET left == IF call[c].step = "CHANGE" \/ reset' = reset THEN mail
                 ELSE cancelPendingAuthEmails(mail, u, "PASSWORD_RESET")
     IN mail' = IF user' = user THEN left ELSE Told(left, u)

\* Transactions that leave the outbox alone.
Silent ==
  /\ \/ \E u \in Users : requestPhonePasswordReset(u) \/ RoleStep(u)
     \/ \E c \in Calls :
          \/ SessionStep(c)
          \/ \E u \in Users : StudentStep(c, u)
          \/ \E i \in DOMAIN reset : openResetLink(c, i)
          \/ \E r \in DOMAIN recovery : rejectPhonePasswordReset(c, r)
     \/ Expire
     \/ cleanupExpired
  /\ UNCHANGED mail

AccountsStep ==
  /\ \/ /\ Room
        /\ \E u \in Users :
             \/ \E byPhone \in BOOLEAN : Registration(u, byPhone)
             \/ /\ requestEmailVerification(u)
                /\ mail' = Replacing(u, "VERIFY_EMAIL", Len(verify) + 1)
             \/ /\ requestPasswordReset(u)
                /\ mail' = Replacing(u, "PASSWORD_RESET", Len(reset) + 1)
             \/ \E c \in Calls : Replaced(c, u)
     \/ \E i \in DOMAIN verify : Verification(i)
     \/ Silent
  /\ UNCHANGED <<work, troubles>>

-----------------------------------------------------------------------------
(***************************************************************************)
(* AuthEmailOutboxProcessor.                                               *)
(***************************************************************************)
Claimable_Once(m) == mail[m].status = "PENDING"

Claimable(m) == mail[m].status \in {"PENDING", "FAILED"}

\* The oldest one that is due; one that failed may have to wait for its turn.
processBatch(w) ==
  /\ work[w] = AtRest
  /\ \E m \in DOMAIN mail :
       /\ Claimable(m)
       /\ \A older \in 1 .. m - 1 : mail[older].status # "PENDING"
       /\ mail' = [mail EXCEPT ![m].status = "PROCESSING", ![m].attempts = @ + 1]
       /\ work' = [work EXCEPT ![w] = [mail |-> m, step |-> "CLAIMED",
                                        attempts |-> mail[m].attempts + 1]]
  /\ UNCHANGED <<vars, troubles>>

isCurrentActionPayload(m) ==
  CASE mail[m].kind = "PASSWORD_CHANGED" -> TRUE
    [] mail[m].kind = "VERIFY_EMAIL" -> Usable(verify[mail[m].link])
    [] mail[m].kind = "PASSWORD_RESET" -> Usable(reset[mail[m].link])

\* What is read of the link, or the reading fails.
Check(w) ==
  /\ work[w].step = "CLAIMED"
  /\ \/ work' = [work EXCEPT ![w].step =
          IF isCurrentActionPayload(work[w].mail) THEN "CURRENT" ELSE "SUPERSEDED"]
     \/ work' = [work EXCEPT ![w].step = "FAILED"]
  /\ UNCHANGED <<vars, mail, troubles>>

Trouble ==
  /\ troubles < MaxTroubles
  /\ troubles' = troubles + 1

\* The server takes the mail, or refuses it, or takes it and its answer is
\* lost, which for the worker is a failure like the other.
Deliver(w) ==
  LET m == work[w].mail IN
  /\ work[w].step = "CURRENT"
  /\ \/ /\ mail' = [mail EXCEPT ![m].accepted = @ + 1]
        /\ work' = [work EXCEPT ![w].step = "SENT"]
        /\ UNCHANGED troubles
     \/ /\ \/ UNCHANGED <<mail, troubles>>
           \/ /\ Trouble
              /\ mail' = [mail EXCEPT ![m].accepted = @ + 1, ![m].doubts = @ + 1]
        /\ work' = [work EXCEPT ![w].step = "FAILED"]
  /\ UNCHANGED vars

RecordFails(w) ==
  LET m == work[w].mail IN
  /\ \/ /\ work[w].step = "SENT"
        /\ Trouble
        /\ mail' = [mail EXCEPT ![m].doubts = @ + 1]
     \/ /\ work[w].step = "SUPERSEDED"
        /\ UNCHANGED <<mail, troubles>>
  /\ work' = [work EXCEPT ![w].step = "FAILED"]
  /\ UNCHANGED vars

\* The attempts are compared with their limit here and nowhere else.
Outcome(w) ==
  IF work[w].step = "SENT" THEN "SENT"
  ELSE IF \/ work[w].step = "SUPERSEDED"
          \/ work[w].attempts >= MaxAttempts
  THEN "DEAD" ELSE "FAILED"

StillProcessing_Unchecked(m) == TRUE

StillProcessing(m) == mail[m].status = "PROCESSING"

Record(w) ==
  LET m == work[w].mail IN
  /\ work[w].step \in {"SENT", "FAILED", "SUPERSEDED"}
  /\ mail' = IF StillProcessing(m)
             THEN [mail EXCEPT ![m].status = Outcome(w)] ELSE mail
  /\ work' = [work EXCEPT ![w] = AtRest]
  /\ UNCHANGED <<vars, troubles>>

Abandoned(m) == \A w \in Workers : work[w].mail # m

\* After ten minutes a mail is taken from its worker, at the beginning of
\* another batch: the worker has stopped, or it is slow.
TakeBack(m) ==
  /\ mail[m].status = "PROCESSING"
  /\ \/ Abandoned(m) /\ UNCHANGED troubles
     \/ ~Abandoned(m) /\ Trouble
  /\ mail' = [mail EXCEPT ![m].status = "FAILED", ![m].doubts = @ + 1]
  /\ UNCHANGED <<vars, work>>

\* Also a worker whose statement that records a failure fails: the mail stays
\* as it is until it is taken back.
Stop(w) ==
  /\ work[w] # AtRest
  /\ Trouble
  /\ work' = [work EXCEPT ![w] = AtRest]
  /\ UNCHANGED <<vars, mail>>

WorkerStep(w) ==
  processBatch(w) \/ Check(w) \/ Deliver(w) \/ RecordFails(w) \/ Record(w)

MailNext ==
  \/ AccountsStep
  \/ \E w \in Workers : WorkerStep(w) \/ Stop(w)
  \/ \E m \in DOMAIN mail : TakeBack(m)

MailSpec == MailInit /\ [][MailNext]_allVars

\* The loop of a worker polls until it is stopped and is started again; the
\* statement that takes mails back runs in each of its turns.
MailFairness ==
  /\ \A w \in Workers : WF_allVars(WorkerStep(w))
  /\ \A m \in 1 .. MaxMails :
       WF_allVars(m \in DOMAIN mail /\ Abandoned(m) /\ TakeBack(m))

MailFairSpec == MailSpec /\ MailFairness

-----------------------------------------------------------------------------
(***************************************************************************)
(* Properties.                                                             *)
(***************************************************************************)
Ended(m) == mail[m].status \in {"SENT", "DEAD"}

Works(m) ==
  \/ mail[m].kind = "VERIFY_EMAIL" /\ Usable(verify[mail[m].link])
  \/ mail[m].kind = "PASSWORD_RESET" /\ Usable(reset[mail[m].link])

\* As long as a link works, its mail is given up only after as many attempts as
\* are allowed: no cancellation and no check of a worker takes away the mail of
\* the link that replaced another.
WorkingLinkIsMailed ==
  \A m \in DOMAIN mail :
    Works(m) /\ mail[m].status = "DEAD" => mail[m].attempts >= MaxAttempts

\* A mail goes out at least once; each time it goes out again, there was a time
\* that nobody could tell whether it had: two workers never hand it over beside
\* each other, and what was recorded as sent is not sent again, for nothing.
RepeatedOnlyWhenInDoubt ==
  \A m \in DOMAIN mail : mail[m].accepted <= 1 + mail[m].doubts

\* Types, and the two together: a mail is neither lost nor repeated without
\* a cause.
MailInv == MailTypeOK /\ WorkingLinkIsMailed /\ RepeatedOnlyWhenInDoubt

\* What has ended is never taken up again, by a worker that was slow or by a
\* transaction that takes back mails.
EndedStays ==
  [][\A m \in DOMAIN mail : Ended(m) => mail'[m].status = mail[m].status]_allVars

\* Every mail is sent or given up in the end.
EveryMailEnds ==
  \A m \in 1 .. MaxMails : m \in DOMAIN mail ~> m \in DOMAIN mail /\ Ended(m)
=============================================================================
