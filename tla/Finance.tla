------------------------------ MODULE Finance ------------------------------
(***************************************************************************)
(* The dues of students, their append-only ledger and the receipts that    *)
(* students send in: FinanceService over PostgreSQL.                       *)
(*                                                                         *)
(* Creating, paying, reversing and voiding a due and submitting a receipt  *)
(* are one transaction each, and one action each.  Reviewing a receipt,    *)
(* settling an invoice, splitting a payment and replacing an amount run    *)
(* several statements and transactions one after the other, without one    *)
(* around them: an administrator's operation is a process with a program   *)
(* counter, another administrator's steps come in between, a step that     *)
(* fails ends it, and so does a crash, both leaving done what was done.    *)
(*                                                                         *)
(* Variants whose name has a suffix after an underscore are mistakes for   *)
(* the runs to catch; no action uses them.                                 *)
(***************************************************************************)
EXTENDS Naturals, Sequences, FiniteSets

CONSTANTS
  Students,
  Admins,       \* administrators, each with one operation at a time
  Prices,       \* the amounts that can be typed in, in minor units
  MaxDues,      \* bound: dues ever created
  MaxVersion,   \* bound: versions of a due
  MaxReceipts   \* bound: receipts ever submitted

ASSUME StudentsAssumption == Students # {}
ASSUME PricesAssumption == Prices \subseteq Nat \ {0}
ASSUME BoundsAssumption ==
  MaxDues \in Nat /\ MaxVersion \in Nat /\ MaxReceipts \in Nat

VARIABLES
  dues,       \* finance_dues in the order of their creation
  ledger,     \* finance_ledger_entries of each due, in order
  receipts,   \* finance_payment_submissions
  op          \* the operation each administrator has in progress

vars == <<dues, ledger, receipts, op>>

-----------------------------------------------------------------------------
(***************************************************************************)
(* Rows and operations.                                                    *)
(***************************************************************************)
DueStatus == {"UNPAID", "PAID", "VOIDED"}
EntryType ==
  {"DUE_CREATED", "PAYMENT_RECORDED", "PAYMENT_REVERSED", "DUE_VOIDED"}
ReviewStatus == {"PENDING", "ACCEPTED", "REJECTED"}

\* replaces is the due a reissued one was made for (0: none); the table has
\* no such column, it is there to state what a reissue promises.
Due ==
  [student : Students, amount : Nat \ {0}, status : DueStatus,
   version : Nat \ {0}, replaces : Nat]

\* ref is the receipt a payment was accepted from (0: none), related the
\* ledger position of the payment a reversal undoes (0: none).
LedgerEntry ==
  [type : EntryType, version : Nat \ {0}, ref : Nat, related : Nat]

Receipt ==
  [due : Nat \ {0}, student : Students, invoice : BOOLEAN,
   status : ReviewStatus]

Steps ==
  {"IDLE", "PAY", "LIST", "SETTLE", "CLEAR", "DECIDE",
   "REISSUE", "VOID", "PORTION", "CONFIRM"}

\* What an operation holds on to between its statements: the receipt and its
\* decision, the due and the version it read, the amount it was given, the
\* dues <<due, version>> it still has to pay, and the dues it has made.
Operation ==
  [step : Steps, receipt : Nat, decision : ReviewStatus, student : Students,
   due : Nat, version : Nat, amount : Nat, rest : SUBSET (Nat \X Nat),
   made : Seq(Nat)]

Idle(s) ==
  [step |-> "IDLE", receipt |-> 0, decision |-> "PENDING", student |-> s,
   due |-> 0, version |-> 0, amount |-> 0, rest |-> {}, made |-> <<>>]

\* What an administrator without an operation has: the student is arbitrary.
Nobody == Idle(CHOOSE s \in Students : TRUE)

Dues == 1 .. Len(dues)

\* The rows, their ledgers and the operations in progress are well formed.
TypeOK ==
  /\ dues \in Seq(Due)
  /\ ledger \in Seq(Seq(LedgerEntry))
  /\ Len(ledger) = Len(dues)
  /\ receipts \in Seq(Receipt)
  /\ \A i \in 1 .. Len(receipts) : receipts[i].due \in Dues
  /\ op \in [Admins -> Operation]

Init ==
  /\ dues = <<>>
  /\ ledger = <<>>
  /\ receipts = <<>>
  /\ op = [a \in Admins |-> Nobody]

-----------------------------------------------------------------------------
(***************************************************************************)
(* The transactions on one due.                                            *)
(***************************************************************************)

\* The due and its first ledger entry.  The request it belongs to is no
\* draft, and names the student.
createDue(s, amount, replaces) ==
  /\ Len(dues) < MaxDues
  /\ dues' = Append(dues, [student |-> s, amount |-> amount,
                           status |-> "UNPAID", version |-> 1,
                           replaces |-> replaces])
  /\ ledger' = Append(ledger, <<[type |-> "DUE_CREATED", version |-> 1,
                                 ref |-> 0, related |-> 0]>>)

\* The transition each entry stands for.
From(type) == IF type = "PAYMENT_REVERSED" THEN "PAID" ELSE "UNPAID"
To(type) == CASE type = "PAYMENT_RECORDED" -> "PAID"
              [] type = "PAYMENT_REVERSED" -> "UNPAID"
              [] type = "DUE_VOIDED"       -> "VOIDED"

\* The payments of a due that no reversal names.
Standing(d) ==
  {i \in 1 .. Len(ledger[d]) :
     /\ ledger[d][i].type = "PAYMENT_RECORDED"
     /\ \A j \in 1 .. Len(ledger[d]) : ledger[d][j].related # i}

\* The version is not compared with the one the caller read.
MayChange_AnyVersion(d, version, type) == dues[d].status = From(type)

\* changeDue commits: the caller's version is current, and the status is the
\* one the transition starts from.
MayChange(d, version, type) ==
  /\ dues[d].version = version
  /\ dues[d].status = From(type)

\* The ledger entry is written, the projection is not.
changeDue_EntryOnly(d, type, ref) ==
  /\ dues[d].version < MaxVersion
  /\ ledger' = [ledger EXCEPT ![d] =
       Append(@, [type |-> type, version |-> dues[d].version + 1, ref |-> ref,
                  related |-> 0])]
  /\ UNCHANGED dues

\* A reversal does not name the payment it undoes.
changeDue_Unrelated(d, type, ref) ==
  /\ dues[d].version < MaxVersion
  /\ dues' = [dues EXCEPT ![d].status = To(type), ![d].version = @ + 1]
  /\ ledger' = [ledger EXCEPT ![d] =
       Append(@, [type |-> type, version |-> dues[d].version + 1, ref |-> ref,
                  related |-> 0])]

\* The entry and the projection.  A reversal names the latest standing payment.
changeDue(d, type, ref) ==
  /\ dues[d].version < MaxVersion
  /\ dues' = [dues EXCEPT ![d].status = To(type), ![d].version = @ + 1]
  /\ \E related \in IF type = "PAYMENT_REVERSED" THEN Standing(d) ELSE {0} :
       /\ type = "PAYMENT_REVERSED" => \A i \in Standing(d) : i <= related
       /\ ledger' = [ledger EXCEPT ![d] =
            Append(@, [type |-> type, version |-> dues[d].version + 1,
                       ref |-> ref, related |-> related])]

\* The direct operations.  A stale version is refused, so each runs on the
\* version it finds.
Create(s, amount) == createDue(s, amount, 0) /\ UNCHANGED <<receipts, op>>

recordPayment(d) ==
  /\ MayChange(d, dues[d].version, "PAYMENT_RECORDED")
  /\ changeDue(d, "PAYMENT_RECORDED", 0)
  /\ UNCHANGED <<receipts, op>>

reversePayment(d) ==
  /\ MayChange(d, dues[d].version, "PAYMENT_REVERSED")
  /\ changeDue(d, "PAYMENT_REVERSED", 0)
  /\ UNCHANGED <<receipts, op>>

voidDue(d) ==
  /\ MayChange(d, dues[d].version, "DUE_VOIDED")
  /\ changeDue(d, "DUE_VOIDED", 0)
  /\ UNCHANGED <<receipts, op>>

\* One pending receipt per due: ON CONFLICT DO NOTHING refuses another.
submitPaymentReceipt(d, invoice) ==
  /\ Len(receipts) < MaxReceipts
  /\ dues[d].status = "UNPAID"
  /\ \A i \in 1 .. Len(receipts) :
       receipts[i].due = d => receipts[i].status # "PENDING"
  /\ receipts' = Append(receipts, [due |-> d, student |-> dues[d].student,
                                   invoice |-> invoice, status |-> "PENDING"])
  /\ UNCHANGED <<dues, ledger, op>>

-----------------------------------------------------------------------------
(***************************************************************************)
(* The operations of several transactions.                                 *)
(***************************************************************************)
Goto(a, o) == op' = [op EXCEPT ![a] = o]
Done(a) == Goto(a, Nobody)

\* The unpaid dues of a student, each with its version.
Unpaid(s) ==
  {<<d, dues[d].version>> : d \in {d \in Dues : /\ dues[d].student = s
                                               /\ dues[d].status = "UNPAID"}}

\* The server stops, or a statement fails for another reason; a commit whose
\* answer is lost is one that committed and then failed.
Crash(a) ==
  /\ op[a].step # "IDLE"
  /\ Done(a)
  /\ UNCHANGED <<dues, ledger, receipts>>

\* reviewPaymentReceipt reads the receipt and its due without a lock; of the
\* due's version only an acceptance makes use.
reviewPaymentReceipt(a, i, decision) ==
  LET d == receipts[i].due IN
  /\ op[a].step = "IDLE"
  /\ receipts[i].status = "PENDING"
  /\ decision = "ACCEPTED" => dues[d].status = "UNPAID"
  /\ Goto(a, [Idle(dues[d].student) EXCEPT
                !.step = IF decision = "ACCEPTED" THEN "PAY" ELSE "DECIDE",
                !.receipt = i, !.decision = decision,
                !.due = d,
                !.version = IF decision = "ACCEPTED" THEN dues[d].version ELSE 0])
  /\ UNCHANGED <<dues, ledger, receipts>>

\* The due of the receipt is paid first.
PayReviewed(a) ==
  LET o == op[a] IN
  /\ o.step = "PAY"
  /\ IF MayChange(o.due, o.version, "PAYMENT_RECORDED")
     THEN /\ changeDue(o.due, "PAYMENT_RECORDED", o.receipt)
          /\ Goto(a, [o EXCEPT !.step = IF receipts[o.receipt].invoice
                                        THEN "LIST" ELSE "DECIDE",
                               !.version = 0])
     ELSE Done(a) /\ UNCHANGED <<dues, ledger>>
  /\ UNCHANGED receipts

\* The receipt of an invoice: every other unpaid due of the student is read.
ListUnpaid(a) ==
  /\ op[a].step = "LIST"
  /\ Goto(a, [op[a] EXCEPT !.step = "SETTLE", !.rest = Unpaid(op[a].student)])
  /\ UNCHANGED <<dues, ledger, receipts>>

\* The next of the dues that were read, in the order of their creation.
SettleNext(a) ==
  LET o == op[a] IN
  /\ o.step = "SETTLE"
  /\ \E p \in o.rest :
       /\ \A x \in o.rest : p[1] <= x[1]
       /\ IF MayChange(p[1], p[2], "PAYMENT_RECORDED")
          THEN /\ changeDue(p[1], "PAYMENT_RECORDED", o.receipt)
               /\ Goto(a, [o EXCEPT !.rest = @ \ {p}])
          ELSE Done(a) /\ UNCHANGED <<dues, ledger>>
  /\ UNCHANGED receipts

Settled(a) ==
  /\ op[a].step = "SETTLE"
  /\ op[a].rest = {}
  /\ Goto(a, [op[a] EXCEPT !.step = "CLEAR"])
  /\ UNCHANGED <<dues, ledger, receipts>>

\* UPDATE of every pending receipt of the student, whatever due it is for;
\* the receipt under review is decided by the next statement.
ClearReceipts(a) ==
  LET o == op[a] IN
  /\ o.step = "CLEAR"
  /\ receipts' = [i \in 1 .. Len(receipts) |->
       IF /\ receipts[i].student = o.student
          /\ receipts[i].status = "PENDING"
          /\ i # o.receipt
       THEN [receipts[i] EXCEPT !.status = "ACCEPTED"]
       ELSE receipts[i]]
  /\ IF o.receipt = 0 THEN Done(a) ELSE Goto(a, [o EXCEPT !.step = "DECIDE"])
  /\ UNCHANGED <<dues, ledger>>

\* The decision is written over whatever is there.
Decide_Always(a) ==
  /\ op[a].step = "DECIDE"
  /\ receipts' = [receipts EXCEPT ![op[a].receipt].status = op[a].decision]
  /\ Done(a)
  /\ UNCHANGED <<dues, ledger>>

\* The decision, if the receipt is still pending: otherwise the operation
\* fails with RECEIPT_ALREADY_REVIEWED.
Decide(a) ==
  LET o == op[a] IN
  /\ o.step = "DECIDE"
  /\ receipts' = IF receipts[o.receipt].status = "PENDING"
                 THEN [receipts EXCEPT ![o.receipt].status = o.decision]
                 ELSE receipts
  /\ Done(a)
  /\ UNCHANGED <<dues, ledger>>

\* markAllDuesPaid reads the unpaid dues and pays them one by one.
markAllDuesPaid(a, s) ==
  /\ op[a].step = "IDLE"
  /\ Goto(a, [Idle(s) EXCEPT !.step = "SETTLE", !.rest = Unpaid(s)])
  /\ UNCHANGED <<dues, ledger, receipts>>

\* recordSplitPayment and replaceDueAmount read the due without a lock.
recordSplitPayment(a, d, paid) ==
  /\ op[a].step = "IDLE"
  /\ dues[d].status = "UNPAID"
  /\ paid < dues[d].amount
  /\ Goto(a, [Idle(dues[d].student) EXCEPT
                !.step = "REISSUE", !.decision = "ACCEPTED", !.due = d,
                !.version = dues[d].version, !.amount = paid])
  /\ UNCHANGED <<dues, ledger, receipts>>

\* The old due is voided before the new one is made.
replaceDueAmount_VoidFirst(a, d, amount) ==
  /\ op[a].step = "IDLE"
  /\ dues[d].status = "UNPAID"
  /\ amount # dues[d].amount
  /\ Goto(a, [Idle(dues[d].student) EXCEPT
                !.step = "VOID", !.due = d,
                !.version = dues[d].version, !.amount = amount])
  /\ UNCHANGED <<dues, ledger, receipts>>

replaceDueAmount(a, d, amount) ==
  /\ op[a].step = "IDLE"
  /\ dues[d].status = "UNPAID"
  /\ amount # dues[d].amount
  /\ Goto(a, [Idle(dues[d].student) EXCEPT
                !.step = "REISSUE", !.due = d,
                !.version = dues[d].version, !.amount = amount])
  /\ UNCHANGED <<dues, ledger, receipts>>

\* A split has the decision ACCEPTED: part of the due is being paid.
Splits(o) == o.decision = "ACCEPTED"

\* A split reissues the whole amount.
Reissued_Whole(o) == IF Splits(o) THEN dues[o.due].amount ELSE o.amount

\* The amount of the reissued due: what remains, or the new amount.
Reissued(o) == IF Splits(o) THEN dues[o.due].amount - o.amount ELSE o.amount

Reissue(a) ==
  LET o == op[a] IN
  /\ o.step = "REISSUE"
  /\ createDue(o.student, Reissued(o), o.due)
  /\ Goto(a, [o EXCEPT !.step = "VOID", !.made = <<Len(dues) + 1>>])
  /\ UNCHANGED receipts

VoidReplaced(a) ==
  LET o == op[a] IN
  /\ o.step = "VOID"
  /\ IF MayChange(o.due, o.version, "DUE_VOIDED")
     THEN /\ changeDue(o.due, "DUE_VOIDED", 0)
          /\ IF Splits(o) THEN Goto(a, [o EXCEPT !.step = "PORTION"]) ELSE Done(a)
     ELSE Done(a) /\ UNCHANGED <<dues, ledger>>
  /\ UNCHANGED receipts

\* The paid portion becomes a due of its own, and is then paid.
CreatePortion(a) ==
  LET o == op[a] IN
  /\ o.step = "PORTION"
  /\ createDue(o.student, o.amount, o.due)
  /\ Goto(a, [o EXCEPT !.step = "CONFIRM", !.made = Append(@, Len(dues) + 1)])
  /\ UNCHANGED receipts

ConfirmPortion(a) ==
  LET o == op[a] IN
  /\ o.step = "CONFIRM"
  /\ IF MayChange(o.made[2], 1, "PAYMENT_RECORDED")
     THEN changeDue(o.made[2], "PAYMENT_RECORDED", 0)
     ELSE UNCHANGED <<dues, ledger>>
  /\ Done(a)
  /\ UNCHANGED receipts

-----------------------------------------------------------------------------
Direct ==
  \/ \E s \in Students, m \in Prices : Create(s, m)
  \/ \E d \in Dues :
       \/ recordPayment(d)
       \/ reversePayment(d)
       \/ voidDue(d)
       \/ \E invoice \in BOOLEAN : submitPaymentReceipt(d, invoice)

Review(a) ==
  \/ \E i \in 1 .. Len(receipts), decision \in {"ACCEPTED", "REJECTED"} :
       reviewPaymentReceipt(a, i, decision)
  \/ PayReviewed(a)
  \/ ListUnpaid(a)
  \/ Decide(a)

Settle(a) ==
  \/ \E s \in Students : markAllDuesPaid(a, s)
  \/ SettleNext(a)
  \/ Settled(a)
  \/ ClearReceipts(a)

Replace(a) ==
  \/ \E d \in Dues, m \in Prices :
       recordSplitPayment(a, d, m) \/ replaceDueAmount(a, d, m)
  \/ Reissue(a)
  \/ VoidReplaced(a)
  \/ CreatePortion(a)
  \/ ConfirmPortion(a)

Next ==
  \/ Direct
  \/ \E a \in Admins : Review(a) \/ Settle(a) \/ Replace(a) \/ Crash(a)

Spec == Init /\ [][Next]_vars

-----------------------------------------------------------------------------
(***************************************************************************)
(* Properties.                                                             *)
(***************************************************************************)

\* The projection of a due is what its ledger says: one entry per version,
\* each a transition from the status the one before led to, and the last led
\* to the due's status.  It holds in the middle of every operation and after
\* every crash.
LedgerExplainsDue(d) ==
  LET e == ledger[d] IN
  /\ Len(e) = dues[d].version
  /\ \A i \in 1 .. Len(e) : e[i].version = i
  /\ e[1].type = "DUE_CREATED"
  /\ \A i \in 2 .. Len(e) :
       /\ e[i].type # "DUE_CREATED"
       /\ From(e[i].type) = IF i = 2 THEN "UNPAID" ELSE To(e[i - 1].type)
  /\ dues[d].status = IF Len(e) = 1 THEN "UNPAID" ELSE To(e[Len(e)].type)

LedgerExplainsDues == \A d \in Dues : LedgerExplainsDue(d)

\* However the operations of administrators interleave, a paid due has exactly
\* one payment standing, and any other due none: no due is collected twice, and
\* each reversal undoes a payment of its own.
OnePaymentStands ==
  \A d \in Dues :
    Cardinality(Standing(d)) = IF dues[d].status = "PAID" THEN 1 ELSE 0

\* Types, and the two together: projection, ledger and payments agree in every
\* state.
LedgerInv == TypeOK /\ LedgerExplainsDues /\ OnePaymentStands

\* An operation pays or voids a due only as it was when the operation read it:
\* whatever other administrators did to the due in between makes it fail.
ActsOnWhatItRead ==
  [][\A a \in Admins : \A d \in Dues :
       LET o == op[a] IN
       /\ op'[a] # o
       /\ o.step \in {"PAY", "SETTLE", "VOID"}
       /\ ledger'[d] # ledger[d]
       => \/ d = o.due /\ o.step # "SETTLE" /\ dues[d].version = o.version
          \/ <<d, dues[d].version>> \in o.rest]_vars

\* Two reviewers of one receipt, or a reviewer and a settlement of the whole
\* invoice, cannot overturn each other's decision.
DecidedOnce ==
  [][\A i \in 1 .. Len(receipts) :
       receipts[i].status # "PENDING" => receipts'[i] = receipts[i]]_vars

\* Replacing or splitting a due voids it only when what takes its place has
\* been issued: no failure in between leaves the debt unbilled.
IssuedBeforeVoid ==
  [][\A d \in Dues : \A a \in Admins :
       /\ dues[d].status # "VOIDED" /\ dues'[d].status = "VOIDED"
       /\ op'[a] # op[a]
       => \E n \in Dues : dues[n].replaces = d /\ op[a].made = <<n>>]_vars

\* A split that runs to its end conserves the amount: the paid portion and the
\* remaining due add up to the due they replace, which is void.
SplitConserves ==
  [][\A a \in Admins :
       LET o == op[a] IN
       /\ o.step = "CONFIRM" /\ op'[a] # o /\ ledger' # ledger
       => /\ dues'[o.due].status = "VOIDED"
          /\ dues'[o.made[2]].status = "PAID"
          /\ dues'[o.made[1]].amount + dues'[o.made[2]].amount
               = dues'[o.due].amount]_vars

\* Seen from outside, each due lives the life DueLifecycle promises: the
\* lookups without a lock, the retries, the conflicts and the crashes of the
\* operations never show as anything but one of its four steps.
Lifecycle ==
  INSTANCE DueLifecycle WITH
    Due <- 1 .. MaxDues,
    status <- [d \in 1 .. MaxDues |->
                 IF d \in Dues THEN dues[d].status ELSE "NONE"],
    collected <- [d \in 1 .. MaxDues |->
                    IF d \in Dues THEN Cardinality(Standing(d)) ELSE 0]

ImplementsLifecycle == Lifecycle!Spec
=============================================================================
