--------------------------- MODULE FinanceProofs ---------------------------
(***************************************************************************)
(* Theorems of Finance, for every value of its constants: any number of    *)
(* students, administrators, prices, dues, versions and receipts.          *)
(***************************************************************************)
EXTENDS Finance, FiniteSetTheorems, SequenceTheorems, TLAPS

(***************************************************************************)
(* A due and its ledger.                                                   *)
(***************************************************************************)

\* What LedgerExplainsDue says of a row and its entries.
Explains(e, row) ==
  /\ Len(e) = row.version
  /\ \A i \in 1 .. Len(e) : e[i].version = i
  /\ e[1].type = "DUE_CREATED"
  /\ \A i \in 2 .. Len(e) :
       /\ e[i].type # "DUE_CREATED"
       /\ From(e[i].type) = IF i = 2 THEN "UNPAID" ELSE To(e[i - 1].type)
  /\ row.status = IF Len(e) = 1 THEN "UNPAID" ELSE To(e[Len(e)].type)

\* The payments among the entries that no reversal names.
Payments(e) ==
  {i \in 1 .. Len(e) : /\ e[i].type = "PAYMENT_RECORDED"
                       /\ \A j \in 1 .. Len(e) : e[j].related # i}

\* An entry is related to an earlier one only.
LooksBack(e) == \A j \in 1 .. Len(e) : e[j].related < j

\* A paid due has one of them, any other due none.
Collected(e, row) ==
  IF row.status = "PAID" THEN \E k : Payments(e) = {k} ELSE Payments(e) = {}

Good(e, row) ==
  /\ row \in Due
  /\ e \in Seq(LedgerEntry)
  /\ Explains(e, row)
  /\ LooksBack(e)
  /\ Collected(e, row)

\* The three entries that change a due.
Transition == {"PAYMENT_RECORDED", "PAYMENT_REVERSED", "DUE_VOIDED"}

\* What From and To say of them.
LEMMA FromTo ==
  /\ From("PAYMENT_RECORDED") = "UNPAID" /\ To("PAYMENT_RECORDED") = "PAID"
  /\ From("PAYMENT_REVERSED") = "PAID"   /\ To("PAYMENT_REVERSED") = "UNPAID"
  /\ From("DUE_VOIDED") = "UNPAID"       /\ To("DUE_VOIDED") = "VOIDED"
BY DEF From, To

\* A new due is explained by its first entry.
LEMMA GoodFirst ==
  ASSUME NEW row \in Due, row.status = "UNPAID", row.version = 1
  PROVE  Good(<<[type |-> "DUE_CREATED", version |-> 1, ref |-> 0,
                 related |-> 0]>>, row)
<1> DEFINE x == [type |-> "DUE_CREATED", version |-> 1, ref |-> 0, related |-> 0]
<1>1. x \in LedgerEntry
  BY DEF LedgerEntry, EntryType
<1>2. <<x>> \in Seq(LedgerEntry) /\ Len(<<x>>) = 1 /\ <<x>>[1] = x
  BY <1>1
<1>3. Explains(<<x>>, row)
  BY <1>2 DEF Explains
<1>4. LooksBack(<<x>>) /\ Payments(<<x>>) = {}
  BY <1>2 DEF LooksBack, Payments
<1> QED
  BY <1>2, <1>3, <1>4 DEF Good, Collected

\* The entry of a transition from the row's status goes on where the ledger
\* ended: the payments among the entries are again those the status tells of.
LEMMA GoodAppend ==
  ASSUME NEW row, NEW e, Good(e, row),
         NEW type \in Transition, row.status = From(type),
         NEW ref \in Nat,
         NEW related \in IF type = "PAYMENT_REVERSED" THEN Payments(e) ELSE {0}
  PROVE  Good(Append(e, [type |-> type, version |-> row.version + 1,
                         ref |-> ref, related |-> related]),
              [row EXCEPT !.status = To(type), !.version = @ + 1])
<1> DEFINE n == Len(e)
           x == [type |-> type, version |-> row.version + 1, ref |-> ref,
                 related |-> related]
           f == Append(e, x)
           new == [row EXCEPT !.status = To(type), !.version = @ + 1]
<1>1. /\ row \in Due
      /\ e \in Seq(LedgerEntry)
      /\ n = row.version
      /\ n \in Nat \ {0}
  BY DEF Good, Explains, Due
<1>2. related \in 0 .. n
  BY <1>1 DEF Payments
<1>3. x \in LedgerEntry
  BY <1>1, <1>2 DEF LedgerEntry, EntryType, Transition
<1>4. /\ f \in Seq(LedgerEntry)
      /\ Len(f) = n + 1
      /\ f[n + 1] = x
      /\ \A i \in 1 .. n : f[i] = e[i]
  BY <1>1, <1>3
<1>5. /\ new \in Due
      /\ new.status = To(type)
      /\ new.version = n + 1
  <2>1. To(type) \in DueStatus
    BY FromTo DEF Transition, DueStatus
  <2> HIDE DEF n
  <2>2. new.status = To(type) /\ new.version = n + 1
    BY <1>1 DEF Due
  <2>3. row.version + 1 \in Nat \ {0}
    BY <1>1
  <2>4. new \in Due
    BY <1>1, <2>1, <2>3 DEF Due
  <2> QED
    BY <2>2, <2>4
<1>6. /\ x.type = type
      /\ x.version = n + 1
      /\ x.related = related
  BY <1>1
<1> HIDE DEF x, f, new
<1>7. Explains(f, new)
  <2>1. \A i \in 1 .. n + 1 : f[i].version = i
    BY <1>1, <1>4, <1>6 DEF Good, Explains
  <2>2. f[1].type = "DUE_CREATED"
    BY <1>1, <1>4 DEF Good, Explains
  <2>3. ASSUME NEW i \in 2 .. n + 1
        PROVE  /\ f[i].type # "DUE_CREATED"
               /\ From(f[i].type) = IF i = 2 THEN "UNPAID" ELSE To(f[i - 1].type)
    <3>1. CASE i = n + 1
      <4>1. f[i].type = type /\ type # "DUE_CREATED"
        BY <1>4, <1>6, <3>1 DEF Transition
      <4>2. row.status = IF n = 1 THEN "UNPAID" ELSE To(e[n].type)
        BY DEF Good, Explains
      <4>3. n # 1 => f[i - 1] = e[n]
        <5>1. i - 1 = n /\ n \in 1 .. n
          BY <1>1, <3>1
        <5> QED
          BY <1>4, <5>1
      <4> QED
        BY <1>1, <3>1, <4>1, <4>2, <4>3
    <3>2. CASE i \in 2 .. n
      <4>1. f[i] = e[i] /\ f[i - 1] = e[i - 1]
        BY <1>1, <1>4, <3>2
      <4> QED
        BY <3>2, <4>1 DEF Good, Explains
    <3> QED
      BY <1>1, <3>1, <3>2
  <2> QED
    <3>1. n + 1 # 1 /\ f[n + 1].type = type
      BY <1>1, <1>4, <1>6
    <3> HIDE DEF n
    <3> QED
      BY <1>4, <1>5, <2>1, <2>2, <2>3, <3>1, Zenon DEF Explains
<1>8. LooksBack(f)
  <2>1. ASSUME NEW j \in 1 .. n + 1
        PROVE  f[j].related < j
    <3>1. CASE j = n + 1
      BY <1>1, <1>2, <1>4, <1>6, <3>1
    <3>2. CASE j \in 1 .. n
      BY <1>4, <3>2 DEF Good, LooksBack
    <3> QED
      BY <1>1, <3>1, <3>2
  <2> QED
    BY <1>4, <2>1 DEF LooksBack
<1>9. Collected(f, new)
  <2>1. \A i \in 1 .. n : i \in Payments(f) <=> i \in Payments(e) /\ related # i
    <3>1. SUFFICES ASSUME NEW i \in 1 .. n
                   PROVE  i \in Payments(f) <=> i \in Payments(e) /\ related # i
      OBVIOUS
    <3>2. i \in 1 .. n + 1 /\ f[i] = e[i]
      BY <1>1, <1>4
    <3>3. (\A j \in 1 .. n + 1 : f[j].related # i)
            <=> (\A j \in 1 .. n : e[j].related # i) /\ related # i
      <4>1. \A j : j \in 1 .. n + 1 <=> j \in 1 .. n \/ j = n + 1
        BY <1>1
      <4> HIDE DEF n
      <4> QED
        BY <1>4, <1>6, <4>1
    <3> QED
      BY <1>4, <3>2, <3>3 DEF Payments
  <2>2. n + 1 \in Payments(f) <=> type = "PAYMENT_RECORDED"
    <3>1. ASSUME NEW j \in 1 .. n + 1
          PROVE  f[j].related # n + 1
      <4>1. f[j].related < j
        BY <1>4, <1>8 DEF LooksBack
      <4>2. f[j] \in LedgerEntry
        BY <1>4
      <4>3. f[j].related \in Nat
        BY <4>2 DEF LedgerEntry
      <4> QED
        BY <1>1, <4>1, <4>3
    <3>2. \A j \in 1 .. n + 1 : f[j].related # n + 1
      BY <3>1
    <3> QED
      BY <1>1, <1>4, <1>6, <3>2 DEF Payments
  <2>3. Payments(f) \subseteq 1 .. n + 1 /\ Payments(e) \subseteq 1 .. n
    BY <1>4 DEF Payments
  <2>4. CASE type = "PAYMENT_RECORDED"
    <3>1. Payments(e) = {} /\ new.status = "PAID"
      BY <1>5, <2>4, FromTo DEF Good, Collected
    <3>2. Payments(f) = {n + 1}
      BY <1>1, <2>1, <2>2, <2>3, <2>4, <3>1
    <3> QED
      BY <3>1, <3>2 DEF Collected
  <2>5. CASE type = "PAYMENT_REVERSED"
    <3>1. new.status = "UNPAID" /\ \E k : Payments(e) = {k}
      BY <1>5, <2>5, FromTo DEF Good, Collected
    <3>2. Payments(e) = {related}
      BY <2>5, <3>1
    <3>3. Payments(f) = {}
      BY <1>1, <2>1, <2>2, <2>3, <2>5, <3>2
    <3> QED
      BY <3>1, <3>3 DEF Collected
  <2>6. CASE type = "DUE_VOIDED"
    <3>1. Payments(e) = {} /\ new.status = "VOIDED"
      BY <1>5, <2>6, FromTo DEF Good, Collected
    <3>2. Payments(f) = {}
      BY <1>1, <2>1, <2>2, <2>3, <2>6, <3>1
    <3> QED
      BY <3>1, <3>2 DEF Collected
  <2> QED
    BY <2>4, <2>5, <2>6 DEF Transition
<1> QED
  BY <1>4, <1>5, <1>7, <1>8, <1>9 DEF Good, f, new, x

-----------------------------------------------------------------------------
(***************************************************************************)
(* The tables.                                                             *)
(***************************************************************************)

\* Every due agrees with its ledger and with the payments that stand.
RowsOK ==
  /\ dues \in Seq(Due)
  /\ ledger \in Seq(Seq(LedgerEntry))
  /\ Len(ledger) = Len(dues)
  /\ Len(dues) <= MaxDues
  /\ \A d \in Dues : Good(ledger[d], dues[d])

\* What no step takes back from the dues ds: they stay, with their amounts and
\* what they replace, and a void due stays void.
Kept(ds, es) ==
  /\ Len(ds) <= Len(es)
  /\ \A d \in 1 .. Len(ds) :
       /\ es[d].amount = ds[d].amount
       /\ es[d].replaces = ds[d].replaces
       /\ ds[d].status = "VOIDED" => es[d].status = "VOIDED"

\* A due is made behind the others.
LEMMA Created ==
  ASSUME RowsOK, NEW s \in Students, NEW amount \in Nat \ {0}, NEW k \in Nat,
         createDue(s, amount, k)
  PROVE  /\ RowsOK'
         /\ Len(dues') = Len(dues) + 1
         /\ dues'[Len(dues) + 1] =
              [student |-> s, amount |-> amount, status |-> "UNPAID",
               version |-> 1, replaces |-> k]
         /\ \A d \in Dues : dues'[d] = dues[d] /\ ledger'[d] = ledger[d]
<1> DEFINE row == [student |-> s, amount |-> amount, status |-> "UNPAID",
                   version |-> 1, replaces |-> k]
           x == [type |-> "DUE_CREATED", version |-> 1, ref |-> 0, related |-> 0]
           n == Len(dues)
<1>1. row \in Due /\ row.status = "UNPAID" /\ row.version = 1
  BY DEF Due, DueStatus
<1>2. Good(<<x>>, row)
  BY <1>1, GoodFirst
<1>3. <<x>> \in Seq(LedgerEntry)
  BY <1>2 DEF Good
<1>4. dues' = Append(dues, row) /\ ledger' = Append(ledger, <<x>>)
  BY DEF createDue
<1>5. n \in Nat /\ dues \in Seq(Due) /\ ledger \in Seq(Seq(LedgerEntry)) /\ Len(ledger) = n
  BY DEF RowsOK
<1> HIDE DEF row, x
<1>6. /\ dues' \in Seq(Due) /\ Len(dues') = n + 1
      /\ dues'[n + 1] = row
      /\ \A d \in 1 .. n : dues'[d] = dues[d]
  BY <1>1, <1>4, <1>5
<1>7. /\ ledger' \in Seq(Seq(LedgerEntry)) /\ Len(ledger') = n + 1
      /\ ledger'[n + 1] = <<x>>
      /\ \A d \in 1 .. n : ledger'[d] = ledger[d]
  BY <1>3, <1>4, <1>5
<1>8. ASSUME NEW d \in 1 .. n + 1
      PROVE  Good(ledger'[d], dues'[d])
  <2>1. CASE d = n + 1
    BY <1>2, <1>6, <1>7, <2>1
  <2>2. CASE d \in 1 .. n
    BY <1>6, <1>7, <2>2 DEF RowsOK, Dues
  <2> QED
    BY <1>5, <2>1, <2>2
<1>9. n + 1 <= MaxDues
  BY <1>5, BoundsAssumption DEF createDue, BoundsAssumption
<1> QED
  BY <1>6, <1>7, <1>8, <1>9 DEF RowsOK, Dues, row

\* A transition changes one due and adds to its ledger alone.
LEMMA Changed ==
  ASSUME RowsOK, NEW d \in Dues, NEW type \in Transition, NEW ref \in Nat,
         dues[d].status = From(type), changeDue(d, type, ref)
  PROVE  /\ RowsOK'
         /\ Len(dues') = Len(dues)
         /\ dues'[d] = [dues[d] EXCEPT !.status = To(type), !.version = @ + 1]
         /\ \A x \in Dues \ {d} : dues'[x] = dues[x] /\ ledger'[x] = ledger[x]
<1> DEFINE new == [dues[d] EXCEPT !.status = To(type), !.version = @ + 1]
           x(k) == [type |-> type, version |-> dues[d].version + 1,
                    ref |-> ref, related |-> k]
<1>1. PICK k \in IF type = "PAYMENT_REVERSED" THEN Payments(ledger[d]) ELSE {0} :
        ledger' = [ledger EXCEPT ![d] = Append(@, x(k))]
  BY DEF changeDue, Standing, Payments
<1>2. dues' = [dues EXCEPT ![d] = new]
  BY DEF changeDue
<1>3. Good(ledger[d], dues[d])
  BY DEF RowsOK
<1>4. Good(Append(ledger[d], x(k)), new)
  BY <1>3, GoodAppend
<1>5. new \in Due /\ Append(ledger[d], x(k)) \in Seq(LedgerEntry)
  BY <1>4 DEF Good
<1>6. dues \in Seq(Due) /\ ledger \in Seq(Seq(LedgerEntry)) /\ Len(ledger) = Len(dues)
  BY DEF RowsOK
<1> HIDE DEF new, x
<1>7. /\ dues' \in Seq(Due) /\ Len(dues') = Len(dues)
      /\ dues'[d] = new
      /\ \A y \in Dues \ {d} : dues'[y] = dues[y]
  BY <1>2, <1>5, <1>6 DEF Dues
<1>8. /\ ledger' \in Seq(Seq(LedgerEntry)) /\ Len(ledger') = Len(ledger)
      /\ ledger'[d] = Append(ledger[d], x(k))
      /\ \A y \in Dues \ {d} : ledger'[y] = ledger[y]
  BY <1>1, <1>5, <1>6 DEF Dues
<1>9. \A y \in Dues : Good(ledger'[y], dues'[y])
  BY <1>4, <1>7, <1>8 DEF RowsOK
<1> QED
  BY <1>6, <1>7, <1>8, <1>9 DEF RowsOK, Dues, new

\* The three things a step can do to the tables of dues and entries.
DuesStep ==
  \/ UNCHANGED <<dues, ledger>>
  \/ \E s \in Students, amount \in Nat \ {0}, k \in Nat : createDue(s, amount, k)
  \/ \E d \in Dues, type \in Transition, ref \in Nat :
       dues[d].status = From(type) /\ changeDue(d, type, ref)

\* Each of them leaves every due explained and takes back nothing.
LEMMA RowsStep ==
  ASSUME RowsOK, DuesStep
  PROVE  RowsOK' /\ Kept(dues, dues')
<1>1. CASE UNCHANGED <<dues, ledger>>
  BY <1>1 DEF RowsOK, Kept, Dues
<1>2. ASSUME NEW s \in Students, NEW amount \in Nat \ {0}, NEW k \in Nat,
             createDue(s, amount, k)
      PROVE  RowsOK' /\ Kept(dues, dues')
  <2>1. Len(dues) \in Nat
    BY DEF RowsOK
  <2>2. /\ RowsOK'
        /\ Len(dues') = Len(dues) + 1
        /\ \A d \in 1 .. Len(dues) : dues'[d] = dues[d]
    BY <1>2, Created DEF Dues
  <2> QED
    BY <2>1, <2>2 DEF Kept
<1>3. ASSUME NEW d \in Dues, NEW type \in Transition, NEW ref \in Nat,
             dues[d].status = From(type), changeDue(d, type, ref)
      PROVE  RowsOK' /\ Kept(dues, dues')
  <2>1. dues[d] \in Due /\ Len(dues) \in Nat
    BY DEF RowsOK, Dues
  <2>2. /\ dues'[d].amount = dues[d].amount
        /\ dues'[d].replaces = dues[d].replaces
    <3>1. dues'[d] = [dues[d] EXCEPT !.status = To(type), !.version = @ + 1]
      BY <1>3, Changed
    <3> QED
      BY <2>1, <3>1 DEF Due
  <2>3. dues[d].status # "VOIDED"
    BY <1>3, FromTo DEF Transition
  <2>4. /\ RowsOK'
        /\ Len(dues') = Len(dues)
        /\ \A x \in (1 .. Len(dues)) \ {d} : dues'[x] = dues[x]
    BY <1>3, Changed DEF Dues
  <2> QED
    BY <2>1, <2>2, <2>3, <2>4 DEF Kept
<1> QED
  BY <1>1, <1>2, <1>3 DEF DuesStep

-----------------------------------------------------------------------------
(***************************************************************************)
(* The operations in progress.                                             *)
(***************************************************************************)

\* What an operation o knows of the dues ds and of the n receipts there are,
\* although it holds no lock: the rows it names exist, what is reissued for a
\* due is made before the due is void, and a split's parts add up.
Holds(o, ds, n) ==
  /\ o.step \in {"PAY", "LIST", "DECIDE"} => o.receipt \in 1 .. n
  /\ o.step \in {"SETTLE", "CLEAR"} => o.receipt \in 0 .. n
  /\ o.step \in {"PAY", "REISSUE", "VOID", "PORTION", "CONFIRM"} =>
       o.due \in 1 .. Len(ds)
  /\ o.step = "SETTLE" => \A p \in o.rest : p[1] \in 1 .. Len(ds)
  /\ o.step \in {"REISSUE", "VOID", "PORTION"} => o.amount > 0
  /\ o.step = "REISSUE" /\ Splits(o) => o.amount < ds[o.due].amount
  /\ o.step \in {"VOID", "PORTION"} =>
       \E k \in 1 .. Len(ds) :
         /\ o.made = <<k>>
         /\ ds[k].replaces = o.due
         /\ Splits(o) => ds[k].amount + o.amount = ds[o.due].amount
  /\ o.step = "PORTION" => Splits(o)
  /\ o.step \in {"PORTION", "CONFIRM"} => ds[o.due].status = "VOIDED"
  /\ o.step = "CONFIRM" =>
       \E k, m \in 1 .. Len(ds) :
         /\ o.made = <<k, m>>
         /\ ds[k].amount + ds[m].amount = ds[o.due].amount

ReceiptsOK ==
  /\ receipts \in Seq(Receipt)
  /\ \A i \in 1 .. Len(receipts) : receipts[i].due \in Dues

OpsOK ==
  /\ op \in [Admins -> Operation]
  /\ \A a \in Admins : Holds(op[a], dues, Len(receipts))

\* The inductive invariant.
Inv == RowsOK /\ ReceiptsOK /\ OpsOK

\* What an operation knows stays true while others work.
LEMMA HoldsOn ==
  ASSUME NEW o, NEW ds \in Seq(Due), NEW es \in Seq(Due),
         NEW n \in Nat, NEW k \in Nat, n <= k,
         Kept(ds, es), Holds(o, ds, n)
  PROVE  Holds(o, es, k)
<1>1. /\ Len(ds) \in Nat /\ Len(es) \in Nat /\ Len(ds) <= Len(es)
      /\ 1 .. n \subseteq 1 .. k /\ 0 .. n \subseteq 0 .. k
      /\ 1 .. Len(ds) \subseteq 1 .. Len(es)
  BY DEF Kept
<1>2. \A d \in 1 .. Len(ds) : /\ d \in 1 .. Len(es)
                              /\ es[d].amount = ds[d].amount
                              /\ es[d].replaces = ds[d].replaces
                              /\ ds[d].status = "VOIDED" => es[d].status = "VOIDED"
  BY <1>1 DEF Kept
<1>3. o.step \in {"VOID", "PORTION"} =>
        \E j \in 1 .. Len(es) :
          /\ o.made = <<j>>
          /\ es[j].replaces = o.due
          /\ Splits(o) => es[j].amount + o.amount = es[o.due].amount
  BY <1>2 DEF Holds
<1>4. o.step = "CONFIRM" =>
        \E j, m \in 1 .. Len(es) :
          /\ o.made = <<j, m>>
          /\ es[j].amount + es[m].amount = es[o.due].amount
  BY <1>2 DEF Holds
<1> QED
  BY <1>1, <1>2, <1>3, <1>4 DEF Holds

\* An operation begins, and ends, without anything in hand.
LEMMA IdleOperation ==
  /\ \A s \in Students : Idle(s) \in Operation
  /\ Nobody \in Operation
  /\ \A ds, n : Holds(Nobody, ds, n)
<1>1. \A s \in Students : Idle(s) \in Operation
  BY DEF Idle, Operation, Steps, ReviewStatus
<1>2. (CHOOSE s \in Students : TRUE) \in Students
  BY StudentsAssumption DEF StudentsAssumption
<1>3. Nobody.step = "IDLE"
  BY DEF Nobody, Idle
<1> QED
  BY <1>1, <1>2, <1>3 DEF Nobody, Holds

-----------------------------------------------------------------------------
\* A direct operation's step on the dues is one of the three.
LEMMA DirectDues ==
  ASSUME Inv, Direct
  PROVE  DuesStep
<1>1. ASSUME NEW s \in Students, NEW m \in Prices, Create(s, m)
      PROVE  DuesStep
  <2>1. m \in Nat \ {0}
    BY PricesAssumption DEF PricesAssumption
  <2> QED
    BY <1>1, <2>1 DEF Create, DuesStep
<1>2. ASSUME NEW d \in Dues, recordPayment(d)
      PROVE  DuesStep
  BY <1>2 DEF recordPayment, MayChange, DuesStep, Transition
<1>3. ASSUME NEW d \in Dues, reversePayment(d)
      PROVE  DuesStep
  BY <1>3 DEF reversePayment, MayChange, DuesStep, Transition
<1>4. ASSUME NEW d \in Dues, voidDue(d)
      PROVE  DuesStep
  BY <1>4 DEF voidDue, MayChange, DuesStep, Transition
<1>5. ASSUME NEW d \in Dues, NEW invoice \in BOOLEAN,
             submitPaymentReceipt(d, invoice)
      PROVE  DuesStep
  BY <1>5 DEF submitPaymentReceipt, DuesStep
<1> QED
  BY <1>1, <1>2, <1>3, <1>4, <1>5 DEF Direct

\* What an administrator's operation does to the dues is one of the three, too:
\* the rows that it names are there, and the amounts it bills are positive.
LEMMA OperationDues ==
  ASSUME Inv, NEW a \in Admins, Review(a) \/ Settle(a) \/ Replace(a) \/ Crash(a)
  PROVE  DuesStep
<1> DEFINE o == op[a]
<1>0. /\ o \in Operation
      /\ Holds(o, dues, Len(receipts))
      /\ dues \in Seq(Due)
  BY DEF Inv, OpsOK, RowsOK
<1>1. CASE PayReviewed(a)
  <2>1. o.due \in Dues /\ o.receipt \in Nat
    BY <1>0, <1>1 DEF PayReviewed, Holds, Dues, Operation
  <2> QED
    BY <1>1, <2>1 DEF PayReviewed, MayChange, DuesStep, Transition
<1>2. CASE SettleNext(a)
  <2>1. PICK p \in o.rest :
          IF MayChange(p[1], p[2], "PAYMENT_RECORDED")
          THEN changeDue(p[1], "PAYMENT_RECORDED", o.receipt)
          ELSE UNCHANGED <<dues, ledger>>
    BY <1>2 DEF SettleNext
  <2>2. p[1] \in Dues /\ o.receipt \in Nat
    BY <1>0, <1>2 DEF SettleNext, Holds, Dues, Operation
  <2> QED
    BY <2>1, <2>2 DEF MayChange, DuesStep, Transition
<1>3. CASE Reissue(a)
  <2>1. o.due \in 1 .. Len(dues) /\ dues[o.due].amount \in Nat
    <3>1. o.due \in 1 .. Len(dues)
      BY <1>0, <1>3 DEF Reissue, Holds
    <3>2. dues[o.due] \in Due
      BY <1>0, <3>1
    <3> QED
      BY <3>1, <3>2 DEF Due
  <2>2. Reissued(o) \in Nat \ {0} /\ o.due \in Nat /\ o.student \in Students
    BY <1>0, <1>3, <2>1 DEF Reissue, Reissued, Holds, Operation
  <2> QED
    BY <1>3, <2>2 DEF Reissue, DuesStep
<1>4. CASE VoidReplaced(a)
  <2>1. o.due \in Dues
    BY <1>0, <1>4 DEF VoidReplaced, Holds, Dues
  <2> QED
    BY <1>4, <2>1 DEF VoidReplaced, MayChange, DuesStep, Transition
<1>5. CASE CreatePortion(a)
  <2>1. o.amount \in Nat \ {0} /\ o.due \in Nat /\ o.student \in Students
    BY <1>0, <1>5 DEF CreatePortion, Holds, Operation
  <2> QED
    BY <1>5, <2>1 DEF CreatePortion, DuesStep
<1>6. CASE ConfirmPortion(a)
  <2>1. o.made[2] \in Dues
    BY <1>0, <1>6 DEF ConfirmPortion, Holds, Dues
  <2> QED
    BY <1>6, <2>1 DEF ConfirmPortion, MayChange, DuesStep, Transition
<1>7. ASSUME UNCHANGED <<dues, ledger>>
      PROVE  DuesStep
  BY <1>7 DEF DuesStep
<1>8. CASE Review(a)
  BY <1>1, <1>7, <1>8 DEF Review, reviewPaymentReceipt, ListUnpaid, Decide
<1>9. CASE Settle(a)
  BY <1>2, <1>7, <1>9 DEF Settle, markAllDuesPaid, Settled, ClearReceipts
<1>10. CASE Replace(a)
  BY <1>3, <1>4, <1>5, <1>6, <1>7, <1>10
  DEF Replace, recordSplitPayment, replaceDueAmount
<1>11. CASE Crash(a)
  BY <1>7, <1>11 DEF Crash
<1> QED
  BY <1>8, <1>9, <1>10, <1>11

\* There are no other ways to change a due.
LEMMA DuesSteps ==
  ASSUME Inv, [Next]_vars
  PROVE  DuesStep
BY DirectDues, OperationDues DEF Next, vars, DuesStep

\* Receipts are added and decided, and name a due for good.
LEMMA ReceiptsStep ==
  ASSUME Inv, [Next]_vars
  PROVE  /\ ReceiptsOK'
         /\ Len(receipts) <= Len(receipts')
         /\ \A i \in 1 .. Len(receipts) :
              receipts[i].status # "PENDING" => receipts'[i] = receipts[i]
<1> DEFINE Goal ==
       /\ receipts' \in Seq(Receipt)
       /\ \A i \in 1 .. Len(receipts') : receipts'[i].due \in Dues
       /\ Len(receipts) <= Len(receipts')
       /\ \A i \in 1 .. Len(receipts) :
            receipts[i].status # "PENDING" => receipts'[i] = receipts[i]
<1>0. /\ receipts \in Seq(Receipt)
      /\ \A i \in 1 .. Len(receipts) : receipts[i].due \in Dues
      /\ Len(receipts) \in Nat
      /\ dues \in Seq(Due)
      /\ Dues \subseteq Nat \ {0}
  BY DEF Inv, ReceiptsOK, RowsOK, Dues
<1>1. ASSUME UNCHANGED receipts
      PROVE  Goal
  BY <1>0, <1>1
<1>2. ASSUME NEW d \in Dues, NEW invoice \in BOOLEAN, submitPaymentReceipt(d, invoice)
      PROVE  Goal
  <2> DEFINE x == [due |-> d, student |-> dues[d].student, invoice |-> invoice,
                   status |-> "PENDING"]
  <2>1. x \in Receipt /\ x.due = d
    <3>1. dues[d] \in Due /\ d \in Nat \ {0}
      BY <1>0 DEF Dues
    <3>2. dues[d].student \in Students
      BY <3>1 DEF Due
    <3> QED
      BY <3>1, <3>2 DEF Receipt, ReviewStatus
  <2>2. receipts' = Append(receipts, x)
    BY <1>2 DEF submitPaymentReceipt
  <2> HIDE DEF x
  <2>3. /\ receipts' \in Seq(Receipt)
        /\ Len(receipts') = Len(receipts) + 1
        /\ receipts'[Len(receipts) + 1] = x
        /\ \A i \in 1 .. Len(receipts) : receipts'[i] = receipts[i]
    BY <1>0, <2>1, <2>2
  <2>4. ASSUME NEW i \in 1 .. Len(receipts')
        PROVE  receipts'[i].due \in Dues
    <3>1. i \in 1 .. Len(receipts) \/ i = Len(receipts) + 1
      BY <1>0, <2>3
    <3> QED
      BY <1>0, <2>1, <2>3, <3>1
  <2> QED
    BY <1>0, <2>3, <2>4
<1>3. ASSUME NEW i \in 1 .. Len(receipts), NEW status \in ReviewStatus,
             receipts[i].status = "PENDING",
             receipts' = [receipts EXCEPT ![i].status = status]
      PROVE  Goal
  <2>1. receipts[i] \in Receipt
    BY <1>0
  <2>2. /\ [receipts[i] EXCEPT !.status = status] \in Receipt
        /\ [receipts[i] EXCEPT !.status = status].due = receipts[i].due
    BY <2>1 DEF Receipt
  <2>3. receipts' = [receipts EXCEPT ![i] = [receipts[i] EXCEPT !.status = status]]
    BY <1>3
  <2>4. /\ receipts' \in Seq(Receipt)
        /\ Len(receipts') = Len(receipts)
        /\ receipts'[i] = [receipts[i] EXCEPT !.status = status]
        /\ \A j \in (1 .. Len(receipts)) \ {i} : receipts'[j] = receipts[j]
    BY <1>0, <2>2, <2>3
  <2> QED
    BY <1>0, <1>3, <2>2, <2>4
<1>4. ASSUME NEW a \in Admins, ClearReceipts(a)
      PROVE  Goal
  <2> DEFINE cleared(i) == [receipts[i] EXCEPT !.status = "ACCEPTED"]
  <2>1. ASSUME NEW i \in 1 .. Len(receipts)
        PROVE  /\ receipts[i] \in Receipt
               /\ cleared(i) \in Receipt
               /\ cleared(i).due = receipts[i].due
    <3>1. receipts[i] \in Receipt
      BY <1>0
    <3> QED
      BY <3>1 DEF Receipt, ReviewStatus
  <2>2. receipts' = [i \in 1 .. Len(receipts) |->
                       IF /\ receipts[i].student = op[a].student
                          /\ receipts[i].status = "PENDING"
                          /\ i # op[a].receipt
                       THEN cleared(i) ELSE receipts[i]]
    BY <1>4 DEF ClearReceipts
  <2> HIDE DEF cleared
  <2>3. /\ receipts' \in [1 .. Len(receipts) -> Receipt]
        /\ \A i \in 1 .. Len(receipts) :
             /\ receipts'[i] \in {cleared(i), receipts[i]}
             /\ receipts[i].status # "PENDING" => receipts'[i] = receipts[i]
    BY <2>1, <2>2
  <2>4. receipts' \in Seq(Receipt) /\ Len(receipts') = Len(receipts)
    BY <1>0, <2>3
  <2>5. \A i \in 1 .. Len(receipts) : receipts'[i].due \in Dues
    BY <1>0, <2>1, <2>3
  <2> QED
    BY <1>0, <2>3, <2>4, <2>5
<1>5. ASSUME NEW a \in Admins, Decide(a)
      PROVE  Goal
  <2> DEFINE o == op[a]
  <2>1. o \in Operation /\ Holds(o, dues, Len(receipts))
    BY DEF Inv, OpsOK
  <2>2. o.receipt \in 1 .. Len(receipts) /\ o.decision \in ReviewStatus
    BY <1>5, <2>1 DEF Decide, Holds, Operation
  <2>3. CASE receipts[o.receipt].status = "PENDING"
    <3>1. receipts' = [receipts EXCEPT ![o.receipt].status = o.decision]
      BY <1>5, <2>3 DEF Decide
    <3> QED
      BY <1>3, <2>2, <2>3, <3>1
  <2>4. CASE receipts[o.receipt].status # "PENDING"
    BY <1>1, <1>5, <2>4 DEF Decide
  <2> QED
    BY <2>3, <2>4
<1> HIDE DEF Goal
<1>6. ASSUME Direct
      PROVE  Goal
  BY <1>1, <1>2, <1>6 DEF Direct, Create, recordPayment, reversePayment, voidDue
<1>7. ASSUME NEW a \in Admins, Review(a) \/ Settle(a) \/ Replace(a) \/ Crash(a)
      PROVE  Goal
  BY <1>1, <1>4, <1>5, <1>7
  DEF Review, Settle, Replace, Crash, reviewPaymentReceipt, PayReviewed,
      ListUnpaid, markAllDuesPaid, SettleNext, Settled, recordSplitPayment,
      replaceDueAmount, Reissue, VoidReplaced, CreatePortion, ConfirmPortion
<1>8. Goal
  BY <1>1, <1>6, <1>7 DEF Next, vars
<1>9. Len(dues) <= Len(dues')
  BY DuesSteps, RowsStep DEF Inv, Kept
<1>10. Len(dues) \in Nat /\ Len(dues') \in Nat
  BY DuesSteps, RowsStep DEF Inv, RowsOK
<1>11. \A i \in 1 .. Len(receipts') : receipts'[i].due \in Dues'
  BY <1>8, <1>9, <1>10 DEF Dues, Goal
<1> QED
  BY <1>8, <1>11 DEF Goal, ReceiptsOK

-----------------------------------------------------------------------------
\* What all the steps have in common, and what may then be taken from others.
LEMMA Others ==
  ASSUME Inv, [Next]_vars
  PROVE  /\ RowsOK'
         /\ dues \in Seq(Due) /\ dues' \in Seq(Due)
         /\ Len(dues) \in Nat /\ Len(dues') \in Nat
         /\ Kept(dues, dues')
         /\ Len(receipts) \in Nat /\ Len(receipts') \in Nat
         /\ Len(receipts) <= Len(receipts')
<1>1. RowsOK /\ RowsOK' /\ Kept(dues, dues')
  BY DuesSteps, RowsStep DEF Inv
<1>2. dues \in Seq(Due) /\ dues' \in Seq(Due)
  BY <1>1 DEF RowsOK
<1>3. receipts \in Seq(Receipt) /\ receipts' \in Seq(Receipt)
  BY ReceiptsStep DEF Inv, ReceiptsOK
<1> QED
  BY <1>1, <1>2, <1>3, ReceiptsStep

\* An operation that keeps what it knows, while the others keep theirs.
LEMMA OpsStay ==
  ASSUME Inv, [Next]_vars, UNCHANGED op
  PROVE  OpsOK'
<1>1. ASSUME NEW a \in Admins
      PROVE  Holds(op[a], dues', Len(receipts'))
  <2>1. Holds(op[a], dues, Len(receipts))
    BY DEF Inv, OpsOK
  <2> QED
    BY <2>1, Others, HoldsOn
<1>2. op \in [Admins -> Operation]
  BY DEF Inv, OpsOK
<1> QED
  BY <1>1, <1>2 DEF OpsOK

\* An operation that takes a step and knows what it should know there.
LEMMA OpMoves ==
  ASSUME Inv, [Next]_vars, NEW a \in Admins, NEW o \in Operation,
         Goto(a, o), Holds(o, dues', Len(receipts'))
  PROVE  OpsOK'
<1>1. op \in [Admins -> Operation]
  BY DEF Inv, OpsOK
<1>2. op' \in [Admins -> Operation] /\ op'[a] = o
  BY <1>1 DEF Goto
<1>3. ASSUME NEW b \in Admins, b # a
      PROVE  op'[b] = op[b] /\ Holds(op[b], dues', Len(receipts'))
  <2>1. op'[b] = op[b]
    BY <1>1, <1>3 DEF Goto
  <2>2. Holds(op[b], dues, Len(receipts))
    BY DEF Inv, OpsOK
  <2> QED
    BY <2>1, <2>2, Others, HoldsOn
<1>4. ASSUME NEW b \in Admins
      PROVE  Holds(op'[b], dues', Len(receipts'))
  <2>1. CASE b = a
    BY <1>2, <2>1
  <2>2. CASE b # a
    BY <1>3, <2>2
  <2> QED
    BY <2>1, <2>2
<1> QED
  BY <1>2, <1>4 DEF OpsOK

\* An operation that ends, however it ends.
LEMMA OpEnds ==
  ASSUME Inv, [Next]_vars, NEW a \in Admins, Done(a)
  PROVE  OpsOK'
BY OpMoves, IdleOperation DEF Done

\* What an operation in progress knows.
LEMMA InHand ==
  ASSUME Inv, NEW a \in Admins
  PROVE  /\ op[a] \in Operation
         /\ Holds(op[a], dues, Len(receipts))
         /\ dues \in Seq(Due)
         /\ Len(dues) \in Nat
         /\ Len(receipts) \in Nat
         /\ \A d \in Dues : dues[d] \in Due
         /\ \A i \in 1 .. Len(receipts) : receipts[i].due \in Dues
BY DEF Inv, OpsOK, RowsOK, ReceiptsOK, Dues

\* The unpaid dues that a settlement reads are dues.
LEMMA UnpaidDues ==
  ASSUME Inv, NEW s
  PROVE  /\ Unpaid(s) \in SUBSET (Nat \X Nat)
         /\ \A p \in Unpaid(s) : p[1] \in 1 .. Len(dues)
<1>1. ASSUME NEW p \in Unpaid(s)
      PROVE  p[1] \in 1 .. Len(dues) /\ p \in Nat \X Nat
  <2>1. PICK d \in Dues : p = <<d, dues[d].version>>
    BY DEF Unpaid
  <2>2. d \in 1 .. Len(dues) /\ dues[d] \in Due
    BY DEF Inv, RowsOK, Dues
  <2> QED
    BY <2>1, <2>2 DEF Due
<1> QED
  BY <1>1

\* The review of a receipt.
LEMMA ReviewStep ==
  ASSUME Inv, [Next]_vars, NEW a \in Admins, Review(a)
  PROVE  OpsOK'
<1> DEFINE o == op[a]
<1>0. /\ o \in Operation
      /\ Holds(o, dues, Len(receipts))
      /\ Len(receipts) \in Nat /\ Len(receipts') \in Nat
      /\ Len(receipts) <= Len(receipts')
      /\ Len(dues) \in Nat /\ Len(dues') \in Nat
      /\ Len(dues) <= Len(dues')
  BY InHand, Others DEF Kept
<1>1. ASSUME NEW i \in 1 .. Len(receipts),
             NEW decision \in {"ACCEPTED", "REJECTED"},
             reviewPaymentReceipt(a, i, decision)
      PROVE  OpsOK'
  <2> DEFINE d == receipts[i].due
             step == IF decision = "ACCEPTED" THEN "PAY" ELSE "DECIDE"
             version == IF decision = "ACCEPTED" THEN dues[d].version ELSE 0
             n == [Idle(dues[d].student) EXCEPT
                     !.step = step, !.receipt = i, !.decision = decision,
                     !.due = d, !.version = version]
  <2>1. d \in Dues /\ dues[d] \in Due
    BY InHand
  <2>2. /\ Idle(dues[d].student) \in Operation
        /\ version \in Nat
        /\ step \in {"PAY", "DECIDE"}
        /\ d \in Nat
        /\ i \in Nat
    BY <2>1, IdleOperation DEF Due, Dues
  <2>4. Goto(a, n) /\ UNCHANGED <<dues, receipts>>
    BY <1>1 DEF reviewPaymentReceipt
  <2> HIDE DEF step, version, d
  <2>5. n \in Operation
    BY <2>2 DEF Operation, Steps, ReviewStatus
  <2>6. n.step \in {"PAY", "DECIDE"} /\ n.receipt = i /\ n.due = d
    BY <2>2 DEF Operation
  <2> HIDE DEF n
  <2>7. Holds(n, dues', Len(receipts'))
    BY <1>0, <2>1, <2>4, <2>6 DEF Holds, Dues
  <2> QED
    BY <2>4, <2>5, <2>7, OpMoves
<1>2. CASE PayReviewed(a)
  <2> DEFINE n == [o EXCEPT !.step = IF receipts[o.receipt].invoice
                                     THEN "LIST" ELSE "DECIDE",
                            !.version = 0]
  <2>1. CASE Goto(a, n)
    <3>1. n \in Operation /\ n.step \in {"LIST", "DECIDE"} /\ n.receipt = o.receipt
      BY <1>0 DEF Operation, Steps
    <3>2. o.receipt \in 1 .. Len(receipts')
      BY <1>0, <1>2 DEF PayReviewed, Holds
    <3> HIDE DEF n
    <3>3. Holds(n, dues', Len(receipts'))
      BY <3>1, <3>2 DEF Holds
    <3> QED
      BY <2>1, <3>1, <3>3, OpMoves
  <2> QED
    BY <1>2, <2>1, OpEnds DEF PayReviewed
<1>3. CASE ListUnpaid(a)
  <2> DEFINE n == [o EXCEPT !.step = "SETTLE", !.rest = Unpaid(o.student)]
  <2>1. \A p \in Unpaid(o.student) : p[1] \in 1 .. Len(dues')
    BY <1>0, UnpaidDues
  <2>2. Unpaid(o.student) \in SUBSET (Nat \X Nat)
    BY UnpaidDues
  <2>3. /\ n \in Operation
        /\ n.step = "SETTLE"
        /\ n.receipt = o.receipt
        /\ n.rest = Unpaid(o.student)
    <3> DEFINE U == Unpaid(o.student)
    <3>1. U \in SUBSET (Nat \X Nat)
      BY <2>2
    <3> HIDE DEF U
    <3>2. \A r \in SUBSET (Nat \X Nat) :
            LET m == [o EXCEPT !.step = "SETTLE", !.rest = r]
            IN  /\ m \in Operation
                /\ m.step = "SETTLE"
                /\ m.receipt = o.receipt
                /\ m.rest = r
      BY <1>0 DEF Operation, Steps
    <3> QED
      BY <3>1, <3>2 DEF U
  <2>4. o.receipt \in 0 .. Len(receipts')
    BY <1>0, <1>3 DEF ListUnpaid, Holds
  <2>5. Goto(a, n)
    BY <1>3 DEF ListUnpaid
  <2> HIDE DEF n
  <2>6. Holds(n, dues', Len(receipts'))
    BY <2>1, <2>3, <2>4 DEF Holds
  <2> QED
    BY <2>3, <2>5, <2>6, OpMoves
<1>4. CASE Decide(a)
  BY <1>4, OpEnds DEF Decide
<1> QED
  BY <1>1, <1>2, <1>3, <1>4 DEF Review

\* The settlement of every due of a student.
LEMMA SettleStep ==
  ASSUME Inv, [Next]_vars, NEW a \in Admins, Settle(a)
  PROVE  OpsOK'
<1> DEFINE o == op[a]
<1>0. /\ o \in Operation
      /\ Holds(o, dues, Len(receipts))
      /\ Len(receipts) \in Nat /\ Len(receipts') \in Nat
      /\ Len(receipts) <= Len(receipts')
      /\ Len(dues) \in Nat /\ Len(dues') \in Nat
      /\ Len(dues) <= Len(dues')
  BY InHand, Others DEF Kept
<1>1. ASSUME NEW s \in Students, markAllDuesPaid(a, s)
      PROVE  OpsOK'
  <2> DEFINE U == Unpaid(s)
             n == [Idle(s) EXCEPT !.step = "SETTLE", !.rest = U]
  <2>1. U \in SUBSET (Nat \X Nat) /\ \A p \in U : p[1] \in 1 .. Len(dues')
    BY <1>0, UnpaidDues
  <2>2. Idle(s) \in Operation /\ Idle(s).receipt = 0
    BY IdleOperation DEF Idle
  <2>3. Goto(a, n)
    BY <1>1 DEF markAllDuesPaid
  <2> HIDE DEF U
  <2>4. n \in Operation /\ n.step = "SETTLE" /\ n.receipt = 0 /\ n.rest = U
    BY <2>1, <2>2 DEF Operation, Steps
  <2> HIDE DEF n
  <2>5. Holds(n, dues', Len(receipts'))
    BY <1>0, <2>1, <2>4 DEF Holds
  <2> QED
    BY <2>3, <2>4, <2>5, OpMoves
<1>2. CASE SettleNext(a)
  <2>1. PICK p \in o.rest : Goto(a, [o EXCEPT !.rest = @ \ {p}]) \/ Done(a)
    BY <1>2 DEF SettleNext
  <2> DEFINE n == [o EXCEPT !.rest = @ \ {p}]
  <2>2. CASE Goto(a, n)
    <3>1. n \in Operation /\ n.step = o.step /\ n.receipt = o.receipt
      BY <1>0 DEF Operation
    <3>2. n.rest = o.rest \ {p}
      BY <1>0 DEF Operation
    <3>3. /\ o.step = "SETTLE"
          /\ o.receipt \in 0 .. Len(receipts')
          /\ \A x \in o.rest : x[1] \in 1 .. Len(dues')
      BY <1>0, <1>2 DEF SettleNext, Holds
    <3> HIDE DEF n
    <3>4. Holds(n, dues', Len(receipts'))
      BY <3>1, <3>2, <3>3 DEF Holds
    <3> QED
      BY <2>2, <3>1, <3>4, OpMoves
  <2> QED
    BY <2>1, <2>2, OpEnds
<1>3. CASE Settled(a)
  <2> DEFINE n == [o EXCEPT !.step = "CLEAR"]
  <2>1. n \in Operation /\ n.step = "CLEAR" /\ n.receipt = o.receipt
    BY <1>0 DEF Operation, Steps
  <2>2. o.receipt \in 0 .. Len(receipts')
    BY <1>0, <1>3 DEF Settled, Holds
  <2>3. Goto(a, n)
    BY <1>3 DEF Settled
  <2> HIDE DEF n
  <2>4. Holds(n, dues', Len(receipts'))
    BY <2>1, <2>2 DEF Holds
  <2> QED
    BY <2>1, <2>3, <2>4, OpMoves
<1>4. CASE ClearReceipts(a)
  <2> DEFINE n == [o EXCEPT !.step = "DECIDE"]
  <2>1. CASE o.receipt = 0
    BY <1>4, <2>1, OpEnds DEF ClearReceipts
  <2>2. CASE o.receipt # 0
    <3>1. n \in Operation /\ n.step = "DECIDE" /\ n.receipt = o.receipt
      BY <1>0 DEF Operation, Steps
    <3>2. o.receipt \in 1 .. Len(receipts')
      BY <1>0, <1>4, <2>2 DEF ClearReceipts, Holds
    <3>3. Goto(a, n)
      BY <1>4, <2>2 DEF ClearReceipts
    <3> HIDE DEF n
    <3>4. Holds(n, dues', Len(receipts'))
      BY <3>1, <3>2 DEF Holds
    <3> QED
      BY <3>1, <3>3, <3>4, OpMoves
  <2> QED
    BY <2>1, <2>2
<1> QED
  BY <1>1, <1>2, <1>3, <1>4 DEF Settle

\* A due is read, to be split or replaced.
LEMMA ReplaceBegins ==
  ASSUME Inv, [Next]_vars, NEW a \in Admins, NEW d \in Dues, NEW m \in Prices,
         NEW n \in Operation, n.step = "REISSUE", n.due = d, n.amount = m,
         Splits(n) => m < dues[d].amount,
         UNCHANGED dues, Goto(a, n)
  PROVE  OpsOK'
<1>1. m \in Nat /\ m > 0
  BY PricesAssumption DEF PricesAssumption
<1>2. d \in 1 .. Len(dues)
  BY DEF Dues
<1>3. Holds(n, dues', Len(receipts'))
  BY <1>1, <1>2 DEF Holds
<1> QED
  BY <1>3, OpMoves

\* A due is made before the one it replaces is void.
LEMMA ReissueStep ==
  ASSUME Inv, [Next]_vars, NEW a \in Admins, Reissue(a)
  PROVE  OpsOK'
<1> DEFINE o == op[a]
           k == Len(dues) + 1
           amount == Reissued(o)
           n == [o EXCEPT !.step = "VOID", !.made = <<k>>]
<1>0. /\ o \in Operation
      /\ Holds(o, dues, Len(receipts))
      /\ dues \in Seq(Due)
      /\ Len(dues) \in Nat /\ Len(dues') \in Nat
      /\ Kept(dues, dues')
  BY InHand, Others
<1>1. /\ o.step = "REISSUE"
      /\ createDue(o.student, amount, o.due)
      /\ Goto(a, n)
  BY DEF Reissue
<1>2. /\ o.due \in 1 .. Len(dues)
      /\ o.amount > 0
      /\ Splits(o) => o.amount < dues[o.due].amount
  BY <1>0, <1>1 DEF Holds
<1>3. /\ o.student \in Students
      /\ o.due \in Nat
      /\ o.amount \in Nat
      /\ dues[o.due] \in Due
  BY <1>0, <1>2 DEF Operation
<1>4. dues[o.due].amount \in Nat
  BY <1>3 DEF Due
<1>5. /\ amount \in Nat \ {0}
      /\ Splits(o) => amount + o.amount = dues[o.due].amount
  BY <1>2, <1>3, <1>4 DEF Reissued
<1> HIDE DEF amount
<1>6. /\ Len(dues') = k
      /\ dues'[k] = [student |-> o.student, amount |-> amount,
                     status |-> "UNPAID", version |-> 1, replaces |-> o.due]
  BY <1>1, <1>3, <1>5, Created DEF Inv
<1>7. dues'[k].amount = amount /\ dues'[k].replaces = o.due
  BY <1>6
<1>8. dues'[o.due].amount = dues[o.due].amount /\ o.due \in 1 .. Len(dues')
  BY <1>0, <1>2 DEF Kept
<1>9. n \in Operation
  <2>1. <<k>> \in Seq(Nat)
    BY <1>0
  <2> QED
    BY <1>0, <2>1 DEF Operation, Steps
<1>10. /\ n.step = "VOID"
       /\ n.due = o.due
       /\ n.amount = o.amount
       /\ n.decision = o.decision
       /\ n.made = <<k>>
  BY <1>0 DEF Operation
<1>11. k \in 1 .. Len(dues')
  BY <1>0, <1>6
<1> HIDE DEF n, k
<1>12. Holds(n, dues', Len(receipts'))
  <2>1. Splits(n) <=> Splits(o)
    BY <1>10 DEF Splits
  <2>2. \E j \in 1 .. Len(dues') :
          /\ n.made = <<j>>
          /\ dues'[j].replaces = n.due
          /\ Splits(n) => dues'[j].amount + n.amount = dues'[n.due].amount
    BY <1>5, <1>7, <1>8, <1>10, <1>11, <2>1
  <2> QED
    BY <1>2, <1>8, <1>10, <2>2 DEF Holds
<1> QED
  BY <1>1, <1>9, <1>12, OpMoves

\* The replaced due is voided, unless it is no longer what was read.
LEMMA VoidStep ==
  ASSUME Inv, [Next]_vars, NEW a \in Admins, VoidReplaced(a)
  PROVE  OpsOK'
<1> DEFINE o == op[a]
           n == [o EXCEPT !.step = "PORTION"]
<1>0. /\ o \in Operation
      /\ Holds(o, dues, Len(receipts))
      /\ dues \in Seq(Due)
      /\ Kept(dues, dues')
      /\ Len(receipts) \in Nat /\ Len(receipts') \in Nat
      /\ Len(receipts) <= Len(receipts')
      /\ dues' \in Seq(Due)
  BY InHand, Others
<1>1. CASE Done(a)
  BY <1>1, OpEnds
<1>2. CASE ~Done(a)
  <2>1. /\ o.step = "VOID"
        /\ dues[o.due].status = From("DUE_VOIDED")
        /\ changeDue(o.due, "DUE_VOIDED", 0)
        /\ Splits(o)
        /\ Goto(a, n)
    BY <1>2 DEF VoidReplaced, MayChange
  <2>2. o.due \in Dues
    BY <1>0, <2>1 DEF Holds, Dues
  <2>3. dues'[o.due] = [dues[o.due] EXCEPT !.status = To("DUE_VOIDED"),
                                           !.version = @ + 1]
    BY <2>1, <2>2, Changed DEF Inv, Transition
  <2>4. dues[o.due] \in Due
    BY <2>2, InHand
  <2>5. dues'[o.due].status = "VOIDED"
    BY <2>3, <2>4, FromTo DEF Due
  <2>6. /\ n \in Operation
        /\ n.step = "PORTION"
        /\ n.due = o.due
        /\ n.amount = o.amount
        /\ n.decision = o.decision
        /\ n.made = o.made
    BY <1>0 DEF Operation, Steps
  <2>7. Holds(o, dues', Len(receipts'))
    BY <1>0, HoldsOn
  <2> HIDE DEF n
  <2>8. Holds(n, dues', Len(receipts'))
    <3>1. Splits(n)
      BY <2>1, <2>6 DEF Splits
    <3>2. /\ o.due \in 1 .. Len(dues')
          /\ o.amount > 0
          /\ \E j \in 1 .. Len(dues') :
               /\ o.made = <<j>>
               /\ dues'[j].replaces = o.due
               /\ dues'[j].amount + o.amount = dues'[o.due].amount
      BY <2>1, <2>7 DEF Holds
    <3> QED
      BY <2>5, <2>6, <3>1, <3>2 DEF Holds
  <2> QED
    BY <2>1, <2>6, <2>8, OpMoves
<1> QED
  BY <1>1, <1>2

\* The paid portion: with what remains it is the due that was replaced.
LEMMA PortionStep ==
  ASSUME Inv, [Next]_vars, NEW a \in Admins, CreatePortion(a)
  PROVE  OpsOK'
<1> DEFINE o == op[a]
           k == Len(dues) + 1
           made == Append(o.made, k)
           n == [o EXCEPT !.step = "CONFIRM", !.made = made]
<1>0. /\ o \in Operation
      /\ Holds(o, dues, Len(receipts))
      /\ dues \in Seq(Due)
      /\ Len(dues) \in Nat /\ Len(dues') \in Nat
      /\ Kept(dues, dues')
  BY InHand, Others
<1>1. /\ o.step = "PORTION"
      /\ createDue(o.student, o.amount, o.due)
      /\ Goto(a, n)
  BY DEF CreatePortion
<1>2. /\ o.due \in 1 .. Len(dues)
      /\ o.amount > 0
      /\ dues[o.due].status = "VOIDED"
      /\ Splits(o)
  BY <1>0, <1>1 DEF Holds
<1>3. PICK j \in 1 .. Len(dues) :
        /\ o.made = <<j>>
        /\ dues[j].amount + o.amount = dues[o.due].amount
  BY <1>0, <1>1, <1>2 DEF Holds
<1>4. /\ o.student \in Students
      /\ o.due \in Nat
      /\ o.amount \in Nat \ {0}
  BY <1>0, <1>2 DEF Operation
<1>5. /\ Len(dues') = k
      /\ dues'[k] = [student |-> o.student, amount |-> o.amount,
                     status |-> "UNPAID", version |-> 1, replaces |-> o.due]
  BY <1>1, <1>4, Created DEF Inv
<1>6. dues'[k].amount = o.amount
  BY <1>5
<1>7. /\ dues'[o.due].amount = dues[o.due].amount
      /\ dues'[o.due].status = "VOIDED"
      /\ dues'[j].amount = dues[j].amount
      /\ o.due \in 1 .. Len(dues') /\ j \in 1 .. Len(dues')
      /\ k \in 1 .. Len(dues')
  BY <1>0, <1>2, <1>5 DEF Kept
<1>8. made = <<j, k>> /\ made \in Seq(Nat)
  <2>1. j \in Nat /\ k \in Nat
    BY <1>0
  <2>2. <<j, k>> \in Seq(Nat)
    BY <2>1
  <2>3. made = Append(<<j>>, k)
    BY <1>3
  <2> HIDE DEF made, k
  <2>4. Append(<<j>>, k) = <<j, k>>
    <3> DEFINE s == Append(<<j>>, k)
               t == <<j, k>>
    <3>1. s \in Seq(Nat) /\ Len(s) = 2 /\ s[1] = j /\ s[2] = k
      BY <2>1
    <3>2. t \in Seq(Nat) /\ Len(t) = 2 /\ t[1] = j /\ t[2] = k
      BY <2>1
    <3> HIDE DEF s, t
    <3>3. \A i \in 1 .. 2 : i = 1 \/ i = 2
      OBVIOUS
    <3>4. \A i \in 1 .. Len(s) : s[i] = t[i]
      BY <3>1, <3>2, <3>3
    <3>5. s = t
      BY <3>1, <3>2, <3>4, SeqEqual
    <3> QED
      BY <3>5 DEF s, t
  <2> QED
    BY <2>2, <2>3, <2>4
<1> HIDE DEF made, k
<1>9. /\ n \in Operation
      /\ n.step = "CONFIRM"
      /\ n.due = o.due
      /\ n.made = made
  BY <1>0, <1>8 DEF Operation, Steps
<1> HIDE DEF n
<1>10. Holds(n, dues', Len(receipts'))
  <2>1. dues'[j].amount + dues'[k].amount = dues'[o.due].amount
    BY <1>3, <1>6, <1>7
  <2> QED
    BY <1>7, <1>8, <1>9, <2>1 DEF Holds
<1> QED
  BY <1>1, <1>9, <1>10, OpMoves

\* Splitting a due and replacing its amount.
LEMMA ReplaceStep ==
  ASSUME Inv, [Next]_vars, NEW a \in Admins, Replace(a)
  PROVE  OpsOK'
<1>0. ASSUME NEW d \in Dues, NEW m \in Prices
      PROVE  /\ Idle(dues[d].student) \in Operation
             /\ d \in Nat /\ m \in Nat /\ dues[d].version \in Nat
  <2>1. dues[d] \in Due /\ d \in Nat
    BY InHand DEF Dues
  <2> QED
    BY <2>1, IdleOperation, PricesAssumption DEF Due, PricesAssumption
<1>1. ASSUME NEW d \in Dues, NEW m \in Prices, recordSplitPayment(a, d, m)
      PROVE  OpsOK'
  <2> DEFINE I == Idle(dues[d].student)
             v == dues[d].version
             n == [I EXCEPT !.step = "REISSUE", !.decision = "ACCEPTED",
                            !.due = d, !.version = v, !.amount = m]
  <2>1. I \in Operation /\ d \in Nat /\ m \in Nat /\ v \in Nat
    BY <1>0
  <2>2. Goto(a, n) /\ UNCHANGED dues /\ m < dues[d].amount
    BY <1>1 DEF recordSplitPayment
  <2> HIDE DEF I, v
  <2>3. n \in Operation /\ n.step = "REISSUE" /\ n.due = d /\ n.amount = m
    BY <2>1 DEF Operation, Steps, ReviewStatus
  <2> HIDE DEF n
  <2> QED
    BY <2>2, <2>3, ReplaceBegins
<1>2. ASSUME NEW d \in Dues, NEW m \in Prices, replaceDueAmount(a, d, m)
      PROVE  OpsOK'
  <2> DEFINE I == Idle(dues[d].student)
             v == dues[d].version
             n == [I EXCEPT !.step = "REISSUE", !.due = d, !.version = v,
                            !.amount = m]
  <2>1. I \in Operation /\ d \in Nat /\ m \in Nat /\ v \in Nat
    BY <1>0
  <2>2. I.decision = "PENDING"
    BY DEF Idle
  <2>3. Goto(a, n) /\ UNCHANGED dues
    BY <1>2 DEF replaceDueAmount
  <2> HIDE DEF I, v
  <2>4. /\ n \in Operation /\ n.step = "REISSUE" /\ n.due = d /\ n.amount = m
        /\ n.decision = "PENDING"
    BY <2>1, <2>2 DEF Operation, Steps, ReviewStatus
  <2> HIDE DEF n
  <2> QED
    BY <2>3, <2>4, ReplaceBegins DEF Splits
<1>3. CASE ConfirmPortion(a)
  BY <1>3, OpEnds DEF ConfirmPortion
<1> QED
  BY <1>1, <1>2, <1>3, ReissueStep, VoidStep, PortionStep DEF Replace

\* No step breaks the invariant.
LEMMA InvStep == Inv /\ [Next]_vars => Inv'
<1> SUFFICES ASSUME Inv, [Next]_vars PROVE Inv'
  OBVIOUS
<1>1. RowsOK' /\ ReceiptsOK'
  BY Others, ReceiptsStep
<1>2. OpsOK'
  <2>1. CASE Direct
    BY <2>1, OpsStay DEF Direct, Create, recordPayment, reversePayment, voidDue,
                         submitPaymentReceipt
  <2>2. CASE UNCHANGED vars
    BY <2>2, OpsStay DEF vars
  <2>3. ASSUME NEW a \in Admins, Crash(a)
        PROVE  OpsOK'
    BY <2>3, OpEnds DEF Crash
  <2> QED
    BY <2>1, <2>2, <2>3, ReviewStep, SettleStep, ReplaceStep DEF Next
<1> QED
  BY <1>1, <1>2 DEF Inv

\* It holds of the empty tables.
LEMMA InvInit == Init => Inv
<1> SUFFICES ASSUME Init PROVE Inv
  OBVIOUS
<1>1. dues = <<>> /\ ledger = <<>> /\ receipts = <<>>
  BY DEF Init
<1>2. RowsOK /\ ReceiptsOK
  BY <1>1, BoundsAssumption DEF RowsOK, ReceiptsOK, Dues, BoundsAssumption
<1>3. OpsOK
  BY IdleOperation DEF Init, OpsOK
<1> QED
  BY <1>2, <1>3 DEF Inv

\* And so it holds in every reachable state.
LEMMA Always == Spec => []Inv
BY InvInit, InvStep, PTL DEF Spec

-----------------------------------------------------------------------------
(***************************************************************************)
(* The ledger.                                                             *)
(***************************************************************************)

\* A due's standing payments are one if it is paid, and none otherwise.
LEMMA PaymentsCounted ==
  ASSUME Inv, NEW d \in Dues
  PROVE  Cardinality(Standing(d)) = IF dues[d].status = "PAID" THEN 1 ELSE 0
<1>1. Collected(ledger[d], dues[d]) /\ Standing(d) = Payments(ledger[d])
  BY DEF Inv, RowsOK, Good, Standing, Payments
<1>2. CASE dues[d].status = "PAID"
  <2>1. PICK k : Standing(d) = {k}
    BY <1>1, <1>2 DEF Collected
  <2> QED
    BY <1>2, <2>1, FS_Singleton
<1>3. CASE dues[d].status # "PAID"
  BY <1>1, <1>3, FS_EmptySet DEF Collected
<1> QED
  BY <1>2, <1>3

\* In every state, in the middle of every operation and after every crash,
\* the status and the version of a due are what its ledger says, and exactly
\* the paid dues have a payment standing.
THEOREM LedgerAgrees == Spec => []LedgerInv
<1>1. Inv => LedgerInv
  <2> SUFFICES ASSUME Inv PROVE LedgerInv
    OBVIOUS
  <2>1. TypeOK
    BY DEF Inv, RowsOK, ReceiptsOK, OpsOK, TypeOK
  <2>2. LedgerExplainsDues
    BY DEF Inv, RowsOK, Good, Explains, LedgerExplainsDues, LedgerExplainsDue
  <2>3. OnePaymentStands
    BY PaymentsCounted DEF OnePaymentStands
  <2> QED
    BY <2>1, <2>2, <2>3 DEF LedgerInv
<1> QED
  BY <1>1, Always, PTL

\* A decision on a receipt, by a reviewer or by a settlement, is never
\* overturned.
THEOREM DecisionsStand == Spec => DecidedOnce
<1> DEFINE A == \A i \in 1 .. Len(receipts) :
       receipts[i].status # "PENDING" => receipts'[i] = receipts[i]
<1>1. Inv /\ [Next]_vars => [A]_vars
  BY ReceiptsStep
<1> QED
  BY <1>1, Always, PTL DEF Spec, DecidedOnce

-----------------------------------------------------------------------------
(***************************************************************************)
(* What an operation does with what it read.                               *)
(***************************************************************************)

\* An administrator's operation moves only by its own steps.
LEMMA OwnStep ==
  ASSUME Inv, [Next]_vars, NEW a \in Admins, op'[a] # op[a]
  PROVE  Review(a) \/ Settle(a) \/ Replace(a) \/ Crash(a)
<1>1. op \in [Admins -> Operation]
  BY DEF Inv, OpsOK
<1>2. ASSUME NEW b \in Admins, b # a, NEW o, Goto(b, o)
      PROVE  FALSE
  BY <1>1, <1>2 DEF Goto
<1>3. ASSUME NEW b \in Admins, b # a,
             Review(b) \/ Settle(b) \/ Replace(b) \/ Crash(b)
      PROVE  \E o : Goto(b, o)
  <2>1. CASE Review(b)
    BY <2>1 DEF Review, reviewPaymentReceipt, PayReviewed, ListUnpaid, Decide, Done
  <2>2. CASE Settle(b)
    BY <2>2 DEF Settle, markAllDuesPaid, SettleNext, Settled, ClearReceipts, Done
  <2>3. CASE Replace(b)
    BY <2>3 DEF Replace, recordSplitPayment, replaceDueAmount, Reissue,
                VoidReplaced, CreatePortion, ConfirmPortion, Done
  <2>4. CASE Crash(b)
    BY <2>4 DEF Crash, Done
  <2> QED
    BY <1>3, <2>1, <2>2, <2>3, <2>4
<1>4. ~Direct /\ ~UNCHANGED vars
  BY DEF Direct, Create, recordPayment, reversePayment, voidDue,
         submitPaymentReceipt, vars
<1> QED
  BY <1>2, <1>3, <1>4 DEF Next

\* A transition touches the ledger of its own due, and its status.
LEMMA OwnLedger ==
  ASSUME Inv, NEW d \in Dues, NEW type \in Transition, NEW ref \in Nat,
         dues[d].status = From(type), changeDue(d, type, ref)
  PROVE  /\ \A x \in Dues : ledger'[x] # ledger[x] => x = d
         /\ dues'[d].status = To(type)
         /\ \A x \in Dues \ {d} : dues'[x].status = dues[x].status
<1>1. dues[d] \in Due
  BY DEF Inv, RowsOK, Dues
<1>2. /\ dues'[d] = [dues[d] EXCEPT !.status = To(type), !.version = @ + 1]
      /\ \A x \in Dues \ {d} : dues'[x] = dues[x] /\ ledger'[x] = ledger[x]
  BY Changed DEF Inv
<1> QED
  BY <1>1, <1>2 DEF Due

\* The steps of an operation that leave every ledger alone, by what the
\* operation was about to do.
LEMMA AtItsStep ==
  ASSUME Inv, NEW a \in Admins, Review(a) \/ Settle(a) \/ Replace(a) \/ Crash(a)
  PROVE  /\ op[a].step = "PAY" => PayReviewed(a) \/ ledger' = ledger
         /\ op[a].step = "SETTLE" => SettleNext(a) \/ ledger' = ledger
         /\ op[a].step = "VOID" => VoidReplaced(a) \/ ledger' = ledger
         /\ op[a].step = "CONFIRM" => ConfirmPortion(a) \/ ledger' = ledger
<1>1. CASE Review(a)
  BY <1>1 DEF Review, reviewPaymentReceipt, PayReviewed, ListUnpaid, Decide
<1>2. CASE Settle(a)
  BY <1>2 DEF Settle, markAllDuesPaid, SettleNext, Settled, ClearReceipts
<1>3. CASE Replace(a)
  BY <1>3 DEF Replace, recordSplitPayment, replaceDueAmount, Reissue,
              VoidReplaced, CreatePortion, ConfirmPortion
<1>4. CASE Crash(a)
  BY <1>4 DEF Crash
<1> QED
  BY <1>1, <1>2, <1>3, <1>4

\* An operation pays or voids a due only as it was when the operation read it,
\* whatever other administrators did since.
THEOREM StaleReadsFail == Spec => ActsOnWhatItRead
<1> DEFINE A == \A a \in Admins : \A d \in Dues :
       LET o == op[a] IN
       /\ op'[a] # o
       /\ o.step \in {"PAY", "SETTLE", "VOID"}
       /\ ledger'[d] # ledger[d]
       => \/ d = o.due /\ o.step # "SETTLE" /\ dues[d].version = o.version
          \/ <<d, dues[d].version>> \in o.rest
<1>1. Inv /\ [Next]_vars => [A]_vars
  <2> SUFFICES ASSUME Inv, [Next]_vars, NEW a \in Admins, NEW d \in Dues,
                      op'[a] # op[a], op[a].step \in {"PAY", "SETTLE", "VOID"},
                      ledger'[d] # ledger[d]
               PROVE  \/ /\ d = op[a].due
                         /\ op[a].step # "SETTLE"
                         /\ dues[d].version = op[a].version
                      \/ <<d, dues[d].version>> \in op[a].rest
    OBVIOUS
  <2> DEFINE o == op[a]
  <2>0. /\ o \in Operation
        /\ Holds(o, dues, Len(receipts))
        /\ PayReviewed(a) \/ SettleNext(a) \/ VoidReplaced(a)
    BY OwnStep, AtItsStep, InHand
  <2>1. CASE PayReviewed(a)
    <3>1. /\ o.step = "PAY"
          /\ dues[o.due].version = o.version
          /\ dues[o.due].status = From("PAYMENT_RECORDED")
          /\ changeDue(o.due, "PAYMENT_RECORDED", o.receipt)
      BY <2>1 DEF PayReviewed, MayChange
    <3>2. o.due \in Dues /\ o.receipt \in Nat
      BY <2>0, <3>1 DEF Holds, Dues, Operation
    <3> QED
      BY <3>1, <3>2, OwnLedger DEF Transition
  <2>2. CASE SettleNext(a)
    <3>1. PICK p \in o.rest :
            /\ o.step = "SETTLE"
            /\ dues[p[1]].version = p[2]
            /\ dues[p[1]].status = From("PAYMENT_RECORDED")
            /\ changeDue(p[1], "PAYMENT_RECORDED", o.receipt)
      BY <2>2 DEF SettleNext, MayChange
    <3>2. p[1] \in Dues /\ o.receipt \in Nat /\ p \in Nat \X Nat
      BY <2>0, <3>1 DEF Holds, Dues, Operation
    <3>3. d = p[1]
      BY <3>1, <3>2, OwnLedger DEF Transition
    <3>4. p = <<d, dues[d].version>>
      BY <3>1, <3>2, <3>3
    <3> QED
      BY <3>4
  <2>3. CASE VoidReplaced(a)
    <3>1. /\ o.step = "VOID"
          /\ dues[o.due].version = o.version
          /\ dues[o.due].status = From("DUE_VOIDED")
          /\ changeDue(o.due, "DUE_VOIDED", 0)
      BY <2>3 DEF VoidReplaced, MayChange
    <3>2. o.due \in Dues
      BY <2>0, <3>1 DEF Holds, Dues
    <3> QED
      BY <3>1, <3>2, OwnLedger DEF Transition
  <2> QED
    BY <2>0, <2>1, <2>2, <2>3
<1> QED
  BY <1>1, Always, PTL DEF Spec, ActsOnWhatItRead

\* A step on the dues that leaves none void that was not.
LEMMA NoneVoided ==
  ASSUME Inv, NEW d \in Dues, dues'[d].status = "VOIDED", dues[d].status # "VOIDED",
         \/ UNCHANGED <<dues, ledger>>
         \/ \E s \in Students, amount \in Nat \ {0}, k \in Nat :
              createDue(s, amount, k)
         \/ \E x \in Dues, ref \in Nat :
              /\ dues[x].status = From("PAYMENT_RECORDED")
              /\ changeDue(x, "PAYMENT_RECORDED", ref)
  PROVE  FALSE
<1>1. ASSUME NEW s \in Students, NEW amount \in Nat \ {0}, NEW k \in Nat,
             createDue(s, amount, k)
      PROVE  FALSE
  BY <1>1, Created DEF Inv
<1>2. ASSUME NEW x \in Dues, NEW ref \in Nat,
             dues[x].status = From("PAYMENT_RECORDED"),
             changeDue(x, "PAYMENT_RECORDED", ref)
      PROVE  FALSE
  BY <1>2, OwnLedger, FromTo DEF Transition
<1> QED
  BY <1>1, <1>2

\* A due that an operation makes void has been replaced already: no failure in
\* between leaves a debt unbilled.
THEOREM ReplacedBeforeVoid == Spec => IssuedBeforeVoid
<1> DEFINE A == \A d \in Dues : \A a \in Admins :
       /\ dues[d].status # "VOIDED" /\ dues'[d].status = "VOIDED"
       /\ op'[a] # op[a]
       => \E n \in Dues : dues[n].replaces = d /\ op[a].made = <<n>>
<1>1. Inv /\ [Next]_vars => [A]_vars
  <2> SUFFICES ASSUME Inv, [Next]_vars, NEW d \in Dues, NEW a \in Admins,
                      dues[d].status # "VOIDED", dues'[d].status = "VOIDED",
                      op'[a] # op[a]
               PROVE  \E n \in Dues : dues[n].replaces = d /\ op[a].made = <<n>>
    OBVIOUS
  <2> DEFINE o == op[a]
  <2>0. /\ o \in Operation
        /\ Holds(o, dues, Len(receipts))
        /\ dues \in Seq(Due)
    BY InHand
  <2>1. CASE VoidReplaced(a)
    <3>1. /\ o.step = "VOID"
          /\ dues[o.due].status = From("DUE_VOIDED")
          /\ changeDue(o.due, "DUE_VOIDED", 0)
      BY <2>1 DEF VoidReplaced, MayChange
    <3>2. o.due \in Dues /\ \E n \in Dues : o.made = <<n>> /\ dues[n].replaces = o.due
      BY <2>0, <3>1 DEF Holds, Dues
    <3>3. d = o.due
      BY <3>1, <3>2, OwnLedger DEF Transition
    <3> QED
      BY <3>2, <3>3
  <2>2. CASE ~VoidReplaced(a)
    <3>1. \/ UNCHANGED <<dues, ledger>>
          \/ PayReviewed(a) \/ SettleNext(a)
          \/ Reissue(a) \/ CreatePortion(a) \/ ConfirmPortion(a)
      BY <2>2, OwnStep
      DEF Review, Settle, Replace, Crash, reviewPaymentReceipt, ListUnpaid,
          Decide, markAllDuesPaid, Settled, ClearReceipts, recordSplitPayment,
          replaceDueAmount
    <3>2. CASE PayReviewed(a)
      <4>1. o.due \in Dues /\ o.receipt \in Nat
        BY <2>0, <3>2 DEF PayReviewed, Holds, Dues, Operation
      <4> QED
        BY <3>2, <4>1, NoneVoided DEF PayReviewed, MayChange
    <3>3. CASE SettleNext(a)
      <4>1. PICK p \in o.rest :
              IF MayChange(p[1], p[2], "PAYMENT_RECORDED")
              THEN changeDue(p[1], "PAYMENT_RECORDED", o.receipt)
              ELSE UNCHANGED <<dues, ledger>>
        BY <3>3 DEF SettleNext
      <4>2. p[1] \in Dues /\ o.receipt \in Nat
        BY <2>0, <3>3 DEF SettleNext, Holds, Dues, Operation
      <4> QED
        BY <4>1, <4>2, NoneVoided DEF MayChange
    <3>4. CASE Reissue(a) \/ CreatePortion(a)
      <4>1. dues' = Append(dues, dues'[Len(dues) + 1]) \/ dues'[d] = dues[d]
        BY <2>0, <3>4 DEF Reissue, CreatePortion, createDue, Dues
      <4>2. dues'[d] = dues[d]
        BY <2>0, <3>4, <4>1 DEF Reissue, CreatePortion, createDue, Dues
      <4> QED
        BY <4>2
    <3>5. CASE ConfirmPortion(a)
      <4>1. o.made[2] \in Dues
        BY <2>0, <3>5 DEF ConfirmPortion, Holds, Dues
      <4> QED
        BY <3>5, <4>1, NoneVoided DEF ConfirmPortion, MayChange
    <3> QED
      BY <3>1, <3>2, <3>3, <3>4, <3>5
  <2> QED
    BY <2>1, <2>2
<1> QED
  BY <1>1, Always, PTL DEF Spec, IssuedBeforeVoid

\* What the three parts of a split leave behind: whoever else was at work, the
\* due that was split is void, the portion is paid, and nothing is lost.
THEOREM SplitAddsUp == Spec => SplitConserves
<1> DEFINE A == \A a \in Admins :
       LET o == op[a] IN
       /\ o.step = "CONFIRM" /\ op'[a] # o /\ ledger' # ledger
       => /\ dues'[o.due].status = "VOIDED"
          /\ dues'[o.made[2]].status = "PAID"
          /\ dues'[o.made[1]].amount + dues'[o.made[2]].amount
               = dues'[o.due].amount
<1>1. Inv /\ [Next]_vars => [A]_vars
  <2> SUFFICES ASSUME Inv, [Next]_vars, NEW a \in Admins,
                      op[a].step = "CONFIRM", op'[a] # op[a], ledger' # ledger
               PROVE  /\ dues'[op[a].due].status = "VOIDED"
                      /\ dues'[op[a].made[2]].status = "PAID"
                      /\ dues'[op[a].made[1]].amount + dues'[op[a].made[2]].amount
                           = dues'[op[a].due].amount
    OBVIOUS
  <2> DEFINE o == op[a]
  <2>1. ConfirmPortion(a)
    BY OwnStep, AtItsStep
  <2>2. /\ o.due \in Dues /\ dues[o.due].status = "VOIDED"
        /\ \E k, m \in Dues : /\ o.made = <<k, m>>
                              /\ dues[k].amount + dues[m].amount = dues[o.due].amount
    BY InHand DEF Holds, Dues
  <2>3. PICK k \in Dues, m \in Dues :
          /\ o.made = <<k, m>>
          /\ dues[k].amount + dues[m].amount = dues[o.due].amount
    BY <2>2
  <2>4. o.made[1] = k /\ o.made[2] = m
    BY <2>3
  <2>5. /\ dues[m].status = From("PAYMENT_RECORDED")
        /\ changeDue(m, "PAYMENT_RECORDED", 0)
    BY <2>1, <2>4 DEF ConfirmPortion, MayChange
  <2>6. dues'[m].status = "PAID"
    BY <2>5, OwnLedger, FromTo DEF Transition
  <2>7. \A d \in Dues : /\ dues'[d].amount = dues[d].amount
                        /\ dues[d].status = "VOIDED" => dues'[d].status = "VOIDED"
    BY Others DEF Kept, Dues
  <2> QED
    BY <2>2, <2>3, <2>4, <2>6, <2>7
<1> QED
  BY <1>1, Always, PTL DEF Spec, SplitConserves

-----------------------------------------------------------------------------
(***************************************************************************)
(* The abstract specification.                                             *)
(***************************************************************************)

\* The life of each due as DueLifecycle sees it.
StatusOf == [d \in 1 .. MaxDues |-> IF d \in Dues THEN dues[d].status ELSE "NONE"]

Counted ==
  [d \in 1 .. MaxDues |-> IF d \in Dues THEN Cardinality(Standing(d)) ELSE 0]

\* Whether a payment stands is told by the status.
CountedByStatus ==
  Counted = [d \in 1 .. MaxDues |-> IF StatusOf[d] = "PAID" THEN 1 ELSE 0]

\* Which it is, in every state of the invariant.
LEMMA Counts == Inv => CountedByStatus
<1> SUFFICES ASSUME Inv, NEW d \in 1 .. MaxDues
             PROVE  (IF d \in Dues THEN Cardinality(Standing(d)) ELSE 0)
                      = IF StatusOf[d] = "PAID" THEN 1 ELSE 0
  BY DEF Counted, CountedByStatus
<1> QED
  BY PaymentsCounted DEF StatusOf

\* A due goes from one status to another, and all others stay.
LEMMA LifeGoesOn ==
  ASSUME Inv, CountedByStatus', NEW d \in 1 .. MaxDues,
         NEW from, NEW to, from # to, StatusOf[d] = from,
         StatusOf' = [StatusOf EXCEPT ![d] = to],
         <<from, to>> \in {<<"NONE", "UNPAID">>, <<"UNPAID", "PAID">>,
                           <<"PAID", "UNPAID">>, <<"UNPAID", "VOIDED">>}
  PROVE  Lifecycle!Next
<1>1. /\ Counted = [x \in 1 .. MaxDues |-> IF StatusOf[x] = "PAID" THEN 1 ELSE 0]
      /\ Counted' = [x \in 1 .. MaxDues |-> IF StatusOf'[x] = "PAID" THEN 1 ELSE 0]
  BY Counts DEF CountedByStatus
<1>2. /\ StatusOf \in [1 .. MaxDues -> {StatusOf[x] : x \in 1 .. MaxDues}]
      /\ StatusOf'[d] = to
      /\ \A x \in 1 .. MaxDues : x # d => StatusOf'[x] = StatusOf[x]
  BY DEF StatusOf
<1>3. CASE from = "UNPAID" /\ to = "PAID"
  <2>1. Counted[d] = 0 /\ Counted' = [Counted EXCEPT ![d] = 1]
    BY <1>1, <1>2, <1>3
  <2>2. Counted' = [Counted EXCEPT ![d] = @ + 1]
    BY <2>1
  <2> QED
    BY <1>3, <2>2 DEF Lifecycle!Next, Lifecycle!RecordPayment, Lifecycle!Step,
                      StatusOf, Counted
<1>4. CASE from = "PAID" /\ to = "UNPAID"
  <2>1. Counted[d] = 1 /\ Counted' = [Counted EXCEPT ![d] = 0]
    BY <1>1, <1>2, <1>4
  <2>2. Counted' = [Counted EXCEPT ![d] = @ - 1]
    BY <2>1
  <2> QED
    BY <1>4, <2>2 DEF Lifecycle!Next, Lifecycle!ReversePayment, Lifecycle!Step,
                      StatusOf, Counted
<1>5. CASE from = "NONE" /\ to = "UNPAID"
  <2>1. Counted' = Counted
    BY <1>1, <1>2, <1>5
  <2> QED
    BY <1>5, <2>1 DEF Lifecycle!Next, Lifecycle!Issue, Lifecycle!Step,
                      StatusOf, Counted
<1>6. CASE from = "UNPAID" /\ to = "VOIDED"
  <2>1. Counted' = Counted
    BY <1>1, <1>2, <1>6
  <2> QED
    BY <1>6, <2>1 DEF Lifecycle!Next, Lifecycle!Void, Lifecycle!Step,
                      StatusOf, Counted
<1> QED
  BY <1>3, <1>4, <1>5, <1>6

\* A step on the tables is a step of that life, or none.
LEMMA LifeStep ==
  ASSUME Inv, Inv', CountedByStatus', [Next]_vars
  PROVE  [Lifecycle!Next]_Lifecycle!vars
<1> DEFINE n == Len(dues)
<1>0. /\ n \in Nat /\ n <= MaxDues /\ MaxDues \in Nat
      /\ Len(dues') <= MaxDues
  BY BoundsAssumption DEF Inv, RowsOK, BoundsAssumption
<1>1. CASE UNCHANGED <<dues, ledger>>
  BY <1>1 DEF Lifecycle!vars, Dues, Standing
<1>2. ASSUME NEW s \in Students, NEW amount \in Nat \ {0}, NEW k \in Nat,
             createDue(s, amount, k)
      PROVE  Lifecycle!Next
  <2>1. /\ Len(dues') = n + 1
        /\ dues'[n + 1].status = "UNPAID"
        /\ \A d \in 1 .. n : dues'[d].status = dues[d].status
    <3>1. /\ Len(dues') = n + 1
          /\ dues'[n + 1] = [student |-> s, amount |-> amount,
                             status |-> "UNPAID", version |-> 1, replaces |-> k]
          /\ \A d \in Dues : dues'[d] = dues[d]
      BY <1>2, Created DEF Inv
    <3> QED
      BY <3>1 DEF Dues
  <2>2. n + 1 \in 1 .. MaxDues
    BY <1>0, <2>1
  <2>3. /\ StatusOf[n + 1] = "NONE"
        /\ StatusOf' = [StatusOf EXCEPT ![n + 1] = "UNPAID"]
    <3> HIDE DEF n
    <3>1. ASSUME NEW x \in 1 .. MaxDues
          PROVE  (IF x \in 1 .. n + 1 THEN dues'[x].status ELSE "NONE")
                   = IF x = n + 1 THEN "UNPAID"
                     ELSE IF x \in 1 .. n THEN dues[x].status ELSE "NONE"
      BY <1>0, <2>1
    <3>2. StatusOf' = [x \in 1 .. MaxDues |->
                         IF x \in 1 .. n + 1 THEN dues'[x].status ELSE "NONE"]
      BY <2>1 DEF StatusOf, Dues
    <3>3. StatusOf = [x \in 1 .. MaxDues |->
                        IF x \in 1 .. n THEN dues[x].status ELSE "NONE"]
      BY DEF StatusOf, Dues, n
    <3>4. n + 1 \notin 1 .. n
      BY <1>0
    <3> QED
      BY <2>2, <3>1, <3>2, <3>3, <3>4
  <2> QED
    BY <2>2, <2>3, LifeGoesOn
<1>3. ASSUME NEW d \in Dues, NEW type \in Transition, NEW ref \in Nat,
             dues[d].status = From(type), changeDue(d, type, ref)
      PROVE  Lifecycle!Next
  <2>1. /\ Len(dues') = n
        /\ dues'[d].status = To(type)
        /\ \A x \in Dues \ {d} : dues'[x].status = dues[x].status
    BY <1>3, Changed, OwnLedger DEF Inv
  <2>2. d \in 1 .. MaxDues
    BY <1>0 DEF Dues
  <2>3. /\ StatusOf[d] = From(type)
        /\ StatusOf' = [StatusOf EXCEPT ![d] = To(type)]
    BY <1>0, <1>3, <2>1, <2>2 DEF StatusOf, Dues
  <2> QED
    BY <2>2, <2>3, LifeGoesOn, FromTo DEF Transition
<1> QED
  BY <1>1, <1>2, <1>3, DuesSteps DEF DuesStep

\* Finance implements DueLifecycle: no interleaving of operations, conflict or
\* crash shows from outside as anything but one of its four steps.
THEOREM LifecycleImplemented == Spec => ImplementsLifecycle
<1>1. Init => Lifecycle!Init
  BY DEF Init, Lifecycle!Init, Dues
<1>2. Inv /\ Inv' /\ CountedByStatus' /\ [Next]_vars
        => [Lifecycle!Next]_Lifecycle!vars
  BY LifeStep
<1> QED
  BY <1>1, <1>2, Always, Counts, PTL DEF Spec, ImplementsLifecycle, Lifecycle!Spec
=============================================================================
