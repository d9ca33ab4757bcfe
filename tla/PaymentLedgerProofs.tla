------------------------ MODULE PaymentLedgerProofs ------------------------
(***************************************************************************)
(* Theorems about PaymentLedger, for any number of requests, bills,        *)
(* invoices, contracts and tenants, and any amounts.                       *)
(***************************************************************************)
EXTENDS PaymentLedger, TLAPS

\* A request that has locked or inserted its payments row, and not committed.
Open == {"reading", "allocating", "syncing", "committing"}

Places == {"idle"} \union Underway \union Answers

\* What the place a request has reached says of what it carries.
Fits(place, x) ==
    /\ place = "locking" => x.body \in Verifies
    /\ place = "inserting" => x.body \in Webhooks
    /\ place \in Open => x.row \in Row /\ x.payment \in PaymentIds
    /\ place = "reading" => x.row.invoice # None
    /\ place = "syncing" => x.todo # <<>>

TypeInv == TypeOK /\ \A t \in Requests : Fits(pc[t], tx[t])

TransactionsTyped ==
    /\ pc \in [Requests -> Places]
    /\ tx \in [Requests -> Transaction]
    /\ \A t \in Requests : Fits(pc[t], tx[t])

-----------------------------------------------------------------------------
(* Lemmas about single requests.                                           *)

LEMMA ContinueTyped ==
    ASSUME TypeInv, NEW t \in Requests, NEW place \in Places, NEW x \in Transaction,
           Fits(place, x), Continue(t, place, x)
    PROVE  TransactionsTyped'
<1>1. pc' \in [Requests -> Places] /\ tx' \in [Requests -> Transaction]
  BY DEF TypeInv, TypeOK, Places, Continue
<1>2. ASSUME NEW u \in Requests PROVE Fits(pc[u], tx[u])'
  <2>1. CASE u = t
    <3>1. pc'[u] = place /\ tx'[u] = x
      BY <2>1 DEF TypeInv, TypeOK, Continue
    <3> QED BY <3>1 DEF Fits
  <2>2. CASE u # t
    <3>1. pc'[u] = pc[u] /\ tx'[u] = tx[u]
      BY <2>2 DEF TypeInv, TypeOK, Continue
    <3> QED BY <3>1 DEF Fits, TypeInv
  <2> QED BY <2>1, <2>2
<1> QED BY <1>1, <1>2 DEF TransactionsTyped

LEMMA ReleaseTyped ==
    ASSUME TypeInv, NEW t \in Requests
    PROVE  Release(t) \in Transaction
<1>1. Idle \in Transaction
  BY DEF Idle, Transaction, Bodies
<1>2. tx[t].body \in Bodies
  BY DEF TypeInv, TypeOK, Transaction
<1> QED BY <1>1, <1>2 DEF Release, Transaction

LEMMA AnswerTyped ==
    ASSUME TypeInv, NEW t \in Requests, NEW a \in Answers, Answer(t, a)
    PROVE  TransactionsTyped'
<1>1. Fits(a, Release(t)) /\ a \in Places
  BY DEF Fits, Answers, Open, Places
<1> QED BY <1>1, ReleaseTyped, ContinueTyped DEF Answer

\* What a request carries, spelled out.
LEMMA Carried ==
    ASSUME TypeInv, NEW t \in Requests
    PROVE  /\ tx[t] \in Transaction
           /\ tx[t].own \in [Invoices -> Nat]
           /\ tx[t].wrote \in [Invoices -> InvoiceStatuses \union {None}]
           /\ tx[t].todo \in Seq(Allocation)
           /\ tx[t].seen \in Nat /\ tx[t].spent \in Nat /\ tx[t].balance \in Nat
           /\ tx[t].stamp \in Nat /\ tx[t].now \in Nat
           /\ Fits(pc[t], tx[t])
BY DEF TypeInv, TypeOK, Transaction

LEMMA NextAllocationTyped ==
    ASSUME TypeInv, NEW t \in Requests, tx[t].todo # <<>>
    PROVE  /\ NextAllocation(t).invoice \in Invoices
           /\ NextAllocation(t).amount \in Nat
           /\ Tail(tx[t].todo) \in Seq(Allocation)
<1>1. tx[t].todo \in Seq(Allocation)
  BY Carried
<1>2. Head(tx[t].todo) \in Allocation /\ Tail(tx[t].todo) \in Seq(Allocation)
  BY <1>1
<1> QED BY <1>2 DEF NextAllocation, Allocation

LEMMA StatusTyped ==
    ASSUME TypeInv, NEW t \in Requests, NEW i \in Invoices, NEW sum \in Nat
    PROVE  /\ StatusFor(sum, i) \in InvoiceStatuses
           /\ VisibleStatus(t, i) \in InvoiceStatuses
<1>1. StatusFor(sum, i) \in InvoiceStatuses
  BY DEF StatusFor, InvoiceStatuses
<1>2. VisibleStatus(t, i) \in InvoiceStatuses
  BY Carried DEF VisibleStatus, TypeInv, TypeOK
<1> QED BY <1>1, <1>2

-----------------------------------------------------------------------------
(* Each action keeps the types.                                            *)

LEMMA BillRowTyped ==
    ASSUME NEW c \in Contracts, NEW m \in Nat
    PROVE  BillRow([contract |-> c, month |-> m]) \in Row
BY TablesAssumption DEF BillRow, Row, PaymentStatuses

LEMMA InitTyped == Init => TypeInv
<1> SUFFICES ASSUME Init PROVE TypeInv
  OBVIOUS
<1>1. Idle \in Transaction
  BY DEF Idle, Transaction, Bodies
<1>2. payments \in [PaymentIds -> Row \union {None}]
  <2> SUFFICES ASSUME NEW b \in Bills
               PROVE [BillRow([contract |-> ContractOf[b], month |-> BillMonth[b]])
                        EXCEPT !.invoice = InvoiceOf[b]] \in Row
    BY DEF Init, PaymentIds
  <2>1. BillRow([contract |-> ContractOf[b], month |-> BillMonth[b]]) \in Row
    BY BillRowTyped, TablesAssumption
  <2> QED BY <2>1, TablesAssumption DEF Row
<1>3. TypeOK
  BY <1>1, <1>2, TablesAssumption DEF Init, TypeOK, InvoiceStatuses
<1>4. \A t \in Requests : Fits(pc[t], tx[t])
  BY DEF Init, Fits, Open
<1> QED BY <1>3, <1>4 DEF TypeInv

LEMMA CreateBillTyped ==
    ASSUME TypeInv, NEW t \in Requests, CreateBill(t)
    PROVE  TypeInv'
<1>1. PICK b \in NewBills :
        \/ payments' = [payments EXCEPT ![t] = BillRow(b)] /\ Answer(t, "ok")
        \/ payments' = payments /\ Answer(t, "conflict")
  BY DEF CreateBill
<1>2. TransactionsTyped'
  BY <1>1, AnswerTyped DEF Answers
<1>3. payments' \in [PaymentIds -> Row \union {None}]
  <2>1. b.contract \in Contracts /\ b.month \in Nat
    BY BodiesAssumption
  <2>2. BillRow(b) \in Row
    BY <2>1, TablesAssumption DEF BillRow, Row, PaymentStatuses
  <2> QED BY <1>1, <2>2 DEF TypeInv, TypeOK, PaymentIds
<1> QED BY <1>2, <1>3 DEF CreateBill, TypeInv, TypeOK, TransactionsTyped, Places

LEMMA SubmitProofTyped ==
    ASSUME TypeInv, NEW t \in Requests, SubmitProof(t)
    PROVE  TypeInv'
<1>1. PICK b \in Proofs :
        \/ /\ payments[b.payment] # None
           /\ payments' = [payments EXCEPT ![b.payment].status = "pending",
                                           ![b.payment].paid = b.amount]
           /\ proofs' = proofs \union {[payment |-> b.payment, by |-> t, amount |-> b.amount]}
           /\ outbox' = outbox \union {[event |-> "payment_proof_submitted",
                                        payment |-> b.payment, by |-> t]}
           /\ Answer(t, "ok")
        \/ UNCHANGED <<payments, proofs, outbox>> /\ Answer(t, "notfound")
  BY DEF SubmitProof
<1>2. TransactionsTyped'
  BY <1>1, AnswerTyped DEF Answers
<1>3. b.payment \in PaymentIds /\ b.amount \in Nat
  BY BodiesAssumption
<1>4. payments' \in [PaymentIds -> Row \union {None}]
  <2>1. CASE payments[b.payment] # None
    <3>1. payments[b.payment] \in Row
      BY <2>1, <1>3 DEF TypeInv, TypeOK
    <3>2. [payments[b.payment] EXCEPT !.status = "pending", !.paid = b.amount] \in Row
      BY <3>1, <1>3 DEF Row, PaymentStatuses
    <3> QED BY <1>1, <1>3, <3>1, <3>2 DEF TypeInv, TypeOK
  <2>2. CASE payments[b.payment] = None
    BY <1>1, <2>2 DEF TypeInv, TypeOK
  <2> QED BY <2>1, <2>2
<1>5. /\ proofs' \subseteq [payment : PaymentIds, by : Requests, amount : Nat]
      /\ \A e \in outbox' : e.payment \in PaymentIds /\ e.by \in Requests
  BY <1>1, <1>3 DEF TypeInv, TypeOK
<1> QED BY <1>2, <1>4, <1>5 DEF SubmitProof, TypeInv, TypeOK, TransactionsTyped, Places

\* For the actions that leave every table, the clock and the month as they are.
LEMMA TablesStay ==
    ASSUME TypeInv, UNCHANGED <<tables, clock, month>>, TransactionsTyped'
    PROVE  TypeInv'
BY DEF TypeInv, TypeOK, TransactionsTyped, Places, tables

LEMMA AllocationsTyped ==
    ASSUME TypeInv, NEW t \in Requests,
           SkipAllocation(t) \/ InsertAllocation(t) \/ SyncStatus(t)
    PROVE  TypeInv'
<1> DEFINE i == NextAllocation(t).invoice
           amount == NextAllocation(t).amount
           rest == Tail(tx[t].todo)
<1>1. /\ tx[t].todo # <<>> /\ i \in Invoices /\ amount \in Nat
      /\ rest \in Seq(Allocation)
  BY Carried, NextAllocationTyped DEF Fits, SkipAllocation, InsertAllocation, SyncStatus
<1>2. pc[t] \in Open /\ tx[t].row \in Row /\ tx[t].payment \in PaymentIds
  BY Carried DEF Fits, Open, SkipAllocation, InsertAllocation, SyncStatus
<1>3. CASE SkipAllocation(t)
  <2> DEFINE x == [tx[t] EXCEPT !.todo = rest]
  <2>1. x \in Transaction /\ Fits("allocating", x) /\ Continue(t, "allocating", x)
    BY <1>1, <1>2, <1>3, Carried DEF SkipAllocation, Transaction, Fits
  <2> QED BY <2>1, <1>3, ContinueTyped, TablesStay DEF SkipAllocation, Places, Underway
<1>4. CASE InsertAllocation(t)
  <2> DEFINE x == [tx[t] EXCEPT !.own[i] = @ + amount, !.spent = @ + amount,
                                !.seen = allocated[i] + tx[t].own[i] + amount]
  <2>1. allocated[i] \in Nat /\ tx[t].own[i] \in Nat /\ tx[t].spent \in Nat
    BY <1>1, Carried DEF TypeInv, TypeOK
  <2>2. [tx[t].own EXCEPT ![i] = @ + amount] \in [Invoices -> Nat]
    BY <1>1, Carried
  <2>3. x \in Transaction /\ Fits("syncing", x)
    <3> DEFINE own == [tx[t].own EXCEPT ![i] = @ + amount]
               spent == tx[t].spent + amount
               seen == allocated[i] + tx[t].own[i] + amount
    <3>1. own \in [Invoices -> Nat]
      BY <2>2
    <3>2. spent \in Nat /\ seen \in Nat
      <4> HIDE DEF i, amount
      <4> QED BY <1>1, <2>1
    <3>3. x = [tx[t] EXCEPT !.own = own, !.spent = spent, !.seen = seen]
      BY Carried DEF Transaction
    <3>4. x \in Transaction /\ x.row = tx[t].row /\ x.payment = tx[t].payment
                            /\ x.todo = tx[t].todo
      <4>1. tx[t] \in Transaction
        BY Carried
      <4> HIDE DEF own, spent, seen, x
      <4> QED BY <3>1, <3>2, <3>3, <4>1 DEF Transaction
    <3> QED BY <1>1, <1>2, <3>4 DEF Fits
  <2>4. Continue(t, "syncing", x)
    BY <1>4 DEF InsertAllocation
  <2> QED BY <2>3, <2>4, <1>4, ContinueTyped, TablesStay DEF InsertAllocation, Places, Underway
<1>5. CASE SyncStatus(t)
  <2> DEFINE s == StatusFor(tx[t].seen, i)
             w == [tx[t].wrote EXCEPT ![i] = IF VisibleStatus(t, i) = s THEN @ ELSE s]
             x == [tx[t] EXCEPT !.wrote[i] = IF VisibleStatus(t, i) = s THEN @ ELSE s,
                                !.todo = rest, !.seen = 0]
  <2>1. s \in InvoiceStatuses
    BY <1>1, Carried, StatusTyped
  <2>2. w \in [Invoices -> InvoiceStatuses \union {None}]
    BY <1>1, <2>1, Carried
  <2>3. x \in Transaction /\ Fits("allocating", x)
    <3>1. tx[t] \in Transaction /\ x = [tx[t] EXCEPT !.wrote = w, !.todo = rest, !.seen = 0]
      BY Carried DEF Transaction
    <3> HIDE DEF w, rest, x
    <3>2. x \in Transaction /\ x.row = tx[t].row /\ x.payment = tx[t].payment
      BY <1>1, <2>2, <3>1 DEF Transaction
    <3> QED BY <1>2, <3>2 DEF Fits
  <2>4. Continue(t, "allocating", x)
    BY <1>5 DEF SyncStatus
  <2> QED BY <2>3, <2>4, <1>5, ContinueTyped, TablesStay DEF SyncStatus, Places, Underway
<1> QED BY <1>3, <1>4, <1>5

LEMMA ReadCreditTyped ==
    ASSUME TypeInv, NEW t \in Requests, ReadCredit(t)
    PROVE  TypeInv'
<1>1. tx[t].row \in Row /\ tx[t].payment \in PaymentIds
  BY Carried DEF Fits, Open, ReadCredit
<1>2. PICK balance \in Nat : Continue(t, "committing", [tx[t] EXCEPT !.balance = balance])
  <2>1. CASE Continue(t, "committing", tx[t])
    <3>1. tx[t] = [tx[t] EXCEPT !.balance = tx[t].balance]
      BY Carried DEF Transaction
    <3> QED BY <2>1, <3>1, Carried
  <2>2. CASE \E c \in credits : Continue(t, "committing", [tx[t] EXCEPT !.balance = c.balance])
    BY <2>2 DEF TypeInv, TypeOK
  <2> QED BY <2>1, <2>2 DEF ReadCredit
<1>3. /\ [tx[t] EXCEPT !.balance = balance] \in Transaction
      /\ Fits("committing", [tx[t] EXCEPT !.balance = balance])
  BY <1>1, <1>2, Carried DEF Transaction, Fits
<1> QED BY <1>2, <1>3, ContinueTyped, TablesStay DEF ReadCredit, Places, Underway

LEMMA CommitTyped ==
    ASSUME TypeInv, NEW t \in Requests, Commit(t)
    PROVE  TypeInv'
<1>1. tx[t].row \in Row /\ tx[t].payment \in PaymentIds
  BY Carried DEF Fits, Open, Commit
<1>2. tx[t].row.paid \in Nat /\ tx[t].row.tenant \in Tenants \union {None}
  BY <1>1 DEF Row
<1>3. TransactionsTyped'
  BY AnswerTyped DEF Commit, Answers
<1>4. /\ payments' \in [PaymentIds -> Row \union {None}]
      /\ allocated' \in [Invoices -> Nat]
  BY <1>1, Carried DEF Commit, TypeInv, TypeOK
<1>5. invoiceStatus' \in [Invoices -> InvoiceStatuses]
  BY StatusTyped DEF Commit
<1>6. credits' \subseteq [tenant : Tenants, amount : Nat, balance : Nat, stamp : Nat]
  <2>1. CASE CreditDue(t)
    <3>1. tx[t].row.paid - tx[t].spent \in Nat /\ tx[t].row.tenant \in Tenants
      BY <1>2, <2>1, Carried DEF CreditDue
    <3> QED BY <2>1, <3>1, Carried DEF Commit, NewCredit, TypeInv, TypeOK
  <2>2. CASE ~CreditDue(t)
    BY <2>2 DEF Commit, NewCredit, TypeInv, TypeOK
  <2> QED BY <2>1, <2>2
<1>7. receipts' \subseteq [payment : PaymentIds, month : Nat, total : Nat, by : Requests]
  <2>1. [payment |-> tx[t].payment, month |-> tx[t].now, total |-> tx[t].row.paid, by |-> t]
          \in [payment : PaymentIds, month : Nat, total : Nat, by : Requests]
    BY <1>1, <1>2, Carried
  <2> QED BY <2>1 DEF Commit, NewReceipt, TypeInv, TypeOK
<1>8. \A e \in outbox' : e.payment \in PaymentIds /\ e.by \in Requests
  BY <1>1 DEF Commit, TypeInv, TypeOK
<1> QED BY <1>3, <1>4, <1>5, <1>6, <1>7, <1>8
        DEF Commit, TypeInv, TypeOK, TransactionsTyped, Places

LEMMA BeginVerifyTyped ==
    ASSUME TypeInv, NEW t \in Requests, BeginVerify(t)
    PROVE  TypeInv'
<1>1. PICK b \in Verifies : Continue(t, "locking", [tx[t] EXCEPT !.body = b, !.stamp = clock + 1])
  BY DEF BeginVerify
<1>2. clock + 1 \in Nat /\ clock' = clock + 1
  BY DEF BeginVerify, TypeInv, TypeOK
<1>3. /\ [tx[t] EXCEPT !.body = b, !.stamp = clock + 1] \in Transaction
      /\ Fits("locking", [tx[t] EXCEPT !.body = b, !.stamp = clock + 1])
  BY <1>2, Carried DEF Transaction, Fits, Bodies, Open
<1>4. TransactionsTyped'
  BY <1>1, <1>3, ContinueTyped DEF Places, Underway
<1> QED BY <1>2, <1>4 DEF BeginVerify, TypeInv, TypeOK, TransactionsTyped, Places, tables

LEMMA CheckRefTyped ==
    ASSUME TypeInv, NEW t \in Requests, CheckRef(t)
    PROVE  TypeInv'
<1>1. PICK b \in Webhooks, place \in {"duplicate", "inserting"} :
          Continue(t, place, [tx[t] EXCEPT !.body = b])
  BY DEF CheckRef
<1>2. /\ [tx[t] EXCEPT !.body = b] \in Transaction
      /\ Fits(place, [tx[t] EXCEPT !.body = b])
  BY Carried DEF Transaction, Fits, Bodies, Open
<1>3. TransactionsTyped'
  BY <1>1, <1>2, ContinueTyped DEF Places, Underway, Answers
<1> QED BY <1>3, TablesStay DEF CheckRef

\* The row a request works on next, and what it will allocate.
LEMMA RowHeld ==
    ASSUME TypeInv, NEW t \in Requests, NEW p \in PaymentIds, NEW row \in Row,
           NEW todo \in Seq(Allocation), NEW place \in {"reading", "allocating"},
           place = "reading" => row.invoice # None,
           Continue(t, place, [tx[t] EXCEPT !.payment = p, !.row = row, !.now = month, !.todo = todo])
    PROVE  TransactionsTyped'
<1> DEFINE x == [tx[t] EXCEPT !.payment = p, !.row = row, !.now = month, !.todo = todo]
<1>1. month \in Nat
  BY TablesAssumption DEF TypeInv, TypeOK
<1>2. x \in Transaction
  BY <1>1, Carried DEF Transaction
<1>3. x.row = row /\ x.payment = p
  BY Carried DEF Transaction
<1>4. Fits(place, x)
  <2> HIDE DEF x
  <2> QED BY <1>3 DEF Fits
<1> QED BY <1>2, <1>4, ContinueTyped DEF Places, Underway

LEMMA LockPaymentTyped ==
    ASSUME TypeInv, NEW t \in Requests, LockPayment(t)
    PROVE  TypeInv'
<1> DEFINE b == tx[t].body
           row == [payments[b.payment] EXCEPT !.status = b.status, !.paid = VerifiedAmount(b)]
           place == IF b.allocations = <<>> /\ row.invoice # None THEN "reading" ELSE "allocating"
<1>1. b \in Verification
  BY Carried, BodiesAssumption DEF LockPayment, Fits
<1>2. /\ b.payment \in PaymentIds /\ b.amount \in Nat /\ b.allocations \in Seq(Allocation)
      /\ b.status \in {"paid", "partial", "rejected"}
  BY <1>1 DEF Verification
<1>3. payments[b.payment] \in Row
  BY <1>2 DEF LockPayment, TypeInv, TypeOK
<1>4. VerifiedAmount(b) \in Nat
  BY <1>2, <1>3 DEF VerifiedAmount, Row
<1>5. row \in Row
  <2> HIDE DEF b
  <2> QED BY <1>2, <1>3, <1>4 DEF Row, PaymentStatuses
<1>6. Continue(t, place, [tx[t] EXCEPT !.payment = b.payment, !.row = row, !.now = month,
                                       !.todo = b.allocations])
  BY DEF LockPayment
<1>7. place \in {"reading", "allocating"} /\ (place = "reading" => row.invoice # None)
  OBVIOUS
<1>8. TransactionsTyped'
  <2> HIDE DEF b, row, place
  <2> QED BY <1>2, <1>5, <1>6, <1>7, RowHeld
<1> QED BY <1>8, TablesStay DEF LockPayment

LEMMA RejectTyped ==
    ASSUME TypeInv, NEW t \in Requests, Reject(t)
    PROVE  TypeInv'
<1> DEFINE p == tx[t].body.payment
<1>1. p \in PaymentIds
  BY Carried, BodiesAssumption DEF Reject, Fits, Verification
<1>2. payments[p] \in Row
  BY <1>1 DEF Reject, TypeInv, TypeOK
<1>3. payments' \in [PaymentIds -> Row \union {None}]
  <2>1. [payments[p] EXCEPT !.status = "rejected"] \in Row
    BY <1>2 DEF Row, PaymentStatuses
  <2>2. payments' = [payments EXCEPT ![p] = [payments[p] EXCEPT !.status = "rejected"]]
    BY DEF Reject
  <2> QED BY <1>1, <2>1, <2>2 DEF TypeInv, TypeOK
<1>4. TransactionsTyped'
  BY AnswerTyped DEF Reject, Answers
<1>5. \A e \in outbox' : e.payment \in PaymentIds /\ e.by \in Requests
  BY <1>1 DEF Reject, TypeInv, TypeOK
<1> QED BY <1>3, <1>4, <1>5 DEF Reject, TypeInv, TypeOK, TransactionsTyped, Places

LEMMA ReadOutstandingTyped ==
    ASSUME TypeInv, NEW t \in Requests, ReadOutstanding(t)
    PROVE  TypeInv'
<1> DEFINE i == tx[t].row.invoice
           paid == tx[t].row.paid
           amount == DefaultAmount(paid, i)
           todo == IF amount > 0 THEN <<[invoice |-> i, amount |-> amount]>> ELSE <<>>
           x == [tx[t] EXCEPT !.todo = todo]
<1>1. tx[t].row \in Row /\ tx[t].payment \in PaymentIds /\ i # None
  BY Carried DEF ReadOutstanding, Fits, Open
<1>2. i \in Invoices /\ paid \in Nat
  BY <1>1 DEF Row
<1>3. amount \in Nat
  BY <1>2, TablesAssumption DEF DefaultAmount, TypeInv, TypeOK
<1>4. todo \in Seq(Allocation)
  <2> HIDE DEF i, amount
  <2>1. [invoice |-> i, amount |-> amount] \in Allocation
    BY <1>2, <1>3 DEF Allocation
  <2> QED BY <2>1
<1>5. x \in Transaction /\ x.row = tx[t].row /\ x.payment = tx[t].payment
  <2> HIDE DEF todo
  <2> QED BY <1>4, Carried DEF Transaction
<1>6. Continue(t, "allocating", x)
  BY DEF ReadOutstanding
<1>7. TransactionsTyped'
  <2> HIDE DEF x
  <2> QED BY <1>1, <1>5, <1>6, ContinueTyped DEF Fits, Places, Underway
<1> QED BY <1>7, TablesStay DEF ReadOutstanding

LEMMA WebhookRowTyped ==
    ASSUME TypeInv, NEW b \in Notice, HasTarget(b)
    PROVE  WebhookRow(b) \in Row /\ WebhookAllocations(b) \in Seq(Allocation)
<1>1. /\ b.ref \in Refs /\ b.amount \in Nat /\ b.invoice \in Invoices \union {None}
      /\ b.contract \in Contracts \union {None} /\ month \in Nat
  BY TablesAssumption DEF Notice, TypeInv, TypeOK
<1>2. WebhookAllocations(b) \in Seq(Allocation)
  <2>1. CASE b.invoice = None
    BY <2>1 DEF WebhookAllocations
  <2>2. CASE b.invoice \in Invoices
    <3>1. [invoice |-> b.invoice, amount |-> b.amount] \in Allocation
      BY <1>1, <2>2 DEF Allocation
    <3> QED BY <3>1, <2>2, NoneAssumption DEF WebhookAllocations
  <2> QED BY <1>1, <2>1, <2>2
<1>3. WebhookRow(b) \in Row
  <2>1. CASE b.invoice = None
    BY <1>1, <2>1 DEF WebhookRow, HasTarget, Row, PaymentStatuses
  <2>2. CASE b.invoice # None
    <3>1. ContractOf[b.invoice] \in Contracts /\ TenantOf[ContractOf[b.invoice]] \in Tenants
      BY <1>1, <2>2, TablesAssumption
    <3> QED BY <1>1, <2>2, <3>1 DEF WebhookRow, Row, PaymentStatuses
  <2> QED BY <2>1, <2>2
<1> QED BY <1>2, <1>3

LEMMA WebhookInsertTyped ==
    ASSUME TypeInv, NEW t \in Requests, WebhookInsert(t)
    PROVE  TypeInv'
<1> DEFINE b == tx[t].body
           row == WebhookRow(b)
           todo == WebhookAllocations(b)
<1>1. b \in Notice /\ HasTarget(b)
  BY Carried, BodiesAssumption DEF WebhookInsert, Fits
<1>2. row \in Row /\ todo \in Seq(Allocation)
  BY <1>1, WebhookRowTyped
<1>3. Continue(t, "allocating", [tx[t] EXCEPT !.payment = t, !.row = row, !.now = month,
                                              !.todo = todo])
  BY DEF WebhookInsert
<1>4. TransactionsTyped'
  <2> HIDE DEF row, todo
  <2> QED BY <1>2, <1>3, RowHeld DEF PaymentIds
<1> QED BY <1>4, TablesStay DEF WebhookInsert

LEMMA AnsweredTyped ==
    ASSUME TypeInv, NEW t \in Requests,
           PaymentNotFound(t) \/ WebhookRefused(t) \/ Abort(t)
    PROVE  TypeInv'
<1>1. PICK a \in Answers : Answer(t, a)
  BY DEF PaymentNotFound, WebhookRefused, Abort, Answers
<1> QED BY <1>1, AnswerTyped, TablesStay DEF PaymentNotFound, WebhookRefused, Abort

LEMMA NextMonthTyped == TypeInv /\ NextMonth => TypeInv'
BY TablesAssumption DEF NextMonth, TypeInv, TypeOK, tables, Fits

LEMMA StutterTyped == TypeInv /\ UNCHANGED vars => TypeInv'
BY DEF TypeInv, TypeOK, vars, tables, Fits

LEMMA StepTyped == TypeInv /\ [Next]_vars => TypeInv'
<1> SUFFICES ASSUME TypeInv, [Next]_vars PROVE TypeInv'
  OBVIOUS
<1>1. ASSUME NEW t \in Requests, Receive(t) PROVE TypeInv'
  BY <1>1, CreateBillTyped, SubmitProofTyped, BeginVerifyTyped, CheckRefTyped DEF Receive
<1>2. ASSUME NEW t \in Requests, Serve(t) PROVE TypeInv'
  BY <1>2, LockPaymentTyped, RejectTyped, AnsweredTyped, ReadOutstandingTyped,
     WebhookInsertTyped, AllocationsTyped, ReadCreditTyped, CommitTyped DEF Serve
<1>3. ASSUME NEW t \in Requests, Abort(t) PROVE TypeInv'
  BY <1>3, AnsweredTyped
<1> QED BY <1>1, <1>2, <1>3, NextMonthTyped, StutterTyped DEF Next

\* The tables and the transactions of the payment endpoints keep their types:
\* no interleaving of verifiers, payers, provider deliveries and failures makes
\* an amount, a balance or a sum negative or leaves a request without the row
\* it works on.
THEOREM TypeCorrect == Spec => []TypeOK
<1>1. TypeInv => TypeOK
  BY DEF TypeInv
<1> QED BY <1>1, InitTyped, StepTyped, PTL DEF Spec

-----------------------------------------------------------------------------
(* An invoice that reads "paid" is covered.                                *)
(*                                                                         *)
(* PaidIsCovered is not inductive: a status is decided from a sum read in  *)
(* an earlier step, and is committed in a later one.  What carries it over *)
(* is that committed sums only grow.  So the sum a trigger has read is at  *)
(* most what is committed plus what the request adds (Promised), and the   *)
(* status it wrote is covered by the same two (Backed).                    *)

Promised(t) ==
    pc[t] = "syncing" =>
        tx[t].seen <= allocated[NextAllocation(t).invoice] + tx[t].own[NextAllocation(t).invoice]

Backed(t) ==
    \A i \in Invoices :
        tx[t].wrote[i] = "paid" => allocated[i] + tx[t].own[i] >= TotalOf[i]

CoverInv ==
    /\ TypeInv
    /\ PaidIsCovered
    /\ \A t \in Requests : Promised(t) /\ Backed(t)

LEMMA InvoiceNumbers ==
    ASSUME TypeInv, NEW t \in Requests, NEW i \in Invoices
    PROVE  /\ allocated[i] \in Nat /\ tx[t].own[i] \in Nat /\ TotalOf[i] \in Nat
           /\ tx[t].wrote[i] \in InvoiceStatuses \union {None}
BY Carried, TablesAssumption DEF TypeInv, TypeOK

\* A step of t that commits nothing leaves the other requests as they were.
LEMMA OthersCovered ==
    ASSUME CoverInv, NEW t \in Requests, NEW place, NEW x, Continue(t, place, x),
           UNCHANGED allocated, NEW u \in Requests, u # t
    PROVE  Promised(u)' /\ Backed(u)'
<1>1. pc'[u] = pc[u] /\ tx'[u] = tx[u]
  BY DEF CoverInv, TypeInv, TypeOK, Continue
<1> QED BY <1>1 DEF CoverInv, Promised, Backed, NextAllocation

\* Most steps of a request neither commit nor touch what it allocated and wrote.
LEMMA CarriedOn ==
    ASSUME CoverInv, UNCHANGED <<allocated, invoiceStatus>>, NEW t \in Requests,
           NEW place, NEW x, Continue(t, place, x), place # "syncing",
           x.own = tx[t].own, x.wrote = tx[t].wrote
    PROVE  PaidIsCovered' /\ \A u \in Requests : Promised(u)' /\ Backed(u)'
<1>1. PaidIsCovered'
  BY DEF CoverInv, PaidIsCovered
<1>2. pc'[t] = place /\ tx'[t] = x
  BY DEF CoverInv, TypeInv, TypeOK, Continue
<1>3. Promised(t)' /\ Backed(t)'
  BY <1>2 DEF CoverInv, Promised, Backed
<1> QED BY <1>1, <1>3, OthersCovered

\* A request that has been answered holds nothing.
LEMMA AnsweredCovered ==
    ASSUME CoverInv, UNCHANGED <<allocated, invoiceStatus>>, NEW t \in Requests,
           NEW a \in Answers, Answer(t, a)
    PROVE  PaidIsCovered' /\ \A u \in Requests : Promised(u)' /\ Backed(u)'
<1>1. PaidIsCovered'
  BY DEF CoverInv, PaidIsCovered
<1>2. pc'[t] = a /\ tx'[t] = Release(t)
  BY DEF CoverInv, TypeInv, TypeOK, Answer, Continue
<1>3. Promised(t)'
  BY <1>2 DEF Promised, Answers
<1>4. Backed(t)'
  <2>1. \A i \in Invoices : Release(t).wrote[i] = None
    BY DEF Release, Idle
  <2> QED BY <1>2, <2>1, NoneAssumption DEF Backed, InvoiceStatuses
<1> QED BY <1>1, <1>3, <1>4, OthersCovered DEF Answer

LEMMA InsertAllocationCovered ==
    ASSUME CoverInv, NEW t \in Requests, InsertAllocation(t)
    PROVE  PaidIsCovered' /\ \A u \in Requests : Promised(u)' /\ Backed(u)'
<1> DEFINE i == NextAllocation(t).invoice
           amount == NextAllocation(t).amount
           x == [tx[t] EXCEPT !.own[i] = @ + amount, !.spent = @ + amount,
                              !.seen = allocated[i] + tx[t].own[i] + amount]
<1>1. Continue(t, "syncing", x) /\ allocated' = allocated /\ invoiceStatus' = invoiceStatus
  BY DEF InsertAllocation, tables
<1>2. PaidIsCovered'
  BY <1>1 DEF CoverInv, PaidIsCovered
<1>3. i \in Invoices /\ amount \in Nat
  BY NextAllocationTyped DEF CoverInv, InsertAllocation
<1>4. pc'[t] = "syncing" /\ tx'[t] = x
  BY <1>1 DEF CoverInv, TypeInv, TypeOK, Continue
<1>5. /\ x.own = [tx[t].own EXCEPT ![i] = @ + amount]
      /\ x.seen = allocated[i] + tx[t].own[i] + amount
      /\ x.wrote = tx[t].wrote /\ x.todo = tx[t].todo
  BY Carried DEF CoverInv, Transaction
<1>6. \A j \in Invoices : x.own[j] = IF j = i THEN tx[t].own[i] + amount ELSE tx[t].own[j]
  BY <1>3, <1>5, Carried DEF CoverInv
<1>7. Promised(t)'
  <2>1. NextAllocation(t)' = NextAllocation(t)
    BY <1>4, <1>5 DEF NextAllocation
  <2>2. x.seen <= allocated[i] + x.own[i]
    <3> HIDE DEF i, amount, x
    <3> QED BY <1>3, <1>5, <1>6, InvoiceNumbers DEF CoverInv
  <2> QED BY <1>1, <1>4, <2>1, <2>2 DEF Promised
<1>8. Backed(t)'
  <2> SUFFICES ASSUME NEW j \in Invoices, x.wrote[j] = "paid"
               PROVE  allocated[j] + x.own[j] >= TotalOf[j]
    BY <1>1, <1>4 DEF Backed
  <2>1. allocated[j] + tx[t].own[j] >= TotalOf[j]
    BY <1>5 DEF CoverInv, Backed
  <2> HIDE DEF i, amount, x
  <2> QED BY <1>3, <1>6, <2>1, InvoiceNumbers DEF CoverInv
<1> QED BY <1>1, <1>2, <1>7, <1>8, OthersCovered

LEMMA SyncStatusCovered ==
    ASSUME CoverInv, NEW t \in Requests, SyncStatus(t)
    PROVE  PaidIsCovered' /\ \A u \in Requests : Promised(u)' /\ Backed(u)'
<1> DEFINE i == NextAllocation(t).invoice
           s == StatusFor(tx[t].seen, i)
           x == [tx[t] EXCEPT !.wrote[i] = IF VisibleStatus(t, i) = s THEN @ ELSE s,
                              !.todo = Tail(@), !.seen = 0]
<1>1. Continue(t, "allocating", x) /\ allocated' = allocated /\ invoiceStatus' = invoiceStatus
  BY DEF SyncStatus, tables
<1>2. PaidIsCovered'
  BY <1>1 DEF CoverInv, PaidIsCovered
<1>3. i \in Invoices
  BY Carried, NextAllocationTyped DEF CoverInv, SyncStatus, Fits
<1>4. pc'[t] = "allocating" /\ tx'[t] = x
  BY <1>1 DEF CoverInv, TypeInv, TypeOK, Continue
<1>5. /\ x.own = tx[t].own
      /\ \A j \in Invoices : x.wrote[j] = "paid" => tx[t].wrote[j] = "paid" \/ (j = i /\ s = "paid")
  BY Carried DEF CoverInv, Transaction
<1>6. s = "paid" => allocated[i] + tx[t].own[i] >= TotalOf[i]
  <2> SUFFICES ASSUME s = "paid" PROVE allocated[i] + tx[t].own[i] >= TotalOf[i]
    OBVIOUS
  <2>1. tx[t].seen >= TotalOf[i]
    BY DEF StatusFor, Covers
  <2>2. tx[t].seen <= allocated[i] + tx[t].own[i]
    BY DEF CoverInv, Promised, SyncStatus
  <2> HIDE DEF i
  <2> QED BY <1>3, <2>1, <2>2, Carried, InvoiceNumbers DEF CoverInv
<1>7. Backed(t)'
  <2> HIDE DEF i, s, x
  <2> QED BY <1>1, <1>4, <1>5, <1>6 DEF CoverInv, Backed
<1>8. Promised(t)'
  BY <1>4 DEF Promised
<1> QED BY <1>1, <1>2, <1>7, <1>8, OthersCovered

LEMMA CommitCovered ==
    ASSUME CoverInv, NEW t \in Requests, Commit(t)
    PROVE  PaidIsCovered' /\ \A u \in Requests : Promised(u)' /\ Backed(u)'
<1>1. PICK a \in Answers : Answer(t, a)
  BY DEF Commit, Answers
<1>2. \A i \in Invoices :
         /\ allocated'[i] = allocated[i] + tx[t].own[i]
         /\ allocated[i] \in Nat /\ tx[t].own[i] \in Nat /\ TotalOf[i] \in Nat
  BY InvoiceNumbers DEF Commit, CoverInv
<1>3. PaidIsCovered'
  <2> SUFFICES ASSUME NEW i \in Invoices, invoiceStatus'[i] = "paid"
               PROVE  allocated'[i] >= TotalOf[i]
    BY DEF PaidIsCovered
  <2>1. CASE tx[t].wrote[i] = "paid"
    BY <1>2, <2>1 DEF CoverInv, Backed
  <2>2. CASE invoiceStatus[i] = "paid"
    BY <1>2, <2>2 DEF CoverInv, PaidIsCovered
  <2> QED BY <2>1, <2>2 DEF Commit, VisibleStatus
<1>4. pc'[t] = a /\ tx'[t] = Release(t)
  BY <1>1 DEF CoverInv, TypeInv, TypeOK, Answer, Continue
<1>5. Promised(t)'
  BY <1>4 DEF Promised, Answers
<1>6. Backed(t)'
  <2>1. \A i \in Invoices : Release(t).wrote[i] = None
    BY DEF Release, Idle
  <2> QED BY <1>4, <2>1, NoneAssumption DEF Backed, InvoiceStatuses
<1>7. ASSUME NEW u \in Requests, u # t PROVE Promised(u)' /\ Backed(u)'
  <2>1. pc'[u] = pc[u] /\ tx'[u] = tx[u]
    BY <1>1, <1>7 DEF CoverInv, TypeInv, TypeOK, Answer, Continue
  <2>2. Promised(u)'
    <3> SUFFICES ASSUME pc[u] = "syncing"
                 PROVE  LET i == NextAllocation(u).invoice
                        IN  tx[u].seen <= allocated'[i] + tx[u].own[i]
      BY <2>1 DEF Promised, NextAllocation
    <3> DEFINE i == NextAllocation(u).invoice
    <3>1. i \in Invoices
      BY Carried, NextAllocationTyped DEF CoverInv, Fits
    <3>2. tx[u].seen <= allocated[i] + tx[u].own[i]
      BY DEF CoverInv, Promised
    <3>3. tx[u].seen \in Nat /\ tx[u].own[i] \in Nat
      BY <3>1, Carried DEF CoverInv
    <3> HIDE DEF i
    <3> QED BY <1>2, <3>1, <3>2, <3>3 DEF i
  <2>3. Backed(u)'
    <3> SUFFICES ASSUME NEW i \in Invoices, tx[u].wrote[i] = "paid"
                 PROVE  allocated'[i] + tx[u].own[i] >= TotalOf[i]
      BY <2>1 DEF Backed
    <3>1. allocated[i] + tx[u].own[i] >= TotalOf[i] /\ tx[u].own[i] \in Nat
      BY Carried DEF CoverInv, Backed
    <3> QED BY <1>2, <3>1
  <2> QED BY <2>2, <2>3
<1> QED BY <1>3, <1>5, <1>6, <1>7

LEMMA StepCovered == CoverInv /\ [Next]_vars => CoverInv'
<1> SUFFICES ASSUME CoverInv, [Next]_vars
             PROVE  PaidIsCovered' /\ \A u \in Requests : Promised(u)' /\ Backed(u)'
  BY StepTyped DEF CoverInv
<1>1. ASSUME NEW t \in Requests, Receive(t)
      PROVE  PaidIsCovered' /\ \A u \in Requests : Promised(u)' /\ Backed(u)'
  <2>1. CASE CreateBill(t)
    BY <2>1, AnsweredCovered DEF CreateBill, Answers
  <2>2. CASE SubmitProof(t)
    BY <2>2, AnsweredCovered DEF SubmitProof, Answers
  <2>3. CASE BeginVerify(t)
    <3>1. PICK b \in Verifies :
            Continue(t, "locking", [tx[t] EXCEPT !.body = b, !.stamp = clock + 1])
      BY <2>3 DEF BeginVerify
    <3> QED BY <2>3, <3>1, Carried, CarriedOn DEF BeginVerify, tables, CoverInv, Transaction
  <2>4. CASE CheckRef(t)
    <3>1. PICK b \in Webhooks, place \in {"duplicate", "inserting"} :
            Continue(t, place, [tx[t] EXCEPT !.body = b])
      BY <2>4 DEF CheckRef
    <3> QED BY <2>4, <3>1, Carried, CarriedOn DEF CheckRef, tables, CoverInv, Transaction
  <2> QED BY <1>1, <2>1, <2>2, <2>3, <2>4 DEF Receive
<1>2. ASSUME NEW t \in Requests, Serve(t)
      PROVE  PaidIsCovered' /\ \A u \in Requests : Promised(u)' /\ Backed(u)'
  <2>1. CASE LockPayment(t) \/ WebhookInsert(t)
    <3>1. PICK place \in {"reading", "allocating"} : \E p, row, todo :
            Continue(t, place, [tx[t] EXCEPT !.payment = p, !.row = row, !.now = month,
                                             !.todo = todo])
      BY <2>1 DEF LockPayment, WebhookInsert
    <3>2. PICK p, row, todo :
            Continue(t, place, [tx[t] EXCEPT !.payment = p, !.row = row, !.now = month,
                                             !.todo = todo])
      BY <3>1
    <3> QED BY <2>1, <3>2, Carried, CarriedOn
            DEF LockPayment, WebhookInsert, tables, CoverInv, Transaction
  <2>2. CASE ReadOutstanding(t) \/ SkipAllocation(t)
    <3>1. PICK todo : Continue(t, "allocating", [tx[t] EXCEPT !.todo = todo])
      BY <2>2 DEF ReadOutstanding, SkipAllocation
    <3> QED BY <2>2, <3>1, Carried, CarriedOn
            DEF ReadOutstanding, SkipAllocation, tables, CoverInv, Transaction
  <2>3. CASE ReadCredit(t)
    <3>1. PICK x : /\ Continue(t, "committing", x)
                   /\ x = tx[t] \/ \E balance : x = [tx[t] EXCEPT !.balance = balance]
      BY <2>3 DEF ReadCredit
    <3>2. x.own = tx[t].own /\ x.wrote = tx[t].wrote
      BY <3>1, Carried DEF CoverInv, Transaction
    <3> QED BY <2>3, <3>1, <3>2, CarriedOn DEF ReadCredit, tables
  <2>4. CASE Reject(t) \/ PaymentNotFound(t) \/ WebhookRefused(t)
    BY <2>4, AnsweredCovered DEF Reject, PaymentNotFound, WebhookRefused, tables, Answers
  <2> QED BY <1>2, <2>1, <2>2, <2>3, <2>4, InsertAllocationCovered, SyncStatusCovered,
             CommitCovered DEF Serve
<1>3. ASSUME NEW t \in Requests, Abort(t)
      PROVE  PaidIsCovered' /\ \A u \in Requests : Promised(u)' /\ Backed(u)'
  BY <1>3, AnsweredCovered DEF Abort, tables, Answers
<1>4. CASE NextMonth \/ UNCHANGED vars
  BY <1>4 DEF NextMonth, vars, tables, CoverInv, PaidIsCovered, Promised, Backed, NextAllocation
<1> QED BY <1>1, <1>2, <1>3, <1>4 DEF Next

LEMMA InitCovered == Init => CoverInv
<1> SUFFICES ASSUME Init PROVE CoverInv
  OBVIOUS
<1>1. \A t \in Requests : Promised(t) /\ Backed(t)
  BY NoneAssumption DEF Init, Idle, Promised, Backed, InvoiceStatuses
<1> QED BY <1>1, InitTyped DEF CoverInv, Init, PaidIsCovered

\* No interleaving, rollback or lost answer leaves an invoice "paid" whose
\* committed allocations do not cover its total: the trigger may be late in
\* calling an invoice paid, never early.
THEOREM PaidAlwaysCovered == Spec => []PaidIsCovered
<1>1. CoverInv => PaidIsCovered
  BY DEF CoverInv
<1> QED BY <1>1, InitCovered, StepCovered, PTL DEF Spec

-----------------------------------------------------------------------------
(* Receipts.                                                               *)
(*                                                                         *)
(* A receipt is looked up by its number alone, so that no two receipts     *)
(* have one number (Numbered) has to be known of those that are there      *)
(* before a new one can be told from them.  A number already taken was     *)
(* given to this payment earlier or to one of the same short id.           *)

Received == {"paid", "partial"}

Numbered == \A q, r \in receipts : SameNumber(q, r) => q = r

ReceiptInv == TypeInv /\ Numbered /\ ReceivedHasReceipt

\* Only COMMIT of a verification or of a provider's notice makes a payment
\* count as received, or writes a receipt.
LEMMA PlainRows ==
    ASSUME TypeInv, [Next]_vars, \A t \in Requests : ~Commit(t)
    PROVE  /\ receipts' = receipts
           /\ \A p \in PaymentIds :
                payments'[p] = payments[p] \/ payments'[p].status \notin Received
<1>1. ASSUME NEW t \in Requests, CreateBill(t) PROVE
        /\ receipts' = receipts
        /\ \A p \in PaymentIds : payments'[p] = payments[p] \/ payments'[p].status \notin Received
  <2>1. PICK b \in NewBills : payments' = payments \/ payments' = [payments EXCEPT ![t] = BillRow(b)]
    BY <1>1 DEF CreateBill
  <2>2. BillRow(b).status \notin Received
    BY DEF BillRow, Received
  <2> HIDE DEF BillRow
  <2> QED BY <1>1, <2>1, <2>2 DEF CreateBill, TypeInv, TypeOK, PaymentIds
<1>2. ASSUME NEW t \in Requests, SubmitProof(t) PROVE
        /\ receipts' = receipts
        /\ \A p \in PaymentIds : payments'[p] = payments[p] \/ payments'[p].status \notin Received
  <2>1. PICK b \in Proofs :
          \/ payments' = payments
          \/ /\ payments[b.payment] # None
             /\ payments' = [payments EXCEPT ![b.payment].status = "pending",
                                             ![b.payment].paid = b.amount]
    BY <1>2 DEF SubmitProof
  <2>2. b.payment \in PaymentIds
    BY BodiesAssumption
  <2>3. payments[b.payment] # None => payments[b.payment] \in Row
    BY <2>2 DEF TypeInv, TypeOK
  <2>4. payments[b.payment] \in Row =>
          [payments[b.payment] EXCEPT !.status = "pending", !.paid = b.amount].status = "pending"
    BY DEF Row
  <2> QED BY <1>2, <2>1, <2>2, <2>3, <2>4 DEF SubmitProof, TypeInv, TypeOK, Received
<1>3. ASSUME NEW t \in Requests, Reject(t) PROVE
        /\ receipts' = receipts
        /\ \A p \in PaymentIds : payments'[p] = payments[p] \/ payments'[p].status \notin Received
  <2> DEFINE q == tx[t].body.payment
  <2>1. payments[q] # None /\ payments' = [payments EXCEPT ![q].status = "rejected"]
    BY <1>3 DEF Reject
  <2>2. q \in PaymentIds
    BY <1>3, Carried, BodiesAssumption DEF Reject, Fits, Verification
  <2>3. payments[q] \in Row
    BY <2>1, <2>2 DEF TypeInv, TypeOK
  <2>4. [payments[q] EXCEPT !.status = "rejected"].status = "rejected"
    BY <2>3 DEF Row
  <2> HIDE DEF q
  <2> QED BY <1>3, <2>1, <2>2, <2>3, <2>4 DEF Reject, TypeInv, TypeOK, Received
<1>4. ASSUME NEW t \in Requests,
             \/ BeginVerify(t) \/ CheckRef(t) \/ Abort(t) \/ LockPayment(t) \/ PaymentNotFound(t)
             \/ ReadOutstanding(t) \/ WebhookInsert(t) \/ WebhookRefused(t) \/ SkipAllocation(t)
             \/ InsertAllocation(t) \/ SyncStatus(t) \/ ReadCredit(t)
      PROVE  payments' = payments /\ receipts' = receipts
  <2>1. UNCHANGED tables
    BY <1>4 DEF BeginVerify, CheckRef, Abort, LockPayment, PaymentNotFound, ReadOutstanding,
       WebhookInsert, WebhookRefused, SkipAllocation, InsertAllocation, SyncStatus, ReadCredit
  <2> QED BY <2>1 DEF tables
<1>5. CASE NextMonth \/ UNCHANGED vars
  BY <1>5 DEF NextMonth, vars, tables
<1> QED BY <1>1, <1>2, <1>3, <1>4, <1>5 DEF Next, Receive, Serve

\* COMMIT leaves the payment it made received with a receipt, the new one, or
\* finds the number taken: by an earlier receipt of its own or in a clash.
LEMMA CommitReceipts ==
    ASSUME ReceiptInv, NEW t \in Requests, Commit(t)
    PROVE  Numbered' /\ ReceivedHasReceipt' /\ receipts \subseteq receipts'
<1> DEFINE r == [payment |-> tx[t].payment, month |-> tx[t].now, total |-> tx[t].row.paid,
                 by |-> t]
<1>1. /\ tx[t].row \in Row /\ tx[t].payment \in PaymentIds
      /\ payments \in [PaymentIds -> Row \union {None}]
      /\ payments' = [payments EXCEPT ![tx[t].payment] = tx[t].row]
      /\ receipts' = receipts \union NewReceipt(t)
  BY Carried DEF ReceiptInv, TypeInv, TypeOK, Commit, Fits, Open
<1>2. r.payment = tx[t].payment
  OBVIOUS
<1>3. CASE tx[t].row.tenant # None /\ ~\E q \in receipts : SameNumber(q, r)
  <2>1. receipts' = receipts \union {r}
    BY <1>1, <1>3 DEF NewReceipt, SameNumber
  <2> HIDE DEF r
  <2>2. Numbered'
    BY <1>3, <2>1 DEF Numbered, ReceiptInv, SameNumber
  <2>3. ReceivedHasReceipt'
    BY <1>1, <1>2, <2>1 DEF ReceivedHasReceipt, ReceiptInv
  <2> QED BY <2>1, <2>2, <2>3
<1>4. CASE tx[t].row.tenant = None \/ \E q \in receipts : SameNumber(q, r)
  <2>1. receipts' = receipts
    BY <1>1, <1>4 DEF NewReceipt, SameNumber
  <2>2. \/ tx[t].row.tenant = None
        \/ \E q \in receipts : ShortOf[q.payment] = ShortOf[tx[t].payment]
    BY <1>4 DEF SameNumber
  <2>3. ReceivedHasReceipt'
    BY <1>1, <2>1, <2>2 DEF ReceivedHasReceipt, ReceiptInv
  <2> QED BY <2>1, <2>3 DEF Numbered, ReceiptInv
<1> QED BY <1>3, <1>4

LEMMA StepReceipts ==
    ASSUME ReceiptInv, [Next]_vars
    PROVE  ReceiptInv' /\ receipts \subseteq receipts'
<1>1. TypeInv'
  BY StepTyped DEF ReceiptInv
<1>2. CASE \E t \in Requests : Commit(t)
  BY <1>1, <1>2, CommitReceipts DEF ReceiptInv
<1>3. CASE \A t \in Requests : ~Commit(t)
  <2>1. /\ receipts' = receipts
        /\ \A p \in PaymentIds : payments'[p] = payments[p] \/ payments'[p].status \notin Received
    BY <1>3, PlainRows DEF ReceiptInv
  <2>2. Numbered'
    BY <2>1 DEF Numbered, ReceiptInv
  <2>3. ReceivedHasReceipt'
    BY <2>1 DEF ReceivedHasReceipt, ReceiptInv, Received
  <2> QED BY <1>1, <2>1, <2>2, <2>3 DEF ReceiptInv
<1> QED BY <1>2, <1>3

LEMMA InitReceipts == Init => ReceiptInv
<1> SUFFICES ASSUME Init PROVE ReceiptInv
  OBVIOUS
<1>1. Numbered
  BY DEF Init, Numbered
<1>2. ASSUME NEW p \in PaymentIds, payments[p] # None PROVE payments[p].status \notin Received
  BY <1>2 DEF Init, BillRow, Received
<1>3. ReceivedHasReceipt
  BY <1>2 DEF ReceivedHasReceipt, Received
<1> QED BY <1>1, <1>3, InitTyped DEF ReceiptInv

\* Whatever verifiers, proofs, rejections and provider deliveries follow each
\* other on a payment, it never counts as received without a receipt, unless one
\* of a payment with the same short id stands in the way.
THEOREM ReceivedAlwaysHasReceipt == Spec => []ReceivedHasReceipt
<1>1. ReceiptInv /\ [Next]_vars => ReceiptInv'
  BY StepReceipts
<1>2. ReceiptInv => ReceivedHasReceipt
  BY DEF ReceiptInv
<1> QED BY <1>1, <1>2, InitReceipts, PTL DEF Spec

\* No step withdraws or changes a receipt, and none gives its number to another:
\* a payment verified twice in a month keeps the receipt of the first time.
THEOREM ReceiptsAlwaysStand == Spec => ReceiptsStand
<1>1. ReceiptInv /\ [Next]_vars => ReceiptInv'
  BY StepReceipts
<1>2. ReceiptInv /\ [Next]_vars =>
        [\A r \in receipts : r \in receipts' /\ \A q \in receipts' : SameNumber(q, r) => q = r]_vars
  BY StepReceipts DEF ReceiptInv, Numbered
<1> QED BY <1>1, <1>2, InitReceipts, PTL DEF Spec, ReceiptsStand

-----------------------------------------------------------------------------
(* A provider reference is recorded once.                                  *)
(*                                                                         *)
(* The unique index compares an insert with the committed rows and with    *)
(* the inserts under way at that moment.  What it has to keep apart later  *)
(* is what each request will commit: so the invariant says it of every row *)
(* a request has inserted (Apart, Unrecorded), that the row a verifier     *)
(* holds has the reference of the row it will replace (Holds), and that a  *)
(* delivery works on its own row (Delivers).  That a verifier never holds  *)
(* the row of a request that has not committed yet is Unborn.              *)

SameRef(r, s) == r.ref = s.ref /\ r.ref # None

Owns(t) == tx[t].payment = t

Unborn(t) == pc[t] \in {"idle"} \union Underway => payments[t] = None

Holds(t) ==
    tx[t].payment # None =>
        /\ pc[t] \in Open
        /\ ~Owns(t) => /\ payments[tx[t].payment] # None
                       /\ payments[tx[t].payment].ref = tx[t].row.ref

Unrecorded(t) ==
    Owns(t) => \A p \in PaymentIds : payments[p] # None => ~SameRef(payments[p], tx[t].row)

Delivers(t) ==
    tx[t].body \in Webhooks =>
        /\ pc[t] # "idle"
        /\ pc[t] \in Open => Owns(t) /\ tx[t].row.ref = tx[t].body.ref
        /\ pc[t] \in {"ok", "duplicate"} => RefRecorded(tx[t].body.ref)

RefsOk(t) == Unborn(t) /\ Holds(t) /\ Unrecorded(t) /\ Delivers(t)

RefsDiffer ==
    \A p, q \in PaymentIds :
        p # q /\ payments[p] # None /\ payments[q] # None
          => payments[p].ref = None \/ payments[p].ref # payments[q].ref

Apart(t, u) == t # u /\ Owns(t) /\ Owns(u) => ~SameRef(tx[t].row, tx[u].row)

RefInv ==
    /\ TypeInv
    /\ RefsDiffer
    /\ \A t \in Requests : RefsOk(t)
    /\ \A t, u \in Requests : Apart(t, u)

\* A row that request t commits clashes with nothing that is there or will be.
NewRow(t) ==
    /\ \A q \in PaymentIds : payments[q] # None => ~SameRef(payments[q], payments'[t])
    /\ \A u \in Requests \ {t} : Owns(u) => ~SameRef(tx[u].row, payments'[t])

\* Rows keep their references, and the only new one is that of request t.
RowsStand(t) ==
    \A p \in PaymentIds :
        /\ payments[p] # None => payments'[p] # None /\ payments'[p].ref = payments[p].ref
        /\ payments[p] = None /\ payments'[p] # None => p = t /\ NewRow(t)

\* What a step of t has to show, the rest follows: of t itself, and of its row
\* and those of the others.
LEMMA RefsCarried ==
    ASSUME RefInv, TypeInv', NEW t \in Requests, NEW place, NEW x, Continue(t, place, x),
           RowsStand(t), RefsOk(t)',
           x.payment = t => \A u \in Requests \ {t} : Owns(u) => ~SameRef(x.row, tx[u].row)
    PROVE  RefInv'
<1>1. /\ pc'[t] = place /\ tx'[t] = x
      /\ \A u \in Requests \ {t} : pc'[u] = pc[u] /\ tx'[u] = tx[u]
  BY DEF RefInv, TypeInv, TypeOK, Continue
<1>2. RefsDiffer'
  <2> SUFFICES ASSUME NEW p \in PaymentIds, NEW q \in PaymentIds, p # q,
                      payments'[p] # None, payments'[q] # None
               PROVE  ~SameRef(payments'[p], payments'[q])
    BY DEF RefsDiffer, SameRef
  <2>1. CASE payments[p] # None /\ payments[q] # None
    BY <2>1 DEF RowsStand, RefInv, RefsDiffer, SameRef
  <2>2. CASE payments[p] = None
    <3>1. p = t /\ NewRow(t) /\ payments[q] # None
      BY <2>2 DEF RowsStand
    <3> QED BY <3>1 DEF RowsStand, NewRow, SameRef
  <2>3. CASE payments[q] = None
    <3>1. q = t /\ NewRow(t) /\ payments[p] # None
      BY <2>3 DEF RowsStand
    <3> QED BY <3>1 DEF RowsStand, NewRow, SameRef
  <2> QED BY <2>1, <2>2, <2>3
<1>3. ASSUME NEW u \in Requests, u # t PROVE RefsOk(u)'
  <2>1. pc'[u] = pc[u] /\ tx'[u] = tx[u] /\ RefsOk(u) /\ u \in PaymentIds
    BY <1>1, <1>3 DEF RefInv, PaymentIds
  <2>2. Unborn(u)'
    BY <1>3, <2>1 DEF RefsOk, Unborn, RowsStand
  <2>3. Holds(u)'
    <3>1. tx[u].payment \in PaymentIds \union {None}
      BY Carried DEF RefInv, Transaction
    <3> QED BY <2>1, <3>1 DEF RefsOk, Holds, Owns, RowsStand
  <2>4. Unrecorded(u)'
    <3> SUFFICES ASSUME Owns(u), NEW p \in PaymentIds, payments'[p] # None
                 PROVE  ~SameRef(payments'[p], tx[u].row)
      BY <2>1 DEF Unrecorded, Owns
    <3>1. CASE payments[p] # None
      BY <2>1, <3>1 DEF RefsOk, Unrecorded, RowsStand, SameRef
    <3>2. CASE payments[p] = None
      BY <1>3, <3>2 DEF RowsStand, NewRow, SameRef
    <3> QED BY <3>1, <3>2
  <2>5. Delivers(u)'
    <3>1. ASSUME NEW ref, RefRecorded(ref) PROVE RefRecorded(ref)'
      BY <3>1 DEF RefRecorded, RowsStand
    <3> QED BY <2>1, <3>1 DEF RefsOk, Delivers, Owns, RefRecorded
  <2> QED BY <2>2, <2>3, <2>4, <2>5 DEF RefsOk
<1>4. ASSUME NEW u \in Requests, NEW v \in Requests PROVE Apart(u, v)'
  <2>1. CASE u # t /\ v # t
    BY <1>1, <2>1 DEF RefInv, Apart, Owns
  <2>2. CASE u = t /\ v # t
    BY <1>1, <2>2 DEF Apart, Owns
  <2>3. CASE u # t /\ v = t
    BY <1>1, <2>3 DEF Apart, Owns, SameRef
  <2>4. CASE u = v
    BY <2>4 DEF Apart
  <2> QED BY <2>1, <2>2, <2>3, <2>4
<1> QED BY <1>2, <1>3, <1>4 DEF RefInv

LEMMA RowsSame ==
    ASSUME NEW t \in Requests, payments' = payments
    PROVE  RowsStand(t)
BY DEF RowsStand

\* A request is answered, and a delivery that is told "processed" or "already
\* processed" is in the table.
LEMMA AnsweredRefs ==
    ASSUME RefInv, TypeInv', NEW t \in Requests, NEW a \in Answers, Answer(t, a), RowsStand(t),
           tx[t].body \in Webhooks /\ a \in {"ok", "duplicate"} =>
               \E p \in PaymentIds : payments'[p] # None /\ payments'[p].ref = tx[t].body.ref
    PROVE  RefInv'
<1> DEFINE x == Release(t)
<1>1. x.payment = None /\ x.body = tx[t].body
  BY DEF Release, Idle
<1>2. pc'[t] = a /\ tx'[t] = x
  BY DEF RefInv, TypeInv, TypeOK, Answer, Continue
<1>3. t # None
  BY NoneAssumption DEF PaymentIds
<1> HIDE DEF x
<1>4. Unborn(t)' /\ Holds(t)' /\ Unrecorded(t)'
  BY <1>1, <1>2, <1>3 DEF Unborn, Holds, Unrecorded, Owns, Answers, Underway
<1>5. Delivers(t)'
  BY <1>1, <1>2 DEF Delivers, RefRecorded, Answers, Open
<1>6. Continue(t, a, x)
  BY DEF Answer, x
<1> QED BY <1>1, <1>3, <1>4, <1>5, <1>6, RefsCarried DEF RefsOk

\* A request goes on with the row it has.
LEMMA GoesOnRefs ==
    ASSUME RefInv, TypeInv', UNCHANGED payments, NEW t \in Requests, NEW place \in Open, NEW x,
           Continue(t, place, x), pc[t] \in Open,
           x.payment = tx[t].payment, x.row = tx[t].row, x.body = tx[t].body
    PROVE  RefInv'
<1>1. pc'[t] = place /\ tx'[t] = x /\ RefsOk(t)
  BY DEF RefInv, TypeInv, TypeOK, Continue
<1>2. RefsOk(t)'
  <2>1. Unborn(t)'
    BY <1>1 DEF RefsOk, Unborn, Open, Underway
  <2>2. Holds(t)' /\ Unrecorded(t)'
    BY <1>1 DEF RefsOk, Holds, Unrecorded, Owns
  <2>3. Delivers(t)'
    BY <1>1 DEF RefsOk, Delivers, Owns, Open
  <2> QED BY <2>1, <2>2, <2>3 DEF RefsOk
<1>3. x.payment = t => \A u \in Requests \ {t} : Owns(u) => ~SameRef(x.row, tx[u].row)
  BY DEF RefInv, Apart, Owns
<1> QED BY <1>2, <1>3, RowsSame, RefsCarried

LEMMA BodiesDiffer == Verifies \intersect Webhooks = {}
<1> SUFFICES ASSUME NEW b \in Verifies, b \in Webhooks PROVE FALSE
  OBVIOUS
<1>1. DOMAIN b = {"payment", "status", "amount", "allocations", "credit"}
  BY BodiesAssumption DEF Verification
<1>2. "ref" \in DOMAIN b
  BY BodiesAssumption DEF Notice
<1> QED BY <1>1, <1>2

LEMMA CreateBillRefs ==
    ASSUME RefInv, TypeInv', NEW t \in Requests, CreateBill(t)
    PROVE  RefInv'
<1>1. PICK b \in NewBills :
        \/ payments' = [payments EXCEPT ![t] = BillRow(b)] /\ Answer(t, "ok")
        \/ payments' = payments /\ Answer(t, "conflict")
  BY DEF CreateBill
<1>2. pc[t] = "idle" /\ payments[t] = None /\ tx[t].body \notin Webhooks
  BY DEF CreateBill, RefInv, RefsOk, Unborn, Delivers
<1>3. BillRow(b).ref = None
  BY DEF BillRow
<1>4. RowsStand(t)
  <2> HIDE DEF BillRow
  <2>1. CASE payments' = [payments EXCEPT ![t] = BillRow(b)]
    <3>1. payments'[t] = BillRow(b) /\ \A p \in PaymentIds \ {t} : payments'[p] = payments[p]
      BY <2>1 DEF RefInv, TypeInv, TypeOK, PaymentIds
    <3>2. NewRow(t)
      BY <1>3, <3>1 DEF NewRow, SameRef
    <3> QED BY <1>2, <3>1, <3>2 DEF RowsStand
  <2> QED BY <1>1, <2>1, RowsSame
<1> QED BY <1>1, <1>2, <1>4, AnsweredRefs DEF Answers

\* A proof and a rejection rewrite a row and keep its reference.
LEMMA RewriteRefs ==
    ASSUME RefInv, TypeInv', NEW t \in Requests, NEW a \in Answers, Answer(t, a),
           tx[t].body \notin Webhooks,
           NEW p \in PaymentIds, payments[p] # None, NEW row, payments' = [payments EXCEPT ![p] = row],
           row # None, row.ref = payments[p].ref
    PROVE  RefInv'
<1>1. RowsStand(t)
  BY DEF RowsStand, RefInv, TypeInv, TypeOK
<1> QED BY <1>1, AnsweredRefs

LEMMA SubmitProofRefs ==
    ASSUME RefInv, TypeInv', NEW t \in Requests, SubmitProof(t)
    PROVE  RefInv'
<1>1. PICK b \in Proofs :
        \/ /\ payments[b.payment] # None
           /\ payments' = [payments EXCEPT ![b.payment].status = "pending",
                                           ![b.payment].paid = b.amount]
           /\ Answer(t, "ok")
        \/ payments' = payments /\ Answer(t, "notfound")
  BY DEF SubmitProof
<1>2. b.payment \in PaymentIds /\ b.amount \in Nat
  BY BodiesAssumption
<1>3. tx[t].body \notin Webhooks
  BY DEF SubmitProof, RefInv, RefsOk, Delivers
<1>4. CASE /\ payments[b.payment] # None
           /\ payments' = [payments EXCEPT ![b.payment].status = "pending",
                                           ![b.payment].paid = b.amount]
           /\ Answer(t, "ok")
  <2> DEFINE row == [payments[b.payment] EXCEPT !.status = "pending", !.paid = b.amount]
  <2>1. payments[b.payment] \in Row
    BY <1>2, <1>4 DEF RefInv, TypeInv, TypeOK
  <2>2. row \in Row /\ row.ref = payments[b.payment].ref
    BY <1>2, <2>1 DEF Row, PaymentStatuses
  <2>3. payments' = [payments EXCEPT ![b.payment] = row]
    BY <1>2, <1>4, <2>1 DEF RefInv, TypeInv, TypeOK
  <2> HIDE DEF row
  <2> QED BY <1>2, <1>3, <1>4, <2>2, <2>3, NoneAssumption, RewriteRefs DEF Answers
<1>5. CASE payments' = payments /\ Answer(t, "notfound")
  BY <1>3, <1>5, RowsSame, AnsweredRefs DEF Answers
<1> QED BY <1>1, <1>4, <1>5

LEMMA RejectRefs ==
    ASSUME RefInv, TypeInv', NEW t \in Requests, Reject(t)
    PROVE  RefInv'
<1> DEFINE p == tx[t].body.payment
           row == [payments[p] EXCEPT !.status = "rejected"]
<1>1. tx[t].body \in Verifies /\ p \in PaymentIds
  BY Carried, BodiesAssumption DEF Reject, RefInv, Fits, Verification
<1>2. tx[t].body \notin Webhooks
  BY <1>1, BodiesDiffer
<1>3. payments[p] # None /\ payments[p] \in Row
  BY <1>1 DEF Reject, RefInv, TypeInv, TypeOK
<1>4. row \in Row /\ row.ref = payments[p].ref
  BY <1>3 DEF Row, PaymentStatuses
<1>5. payments' = [payments EXCEPT ![p] = row] /\ Answer(t, "ok")
  BY DEF Reject
<1> HIDE DEF p, row
<1> QED BY <1>1, <1>2, <1>3, <1>4, <1>5, NoneAssumption, RewriteRefs DEF Answers

\* A request that begins holds nothing; a delivery is looked up first.
LEMMA BeginRefs ==
    ASSUME RefInv, TypeInv', NEW t \in Requests, BeginVerify(t) \/ CheckRef(t)
    PROVE  RefInv'
<1>1. PICK place, body : \E x :
        /\ Continue(t, place, x) /\ x.payment = tx[t].payment /\ x.body = body
        /\ \/ place = "locking" /\ body \in Verifies
           \/ place = "inserting" /\ body \in Webhooks
           \/ place = "duplicate" /\ body \in Webhooks /\ RefRecorded(body.ref)
  <2>1. ASSUME NEW b, NEW stamp
        PROVE  LET x == [tx[t] EXCEPT !.body = b, !.stamp = stamp]
               IN  x.payment = tx[t].payment /\ x.body = b
    BY Carried DEF RefInv, Transaction
  <2>2. ASSUME NEW b
        PROVE  LET x == [tx[t] EXCEPT !.body = b]
               IN  x.payment = tx[t].payment /\ x.body = b
    BY Carried DEF RefInv, Transaction
  <2>3. CASE BeginVerify(t)
    <3>1. PICK b \in Verifies : Continue(t, "locking", [tx[t] EXCEPT !.body = b, !.stamp = clock + 1])
      BY <2>3 DEF BeginVerify
    <3> QED BY <2>1, <3>1
  <2>4. CASE CheckRef(t)
    <3>1. PICK b \in Webhooks :
            Continue(t, IF RefRecorded(b.ref) THEN "duplicate" ELSE "inserting",
                     [tx[t] EXCEPT !.body = b])
      BY <2>4 DEF CheckRef
    <3> QED BY <2>2, <3>1
  <2> QED BY <2>3, <2>4
<1>2. PICK x : /\ Continue(t, place, x) /\ x.payment = tx[t].payment /\ x.body = body
  BY <1>1
<1>3. payments' = payments
  BY DEF BeginVerify, CheckRef, tables
<1>4. pc[t] = "idle" /\ RefsOk(t) /\ pc'[t] = place /\ tx'[t] = x /\ t # None
  <2>1. pc[t] = "idle" /\ RefsOk(t) /\ t # None
    BY NoneAssumption DEF BeginVerify, CheckRef, RefInv, PaymentIds
  <2>2. pc'[t] = place /\ tx'[t] = x
    BY <1>2 DEF RefInv, TypeInv, TypeOK, Continue
  <2> QED BY <2>1, <2>2
<1>5. x.payment = None
  BY <1>2, <1>4 DEF RefsOk, Holds, Open
<1>6. Unborn(t)' /\ Holds(t)' /\ Unrecorded(t)'
  BY <1>3, <1>4, <1>5 DEF RefsOk, Unborn, Holds, Unrecorded, Owns
<1>7. Delivers(t)'
  <2>1. RefRecorded(body.ref) => \E p \in PaymentIds : payments'[p] # None /\ payments'[p].ref = body.ref
    BY <1>3 DEF RefRecorded
  <2> QED BY <1>1, <1>2, <1>4, <2>1, BodiesDiffer DEF Delivers, RefRecorded, Open
<1> QED BY <1>2, <1>3, <1>4, <1>5, <1>6, <1>7, RowsSame, RefsCarried DEF RefsOk

\* A verifier locks a row that is there: never the one it is named for.
LEMMA LockPaymentRefs ==
    ASSUME RefInv, TypeInv', NEW t \in Requests, LockPayment(t)
    PROVE  RefInv'
<1> DEFINE b == tx[t].body
           row == [payments[b.payment] EXCEPT !.status = b.status, !.paid = VerifiedAmount(b)]
           place == IF b.allocations = <<>> /\ row.invoice # None THEN "reading" ELSE "allocating"
           x == [tx[t] EXCEPT !.payment = b.payment, !.row = row, !.now = month,
                              !.todo = b.allocations]
<1>1. b \in Verifies /\ b.payment \in PaymentIds
  BY Carried, BodiesAssumption DEF LockPayment, RefInv, Fits, Verification
<1>2. payments[b.payment] # None /\ payments[b.payment] \in Row
  BY <1>1 DEF LockPayment, RefInv, TypeInv, TypeOK
<1>3. row.ref = payments[b.payment].ref
  BY <1>2 DEF Row
<1>4. x.payment = b.payment /\ x.row = row /\ x.body = b
  BY Carried DEF RefInv, Transaction
<1>5. Continue(t, place, x) /\ payments' = payments /\ pc[t] = "locking" /\ place \in Open
  BY DEF LockPayment, tables, Open
<1>6. RefsOk(t) /\ pc'[t] = place /\ tx'[t] = x
  BY <1>5 DEF RefInv, TypeInv, TypeOK, Continue
<1>7. payments[t] = None /\ b.payment # t
  BY <1>2, <1>5, <1>6 DEF RefsOk, Unborn, Underway
<1> HIDE DEF x, row, place
<1>8. Unborn(t)' /\ Holds(t)' /\ Unrecorded(t)'
  BY <1>2, <1>3, <1>4, <1>5, <1>6, <1>7 DEF Unborn, Holds, Unrecorded, Owns
<1>9. Delivers(t)'
  BY <1>1, <1>4, <1>6, BodiesDiffer DEF Delivers
<1> QED BY <1>4, <1>5, <1>7, <1>8, <1>9, RowsSame, RefsCarried DEF RefsOk

\* The unique index holds for the insert, with the rows and with the other inserts.
LEMMA WebhookInsertRefs ==
    ASSUME RefInv, TypeInv', NEW t \in Requests, WebhookInsert(t)
    PROVE  RefInv'
<1> DEFINE b == tx[t].body
           row == WebhookRow(b)
           x == [tx[t] EXCEPT !.payment = t, !.row = row, !.now = month,
                              !.todo = WebhookAllocations(b)]
<1>1. b \in Webhooks /\ row.ref = b.ref
  BY Carried DEF WebhookInsert, RefInv, Fits, WebhookRow
<1>2. x.payment = t /\ x.row = row /\ x.body = b
  BY Carried DEF RefInv, Transaction
<1>3. Continue(t, "allocating", x) /\ payments' = payments /\ pc[t] = "inserting"
  BY DEF WebhookInsert, tables
<1>4. RefsOk(t) /\ pc'[t] = "allocating" /\ tx'[t] = x
  BY <1>3 DEF RefInv, TypeInv, TypeOK, Continue
<1>5. /\ \A p \in PaymentIds : payments[p] # None => ~SameRef(payments[p], row)
      /\ \A u \in Requests : Owns(u) => ~SameRef(row, tx[u].row)
  BY DEF WebhookInsert, RowTaken, RowPending, Clash, SameRef, Owns
<1> HIDE DEF x, row
<1>6. Unborn(t)' /\ Holds(t)' /\ Unrecorded(t)'
  BY <1>2, <1>3, <1>4, <1>5 DEF RefsOk, Unborn, Holds, Unrecorded, Owns, Open, Underway
<1>7. Delivers(t)'
  BY <1>1, <1>2, <1>4 DEF Delivers, Owns
<1> QED BY <1>2, <1>3, <1>5, <1>6, <1>7, RowsSame, RefsCarried DEF RefsOk

LEMMA CommitRefs ==
    ASSUME RefInv, TypeInv', NEW t \in Requests, Commit(t)
    PROVE  RefInv'
<1> DEFINE p == tx[t].payment
           row == tx[t].row
<1>1. PICK a \in {"ok", "error"} : Answer(t, a)
  BY DEF Commit
<1>2. /\ pc[t] \in Open \intersect Underway /\ row \in Row /\ p \in PaymentIds /\ RefsOk(t)
      /\ payments \in [PaymentIds -> Row \union {None}]
      /\ payments' = [payments EXCEPT ![p] = row]
  BY Carried DEF Commit, RefInv, TypeInv, TypeOK, Fits, Open, Underway
<1>3. row # None /\ p # None
  BY <1>2, NoneAssumption
<1>4. payments'[p] = row /\ \A q \in PaymentIds \ {p} : payments'[q] = payments[q]
  BY <1>2
<1>5. Unborn(t) /\ Holds(t) /\ Unrecorded(t) /\ Delivers(t)
  BY <1>2 DEF RefsOk
<1>6. \A u \in Requests \ {t} : Apart(t, u)
  BY DEF RefInv
<1>7. Owns(t) <=> p = t
  BY DEF Owns
<1>8. \A u \in Requests \ {t} : Owns(t) /\ Owns(u) => ~SameRef(row, tx[u].row)
  BY <1>6 DEF Apart
<1>9. Owns(t) => \A q \in PaymentIds : payments[q] # None => ~SameRef(payments[q], row)
  BY <1>5 DEF Unrecorded
<1>10. ~Owns(t) => payments[p] # None /\ payments[p].ref = row.ref
  BY <1>3, <1>5 DEF Holds
<1>11. payments[t] = None
  BY <1>2, <1>5 DEF Unborn
<1>12. tx[t].body \in Webhooks => p = t /\ row.ref = tx[t].body.ref
  BY <1>2, <1>5, <1>7 DEF Delivers
<1> HIDE DEF p, row
<1>13. RowsStand(t)
  <2>1. CASE Owns(t)
    <3>1. NewRow(t)
      BY <1>4, <1>7, <1>8, <1>9, <2>1 DEF NewRow, SameRef
    <3> QED BY <1>4, <1>7, <1>11, <2>1, <3>1 DEF RowsStand
  <2>2. CASE ~Owns(t)
    BY <1>3, <1>4, <1>10, <2>2 DEF RowsStand
  <2> QED BY <2>1, <2>2
<1> QED BY <1>1, <1>2, <1>3, <1>4, <1>12, <1>13, AnsweredRefs DEF Answers

LEMMA StepRefs == RefInv /\ [Next]_vars => RefInv'
<1> SUFFICES ASSUME RefInv, [Next]_vars, TypeInv' PROVE RefInv'
  BY StepTyped DEF RefInv
<1>1. ASSUME NEW t \in Requests,
             SkipAllocation(t) \/ InsertAllocation(t) \/ SyncStatus(t) \/ ReadOutstanding(t) \/ ReadCredit(t)
      PROVE  RefInv'
  <2>1. PICK place, x :
          /\ place \in Open
          /\ Continue(t, place, x)
          /\ x.payment = tx[t].payment /\ x.row = tx[t].row /\ x.body = tx[t].body
    <3>1. tx[t] \in Transaction
      BY Carried DEF RefInv
    <3>2. CASE SkipAllocation(t) \/ ReadOutstanding(t)
      <4>1. PICK todo : Continue(t, "allocating", [tx[t] EXCEPT !.todo = todo])
        BY <3>2 DEF SkipAllocation, ReadOutstanding
      <4> DEFINE x == [tx[t] EXCEPT !.todo = todo]
      <4>2. x.payment = tx[t].payment /\ x.row = tx[t].row /\ x.body = tx[t].body
        BY <3>1 DEF Transaction
      <4>3. Continue(t, "allocating", x) /\ "allocating" \in Open
        BY <4>1 DEF Open
      <4> HIDE DEF x
      <4> QED BY <4>2, <4>3
    <3>3. CASE InsertAllocation(t)
      <4> DEFINE i == NextAllocation(t).invoice
                 amount == NextAllocation(t).amount
                 x == [tx[t] EXCEPT !.own[i] = @ + amount, !.spent = @ + amount,
                                    !.seen = allocated[i] + tx[t].own[i] + amount]
      <4>1. Continue(t, "syncing", x)
        BY <3>3 DEF InsertAllocation
      <4>2. x.payment = tx[t].payment /\ x.row = tx[t].row /\ x.body = tx[t].body
        BY <3>1 DEF Transaction
      <4> HIDE DEF x
      <4> QED BY <4>1, <4>2 DEF Open
    <3>4. CASE SyncStatus(t)
      <4> DEFINE i == NextAllocation(t).invoice
                 s == StatusFor(tx[t].seen, i)
                 x == [tx[t] EXCEPT !.wrote[i] = IF VisibleStatus(t, i) = s THEN @ ELSE s,
                                    !.todo = Tail(@), !.seen = 0]
      <4>1. Continue(t, "allocating", x)
        BY <3>4 DEF SyncStatus
      <4>2. x.payment = tx[t].payment /\ x.row = tx[t].row /\ x.body = tx[t].body
        BY <3>1 DEF Transaction
      <4> HIDE DEF x
      <4> QED BY <4>1, <4>2 DEF Open
    <3>5. CASE ReadCredit(t)
      <4>1. PICK x : /\ Continue(t, "committing", x)
                     /\ x = tx[t] \/ \E balance : x = [tx[t] EXCEPT !.balance = balance]
        BY <3>5 DEF ReadCredit
      <4>2. x.payment = tx[t].payment /\ x.row = tx[t].row /\ x.body = tx[t].body
        BY <3>1, <4>1 DEF Transaction
      <4> QED BY <4>1, <4>2 DEF Open
    <3> QED BY <1>1, <3>2, <3>3, <3>4, <3>5
  <2>2. pc[t] \in Open /\ payments' = payments
    BY <1>1 DEF SkipAllocation, InsertAllocation, SyncStatus, ReadOutstanding, ReadCredit, Open, tables
  <2> QED BY <2>1, <2>2, GoesOnRefs
<1>2. ASSUME NEW t \in Requests, PaymentNotFound(t) \/ WebhookRefused(t) \/ Abort(t)
      PROVE  RefInv'
  <2>1. PICK a \in {"notfound", "conflict", "error"} : Answer(t, a)
    BY <1>2 DEF PaymentNotFound, WebhookRefused, Abort
  <2>2. payments' = payments
    BY <1>2 DEF PaymentNotFound, WebhookRefused, Abort, tables
  <2> QED BY <2>1, <2>2, RowsSame, AnsweredRefs DEF Answers
<1>3. CASE NextMonth \/ UNCHANGED vars
  <2>1. UNCHANGED <<payments, pc, tx>>
    BY <1>3 DEF NextMonth, vars, tables
  <2> QED BY <2>1 DEF RefInv, RefsDiffer, RefsOk, Unborn, Holds, Unrecorded, Delivers, Owns, Apart,
                     RefRecorded
<1>4. ASSUME NEW t \in Requests, Receive(t) PROVE RefInv'
  BY <1>4, CreateBillRefs, SubmitProofRefs, BeginRefs DEF Receive
<1>5. ASSUME NEW t \in Requests, Serve(t) PROVE RefInv'
  BY <1>1, <1>2, <1>5, LockPaymentRefs, RejectRefs, WebhookInsertRefs, CommitRefs DEF Serve
<1> QED BY <1>2, <1>3, <1>4, <1>5 DEF Next

LEMMA InitRefs == Init => RefInv
<1> SUFFICES ASSUME Init PROVE RefInv
  OBVIOUS
<1>1. \A p \in PaymentIds : payments[p] # None => payments[p].ref = None
  BY DEF Init, BillRow
<1>2. ASSUME NEW t \in Requests PROVE RefsOk(t) /\ ~Owns(t)
  <2>1. pc[t] = "idle" /\ tx[t].payment = None /\ tx[t].body = None /\ t # None /\ payments[t] = None
    BY TablesAssumption, NoneAssumption DEF Init, Idle, PaymentIds
  <2> QED BY <2>1, NoneAssumption DEF RefsOk, Owns, Unborn, Holds, Unrecorded, Delivers
<1> QED BY <1>1, <1>2, InitTyped DEF RefInv, RefsDiffer, Apart

\* However deliveries of one reference race with each other, with bills made by
\* hand and with verifications of the rows they left, the reference is recorded
\* once; and no delivery is answered as processed whose reference is not there.
THEOREM RefAlwaysRecordedOnce == Spec => []RefRecordedOnce
<1>1. RefInv => RefRecordedOnce
  BY DEF RefInv, RefsDiffer, RefsOk, Delivers, RefRecordedOnce
<1> QED BY <1>1, InitRefs, StepRefs, PTL DEF Spec

-----------------------------------------------------------------------------
(* Money shows.                                                            *)
(*                                                                         *)
(* The sum an invoice has received and its status are committed together,  *)
(* but the status may be another request's: a trigger that finds the       *)
(* status it would write writes nothing.  That is safe because a status    *)
(* that was touched stays touched (Marked says of a request what it says   *)
(* of the tables): nobody writes "issued" once money was seen.             *)

IsTouched(s) == s \in Touched

Marked(t) ==
    /\ pc[t] = "syncing" => tx[t].seen > 0
    /\ \A i \in Invoices :
         /\ tx[t].wrote[i] # None => IsTouched(tx[t].wrote[i])
         /\ tx[t].own[i] > 0 =>
              \/ pc[t] = "syncing" /\ NextAllocation(t).invoice = i
              \/ IsTouched(VisibleStatus(t, i))

ShownInv == TypeInv /\ AllocatedIsVisible /\ \A t \in Requests : Marked(t)

\* A sum above nothing is never "issued".
LEMMA SumIsTouched ==
    ASSUME NEW i \in Invoices, NEW sum \in Nat, sum > 0
    PROVE  IsTouched(StatusFor(sum, i))
BY DEF IsTouched, StatusFor, Touched

\* What a request sees of an invoice another request has committed to.
LEMMA OthersMarked ==
    ASSUME ShownInv, NEW t \in Requests, NEW place, NEW x, Continue(t, place, x),
           \A i \in Invoices : IsTouched(invoiceStatus[i]) => IsTouched(invoiceStatus'[i]),
           NEW u \in Requests, u # t
    PROVE  Marked(u)'
<1>1. pc'[u] = pc[u] /\ tx'[u] = tx[u]
  BY DEF ShownInv, TypeInv, TypeOK, Continue
<1>2. Marked(u)
  BY DEF ShownInv
<1>3. ASSUME NEW i \in Invoices, IsTouched(VisibleStatus(u, i)) PROVE IsTouched(VisibleStatus(u, i)')
  BY <1>1, <1>3 DEF VisibleStatus
<1> QED BY <1>1, <1>2, <1>3 DEF Marked, NextAllocation

\* A step that leaves what a request allocated and wrote.
LEMMA GoesOnMarked ==
    ASSUME ShownInv, UNCHANGED <<allocated, invoiceStatus>>, NEW t \in Requests,
           NEW place, NEW x, Continue(t, place, x), place # "syncing", pc[t] # "syncing",
           x.own = tx[t].own, x.wrote = tx[t].wrote
    PROVE  AllocatedIsVisible' /\ \A u \in Requests : Marked(u)'
<1>1. AllocatedIsVisible'
  BY DEF ShownInv, AllocatedIsVisible
<1>2. pc'[t] = place /\ tx'[t] = x /\ Marked(t)
  BY DEF ShownInv, TypeInv, TypeOK, Continue
<1>3. \A i \in Invoices : VisibleStatus(t, i)' = VisibleStatus(t, i)
  BY <1>2 DEF VisibleStatus
<1>4. Marked(t)'
  BY <1>2, <1>3 DEF Marked
<1> QED BY <1>1, <1>4, OthersMarked

\* A request that has been answered has nothing uncommitted.
LEMMA AnsweredMarked ==
    ASSUME ShownInv, NEW t \in Requests, NEW a \in Answers, Answer(t, a),
           AllocatedIsVisible',
           \A i \in Invoices : IsTouched(invoiceStatus[i]) => IsTouched(invoiceStatus'[i])
    PROVE  \A u \in Requests : Marked(u)'
<1> DEFINE x == Release(t)
<1>1. /\ \A i \in Invoices : x.own[i] = 0 /\ x.wrote[i] = None
      /\ Continue(t, a, x)
  BY DEF Release, Idle, Answer
<1> HIDE DEF x
<1>2. pc'[t] = a /\ tx'[t] = x
  BY <1>1 DEF ShownInv, TypeInv, TypeOK, Continue
<1>3. Marked(t)'
  BY <1>1, <1>2 DEF Marked, Answers
<1> QED BY <1>1, <1>3, OthersMarked

LEMMA InsertMarked ==
    ASSUME ShownInv, NEW t \in Requests, InsertAllocation(t)
    PROVE  AllocatedIsVisible' /\ \A u \in Requests : Marked(u)'
<1> DEFINE i == NextAllocation(t).invoice
           amount == NextAllocation(t).amount
           x == [tx[t] EXCEPT !.own[i] = @ + amount, !.spent = @ + amount,
                              !.seen = allocated[i] + tx[t].own[i] + amount]
<1>1. /\ Continue(t, "syncing", x) /\ allocated' = allocated /\ invoiceStatus' = invoiceStatus
      /\ pc[t] = "allocating" /\ amount > 0
  BY DEF InsertAllocation, tables
<1>2. AllocatedIsVisible'
  BY <1>1 DEF ShownInv, AllocatedIsVisible
<1>3. i \in Invoices /\ amount \in Nat
  BY NextAllocationTyped DEF ShownInv, InsertAllocation
<1>4. pc'[t] = "syncing" /\ tx'[t] = x /\ Marked(t)
  BY <1>1 DEF ShownInv, TypeInv, TypeOK, Continue
<1>5. /\ x.own = [tx[t].own EXCEPT ![i] = @ + amount]
      /\ x.seen = allocated[i] + tx[t].own[i] + amount
      /\ x.wrote = tx[t].wrote /\ x.todo = tx[t].todo
  BY Carried DEF ShownInv, Transaction
<1>6. \A j \in Invoices \ {i} : x.own[j] = tx[t].own[j]
  BY <1>5, Carried DEF ShownInv
<1>7. x.seen > 0
  <2> HIDE DEF i, amount, x
  <2> QED BY <1>1, <1>3, <1>5, InvoiceNumbers DEF ShownInv
<1>8. NextAllocation(t)' = NextAllocation(t)
  BY <1>4, <1>5 DEF NextAllocation
<1>9. \A j \in Invoices : VisibleStatus(t, j)' = VisibleStatus(t, j)
  BY <1>1, <1>4, <1>5 DEF VisibleStatus
<1>10. Marked(t)'
  <2> SUFFICES ASSUME NEW j \in Invoices
               PROVE  /\ x.wrote[j] # None => IsTouched(x.wrote[j])
                      /\ x.own[j] > 0 => i = j \/ IsTouched(VisibleStatus(t, j))
    BY <1>4, <1>7, <1>8, <1>9 DEF Marked
  <2> HIDE DEF i, amount, x
  <2> QED BY <1>1, <1>4, <1>5, <1>6 DEF Marked
<1> QED BY <1>1, <1>2, <1>10, OthersMarked

LEMMA SyncMarked ==
    ASSUME ShownInv, NEW t \in Requests, SyncStatus(t)
    PROVE  AllocatedIsVisible' /\ \A u \in Requests : Marked(u)'
<1>0. PICK i \in Invoices : i = NextAllocation(t).invoice
  BY Carried, NextAllocationTyped DEF ShownInv, SyncStatus, Fits
<1> DEFINE s == StatusFor(tx[t].seen, i)
           x == [tx[t] EXCEPT !.wrote[i] = IF VisibleStatus(t, i) = s THEN @ ELSE s,
                              !.todo = Tail(@), !.seen = 0]
<1>1. /\ Continue(t, "allocating", x) /\ allocated' = allocated /\ invoiceStatus' = invoiceStatus
      /\ pc[t] = "syncing"
  BY <1>0 DEF SyncStatus, tables
<1>2. AllocatedIsVisible'
  BY <1>1 DEF ShownInv, AllocatedIsVisible
<1>4. pc'[t] = "allocating" /\ tx'[t] = x /\ Marked(t)
  BY <1>1 DEF ShownInv, TypeInv, TypeOK, Continue
<1>5. IsTouched(s)
  BY <1>1, <1>4, Carried, SumIsTouched DEF ShownInv, Marked
<1>6. /\ x.own = tx[t].own
      /\ x.wrote = [tx[t].wrote EXCEPT ![i] = IF VisibleStatus(t, i) = s THEN @ ELSE s]
      /\ tx[t].wrote \in [Invoices -> InvoiceStatuses \union {None}]
  BY Carried DEF ShownInv, Transaction
<1> HIDE DEF s, x
<1>7. \A j \in Invoices \ {i} : x.wrote[j] = tx[t].wrote[j] /\ VisibleStatus(t, j)' = VisibleStatus(t, j)
  BY <1>1, <1>4, <1>6 DEF VisibleStatus
<1>8. x.wrote[i] = (IF VisibleStatus(t, i) = s THEN tx[t].wrote[i] ELSE s)
  BY <1>6
<1>9. VisibleStatus(t, i)' = s
  <2>1. s # None
    BY <1>5, NoneAssumption DEF IsTouched, Touched, InvoiceStatuses
  <2> QED BY <1>1, <1>4, <1>8, <2>1 DEF VisibleStatus
<1>10. Marked(t)'
  <2> SUFFICES ASSUME NEW j \in Invoices
               PROVE  /\ x.wrote[j] # None => IsTouched(x.wrote[j])
                      /\ x.own[j] > 0 => IsTouched(VisibleStatus(t, j)')
    BY <1>4 DEF Marked
  <2>1. CASE j = i
    BY <1>4, <1>5, <1>8, <1>9, <2>1 DEF Marked
  <2>2. CASE j # i
    BY <1>0, <1>4, <1>6, <1>7, <2>2 DEF Marked
  <2> QED BY <2>1, <2>2
<1> QED BY <1>1, <1>2, <1>10, OthersMarked

LEMMA CommitMarked ==
    ASSUME ShownInv, NEW t \in Requests, Commit(t)
    PROVE  AllocatedIsVisible' /\ \A u \in Requests : Marked(u)'
<1>1. PICK a \in Answers : Answer(t, a)
  BY DEF Commit, Answers
<1>2. pc[t] # "syncing" /\ Marked(t)
  BY DEF Commit, ShownInv
<1>3. \A i \in Invoices :
         /\ allocated'[i] = allocated[i] + tx[t].own[i]
         /\ invoiceStatus'[i] = VisibleStatus(t, i)
         /\ allocated[i] \in Nat /\ tx[t].own[i] \in Nat
  BY InvoiceNumbers DEF Commit, ShownInv
<1>4. \A i \in Invoices : IsTouched(invoiceStatus[i]) => IsTouched(invoiceStatus'[i])
  BY <1>2, <1>3 DEF VisibleStatus, Marked
<1>5. AllocatedIsVisible'
  <2> SUFFICES ASSUME NEW i \in Invoices, allocated'[i] > 0
               PROVE  IsTouched(invoiceStatus'[i])
    BY DEF AllocatedIsVisible, IsTouched
  <2>1. CASE allocated[i] > 0
    BY <1>4, <2>1 DEF ShownInv, AllocatedIsVisible, IsTouched
  <2>2. CASE tx[t].own[i] > 0
    BY <1>2, <1>3, <2>2 DEF Marked
  <2> QED BY <1>3, <2>1, <2>2
<1> QED BY <1>1, <1>4, <1>5, AnsweredMarked

LEMMA StepShown == ShownInv /\ [Next]_vars => ShownInv'
<1> SUFFICES ASSUME ShownInv, [Next]_vars
             PROVE  AllocatedIsVisible' /\ \A u \in Requests : Marked(u)'
  BY StepTyped DEF ShownInv
<1>1. ASSUME NEW t \in Requests, NEW a \in Answers, Answer(t, a),
             UNCHANGED <<allocated, invoiceStatus>>
      PROVE  AllocatedIsVisible' /\ \A u \in Requests : Marked(u)'
  <2>1. AllocatedIsVisible'
    BY <1>1 DEF ShownInv, AllocatedIsVisible
  <2> QED BY <1>1, <2>1, AnsweredMarked
<1>2. ASSUME NEW t \in Requests, Receive(t)
      PROVE  AllocatedIsVisible' /\ \A u \in Requests : Marked(u)'
  <2>1. CASE CreateBill(t)
    BY <1>1, <2>1 DEF CreateBill, Answers
  <2>2. CASE SubmitProof(t)
    BY <1>1, <2>2 DEF SubmitProof, Answers
  <2>3. CASE BeginVerify(t)
    <3>1. PICK b \in Verifies :
            Continue(t, "locking", [tx[t] EXCEPT !.body = b, !.stamp = clock + 1])
      BY <2>3 DEF BeginVerify
    <3> QED BY <2>3, <3>1, Carried, GoesOnMarked DEF BeginVerify, tables, ShownInv, Transaction
  <2>4. CASE CheckRef(t)
    <3>1. PICK b \in Webhooks, place \in {"duplicate", "inserting"} :
            Continue(t, place, [tx[t] EXCEPT !.body = b])
      BY <2>4 DEF CheckRef
    <3> QED BY <2>4, <3>1, Carried, GoesOnMarked DEF CheckRef, tables, ShownInv, Transaction
  <2> QED BY <1>2, <2>1, <2>2, <2>3, <2>4 DEF Receive
<1>3. ASSUME NEW t \in Requests, Serve(t)
      PROVE  AllocatedIsVisible' /\ \A u \in Requests : Marked(u)'
  <2>1. CASE LockPayment(t) \/ WebhookInsert(t)
    <3>1. PICK place \in {"reading", "allocating"} : \E p, row, todo :
            Continue(t, place, [tx[t] EXCEPT !.payment = p, !.row = row, !.now = month,
                                             !.todo = todo])
      BY <2>1 DEF LockPayment, WebhookInsert
    <3>2. PICK p, row, todo :
            Continue(t, place, [tx[t] EXCEPT !.payment = p, !.row = row, !.now = month,
                                             !.todo = todo])
      BY <3>1
    <3> QED BY <2>1, <3>2, Carried, GoesOnMarked
            DEF LockPayment, WebhookInsert, tables, ShownInv, Transaction
  <2>2. CASE ReadOutstanding(t) \/ SkipAllocation(t)
    <3>1. PICK todo : Continue(t, "allocating", [tx[t] EXCEPT !.todo = todo])
      BY <2>2 DEF ReadOutstanding, SkipAllocation
    <3> QED BY <2>2, <3>1, Carried, GoesOnMarked
            DEF ReadOutstanding, SkipAllocation, tables, ShownInv, Transaction
  <2>3. CASE ReadCredit(t)
    <3>1. PICK x : /\ Continue(t, "committing", x)
                   /\ x = tx[t] \/ \E balance : x = [tx[t] EXCEPT !.balance = balance]
      BY <2>3 DEF ReadCredit
    <3>2. x.own = tx[t].own /\ x.wrote = tx[t].wrote
      BY <3>1, Carried DEF ShownInv, Transaction
    <3> QED BY <2>3, <3>1, <3>2, GoesOnMarked DEF ReadCredit, tables
  <2>4. CASE Reject(t) \/ PaymentNotFound(t) \/ WebhookRefused(t)
    BY <1>1, <2>4 DEF Reject, PaymentNotFound, WebhookRefused, tables, Answers
  <2> QED BY <1>3, <2>1, <2>2, <2>3, <2>4, InsertMarked, SyncMarked, CommitMarked DEF Serve
<1>4. ASSUME NEW t \in Requests, Abort(t)
      PROVE  AllocatedIsVisible' /\ \A u \in Requests : Marked(u)'
  BY <1>1, <1>4 DEF Abort, tables, Answers
<1>5. CASE NextMonth \/ UNCHANGED vars
  <2>1. UNCHANGED <<allocated, invoiceStatus, pc, tx>>
    BY <1>5 DEF NextMonth, vars, tables
  <2> QED BY <2>1 DEF ShownInv, AllocatedIsVisible, Marked, NextAllocation, VisibleStatus
<1> QED BY <1>2, <1>3, <1>4, <1>5 DEF Next

LEMMA InitShown == Init => ShownInv
<1> SUFFICES ASSUME Init PROVE ShownInv
  OBVIOUS
<1>1. \A t \in Requests : Marked(t)
  BY DEF Init, Idle, Marked
<1> QED BY <1>1, InitTyped DEF ShownInv, Init, AllocatedIsVisible

\* No interleaving of payers, not even of two whose triggers read sums that
\* miss each other, leaves an invoice that received money looking untouched.
THEOREM AllocatedAlwaysVisible == Spec => []AllocatedIsVisible
<1>1. ShownInv => AllocatedIsVisible
  BY DEF ShownInv
<1> QED BY <1>1, InitShown, StepShown, PTL DEF Spec

=============================================================================
