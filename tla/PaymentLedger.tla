--------------------------- MODULE PaymentLedger ---------------------------
(***************************************************************************)
(* The payment ledger of one property: the HTTP requests that record       *)
(* payments, and what they do to the PostgreSQL tables behind them.        *)
(*                                                                         *)
(* Source: backend/internal/repository/payment_repository.go (Create,      *)
(* SubmitProof, VerifyPaymentTx, ProcessWebhook, GetReconciliationReport)  *)
(* and backend/migrations/021 and 022 (unique indexes, and the trigger     *)
(* that recomputes an invoice's status at every allocation).               *)
(*                                                                         *)
(* A request runs at READ COMMITTED: every statement sees what is          *)
(* committed when the statement starts, plus the request's own writes, and *)
(* an UPDATE of a row another transaction has written waits for it and     *)
(* then looks at the row again.  So each statement whose answer another    *)
(* request can change is a step of its own here.  A request is served      *)
(* once; a retry is another request with the same body.                    *)
(***************************************************************************)
EXTENDS Integers, Sequences, FiniteSets

CONSTANTS
    Requests,   \* HTTP requests; the row a request creates has its name
    Bills,      \* payments rows imported by migration 021
    Invoices, Contracts, Tenants, Refs,
    ContractOf, \* the contract of each bill and of each invoice
    TenantOf,   \* the user a contract belongs to
    InvoiceOf,  \* payments.invoice_id of each imported bill, or None
    TotalOf,    \* invoices.total_minor, fixed once an invoice is issued
    BillMonth,  \* the billing month of each imported bill
    ShortOf,    \* the first 8 hex digits of each payment's UUID
    Verifies,   \* bodies of PUT  /payments/:id/verify
    Webhooks,   \* bodies of POST /payments/webhook
    Proofs,     \* bodies of POST /payments/:id/proof
    NewBills,   \* bodies of POST /payments
    MaxMonth,   \* bound on the calendar
    None        \* SQL NULL, and "no row"

PaymentIds == Bills \union Requests

PaymentStatuses == {"unpaid", "pending", "paid", "partial", "rejected"}

\* "issued" stands for issued and overdue: nothing here tells them apart.
InvoiceStatuses == {"issued", "partially_paid", "paid"}

Touched == {"partially_paid", "paid"}

Allocation == [invoice : Invoices, amount : Nat]

\* A row of payments.  "ref" is provider_ref; paid_amount_minor and total_paid
\* are always written together, and are "paid" here.
Row == [status : PaymentStatuses, paid : Nat, contract : Contracts,
        tenant : Tenants \union {None}, ref : Refs \union {None},
        month : Nat, invoice : Invoices \union {None}]

Verification == [payment : PaymentIds, status : {"paid", "partial", "rejected"},
                 amount : Nat, allocations : Seq(Allocation), credit : BOOLEAN]

Notice == [ref : Refs, amount : Nat \ {0}, invoice : Invoices \union {None},
           contract : Contracts \union {None}]

Bodies == Verifies \union Webhooks \union {None}

ASSUME TablesAssumption ==
    /\ Bills \intersect Requests = {}
    /\ IsFiniteSet(Requests) /\ IsFiniteSet(Invoices)
    /\ ContractOf \in [Bills \union Invoices -> Contracts]
    /\ TenantOf \in [Contracts -> Tenants]
    /\ InvoiceOf \in [Bills -> Invoices \union {None}]
    /\ TotalOf \in [Invoices -> Nat]
    /\ BillMonth \in [Bills -> Nat]
    /\ DOMAIN ShortOf = PaymentIds
    /\ MaxMonth \in Nat \ {0}

ASSUME BodiesAssumption ==
    /\ Verifies \subseteq Verification
    /\ Webhooks \subseteq Notice
    /\ Proofs \subseteq [payment : PaymentIds, amount : Nat]
    /\ NewBills \subseteq [contract : Contracts, month : Nat]

ASSUME NoneAssumption ==
    /\ None \notin PaymentIds \union Invoices \union Contracts \union Tenants
    /\ None \notin Refs \union Row \union InvoiceStatuses
    /\ None \notin Verifies \union Webhooks

\* uq_payments_contract_period: migration 015 could only build the index if the
\* imported bills of a contract have different months.
ASSUME BillsAssumption ==
    \A a, b \in Bills :
        a # b /\ ContractOf[a] = ContractOf[b] => BillMonth[a] # BillMonth[b]

VARIABLES
    payments,       \* the committed row of each payment, or None
    allocated,      \* per invoice, the sum of its committed allocations
    invoiceStatus,  \* per invoice, its committed status
    credits,        \* tenant_credits
    receipts,       \* payment_receipts
    proofs,         \* payment_proofs
    outbox,         \* notification_outbox
    pc,             \* where each request is, or how it was answered
    tx,             \* what each request has read, and written uncommitted
    clock,          \* verification transactions begun so far
    month           \* the calendar month

tables == <<payments, allocated, invoiceStatus, credits, receipts, proofs, outbox>>

vars == <<tables, pc, tx, clock, month>>

-----------------------------------------------------------------------------
(* Transactions.                                                           *)

\* A request between BEGIN and COMMIT or ROLLBACK, as the database sees it:
\*   payment  the payments row it has locked or inserted
\*   row      its version of that row
\*   todo     the allocations it has still to insert
\*   own      per invoice, the sum of the allocations it inserted
\*   wrote    per invoice, the status it wrote (it then holds the row's lock)
\*   seen     the allocation sum its trigger read last
\*   spent    totalAllocated
\*   balance  the credit balance it read
\*   stamp    its NOW(), the time of BEGIN
\*   now      the month when it read the clock
Idle == [body |-> None, payment |-> None, row |-> None, todo |-> <<>>,
         own |-> [i \in Invoices |-> 0], wrote |-> [i \in Invoices |-> None],
         seen |-> 0, spent |-> 0, balance |-> 0, stamp |-> 0, now |-> 0]

Answers == {"ok", "duplicate", "notfound", "conflict", "error"}

Underway == {"locking", "inserting", "reading", "allocating", "syncing", "committing"}

\* A connection that goes back to the pool with its transaction still open.
ReleaseForgotten(t) == tx[t]

\* ROLLBACK or COMMIT: the row locks and the uncommitted versions are gone.
Release(t) == [Idle EXCEPT !.body = tx[t].body]

\* Request t goes on at "place" and carries x.
Continue(t, place, x) ==
    /\ pc' = [pc EXCEPT ![t] = place]
    /\ tx' = [tx EXCEPT ![t] = x]

Answer(t, a) == Continue(t, a, Release(t))

PaymentLocked(p) == \E u \in Requests : tx[u].payment = p

InvoiceLocked(t, i) == \E u \in Requests \ {t} : tx[u].wrote[i] # None

-----------------------------------------------------------------------------
(* Unique indexes uq_payments_contract_period and uq_payments_provider_ref. *)

\* The unique index of migration 022 dropped.
ClashByPeriod(r, s) == r.contract = s.contract /\ r.month = s.month

Clash(r, s) ==
    \/ r.contract = s.contract /\ r.month = s.month
    \/ r.ref = s.ref /\ r.ref # None

RowTaken(r) == \E p \in PaymentIds : payments[p] # None /\ Clash(payments[p], r)

\* An INSERT waits while another transaction holds an uncommitted equal key.
RowPending(r) == \E u \in Requests : tx[u].payment = u /\ Clash(tx[u].row, r)

RefRecorded(ref) == \E p \in PaymentIds : payments[p] # None /\ payments[p].ref = ref

-----------------------------------------------------------------------------
(* POST /payments and POST /payments/:id/proof.                            *)

BillRow(b) == [status |-> "unpaid", paid |-> 0, contract |-> b.contract,
               tenant |-> TenantOf[b.contract], ref |-> None, month |-> b.month,
               invoice |-> None]

\* One INSERT ... SELECT.  The invoice_id of the request is not a column of it.
CreateBill(t) ==
    /\ pc[t] = "idle"
    /\ \E b \in NewBills :
        \/ /\ ~RowTaken(BillRow(b))
           /\ ~RowPending(BillRow(b))
           /\ payments' = [payments EXCEPT ![t] = BillRow(b)]
           /\ Answer(t, "ok")
        \/ /\ RowTaken(BillRow(b))
           /\ Answer(t, "conflict")
           /\ UNCHANGED payments
    /\ UNCHANGED <<allocated, invoiceStatus, credits, receipts, proofs, outbox, clock, month>>

\* The proof's foreign key waits for a verifier that holds the payment's lock;
\* from there the request cannot be disturbed, so it is one step.
SubmitProof(t) ==
    /\ pc[t] = "idle"
    /\ \E b \in Proofs :
        \/ /\ payments[b.payment] # None
           /\ ~PaymentLocked(b.payment)
           /\ payments' = [payments EXCEPT ![b.payment].status = "pending",
                                           ![b.payment].paid = b.amount]
           /\ proofs' = proofs \union {[payment |-> b.payment, by |-> t, amount |-> b.amount]}
           /\ outbox' = outbox \union {[event |-> "payment_proof_submitted",
                                        payment |-> b.payment, by |-> t]}
           /\ Answer(t, "ok")
        \/ /\ payments[b.payment] = None
           /\ Answer(t, "notfound")
           /\ UNCHANGED <<payments, proofs, outbox>>
    /\ UNCHANGED <<allocated, invoiceStatus, credits, receipts, clock, month>>

-----------------------------------------------------------------------------
(* Steps common to PUT /payments/:id/verify and POST /payments/webhook:    *)
(* the allocations, the trigger they fire, and COMMIT.                     *)

NextAllocation(t) == Head(tx[t].todo)

SkipAllocation(t) ==
    /\ pc[t] = "allocating"
    /\ tx[t].todo # <<>>
    /\ NextAllocation(t).amount = 0
    /\ Continue(t, "allocating", [tx[t] EXCEPT !.todo = Tail(@)])
    /\ UNCHANGED <<tables, clock, month>>

\* INSERT INTO invoice_allocations, up to the SUM its trigger computes.
InsertAllocation(t) ==
    /\ pc[t] = "allocating"
    /\ tx[t].todo # <<>>
    /\ NextAllocation(t).amount > 0
    /\ LET i == NextAllocation(t).invoice
           amount == NextAllocation(t).amount
       IN  Continue(t, "syncing",
               [tx[t] EXCEPT !.own[i] = @ + amount, !.spent = @ + amount,
                             !.seen = allocated[i] + tx[t].own[i] + amount])
    /\ UNCHANGED <<tables, clock, month>>

\* The comparison with the total forgotten.
CoversAnything(sum, total) == sum > 0

Covers(sum, total) == sum >= total /\ total > 0

\* An invoice that is not covered left as it was issued.
StatusForPaidOnly(sum, i) == IF Covers(sum, TotalOf[i]) THEN "paid" ELSE "issued"

StatusFor(sum, i) ==
    CASE Covers(sum, TotalOf[i]) -> "paid"
      [] ~Covers(sum, TotalOf[i]) /\ sum > 0 -> "partially_paid"
      [] OTHER -> "issued"

VisibleStatus(t, i) == IF tx[t].wrote[i] # None THEN tx[t].wrote[i] ELSE invoiceStatus[i]

\* The trigger's UPDATE, WHERE the status differs.  It waits for the row's lock
\* and then compares with the row it finds, but writes what the old SUM said.
MustWait(t) ==
    LET i == NextAllocation(t).invoice
    IN  /\ pc[t] = "syncing"
        /\ VisibleStatus(t, i) # StatusFor(tx[t].seen, i)
        /\ InvoiceLocked(t, i)

SyncStatus(t) ==
    /\ pc[t] = "syncing"
    /\ ~MustWait(t)
    /\ LET i == NextAllocation(t).invoice
           s == StatusFor(tx[t].seen, i)
       IN  Continue(t, "allocating",
               [tx[t] EXCEPT !.wrote[i] = IF VisibleStatus(t, i) = s THEN @ ELSE s,
                             !.todo = Tail(@), !.seen = 0])
    /\ UNCHANGED <<tables, clock, month>>

\* The comparison with what was allocated dropped.
CreditDueOnRequest(t) ==
    /\ tx[t].body \in Verifies
    /\ tx[t].body.credit
    /\ tx[t].row.tenant # None

CreditDue(t) ==
    /\ tx[t].body \in Verifies
    /\ tx[t].body.credit
    /\ tx[t].row.paid > tx[t].spent
    /\ tx[t].row.tenant # None

\* SELECT balance_after_minor ... ORDER BY created_at DESC LIMIT 1, where
\* created_at is the time the inserting transaction began.
ReadCredit(t) ==
    LET mine == {c \in credits : c.tenant = tx[t].row.tenant}
    IN  /\ pc[t] = "allocating"
        /\ tx[t].todo = <<>>
        /\ CreditDue(t)
        /\ \/ mine = {} /\ Continue(t, "committing", tx[t])
           \/ \E c \in mine :
                /\ \A d \in mine : d.stamp <= c.stamp
                /\ Continue(t, "committing", [tx[t] EXCEPT !.balance = c.balance])
        /\ UNCHANGED <<tables, clock, month>>

\* The rows a request leaves behind at the end: the overpayment credit ...
NewCredit(t) ==
    LET amount == tx[t].row.paid - tx[t].spent
    IN  IF CreditDue(t)
        THEN {[tenant |-> tx[t].row.tenant, amount |-> amount,
               balance |-> tx[t].balance + amount, stamp |-> tx[t].stamp]}
        ELSE {}

\* A second receipt under a number already issued.
NewReceiptAlways(t) ==
    {[payment |-> tx[t].payment, month |-> tx[t].now, total |-> tx[t].row.paid, by |-> t]}

\* Receipts left to the verification of bills.
NewReceiptForBills(t) == IF tx[t].payment \in Bills THEN NewReceiptAlways(t) ELSE {}

\* The receipt number is the month and the short form of the payment's id, so two
\* payments can share one (GenerateReceiptNumber).
SameNumber(q, r) == ShortOf[q.payment] = ShortOf[r.payment] /\ q.month = r.month

\* ... and the receipt, ON CONFLICT (receipt_number) DO NOTHING.
NewReceipt(t) ==
    LET r == [payment |-> tx[t].payment, month |-> tx[t].now, total |-> tx[t].row.paid,
              by |-> t]
    IN  IF /\ tx[t].row.tenant # None
           /\ ~\E q \in receipts : SameNumber(q, r)
        THEN {r}
        ELSE {}

Event(t) == IF tx[t].payment = t THEN "webhook_payment_received" ELSE "payment_verified"

\* The answer to a request that committed can still be lost.
Commit(t) ==
    /\ \/ pc[t] = "allocating" /\ tx[t].todo = <<>> /\ ~CreditDue(t)
       \/ pc[t] = "committing"
    /\ payments' = [payments EXCEPT ![tx[t].payment] = tx[t].row]
    /\ allocated' = [i \in Invoices |-> allocated[i] + tx[t].own[i]]
    /\ invoiceStatus' = [i \in Invoices |-> VisibleStatus(t, i)]
    /\ credits' = credits \union NewCredit(t)
    /\ receipts' = receipts \union NewReceipt(t)
    /\ outbox' = outbox \union {[event |-> Event(t), payment |-> tx[t].payment, by |-> t]}
    /\ \E a \in {"ok", "error"} : Answer(t, a)
    /\ UNCHANGED <<proofs, clock, month>>

-----------------------------------------------------------------------------
(* PUT /payments/:id/verify, VerifyPaymentTx.                              *)

BeginVerify(t) ==
    /\ pc[t] = "idle"
    /\ \E b \in Verifies :
        Continue(t, "locking", [tx[t] EXCEPT !.body = b, !.stamp = clock + 1])
    /\ clock' = clock + 1
    /\ UNCHANGED <<tables, month>>

VerifiedAmount(b) == IF b.amount > 0 THEN b.amount ELSE payments[b.payment].paid

\* SELECT ... FOR UPDATE, and the UPDATE of the row it locks.  The status the
\* payment has is not looked at.
LockPayment(t) ==
    LET b == tx[t].body
        row == [payments[b.payment] EXCEPT !.status = b.status, !.paid = VerifiedAmount(b)]
    IN  /\ pc[t] = "locking"
        /\ b.status # "rejected"
        /\ payments[b.payment] # None
        /\ ~PaymentLocked(b.payment)
        /\ Continue(t,
               IF b.allocations = <<>> /\ row.invoice # None THEN "reading" ELSE "allocating",
               [tx[t] EXCEPT !.payment = b.payment, !.row = row, !.now = month,
                             !.todo = b.allocations])
        /\ UNCHANGED <<tables, clock, month>>

\* The status "rejected": one UPDATE and COMMIT.
Reject(t) ==
    LET b == tx[t].body
    IN  /\ pc[t] = "locking"
        /\ b.status = "rejected"
        /\ payments[b.payment] # None
        /\ ~PaymentLocked(b.payment)
        /\ payments' = [payments EXCEPT ![b.payment].status = "rejected"]
        /\ outbox' = outbox \union {[event |-> "payment_rejected",
                                     payment |-> b.payment, by |-> t]}
        /\ Answer(t, "ok")
        /\ UNCHANGED <<allocated, invoiceStatus, credits, receipts, proofs, clock, month>>

PaymentNotFound(t) ==
    /\ pc[t] = "locking"
    /\ payments[tx[t].body.payment] = None
    /\ Answer(t, "notfound")
    /\ UNCHANGED <<tables, clock, month>>

\* No allocations in the request: the linked invoice gets what is outstanding,
\* or the whole amount when nothing is outstanding.
DefaultAmount(paid, i) ==
    IF TotalOf[i] > allocated[i] /\ paid > TotalOf[i] - allocated[i]
    THEN TotalOf[i] - allocated[i]
    ELSE paid

ReadOutstanding(t) ==
    LET i == tx[t].row.invoice
        amount == DefaultAmount(tx[t].row.paid, i)
    IN  /\ pc[t] = "reading"
        /\ Continue(t, "allocating",
               [tx[t] EXCEPT !.todo =
                   IF amount > 0 THEN <<[invoice |-> i, amount |-> amount]>> ELSE <<>>])
        /\ UNCHANGED <<tables, clock, month>>

-----------------------------------------------------------------------------
(* POST /payments/webhook, ProcessWebhook.                                 *)

\* The look-up of the provider's reference, outside the transaction.
CheckRef(t) ==
    /\ pc[t] = "idle"
    /\ \E b \in Webhooks :
        Continue(t, IF RefRecorded(b.ref) THEN "duplicate" ELSE "inserting",
                 [tx[t] EXCEPT !.body = b])
    /\ UNCHANGED <<tables, clock, month>>

\* The tenant of a contract is never found: that query has two parameters and
\* is given one, and its error is dropped.
WebhookRow(b) ==
    LET contract == IF b.invoice # None THEN ContractOf[b.invoice] ELSE b.contract
    IN  [status |-> "paid", paid |-> b.amount, contract |-> contract,
         tenant |-> IF b.invoice # None THEN TenantOf[contract] ELSE None,
         ref |-> b.ref, month |-> month, invoice |-> None]

WebhookAllocations(b) ==
    IF b.invoice = None THEN <<>> ELSE <<[invoice |-> b.invoice, amount |-> b.amount]>>

HasTarget(b) == b.invoice # None \/ b.contract # None

\* BEGIN, and INSERT INTO payments with its two unique indexes.
WebhookInsert(t) ==
    LET b == tx[t].body
        row == WebhookRow(b)
    IN  /\ pc[t] = "inserting"
        /\ HasTarget(b)
        /\ ~RowTaken(row)
        /\ ~RowPending(row)
        /\ Continue(t, "allocating",
               [tx[t] EXCEPT !.payment = t, !.row = row, !.now = month,
                             !.todo = WebhookAllocations(b)])
        /\ UNCHANGED <<tables, clock, month>>

WebhookRefused(t) ==
    LET b == tx[t].body
    IN  /\ pc[t] = "inserting"
        /\ \/ ~HasTarget(b) /\ Answer(t, "error")
           \/ HasTarget(b) /\ RowTaken(WebhookRow(b)) /\ Answer(t, "conflict")
        /\ UNCHANGED <<tables, clock, month>>

-----------------------------------------------------------------------------
(* What can go wrong, and time.                                            *)

\* The client goes away, the connection breaks or the server stops: ROLLBACK.
Abort(t) ==
    /\ pc[t] \in Underway
    /\ Answer(t, "error")
    /\ UNCHANGED <<tables, clock, month>>

\* PostgreSQL ends a cycle of waiting transactions by failing one of them.
WaitsFor(t, u) == t # u /\ MustWait(t) /\ tx[u].wrote[NextAllocation(t).invoice] # None

InCycle(t) ==
    \E cycle \in SUBSET Requests :
        /\ t \in cycle
        /\ \A u \in cycle : \E v, w \in cycle : WaitsFor(u, v) /\ WaitsFor(w, u)

DeadlockVictim == \E t \in Requests : InCycle(t) /\ Abort(t)

NextMonth ==
    /\ month < MaxMonth
    /\ month' = month + 1
    /\ UNCHANGED <<tables, pc, tx, clock>>

-----------------------------------------------------------------------------
Init ==
    /\ payments = [p \in PaymentIds |->
                     IF p \in Bills
                     THEN [BillRow([contract |-> ContractOf[p], month |-> BillMonth[p]])
                             EXCEPT !.invoice = InvoiceOf[p]]
                     ELSE None]
    /\ allocated = [i \in Invoices |-> 0]
    /\ invoiceStatus = [i \in Invoices |-> "issued"]
    /\ credits = {} /\ receipts = {} /\ proofs = {} /\ outbox = {}
    /\ pc = [t \in Requests |-> "idle"]
    /\ tx = [t \in Requests |-> Idle]
    /\ clock = 0
    /\ month = 1

\* A request that has begun goes on until it is answered.
Serve(t) ==
    \/ LockPayment(t) \/ Reject(t) \/ PaymentNotFound(t) \/ ReadOutstanding(t)
    \/ WebhookInsert(t) \/ WebhookRefused(t)
    \/ SkipAllocation(t) \/ InsertAllocation(t) \/ SyncStatus(t)
    \/ ReadCredit(t) \/ Commit(t)

Receive(t) == CreateBill(t) \/ SubmitProof(t) \/ BeginVerify(t) \/ CheckRef(t)

Next ==
    \/ \E t \in Requests : Receive(t) \/ Serve(t) \/ Abort(t)
    \/ NextMonth

Fairness == WF_vars(DeadlockVictim) /\ \A t \in Requests : WF_vars(Serve(t))

Spec == Init /\ [][Next]_vars /\ Fairness

-----------------------------------------------------------------------------
(* Properties.                                                             *)

Transaction ==
    [body : Bodies, payment : PaymentIds \union {None}, row : Row \union {None},
     todo : Seq(Allocation), own : [Invoices -> Nat],
     wrote : [Invoices -> InvoiceStatuses \union {None}],
     seen : Nat, spent : Nat, balance : Nat, stamp : Nat, now : Nat]

\* Every table and every transaction holds values of its columns' types; the
\* amounts, balances and sums are never negative (the CHECKs of migration 022).
TypeOK ==
    /\ payments \in [PaymentIds -> Row \union {None}]
    /\ allocated \in [Invoices -> Nat]
    /\ invoiceStatus \in [Invoices -> InvoiceStatuses]
    /\ credits \subseteq [tenant : Tenants, amount : Nat, balance : Nat, stamp : Nat]
    /\ receipts \subseteq [payment : PaymentIds, month : Nat, total : Nat, by : Requests]
    /\ proofs \subseteq [payment : PaymentIds, by : Requests, amount : Nat]
    /\ \A e \in outbox : e.payment \in PaymentIds /\ e.by \in Requests
    /\ pc \in [Requests -> {"idle"} \union Underway \union Answers]
    /\ tx \in [Requests -> Transaction]
    /\ clock \in Nat
    /\ month \in 1 .. MaxMonth

\* An invoice reads "paid" only when the committed allocations cover its total,
\* however the requests that allocate to it interleave, fail or roll back
\* (the trigger sync_invoice_status_on_allocation).
PaidIsCovered ==
    \A i \in Invoices : invoiceStatus[i] = "paid" => allocated[i] >= TotalOf[i]

\* An invoice that has received money says so: no interleaving of two payers
\* leaves it "issued", which the reminders and the checkout settlement would
\* take for untouched.
AllocatedIsVisible ==
    \A i \in Invoices : allocated[i] > 0 => invoiceStatus[i] \in Touched

\* A provider reference is recorded once, whatever deliveries of it race; a
\* delivery answered "already processed" is in the table, and so is one that
\* was answered "processed" (ProcessWebhook and uq_payments_provider_ref).
RefRecordedOnce ==
    /\ \A p, q \in PaymentIds :
         p # q /\ payments[p] # None /\ payments[q] # None
           => payments[p].ref = None \/ payments[p].ref # payments[q].ref
    /\ \A t \in Requests :
         tx[t].body \in Webhooks /\ pc[t] \in {"ok", "duplicate"} => RefRecorded(tx[t].body.ref)

\* A payment of a known tenant that counts as received has a receipt, its own
\* unless a payment of the same short id has taken the number: whatever proofs,
\* rejections and verifications come between, none is lost but to such a clash,
\* which ON CONFLICT DO NOTHING passes over in silence.
ReceivedHasReceipt ==
    \A p \in PaymentIds :
        /\ payments[p] # None
        /\ payments[p].status \in {"paid", "partial"}
        /\ payments[p].tenant # None
        => \/ \E r \in receipts : r.payment = p
           \/ \E r \in receipts : r.payment # p /\ ShortOf[r.payment] = ShortOf[p]

\* A receipt is never withdrawn or changed, and its number is never given to a
\* second one, even when the payment is verified again.
ReceiptsStand ==
    [][\A r \in receipts : r \in receipts' /\ \A q \in receipts' : SameNumber(q, r) => q = r]_vars

\* Every request that has begun is answered: no two of them wait for each other
\* for ever, and none waits for a lock that is never released.
EveryRequestAnswered ==
    \A t \in Requests : pc[t] \in Underway ~> pc[t] \in Answers

=============================================================================
