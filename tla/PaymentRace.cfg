CONSTANTS
    None = None
    t1 = t1  t2 = t2  t3 = t3
    b1 = b1  b2 = b2
    i1 = i1  i2 = i2
    c1 = c1  c2 = c2
    n1 = n1
    r1 = r1  r2 = r2
    Requests = {t1, t2, t3}
    Bills = {b1, b2}
    Invoices = {i1, i2}
    Contracts = {c1, c2}
    Tenants = {n1}
    Refs = {r1, r2}
    ContractOf <- MCContractOf
    TenantOf <- MCTenantOf
    InvoiceOf <- MCInvoiceOf
    TotalOf <- MCTotalOf
    BillMonth <- MCBillMonth
    ShortOf <- MCShortOf
    Verifies <- RaceVerifies
    Webhooks <- RaceWebhooks
    Proofs <- RaceProofs
    NewBills <- Nothing
    MaxMonth = 1
SPECIFICATION Spec
\* Every request has been answered and the calendar has ended.
CHECK_DEADLOCK FALSE
INVARIANTS
    TypeOK
    PaidIsCovered
    AllocatedIsVisible
PROPERTY EveryRequestAnswered
