--------------------------- MODULE PaymentClaims ---------------------------
(***************************************************************************)
(* The report of GetReconciliationReport, and what the code's comment and  *)
(* the test plan say of it, which PaymentLedger does not satisfy.          *)
(***************************************************************************)
EXTENDS PaymentLedger, FiniteSetsExt

\* The report's four sums, over a window that holds everything; refunds are
\* not part of its balance.
Received ==
    MapThenSumSet(LAMBDA p : payments[p].paid,
        {p \in PaymentIds : payments[p] # None /\ payments[p].status \in {"paid", "partial"}})

TotalAllocated == MapThenSumSet(LAMBDA i : allocated[i], Invoices)

CreditsCreated == MapThenSumSet(LAMBDA c : c.amount, credits)

Unallocated ==
    LET rest == Received - TotalAllocated - CreditsCreated
    IN  IF rest < 0 THEN 0 ELSE rest

IsBalanced == Received = TotalAllocated + Unallocated + CreditsCreated

\* The reconciliation report is balanced (test case PVR-05 expects it whatever
\* was done before).  A second proof resets the amount and the status of a
\* payment whose first instalment is already allocated.
ReconciliationBalanced == IsBalanced
=============================================================================
