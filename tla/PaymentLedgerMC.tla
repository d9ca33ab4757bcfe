-------------------------- MODULE PaymentLedgerMC --------------------------
(***************************************************************************)
(* Values of PaymentLedger's constants for TLC.                            *)
(***************************************************************************)
EXTENDS PaymentClaims, TLC

CONSTANTS t1, t2, t3, b1, b2, i1, i2, c1, c2, n1, r1, r2

\* Two contracts of one tenant, each with an imported bill of last month and
\* the invoice it was imported with.
MCContractOf == (b1 :> c1) @@ (b2 :> c2) @@ (i1 :> c1) @@ (i2 :> c2)
MCTenantOf == (c1 :> n1) @@ (c2 :> n1)
MCInvoiceOf == (b1 :> i1) @@ (b2 :> i2)
MCTotalOf == (i1 :> 2) @@ (i2 :> 1)
MCBillMonth == (b1 :> 0) @@ (b2 :> 0)

\* The UUIDs of the two bills begin alike.
MCShortOf == [p \in PaymentIds |-> IF p = b2 THEN b1 ELSE p]

Verify(p, status, amount, allocations, credit) ==
    [payment |-> p, status |-> status, amount |-> amount,
     allocations |-> allocations, credit |-> credit]

To(i, amount) == [invoice |-> i, amount |-> amount]

Notify(ref, i, c, amount) ==
    [ref |-> ref, amount |-> amount, invoice |-> i, contract |-> c]

Nothing == {}

\* Two verifiers that share both invoices, in opposite orders, a third that
\* leaves the allocation to the server, and a provider paying one of them.
RaceVerifies ==
    {Verify(b1, "paid", 3, <<To(i1, 1), To(i1, 0), To(i2, 1)>>, TRUE),
     Verify(b2, "partial", 1, <<To(i2, 1), To(i1, 1)>>, TRUE),
     Verify(b1, "paid", 0, <<>>, TRUE)}
RaceWebhooks == {Notify(r1, i1, None, 1)}
RaceProofs == {[payment |-> b1, amount |-> 3]}

\* Deliveries and retries of two references over two months, with bills made
\* by hand for the same contracts and periods, and verifications of two bills
\* whose receipt numbers clash when they fall in one month.
RetryVerifies ==
    {Verify(b1, "partial", 1, <<>>, FALSE), Verify(b1, "rejected", 0, <<>>, FALSE),
     Verify(b2, "paid", 1, <<>>, FALSE)}
      \union {Verify(t, "paid", 0, <<>>, FALSE) : t \in Requests}
RetryWebhooks ==
    {Notify(r1, i1, None, 2), Notify(r2, None, c2, 1), Notify(r2, i2, None, 1),
     Notify(r1, None, None, 2)}
RetryBills == {[contract |-> c1, month |-> 1], [contract |-> c2, month |-> 2]}

\* One payer of each kind, one after the other or at the same time.
InstalmentVerifies == {Verify(b1, "partial", 1, <<>>, FALSE)}
InstalmentProofs == {[payment |-> b1, amount |-> 1]}
InvoiceWebhooks == {Notify(r1, i1, None, 1)}
CreditVerifies ==
    {Verify(b1, "paid", 3, <<To(i1, 2)>>, TRUE), Verify(b2, "paid", 3, <<To(i2, 1)>>, TRUE)}

Symmetry == Permutations(Requests)
=============================================================================
