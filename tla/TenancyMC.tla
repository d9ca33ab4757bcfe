----------------------------- MODULE TenancyMC -----------------------------
(***************************************************************************)
(* Values of RoomTransfer's constants for TLC.                             *)
(***************************************************************************)
EXTENDS RoomTransfer, TLC

CONSTANTS t1, t2, t3, t4, t5, c1, c2, c3, x1, r1, r2, n1, n2

Contracted(status, room, tenant, start, end, parent) ==
    [status |-> status, room |-> room, tenant |-> tenant, start |-> start, end |-> end,
     version |-> 1, parent |-> parent]

Lived(c, room, start, end) ==
    [contract |-> c, room |-> room, start |-> start, end |-> end, open |-> TRUE]

Signed(cs) == {[contract |-> c, version |-> 1] : c \in cs}

Transition(c, to, day) == [contract |-> c, to |-> to, day |-> day]

Terms(c, start, end) == [contract |-> c, start |-> start, end |-> end]

Moving(c, from, to, day, until, status) ==
    [contract |-> c, from |-> from, to |-> to, day |-> day, until |-> until, status |-> status]

Nothing == {}

\* c1 lives in r1 and has a renewal c3 ready; c2 is about to move into r2,
\* which c1 has asked for.
MCContracts ==
    (c1 :> Contracted("active", r1, n1, 0, 2, None)) @@
    (c2 :> Contracted("scheduled", r2, n2, 1, 3, None)) @@
    (c3 :> Contracted("scheduled", r1, n1, 3, 4, c1))
MCPeriods == {Lived(c1, r1, 0, 2)}
MCRooms == (r1 :> "occupied") @@ (r2 :> "available")
MCAccepted == Signed({c2, c3})
MCTransfers == x1 :> Moving(c1, r1, r2, 1, 2, "pending")
NoTransfers == x1 :> Moving(c1, r1, r2, 1, 2, "rejected")

\* Moves, activations and amendments of the stay they change.
MoveTransitions ==
    {Transition(c2, "active", None), Transition(c3, "active", None),
     Transition(c1, "ended", None), Transition(c2, "terminated", 3)}
MoveAmendments == {Terms(c1, 0, 3), Terms(c1, 0, 1), Terms(c2, 3, 2)}
MoveBookings == {[contract |-> c1, to |-> r2, day |-> 2], [contract |-> c2, to |-> r1, day |-> 3],
                 [contract |-> c1, to |-> r1, day |-> 2]}
MoveReviews == {[transfer |-> x1, to |-> "approved"], [transfer |-> x1, to |-> "cancelled"]}
MoveExecutions == {x1} \union Requests
MoveEdits == {[room |-> r1, status |-> "maintenance"]}

\* A lease from its draft to its renewal, and a tenant who leaves.
RenewContracts ==
    (c1 :> Contracted("active", r1, n1, 0, 1, None)) @@
    (c2 :> Contracted("pending_tenant", r2, n2, 1, 2, None)) @@
    (c3 :> Contracted("cancelled", r2, n1, 1, 1, None))
RenewPeriods == {Lived(c1, r1, 0, 1)}
RenewTransitions ==
    {Transition(c1, "terminated", 0), Transition(c2, "active", None),
     Transition(c2, "cancelled", None), Transition(c3, "active", None)}
      \union {Transition(t, "pending_tenant", None) : t \in Requests}
      \union {Transition(t, "active", None) : t \in Requests}
RenewAcceptances == {c2} \union Requests
RenewAmendments == {Terms(c2, 1, 3), Terms(c1, 0, 2), Terms(c3, 1, 2)}
RenewRenewals == {Terms(c1, 2, 3), Terms(c1, 3, 3)}
RenewExtensions == {[tenant |-> n1, start |-> 2, end |-> 2]}
RenewDrafts == {[room |-> r2, tenant |-> n1, start |-> 0, end |-> 0]}
RenewDepartures == {[tenant |-> n1, to |-> "ended"], [tenant |-> n2, to |-> "terminated"]}

\* Handlers that lock the contract, its room and its parent in every order.
LockContracts ==
    (c1 :> Contracted("active", r1, n1, 0, 0, None)) @@
    (c2 :> Contracted("draft", r2, n2, 0, 1, None)) @@
    (c3 :> Contracted("scheduled", r1, n1, 1, 1, c1))
LockPeriods == {Lived(c1, r1, 0, 0)}
LockAccepted == Signed({c3})
LockTransfers == x1 :> Moving(c1, r1, r2, 0, 0, "approved")
LockTransitions == {Transition(c1, "ended", None), Transition(c3, "active", None)}
LockRenewals == {Terms(c1, 1, 1)}
LockBookings == {[contract |-> c1, to |-> r2, day |-> 0]}
LockDepartures == {[tenant |-> n1, to |-> "ended"]}
LockExecutions == {x1}

\* Two tenants, the second to follow the first into r1.
FollowContracts ==
    (c1 :> Contracted("active", r1, n1, 0, 1, None)) @@
    (c2 :> Contracted("active", r2, n2, 0, 3, None)) @@
    (c3 :> Contracted("cancelled", r2, n1, 1, 1, None))
FollowPeriods == {Lived(c1, r1, 0, 1), Lived(c2, r2, 0, 3)}
FollowRooms == [r \in {r1, r2} |-> "occupied"]
FollowTransfers == x1 :> Moving(c2, r2, r1, 2, 3, "approved")
FollowTransitions == {Transition(c1, "ended", None)}

Symmetry == Permutations(Requests)
=============================================================================
