CONSTANTS
    None = None
    Clerks = {k1, k2}
    Requests <- FewRequests
    Users = {u1, u2, u3}
    Phones = {p1, p2}
    People = {e1, e2}
    Policies = {1, 2}
    MaxInvitations = 3
    Tenants = {n1, n2}
    Texts = {"a", "b"}
    MaxVersions = 3
    Rooms = {o1, o2}
    Deposit = 3
    Costs = {0, 1}
    Debts = {0, 3}
    MaxCases = 2
SYMMETRY Symmetry
SPECIFICATION Spec
\* The requests run out.
CHECK_DEADLOCK FALSE
INVARIANTS
    OwnerRemains
    OnePending
    SignedAsWritten
    NewestInForce
    FollowsSigned
    OneOpenCase
    SettledAsInspected
    HandedOver
PROPERTIES
    UsedOnce
    CasesStand
