CONSTANTS
    None = None
    t1 = t1  t2 = t2  t3 = t3  t4 = t4  t5 = t5
    c1 = c1  c2 = c2  c3 = c3
    x1 = x1
    r1 = r1  r2 = r2
    n1 = n1  n2 = n2
    Requests = {t1, t2, t3}
    Leases = {c1, c2, c3}
    Booked = {x1}
    Rooms = {r1, r2}
    Tenants = {n1, n2}
    Contracts0 <- LockContracts
    Periods0 <- LockPeriods
    Rooms0 <- MCRooms
    Accepted0 <- LockAccepted
    Transfers0 <- LockTransfers
    Drafts <- Nothing
    Transitions <- LockTransitions
    Acceptances <- Nothing
    Amendments <- Nothing
    Renewals <- LockRenewals
    Extensions <- Nothing
    Departures <- LockDepartures
    RoomEdits <- Nothing
    Bookings <- LockBookings
    Reviews <- Nothing
    Executions <- LockExecutions
    MaxDay = 1
SPECIFICATION Spec
\* Every request has been answered and the calendar has ended.
CHECK_DEADLOCK FALSE
PROPERTY EveryRequestAnswered
