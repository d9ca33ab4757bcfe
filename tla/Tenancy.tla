------------------------------ MODULE Tenancy ------------------------------
(***************************************************************************)
(* Contracts, the occupancy periods they own and the status of the rooms,  *)
(* and the requests that change them.                                      *)
(*                                                                         *)
(* Source: backend/internal/repository/contract_lifecycle_repository.go    *)
(* (Transition, activate, AcceptByTenant, Amend, Renew),                   *)
(* contract_repository.go (Create), user_repository.go (ExtendContract, the *)
(* tenant checkout endTenantContracts), room_repository.go (Update) and    *)
(* backend/migrations/020 (exclusion and unique constraints).              *)
(*                                                                         *)
(* Every handler locks the contract first and keeps the lock until COMMIT. *)
(* A handler is split where it waits for a further lock; the writes of a   *)
(* transaction appear at its last step, because what it has written so far *)
(* is invisible to the others and locked.  A request is served once.       *)
(***************************************************************************)
EXTENDS Integers, FiniteSets

CONSTANTS
    Requests,     \* HTTP requests; the row a request creates has its name
    Leases,       \* contracts that exist already
    Rooms, Tenants,
    Contracts0, Periods0, Rooms0, Accepted0,  \* the tables at the start
    Drafts,       \* bodies of POST /contracts
    Transitions,  \* bodies of POST /contracts/:id/transitions
    Acceptances,  \* contracts whose tenant may accept them
    Amendments,   \* bodies of POST /contracts/:id/amendments
    Renewals,     \* bodies of POST /contracts/:id/renewals
    Extensions,   \* bodies of POST /tenants/:id/extend-contract
    Departures,   \* bodies of POST /tenants/:id/checkout, DELETE /tenants/:id
    RoomEdits,    \* bodies of PUT  /rooms/:id
    MaxDay,       \* bound on the calendar
    None          \* SQL NULL, and "no row"

Contracts == Leases \union Requests

Days == 0 .. MaxDay

Terminal == {"ended", "terminated", "renewed", "cancelled"}

ContractStatuses == {"draft", "pending_tenant", "scheduled", "active"} \union Terminal

RoomStatuses == {"available", "occupied", "maintenance"}

\* A row of contracts.  "version" counts contract_versions; the current version
\* is always the last one.  "parent" is renewed_from_contract_id.
Contract == [status : ContractStatuses, room : Rooms, tenant : Tenants,
             start : Days, end : Days, version : Nat \ {0},
             parent : Contracts \union {None}]

\* A row of occupancy_periods; it is open while closed_at is NULL.
Period == [contract : Contracts, room : Rooms, start : Int, end : Int, open : BOOLEAN]

ASSUME TenancyTablesAssumption ==
    /\ None \notin Contract
    /\ IsFiniteSet(Requests) /\ Leases \intersect Requests = {}
    /\ Contracts0 \in [Leases -> Contract]
    /\ Periods0 \subseteq Period
    /\ Rooms0 \in [Rooms -> RoomStatuses]
    /\ Accepted0 \subseteq [contract : Leases, version : Nat]
    /\ MaxDay \in Nat

ASSUME TenancyBodiesAssumption ==
    /\ Drafts \subseteq [room : Rooms, tenant : Tenants, start : Days, end : Days]
    /\ Transitions \subseteq [contract : Contracts, to : ContractStatuses,
                              day : Days \union {None}]
    /\ Acceptances \subseteq Contracts
    /\ Amendments \union Renewals \subseteq [contract : Contracts, start : Days, end : Days]
    /\ Extensions \subseteq [tenant : Tenants, start : Days, end : Days]
    /\ Departures \subseteq [tenant : Tenants, to : {"ended", "terminated"}]
    /\ RoomEdits \subseteq [room : Rooms, status : RoomStatuses]
    /\ \A b \in Drafts : b.start <= b.end

VARIABLES
    contracts,   \* the committed row of each contract, or None
    accepted,    \* contract_policy_acceptances
    periods,     \* occupancy_periods
    rooms,       \* rooms.status
    pc,          \* where each request is, or how it was answered
    tx,          \* what each request holds and has read
    today        \* the calendar

tenancyTables == <<contracts, accepted, periods, rooms>>

-----------------------------------------------------------------------------
(* Transactions.                                                           *)

\* A request between BEGIN and COMMIT or ROLLBACK:
\*   holds    the rows it has locked
\*   subject  the contract (or transfer) it is about
\*   body     the request, where a later step still reads it
\*   day      the day an ending takes effect
\*   ends     the contracts it is ending
\*   frees    the rooms its UPDATE has decided to set available
Idle == [holds |-> {}, subject |-> None, body |-> None, day |-> 0, ends |-> {}, frees |-> {}]

\* A connection that goes back to the pool with its transaction still open.
ReleaseForgotten(t) == tx[t]

Release(t) == Idle

Continue(t, place, x) ==
    /\ pc' = [pc EXCEPT ![t] = place]
    /\ tx' = [tx EXCEPT ![t] = x]

Answer(t, a) == Continue(t, a, Release(t))

\* No other request has locked the row.
Free(t, row) == \A u \in Requests \ {t} : row \notin tx[u].holds

Exists(c) == contracts[c] # None

-----------------------------------------------------------------------------
(* Occupancy periods and their constraints.                                *)

Overlap(a, b) == a.start <= b.end /\ b.start <= a.end

\* The exclusion constraint with WHERE (closed_at IS NULL) added.
ClashWhileOpen(p, q) == p.open /\ q.open /\ p.room = q.room /\ Overlap(p, q)

\* occupancy_room_no_overlap: it looks at closed periods too.
PeriodClash(p, q) == p.room = q.room /\ Overlap(p, q)

\* What the constraints of migration 020 let a statement leave behind.
Storable(ps) ==
    /\ \A p \in ps : p.start <= p.end
    /\ \A p, q \in ps : p # q => ~PeriodClash(p, q)
    /\ \A p, q \in ps : p.open /\ q.open /\ p.contract = q.contract => p = q

OpenOf(c) == {p \in periods : p.contract = c /\ p.open}

OpenIn(r) == {p \in periods : p.room = r /\ p.open}

NewPeriod(c, r, from, to) ==
    [contract |-> c, room |-> r, start |-> from, end |-> to, open |-> TRUE]

\* A contract that was activated, whatever became of it.
Began == {"active", "ended", "terminated", "renewed"}

\* The tables at the start are such as the handlers leave behind; what is active
\* began on the calendar's first day.
ASSUME TenancyHistoryAssumption ==
    /\ \A c \in Leases :
        LET lease == Contracts0[c]
        IN  /\ lease.start <= lease.end
            /\ lease.parent \in Leases \union {None}
            /\ lease.status = "active" => lease.start = 0
            /\ lease.status = "scheduled" =>
                 [contract |-> c, version |-> lease.version] \in Accepted0
            /\ lease.status = "renewed" =>
                 \E d \in Leases : /\ Contracts0[d].parent = c
                                  /\ Contracts0[d].start = lease.end + 1
                                  /\ Contracts0[d].status \in Began
            /\ lease.status = "active" =>
                 {p \in Periods0 : p.contract = c}
                   = {NewPeriod(c, lease.room, lease.start, lease.end)}
    /\ \A p \in Periods0 :
        /\ p.contract \in Leases /\ Contracts0[p.contract].status \in Began
        /\ p.open => Contracts0[p.contract].status = "active"
    /\ Storable(Periods0)

Earlier(a, b) == IF a < b THEN a ELSE b

\* The WHERE closed_at IS NULL forgotten.
ClosedForAll(cs, day) ==
    {IF p.contract \in cs THEN [p EXCEPT !.open = FALSE, !.end = Earlier(@, day)] ELSE p :
        p \in periods}

\* UPDATE occupancy_periods SET end_date=LEAST(end_date, day), closed_at=NOW().
Closed(cs, day) ==
    {IF p.contract \in cs /\ p.open
       THEN [p EXCEPT !.open = FALSE, !.end = Earlier(@, day)] ELSE p : p \in periods}

-----------------------------------------------------------------------------
(* Drafts, acceptance and the transitions that touch one contract only.    *)

NewContract(b, tenant, room, parent) ==
    [status |-> "draft", room |-> room, tenant |-> tenant, start |-> b.start,
     end |-> b.end, version |-> 1, parent |-> parent]

\* The INSERT's foreign key waits for a lock on the room.
CreateContract(t) ==
    /\ pc[t] = "idle"
    /\ \E b \in Drafts :
        /\ Free(t, b.room)
        /\ contracts' = [contracts EXCEPT ![t] = NewContract(b, b.tenant, b.room, None)]
    /\ Answer(t, "ok")
    /\ UNCHANGED <<accepted, periods, rooms, today>>

CanTransition(from, to) ==
    \/ from = "draft" /\ to \in {"pending_tenant", "cancelled"}
    \/ from = "pending_tenant" /\ to \in {"scheduled", "cancelled"}
    \/ from = "scheduled" /\ to \in {"active", "cancelled"}
    \/ from = "active" /\ to \in {"ended", "terminated", "renewed"}

IsCurrent(c) == contracts[c].start <= today /\ today <= contracts[c].end

IsAccepted(c) == [contract |-> c, version |-> contracts[c].version] \in accepted

EndDay(b) == IF b.day = None THEN today ELSE b.day

\* What Transition asks of the locked contract before it looks at a room.
\* (The tenant's profile, KTP and house rules may be missing: see Abort.)
MayTransition(b) ==
    LET c == b.contract
    IN  /\ CanTransition(contracts[c].status, b.to)
        /\ b.to \notin {"scheduled", "renewed"}
        /\ b.to = "active" => IsCurrent(c) /\ IsAccepted(c)
        /\ b.to \in {"ended", "terminated"} =>
             /\ EndDay(b) >= contracts[c].start
             /\ Storable(Closed({c}, EndDay(b)))

RefuseTransition(t) ==
    /\ pc[t] = "idle"
    /\ \E b \in Transitions :
        \/ ~Exists(b.contract)
        \/ Exists(b.contract) /\ Free(t, b.contract) /\ ~MayTransition(b)
    /\ Answer(t, "refused")
    /\ UNCHANGED <<tenancyTables, today>>

OfferOrCancel(t) ==
    /\ pc[t] = "idle"
    /\ \E b \in Transitions :
        /\ b.to \in {"pending_tenant", "cancelled"}
        /\ Exists(b.contract) /\ Free(t, b.contract)
        /\ MayTransition(b)
        /\ contracts' = [contracts EXCEPT ![b.contract].status = b.to]
    /\ Answer(t, "ok")
    /\ UNCHANGED <<accepted, periods, rooms, today>>

\* It is the contract's current version that is accepted.
AcceptByTenant(t) ==
    /\ pc[t] = "idle"
    /\ \E c \in Acceptances :
        \/ /\ Exists(c) /\ Free(t, c)
           /\ contracts[c].status = "pending_tenant"
           /\ accepted' = accepted \union {[contract |-> c, version |-> contracts[c].version]}
           /\ contracts' = [contracts EXCEPT ![c].status = "scheduled"]
           /\ Answer(t, "ok")
        \/ /\ Exists(c) => Free(t, c) /\ contracts[c].status # "pending_tenant"
           /\ Answer(t, "refused")
           /\ UNCHANGED <<accepted, contracts>>
    /\ UNCHANGED <<periods, rooms, today>>

\* An amendment of a scheduled contract keeps it scheduled.
StatusAsItWas(status) == status

\* A scheduled contract goes back to the tenant for review.
StatusAfterAmendment(status) == IF status = "scheduled" THEN "pending_tenant" ELSE status

PeriodsAfterAmendment(b) ==
    {IF p.contract = b.contract /\ p.open /\ contracts[b.contract].status = "active"
       THEN [p EXCEPT !.end = b.end] ELSE p : p \in periods}

\* The order of the dates left to nobody, neither handler nor CHECK.
MayAmendToAnyDates(b) ==
    LET c == contracts[b.contract]
    IN  /\ c.status \notin Terminal
        /\ c.status = "active" => b.start = c.start /\ b.end >= today
        /\ Storable(PeriodsAfterAmendment(b))

MayAmend(b) ==
    LET c == contracts[b.contract]
    IN  /\ c.status \notin Terminal
        /\ c.status = "active" => b.start = c.start /\ b.end >= today
        /\ b.start <= b.end
        /\ Storable(PeriodsAfterAmendment(b))

Amend(t) ==
    /\ pc[t] = "idle"
    /\ \E b \in Amendments :
        /\ Exists(b.contract) => Free(t, b.contract)
        /\ \/ /\ Exists(b.contract) /\ MayAmend(b)
              /\ contracts' = [contracts EXCEPT
                     ![b.contract].start = b.start, ![b.contract].end = b.end,
                     ![b.contract].version = @ + 1,
                     ![b.contract].status = StatusAfterAmendment(@)]
              /\ periods' = PeriodsAfterAmendment(b)
              /\ Answer(t, "ok")
           \/ /\ Exists(b.contract) => ~MayAmend(b)
              /\ Answer(t, "refused")
              /\ UNCHANGED <<contracts, periods>>
    /\ UNCHANGED <<accepted, rooms, today>>

-----------------------------------------------------------------------------
(* Activation: the contract, then its room, then for a renewal the parent. *)

BeginActivation(t) ==
    /\ pc[t] = "idle"
    /\ \E b \in Transitions :
        /\ b.to = "active"
        /\ Exists(b.contract) /\ Free(t, b.contract)
        /\ MayTransition(b)
        /\ Continue(t, "activating",
               [Idle EXCEPT !.holds = {b.contract}, !.subject = b.contract])
    /\ UNCHANGED <<tenancyTables, today>>

ParentOccupies(c) == \E p \in OpenOf(contracts[c].parent) : p.room = contracts[c].room

\* The two questions activate asks of the room it has locked.
RoomAdmits(c) ==
    LET lease == contracts[c]
    IN  /\ rooms[lease.room] = "available" \/ ParentOccupies(c)
        /\ ~\E p \in periods :
              /\ p.room = lease.room
              /\ p.contract \notin {c, lease.parent}
              /\ Overlap(p, lease)

FirstPeriod(c) == NewPeriod(c, contracts[c].room, contracts[c].start, contracts[c].end)

\* The rest of activate for a contract that renews nothing, and COMMIT.
Activate(t) ==
    LET c == tx[t].subject
        r == contracts[c].room
    IN  /\ pc[t] = "activating"
        /\ Free(t, r)
        /\ RoomAdmits(c)
        /\ contracts[c].parent = None
        /\ Storable(periods \union {FirstPeriod(c)})
        /\ contracts' = [contracts EXCEPT ![c].status = "active"]
        /\ periods' = periods \union {FirstPeriod(c)}
        /\ rooms' = [rooms EXCEPT ![r] = "occupied"]
        /\ Answer(t, "ok")
        /\ UNCHANGED <<accepted, today>>

LockRoomOfRenewal(t) ==
    LET c == tx[t].subject
        r == contracts[c].room
    IN  /\ pc[t] = "activating"
        /\ Free(t, r)
        /\ RoomAdmits(c)
        /\ contracts[c].parent # None
        /\ Continue(t, "succeeding", [tx[t] EXCEPT !.holds = @ \union {r}])
        /\ UNCHANGED <<tenancyTables, today>>

RefuseRoom(t) ==
    LET c == tx[t].subject
    IN  /\ pc[t] = "activating"
        /\ Free(t, contracts[c].room)
        /\ \/ ~RoomAdmits(c)
           \/ contracts[c].parent = None /\ ~Storable(periods \union {FirstPeriod(c)})
        /\ Answer(t, "refused")
        /\ UNCHANGED <<tenancyTables, today>>

\* The parent is not looked at again after it was locked.
FollowsAnyone(c, parent) == TRUE

\* The parent's status is not looked at again.
FollowsByDate(c, parent) == c.start = parent.end + 1

Follows(c, parent) == parent.status = "active" /\ c.start = parent.end + 1

\* Closing the parent's period leaves its end as it was.
PeriodsAfterSuccession(c) ==
    Closed({contracts[c].parent}, MaxDay) \union {FirstPeriod(c)}

MaySucceed(c) ==
    /\ Follows(contracts[c], contracts[contracts[c].parent])
    /\ Storable(PeriodsAfterSuccession(c))

Succeed(t) ==
    LET c == tx[t].subject
        parent == contracts[c].parent
    IN  /\ pc[t] = "succeeding"
        /\ Free(t, parent)
        /\ MaySucceed(c)
        /\ contracts' = [contracts EXCEPT ![c].status = "active", ![parent].status = "renewed"]
        /\ periods' = PeriodsAfterSuccession(c)
        /\ rooms' = [rooms EXCEPT ![contracts[c].room] = "occupied"]
        /\ Answer(t, "ok")
        /\ UNCHANGED <<accepted, today>>

RefuseSuccession(t) ==
    LET c == tx[t].subject
    IN  /\ pc[t] = "succeeding"
        /\ Free(t, contracts[c].parent)
        /\ ~MaySucceed(c)
        /\ Answer(t, "refused")
        /\ UNCHANGED <<tenancyTables, today>>

-----------------------------------------------------------------------------
(* Renewal: the parent is locked, the child is inserted in its room.       *)

MayRenew(parent, b) ==
    /\ parent.status = "active"
    /\ b.start = parent.end + 1
    /\ b.start <= b.end

StartRenewal(t, c, b) ==
    Continue(t, "renewing", [Idle EXCEPT !.holds = {c}, !.subject = c, !.body = b])

BeginRenewal(t) ==
    /\ pc[t] = "idle"
    /\ \E b \in Renewals :
        LET c == b.contract
        IN  /\ Exists(c) => Free(t, c)
            /\ \/ Exists(c) /\ MayRenew(contracts[c], b) /\ StartRenewal(t, c, b)
               \/ (Exists(c) => ~MayRenew(contracts[c], b)) /\ Answer(t, "refused")
    /\ UNCHANGED <<tenancyTables, today>>

ActiveOf(n) ==
    {c \in Contracts : Exists(c) /\ contracts[c].status = "active" /\ contracts[c].tenant = n}

\* The same for the tenant's newest active contract (any of them: the order in
\* which they were created is not kept).
BeginExtension(t) ==
    /\ pc[t] = "idle"
    /\ \E b \in Extensions :
        \/ \E c \in ActiveOf(b.tenant) :
            /\ Free(t, c)
            /\ \/ MayRenew(contracts[c], b) /\ StartRenewal(t, c, b)
               \/ ~MayRenew(contracts[c], b) /\ Answer(t, "refused")
        \/ ActiveOf(b.tenant) = {} /\ Answer(t, "refused")
    /\ UNCHANGED <<tenancyTables, today>>

HasRenewal(c) == \E d \in Contracts : Exists(d) /\ contracts[d].parent = c

\* The foreign key waits for the room; uq_contract_renewal_child may refuse.
InsertRenewal(t) ==
    LET c == tx[t].subject
        parent == contracts[c]
    IN  /\ pc[t] = "renewing"
        /\ Free(t, parent.room)
        /\ \/ /\ ~HasRenewal(c)
              /\ contracts' = [contracts EXCEPT
                     ![t] = NewContract(tx[t].body, parent.tenant, parent.room, c)]
              /\ Answer(t, "ok")
           \/ /\ HasRenewal(c)
              /\ Answer(t, "refused")
              /\ UNCHANGED contracts
        /\ UNCHANGED <<accepted, periods, rooms, today>>

-----------------------------------------------------------------------------
(* The end of a contract, and the tenant's checkout.                       *)

\* UPDATE rooms ... WHERE NOT EXISTS(an open period of another contract): the
\* subquery is answered when the statement starts, and it is not asked again
\* after the statement has waited for the room's lock.
BeginEnd(t) ==
    /\ pc[t] = "idle"
    /\ \E b \in Transitions :
        LET c == b.contract
            r == contracts[c].room
        IN  /\ b.to \in {"ended", "terminated"}
            /\ Exists(c) /\ Free(t, c)
            /\ MayTransition(b)
            /\ Continue(t, "freeing",
                   [holds |-> {c}, subject |-> c, body |-> b, day |-> EndDay(b), ends |-> {c},
                    frees |-> IF OpenIn(r) \subseteq OpenOf(c) THEN {r} ELSE {}])
    /\ UNCHANGED <<tenancyTables, today>>

\* endTenantContracts ends every active contract of the tenant and frees their
\* rooms without asking.  The rows of its one SELECT are locked in one step.
BeginDeparture(t) ==
    /\ pc[t] = "idle"
    /\ \E b \in Departures :
        LET active == ActiveOf(b.tenant)
            mayLeave == active # {} /\ Storable(Closed(active, today))
        IN  /\ \A c \in active : Free(t, c)
            /\ \/ /\ mayLeave
                  /\ Continue(t, "freeing",
                         [holds |-> active, subject |-> None, body |-> b, day |-> today,
                          ends |-> active, frees |-> {contracts[c].room : c \in active}])
               \/ ~mayLeave /\ Answer(t, "refused")
    /\ UNCHANGED <<tenancyTables, today>>

\* CURRENT_DATE becomes the end of a contract that a checkout ends.
EndAfter(t, c) == IF tx[t].body \in Departures THEN tx[t].day ELSE contracts[c].end

FreeRooms(t) ==
    /\ pc[t] = "freeing"
    /\ \A r \in tx[t].frees : Free(t, r)
    /\ contracts' = [c \in Contracts |->
                       IF c \in tx[t].ends
                       THEN [contracts[c] EXCEPT !.status = tx[t].body.to, !.end = EndAfter(t, c)]
                       ELSE contracts[c]]
    /\ periods' = Closed(tx[t].ends, tx[t].day)
    /\ rooms' = [r \in Rooms |-> IF r \in tx[t].frees THEN "available" ELSE rooms[r]]
    /\ Answer(t, "ok")
    /\ UNCHANGED <<accepted, today>>

\* PUT /rooms/:id writes the status the client sends.
EditRoom(t) ==
    /\ pc[t] = "idle"
    /\ \E b \in RoomEdits :
        /\ Free(t, b.room)
        /\ rooms' = [rooms EXCEPT ![b.room] = b.status]
    /\ Answer(t, "ok")
    /\ UNCHANGED <<contracts, accepted, periods, today>>

-----------------------------------------------------------------------------
TenancyInit ==
    /\ contracts = [c \in Contracts |-> IF c \in Leases THEN Contracts0[c] ELSE None]
    /\ accepted = Accepted0
    /\ periods = Periods0
    /\ rooms = Rooms0
    /\ pc = [t \in Requests |-> "idle"]
    /\ tx = [t \in Requests |-> Idle]
    /\ today = 0

NextDay ==
    /\ today < MaxDay
    /\ today' = today + 1
    /\ UNCHANGED <<tenancyTables, pc, tx>>

\* A request of this module that has begun goes on until it is answered.
ServeTenancy(t) ==
    \/ Activate(t) \/ LockRoomOfRenewal(t) \/ RefuseRoom(t)
    \/ Succeed(t) \/ RefuseSuccession(t)
    \/ InsertRenewal(t) \/ FreeRooms(t)

ReceiveTenancy(t) ==
    \/ CreateContract(t) \/ RefuseTransition(t) \/ OfferOrCancel(t)
    \/ AcceptByTenant(t) \/ Amend(t)
    \/ BeginActivation(t) \/ BeginRenewal(t) \/ BeginExtension(t)
    \/ BeginEnd(t) \/ BeginDeparture(t) \/ EditRoom(t)

\* The room a request of this module waits for, or the renewed contract.
WantedInTenancy(t) ==
    CASE pc[t] \in {"activating", "renewing"} -> {contracts[tx[t].subject].room}
      [] pc[t] = "succeeding" -> {contracts[tx[t].subject].parent}
      [] pc[t] = "freeing" -> tx[t].frees
      [] OTHER -> {}
=============================================================================
