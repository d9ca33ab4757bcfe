---------------------------- MODULE RoomTransfer ----------------------------
(***************************************************************************)
(* Room transfers beside the contract lifecycle of Tenancy.                *)
(*                                                                         *)
(* Source: backend/internal/repository/room_transfer_repository.go         *)
(* (CreateTransferRequest, ApproveTransfer, RejectTransfer,                *)
(* CancelTransfer, ExecuteTransfer) and backend/migrations/023.            *)
(*                                                                         *)
(* An execution locks the transfer, both rooms and then the contract; the  *)
(* lifecycle locks the contract and then its room.                         *)
(***************************************************************************)
EXTENDS Tenancy

CONSTANTS
    Booked,       \* room_transfers rows that exist already
    Transfers0,   \* those rows
    Bookings,     \* bodies of POST /room-transfers
    Reviews,      \* bodies of approve, reject and cancel
    Executions    \* transfers that may be executed

Transfers == Booked \union Requests

Held == {"pending", "approved"}

TransferStatuses == Held \union {"completed", "rejected", "cancelled"}

\* A row of room_transfers: the move of "contract" on "day"; "until" is the
\* target_end_date, copied from the contract.
Transfer == [contract : Contracts, from : Rooms, to : Rooms, day : Days, until : Days,
             status : TransferStatuses]

ASSUME TransferAssumption ==
    /\ Booked \intersect (Leases \union Requests) = {}
    /\ Transfers0 \in [Booked -> Transfer] /\ None \notin Transfer
    /\ \A i \in Booked :
        /\ Transfers0[i].contract \in Leases
        /\ Contracts0[Transfers0[i].contract].status \in Began
        /\ Contracts0[Transfers0[i].contract].start <= Transfers0[i].day
    /\ Bookings \subseteq [contract : Contracts, to : Rooms, day : Days]
    /\ Reviews \subseteq [transfer : Transfers, to : {"approved", "rejected", "cancelled"}]
    /\ Executions \subseteq Transfers

VARIABLE transfers   \* the committed row of each transfer, or None

tables == <<tenancyTables, transfers>>

vars == <<tables, pc, tx, today>>

-----------------------------------------------------------------------------
(* Availability and reservation.                                           *)

Stay(from, until) == [start |-> from, end |-> until]

\* Unlike activate, a transfer looks at open periods only.
TakenByOther(c, r, stay) ==
    \E p \in OpenIn(r) : p.contract # c /\ Overlap(p, stay)

StayOf(x) == Stay(x.day, x.until)

\* room_transfers_target_no_overlap.
Reserved(x) ==
    \E y \in Transfers :
        /\ transfers[y] # None
        /\ transfers[y].status \in Held
        /\ transfers[y].to = x.to
        /\ Overlap(StayOf(transfers[y]), StayOf(x))

-----------------------------------------------------------------------------
(* POST /room-transfers.                                                   *)

\* The contract is read before the transaction begins.
BeginBooking(t) ==
    /\ pc[t] = "idle"
    /\ \E b \in Bookings :
        LET c == contracts[b.contract]
            mayMove == /\ c # None
                       /\ c.status = "active"
                       /\ c.room # b.to
                       /\ c.start <= b.day /\ b.day <= c.end
        IN  \/ /\ mayMove
               /\ Continue(t, "booking",
                      [Idle EXCEPT !.subject = b.contract,
                         !.body = [contract |-> b.contract, from |-> c.room, to |-> b.to,
                                   day |-> b.day, until |-> c.end, status |-> "pending"]])
            \/ ~mayMove /\ Answer(t, "refused")
    /\ UNCHANGED <<tables, today>>

LockTarget(t) ==
    LET x == tx[t].body
    IN  /\ pc[t] = "booking"
        /\ Free(t, x.to)
        /\ \/ /\ ~TakenByOther(x.contract, x.to, StayOf(x))
              /\ Continue(t, "reserving", [tx[t] EXCEPT !.holds = {x.to}])
           \/ /\ TakenByOther(x.contract, x.to, StayOf(x))
              /\ Answer(t, "refused")
        /\ UNCHANGED <<tables, today>>

\* The INSERT's foreign keys wait for the contract and for the room it leaves.
InsertTransfer(t) ==
    LET x == tx[t].body
    IN  /\ pc[t] = "reserving"
        /\ Free(t, x.contract) /\ Free(t, x.from)
        /\ \/ /\ ~Reserved(x)
              /\ transfers' = [transfers EXCEPT ![t] = x]
              /\ Answer(t, "ok")
           \/ /\ Reserved(x)
              /\ Answer(t, "refused")
              /\ UNCHANGED transfers
        /\ UNCHANGED <<tenancyTables, today>>

-----------------------------------------------------------------------------
(* /room-transfers/:id/approve, /reject and /cancel.                       *)

MayReview(x, to) ==
    IF to = "approved"
    THEN x.status = "pending" /\ ~TakenByOther(x.contract, x.to, StayOf(x))
    ELSE x.status \in Held

Review(t) ==
    /\ pc[t] = "idle"
    /\ \E b \in Reviews :
        LET x == transfers[b.transfer]
        IN  /\ x # None => Free(t, b.transfer)
            /\ \/ /\ x # None /\ MayReview(x, b.to)
                  /\ transfers' = [transfers EXCEPT ![b.transfer].status = b.to]
                  /\ Answer(t, "ok")
               \/ /\ x # None => ~MayReview(x, b.to)
                  /\ Answer(t, "refused")
                  /\ UNCHANGED transfers
    /\ UNCHANGED <<tenancyTables, today>>

-----------------------------------------------------------------------------
(* POST /room-transfers/:id/execute.                                       *)

Subject(t) == transfers[tx[t].subject]

BeginExecution(t) ==
    /\ pc[t] = "idle"
    /\ \E i \in Executions :
        LET x == transfers[i]
        IN  \/ /\ x # None /\ Free(t, i)
               /\ x.status \in Held
               /\ Continue(t, "leaving", [Idle EXCEPT !.holds = {i}, !.subject = i])
            \/ /\ x # None => Free(t, i) /\ x.status \notin Held
               /\ Answer(t, "refused")
    /\ UNCHANGED <<tables, today>>

LockFromRoom(t) ==
    /\ pc[t] = "leaving"
    /\ Free(t, Subject(t).from)
    /\ Continue(t, "entering", [tx[t] EXCEPT !.holds = @ \union {Subject(t).from}])
    /\ UNCHANGED <<tables, today>>

LockToRoom(t) ==
    /\ pc[t] = "entering"
    /\ Free(t, Subject(t).to)
    /\ Continue(t, "moving", [tx[t] EXCEPT !.holds = @ \union {Subject(t).to}])
    /\ UNCHANGED <<tables, today>>

\* The last day in the old room one day early.
LastDayEarly(x, c) == IF x.day - 2 < c.start THEN c.start ELSE x.day - 2

LastDay(x, c) == IF x.day - 1 < c.start THEN c.start ELSE x.day - 1

\* The end that was booked instead of the contract's.
EndAsBooked(x, c) == x.until

EndOfStay(x, c) == c.end

\* UPDATE occupancy_periods ... AND room_id = from_room_id AND closed_at IS NULL.
OldPeriodClosed(x, c) ==
    {IF p.contract = x.contract /\ p.room = x.from /\ p.open
       THEN [p EXCEPT !.open = FALSE, !.end = Earlier(@, LastDay(x, c))] ELSE p : p \in periods}

NextPeriod(x, c) == NewPeriod(x.contract, x.to, x.day, EndOfStay(x, c))

PeriodsAfterMove(x, c) == OldPeriodClosed(x, c) \union {NextPeriod(x, c)}

\* What the code asks, and what the constraints ask of either statement: a row
\* like one that is there would overlap it.
MayMove(x, c) ==
    /\ c.status = "active"
    /\ x.day <= c.end
    /\ ~TakenByOther(x.contract, x.to, Stay(x.day, c.end))
    /\ \A p \in OldPeriodClosed(x, c) : p.start <= p.end
    /\ NextPeriod(x, c) \notin OldPeriodClosed(x, c)
    /\ Storable(PeriodsAfterMove(x, c))

EmptyRoom(r, ps) == ~\E p \in ps : p.room = r /\ p.open

\* The contract's lock, and all that follows it up to COMMIT.
Move(t) ==
    LET x == Subject(t)
        c == contracts[x.contract]
    IN  /\ pc[t] = "moving"
        /\ Free(t, x.contract)
        /\ MayMove(x, c)
        /\ periods' = PeriodsAfterMove(x, c)
        /\ contracts' = [contracts EXCEPT ![x.contract].room = x.to,
                                          ![x.contract].version = @ + 1]
        /\ rooms' = [rooms EXCEPT
               ![x.from] = IF EmptyRoom(x.from, PeriodsAfterMove(x, c)) THEN "available" ELSE @,
               ![x.to] = "occupied"]
        /\ transfers' = [transfers EXCEPT ![tx[t].subject].status = "completed"]
        /\ Answer(t, "ok")
        /\ UNCHANGED <<accepted, today>>

RefuseMove(t) ==
    LET x == Subject(t)
    IN  /\ pc[t] = "moving"
        /\ Free(t, x.contract)
        /\ ~MayMove(x, contracts[x.contract])
        /\ Answer(t, "refused")
        /\ UNCHANGED <<tables, today>>

-----------------------------------------------------------------------------
(* What can go wrong.                                                      *)

Underway == {"activating", "succeeding", "renewing", "freeing",
             "booking", "reserving", "leaving", "entering", "moving"}

Answers == {"ok", "refused", "error"}

\* A prerequisite is missing (the tenant's profile, KTP or house rules), the
\* activation or adjustment invoice cannot be created, or the connection breaks.
Abort(t) ==
    /\ pc[t] \in Underway
    /\ Answer(t, "error")
    /\ UNCHANGED <<tables, today>>

\* The rows request t needs to go on.
Wanted(t) ==
    CASE pc[t] = "booking" -> {tx[t].body.to}
      [] pc[t] = "reserving" -> {tx[t].body.contract, tx[t].body.from}
      [] pc[t] = "leaving" -> {Subject(t).from}
      [] pc[t] = "entering" -> {Subject(t).to}
      [] pc[t] = "moving" -> {Subject(t).contract}
      [] OTHER -> WantedInTenancy(t)

WaitsFor(t, u) == t # u /\ Wanted(t) \intersect tx[u].holds # {}

InCycle(t) ==
    \E cycle \in SUBSET Requests :
        /\ t \in cycle
        /\ \A u \in cycle : \E v, w \in cycle : WaitsFor(u, v) /\ WaitsFor(w, u)

\* PostgreSQL ends a cycle of waiting transactions by failing one of them.
DeadlockVictim == \E t \in Requests : InCycle(t) /\ Abort(t)

-----------------------------------------------------------------------------
Init ==
    /\ TenancyInit
    /\ transfers = [i \in Transfers |-> IF i \in Booked THEN Transfers0[i] ELSE None]

ServeTransfer(t) ==
    \/ LockTarget(t) \/ InsertTransfer(t)
    \/ LockFromRoom(t) \/ LockToRoom(t) \/ Move(t) \/ RefuseMove(t)

Serve(t) == (ServeTenancy(t) /\ UNCHANGED transfers) \/ ServeTransfer(t)

Receive(t) ==
    \/ ReceiveTenancy(t) /\ UNCHANGED transfers
    \/ BeginBooking(t) \/ Review(t) \/ BeginExecution(t)

Next ==
    \/ \E t \in Requests : Receive(t) \/ Serve(t) \/ Abort(t)
    \/ NextDay /\ UNCHANGED transfers

Fairness == WF_vars(DeadlockVictim) /\ \A t \in Requests : WF_vars(Serve(t))

Spec == Init /\ [][Next]_vars /\ Fairness

-----------------------------------------------------------------------------
(* Properties.                                                             *)

Rows == Contracts \union Rooms \union Transfers

Transaction ==
    [holds : SUBSET Rows, subject : Rows \union {None},
     body : Renewals \union Extensions \union Transitions \union Departures \union Transfer \union {None},
     day : Days, ends : SUBSET Contracts, frees : SUBSET Rooms]

\* Every table and every transaction holds values of its columns' types, and
\* the dates are in order (the CHECKs of migrations 020 and 023).
TypeOK ==
    /\ contracts \in [Contracts -> Contract \union {None}]
    /\ \A c \in Contracts : Exists(c) => contracts[c].start <= contracts[c].end
    /\ accepted \subseteq [contract : Contracts, version : Nat]
    /\ periods \subseteq Period
    /\ rooms \in [Rooms -> RoomStatuses]
    /\ transfers \in [Transfers -> Transfer \union {None}]
    /\ pc \in [Requests -> {"idle"} \union Underway \union Answers]
    /\ tx \in [Requests -> Transaction]
    /\ today \in Days

\* No room is let to two contracts on the same day, nor twice to one, whether
\* the days came from an activation, an amendment, a transfer or an early end,
\* and whatever the handlers' own overlap questions missed
\* (occupancy_room_no_overlap).
NoDoubleBooking ==
    \A r \in Rooms, d \in Days :
        Cardinality({p \in periods : p.room = r /\ p.start <= d /\ d <= p.end}) <= 1

\* An active contract has exactly one open period, in its room and up to its
\* last day, and no other contract has one: amend, execute and activate write
\* the same fact to two tables under different locks.
ActiveHasPeriod ==
    \A c \in Contracts :
        IF Exists(c) /\ contracts[c].status = "active"
        THEN \E p \in periods : /\ OpenOf(c) = {p}
                                /\ p.room = contracts[c].room
                                /\ p.end = contracts[c].end
        ELSE OpenOf(c) = {}

PeriodsOf(c) == {p \in periods : p.contract = c}

\* The days an active contract has lived through are its days: however often it
\* was amended and its tenant moved, its periods together cover every day from
\* its start to its end and no other day (ExecuteTransfer ends the old period
\* on the eve of the new one).
StayIsUnbroken ==
    \A c \in Contracts :
        Exists(c) /\ contracts[c].status = "active" =>
            UNION {p.start .. p.end : p \in PeriodsOf(c)} = contracts[c].start .. contracts[c].end

\* A contract waits for activation only with the tenant's acceptance of the
\* terms it has now, not of those it had (AcceptByTenant and Amend).
ScheduledIsAccepted ==
    \A c \in Contracts :
        Exists(c) /\ contracts[c].status = "scheduled" => IsAccepted(c)

\* A contract counts as renewed only when its renewal took over the day after
\* its last: the parent is read again, and locked, after the room was.
RenewalContinues ==
    \A c \in Contracts :
        Exists(c) /\ contracts[c].status = "renewed" =>
            \E d \in Contracts :
                /\ Exists(d) /\ contracts[d].parent = c
                /\ contracts[d].start = contracts[c].end + 1
                /\ contracts[d].status \in Began

\* History stands: a closed period, a contract in a terminal status and a
\* transfer that was decided are never changed again.
HistoryStands ==
    [][/\ \A p \in periods : ~p.open => p \in periods'
       /\ \A c \in Contracts :
            Exists(c) /\ contracts[c].status \in Terminal => contracts'[c] = contracts[c]
       /\ \A x \in Transfers :
            transfers[x] # None /\ transfers[x].status \notin Held
              => transfers'[x] = transfers[x]]_vars

\* Every request that has begun is answered, though lifecycle and transfer lock
\* contract and room in opposite orders.
EveryRequestAnswered ==
    \A t \in Requests : pc[t] \in Underway ~> pc[t] \in Answers
=============================================================================
