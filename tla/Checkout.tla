------------------------------ MODULE Checkout ------------------------------
(***************************************************************************)
(* The end of one tenancy: notice, inspection, approval and settlement of  *)
(* a checkout, beside the other ways in which the contract begins, moves   *)
(* and ends, and beside everything else that writes a room's status.       *)
(*                                                                         *)
(* Source: backend/internal/repository/checkout_repository.go,             *)
(* billing/checkout_settlement.go, migration 024 (indexes, foreign keys    *)
(* and the trigger), endTenantContracts of user_repository.go, and the     *)
(* writes of rooms.status in the repositories of rooms, contracts and      *)
(* room transfers.                                                         *)
(***************************************************************************)
EXTENDS Transactions, Integers, FiniteSetsExt

CONSTANTS
    Rooms,
    Deposit,        \* contracts.deposit
    Costs,          \* what repairs and utilities may cost
    Debts,          \* what the tenant owes on invoices, less the credit
    MaxCases

Cases == 1 .. MaxCases

Terminal == {"completed", "cancelled"}

Living == {"active", "scheduled"}

\* A notice that was not given is a case whose status is "none".
Given(k) == db.cases[k].status # "none"

OpenCases == {k \in Cases : Given(k) /\ db.cases[k].status \notin Terminal}

Settlement(utility, net) == [utility |-> utility, net |-> net, refund |-> 0]

\* The room of a case is the contract's when the notice was given.
NewCase(status, r) ==
    [status |-> status, room |-> r, key |-> FALSE, override |-> FALSE,
     settlement |-> Settlement(0, Deposit)]

\* Nothing here tells cleaning from maintenance, nor reserved.
RoomStatuses == {"available", "occupied", "cleaning"}

\* rooms.status, and who wrote it last: this tenancy's own requests, or others.
RoomRow(status, by) == [status |-> status, by |-> by]

Vacated(r) == [db.rooms EXCEPT ![r] = RoomRow("available", "tenancy")]

\* A room that the tenant leaves is available, unless another contract has an
\* open period there, to which it is left as it is.
RoomsLeft(r) == {Vacated(r), [db.rooms EXCEPT ![r].by = "others"]}

Init ==
    /\ NobodyServed
    /\ \E s \in Living, h \in Rooms, d \in Debts :
        db = [contract |-> s,
              home     |-> h,
              rooms    |-> [r \in Rooms |-> IF s = "active" /\ r = h
                                            THEN RoomRow("occupied", "tenancy")
                                            ELSE RoomRow("available", "others")],
              debt     |-> d,
              cases    |-> [k \in Cases |-> NewCase("none", None)],
              items    |-> {}]

CaseRow(k) == <<"case", k>>
ItemRow(r) == <<"item", r>>
Contract == <<"contract">>
Room(r) == <<"room", r>>

-----------------------------------------------------------------------------
(* CalculateCheckoutSettlement, and the settlement of an execution         *)

NetOf(debt, damage, utility) == Deposit - debt - damage - utility

\* A refund is requested for what is left of the deposit.
Executed(utility, net) == [Settlement(utility, net) EXCEPT !.refund = net]

\* What is due beyond it would be an invoice, but a check of invoice_items does
\* not know the type of its item: the execution fails.
Billable(net) == net >= 0

ItemsOf(k) == {r \in db.items : r.case = k}

Damage(rows) == MapThenSumSet(LAMBDA r : r.cost, rows)

-----------------------------------------------------------------------------
(* CreateCheckoutNotice                                                    *)

\* The contract and its room are read first, then whether a case is open, then
\* the transaction begins.
AskForNotice(c) ==
    /\ db.contract \in Living
    /\ Begin(c, [op |-> "notice", at |-> "living", room |-> db.home], {})

LookForCase(c) ==
    /\ At(c, "notice", "living")
    /\ OpenCases = {}
    /\ Statement(c, [tx[c] EXCEPT !.at = "first"], {})

\* Mutant: no index, only the question before the transaction.
AnyNumber == TRUE

\* An index keeps the open cases of a contract unique.
OneMore == OpenCases = {}

Notice(c) ==
    /\ At(c, "notice", "first")
    /\ OneMore
    /\ \E k \in Cases :
        /\ \A j \in Cases : ~ Given(j) <=> j >= k
        /\ Commit(c, {Lock(Contract, "share"), Lock(Room(tx[c].room), "share")},
                  [db EXCEPT !.cases[k] = NewCase("submitted", tx[c].room)])

-----------------------------------------------------------------------------
(* RecordInspections                                                       *)

\* Mutant: no trigger, only the status that was read before.
UpdatableAnyway(k) == k \in Cases

\* The trigger refuses any update of a case that is finished.
Updatable(k) == db.cases[k].status \notin Terminal

\* GetCheckoutCase, before any transaction.
ReadCase(c, t) ==
    /\ Updatable(t.case)
    /\ Begin(c, t, {})

\* cost is None when no item is on the list.
AskToInspect(c) ==
    \E k \in OpenCases, cost \in Costs \union {None}, u \in Costs, key \in BOOLEAN :
        ReadCase(c, [op |-> "inspect", at |-> "read", case |-> k, cost |-> cost, utility |-> u,
                     key |-> key, old |-> {}, name |-> served])

\* The DELETE starts with the rows that are there, and may have to wait for
\* another one to delete the same rows.
FindItems(c) ==
    LET t == tx[c]
    IN  /\ At(c, "inspect", "read")
        /\ Statement(c, [t EXCEPT !.at = "found", !.old = ItemsOf(t.case)], {})

DeleteItems(c) ==
    LET t == tx[c]
    IN  /\ At(c, "inspect", "found")
        /\ Statement(c, [t EXCEPT !.at = "deleted"],
                     {Lock(ItemRow(r), "update") : r \in t.old \intersect db.items})

Listed(t) ==
    IF t.cost = None THEN {} ELSE {[case |-> t.case, cost |-> t.cost, name |-> t.name]}

\* The items' foreign key waits for an execution of the case.
InsertItems(c) ==
    LET t == tx[c]
    IN  /\ At(c, "inspect", "deleted")
        /\ Statement(c, [t EXCEPT !.at = "inserted"],
                     IF Listed(t) = {} THEN {} ELSE {Lock(CaseRow(t.case), "share")})

\* The settlement is computed from the request's own list.
Inspect(c) ==
    LET t == tx[c]
        k == t.case
    IN  /\ At(c, "inspect", "inserted")
        /\ Updatable(k)
        /\ Commit(c, {Lock(CaseRow(k), "write")},
             [db EXCEPT
                !.items = (@ \ t.old) \union Listed(t),
                !.cases[k] = [status |-> "inspection_completed", room |-> @.room,
                              key |-> t.key, override |-> @.override,
                              settlement |->
                                Settlement(t.utility, NetOf(db.debt, Damage(Listed(t)), t.utility))]])

-----------------------------------------------------------------------------
(* ApproveSettlement, CancelCheckout, OverrideRoomStatus                   *)

AskToApproveOrCancel(c) ==
    \E k \in OpenCases, s \in {"approved", "cancelled"} :
        ReadCase(c, [op |-> "decide", at |-> "read", case |-> k, status |-> s])

Decide(c) ==
    LET t == tx[c]
    IN  /\ At(c, "decide", "read")
        /\ Updatable(t.case)
        /\ Commit(c, {Lock(CaseRow(t.case), "write")},
                  [db EXCEPT !.cases[t.case].status = t.status])

\* The room's new status is the manager's word, with a reason.
OverrideCase(c) ==
    \E k \in OpenCases, s \in {"available", "cleaning"} :
        Begin(c, [op |-> "override", at |-> "marked", case |-> k, status |-> s],
              {Lock(CaseRow(k), "write")})

OverrideRoom(c) ==
    LET t == tx[c]
        r == db.cases[t.case].room
    IN  /\ At(c, "override", "marked")
        /\ Commit(c, {Lock(Room(r), "write")},
                  [db EXCEPT !.cases[t.case].override = TRUE,
                             !.rooms[r] = RoomRow(t.status, "others")])

-----------------------------------------------------------------------------
(* ExecuteCheckout                                                         *)

\* Mutant: FOR UPDATE OF the room and the contract.
LocksBesideCase(k) == {Lock(r, "update") : r \in {Room(db.cases[k].room), Contract}}

\* FOR UPDATE of a join: the case, the tenant, the case's room and the contract.
ExecutionLocks(k) == {Lock(r, "update") : r \in {CaseRow(k), Room(db.cases[k].room), Contract}}

\* The key is back, or the request gives a reason why the room is released.
AskToExecute(c) ==
    \E k \in Cases, override \in BOOLEAN :
        /\ Given(k)
        /\ Updatable(k)
        /\ db.cases[k].key \/ override
        /\ Begin(c, [op |-> "execute", at |-> "locked", case |-> k, override |-> override,
                     settlement |-> None], ExecutionLocks(k))

\* What was approved is not asked: the settlement is computed anew.
Settle(c) ==
    LET t == tx[c]
        u == db.cases[t.case].settlement.utility
    IN  /\ At(c, "execute", "locked")
        /\ Statement(c, [t EXCEPT !.at = "settled",
                !.settlement = Executed(u, NetOf(db.debt, Damage(ItemsOf(t.case)), u))], {})

\* Mutant: a contract beyond its last day is left as it is.
StatusesAfterInTime == {"terminated", db.contract}

\* The last day of the contract is reached or not.
StatusesAfter == {"ended", "terminated"}

\* Triggers keep the rules of contracts and cases: a scheduled contract does
\* not end, and neither does what is finished change.
MayBecome(s) == s = db.contract \/ db.contract = "active"

\* The room is cleaned unless the override says otherwise.
RoomsAfter(t) == {"cleaning"} \union (IF t.override THEN {"available"} ELSE {})

\* An issued invoice for a later month cannot be cancelled either (there is no
\* such status): that execution, too, is rolled back.  The room that is written is
\* the case's, wherever the tenant lives by now.
Execute(c) ==
    LET t == tx[c]
        home == db.cases[t.case].room
    IN  /\ At(c, "execute", "settled")
        /\ Updatable(t.case)
        /\ Billable(t.settlement.net)
        /\ \E s \in StatusesAfter, r \in RoomsAfter(t) :
            /\ MayBecome(s)
            /\ Commit(c, {},
                 [db EXCEPT !.cases[t.case] = [status |-> "completed", room |-> home,
                                               key |-> @.key, override |-> t.override,
                                               settlement |-> t.settlement],
                            !.contract = s,
                            !.rooms[home] = RoomRow(r, "tenancy")])

-----------------------------------------------------------------------------
(* The contract, the rooms and the invoices beside the checkout            *)

ActivateContract(c) ==
    /\ db.contract = "scheduled" /\ db.rooms[db.home].status = "available"
    /\ Autocommit(c, {Lock(Contract, "update"), Lock(Room(db.home), "update")},
                  [db EXCEPT !.contract = "active",
                             !.rooms[db.home] = RoomRow("occupied", "tenancy")])

\* ExecuteTransfer moves an active contract to another room; of an open case
\* it knows nothing.
MoveContract(c) ==
    /\ db.contract = "active"
    /\ \E r \in Rooms \ {db.home}, left \in RoomsLeft(db.home) :
        Autocommit(c, {Lock(x, "update") : x \in {Contract, Room(db.home), Room(r)}},
                   [db EXCEPT !.home = r,
                              !.rooms = [left EXCEPT ![r] = RoomRow("occupied", "tenancy")]])

\* DeleteTenant, CheckoutTenant and the contract's own end do without a case.
EndTenantContracts(c) ==
    /\ db.contract = "active"
    /\ \E s \in {"ended", "terminated"}, left \in RoomsLeft(db.home) :
        Autocommit(c, {Lock(Contract, "update"), Lock(Room(db.home), "write")},
                   [db EXCEPT !.contract = s, !.rooms = left])

\* PUT /rooms/:id sets any status, whoever lives there; and other tenancies
\* begin and end in the same rooms.
WriteRoom(c) ==
    \E r \in Rooms, s \in RoomStatuses :
        /\ db.rooms[r] # RoomRow(s, "others")
        /\ Autocommit(c, {Lock(Room(r), "write")},
                      [db EXCEPT !.rooms[r] = RoomRow(s, "others")])

\* A payment, a credit or a new invoice.
Bill(c) == \E d \in Debts \ {db.debt} : Autocommit(c, {}, [db EXCEPT !.debt = d])

Next ==
    \E c \in Clerks :
        \/ AskForNotice(c) \/ LookForCase(c) \/ Notice(c)
        \/ AskToInspect(c) \/ FindItems(c) \/ DeleteItems(c) \/ InsertItems(c) \/ Inspect(c)
        \/ AskToApproveOrCancel(c) \/ Decide(c)
        \/ OverrideCase(c) \/ OverrideRoom(c)
        \/ AskToExecute(c) \/ Settle(c) \/ Execute(c)
        \/ ActivateContract(c) \/ MoveContract(c) \/ EndTenantContracts(c)
        \/ WriteRoom(c) \/ Bill(c)
        \/ Rollback(c)

-----------------------------------------------------------------------------
(* Properties                                                              *)

\* A contract has one open checkout, though the two questions of
\* CreateCheckoutNotice are asked before its transaction.
OneOpenCase == \A j, k \in OpenCases : j = k

\* A completed case refunds what its inspections left of the deposit, although
\* two inspections may leave both their lists and the status that was read
\* before them is old; and the key was back or an override says why not.
SettledAsInspected ==
    \A k \in Cases :
        db.cases[k].status = "completed" =>
            LET s == db.cases[k].settlement
            IN  /\ \E d \in Debts : s.net = NetOf(d, Damage(ItemsOf(k)), s.utility)
                /\ s.refund = s.net
                /\ db.cases[k].key \/ db.cases[k].override

\* Whose checkout is completed does not live in the room, nor move in again.
\* And as long as the room's status is the tenancy's own word, it is occupied
\* while the tenant lives there and is not when the contract is over, except
\* where the tenant moved after giving notice: a checkout writes the room of
\* its case, and the one that was left stays "occupied".
HandedOver ==
    LET own == db.rooms[db.home].by = "tenancy"
        occupied == db.rooms[db.home].status = "occupied"
        Completed == {k \in Cases : db.cases[k].status = "completed"}
    IN  /\ Completed # {} => db.contract \notin Living
        /\ db.contract = "active" /\ own => occupied
        /\ db.contract # "active" /\ own /\ occupied
             => \E k \in Completed : db.cases[k].room # db.home

\* A finished case stays as it is, whatever was read before it finished.
CasesStand ==
    \A k \in Cases :
        db.cases[k].status \in Terminal => db'.cases[k] = db.cases[k]
=============================================================================
