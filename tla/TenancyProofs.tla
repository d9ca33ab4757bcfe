--------------------------- MODULE TenancyProofs ---------------------------
(***************************************************************************)
(* For any number of requests, contracts, rooms and transfers: the types,  *)
(* that no room is let twice for a day, that an active contract has its    *)
(* one open period and its periods are its days without a gap, that only   *)
(* accepted terms are scheduled, that a contract counts as renewed only    *)
(* when its renewal took over, and that history stands.                    *)
(*                                                                         *)
(* What a handler has read it relies on after it has waited: an activation *)
(* that the contract is still scheduled, an end that it is still active, a *)
(* move that the transfer is still held.  The invariant therefore says of  *)
(* each request under way what it relies on (PlaceOk), and that the row is *)
(* one it has locked; that nobody else has (exclusive locks) is what keeps *)
(* it so while others commit.                                              *)
(***************************************************************************)
EXTENDS RoomTransfer, FiniteSetTheorems, TLAPS

-----------------------------------------------------------------------------
(* The invariant                                                           *)

\* The contracts a request relies on, and the transfer it executes.
Kept(place, x) ==
    IF place \in {"activating", "succeeding", "renewing"} THEN {x.subject}
    ELSE IF place = "freeing" THEN x.ends ELSE {}

Executing == {"leaving", "entering", "moving"}

Succeeded(c, row, rows) ==
    \E d \in Contracts :
        /\ rows[d] # None /\ rows[d].parent = c
        /\ rows[d].start = row.end + 1
        /\ rows[d].status \in Began

\* A row of contracts, given the acceptances and the day.
LocalOk(c, row, acc, day) ==
    /\ row.start <= row.end
    /\ row.status = "active" => row.start <= day
    /\ row.status = "scheduled" => [contract |-> c, version |-> row.version] \in acc

\* A row of contracts among the others.
RowOk(c, rows) ==
    rows[c] # None =>
        /\ rows[c].parent # None => rows[rows[c].parent] # None
        /\ rows[c].status = "renewed" => Succeeded(c, rows[c], rows)

NoClash(ps) == \A p, q \in ps : p # q => ~PeriodClash(p, q)

OpenAmong(ps, c) == {p \in ps : p.contract = c /\ p.open}

Among(ps, c) == {p \in ps : p.contract = c}

\* The days before p, the open period of the contract, are the days of its
\* closed periods (a move on the first day closes one on the day p begins).
Tiled(c, row, p, ps) ==
    /\ row.start <= p.start /\ p.start <= p.end
    /\ \A q \in Among(ps, c) \ {p} : row.start <= q.start /\ q.end <= p.start
    /\ \A d \in Days : row.start <= d /\ d < p.start =>
        \E q \in Among(ps, c) \ {p} : q.start <= d /\ d <= q.end

\* The periods of a contract: the open one if it is active, none before that.
StayOk(c, row, ps) ==
    IF row # None /\ row.status = "active"
    THEN \E p \in ps : /\ OpenAmong(ps, c) = {p}
                      /\ p.room = row.room /\ p.end = row.end
                      /\ Tiled(c, row, p, ps)
    ELSE /\ OpenAmong(ps, c) = {}
         /\ row = None \/ row.status \notin Began => Among(ps, c) = {}

\* A transfer moves a stay that began, and not before it began.
BookingOk(move, rows) ==
    /\ rows[move.contract] # None
    /\ rows[move.contract].status \in Began
    /\ rows[move.contract].start <= move.day

\* What a request relies on.
PlaceOk(t, place, x, rows, moves, day) ==
    /\ place \notin Answers => rows[t] = None /\ moves[t] = None
    /\ \A c \in Kept(place, x) : c \in Contracts /\ c \in x.holds /\ rows[c] # None
    /\ place \in {"activating", "succeeding"} =>
        rows[x.subject].status = "scheduled" /\ rows[x.subject].start <= day
    /\ place = "succeeding" => rows[x.subject].parent # None
    /\ place = "renewing" => x.body \in Renewals \union Extensions /\ x.body.start <= x.body.end
    /\ place = "freeing" =>
        /\ x.body \in Transitions \union Departures /\ x.body.to \in {"ended", "terminated"}
        /\ \A c \in x.ends : rows[c].status = "active" /\ rows[c].start <= x.day
    /\ place \in {"booking", "reserving"} => x.body \in Transfer /\ BookingOk(x.body, rows)
    /\ place \in Executing =>
        /\ x.subject \in Transfers /\ x.subject \in x.holds
        /\ moves[x.subject] # None /\ moves[x.subject].status \in Held

TablesOk(rows, acc, ps, moves, day) ==
    /\ \A c \in Contracts : rows[c] # None => LocalOk(c, rows[c], acc, day)
    /\ \A c \in Contracts : RowOk(c, rows)
    /\ \A i \in Transfers : moves[i] # None => BookingOk(moves[i], rows)
    /\ NoClash(ps)
    /\ \A c \in Contracts : StayOk(c, rows[c], ps)

Exclusive(x) == \A t, u \in Requests : t # u => x[t].holds \intersect x[u].holds = {}

Inv ==
    /\ TypeOK
    /\ TablesOk(contracts, accepted, periods, transfers, today)
    /\ Exclusive(tx)
    /\ \A t \in Requests : PlaceOk(t, pc[t], tx[t], contracts, transfers, today)

-----------------------------------------------------------------------------
(* Steps that change no table                                              *)

\* What a request may do to the rows of the others: nothing, unless the row is
\* locked by none of them, or is its own new one.
Respects(t, old, new, rows) ==
    \A c \in rows : new[c] # old[c] =>
        \/ c = t /\ old[c] = None
        \/ old[c] # None /\ \A u \in Requests \ {t} : c \notin tx[u].holds

\* What may become of a contract in one step.
RowStep(old, new) ==
    \/ new = old
    \/ old = None /\ new \in Contract /\ new.status = "draft"
    \/ /\ old # None /\ old.status \notin Terminal
       /\ new \in Contract /\ new.parent = old.parent
       /\ old.status = "active" => new.start = old.start /\ new.status \in Began

\* And of a transfer.
MoveStep(old, new) ==
    \/ new = old
    \/ old = None /\ new \in Transfer
    \/ /\ old # None /\ old.status \in Held
       /\ new \in Transfer /\ new.contract = old.contract /\ new.day = old.day

\* The tables after a step, apart from what the other requests rely on.
TablesStep ==
    /\ contracts' \in [Contracts -> Contract \union {None}]
    /\ accepted' \subseteq [contract : Contracts, version : Nat]
    /\ accepted \subseteq accepted'
    /\ periods' \subseteq Period
    /\ rooms' \in [Rooms -> RoomStatuses]
    /\ transfers' \in [Transfers -> Transfer \union {None}]
    /\ today' \in Days /\ today <= today'
    /\ \A c \in Contracts : RowStep(contracts[c], contracts'[c])
    /\ \A i \in Transfers : MoveStep(transfers[i], transfers'[i])
    /\ \A p \in periods : ~p.open => p \in periods'

Places == {"idle"} \union Underway \union Answers

-----------------------------------------------------------------------------
(* A step of one request, put together                                     *)

\* No row is NULL, and a row that exists is one.
LEMMA RowTypes ==
    ASSUME Inv
    PROVE  /\ \A c \in Contracts : contracts[c] # None => contracts[c] \in Contract
           /\ \A i \in Transfers : transfers[i] # None => transfers[i] \in Transfer
           /\ None \notin Contract /\ None \notin Transfer
           /\ today \in Days /\ Days \subseteq Nat /\ 0 \in Days
           /\ \A d \in Days : today <= d => d \in Nat
BY TenancyTablesAssumption, TransferAssumption DEF Inv, TypeOK, Days

\* What exists goes on to exist.
LEMMA Existence ==
    ASSUME Inv, TablesStep
    PROVE  /\ \A c \in Contracts : contracts[c] # None => contracts'[c] # None
           /\ \A i \in Transfers : transfers[i] # None => transfers'[i] # None
           /\ \A c \in Contracts : contracts'[c] # None => contracts'[c] \in Contract
           /\ \A i \in Transfers : transfers'[i] # None => transfers'[i] \in Transfer
           /\ \A i \in Transfers : transfers[i] # None => transfers'[i].contract = transfers[i].contract
<1>1. \A c \in Contracts : contracts[c] # None => contracts'[c] # None
  BY RowTypes DEF TablesStep, RowStep
<1>2. \A i \in Transfers : transfers[i] # None => transfers'[i] # None
  BY RowTypes DEF TablesStep, MoveStep
<1>3. \A i \in Transfers : transfers[i] # None => transfers'[i].contract = transfers[i].contract
  BY RowTypes DEF TablesStep, MoveStep
<1>4. /\ \A c \in Contracts : contracts'[c] # None => contracts'[c] \in Contract
      /\ \A i \in Transfers : transfers'[i] # None => transfers'[i] \in Transfer
  BY DEF TablesStep
<1> QED BY <1>1, <1>2, <1>3, <1>4

\* A booking stays possible.
LEMMA BookingStands ==
    ASSUME Inv, TablesStep, NEW x \in Transfer, BookingOk(x, contracts)
    PROVE  BookingOk(x, contracts')
<1> DEFINE c == x.contract
<1>1. c \in Contracts /\ contracts[c] # None /\ contracts'[c] # None
  BY Existence DEF Transfer, BookingOk
<1>2. RowStep(contracts[c], contracts'[c]) /\ contracts[c].status \in Began
  BY <1>1 DEF TablesStep, BookingOk
<1>3. contracts'[c].status \in Began /\ contracts'[c].start = contracts[c].start
  BY <1>1, <1>2 DEF RowStep, Began, Terminal
<1> QED BY <1>1, <1>3 DEF BookingOk

\* A renewal that took over has taken over.
LEMMA SuccessionStands ==
    ASSUME Inv, TablesStep, NEW c \in Contracts, NEW row, Succeeded(c, row, contracts)
    PROVE  Succeeded(c, row, contracts')
<1>1. PICK d \in Contracts :
        /\ contracts[d] # None /\ contracts[d].parent = c
        /\ contracts[d].start = row.end + 1
        /\ contracts[d].status \in Began
  BY DEF Succeeded
<1>2. /\ contracts'[d] # None /\ contracts'[d].parent = c
      /\ contracts'[d].start = row.end + 1
      /\ contracts'[d].status \in Began
  <2>1. RowStep(contracts[d], contracts'[d]) /\ contracts'[d] # None
    BY <1>1, Existence DEF TablesStep
  <2>2. CASE contracts'[d] = contracts[d]
    BY <2>2, <1>1
  <2>3. CASE contracts[d].status \notin Terminal /\ contracts'[d].parent = contracts[d].parent
             /\ (contracts[d].status = "active" =>
                   contracts'[d].start = contracts[d].start /\ contracts'[d].status \in Began)
    <3>1. contracts[d].status = "active"
      BY <1>1, <2>3 DEF Began, Terminal
    <3> QED BY <1>1, <2>1, <2>3, <3>1
  <2> QED BY <1>1, <2>1, <2>2, <2>3 DEF RowStep
<1> QED BY <1>2 DEF Succeeded

\* The tables, from what is said of the rows that changed.
LEMMA TablesFollow ==
    ASSUME Inv, TablesStep,
           \A c \in Contracts : contracts'[c] # contracts[c] =>
               /\ LocalOk(c, contracts'[c], accepted', today')
               /\ contracts'[c].parent # None => contracts'[contracts'[c].parent] # None
               /\ contracts'[c].status = "renewed" => Succeeded(c, contracts'[c], contracts'),
           \A i \in Transfers : transfers'[i] # transfers[i] => BookingOk(transfers'[i], contracts'),
           NoClash(periods'),
           \A c \in Contracts : StayOk(c, contracts'[c], periods')
    PROVE  TablesOk(contracts', accepted', periods', transfers', today')
<1>1. ASSUME NEW c \in Contracts, contracts'[c] # None PROVE LocalOk(c, contracts'[c], accepted', today')
  <2>1. CASE contracts'[c] = contracts[c]
    <3>1. LocalOk(c, contracts[c], accepted, today) /\ contracts[c] \in Contract
      BY <1>1, <2>1, RowTypes DEF Inv, TablesOk
    <3>2. contracts[c].start \in Nat /\ today \in Nat /\ today' \in Nat /\ today <= today'
      BY <3>1, RowTypes DEF Contract, TablesStep
    <3>3. accepted \subseteq accepted'
      BY DEF TablesStep
    <3> QED BY <2>1, <3>1, <3>2, <3>3 DEF LocalOk
  <2> QED BY <2>1
<1>2. ASSUME NEW c \in Contracts PROVE RowOk(c, contracts')
  <2>1. CASE contracts'[c] = contracts[c] /\ contracts[c] # None
    <3>1. RowOk(c, contracts) /\ contracts[c] \in Contract
      BY <2>1, RowTypes DEF Inv, TablesOk
    <3>2. contracts[c].parent # None => contracts'[contracts[c].parent] # None
      BY <2>1, <3>1, Existence DEF RowOk, Contract
    <3>3. contracts[c].status = "renewed" => Succeeded(c, contracts[c], contracts')
      BY <2>1, <3>1, SuccessionStands DEF RowOk
    <3> QED BY <2>1, <3>2, <3>3 DEF RowOk
  <2>2. CASE contracts'[c] # contracts[c]
    BY <2>2 DEF RowOk
  <2> QED BY <2>1, <2>2 DEF RowOk
<1>3. ASSUME NEW i \in Transfers, transfers'[i] # None PROVE BookingOk(transfers'[i], contracts')
  <2>1. CASE transfers'[i] = transfers[i]
    <3>1. transfers[i] \in Transfer /\ BookingOk(transfers[i], contracts)
      BY <1>3, <2>1, RowTypes DEF Inv, TablesOk
    <3> QED BY <2>1, <3>1, BookingStands
  <2> QED BY <2>1
<1> QED BY <1>1, <1>2, <1>3 DEF TablesOk

\* What another request relies on stays as it is.
LEMMA PlaceStands ==
    ASSUME Inv, TablesStep, NEW t \in Requests, NEW u \in Requests \ {t},
           Respects(t, contracts, contracts', Contracts),
           Respects(t, transfers, transfers', Transfers)
    PROVE  PlaceOk(u, pc[u], tx[u], contracts', transfers', today')
<1> DEFINE place == pc[u]
           x == tx[u]
<1>1. PlaceOk(u, place, x, contracts, transfers, today)
  BY DEF Inv
<1>2. \A c \in Kept(place, x) : c \in Contracts /\ contracts'[c] = contracts[c]
  BY <1>1 DEF PlaceOk, Respects
<1>3. place \in Executing => x.subject \in Transfers /\ transfers'[x.subject] = transfers[x.subject]
  BY <1>1 DEF PlaceOk, Respects
<1>4. contracts[u] = None => contracts'[u] = None
  BY DEF Respects, Contracts
<1>5. transfers[u] = None => transfers'[u] = None
  BY DEF Respects, Transfers
<1>8. ASSUME place \in {"activating", "succeeding"}
      PROVE  contracts'[x.subject].status = "scheduled" /\ contracts'[x.subject].start <= today'
  <2>1. x.subject \in Contracts /\ contracts'[x.subject] = contracts[x.subject] /\ contracts[x.subject] # None
    BY <1>1, <1>2, <1>8 DEF PlaceOk, Kept
  <2>2. contracts[x.subject].start \in Nat /\ today \in Nat /\ today' \in Nat /\ today <= today'
    BY <2>1, RowTypes DEF Contract, TablesStep
  <2>3. contracts[x.subject].status = "scheduled" /\ contracts[x.subject].start <= today
    BY <1>1, <1>8 DEF PlaceOk
  <2> QED BY <2>1, <2>2, <2>3
<1>9. ASSUME place = "succeeding" PROVE contracts'[x.subject].parent # None
  BY <1>1, <1>2, <1>9 DEF PlaceOk, Kept
<1>10. ASSUME place = "freeing"
       PROVE  \A c \in x.ends : contracts'[c].status = "active" /\ contracts'[c].start <= x.day
  BY <1>1, <1>2, <1>10 DEF PlaceOk, Kept
<1>11. ASSUME place \in {"booking", "reserving"} PROVE BookingOk(x.body, contracts')
  BY <1>1, <1>11, BookingStands DEF PlaceOk
<1> HIDE DEF place, x
<1>12. \A c \in Kept(place, x) : c \in Contracts /\ c \in x.holds /\ contracts'[c] # None
  BY <1>1, <1>2 DEF PlaceOk
<1>13. PlaceOk(u, place, x, contracts', transfers', today')
  BY <1>1, <1>3, <1>4, <1>5, <1>8, <1>9, <1>10, <1>11, <1>12 DEF PlaceOk
<1> QED BY <1>13 DEF place, x

\* The invariant, after a step of one request.
LEMMA Assemble ==
    ASSUME Inv, TablesStep, NEW t \in Requests, NEW place \in Places, NEW x \in Transaction,
           Continue(t, place, x),
           Respects(t, contracts, contracts', Contracts),
           Respects(t, transfers, transfers', Transfers),
           \A u \in Requests \ {t} : x.holds \intersect tx[u].holds = {},
           TablesOk(contracts', accepted', periods', transfers', today'),
           PlaceOk(t, place, x, contracts', transfers', today')
    PROVE  Inv'
<1>0. pc \in [Requests -> Places] /\ tx \in [Requests -> Transaction]
  BY DEF Inv, TypeOK, Places
<1>1. /\ pc' \in [Requests -> Places] /\ tx' \in [Requests -> Transaction]
      /\ pc'[t] = place /\ tx'[t] = x
      /\ \A u \in Requests \ {t} : pc'[u] = pc[u] /\ tx'[u] = tx[u]
  BY <1>0 DEF Continue
<1>2. TypeOK'
  BY <1>1 DEF TypeOK, TablesStep, TablesOk, LocalOk, Places, Exists
<1>3. Exclusive(tx')
  BY <1>1 DEF Inv, Exclusive
<1>4. ASSUME NEW u \in Requests PROVE PlaceOk(u, pc'[u], tx'[u], contracts', transfers', today')
  BY <1>1, PlaceStands
<1> QED BY <1>2, <1>3, <1>4 DEF Inv

\* A step that changes no table.
LEMMA Quiet ==
    ASSUME Inv, UNCHANGED <<tables, today>>, NEW t \in Requests, NEW place \in Places,
           NEW x \in Transaction, Continue(t, place, x),
           \A u \in Requests \ {t} : x.holds \intersect tx[u].holds = {},
           PlaceOk(t, place, x, contracts, transfers, today)
    PROVE  Inv' /\ TablesStep
<1>1. /\ contracts' = contracts /\ accepted' = accepted /\ periods' = periods
      /\ rooms' = rooms /\ transfers' = transfers /\ today' = today
  BY DEF tables, tenancyTables
<1>2. TablesStep
  <2>1. today <= today'
    BY <1>1, RowTypes
  <2> QED BY <1>1, <2>1 DEF TablesStep, RowStep, MoveStep, Inv, TypeOK
<1>3. Respects(t, contracts, contracts', Contracts) /\ Respects(t, transfers, transfers', Transfers)
  BY <1>1 DEF Respects
<1> QED BY <1>1, <1>2, <1>3, Assemble DEF Inv

\* A request that is answered holds nothing.
LEMMA Answering ==
    ASSUME NEW t, NEW a \in Answers, Answer(t, a)
    PROVE  /\ a \in Places /\ Idle \in Transaction /\ Continue(t, a, Idle)
           /\ \A u : Idle.holds \intersect u = {}
           /\ \A rows, moves, day : PlaceOk(t, a, Idle, rows, moves, day)
<1>1. Idle \in Transaction
  BY TenancyTablesAssumption DEF Idle, Transaction, Days
<1>2. \A rows, moves, day : PlaceOk(t, a, Idle, rows, moves, day)
  BY DEF PlaceOk, Kept, Executing, Answers, Idle
<1> QED BY <1>1, <1>2 DEF Answer, Release, Places, Idle

\* A request that begins.
LEMMA Begun ==
    /\ Idle \in Transaction
    /\ Idle.holds = {}
BY TenancyTablesAssumption DEF Idle, Transaction, Days

\* A request that was refused, or broke down.
LEMMA Refused ==
    ASSUME Inv, UNCHANGED <<tables, today>>, NEW t \in Requests, NEW a \in Answers, Answer(t, a)
    PROVE  Inv' /\ TablesStep
BY Answering, Quiet

-----------------------------------------------------------------------------
(* The steps that change no table                                          *)

\* What is known of a request that has not been answered.
LEMMA Going ==
    ASSUME Inv, NEW t \in Requests, pc[t] \notin Answers
    PROVE  /\ t \in Contracts /\ t \in Transfers
           /\ contracts[t] = None /\ transfers[t] = None
           /\ tx[t] \in Transaction
           /\ PlaceOk(t, pc[t], tx[t], contracts, transfers, today)
           /\ \A u \in Requests \ {t} : tx[t].holds \intersect tx[u].holds = {}
           /\ \A u \in Requests \ {t} : tx[u].holds \intersect tx[t].holds = {}
BY DEF Inv, TypeOK, PlaceOk, Exclusive, Contracts, Transfers

\* A step of Tenancy leaves the transfers alone.
LEMMA AllTables ==
    ASSUME UNCHANGED <<tenancyTables, today>>, UNCHANGED transfers
    PROVE  UNCHANGED <<tables, today>>
BY DEF tables, tenancyTables

LEMMA BeginsActivation ==
    ASSUME Inv, NEW t \in Requests, BeginActivation(t), UNCHANGED transfers PROVE Inv' /\ TablesStep
<1>1. PICK b \in Transitions :
        /\ b.to = "active" /\ Exists(b.contract) /\ Free(t, b.contract) /\ MayTransition(b)
        /\ Continue(t, "activating", [Idle EXCEPT !.holds = {b.contract}, !.subject = b.contract])
  BY DEF BeginActivation
<1> DEFINE c == b.contract
           x == [Idle EXCEPT !.holds = {c}, !.subject = c]
<1>2. c \in Contracts
  BY TenancyBodiesAssumption
<1>3. contracts[c].status = "scheduled" /\ contracts[c].start <= today
  BY <1>1 DEF MayTransition, CanTransition, IsCurrent
<1>4. x \in Transaction /\ x.holds = {c} /\ x.subject = c
  BY <1>2, Begun DEF Transaction, Rows
<1>5. pc[t] = "idle" /\ contracts[t] = None /\ transfers[t] = None
  BY Going DEF BeginActivation, Answers
<1>6. PlaceOk(t, "activating", x, contracts, transfers, today)
  BY <1>1, <1>2, <1>3, <1>4, <1>5 DEF PlaceOk, Kept, Executing, Exists
<1>7. \A u \in Requests \ {t} : x.holds \intersect tx[u].holds = {}
  BY <1>1, <1>4 DEF Free
<1>8. UNCHANGED <<tables, today>>
  BY AllTables DEF BeginActivation
<1> HIDE DEF x, c
<1>9. Continue(t, "activating", x)
  BY <1>1 DEF x, c
<1> QED BY <1>4, <1>6, <1>7, <1>8, <1>9, Quiet DEF Places, Underway

LEMMA LocksRoomOfRenewal ==
    ASSUME Inv, NEW t \in Requests, LockRoomOfRenewal(t), UNCHANGED transfers PROVE Inv' /\ TablesStep
<1> DEFINE c == tx[t].subject
           r == contracts[c].room
           x == [tx[t] EXCEPT !.holds = @ \union {r}]
<1>1. /\ pc[t] = "activating" /\ Free(t, r) /\ contracts[c].parent # None
      /\ Continue(t, "succeeding", x)
  BY DEF LockRoomOfRenewal
<1>2. UNCHANGED <<tables, today>>
  BY AllTables DEF LockRoomOfRenewal
<1>3. /\ tx[t] \in Transaction /\ PlaceOk(t, "activating", tx[t], contracts, transfers, today)
      /\ \A u \in Requests \ {t} : tx[t].holds \intersect tx[u].holds = {}
  BY <1>1, Going DEF Answers
<1>4. c \in Contracts /\ contracts[c] # None
  BY <1>3 DEF PlaceOk, Kept
<1>5. r \in Rooms
  BY <1>4, RowTypes DEF Contract
<1>6. x \in Transaction /\ x.holds = tx[t].holds \union {r} /\ x.subject = c
  BY <1>3, <1>5 DEF Transaction, Rows
<1>7. PlaceOk(t, "succeeding", x, contracts, transfers, today)
  BY <1>1, <1>3, <1>6 DEF PlaceOk, Kept, Executing, Answers
<1>8. \A u \in Requests \ {t} : x.holds \intersect tx[u].holds = {}
  BY <1>1, <1>3, <1>6 DEF Free
<1> HIDE DEF x
<1> QED BY <1>1, <1>2, <1>6, <1>7, <1>8, Quiet DEF Places, Underway

LEMMA StartsRenewal ==
    ASSUME Inv, NEW t \in Requests, pc[t] = "idle", UNCHANGED <<tables, today>>,
           NEW c \in Contracts, Exists(c), Free(t, c), NEW b \in Renewals \union Extensions,
           MayRenew(contracts[c], b), StartRenewal(t, c, b)
    PROVE  Inv' /\ TablesStep
<1> DEFINE x == [Idle EXCEPT !.holds = {c}, !.subject = c, !.body = b]
<1>1. Continue(t, "renewing", x)
  BY DEF StartRenewal
<1>2. x \in Transaction /\ x.holds = {c} /\ x.subject = c /\ x.body = b
  BY Begun DEF Transaction, Rows
<1>3. contracts[t] = None /\ transfers[t] = None
  BY Going DEF Answers
<1>4. b.start <= b.end
  BY DEF MayRenew
<1>5. PlaceOk(t, "renewing", x, contracts, transfers, today)
  BY <1>2, <1>3, <1>4 DEF PlaceOk, Kept, Executing, Exists
<1>6. \A u \in Requests \ {t} : x.holds \intersect tx[u].holds = {}
  BY <1>2 DEF Free
<1> HIDE DEF x
<1> QED BY <1>1, <1>2, <1>5, <1>6, Quiet DEF Places, Underway

LEMMA BeginsRenewal ==
    ASSUME Inv, NEW t \in Requests, BeginRenewal(t), UNCHANGED transfers PROVE Inv' /\ TablesStep
<1>1. UNCHANGED <<tables, today>> /\ pc[t] = "idle"
  BY AllTables DEF BeginRenewal
<1>2. PICK b \in Renewals :
        /\ Exists(b.contract) => Free(t, b.contract)
        /\ \/ Exists(b.contract) /\ MayRenew(contracts[b.contract], b) /\ StartRenewal(t, b.contract, b)
           \/ Answer(t, "refused")
  BY DEF BeginRenewal
<1>3. CASE Answer(t, "refused")
  BY <1>1, <1>3, Refused DEF Answers
<1>4. CASE Exists(b.contract) /\ MayRenew(contracts[b.contract], b) /\ StartRenewal(t, b.contract, b)
  <2>1. b.contract \in Contracts
    BY TenancyBodiesAssumption
  <2> QED BY <1>1, <1>2, <1>4, <2>1, StartsRenewal
<1> QED BY <1>2, <1>3, <1>4

LEMMA BeginsExtension ==
    ASSUME Inv, NEW t \in Requests, BeginExtension(t), UNCHANGED transfers PROVE Inv' /\ TablesStep
<1>1. UNCHANGED <<tables, today>> /\ pc[t] = "idle"
  BY AllTables DEF BeginExtension
<1>2. PICK b \in Extensions :
        \/ \E c \in ActiveOf(b.tenant) :
            Free(t, c) /\ MayRenew(contracts[c], b) /\ StartRenewal(t, c, b)
        \/ Answer(t, "refused")
  BY DEF BeginExtension
<1>3. CASE Answer(t, "refused")
  BY <1>1, <1>3, Refused DEF Answers
<1>4. ASSUME NEW c \in ActiveOf(b.tenant), Free(t, c), MayRenew(contracts[c], b), StartRenewal(t, c, b)
      PROVE  Inv' /\ TablesStep
  <2>1. c \in Contracts /\ Exists(c)
    BY DEF ActiveOf
  <2> QED BY <1>1, <1>4, <2>1, StartsRenewal
<1> QED BY <1>2, <1>3, <1>4

LEMMA BeginsEnd ==
    ASSUME Inv, NEW t \in Requests, BeginEnd(t), UNCHANGED transfers PROVE Inv' /\ TablesStep
<1>1. UNCHANGED <<tables, today>> /\ pc[t] = "idle"
  BY AllTables DEF BeginEnd
<1>2. PICK b \in Transitions :
        LET c == b.contract
            r == contracts[c].room
        IN  /\ b.to \in {"ended", "terminated"}
            /\ Exists(c) /\ Free(t, c)
            /\ MayTransition(b)
            /\ Continue(t, "freeing",
                   [holds |-> {c}, subject |-> c, body |-> b, day |-> EndDay(b), ends |-> {c},
                    frees |-> IF OpenIn(r) \subseteq OpenOf(c) THEN {r} ELSE {}])
  BY DEF BeginEnd
<1> DEFINE c == b.contract
           r == contracts[c].room
           x == [holds |-> {c}, subject |-> c, body |-> b, day |-> EndDay(b), ends |-> {c},
                 frees |-> IF OpenIn(r) \subseteq OpenOf(c) THEN {r} ELSE {}]
<1>3. c \in Contracts /\ b.day \in Days \union {None}
  BY TenancyBodiesAssumption
<1>4. contracts[c] # None /\ r \in Rooms /\ contracts[c].start \in Nat
  BY <1>2, <1>3, RowTypes DEF Exists, Contract
<1>5. contracts[c].status = "active" /\ EndDay(b) >= contracts[c].start
  BY <1>2 DEF MayTransition, CanTransition
<1>6. EndDay(b) \in Days
  BY <1>3, RowTypes DEF EndDay
<1>7. x \in Transaction
  BY <1>3, <1>4, <1>6 DEF Transaction, Rows
<1>8. contracts[c].start <= EndDay(b)
  BY <1>4, <1>5, <1>6, RowTypes
<1>9. contracts[t] = None /\ transfers[t] = None
  BY <1>1, Going DEF Answers
<1>10. PlaceOk(t, "freeing", x, contracts, transfers, today)
  BY <1>2, <1>3, <1>4, <1>5, <1>8, <1>9 DEF PlaceOk, Kept, Executing
<1>11. \A u \in Requests \ {t} : x.holds \intersect tx[u].holds = {}
  BY <1>2 DEF Free
<1>12. Continue(t, "freeing", x)
  BY <1>2
<1> HIDE DEF x
<1> QED BY <1>1, <1>7, <1>10, <1>11, <1>12, Quiet DEF Places, Underway

LEMMA BeginsDeparture ==
    ASSUME Inv, NEW t \in Requests, BeginDeparture(t), UNCHANGED transfers PROVE Inv' /\ TablesStep
<1>1. UNCHANGED <<tables, today>> /\ pc[t] = "idle"
  BY AllTables DEF BeginDeparture
<1>2. PICK b \in Departures :
        /\ \A c \in ActiveOf(b.tenant) : Free(t, c)
        /\ \/ Continue(t, "freeing",
                 [holds |-> ActiveOf(b.tenant), subject |-> None, body |-> b, day |-> today,
                  ends |-> ActiveOf(b.tenant),
                  frees |-> {contracts[c].room : c \in ActiveOf(b.tenant)}])
           \/ Answer(t, "refused")
  BY DEF BeginDeparture
<1>3. CASE Answer(t, "refused")
  BY <1>1, <1>3, Refused DEF Answers
<1> DEFINE active == ActiveOf(b.tenant)
           x == [holds |-> active, subject |-> None, body |-> b, day |-> today,
                 ends |-> active, frees |-> {contracts[c].room : c \in active}]
<1>4. CASE Continue(t, "freeing", x)
  <2>1. \A c \in active : c \in Contracts /\ contracts[c] # None /\ contracts[c].status = "active"
    BY DEF ActiveOf, Exists
  <2>2. \A c \in active : contracts[c].room \in Rooms
    BY <2>1, RowTypes DEF Contract
  <2>3. \A c \in active : contracts[c].start <= today
    BY <2>1 DEF Inv, TablesOk, LocalOk
  <2>4. x \in Transaction
    BY <2>1, <2>2, RowTypes DEF Transaction, Rows
  <2>5. b.to \in {"ended", "terminated"}
    BY TenancyBodiesAssumption
  <2>6. contracts[t] = None /\ transfers[t] = None
    BY <1>1, Going DEF Answers
  <2>7. PlaceOk(t, "freeing", x, contracts, transfers, today)
    BY <2>1, <2>3, <2>5, <2>6 DEF PlaceOk, Kept, Executing
  <2>8. \A u \in Requests \ {t} : x.holds \intersect tx[u].holds = {}
    BY <1>2 DEF Free
  <2> HIDE DEF x
  <2> QED BY <1>1, <1>4, <2>4, <2>7, <2>8, Quiet DEF Places, Underway
<1> QED BY <1>2, <1>3, <1>4

LEMMA BeginsBooking ==
    ASSUME Inv, NEW t \in Requests, BeginBooking(t) PROVE Inv' /\ TablesStep
<1>1. UNCHANGED <<tables, today>> /\ pc[t] = "idle"
  BY DEF BeginBooking
<1>2. PICK b \in Bookings :
        LET c == contracts[b.contract]
        IN  \/ /\ c # None /\ c.status = "active" /\ c.start <= b.day
               /\ Continue(t, "booking",
                      [Idle EXCEPT !.subject = b.contract,
                         !.body = [contract |-> b.contract, from |-> c.room, to |-> b.to,
                                   day |-> b.day, until |-> c.end, status |-> "pending"]])
            \/ Answer(t, "refused")
  BY DEF BeginBooking
<1>3. CASE Answer(t, "refused")
  BY <1>1, <1>3, Refused DEF Answers
<1> DEFINE c == contracts[b.contract]
           row == [contract |-> b.contract, from |-> c.room, to |-> b.to,
                   day |-> b.day, until |-> c.end, status |-> "pending"]
           x == [Idle EXCEPT !.subject = b.contract, !.body = row]
<1>4. CASE c # None /\ c.status = "active" /\ c.start <= b.day /\ Continue(t, "booking", x)
  <2>1. b.contract \in Contracts /\ b.to \in Rooms /\ b.day \in Days
    BY TransferAssumption
  <2>2. c \in Contract
    BY <1>4, <2>1, RowTypes
  <2>3. row \in Transfer /\ row.contract = b.contract /\ row.day = b.day
    BY <2>1, <2>2 DEF Transfer, Contract, TransferStatuses, Held
  <2> HIDE DEF row
  <2>4. x \in Transaction /\ x.holds = {} /\ x.body = row
    BY <2>1, <2>3, Begun DEF Transaction, Rows
  <2>5. contracts[t] = None /\ transfers[t] = None
    BY <1>1, Going DEF Answers
  <2>6. PlaceOk(t, "booking", x, contracts, transfers, today)
    BY <1>4, <2>3, <2>4, <2>5 DEF PlaceOk, Kept, Executing, BookingOk, Began
  <2> HIDE DEF x
  <2> QED BY <1>1, <1>4, <2>4, <2>6, Quiet DEF Places, Underway
<1> QED BY <1>2, <1>3, <1>4

LEMMA LocksTarget ==
    ASSUME Inv, NEW t \in Requests, LockTarget(t) PROVE Inv' /\ TablesStep
<1> DEFINE row == tx[t].body
           x == [tx[t] EXCEPT !.holds = {row.to}]
<1>1. /\ UNCHANGED <<tables, today>> /\ pc[t] = "booking" /\ Free(t, row.to)
      /\ Continue(t, "reserving", x) \/ Answer(t, "refused")
  BY DEF LockTarget
<1>2. CASE Answer(t, "refused")
  BY <1>1, <1>2, Refused DEF Answers
<1>3. CASE Continue(t, "reserving", x)
  <2>1. tx[t] \in Transaction /\ PlaceOk(t, "booking", tx[t], contracts, transfers, today)
    BY <1>1, Going DEF Answers
  <2>2. row \in Transfer /\ row.to \in Rooms
    BY <2>1 DEF PlaceOk, Transfer
  <2>3. x \in Transaction /\ x.holds = {row.to} /\ x.body = row
    BY <2>1, <2>2 DEF Transaction, Rows
  <2>4. PlaceOk(t, "reserving", x, contracts, transfers, today)
    BY <2>1, <2>3 DEF PlaceOk, Kept, Executing, Answers
  <2>5. \A u \in Requests \ {t} : x.holds \intersect tx[u].holds = {}
    BY <1>1, <2>3 DEF Free
  <2> HIDE DEF x
  <2> QED BY <1>1, <1>3, <2>3, <2>4, <2>5, Quiet DEF Places, Underway
<1> QED BY <1>1, <1>2, <1>3

LEMMA BeginsExecution ==
    ASSUME Inv, NEW t \in Requests, BeginExecution(t) PROVE Inv' /\ TablesStep
<1>1. UNCHANGED <<tables, today>> /\ pc[t] = "idle"
  BY DEF BeginExecution
<1>2. PICK i \in Executions :
        \/ /\ transfers[i] # None /\ Free(t, i) /\ transfers[i].status \in Held
           /\ Continue(t, "leaving", [Idle EXCEPT !.holds = {i}, !.subject = i])
        \/ Answer(t, "refused")
  BY DEF BeginExecution
<1>3. CASE Answer(t, "refused")
  BY <1>1, <1>3, Refused DEF Answers
<1> DEFINE x == [Idle EXCEPT !.holds = {i}, !.subject = i]
<1>4. CASE transfers[i] # None /\ Free(t, i) /\ transfers[i].status \in Held /\ Continue(t, "leaving", x)
  <2>1. i \in Transfers
    BY TransferAssumption
  <2>2. x \in Transaction /\ x.holds = {i} /\ x.subject = i
    BY <2>1, Begun DEF Transaction, Rows
  <2>3. contracts[t] = None /\ transfers[t] = None
    BY <1>1, Going DEF Answers
  <2>4. PlaceOk(t, "leaving", x, contracts, transfers, today)
    BY <1>4, <2>1, <2>2, <2>3 DEF PlaceOk, Kept, Executing
  <2>5. \A u \in Requests \ {t} : x.holds \intersect tx[u].holds = {}
    BY <1>4, <2>2 DEF Free
  <2> HIDE DEF x
  <2> QED BY <1>1, <1>4, <2>2, <2>4, <2>5, Quiet DEF Places, Underway
<1> QED BY <1>2, <1>3, <1>4

\* A further lock of an execution.
LEMMA LocksRoomOfMove ==
    ASSUME Inv, NEW t \in Requests, UNCHANGED <<tables, today>>, pc[t] \in Executing,
           NEW r \in Rooms, Free(t, r), NEW place \in Executing,
           Continue(t, place, [tx[t] EXCEPT !.holds = @ \union {r}])
    PROVE  Inv' /\ TablesStep
<1> DEFINE x == [tx[t] EXCEPT !.holds = @ \union {r}]
<1>1. /\ tx[t] \in Transaction /\ PlaceOk(t, pc[t], tx[t], contracts, transfers, today)
      /\ \A u \in Requests \ {t} : tx[t].holds \intersect tx[u].holds = {}
  BY Going DEF Answers, Executing
<1>2. x \in Transaction /\ x.holds = tx[t].holds \union {r} /\ x.subject = tx[t].subject
  BY <1>1 DEF Transaction, Rows
<1>3. PlaceOk(t, place, x, contracts, transfers, today)
  BY <1>1, <1>2 DEF PlaceOk, Kept, Executing, Answers
<1>4. \A u \in Requests \ {t} : x.holds \intersect tx[u].holds = {}
  BY <1>1, <1>2 DEF Free
<1>5. place \in Places
  BY DEF Executing, Places, Underway
<1> HIDE DEF x
<1> QED BY <1>2, <1>3, <1>4, <1>5, Quiet DEF x

LEMMA LocksRooms ==
    ASSUME Inv, NEW t \in Requests, LockFromRoom(t) \/ LockToRoom(t) PROVE Inv' /\ TablesStep
<1>1. pc[t] \in Executing
  BY DEF LockFromRoom, LockToRoom, Executing
<1>2. Subject(t) \in Transfer
  <2>1. PlaceOk(t, pc[t], tx[t], contracts, transfers, today)
    BY DEF Inv
  <2> QED BY <1>1, <2>1, RowTypes DEF PlaceOk, Subject
<1>3. Subject(t).from \in Rooms /\ Subject(t).to \in Rooms
  BY <1>2 DEF Transfer
<1>4. CASE LockFromRoom(t)
  BY <1>1, <1>3, <1>4, LocksRoomOfMove DEF LockFromRoom, Executing
<1>5. CASE LockToRoom(t)
  BY <1>1, <1>3, <1>5, LocksRoomOfMove DEF LockToRoom, Executing
<1> QED BY <1>4, <1>5

-----------------------------------------------------------------------------
(* The steps that write one row                                            *)

\* The invariant, after a request that has written and is answered.
LEMMA Commits ==
    ASSUME Inv, TablesStep, NEW t \in Requests, Answer(t, "ok"),
           Respects(t, contracts, contracts', Contracts),
           Respects(t, transfers, transfers', Transfers),
           \A c \in Contracts : contracts'[c] # contracts[c] =>
               /\ LocalOk(c, contracts'[c], accepted', today')
               /\ contracts'[c].parent # None => contracts'[contracts'[c].parent] # None
               /\ contracts'[c].status = "renewed" => Succeeded(c, contracts'[c], contracts'),
           \A i \in Transfers : transfers'[i] # transfers[i] => BookingOk(transfers'[i], contracts'),
           NoClash(periods'),
           \A c \in Contracts : StayOk(c, contracts'[c], periods')
    PROVE  Inv' /\ TablesStep
<1>1. TablesOk(contracts', accepted', periods', transfers', today')
  BY TablesFollow
<1>2. /\ "ok" \in Answers /\ "ok" \in Places /\ Idle \in Transaction /\ Continue(t, "ok", Idle)
      /\ PlaceOk(t, "ok", Idle, contracts', transfers', today')
      /\ \A u \in Requests \ {t} : Idle.holds \intersect tx[u].holds = {}
  BY Answering DEF Answers
<1> QED BY <1>1, <1>2, Assemble

\* A contract that is not active, and does not become so, is written.
LEMMA RowWritten ==
    ASSUME Inv, NEW t \in Requests, Answer(t, "ok"),
           NEW c \in Contracts, NEW row \in Contract,
           contracts' = [contracts EXCEPT ![c] = row],
           UNCHANGED <<periods, rooms, transfers, today>>,
           accepted' \subseteq [contract : Contracts, version : Nat], accepted \subseteq accepted',
           \/ c = t /\ contracts[c] = None
           \/ contracts[c] # None /\ Free(t, c) /\ contracts[c].status \notin Began,
           RowStep(contracts[c], row),
           row.status \notin Began,
           LocalOk(c, row, accepted', today),
           row.parent # None => row.parent \in Contracts /\ contracts[row.parent] # None
    PROVE  Inv' /\ TablesStep
<1>1. /\ contracts \in [Contracts -> Contract \union {None}]
      /\ contracts'[c] = row /\ row # None
      /\ \A d \in Contracts \ {c} : contracts'[d] = contracts[d]
  BY RowTypes DEF Inv, TypeOK
<1>2. TablesStep
  <2>1. \A d \in Contracts : RowStep(contracts[d], contracts'[d])
    BY <1>1 DEF RowStep
  <2>2. \A i \in Transfers : MoveStep(transfers[i], transfers'[i])
    BY DEF MoveStep
  <2>3. today' \in Days /\ today <= today'
    BY RowTypes
  <2> QED BY <1>1, <2>1, <2>2, <2>3 DEF TablesStep, Inv, TypeOK
<1>3. Respects(t, contracts, contracts', Contracts) /\ Respects(t, transfers, transfers', Transfers)
  BY <1>1 DEF Respects, Free
<1>4. row.parent # None => contracts'[row.parent] # None
  BY <1>2, Existence
<1>5. NoClash(periods') /\ \A d \in Contracts : StayOk(d, contracts[d], periods)
  BY DEF Inv, TablesOk
<1>6. \A d \in Contracts : StayOk(d, contracts'[d], periods')
  BY <1>1, <1>5 DEF StayOk, Began
<1> QED BY <1>1, <1>2, <1>3, <1>4, <1>5, <1>6, Commits DEF Began

LEMMA CreatesContract ==
    ASSUME Inv, NEW t \in Requests, CreateContract(t), UNCHANGED transfers PROVE Inv' /\ TablesStep
<1>1. PICK b \in Drafts :
        contracts' = [contracts EXCEPT ![t] = NewContract(b, b.tenant, b.room, None)]
  BY DEF CreateContract
<1> DEFINE row == NewContract(b, b.tenant, b.room, None)
<1>2. t \in Contracts /\ contracts[t] = None
  BY Going DEF CreateContract, Answers
<1>3. b \in [room : Rooms, tenant : Tenants, start : Days, end : Days] /\ b.start <= b.end
  BY TenancyBodiesAssumption
<1>4. row \in Contract /\ row.status = "draft" /\ row.parent = None /\ row.start <= row.end
  BY <1>3 DEF NewContract, Contract, ContractStatuses
<1>5. accepted \subseteq [contract : Contracts, version : Nat]
  BY DEF Inv, TypeOK
<1>6. RowStep(contracts[t], row) /\ LocalOk(t, row, accepted, today)
  BY <1>2, <1>4 DEF RowStep, LocalOk
<1>7. Answer(t, "ok") /\ UNCHANGED <<accepted, periods, rooms, transfers, today>>
  BY DEF CreateContract
<1> HIDE DEF row
<1>8. contracts' = [contracts EXCEPT ![t] = row]
  BY <1>1 DEF row
<1> QED BY <1>2, <1>4, <1>5, <1>6, <1>7, <1>8, RowWritten DEF Began

LEMMA InsertsRenewal ==
    ASSUME Inv, NEW t \in Requests, InsertRenewal(t), UNCHANGED transfers PROVE Inv' /\ TablesStep
<1> DEFINE c == tx[t].subject
           parent == contracts[c]
           row == NewContract(tx[t].body, parent.tenant, parent.room, c)
<1>1. /\ pc[t] = "renewing" /\ UNCHANGED <<accepted, periods, rooms, transfers, today>>
      /\ \/ Answer(t, "ok") /\ contracts' = [contracts EXCEPT ![t] = row]
         \/ Answer(t, "refused") /\ UNCHANGED contracts
  BY DEF InsertRenewal
<1>2. CASE Answer(t, "refused") /\ UNCHANGED contracts
  BY <1>1, <1>2, Refused DEF Answers, tables, tenancyTables
<1>3. CASE Answer(t, "ok") /\ contracts' = [contracts EXCEPT ![t] = row]
  <2>1. /\ t \in Contracts /\ contracts[t] = None
        /\ PlaceOk(t, "renewing", tx[t], contracts, transfers, today)
    BY <1>1, Going DEF Answers
  <2>2. /\ c \in Contracts /\ parent # None
        /\ tx[t].body \in Renewals \union Extensions /\ tx[t].body.start <= tx[t].body.end
    BY <2>1 DEF PlaceOk, Kept
  <2>3. tx[t].body.start \in Days /\ tx[t].body.end \in Days
    BY <2>2, TenancyBodiesAssumption
  <2>4. parent \in Contract
    BY <2>2, RowTypes
  <2>5. /\ row \in Contract /\ row.status = "draft" /\ row.parent = c /\ row.start <= row.end
    BY <2>2, <2>3, <2>4 DEF NewContract, Contract, ContractStatuses
  <2>6. RowStep(contracts[t], row) /\ LocalOk(t, row, accepted, today)
    BY <2>1, <2>5 DEF RowStep, LocalOk
  <2>7. accepted \subseteq [contract : Contracts, version : Nat]
    BY DEF Inv, TypeOK
  <2> HIDE DEF row
  <2> QED BY <1>1, <1>3, <2>1, <2>2, <2>5, <2>6, <2>7, RowWritten DEF Began
<1> QED BY <1>1, <1>2, <1>3

LEMMA OffersOrCancels ==
    ASSUME Inv, NEW t \in Requests, OfferOrCancel(t), UNCHANGED transfers PROVE Inv' /\ TablesStep
<1>1. PICK b \in Transitions :
        /\ b.to \in {"pending_tenant", "cancelled"}
        /\ Exists(b.contract) /\ Free(t, b.contract) /\ MayTransition(b)
        /\ contracts' = [contracts EXCEPT ![b.contract].status = b.to]
  BY DEF OfferOrCancel
<1> DEFINE c == b.contract
           row == [contracts[c] EXCEPT !.status = b.to]
<1>2. c \in Contracts
  BY TenancyBodiesAssumption
<1>3. contracts[c] # None /\ contracts[c] \in Contract
  BY <1>1, <1>2, RowTypes DEF Exists
<1>4. contracts[c].status \in {"draft", "pending_tenant", "scheduled"}
  BY <1>1 DEF MayTransition, CanTransition
<1>5. /\ row \in Contract /\ row.status = b.to /\ row.parent = contracts[c].parent
      /\ row.start = contracts[c].start /\ row.end = contracts[c].end
  BY <1>1, <1>3 DEF Contract, ContractStatuses, Terminal
<1>6. RowStep(contracts[c], row)
  BY <1>3, <1>4, <1>5 DEF RowStep, Terminal
<1>7. contracts[c].start <= contracts[c].end
  BY <1>2, <1>3 DEF Inv, TablesOk, LocalOk
<1>8. LocalOk(c, row, accepted, today)
  BY <1>1, <1>5, <1>7 DEF LocalOk
<1>9. row.parent # None => row.parent \in Contracts /\ contracts[row.parent] # None
  <2>1. RowOk(c, contracts) BY <1>2 DEF Inv, TablesOk
  <2> QED BY <2>1, <1>3, <1>5 DEF RowOk, Contract
<1>10. accepted \subseteq [contract : Contracts, version : Nat]
  BY DEF Inv, TypeOK
<1>11. Answer(t, "ok") /\ UNCHANGED <<accepted, periods, rooms, transfers, today>>
  BY DEF OfferOrCancel
<1>12. contracts' = [contracts EXCEPT ![c] = row]
  BY <1>1
<1> HIDE DEF row
<1> QED BY <1>1, <1>2, <1>3, <1>4, <1>5, <1>6, <1>8, <1>9, <1>10, <1>11, <1>12, RowWritten DEF Began

LEMMA TenantAccepts ==
    ASSUME Inv, NEW t \in Requests, AcceptByTenant(t), UNCHANGED transfers PROVE Inv' /\ TablesStep
<1>1. PICK c \in Acceptances :
        \/ /\ Exists(c) /\ Free(t, c)
           /\ contracts[c].status = "pending_tenant"
           /\ accepted' = accepted \union {[contract |-> c, version |-> contracts[c].version]}
           /\ contracts' = [contracts EXCEPT ![c].status = "scheduled"]
           /\ Answer(t, "ok")
        \/ Answer(t, "refused") /\ UNCHANGED <<accepted, contracts>>
  BY DEF AcceptByTenant
<1>2. UNCHANGED <<periods, rooms, transfers, today>>
  BY DEF AcceptByTenant
<1>3. CASE Answer(t, "refused") /\ UNCHANGED <<accepted, contracts>>
  BY <1>2, <1>3, Refused DEF Answers, tables, tenancyTables
<1> DEFINE row == [contracts[c] EXCEPT !.status = "scheduled"]
<1>4. CASE /\ Exists(c) /\ Free(t, c)
           /\ contracts[c].status = "pending_tenant"
           /\ accepted' = accepted \union {[contract |-> c, version |-> contracts[c].version]}
           /\ contracts' = [contracts EXCEPT ![c] = row]
           /\ Answer(t, "ok")
  <2>1. c \in Contracts
    BY TenancyBodiesAssumption
  <2>2. contracts[c] # None /\ contracts[c] \in Contract
    BY <1>4, <2>1, RowTypes DEF Exists
  <2>3. /\ row \in Contract /\ row.status = "scheduled" /\ row.parent = contracts[c].parent
        /\ row.start = contracts[c].start /\ row.end = contracts[c].end
        /\ row.version = contracts[c].version /\ row.version \in Nat
    BY <2>2 DEF Contract, ContractStatuses
  <2>4. RowStep(contracts[c], row)
    BY <1>4, <2>2, <2>3 DEF RowStep, Terminal
  <2>5. contracts[c].start <= contracts[c].end
    BY <2>1, <2>2 DEF Inv, TablesOk, LocalOk
  <2>6. LocalOk(c, row, accepted', today)
    BY <1>4, <2>3, <2>5 DEF LocalOk
  <2>7. row.parent # None => row.parent \in Contracts /\ contracts[row.parent] # None
    <3>1. RowOk(c, contracts) BY <2>1 DEF Inv, TablesOk
    <3> QED BY <3>1, <2>2, <2>3 DEF RowOk, Contract
  <2>8. accepted' \subseteq [contract : Contracts, version : Nat] /\ accepted \subseteq accepted'
    BY <1>4, <2>1, <2>3 DEF Inv, TypeOK
  <2> HIDE DEF row
  <2> QED BY <1>2, <1>4, <2>1, <2>2, <2>3, <2>4, <2>6, <2>7, <2>8, RowWritten DEF Began
<1> QED BY <1>1, <1>3, <1>4

\* A step that writes no contract and no period.
LEMMA BesideContracts ==
    ASSUME Inv, NEW t \in Requests, Answer(t, "ok"),
           UNCHANGED <<contracts, accepted, periods, today>>,
           rooms' \in [Rooms -> RoomStatuses],
           transfers' \in [Transfers -> Transfer \union {None}],
           \A i \in Transfers : MoveStep(transfers[i], transfers'[i]),
           Respects(t, transfers, transfers', Transfers),
           \A i \in Transfers : transfers'[i] # transfers[i] => BookingOk(transfers'[i], contracts)
    PROVE  Inv' /\ TablesStep
<1>1. TablesStep
  <2>1. \A c \in Contracts : RowStep(contracts[c], contracts'[c])
    BY DEF RowStep
  <2>2. today' \in Days /\ today <= today'
    BY RowTypes
  <2> QED BY <2>1, <2>2 DEF TablesStep, Inv, TypeOK
<1>2. Respects(t, contracts, contracts', Contracts)
  BY DEF Respects
<1>3. NoClash(periods') /\ \A c \in Contracts : StayOk(c, contracts'[c], periods')
  BY DEF Inv, TablesOk
<1> QED BY <1>1, <1>2, <1>3, Commits

LEMMA EditsRoom ==
    ASSUME Inv, NEW t \in Requests, EditRoom(t), UNCHANGED transfers PROVE Inv' /\ TablesStep
<1>1. PICK b \in RoomEdits : rooms' = [rooms EXCEPT ![b.room] = b.status]
  BY DEF EditRoom
<1>2. b.room \in Rooms /\ b.status \in RoomStatuses
  BY TenancyBodiesAssumption
<1>3. rooms' \in [Rooms -> RoomStatuses] /\ transfers' \in [Transfers -> Transfer \union {None}]
  BY <1>1, <1>2 DEF Inv, TypeOK
<1>4. \A i \in Transfers : MoveStep(transfers[i], transfers'[i])
  BY DEF MoveStep
<1>5. Respects(t, transfers, transfers', Transfers)
  BY DEF Respects
<1>6. Answer(t, "ok") /\ UNCHANGED <<contracts, accepted, periods, today>>
  BY DEF EditRoom
<1> QED BY <1>3, <1>4, <1>5, <1>6, BesideContracts

\* A transfer is written.
LEMMA TransferWritten ==
    ASSUME Inv, NEW t \in Requests, Answer(t, "ok"), UNCHANGED <<tenancyTables, today>>,
           NEW i \in Transfers, NEW x \in Transfer, transfers' = [transfers EXCEPT ![i] = x],
           BookingOk(x, contracts),
           \/ i = t /\ transfers[i] = None
           \/ /\ transfers[i] # None /\ Free(t, i) /\ transfers[i].status \in Held
              /\ x.contract = transfers[i].contract /\ x.day = transfers[i].day
    PROVE  Inv' /\ TablesStep
<1>1. /\ transfers' \in [Transfers -> Transfer \union {None}] /\ transfers'[i] = x
      /\ \A j \in Transfers \ {i} : transfers'[j] = transfers[j]
  BY DEF Inv, TypeOK
<1>2. \A j \in Transfers : MoveStep(transfers[j], transfers'[j])
  BY <1>1 DEF MoveStep
<1>3. Respects(t, transfers, transfers', Transfers)
  BY <1>1 DEF Respects, Free
<1>4. UNCHANGED <<contracts, accepted, periods, today>> /\ rooms' \in [Rooms -> RoomStatuses]
  BY DEF tenancyTables, Inv, TypeOK
<1> QED BY <1>1, <1>2, <1>3, <1>4, BesideContracts

LEMMA InsertsTransfer ==
    ASSUME Inv, NEW t \in Requests, InsertTransfer(t) PROVE Inv' /\ TablesStep
<1> DEFINE x == tx[t].body
<1>1. /\ pc[t] = "reserving" /\ UNCHANGED <<tenancyTables, today>>
      /\ \/ Answer(t, "ok") /\ transfers' = [transfers EXCEPT ![t] = x]
         \/ Answer(t, "refused") /\ UNCHANGED transfers
  BY DEF InsertTransfer
<1>2. CASE Answer(t, "refused") /\ UNCHANGED transfers
  BY <1>1, <1>2, AllTables, Refused DEF Answers
<1>3. CASE Answer(t, "ok") /\ transfers' = [transfers EXCEPT ![t] = x]
  <2>1. /\ t \in Transfers /\ transfers[t] = None
        /\ PlaceOk(t, "reserving", tx[t], contracts, transfers, today)
    BY <1>1, Going DEF Answers
  <2>2. x \in Transfer /\ BookingOk(x, contracts)
    BY <2>1 DEF PlaceOk
  <2> QED BY <1>1, <1>3, <2>1, <2>2, TransferWritten
<1> QED BY <1>1, <1>2, <1>3

LEMMA Decides ==
    ASSUME Inv, NEW t \in Requests, Review(t) PROVE Inv' /\ TablesStep
<1>1. PICK b \in Reviews :
        LET x == transfers[b.transfer]
        IN  /\ x # None => Free(t, b.transfer)
            /\ \/ /\ x # None /\ MayReview(x, b.to)
                  /\ transfers' = [transfers EXCEPT ![b.transfer].status = b.to]
                  /\ Answer(t, "ok")
               \/ Answer(t, "refused") /\ UNCHANGED transfers
  BY DEF Review
<1>2. UNCHANGED <<tenancyTables, today>>
  BY DEF Review
<1>3. CASE Answer(t, "refused") /\ UNCHANGED transfers
  BY <1>2, <1>3, AllTables, Refused DEF Answers
<1> DEFINE i == b.transfer
           x == [transfers[i] EXCEPT !.status = b.to]
<1>4. CASE /\ transfers[i] # None /\ MayReview(transfers[i], b.to) /\ Answer(t, "ok")
           /\ transfers' = [transfers EXCEPT ![i] = x]
  <2>1. i \in Transfers /\ b.to \in TransferStatuses
    BY TransferAssumption DEF TransferStatuses, Held
  <2>2. transfers[i] \in Transfer /\ BookingOk(transfers[i], contracts)
    BY <1>4, <2>1, RowTypes DEF Inv, TablesOk
  <2>3. x \in Transfer /\ x.contract = transfers[i].contract /\ x.day = transfers[i].day
    BY <2>1, <2>2 DEF Transfer
  <2>6. BookingOk(x, contracts)
    BY <2>2, <2>3 DEF BookingOk
  <2>4. transfers[i].status \in Held
    BY <1>4 DEF MayReview, Held
  <2>5. Free(t, i)
    BY <1>1, <1>4
  <2> HIDE DEF x, i
  <2> QED BY <1>2, <1>4, <2>1, <2>2, <2>3, <2>4, <2>5, <2>6, TransferWritten
<1> QED BY <1>1, <1>3, <1>4

\* The steps that answer a request and write nothing.
LEMMA WritesNothing ==
    ASSUME Inv, NEW t \in Requests,
           \/ (RefuseTransition(t) \/ RefuseRoom(t) \/ RefuseSuccession(t)) /\ UNCHANGED transfers
           \/ RefuseMove(t) \/ Abort(t)
    PROVE  Inv' /\ TablesStep
<1>1. CASE (RefuseTransition(t) \/ RefuseRoom(t) \/ RefuseSuccession(t)) /\ UNCHANGED transfers
  <2>1. Answer(t, "refused") /\ UNCHANGED <<tenancyTables, today>>
    BY <1>1 DEF RefuseTransition, RefuseRoom, RefuseSuccession
  <2> QED BY <1>1, <2>1, AllTables, Refused DEF Answers
<1>2. CASE RefuseMove(t) \/ Abort(t)
  BY <1>2, Refused DEF RefuseMove, Abort, Answers
<1> QED BY <1>1, <1>2

-----------------------------------------------------------------------------
(* The steps that write periods                                            *)

LEMMA Closing ==
    ASSUME periods \subseteq Period, NEW cs, NEW day \in Int
    PROVE  /\ Closed(cs, day) \subseteq Period
           /\ \A c \in cs : OpenAmong(Closed(cs, day), c) = {}
           /\ \A c : c \notin cs => Among(Closed(cs, day), c) = Among(periods, c)
           /\ \A p \in periods : ~p.open => p \in Closed(cs, day)
           /\ NoClash(periods) => NoClash(Closed(cs, day))
<1> DEFINE F(p) == IF p.contract \in cs /\ p.open
                     THEN [p EXCEPT !.open = FALSE, !.end = Earlier(@, day)] ELSE p
<1>1. Closed(cs, day) = {F(p) : p \in periods}
  BY DEF Closed
<1>2. ASSUME NEW p \in periods
      PROVE  /\ F(p) \in Period /\ F(p).contract = p.contract /\ F(p).room = p.room
             /\ F(p).start = p.start /\ F(p).end <= p.end
             /\ p.contract \in cs => ~F(p).open
             /\ p.contract \notin cs => F(p) = p
             /\ ~p.open => F(p) = p
  <2>1. p \in Period /\ Earlier(p.end, day) \in Int /\ Earlier(p.end, day) <= p.end
    BY DEF Period, Earlier
  <2>2. CASE p.contract \in cs /\ p.open
    <3>1. F(p) = [p EXCEPT !.open = FALSE, !.end = Earlier(p.end, day)]
      BY <2>2
    <3> HIDE DEF F
    <3> QED BY <2>1, <2>2, <3>1 DEF Period
  <2>3. CASE ~(p.contract \in cs /\ p.open)
    <3>1. F(p) = p
      BY <2>3
    <3> HIDE DEF F
    <3> QED BY <2>1, <2>3, <3>1 DEF Period
  <2> QED BY <2>2, <2>3
<1> HIDE DEF F
<1>3. Closed(cs, day) \subseteq Period
  BY <1>1, <1>2
<1>4. \A c \in cs : OpenAmong(Closed(cs, day), c) = {}
  BY <1>1, <1>2 DEF OpenAmong
<1>5. ASSUME NEW c, c \notin cs PROVE Among(Closed(cs, day), c) = Among(periods, c)
  BY <1>1, <1>2, <1>5 DEF Among
<1>7. \A p \in periods : ~p.open => p \in Closed(cs, day)
  BY <1>1, <1>2
<1>6. ASSUME NoClash(periods) PROVE NoClash(Closed(cs, day))
  <2>1. SUFFICES ASSUME NEW p \in periods, NEW q \in periods, F(p) # F(q) PROVE ~PeriodClash(F(p), F(q))
    BY <1>1 DEF NoClash
  <2>2. ~PeriodClash(p, q)
    BY <1>6, <2>1 DEF NoClash
  <2>3. p \in Period /\ q \in Period
    OBVIOUS
  <2> QED BY <1>2, <2>2, <2>3 DEF PeriodClash, Overlap, Period
<1> QED BY <1>3, <1>4, <1>5, <1>6, <1>7

LEMMA StayStands ==
    ASSUME NEW c, NEW row, NEW ps, NEW qs, StayOk(c, row, ps), Among(qs, c) = Among(ps, c)
    PROVE  StayOk(c, row, qs)
<1>1. OpenAmong(qs, c) = OpenAmong(ps, c)
  BY DEF Among, OpenAmong
<1>2. CASE row # None /\ row.status = "active"
  <2>1. PICK p \in ps : /\ OpenAmong(ps, c) = {p}
                       /\ p.room = row.room /\ p.end = row.end
                       /\ Tiled(c, row, p, ps)
    BY <1>2 DEF StayOk
  <2>2. p \in qs
    BY <1>1, <2>1 DEF OpenAmong
  <2>3. Tiled(c, row, p, qs)
    BY <2>1 DEF Tiled
  <2> QED BY <1>1, <1>2, <2>1, <2>2, <2>3 DEF StayOk
<1>3. CASE ~(row # None /\ row.status = "active")
  BY <1>1, <1>3 DEF StayOk
<1> QED BY <1>2, <1>3

\* A first period, or the one after a move.
LEMMA Opening ==
    ASSUME NEW ps, NEW c, NEW r, NEW from, NEW to
    PROVE  /\ \A d : d # c =>
                Among(ps \union {NewPeriod(c, r, from, to)}, d) = Among(ps, d)
           /\ Among(ps \union {NewPeriod(c, r, from, to)}, c) =
                Among(ps, c) \union {NewPeriod(c, r, from, to)}
           /\ OpenAmong(ps \union {NewPeriod(c, r, from, to)}, c) =
                OpenAmong(ps, c) \union {NewPeriod(c, r, from, to)}
BY DEF Among, OpenAmong, NewPeriod

\* One contract's period, and the contract, are written.
LEMMA AmendsActive ==
    ASSUME Inv, NEW t \in Requests, UNCHANGED <<accepted, rooms, transfers, today>>,
           Answer(t, "ok"), NEW b \in Amendments, Exists(b.contract), Free(t, b.contract),
           MayAmend(b), contracts[b.contract].status = "active",
           contracts' = [contracts EXCEPT ![b.contract] =
               [status |-> contracts[b.contract].status, room |-> contracts[b.contract].room,
                tenant |-> contracts[b.contract].tenant, start |-> b.start, end |-> b.end,
                version |-> contracts[b.contract].version + 1,
                parent |-> contracts[b.contract].parent]],
           periods' = PeriodsAfterAmendment(b)
    PROVE  Inv' /\ TablesStep
<1> DEFINE c == b.contract
           old == contracts[c]
           row == [status |-> old.status, room |-> old.room, tenant |-> old.tenant,
                   start |-> b.start, end |-> b.end, version |-> old.version + 1,
                   parent |-> old.parent]
           F(p) == IF p.contract = c /\ p.open THEN [p EXCEPT !.end = b.end] ELSE p
<1>1. c \in Contracts /\ b.start \in Days /\ b.end \in Days
  BY TenancyBodiesAssumption
<1>2. contracts[c] # None /\ contracts[c] \in Contract
  BY <1>1, RowTypes DEF Exists
<1>3. /\ row \in Contract /\ row.status = "active" /\ row.parent = contracts[c].parent
      /\ row.start = b.start /\ row.end = b.end /\ row.room = contracts[c].room
  BY <1>1, <1>2 DEF Contract
<1>4. b.start = contracts[c].start /\ b.start <= b.end /\ Storable(periods')
  BY DEF MayAmend
<1>5. /\ contracts'[c] = row /\ row # None
      /\ contracts' \in [Contracts -> Contract \union {None}]
      /\ \A d \in Contracts \ {c} : contracts'[d] = contracts[d]
  BY <1>1, <1>3, RowTypes DEF Inv, TypeOK
<1> HIDE DEF row
<1>6. periods' = {F(p) : p \in periods}
  BY DEF PeriodsAfterAmendment
<1>7. ASSUME NEW p \in periods
      PROVE  /\ F(p) \in Period /\ F(p).contract = p.contract
             /\ p.contract # c => F(p) = p
             /\ ~p.open => F(p) = p
             /\ p.contract = c /\ p.open =>
                  F(p).open /\ F(p).room = p.room /\ F(p).start = p.start /\ F(p).end = b.end
             /\ F(p).open = p.open
  <2>1. p \in Period /\ b.end \in Int
    BY <1>1 DEF Inv, TypeOK, Days
  <2> QED BY <2>1 DEF Period
<1> HIDE DEF F
<1>8. \A d \in Contracts \ {c} : Among(periods', d) = Among(periods, d)
  BY <1>6, <1>7 DEF Among
<1>9. StayOk(c, row, periods')
  <2>1. StayOk(c, contracts[c], periods)
    BY <1>1 DEF Inv, TablesOk
  <2>2. PICK p \in periods :
          /\ OpenAmong(periods, c) = {p} /\ p.room = contracts[c].room
          /\ Tiled(c, contracts[c], p, periods)
    BY <2>1, <1>2 DEF StayOk
  <2>3. p.contract = c /\ p.open
    BY <2>2 DEF OpenAmong
  <2>4. OpenAmong(periods', c) = {F(p)}
    BY <1>6, <1>7, <2>2, <2>3 DEF OpenAmong
  <2>5. F(p) \in periods' /\ F(p).room = row.room /\ F(p).end = row.end
    BY <1>3, <1>6, <1>7, <2>2, <2>3
  <2>6. Among(periods', c) \ {F(p)} = Among(periods, c) \ {p}
    BY <1>6, <1>7, <2>2, <2>3 DEF Among, OpenAmong
  <2>7. F(p).start = p.start /\ F(p).start <= F(p).end
    BY <1>4, <1>7, <2>3, <2>5 DEF Storable
  <2>8. Tiled(c, row, F(p), periods')
    BY <1>3, <1>4, <2>2, <2>6, <2>7 DEF Tiled
  <2> QED BY <1>3, <1>5, <2>4, <2>5, <2>8 DEF StayOk
<1>10. \A d \in Contracts : StayOk(d, contracts'[d], periods')
  <2>1. ASSUME NEW d \in Contracts \ {c} PROVE StayOk(d, contracts'[d], periods')
    BY <1>5, <1>8, StayStands DEF Inv, TablesOk
  <2> QED BY <1>5, <1>9, <2>1
<1>11. TablesStep
  <2>1. \A d \in Contracts : RowStep(contracts[d], contracts'[d])
    BY <1>2, <1>3, <1>4, <1>5 DEF RowStep, Terminal, Began
  <2>2. \A i \in Transfers : MoveStep(transfers[i], transfers'[i])
    BY DEF MoveStep
  <2>3. today' \in Days /\ today <= today'
    BY RowTypes
  <2>4. periods' \subseteq Period /\ \A p \in periods : ~p.open => p \in periods'
    BY <1>6, <1>7
  <2> QED BY <1>5, <2>1, <2>2, <2>3, <2>4 DEF TablesStep, Inv, TypeOK
<1>12. LocalOk(c, row, accepted', today')
  <2>1. LocalOk(c, contracts[c], accepted, today)
    BY <1>1, <1>2 DEF Inv, TablesOk
  <2> QED BY <1>3, <1>4, <2>1 DEF LocalOk
<1>13. row.parent # None => contracts'[row.parent] # None
  <2>1. RowOk(c, contracts) BY <1>1 DEF Inv, TablesOk
  <2> QED BY <2>1, <1>2, <1>3, <1>11, Existence DEF RowOk, Contract
<1>14. Respects(t, contracts, contracts', Contracts) /\ Respects(t, transfers, transfers', Transfers)
  BY <1>2, <1>5 DEF Respects, Free
<1>15. NoClash(periods')
  BY <1>4 DEF Storable, NoClash
<1> QED BY <1>3, <1>5, <1>10, <1>11, <1>12, <1>13, <1>14, <1>15, Commits

LEMMA Amends ==
    ASSUME Inv, NEW t \in Requests, Amend(t), UNCHANGED transfers PROVE Inv' /\ TablesStep
<1>1. PICK b \in Amendments :
        /\ Exists(b.contract) => Free(t, b.contract)
        /\ \/ /\ Exists(b.contract) /\ MayAmend(b)
              /\ contracts' = [contracts EXCEPT
                     ![b.contract].start = b.start, ![b.contract].end = b.end,
                     ![b.contract].version = @ + 1,
                     ![b.contract].status = StatusAfterAmendment(@)]
              /\ periods' = PeriodsAfterAmendment(b)
              /\ Answer(t, "ok")
           \/ Answer(t, "refused") /\ UNCHANGED <<contracts, periods>>
  BY DEF Amend
<1>2. UNCHANGED <<accepted, rooms, transfers, today>>
  BY DEF Amend
<1>3. CASE Answer(t, "refused") /\ UNCHANGED <<contracts, periods>>
  BY <1>2, <1>3, Refused DEF Answers, tables, tenancyTables
<1> DEFINE c == b.contract
           old == contracts[c]
           row == [status |-> StatusAfterAmendment(old.status), room |-> old.room,
                   tenant |-> old.tenant, start |-> b.start, end |-> b.end,
                   version |-> old.version + 1, parent |-> old.parent]
<1>4. ASSUME Exists(c), MayAmend(b), periods' = PeriodsAfterAmendment(b), Answer(t, "ok"),
             contracts' = [contracts EXCEPT
                 ![b.contract].start = b.start, ![b.contract].end = b.end,
                 ![b.contract].version = @ + 1,
                 ![b.contract].status = StatusAfterAmendment(@)]
      PROVE  Inv' /\ TablesStep
  <2>1. c \in Contracts /\ b.start \in Days /\ b.end \in Days
    BY TenancyBodiesAssumption
  <2>2. old # None /\ old \in Contract
    BY <1>4, <2>1, RowTypes DEF Exists
  <2>3. contracts' = [contracts EXCEPT ![c] = row]
    BY <1>4, <2>1, <2>2 DEF Inv, TypeOK, Contract
  <2>4. CASE old.status = "active"
    <3>1. StatusAfterAmendment(old.status) = old.status
      BY <2>4 DEF StatusAfterAmendment
    <3>2. contracts' = [contracts EXCEPT ![b.contract] =
               [status |-> contracts[b.contract].status, room |-> contracts[b.contract].room,
                tenant |-> contracts[b.contract].tenant, start |-> b.start, end |-> b.end,
                version |-> contracts[b.contract].version + 1,
                parent |-> contracts[b.contract].parent]]
      BY <2>3, <3>1
    <3> HIDE DEF row
    <3> QED BY <1>1, <1>2, <1>4, <2>4, <3>2, AmendsActive
  <2>5. CASE old.status # "active"
    <3>1. UNCHANGED periods
      BY <1>4, <2>5 DEF PeriodsAfterAmendment
    <3>2. old.status \notin Terminal /\ b.start <= b.end
      BY <1>4 DEF MayAmend
    <3>3. StatusAfterAmendment(old.status) \in {"draft", "pending_tenant"}
      BY <2>2, <2>5, <3>2 DEF Contract, ContractStatuses, StatusAfterAmendment
    <3>4. /\ row \in Contract /\ row.parent = old.parent
          /\ row.status \in {"draft", "pending_tenant"}
          /\ row.start = b.start /\ row.end = b.end
      BY <2>1, <2>2, <3>3 DEF Contract, ContractStatuses
    <3>5. RowStep(old, row) /\ LocalOk(c, row, accepted, today)
      BY <2>2, <2>5, <3>2, <3>4 DEF RowStep, LocalOk
    <3>6. row.parent # None => row.parent \in Contracts /\ contracts[row.parent] # None
      <4>1. RowOk(c, contracts) BY <2>1 DEF Inv, TablesOk
      <4> QED BY <4>1, <2>2, <3>4 DEF RowOk, Contract
    <3>7. accepted \subseteq [contract : Contracts, version : Nat] /\ Free(t, c)
      BY <1>1, <1>4 DEF Inv, TypeOK
    <3>8. old.status \notin Began /\ row.status \notin Began
      BY <2>5, <3>2, <3>4 DEF Began, Terminal
    <3> HIDE DEF row
    <3> QED BY <1>2, <1>4, <2>1, <2>2, <2>3, <2>5, <3>1, <3>4, <3>5, <3>6, <3>7, <3>8, RowWritten
  <2> QED BY <2>4, <2>5
<1> QED BY <1>1, <1>3, <1>4

\* A step that writes the rows and the open periods of the contracts "cs" only.
LEMMA StaysWritten ==
    ASSUME Inv, NEW t \in Requests, Answer(t, "ok"), UNCHANGED <<accepted, today>>,
           contracts' \in [Contracts -> Contract \union {None}],
           rooms' \in [Rooms -> RoomStatuses],
           transfers' \in [Transfers -> Transfer \union {None}],
           periods' \subseteq Period, NoClash(periods'),
           \A p \in periods : ~p.open => p \in periods',
           Respects(t, transfers, transfers', Transfers),
           \A i \in Transfers : transfers'[i] # transfers[i] =>
               transfers[i] # None /\ MoveStep(transfers[i], transfers'[i]),
           NEW cs \in SUBSET Contracts,
           \A c \in Contracts \ cs :
               contracts'[c] = contracts[c] /\ Among(periods', c) = Among(periods, c),
           \A c \in cs :
               /\ contracts[c] # None /\ \A u \in Requests \ {t} : c \notin tx[u].holds
               /\ contracts'[c] \in Contract /\ contracts'[c].parent = contracts[c].parent
               /\ RowStep(contracts[c], contracts'[c])
               /\ LocalOk(c, contracts'[c], accepted, today)
               /\ contracts'[c].status = "renewed" => Succeeded(c, contracts'[c], contracts')
               /\ StayOk(c, contracts'[c], periods')
    PROVE  Inv' /\ TablesStep
<1>1. TablesStep
  <2>1. \A c \in Contracts : RowStep(contracts[c], contracts'[c])
    BY DEF RowStep
  <2>2. \A i \in Transfers : MoveStep(transfers[i], transfers'[i])
    BY DEF MoveStep
  <2>3. today' \in Days /\ today <= today'
    BY RowTypes
  <2> QED BY <2>1, <2>2, <2>3 DEF TablesStep, Inv, TypeOK
<1>2. Respects(t, contracts, contracts', Contracts)
  BY DEF Respects
<1>3. ASSUME NEW c \in Contracts PROVE StayOk(c, contracts'[c], periods')
  BY StayStands DEF Inv, TablesOk
<1>4. ASSUME NEW c \in cs, contracts'[c].parent # None PROVE contracts'[contracts'[c].parent] # None
  <2>1. RowOk(c, contracts) BY DEF Inv, TablesOk
  <2> QED BY <1>1, <1>4, <2>1, Existence DEF RowOk, Contract
<1>5. ASSUME NEW i \in Transfers, transfers'[i] # transfers[i]
      PROVE  BookingOk(transfers'[i], contracts')
  <2>1. transfers[i] # None /\ transfers[i] \in Transfer /\ BookingOk(transfers[i], contracts)
    BY <1>5, RowTypes DEF Inv, TablesOk
  <2>2. /\ transfers'[i] \in Transfer /\ transfers'[i].contract = transfers[i].contract
        /\ transfers'[i].day = transfers[i].day
    BY <1>5, <2>1 DEF MoveStep
  <2>3. BookingOk(transfers'[i], contracts)
    BY <2>1, <2>2 DEF BookingOk
  <2> QED BY <1>1, <2>2, <2>3, BookingStands
<1> QED BY <1>1, <1>2, <1>3, <1>4, <1>5, Commits

\* The contract an activation or a succession makes active.
LEMMA Starting ==
    ASSUME Inv, NEW t \in Requests, pc[t] \in {"activating", "succeeding"}
    PROVE  LET c == tx[t].subject
               old == contracts[c]
           IN  /\ c \in Contracts /\ old # None /\ old \in Contract
               /\ old.status = "scheduled" /\ old.start <= old.end /\ old.start <= today
               /\ \A u \in Requests \ {t} : c \notin tx[u].holds
               /\ OpenAmong(periods, c) = {} /\ Among(periods, c) = {}
               /\ FirstPeriod(c) \in Period /\ FirstPeriod(c).contract = c /\ FirstPeriod(c).open
               /\ FirstPeriod(c).start = old.start
               /\ FirstPeriod(c).room = old.room /\ FirstPeriod(c).end = old.end
<1> DEFINE c == tx[t].subject
           old == contracts[c]
<1>1. /\ PlaceOk(t, pc[t], tx[t], contracts, transfers, today)
      /\ \A u \in Requests \ {t} : tx[t].holds \intersect tx[u].holds = {}
  BY Going DEF Answers
<1>2. c \in Contracts /\ c \in tx[t].holds /\ old # None /\ old.status = "scheduled" /\ old.start <= today
  BY <1>1 DEF PlaceOk, Kept
<1>3. old \in Contract /\ old.start <= old.end /\ StayOk(c, old, periods)
  BY <1>2, RowTypes DEF Inv, TablesOk, LocalOk
<1>4. OpenAmong(periods, c) = {} /\ Among(periods, c) = {}
  BY <1>2, <1>3 DEF StayOk, Began
<1>5. /\ FirstPeriod(c) \in Period /\ FirstPeriod(c).contract = c /\ FirstPeriod(c).open
      /\ FirstPeriod(c).start = old.start
      /\ FirstPeriod(c).room = old.room /\ FirstPeriod(c).end = old.end
  BY <1>2, <1>3 DEF FirstPeriod, NewPeriod, Period, Contract, Days
<1> QED BY <1>1, <1>2, <1>3, <1>4, <1>5

\* A first period is all there is of a stay.
LEMMA FirstTiled ==
    ASSUME NEW c, NEW row \in Contract, NEW ps, NEW p, Among(ps, c) = {p},
           p.start = row.start, p.end = row.end, row.start <= row.end
    PROVE  Tiled(c, row, p, ps)
<1>1. row.start \in Int
  BY DEF Contract, Days
<1> QED BY <1>1 DEF Tiled, Days

LEMMA Activates ==
    ASSUME Inv, NEW t \in Requests, Activate(t), UNCHANGED transfers PROVE Inv' /\ TablesStep
<1> DEFINE c == tx[t].subject
           old == contracts[c]
           r == old.room
           p == FirstPeriod(c)
<1>1. /\ pc[t] = "activating" /\ Storable(periods \union {p})
      /\ contracts' = [contracts EXCEPT ![c].status = "active"]
      /\ periods' = periods \union {p}
      /\ rooms' = [rooms EXCEPT ![r] = "occupied"]
      /\ Answer(t, "ok") /\ UNCHANGED <<accepted, today>>
  BY DEF Activate
<1>2. /\ c \in Contracts /\ old # None /\ old \in Contract
      /\ old.status = "scheduled" /\ old.start <= old.end /\ old.start <= today
      /\ \A u \in Requests \ {t} : c \notin tx[u].holds
      /\ OpenAmong(periods, c) = {} /\ Among(periods, c) = {}
      /\ p \in Period /\ p.contract = c /\ p.open /\ p.start = old.start
      /\ p.room = old.room /\ p.end = old.end
  BY <1>1, Starting
<1> DEFINE row == [old EXCEPT !.status = "active"]
<1>3. /\ row \in Contract /\ row.status = "active" /\ row.parent = old.parent
      /\ row.start = old.start /\ row.end = old.end /\ row.room = old.room
  BY <1>2 DEF Contract, ContractStatuses
<1>4. /\ contracts'[c] = row /\ contracts' \in [Contracts -> Contract \union {None}]
      /\ \A d \in Contracts \ {c} : contracts'[d] = contracts[d]
  BY <1>1, <1>2, <1>3 DEF Inv, TypeOK
<1> HIDE DEF row
<1>5. periods' \subseteq Period /\ NoClash(periods')
  BY <1>1, <1>2 DEF Inv, TypeOK, Storable, NoClash
<1>6. rooms' \in [Rooms -> RoomStatuses]
  BY <1>1 DEF Inv, TypeOK, RoomStatuses
<1>7. /\ OpenAmong(periods', c) = {p} /\ Among(periods', c) = {p} /\ p \in periods'
      /\ \A d \in Contracts \ {c} : Among(periods', d) = Among(periods, d)
  <2>1. p = NewPeriod(c, old.room, old.start, old.end)
    BY DEF FirstPeriod
  <2>2. periods' = periods \union {p}
    BY <1>1
  <2>3. /\ \A d : d # c => Among(periods', d) = Among(periods, d)
        /\ Among(periods', c) = Among(periods, c) \union {p}
        /\ OpenAmong(periods', c) = OpenAmong(periods, c) \union {p}
    <3> HIDE DEF c, old
    <3> QED BY <2>1, <2>2, Opening
  <2> HIDE DEF p, c, old
  <2> QED BY <1>2, <2>2, <2>3
<1>8. StayOk(c, row, periods')
  BY <1>2, <1>3, <1>7, FirstTiled, RowTypes DEF StayOk
<1>9. RowStep(old, row) /\ LocalOk(c, row, accepted, today)
  BY <1>2, <1>3 DEF RowStep, LocalOk, Terminal
<1>10. Respects(t, transfers, transfers', Transfers) /\ transfers' \in [Transfers -> Transfer \union {None}]
  BY DEF Respects, Inv, TypeOK
<1>11. {c} \in SUBSET Contracts
  BY <1>2
<1>12. \A e \in Contracts \ {c} :
         contracts'[e] = contracts[e] /\ Among(periods', e) = Among(periods, e)
  BY <1>4, <1>7
<1>13. \A e \in {c} :
         /\ contracts[e] # None /\ \A u \in Requests \ {t} : e \notin tx[u].holds
         /\ contracts'[e] \in Contract /\ contracts'[e].parent = contracts[e].parent
         /\ RowStep(contracts[e], contracts'[e])
         /\ LocalOk(e, contracts'[e], accepted, today)
         /\ contracts'[e].status = "renewed" => Succeeded(e, contracts'[e], contracts')
         /\ StayOk(e, contracts'[e], periods')
  BY <1>2, <1>3, <1>4, <1>8, <1>9
<1>14. \A q \in periods : ~q.open => q \in periods'
  BY <1>1
<1> HIDE DEF p, c
<1> QED BY <1>14, <1>1, <1>4, <1>5, <1>6, <1>10, <1>11, <1>12, <1>13, StaysWritten, ZenonT(60)

LEMMA Succeeds ==
    ASSUME Inv, NEW t \in Requests, Succeed(t), UNCHANGED transfers PROVE Inv' /\ TablesStep
<1> DEFINE c == tx[t].subject
           old == contracts[c]
           d == old.parent
           p == FirstPeriod(c)
           row == [old EXCEPT !.status = "active"]
           left == [contracts[d] EXCEPT !.status = "renewed"]
<1>1. /\ pc[t] = "succeeding" /\ Free(t, d) /\ MaySucceed(c)
      /\ contracts' = [contracts EXCEPT ![c].status = "active", ![d].status = "renewed"]
      /\ periods' = Closed({d}, MaxDay) \union {p}
      /\ rooms' = [rooms EXCEPT ![old.room] = "occupied"]
      /\ Answer(t, "ok") /\ UNCHANGED <<accepted, today>>
  BY DEF Succeed, PeriodsAfterSuccession
<1>2. /\ c \in Contracts /\ old # None /\ old \in Contract
      /\ old.status = "scheduled" /\ old.start <= old.end /\ old.start <= today
      /\ \A u \in Requests \ {t} : c \notin tx[u].holds
      /\ OpenAmong(periods, c) = {} /\ Among(periods, c) = {}
      /\ p \in Period /\ p.contract = c /\ p.open /\ p.start = old.start
      /\ p.room = old.room /\ p.end = old.end
  BY <1>1, Starting
<1>3. d # None /\ d \in Contracts /\ contracts[d] # None /\ contracts[d] \in Contract
  <2>1. PlaceOk(t, "succeeding", tx[t], contracts, transfers, today)
    BY <1>1, Going DEF Answers
  <2>2. d # None /\ RowOk(c, contracts)
    BY <1>2, <2>1 DEF PlaceOk, Inv, TablesOk
  <2> QED BY <1>2, <2>2, RowTypes DEF RowOk, Contract
<1>4. /\ contracts[d].status = "active" /\ old.start = contracts[d].end + 1
      /\ NoClash(periods') /\ d # c
  BY <1>1, <1>2 DEF MaySucceed, Follows, PeriodsAfterSuccession, Storable, NoClash
<1>5. LocalOk(d, contracts[d], accepted, today)
  BY <1>3 DEF Inv, TablesOk
<1>6. /\ row \in Contract /\ row.status = "active" /\ row.parent = d
      /\ row.start = old.start /\ row.end = old.end /\ row.room = old.room
      /\ left \in Contract /\ left.status = "renewed" /\ left.parent = contracts[d].parent
      /\ left.start = contracts[d].start /\ left.end = contracts[d].end
  BY <1>2, <1>3 DEF Contract, ContractStatuses, Terminal
<1>7. /\ contracts'[c] = row /\ contracts'[d] = left
      /\ contracts' \in [Contracts -> Contract \union {None}]
      /\ \A e \in Contracts \ {c, d} : contracts'[e] = contracts[e]
  BY <1>1, <1>2, <1>3, <1>4, <1>6 DEF Inv, TypeOK
<1> HIDE DEF row, left
<1>8. /\ Closed({d}, MaxDay) \subseteq Period
      /\ OpenAmong(Closed({d}, MaxDay), d) = {}
      /\ \A e : e \notin {d} => Among(Closed({d}, MaxDay), e) = Among(periods, e)
      /\ \A q \in periods : ~q.open => q \in Closed({d}, MaxDay)
  <2>1. MaxDay \in Int /\ periods \subseteq Period
    BY TenancyTablesAssumption DEF Inv, TypeOK
  <2> QED BY <2>1, Closing
<1>9. /\ OpenAmong(periods', c) = {p} /\ Among(periods', c) = {p} /\ p \in periods'
      /\ OpenAmong(periods', d) = {}
      /\ \A e \in Contracts \ {c, d} : Among(periods', e) = Among(periods, e)
  <2>1. /\ Among(periods', c) = Among(Closed({d}, MaxDay), c) \union {p}
        /\ \A e : e # c => Among(periods', e) = Among(Closed({d}, MaxDay), e)
    <3>1. p = NewPeriod(c, old.room, old.start, old.end)
      BY DEF FirstPeriod
    <3> DEFINE ps == Closed({d}, MaxDay)
    <3>2. periods' = ps \union {p}
      BY <1>1
    <3> HIDE DEF p, c, d, old, ps
    <3>3. /\ Among(ps \union {p}, c) = Among(ps, c) \union {p}
          /\ \A e : e # c => Among(ps \union {p}, e) = Among(ps, e)
      BY <3>1, Opening
    <3> QED BY <3>2, <3>3 DEF ps
  <2>2. p \in periods'
    BY <1>1
  <2> HIDE DEF p, c, d
  <2>3. Among(periods', c) = {p}
    BY <1>2, <1>4, <1>8, <2>1
  <2>4. OpenAmong(periods', c) = {p}
    BY <1>2, <2>3 DEF Among, OpenAmong
  <2>5. OpenAmong(periods', d) = {}
    BY <1>4, <1>8, <2>1 DEF Among, OpenAmong
  <2> QED BY <1>4, <1>8, <2>1, <2>2, <2>3, <2>4, <2>5
<1>10. periods' \subseteq Period /\ rooms' \in [Rooms -> RoomStatuses]
  BY <1>1, <1>2, <1>8 DEF Inv, TypeOK, RoomStatuses
<1>11. StayOk(c, row, periods') /\ StayOk(d, left, periods')
  BY <1>2, <1>6, <1>9, FirstTiled, RowTypes DEF StayOk, Began
<1>12. RowStep(old, row) /\ LocalOk(c, row, accepted, today)
  BY <1>2, <1>6 DEF RowStep, LocalOk, Terminal
<1>13. RowStep(contracts[d], left) /\ LocalOk(d, left, accepted, today)
  BY <1>3, <1>4, <1>5, <1>6 DEF RowStep, LocalOk, Terminal, Began
<1>14. Succeeded(d, left, contracts')
  BY <1>2, <1>4, <1>6, <1>7, RowTypes, ZenonT(60) DEF Succeeded, Began
<1>15. Respects(t, transfers, transfers', Transfers) /\ transfers' \in [Transfers -> Transfer \union {None}]
  BY DEF Respects, Inv, TypeOK
<1>16. {c, d} \in SUBSET Contracts /\ \A u \in Requests \ {t} : d \notin tx[u].holds
  BY <1>1, <1>2, <1>3 DEF Free
<1> DEFINE cs == {c, d}
<1>17. \A e \in Contracts \ cs :
         contracts'[e] = contracts[e] /\ Among(periods', e) = Among(periods, e)
  BY <1>7, <1>9
<1>18. \A e \in cs :
         /\ contracts[e] # None /\ \A u \in Requests \ {t} : e \notin tx[u].holds
         /\ contracts'[e] \in Contract /\ contracts'[e].parent = contracts[e].parent
         /\ RowStep(contracts[e], contracts'[e])
         /\ LocalOk(e, contracts'[e], accepted, today)
         /\ contracts'[e].status = "renewed" => Succeeded(e, contracts'[e], contracts')
         /\ StayOk(e, contracts'[e], periods')
  BY <1>2, <1>3, <1>6, <1>7, <1>11, <1>12, <1>13, <1>14, <1>16
<1>19. cs \in SUBSET Contracts
  BY <1>16
<1>20. \A q \in periods : ~q.open => q \in periods'
  BY <1>1, <1>8
<1> HIDE DEF cs
<1> QED BY <1>20, <1>1, <1>4, <1>7, <1>10, <1>15, <1>17, <1>18, <1>19, StaysWritten

LEMMA FreesRooms ==
    ASSUME Inv, NEW t \in Requests, FreeRooms(t), UNCHANGED transfers PROVE Inv' /\ TablesStep
<1> DEFINE x == tx[t]
           cs == x.ends
           row(c) == [contracts[c] EXCEPT !.status = x.body.to, !.end = EndAfter(t, c)]
<1>1. /\ pc[t] = "freeing"
      /\ contracts' = [c \in Contracts |-> IF c \in cs THEN row(c) ELSE contracts[c]]
      /\ periods' = Closed(cs, x.day)
      /\ rooms' = [r \in Rooms |-> IF r \in x.frees THEN "available" ELSE rooms[r]]
      /\ Answer(t, "ok") /\ UNCHANGED <<accepted, today>>
  BY DEF FreeRooms
<1>2. /\ x \in Transaction /\ PlaceOk(t, "freeing", x, contracts, transfers, today)
      /\ \A u \in Requests \ {t} : x.holds \intersect tx[u].holds = {}
  BY <1>1, Going DEF Answers
<1>3. /\ x.day \in Days /\ x.body.to \in {"ended", "terminated"} /\ cs \subseteq Contracts
      /\ \A c \in cs : /\ c \in x.holds /\ contracts[c] # None
                       /\ contracts[c].status = "active" /\ contracts[c].start <= x.day
  BY <1>2 DEF PlaceOk, Kept, Transaction
<1>4. ASSUME NEW c \in cs
      PROVE  /\ contracts[c] \in Contract /\ row(c) \in Contract
             /\ row(c).status \in {"ended", "terminated"} /\ row(c).parent = contracts[c].parent
             /\ row(c).start = contracts[c].start /\ row(c).start <= row(c).end
  <2>1. contracts[c] \in Contract /\ contracts[c].start <= contracts[c].end
    BY <1>3, RowTypes DEF Inv, TablesOk, LocalOk
  <2>2. EndAfter(t, c) \in Days /\ contracts[c].start <= EndAfter(t, c)
    BY <1>3, <2>1 DEF EndAfter, Contract
  <2>3. /\ row(c).status = x.body.to /\ row(c).end = EndAfter(t, c)
        /\ row(c).start = contracts[c].start /\ row(c).parent = contracts[c].parent
    BY <2>1 DEF Contract
  <2>4. row(c) \in Contract
    BY <1>3, <2>1, <2>2 DEF Contract, ContractStatuses, Terminal
  <2> HIDE DEF row, x
  <2> QED BY <1>3, <2>1, <2>2, <2>3, <2>4
<1>5. /\ \A c \in cs : contracts'[c] = row(c)
      /\ \A c \in Contracts \ cs : contracts'[c] = contracts[c]
  BY <1>1, <1>3
<1> HIDE DEF row
<1>6. contracts' \in [Contracts -> Contract \union {None}]
  BY <1>1, <1>4 DEF Inv, TypeOK
<1>7. /\ periods' \subseteq Period /\ NoClash(periods')
      /\ \A c \in cs : OpenAmong(periods', c) = {}
      /\ \A c \in Contracts \ cs : Among(periods', c) = Among(periods, c)
      /\ \A p \in periods : ~p.open => p \in periods'
  <2>1. periods \subseteq Period /\ NoClash(periods) /\ x.day \in Int
    BY <1>3 DEF Inv, TypeOK, TablesOk, Days
  <2> QED BY <1>1, <2>1, Closing
<1>8. rooms' \in [Rooms -> RoomStatuses]
  BY <1>1 DEF Inv, TypeOK, RoomStatuses
<1>9. ASSUME NEW c \in cs
      PROVE  /\ contracts[c] # None /\ \A u \in Requests \ {t} : c \notin tx[u].holds
             /\ contracts'[c] \in Contract /\ contracts'[c].parent = contracts[c].parent
             /\ RowStep(contracts[c], contracts'[c])
             /\ LocalOk(c, contracts'[c], accepted, today)
             /\ contracts'[c].status = "renewed" => Succeeded(c, contracts'[c], contracts')
             /\ StayOk(c, contracts'[c], periods')
  <2>1. RowStep(contracts[c], row(c))
    BY <1>3, <1>4 DEF RowStep, Terminal, Began
  <2>2. LocalOk(c, row(c), accepted, today)
    BY <1>4 DEF LocalOk
  <2>3. StayOk(c, row(c), periods')
    BY <1>4, <1>7, RowTypes DEF StayOk, Began
  <2>4. row(c).status # "renewed"
    BY <1>4
  <2> QED BY <1>2, <1>3, <1>4, <1>5, <2>1, <2>2, <2>3, <2>4
<1>10. Respects(t, transfers, transfers', Transfers) /\ transfers' \in [Transfers -> Transfer \union {None}]
  BY DEF Respects, Inv, TypeOK
<1>11. cs \in SUBSET Contracts
  BY <1>3
<1> HIDE DEF cs
<1> QED BY <1>1, <1>5, <1>6, <1>7, <1>8, <1>9, <1>10, <1>11, StaysWritten

\* The old stay ends on the eve of the new one, or on its own first day.
LEMMA EveOfMove ==
    ASSUME NEW S \in Int, NEW D \in Int, NEW E \in Int, NEW o \in Int, NEW X,
           X = IF E < (IF D - 1 < S THEN S ELSE D - 1) THEN E ELSE (IF D - 1 < S THEN S ELSE D - 1),
           S <= D, D <= E, S <= o, o <= X
    PROVE  X <= D /\ o <= D /\ \A d \in Int : S <= d /\ d < D => d <= X
OBVIOUS

LEMMA Moves ==
    ASSUME Inv, NEW t \in Requests, Move(t) PROVE Inv' /\ TablesStep
<1> DEFINE i == tx[t].subject
           x == transfers[i]
           c == x.contract
           old == contracts[c]
           p == NextPeriod(x, old)
           F(q) == IF q.contract = c /\ q.room = x.from /\ q.open
                     THEN [q EXCEPT !.open = FALSE, !.end = Earlier(@, LastDay(x, old))] ELSE q
           row == [status |-> old.status, room |-> x.to, tenant |-> old.tenant,
                   start |-> old.start, end |-> old.end, version |-> old.version + 1,
                   parent |-> old.parent]
           done == [x EXCEPT !.status = "completed"]
<1>1. /\ pc[t] = "moving" /\ Free(t, c) /\ MayMove(x, old)
      /\ periods' = OldPeriodClosed(x, old) \union {p}
      /\ contracts' = [contracts EXCEPT ![c].room = x.to, ![c].version = @ + 1]
      /\ rooms' = [rooms EXCEPT
             ![x.from] = IF EmptyRoom(x.from, PeriodsAfterMove(x, old)) THEN "available" ELSE @,
             ![x.to] = "occupied"]
      /\ transfers' = [transfers EXCEPT ![i].status = "completed"]
      /\ Answer(t, "ok") /\ UNCHANGED <<accepted, today>>
  BY DEF Move, Subject, PeriodsAfterMove
<1>2. /\ i \in Transfers /\ x # None /\ x.status \in Held
      /\ \A u \in Requests \ {t} : i \notin tx[u].holds
  BY <1>1, Going DEF PlaceOk, Executing, Answers
<1>3. /\ x \in Transfer /\ c \in Contracts /\ old # None /\ old \in Contract
      /\ BookingOk(x, contracts)
  BY <1>2, RowTypes DEF Inv, TablesOk, Transfer, BookingOk
<1>4. /\ old.status = "active" /\ Storable(periods') /\ x.day <= old.end
      /\ \A q \in OldPeriodClosed(x, old) : q.start <= q.end
      /\ p \notin OldPeriodClosed(x, old)
      /\ LocalOk(c, old, accepted, today) /\ StayOk(c, old, periods)
  BY <1>1, <1>3 DEF MayMove, PeriodsAfterMove, Inv, TablesOk
<1>5. /\ row \in Contract /\ row.status = "active" /\ row.parent = old.parent
      /\ row.start = old.start /\ row.end = old.end /\ row.room = x.to
  <2>1. x.to \in Rooms /\ old.version + 1 \in Nat
    BY <1>3 DEF Contract, Transfer
  <2>2. row \in Contract
    <3> HIDE DEF x, old
    <3> QED BY <1>3, <2>1 DEF Contract
  <2>3. old \in Contract
    BY <1>3
  <2> HIDE DEF x, old
  <2> QED BY <1>4, <2>2, <2>3 DEF Contract
<1>6. contracts' = [contracts EXCEPT ![c] = row]
  <2>1. contracts' = [contracts EXCEPT ![c].room = x.to, ![c].version = @ + 1]
    BY <1>1
  <2>2. contracts \in [Contracts -> Contract \union {None}]
    BY DEF Inv, TypeOK
  <2> HIDE DEF c, x
  <2> QED BY <1>3, <2>1, <2>2 DEF Contract
<1>7. /\ contracts'[c] = row /\ contracts' \in [Contracts -> Contract \union {None}]
      /\ \A d \in Contracts \ {c} : contracts'[d] = contracts[d]
  BY <1>3, <1>5, <1>6 DEF Inv, TypeOK
<1>8. done \in Transfer /\ done.contract = c /\ done.day = x.day
  BY <1>3 DEF Transfer, TransferStatuses
<1>9. /\ transfers'[i] = done /\ transfers' \in [Transfers -> Transfer \union {None}]
      /\ \A j \in Transfers \ {i} : transfers'[j] = transfers[j]
  BY <1>1, <1>2, <1>8 DEF Inv, TypeOK
<1> HIDE DEF row, done
<1>10. OldPeriodClosed(x, old) = {F(q) : q \in periods}
  BY DEF OldPeriodClosed
<1>11. ASSUME NEW q \in periods
       PROVE  /\ F(q) \in Period /\ F(q).contract = q.contract /\ F(q).start = q.start
              /\ q.contract # c => F(q) = q
              /\ ~q.open => F(q) = q
              /\ q.room # x.from => F(q) = q
              /\ q.contract = c /\ q.room = x.from /\ q.open =>
                   ~F(q).open /\ F(q).end = Earlier(q.end, LastDay(x, old))
  <2>1. q \in Period
    BY DEF Inv, TypeOK
  <2>2. LastDay(x, old) \in Int
    BY <1>3 DEF LastDay, Transfer, Contract, Days
  <2>3. Earlier(q.end, LastDay(x, old)) \in Int
    BY <2>1, <2>2 DEF Earlier, Period
  <2> QED BY <2>1, <2>3 DEF Period
<1> HIDE DEF F
<1>12. /\ p \in Period /\ p.contract = c /\ p.open /\ p.room = x.to /\ p.end = old.end
       /\ p.start = x.day
  BY <1>3 DEF NextPeriod, NewPeriod, EndOfStay, Period, Transfer, Contract, Days
<1> HIDE DEF p
<1>13. /\ periods' \subseteq Period /\ p \in periods' /\ NoClash(periods')
       /\ periods' = {F(q) : q \in periods} \union {p}
       /\ \A q \in periods : ~q.open => q \in periods'
  <2>1. periods' = {F(q) : q \in periods} \union {p}
    BY <1>1, <1>10
  <2>2. NoClash(periods')
    BY <1>4 DEF Storable, NoClash
  <2> HIDE DEF c, x
  <2> QED BY <1>11, <1>12, <2>1, <2>2
<1>14. \A d \in Contracts \ {c} : Among(periods', d) = Among(periods, d)
  <2> HIDE DEF c, x
  <2> QED BY <1>11, <1>12, <1>13 DEF Among
<1>15. OpenAmong(periods', c) = {p}
  BY <1>4, <1>12, <1>13 DEF OpenAmong, Storable
<1>24. Tiled(c, row, p, periods')
  <2>1. PICK o \in periods : OpenAmong(periods, c) = {o} /\ o.end = old.end /\ Tiled(c, old, o, periods)
    BY <1>3, <1>4 DEF StayOk
  <2>2. o.contract = c /\ o.open /\ o \in Period
    BY <2>1 DEF OpenAmong, Inv, TypeOK
  <2>3. o.room = x.from
    <3>1. SUFFICES ASSUME o.room # x.from PROVE FALSE
      OBVIOUS
    <3>2. o \in OldPeriodClosed(x, old)
      BY <1>10, <1>11, <3>1
    <3>3. o \in OpenAmong(periods', c)
      BY <1>11, <1>13, <2>2, <3>1 DEF OpenAmong
    <3> QED BY <1>4, <1>15, <3>2, <3>3
  <2>4. /\ ~F(o).open /\ F(o).start = o.start /\ F(o).end = Earlier(o.end, LastDay(x, old))
        /\ F(o).start <= F(o).end
    BY <1>4, <1>10, <1>11, <2>2, <2>3
  <2>5. Among(periods', c) \ {p} = (Among(periods, c) \ {o}) \union {F(o)}
    <3>1. \A q \in Among(periods, c) \ {o} : ~q.open /\ F(q) = q
      BY <1>11, <2>1 DEF Among, OpenAmong
    <3> HIDE DEF c, x
    <3> QED BY <1>11, <1>12, <1>13, <2>2, <2>4, <3>1 DEF Among
  <2> DEFINE S == old.start
             X == F(o).end
  <2>6. /\ S \in Int /\ x.day \in Int /\ old.end \in Int /\ o.start \in Int
        /\ S <= x.day /\ x.day <= old.end /\ S <= o.start /\ o.start <= X
        /\ X = IF old.end < (IF x.day - 1 < S THEN S ELSE x.day - 1)
                 THEN old.end ELSE (IF x.day - 1 < S THEN S ELSE x.day - 1)
    <3>1. S \in Int /\ old.end \in Int /\ x.day \in Int /\ o.start \in Int
      BY <1>3, <2>2 DEF Transfer, Contract, Period, Days
    <3>2. S <= x.day /\ x.day <= old.end
      BY <1>3, <1>4 DEF BookingOk
    <3>3. S <= o.start /\ o.start <= X
      BY <2>1, <2>4 DEF Tiled
    <3>4. X = Earlier(old.end, LastDay(x, old))
      BY <2>1, <2>4
    <3> HIDE DEF X
    <3> QED BY <3>1, <3>2, <3>3, <3>4 DEF Earlier, LastDay
  <2>7. X <= x.day /\ o.start <= x.day /\ \A d \in Int : S <= d /\ d < x.day => d <= X
    <3> HIDE DEF X, S
    <3> DEFINE D == x.day
               E == old.end
               O == o.start
    <3>1. /\ S \in Int /\ D \in Int /\ E \in Int /\ O \in Int
          /\ S <= D /\ D <= E /\ S <= O /\ O <= X
          /\ X = IF E < (IF D - 1 < S THEN S ELSE D - 1) THEN E ELSE (IF D - 1 < S THEN S ELSE D - 1)
      BY <2>6
    <3> HIDE DEF D, E, O
    <3>2. X <= D /\ O <= D /\ \A d \in Int : S <= d /\ d < D => d <= X
      BY <3>1, EveOfMove
    <3> QED BY <3>2 DEF D, O
  <2>8. ASSUME NEW q \in Among(periods, c) \ {o} PROVE row.start <= q.start /\ q.end <= p.start
    <3>1. q \in Period /\ S <= q.start /\ q.end <= o.start
      BY <2>1 DEF Tiled, Among, Inv, TypeOK
    <3>2. row.start = S /\ p.start = x.day
      BY <1>5, <1>12
    <3>3. q.start \in Int /\ q.end \in Int
      BY <3>1 DEF Period
    <3> HIDE DEF S, X, x
    <3> QED BY <2>6, <2>7, <3>1, <3>2, <3>3
  <2>9. ASSUME NEW d \in Days, row.start <= d, d < p.start
        PROVE  \E q \in Among(periods', c) \ {p} : q.start <= d /\ d <= q.end
    <3>1. d \in Int /\ S <= d /\ d < x.day
      BY <1>5, <1>12, <2>9 DEF Days
    <3>2. CASE d < o.start
      BY <2>1, <2>5, <3>1, <3>2 DEF Tiled
    <3>3. CASE o.start <= d
      BY <2>4, <2>5, <2>7, <3>1, <3>3
    <3>4. d < o.start \/ o.start <= d
      <4>1. o.start \in Int
        BY <2>6
      <4> QED BY <3>1, <4>1
    <3> QED BY <3>2, <3>3, <3>4
  <2>10. row.start <= F(o).start /\ F(o).end <= p.start /\ row.start <= p.start /\ p.start <= p.end
    BY <1>5, <1>12, <2>4, <2>6, <2>7
  <2> HIDE DEF X, S
  <2> QED BY <2>5, <2>8, <2>9, <2>10 DEF Tiled
<1>16. StayOk(c, row, periods')
  BY <1>5, <1>12, <1>13, <1>15, <1>24, RowTypes DEF StayOk
<1>17. RowStep(old, row) /\ LocalOk(c, row, accepted, today)
  BY <1>3, <1>4, <1>5 DEF RowStep, LocalOk, Terminal, Began
<1>18. MoveStep(x, done) /\ Respects(t, transfers, transfers', Transfers)
  BY <1>2, <1>8, <1>9 DEF MoveStep, Respects
<1>19. rooms' \in [Rooms -> RoomStatuses]
  <2>1. x.from \in Rooms /\ x.to \in Rooms
    BY <1>3 DEF Transfer
  <2> QED BY <1>1, <2>1 DEF Inv, TypeOK, RoomStatuses
<1> DEFINE cs == {c}
<1>20. \A e \in Contracts \ cs :
         contracts'[e] = contracts[e] /\ Among(periods', e) = Among(periods, e)
  BY <1>7, <1>14
<1>21. \A e \in cs :
         /\ contracts[e] # None /\ \A u \in Requests \ {t} : e \notin tx[u].holds
         /\ contracts'[e] \in Contract /\ contracts'[e].parent = contracts[e].parent
         /\ RowStep(contracts[e], contracts'[e])
         /\ LocalOk(e, contracts'[e], accepted, today)
         /\ contracts'[e].status = "renewed" => Succeeded(e, contracts'[e], contracts')
         /\ StayOk(e, contracts'[e], periods')
  BY <1>1, <1>3, <1>5, <1>7, <1>16, <1>17 DEF Free
<1>22. \A j \in Transfers : transfers'[j] # transfers[j] =>
         transfers[j] # None /\ MoveStep(transfers[j], transfers'[j])
  BY <1>2, <1>9, <1>18
<1>23. cs \in SUBSET Contracts
  BY <1>3
<1> HIDE DEF cs, c, x, i
<1> QED BY <1>1, <1>7, <1>9, <1>13, <1>18, <1>19, <1>20, <1>21, <1>22, <1>23, StaysWritten

-----------------------------------------------------------------------------
(* The calendar, and the start                                             *)

LEMMA DayPasses ==
    ASSUME Inv, NextDay, UNCHANGED transfers PROVE Inv' /\ TablesStep
<1>1. /\ contracts' = contracts /\ accepted' = accepted /\ periods' = periods
      /\ rooms' = rooms /\ transfers' = transfers /\ pc' = pc /\ tx' = tx
      /\ today' = today + 1 /\ today < MaxDay
  BY DEF NextDay, tenancyTables
<1>2. today' \in Days /\ today \in Nat
  BY <1>1, RowTypes, TenancyTablesAssumption DEF Days
<1>3. TypeOK'
  BY <1>1, <1>2 DEF Inv, TypeOK, Exists
<1>4. ASSUME NEW c \in Contracts, contracts[c] # None, contracts[c].start <= today
      PROVE  contracts[c].start <= today'
  <2>1. contracts[c].start \in Nat
    BY <1>4, RowTypes DEF Contract
  <2> QED BY <1>1, <1>2, <1>4, <2>1
<1>5. TablesOk(contracts', accepted', periods', transfers', today')
  <2>1. ASSUME NEW c \in Contracts, contracts[c] # None PROVE LocalOk(c, contracts[c], accepted, today')
    BY <1>4, <2>1 DEF Inv, TablesOk, LocalOk
  <2> QED BY <1>1, <2>1 DEF Inv, TablesOk
<1>6. ASSUME NEW t \in Requests PROVE PlaceOk(t, pc[t], tx[t], contracts, transfers, today')
  <2> DEFINE place == pc[t]
             x == tx[t]
  <2>1. PlaceOk(t, place, x, contracts, transfers, today)
    BY DEF Inv
  <2>2. ASSUME place \in {"activating", "succeeding"} PROVE contracts[x.subject].start <= today'
    BY <1>4, <2>1, <2>2 DEF PlaceOk, Kept
  <2> HIDE DEF place, x
  <2>3. PlaceOk(t, place, x, contracts, transfers, today')
    BY <2>1, <2>2 DEF PlaceOk
  <2> QED BY <2>3 DEF place, x
<1>7. TablesStep
  <2>1. today <= today'
    BY <1>1, <1>2
  <2> QED BY <1>1, <1>2, <1>3, <2>1 DEF TablesStep, RowStep, MoveStep, TypeOK
<1> QED BY <1>1, <1>3, <1>5, <1>6, <1>7 DEF Inv

LEMMA Starts ==
    ASSUME Init PROVE Inv
<1>1. /\ contracts = [c \in Contracts |-> IF c \in Leases THEN Contracts0[c] ELSE None]
      /\ accepted = Accepted0 /\ periods = Periods0 /\ rooms = Rooms0
      /\ pc = [t \in Requests |-> "idle"] /\ tx = [t \in Requests |-> Idle] /\ today = 0
      /\ transfers = [i \in Transfers |-> IF i \in Booked THEN Transfers0[i] ELSE None]
  BY DEF Init, TenancyInit
<1>2. /\ \A c \in Leases : c \in Contracts /\ contracts[c] = Contracts0[c]
                           /\ contracts[c] \in Contract /\ contracts[c] # None
      /\ \A c \in Contracts \ Leases : contracts[c] = None
  BY <1>1, TenancyTablesAssumption DEF Contracts
<1>3. /\ \A i \in Booked : i \in Transfers /\ transfers[i] = Transfers0[i] /\ transfers[i] \in Transfer
      /\ \A i \in Transfers \ Booked : transfers[i] = None
  BY <1>1, TransferAssumption DEF Transfers
<1>4. ASSUME NEW c \in Contracts, contracts[c] # None
      PROVE  /\ LocalOk(c, contracts[c], accepted, today)
             /\ contracts[c].start <= contracts[c].end /\ RowOk(c, contracts)
  <2>1. c \in Leases
    BY <1>2, <1>4
  <2>2. /\ contracts[c].start <= contracts[c].end
        /\ contracts[c].parent \in Leases \union {None}
        /\ contracts[c].status = "active" => contracts[c].start = 0
        /\ contracts[c].status = "scheduled" =>
             [contract |-> c, version |-> contracts[c].version] \in accepted
        /\ contracts[c].status = "renewed" =>
             \E d \in Leases : /\ contracts[d].parent = c
                              /\ contracts[d].start = contracts[c].end + 1
                              /\ contracts[d].status \in Began
    BY <1>1, <1>2, <2>1, TenancyHistoryAssumption
  <2>3. LocalOk(c, contracts[c], accepted, today)
    BY <1>1, <2>2 DEF LocalOk
  <2>4. RowOk(c, contracts)
    BY <1>2, <2>2 DEF RowOk, Succeeded
  <2> QED BY <2>2, <2>3, <2>4
<1>5. TypeOK
  <2>1. tx \in [Requests -> Transaction]
    BY <1>1, Begun
  <2>2. today \in Days
    BY <1>1, TenancyTablesAssumption DEF Days
  <2>3. contracts \in [Contracts -> Contract \union {None}]
    BY <1>1, TenancyTablesAssumption
  <2>4. transfers \in [Transfers -> Transfer \union {None}]
    BY <1>1, TransferAssumption
  <2>5. accepted \subseteq [contract : Contracts, version : Nat]
    BY <1>1, TenancyTablesAssumption DEF Contracts
  <2>6. periods \subseteq Period /\ rooms \in [Rooms -> RoomStatuses]
    BY <1>1, TenancyTablesAssumption
  <2>7. pc \in [Requests -> {"idle"} \union Underway \union Answers]
    BY <1>1
  <2> QED BY <1>4, <2>1, <2>2, <2>3, <2>4, <2>5, <2>6, <2>7 DEF TypeOK, Exists
<1>6. ASSUME NEW c \in Contracts PROVE StayOk(c, contracts[c], periods)
  <2>1. CASE c \in Leases /\ contracts[c].status = "active"
    <3> DEFINE row == contracts[c]
               p == NewPeriod(c, row.room, row.start, row.end)
    <3>1. /\ Among(periods, c) = {p} /\ row \in Contract /\ row.start <= row.end
      BY <1>1, <1>2, <2>1, TenancyHistoryAssumption DEF Among
    <3>2. p.open /\ p.start = row.start /\ p.end = row.end /\ p.room = row.room
      BY DEF NewPeriod
    <3> HIDE DEF p
    <3>3. OpenAmong(periods, c) = {p} /\ p \in periods
      BY <3>1, <3>2 DEF Among, OpenAmong
    <3>4. Tiled(c, row, p, periods)
      BY <3>1, <3>2, FirstTiled
    <3> QED BY <1>2, <2>1, <3>2, <3>3, <3>4 DEF StayOk
  <2>2. CASE ~(c \in Leases /\ contracts[c].status = "active")
    <3>1. OpenAmong(periods, c) = {}
      BY <1>1, <1>2, <2>2, TenancyHistoryAssumption DEF OpenAmong
    <3>2. contracts[c] = None \/ contracts[c].status \notin Began => Among(periods, c) = {}
      BY <1>1, <1>2, <2>2, TenancyHistoryAssumption DEF Among
    <3> QED BY <1>2, <2>2, <3>1, <3>2 DEF StayOk
  <2> QED BY <2>1, <2>2
<1>7. NoClash(periods)
  BY <1>1, TenancyHistoryAssumption DEF Storable, NoClash
<1>8. \A i \in Transfers : transfers[i] # None => BookingOk(transfers[i], contracts)
  BY <1>2, <1>3, TransferAssumption DEF BookingOk
<1>9. Exclusive(tx)
  BY <1>1, Begun DEF Exclusive
<1>10. ASSUME NEW t \in Requests PROVE PlaceOk(t, pc[t], tx[t], contracts, transfers, today)
  <2>1. contracts[t] = None /\ transfers[t] = None
    BY <1>2, <1>3, TenancyTablesAssumption, TransferAssumption DEF Contracts, Transfers
  <2>2. pc[t] = "idle"
    BY <1>1
  <2> QED BY <2>1, <2>2 DEF PlaceOk, Kept, Executing
<1> QED BY <1>4, <1>5, <1>6, <1>7, <1>8, <1>9, <1>10 DEF Inv, TablesOk, RowOk

-----------------------------------------------------------------------------
(* The invariant holds                                                     *)

LEMMA Steps ==
    ASSUME Inv, [Next]_vars PROVE Inv' /\ TablesStep
<1>1. CASE UNCHANGED vars
  <2>1. /\ contracts' = contracts /\ accepted' = accepted /\ periods' = periods /\ rooms' = rooms
        /\ transfers' = transfers /\ pc' = pc /\ tx' = tx /\ today' = today
    BY <1>1 DEF vars, tables, tenancyTables
  <2>2. Inv'
    BY <2>1 DEF Inv, TypeOK, Exists
  <2>3. today <= today'
    BY <2>1, RowTypes
  <2> QED BY <2>1, <2>2, <2>3 DEF TablesStep, RowStep, MoveStep, Inv, TypeOK
<1>2. ASSUME NEW t \in Requests, ReceiveTenancy(t), UNCHANGED transfers PROVE Inv' /\ TablesStep
  BY <1>2, CreatesContract, WritesNothing, OffersOrCancels, TenantAccepts, Amends,
     BeginsActivation, BeginsRenewal, BeginsExtension, BeginsEnd, BeginsDeparture, EditsRoom
  DEF ReceiveTenancy
<1>3. ASSUME NEW t \in Requests, ServeTenancy(t), UNCHANGED transfers PROVE Inv' /\ TablesStep
  BY <1>3, Activates, LocksRoomOfRenewal, WritesNothing, Succeeds, InsertsRenewal, FreesRooms
  DEF ServeTenancy
<1>4. ASSUME NEW t \in Requests, BeginBooking(t) \/ Review(t) \/ BeginExecution(t) PROVE Inv' /\ TablesStep
  BY <1>4, BeginsBooking, Decides, BeginsExecution
<1>5. ASSUME NEW t \in Requests, ServeTransfer(t) PROVE Inv' /\ TablesStep
  BY <1>5, LocksTarget, InsertsTransfer, LocksRooms, Moves, WritesNothing DEF ServeTransfer
<1>6. ASSUME NEW t \in Requests, Abort(t) PROVE Inv' /\ TablesStep
  BY <1>6, WritesNothing
<1>7. CASE NextDay /\ UNCHANGED transfers
  BY <1>7, DayPasses
<1> QED BY <1>1, <1>2, <1>3, <1>4, <1>5, <1>6, <1>7 DEF Next, Receive, Serve

THEOREM Invariance == Spec => []Inv
<1>1. Init => Inv BY Starts
<1>2. Inv /\ [Next]_vars => Inv' BY Steps
<1> QED BY <1>1, <1>2, PTL DEF Spec

\* Every table and every transaction holds values of its columns' types, and a
\* contract never ends before it starts, however it was created, amended,
\* renewed or cut short.
THEOREM TypeCorrect == Spec => []TypeOK
<1>1. Inv => TypeOK BY DEF Inv
<1> QED BY <1>1, Invariance, PTL

\* No room is let to two contracts, nor twice to one, for the same day.
THEOREM RoomsLetOnce == Spec => []NoDoubleBooking
<1>1. ASSUME Inv PROVE NoDoubleBooking
  <2>1. SUFFICES ASSUME NEW r \in Rooms, NEW d \in Days
                 PROVE  Cardinality({p \in periods : p.room = r /\ p.start <= d /\ d <= p.end}) <= 1
    BY DEF NoDoubleBooking
  <2> DEFINE S == {p \in periods : p.room = r /\ p.start <= d /\ d <= p.end}
  <2>2. ASSUME NEW p \in S, NEW q \in S PROVE p = q
    <3>1. p \in Period /\ q \in Period /\ d \in Int
      BY <1>1, RowTypes DEF Inv, TypeOK
    <3>2. PeriodClash(p, q)
      BY <3>1 DEF PeriodClash, Overlap, Period
    <3> QED BY <1>1, <3>2 DEF Inv, TablesOk, NoClash
  <2> HIDE DEF S
  <2>3. Cardinality(S) <= 1
    <3>1. CASE S = {}
      BY <3>1, FS_EmptySet
    <3>2. CASE S # {}
      <4>1. PICK p \in S : TRUE BY <3>2
      <4>2. S = {p} BY <2>2, <4>1
      <4> QED BY <4>2, FS_Singleton
    <3> QED BY <3>1, <3>2
  <2> QED BY <2>3 DEF S
<1> QED BY <1>1, Invariance, PTL

\* An active contract has its one open period, and no other contract has one.
THEOREM StaysMatchContracts == Spec => []ActiveHasPeriod
<1>1. ASSUME Inv PROVE ActiveHasPeriod
  BY <1>1 DEF Inv, TablesOk, StayOk, ActiveHasPeriod, OpenAmong, OpenOf, Exists
<1> QED BY <1>1, Invariance, PTL

\* What is scheduled was accepted in its present version.
THEOREM ScheduledWasAccepted == Spec => []ScheduledIsAccepted
<1>1. ASSUME Inv PROVE ScheduledIsAccepted
  BY <1>1 DEF Inv, TablesOk, LocalOk, ScheduledIsAccepted, Exists, IsAccepted
<1> QED BY <1>1, Invariance, PTL

\* What counts as renewed was taken over the day after its last.
THEOREM RenewedWasContinued == Spec => []RenewalContinues
<1>1. ASSUME Inv PROVE RenewalContinues
  BY <1>1 DEF Inv, TablesOk, RowOk, Succeeded, RenewalContinues, Exists
<1> QED BY <1>1, Invariance, PTL

\* The days an active contract has lived through are its days, however often it
\* was amended and its tenant moved.
THEOREM StaysAreWhole == Spec => []StayIsUnbroken
<1>1. ASSUME Inv PROVE StayIsUnbroken
  <2>1. SUFFICES ASSUME NEW c \in Contracts, Exists(c), contracts[c].status = "active"
                 PROVE  UNION {p.start .. p.end : p \in PeriodsOf(c)}
                          = contracts[c].start .. contracts[c].end
    BY DEF StayIsUnbroken
  <2> DEFINE row == contracts[c]
  <2>2. row \in Contract /\ StayOk(c, row, periods) /\ row # None
    BY <1>1, <2>1, RowTypes DEF Exists, Inv, TablesOk
  <2>3. PICK p \in periods : /\ OpenAmong(periods, c) = {p} /\ p.end = row.end
                            /\ Tiled(c, row, p, periods)
    BY <2>1, <2>2 DEF StayOk
  <2>4. row.start \in Nat /\ row.end \in Days /\ p.start \in Int /\ p.end \in Int
    BY <1>1, <2>2, RowTypes DEF Contract, Period, Inv, TypeOK
  <2>5. PeriodsOf(c) = Among(periods, c) /\ p \in PeriodsOf(c)
    BY <2>3 DEF PeriodsOf, Among, OpenAmong
  <2>6. ASSUME NEW q \in PeriodsOf(c), NEW d \in q.start .. q.end PROVE d \in row.start .. row.end
    <3>1. q.start \in Int /\ q.end \in Int
      BY <1>1 DEF PeriodsOf, Inv, TypeOK, Period
    <3>2. CASE q = p
      BY <2>3, <2>4, <3>2 DEF Tiled
    <3>3. CASE q # p
      BY <2>3, <2>4, <2>5, <3>1, <3>3 DEF Tiled
    <3> QED BY <3>2, <3>3
  <2>7. ASSUME NEW d \in row.start .. row.end PROVE \E q \in PeriodsOf(c) : d \in q.start .. q.end
    <3>1. d \in Days /\ d \in Int /\ row.start <= d /\ d <= row.end
      BY <2>4, TenancyTablesAssumption DEF Days
    <3>2. CASE d < p.start
      <4>1. PICK q \in Among(periods, c) \ {p} : q.start <= d /\ d <= q.end
        BY <2>3, <3>1, <3>2 DEF Tiled
      <4>2. q.start \in Int /\ q.end \in Int
        BY <1>1 DEF Among, Inv, TypeOK, Period
      <4> QED BY <2>5, <3>1, <4>1, <4>2
    <3>3. CASE p.start <= d
      BY <2>3, <2>4, <2>5, <3>1, <3>3
    <3> QED BY <2>4, <3>1, <3>2, <3>3
  <2> HIDE DEF row
  <2>8. UNION {q.start .. q.end : q \in PeriodsOf(c)} = row.start .. row.end
    BY <2>6, <2>7
  <2> QED BY <2>8 DEF row
<1> QED BY <1>1, Invariance, PTL

\* A closed period, a contract in a terminal status and a transfer that was
\* decided are never changed again, by whatever step.
THEOREM HistoryIsKept == Spec => HistoryStands
<1> DEFINE Stands ==
      /\ \A p \in periods : ~p.open => p \in periods'
      /\ \A c \in Contracts :
           Exists(c) /\ contracts[c].status \in Terminal => contracts'[c] = contracts[c]
      /\ \A x \in Transfers :
           transfers[x] # None /\ transfers[x].status \notin Held => transfers'[x] = transfers[x]
<1>1. ASSUME Inv, [Next]_vars PROVE Stands
  <2>1. TablesStep
    BY <1>1, Steps
  <2>2. ASSUME NEW c \in Contracts, Exists(c), contracts[c].status \in Terminal
        PROVE  contracts'[c] = contracts[c]
    BY <2>1, <2>2 DEF TablesStep, RowStep, Exists
  <2>3. ASSUME NEW x \in Transfers, transfers[x] # None, transfers[x].status \notin Held
        PROVE  transfers'[x] = transfers[x]
    BY <2>1, <2>3 DEF TablesStep, MoveStep
  <2> QED BY <2>1, <2>2, <2>3 DEF TablesStep
<1>2. Inv /\ [Next]_vars => [Stands]_vars
  BY <1>1
<1>3. HistoryStands <=> [][Stands]_vars
  BY DEF HistoryStands
<1> HIDE DEF Stands
<1> QED BY <1>2, <1>3, Invariance, PTL DEF Spec
=============================================================================
