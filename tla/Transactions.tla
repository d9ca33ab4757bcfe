---------------------------- MODULE Transactions ----------------------------
(***************************************************************************)
(* Transactions of PostgreSQL at READ COMMITTED, as the repositories of    *)
(* the back office use them: a handler begins one, runs its statements one *)
(* after the other, and commits or rolls back.                             *)
(*                                                                         *)
(* A statement that another transaction can interfere with is a step: it   *)
(* waits until the locks it takes are free and then reads the committed    *)
(* rows.  The writes of a transaction are in its locals until COMMIT makes *)
(* them visible, and the rows it wrote are locked until then.              *)
(***************************************************************************)
EXTENDS Naturals, FiniteSets

CONSTANTS
    Clerks,         \* goroutines that serve a request
    None,           \* SQL NULL, "no row", "no request"
    MaxRequests     \* bound on the requests served in all

VARIABLES
    db,         \* the committed rows
    tx,         \* the request a clerk serves: its operation, where it is (at)
                \* and its locals
    held,       \* the row locks of its transaction
    served      \* how many requests were begun

txVars == <<db, tx, held, served>>

-----------------------------------------------------------------------------
(* Row locks                                                               *)

\* FOR UPDATE and DELETE take "update", an UPDATE of columns no foreign key
\* refers to takes "write", the check of a foreign key takes "share".
Lock(row, mode) == [row |-> row, mode |-> mode]

Clash(l, m) ==
    /\ l.row = m.row
    /\ "update" \in {l.mode, m.mode} \/ (l.mode = "write" /\ m.mode = "write")

Free(c, locks) ==
    \A d \in Clerks \ {c} : \A m \in held[d], l \in locks : ~ Clash(l, m)

-----------------------------------------------------------------------------
(* Statements                                                              *)

At(c, op, at) == tx[c] # None /\ tx[c].op = op /\ tx[c].at = at

\* The first statement of a request.
Begin(c, t, locks) ==
    /\ tx[c] = None /\ served < MaxRequests
    /\ Free(c, locks)
    /\ tx' = [tx EXCEPT ![c] = t]
    /\ held' = [held EXCEPT ![c] = locks]
    /\ served' = served + 1
    /\ UNCHANGED db

\* A further statement: it takes locks and goes on with the locals t.
Statement(c, t, locks) ==
    /\ Free(c, locks)
    /\ tx' = [tx EXCEPT ![c] = t]
    /\ held' = [held EXCEPT ![c] = @ \union locks]
    /\ UNCHANGED <<db, served>>

\* The last statement, and COMMIT.
Commit(c, locks, rows) ==
    /\ Free(c, locks)
    /\ db' = rows
    /\ tx' = [tx EXCEPT ![c] = None]
    /\ held' = [held EXCEPT ![c] = {}]
    /\ UNCHANGED served

\* A request of one statement, which is its own transaction.
Autocommit(c, locks, rows) ==
    /\ tx[c] = None /\ served < MaxRequests
    /\ Free(c, locks)
    /\ db' = rows
    /\ served' = served + 1
    /\ UNCHANGED <<tx, held>>

\* A refusal, an error, a lost connection, or the choice of this transaction
\* as the victim of a deadlock: the deferred Rollback undoes everything.
Rollback(c) ==
    /\ tx[c] # None
    /\ tx' = [tx EXCEPT ![c] = None]
    /\ held' = [held EXCEPT ![c] = {}]
    /\ UNCHANGED <<db, served>>

NobodyServed ==
    /\ tx = [c \in Clerks |-> None]
    /\ held = [c \in Clerks |-> {}]
    /\ served = 0
=============================================================================
