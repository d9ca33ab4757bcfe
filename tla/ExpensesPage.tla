---------------------------- MODULE ExpensesPage ----------------------------
(***************************************************************************)
(* The expenses: the list by status and page, with the buttons that        *)
(* approve, pay and delete, and the form that records one unless the month *)
(* is closed.                                                              *)
(***************************************************************************)
EXTENDS WebPage

InitialUi(role) ==
    [role |-> role, list |-> <<>>, total |-> 0, status |-> "all", page |-> 1,
     wait |-> {"load"}, error |-> FALSE, open |-> {}]

CanApprove == ui.role = "owner"

Filed(d, status) == {r \in Rows : d.rows[r] # "none" /\ status \in {"all", d.rows[r]}}

Listed(d, status, page) == [r \in PageOf(Filed(d, status), page) |-> d.rows[r]]

ListKey(status, page) == <<"expenses", status, page>>

Init ==
    /\ \E role \in {"owner", "staff"} : ui = InitialUi(role)
    /\ calls = Ask({}, ListKey("all", 1), "load")
    /\ db \in [rows : {[r \in Rows |-> IF r = 1 THEN "draft" ELSE s] : s \in {"none", "approved"}},
               closed : BOOLEAN]
    /\ clicks = 0 /\ clean = TRUE

-----------------------------------------------------------------------------

\* Whichever list is answered last is shown.
ExpensesLoaded ==
    \E c \in Answered({"expenses"}) :
        Takes(c, [ui EXCEPT !.list = Listed(c.ans.db, c.req[2], c.req[3]),
                            !.total = Cardinality(Filed(c.ans.db, c.req[2]))])

LoadPage(u) ==
    /\ MayCall
    /\ ui' = Fetching(u)
    /\ calls' = Ask(calls, ListKey(u.status, u.page), "load")
    /\ UNCHANGED db

\* Another filter starts at the first page.
SetStatus(status) ==
    Uncovered /\ ui.status # status /\ LoadPage([ui EXCEPT !.status = status, !.page = 1])

SetPage(page) ==
    /\ Uncovered /\ ~Loading /\ ui.total > 0
    /\ \/ page = ui.page - 1 /\ page >= 1
       \/ page = ui.page + 1 /\ page <= ui.total
    /\ LoadPage([ui EXCEPT !.page = page])

\* No flag: a button can be pressed again while its request is out.
Act(r, act) ==
    /\ Uncovered /\ ~Loading /\ r \in DOMAIN ui.list /\ MayCall
    /\ \/ act = "approve" /\ CanApprove /\ ui.list[r] = "draft"
       \/ act = "pay" /\ ui.list[r] = "approved"
       \/ act = "delete" /\ ui.list[r] = "draft"
    /\ calls' = Send(calls, <<"act", r, act>>, {"act"}, ListKey(ui.status, ui.page))
    /\ UNCHANGED <<ui, db>>

\* The handler loads the list that was on show when it was pressed.
Acted ==
    \E c \in Answered({"act"}) :
        \/ Fails(c)
        \/ /\ c.ans # Failed
           /\ ui' = Fetching(ui) /\ calls' = Ask(calls \ {c}, c.ctx, "load")
           /\ UNCHANGED db

OpenCreate == Uncovered /\ OpenModal("create")

CloseCreate == CloseModal("create")

\* First whether the month is closed; the form is as it was when it was sent,
\* and goes on when the page is left.
SubmitExpense ==
    /\ "create" \in ui.open /\ "create" \notin ui.wait /\ MayCall
    /\ ui' = [Raise(ui, "create") EXCEPT !.error = FALSE]
    /\ calls' = Send(calls, <<"closure">>, {"create", "chain"}, ListKey(ui.status, ui.page))
    /\ UNCHANGED db

\* A closure that cannot be read is taken for none.
Refused(c) == c.ans # Failed /\ c.ans.db.closed

ClosureChecked ==
    \E c \in Answered({"closure"}) :
        \/ Refused(c) /\ Uses(c, [ui EXCEPT !.error = @ \/ "create" \in c.for])
        \/ /\ ~Refused(c)
           /\ calls' = Send(calls \ {c}, <<"create">>, c.for \ {"chain"}, c.ctx)
           /\ UNCHANGED <<ui, db>>

ExpenseCreated ==
    \E c \in Answered({"create"}) :
        \/ Fails(c)
        \/ /\ c.ans # Failed
           /\ ui' = Fetching([Lower(ui, c) EXCEPT !.open = {}])
           /\ calls' = Ask(calls \ {c}, c.ctx, "load")
           /\ UNCHANGED db

-----------------------------------------------------------------------------

\* External to the page: a closed month takes no new expense, and only that.
Effects(c) ==
    CASE Op(c) = "act" ->
            LET before == IF c.req[3] = "pay" THEN {"draft", "approved"} ELSE {"draft"}
                after == [approve |-> "approved", pay |-> "paid", delete |-> "none"]
            IN  IF db.rows[c.req[2]] \in before THEN {[db EXCEPT !.rows[c.req[2]] = after[c.req[3]]]} ELSE {}
      [] Op(c) = "create" ->
            IF db.closed THEN {}
            ELSE {[db EXCEPT !.rows[r] = "approved"] : r \in {r \in Rows : db.rows[r] = "none"}}
      [] OTHER -> {db}

Serve == ServeAny(Effects)

Remount ==
    /\ MayCall
    /\ ui' = InitialUi(ui.role)
    /\ calls' = Ask(Unmounted(calls), ListKey("all", 1), "load")
    /\ UNCHANGED db

Deliver == ExpensesLoaded \/ Acted \/ ClosureChecked \/ ExpenseCreated

User ==
    \/ \E s \in {"all", "draft", "approved"} : SetStatus(s)
    \/ \E p \in 1 .. 2 : SetPage(p)
    \/ \E r \in Rows, act \in {"approve", "pay", "delete"} : Act(r, act)
    \/ OpenCreate \/ CloseCreate \/ SubmitExpense \/ Incomplete({"create"})
    \/ Remount

Next == Step(User, Serve, Deliver, {ListKey(ui.status, ui.page)}, {"act", "create"})
Spec == Init /\ [][Next]_pageVars

\* The page shows the expenses of the chosen status and page, as the server has them.
Current ==
    /\ ui.list = Listed(db, ui.status, ui.page)
    /\ ui.total = Cardinality(Filed(db, ui.status))
=============================================================================
