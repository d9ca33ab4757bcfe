---------------------------- MODULE PaymentsPage ----------------------------
(***************************************************************************)
(* The payments page: the list with its filter and pages, verification,    *)
(* proof of payment, a new bill, receipts and the reconciliation report.   *)
(* A page of the table holds one row here and ten in the code.             *)
(***************************************************************************)
EXTENDS WebPage

\* What the page keeps.  Filling in a form is part of sending it, except for
\* what an answer fills in: the payment whose amounts the verify form holds.
InitialUi(role) ==
    [role |-> role, tab |-> "payments", list |-> <<>>, wait |-> {"load"}, error |-> FALSE,
     filter |-> "any", page |-> 1, contracts |-> FALSE, open |-> {}, sel |-> None,
     form |-> None, receipt |-> None, dates |-> "month", report |-> None]

Staff == ui.role # "tenant"
CanCreateBill == ui.role = "finance"
CanVerify == ui.role = "finance"

Matching(d, filter) ==
    [r \in {r \in Rows : d[r] # "none" /\ filter \in {"any", d[r]}} |-> d[r]]

\* A tenant's list takes no filter.
ListKey(u) == <<"list", IF u.role = "tenant" THEN "any" ELSE u.filter>>

Init ==
    /\ \E role \in {"tenant", "finance", "viewer"} : ui = InitialUi(role)
    /\ calls = Ask({}, ListKey(ui), "load")
    /\ db \in {[r \in Rows |-> IF r = 1 THEN "unpaid" ELSE s] : s \in {"none", "partial"}}
    /\ clicks = 0 /\ clean = TRUE

-----------------------------------------------------------------------------
(* Loading                                                                 *)

\* The list is there, and staff who write bills go on to the contracts; the
\* spinner stays until those are there too.
PaymentsLoaded ==
    \E c \in Answered({"list"}) :
        LET listed == [ui EXCEPT !.list = Matching(c.ans.db, c.req[2])]
        IN  \/ Fails(c)
            \/ c.ans # Failed /\ ~CanCreateBill /\ Uses(c, listed)
            \/ /\ c.ans # Failed /\ CanCreateBill
               /\ ui' = listed
               /\ calls' = Ask(calls \ {c}, <<"contracts">>, "load")
               /\ UNCHANGED db

ContractsLoaded ==
    \E c \in Answered({"contracts"}) : Uses(c, [ui EXCEPT !.contracts = @ \/ c.ans # Failed])

\* A report that cannot be loaded leaves the last one in its place.
ReportLoaded ==
    \E c \in Answered({"report"}) :
        Uses(c, [ui EXCEPT !.report = IF c.ans = Failed THEN @ ELSE c.req[2]])

-----------------------------------------------------------------------------
(* The bar of filters, the tabs, the report's dates and the pager          *)

At(tab) == Uncovered /\ ui.tab = tab

SetFilter(status) ==
    LET u == [ui EXCEPT !.filter = status, !.page = 1]
    IN  At("payments") /\ ui.filter # status /\ Load(Fetching(u), ListKey(u), "load")

SetTab(tab) ==
    LET u == [ui EXCEPT !.tab = tab]
    IN  /\ Uncovered /\ ui.tab # tab /\ Staff
        /\ IF tab = "payments" THEN Show(u) ELSE Load(u, <<"report", u.dates>>, "report")

\* Other dates, or the button that loads the report again.
ReloadReport(dates) ==
    /\ At("reconciliation") /\ (dates = ui.dates => "report" \notin ui.wait)
    /\ Load([ui EXCEPT !.dates = dates], <<"report", dates>>, "report")

TotalPages == Cardinality(DOMAIN ui.list)

SetPage(page) ==
    /\ At("payments") /\ ~Loading /\ TotalPages > 1
    /\ page \in {ui.page - 1, ui.page + 1} /\ page \in 1 .. TotalPages
    /\ Show([ui EXCEPT !.page = page])

\* The row of the current page; a page past the last one shows an empty table.
InView == PageOf(DOMAIN ui.list, ui.page)

-----------------------------------------------------------------------------
(* The buttons of a row                                                    *)

MayPay(r) == ui.role = "tenant" /\ ui.list[r] \in {"unpaid", "partial"}
MayVerify(r) == Staff /\ CanVerify
MayPrint(r) == ui.list[r] \in {"paid", "partial"}

Clickable(r) == At("payments") /\ ~Loading /\ r \in InView

OpenVerify(r) ==
    /\ MayCall /\ Clickable(r) /\ MayVerify(r)
    /\ ui' = [ui EXCEPT !.sel = r]
    /\ calls' = Ask(calls, <<"payment", r>>, "verify")
    /\ UNCHANGED db

\* The form holds the amounts of the payment that was asked for; the payment
\* itself becomes the selected one only if it could be loaded.
VerifyLoaded ==
    \E c \in Answered({"payment"}) :
        Uses(c, [ui EXCEPT !.sel = IF c.ans = Failed THEN @ ELSE c.req[2],
                           !.form = c.req[2], !.open = @ \union {"verify"}])

OpenPay(r) == Clickable(r) /\ MayPay(r) /\ Show([ui EXCEPT !.sel = r, !.open = {"pay"}])

OpenReceipt(r) ==
    /\ Clickable(r) /\ MayPrint(r)
    /\ Load([ui EXCEPT !.sel = r, !.receipt = None, !.open = {"receipt"}], <<"receipt", r>>, "receipt")

ReceiptLoaded ==
    \E c \in Answered({"receipt"}) :
        Uses(c, [ui EXCEPT !.receipt = IF c.ans = Failed THEN @ ELSE c.req[2]])

OpenCreateBill == Uncovered /\ CanCreateBill /\ OpenModal("bill")

-----------------------------------------------------------------------------
(* The modals and what they send.  A handler goes on with the filter and   *)
(* the tab it was rendered with.                                           *)

Closure == [list |-> ListKey(ui), tab |-> ui.tab, dates |-> ui.dates]

SubmitVerify(verdict) ==
    "verify" \in ui.open /\ Submit("submit", <<"verify", ui.sel, ui.form, verdict>>, Closure)

SubmitPay == "pay" \in ui.open /\ Submit("submit", <<"submit", ui.sel>>, Closure)

CreateBill == "bill" \in ui.open /\ ui.contracts /\ Submit("submit", <<"create">>, Closure)

ModalOf(op) == CASE op = "verify" -> "verify" [] op = "submit" -> "pay" [] op = "create" -> "bill"

\* The modal is closed and what the change shows in is loaded again.
Submitted ==
    \E c \in Answered({"verify", "submit", "create"}) :
        \/ Fails(c)
        \/ LET done == Fetching([Lower(ui, c) EXCEPT !.open = @ \ {ModalOf(Op(c))}])
               listed == Ask(calls \ {c}, c.ctx.list, "load")
               reports == Op(c) = "verify" /\ c.ctx.tab = "reconciliation"
           IN  /\ c.ans # Failed
               /\ ui' = IF reports THEN Raise(done, "report") ELSE done
               /\ calls' = IF reports THEN Ask(listed, <<"report", c.ctx.dates>>, "report") ELSE listed
               /\ UNCHANGED db

-----------------------------------------------------------------------------

\* External to the page: what the server makes of a request.
Effects(c) ==
    CASE Op(c) = "verify" -> {[db EXCEPT ![c.req[2]] = s] :
                                s \in IF c.req[4] = "paid" THEN {"paid", "partial"} ELSE {"rejected"}}
      [] Op(c) = "submit" -> {[db EXCEPT ![c.req[2]] = "unpaid"]}
      [] Op(c) = "create" -> {[db EXCEPT ![r] = "unpaid"] : r \in {r \in Rows : db[r] = "none"}}
      [] OTHER -> {db}

Serve == ServeAny(Effects)

Remount ==
    /\ MayCall
    /\ ui' = InitialUi(ui.role)
    /\ calls' = Ask(Unmounted(calls), ListKey(ui'), "load")
    /\ UNCHANGED db

Deliver ==
    PaymentsLoaded \/ ContractsLoaded \/ ReportLoaded \/ VerifyLoaded \/ ReceiptLoaded \/ Submitted

User ==
    \/ \E s \in {"any", "unpaid", "paid"} : SetFilter(s)
    \/ \E t \in {"payments", "reconciliation"} : SetTab(t)
    \/ \E d \in {"month", "week"} : ReloadReport(d)
    \/ \E r \in Rows : SetPage(r) \/ OpenVerify(r) \/ OpenPay(r) \/ OpenReceipt(r)
    \/ OpenCreateBill
    \/ \E m \in {"verify", "pay", "receipt", "bill"} : CloseModal(m)
    \/ \E v \in {"paid", "rejected"} : SubmitVerify(v)
    \/ SubmitPay \/ CreateBill \/ Incomplete({"verify", "pay", "bill"})
    \/ Remount

Next == Step(User, Serve, Deliver, {ListKey(ui)}, {"verify", "submit", "create"})
Spec == Init /\ [][Next]_pageVars

\* What the table shows when it shows what the server has, and whose amounts
\* the verify form holds.
Current == ui.list = Matching(db, ListKey(ui)[2])
OfSelected == "verify" \in ui.open => ui.form = ui.sel
=============================================================================
