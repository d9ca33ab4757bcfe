---------------------------- MODULE InvoicesPage ----------------------------
(***************************************************************************)
(* The invoices page: the list that the server cuts into pages, an         *)
(* invoice's details and its adjustment, the billing run, meter readings   *)
(* and the billing policy.  Staff here may write and generate.             *)
(***************************************************************************)
EXTENDS WebPage

\* preview is the invoice the shown preview was computed for.
InitialUi(role) ==
    [role |-> role, tab |-> "invoices", list |-> <<>>, pages |-> 1, page |-> 1, filter |-> "any",
     wait |-> {"load"}, error |-> FALSE, open |-> {}, sel |-> None, adjusting |-> FALSE,
     amount |-> 0, preview |-> None, policy |-> "blank"]

Staff == ui.role = "staff"

Issued(d, filter) == {r \in Rows : d[r] # "none" /\ filter \in {"any", d[r]}}

Listed(d, filter, page) == [r \in PageOf(Issued(d, filter), page) |-> d[r]]

ListKey(u) == <<"list", u.filter, u.page>>

Init ==
    /\ \E role \in {"tenant", "staff"} : ui = InitialUi(role)
    /\ calls = Ask({}, ListKey(ui), "load")
    /\ db \in {[r \in Rows |-> IF r = 1 THEN "issued" ELSE s] : s \in {"none", "issued"}}
    /\ clicks = 0 /\ clean = TRUE

-----------------------------------------------------------------------------
(* Loading                                                                 *)

InvoicesLoaded ==
    \E c \in Answered({"list"}) :
        LET all == Issued(c.ans.db, c.req[2])
        IN  \/ Fails(c)
            \/ /\ c.ans # Failed
               /\ Uses(c, [ui EXCEPT !.list = Listed(c.ans.db, c.req[2], c.req[3]),
                                     !.pages = IF all = {} THEN 1 ELSE Cardinality(all)])

\* The list of jobs is only shown; a policy that arrives replaces what was
\* typed into the form meanwhile.
JobsLoaded == \E c \in Answered({"jobs"}) : Uses(c, ui)

PolicyLoaded ==
    \E c \in Answered({"policy"}) : Uses(c, [ui EXCEPT !.policy = IF c.ans = Failed THEN @ ELSE "loaded"])

-----------------------------------------------------------------------------
(* Tabs, filter and pager                                                  *)

At(tab) == Uncovered /\ ui.sel = None /\ ui.tab = tab

Browse(u) == At("invoices") /\ Load(Fetching(u), ListKey(u), "load")

SetFilter(status) == ui.filter # status /\ Browse([ui EXCEPT !.filter = status, !.page = 1])

SetPage(page) ==
    /\ ~Loading /\ page \in {ui.page - 1, ui.page + 1} /\ page \in 1 .. ui.pages
    /\ Browse([ui EXCEPT !.page = page])

SetTab(tab) ==
    /\ MayCall /\ Staff /\ At(ui.tab) /\ ui.tab # tab
    /\ ui' = [ui EXCEPT !.tab = tab]
    /\ calls' = IF tab = "invoices" THEN calls ELSE Ask(calls, <<tab>>, tab)
    /\ UNCHANGED db

EditPolicy == Staff /\ At("policy") /\ ui.policy # "edited" /\ Show([ui EXCEPT !.policy = "edited"])

-----------------------------------------------------------------------------
(* The details of an invoice and its adjustment                            *)


OpenDetail(r) ==
    /\ At("invoices") /\ ~Loading /\ r \in DOMAIN ui.list
    /\ Load([ui EXCEPT !.sel = r, !.adjusting = FALSE, !.preview = None, !.amount = 0],
            <<"invoice", r>>, "detail")

CloseDetail == ui.sel # None /\ Show([ui EXCEPT !.sel = None])

\* An invoice is asked for when it is opened and again after its adjustment,
\* and both may wait for one answer.  It becomes the selected one even if
\* another was opened since, or the modal was closed.
DetailLoaded ==
    \E c \in Answered({"invoice"}) :
        LET after == "submit" \in c.for
            shown == [ui EXCEPT !.sel = IF c.ans = Failed THEN @ ELSE c.req[2]]
        IN  \/ ~after /\ Uses(c, shown)
            \/ after /\ Fails(c)
            \/ /\ after /\ c.ans # Failed
               /\ ui' = Fetching(Lower(shown, c))
               /\ calls' = Ask(calls \ {c}, c.ctx.list, "load")
               /\ UNCHANGED db

Inspecting == Staff /\ ui.sel # None /\ "detail" \notin ui.wait

ToggleAdjustment ==
    Inspecting /\ Show([ui EXCEPT !.adjusting = ~@, !.preview = IF ui.adjusting THEN None ELSE @])

\* What was previewed stays in view while the amount is edited.
EditAdjustment == Inspecting /\ ui.adjusting /\ ui.amount < 2 /\ Show([ui EXCEPT !.amount = @ + 1])

Preview ==
    Inspecting /\ ui.adjusting /\ ui.amount # 0 /\ Submit("preview", <<"preview", ui.sel, ui.amount>>, None)

PreviewLoaded ==
    \E c \in Answered({"preview"}) :
        Fails(c) \/ (c.ans # Failed /\ Uses(c, [ui EXCEPT !.preview = c.req[2]]))

Closure == [list |-> ListKey(ui)]

SubmitAdjustment ==
    /\ Inspecting /\ ui.adjusting /\ ui.preview # None
    /\ Submit("submit", <<"adjust", ui.sel, ui.amount>>, Closure)

\* The invoice is loaded again before the handler is done.
Adjusted ==
    \E c \in Answered({"adjust"}) :
        \/ Fails(c)
        \/ /\ c.ans # Failed
           /\ ui' = [ui EXCEPT !.adjusting = FALSE, !.preview = None]
           /\ calls' = AskFor(calls \ {c}, <<"invoice", c.req[2]>>, c.for, c.ctx)
           /\ UNCHANGED db

-----------------------------------------------------------------------------
(* The billing run, meter readings, the policy                             *)

OpenStaffModal(modal) == Staff /\ At(ui.tab) /\ OpenModal(modal)

Generate == "generate" \in ui.open /\ Submit("submit", <<"generate">>, Closure)
RecordMeter == "meter" \in ui.open /\ Submit("submit", <<"meter">>, Closure)
SavePolicy == Staff /\ At("policy") /\ Submit("submit", <<"save">>, Closure)

MeterRecorded ==
    \E c \in Answered({"meter"}) :
        Fails(c) \/ (c.ans # Failed /\ Uses(c, [ui EXCEPT !.open = @ \ {"meter"}]))

PolicySaved ==
    \E c \in Answered({"save"}) :
        Fails(c) \/ (c.ans # Failed /\ Uses(c, [ui EXCEPT !.policy = "loaded"]))

\* The modal of a run stays open and shows the result.
Generated ==
    \E c \in Answered({"generate"}) :
        \/ Fails(c)
        \/ /\ c.ans # Failed
           /\ ui' = Fetching(Lower(ui, c))
           /\ calls' = Ask(Ask(calls \ {c}, c.ctx.list, "load"), <<"jobs">>, "jobs")
           /\ UNCHANGED db

-----------------------------------------------------------------------------

\* External to the page: what the server makes of a request.
Effects(c) ==
    CASE Op(c) = "adjust" -> {[db EXCEPT ![c.req[2]] = "adjusted"]}
      [] Op(c) = "generate" -> {[r \in Rows |-> IF db[r] = "none" THEN "issued" ELSE db[r]]}
      [] OTHER -> {db}

Serve == ServeAny(Effects)

Remount ==
    /\ MayCall
    /\ ui' = InitialUi(ui.role)
    /\ calls' = Ask(Unmounted(calls), ListKey(ui'), "load")
    /\ UNCHANGED db

Deliver ==
    \/ InvoicesLoaded \/ JobsLoaded \/ PolicyLoaded \/ DetailLoaded
    \/ PreviewLoaded \/ Adjusted \/ MeterRecorded \/ PolicySaved \/ Generated

User ==
    \/ \E s \in {"any", "issued"} : SetFilter(s)
    \/ \E t \in {"invoices", "jobs", "policy"} : SetTab(t)
    \/ \E r \in Rows : SetPage(r) \/ OpenDetail(r)
    \/ CloseDetail \/ ToggleAdjustment \/ EditAdjustment \/ Preview \/ SubmitAdjustment
    \/ \E m \in {"generate", "meter"} : OpenStaffModal(m) \/ CloseModal(m)
    \/ EditPolicy \/ Generate \/ RecordMeter \/ SavePolicy \/ Incomplete({"meter"})
    \/ Remount

\* The table, and the invoice whose details are open with its preview.
OnShow ==
    {ListKey(ui)} \union
    IF ui.sel = None THEN {} ELSE {<<"invoice", ui.sel>>} \union {<<"preview", ui.sel, a>> : a \in 1 .. 2}

Next == Step(User, Serve, Deliver, OnShow, {"adjust", "generate"})
Spec == Init /\ [][Next]_pageVars

\* What the table shows when it shows what the server has, and whose the
\* preview is that an adjustment is applied by.
Current == ui.list = Listed(db, ui.filter, ui.page)
OfSelected == ui.sel # None /\ ui.preview # None => ui.preview = ui.sel
=============================================================================
