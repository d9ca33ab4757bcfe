-------------------------- MODULE GuestPermitsPage --------------------------
(***************************************************************************)
(* The visitors' permits: the list and the summary, the tenant's request,  *)
(* the owner's decision, check-in and check-out, the history of a permit   *)
(* and the retention of old ones.                                          *)
(***************************************************************************)
EXTENDS WebPage

\* The modals stay mounted when they are closed: decision is what the last one
\* decided on chose, retained that the retention's result is on show.  events is
\* the permit whose history is on show.
InitialUi(role) ==
    [role |-> role, list |-> <<>>, filter |-> "all", active |-> 0,
     wait |-> {"load"} \union (IF role = "tenant" THEN {} ELSE {"summary"}), error |-> FALSE,
     open |-> {}, sel |-> None, events |-> None, decision |-> "approved", retained |-> FALSE]

Tenant == ui.role = "tenant"

\* The detail and the approval are there only while a permit is selected: without
\* one, an open detail is out of sight and comes back with the next selection.
Rendered == IF ui.sel = None THEN ui.open \ {"detail", "approval"} ELSE ui.open

Bare == Rendered = {}

Open == {"pending", "change_requested"}

Listed(d, filter) == [r \in {r \in Rows : d[r] # "none" /\ filter \in {"all", d[r]}} |-> d[r]]

ActiveCount(d) == Cardinality({r \in Rows : d[r] = "active"})

\* The summary is for the staff only.
Refresh(cs, role, filter) ==
    LET permits == Ask(cs, <<"permits", filter>>, "load")
    IN  IF role = "tenant" THEN permits ELSE Ask(permits, <<"summary">>, "summary")

Refreshing(u) ==
    [u EXCEPT !.wait = @ \union {"load"} \union (IF u.role = "tenant" THEN {} ELSE {"summary"})]

Init ==
    /\ \E role \in {"tenant", "staff"} : ui = InitialUi(role) /\ calls = Refresh({}, role, "all")
    /\ db \in {[r \in Rows |-> IF r = 1 THEN s ELSE "none"] : s \in {"pending", "approved"}}
             \union {[r \in Rows |-> "pending"]}
    /\ clicks = 0 /\ clean = TRUE

-----------------------------------------------------------------------------
(* The list                                                                *)

\* A failure empties the list, or the summary, and says nothing.
PermitsLoaded ==
    \E c \in Answered({"permits"}) :
        Uses(c, [ui EXCEPT !.list = IF c.ans = Failed THEN <<>> ELSE Listed(c.ans.db, c.req[2])])

SummaryLoaded ==
    \E c \in Answered({"summary"}) :
        Uses(c, [ui EXCEPT !.active = IF c.ans = Failed THEN 0 ELSE ActiveCount(c.ans.db)])

SetStatusFilter(filter) ==
    /\ Bare /\ ui.filter # filter
    /\ Load([ui EXCEPT !.filter = filter], <<"permits", filter>>, "load")

RefreshList ==
    /\ Bare /\ MayCall
    /\ ui' = Refreshing(ui) /\ calls' = Refresh(calls, ui.role, ui.filter)
    /\ UNCHANGED db

InTable(r) == Bare /\ ~Loading /\ r \in DOMAIN ui.list

\* The detail keeps the history it showed last until the new one is here.
OpenDetail(r) ==
    /\ InTable(r) /\ MayCall
    /\ ui' = [ui EXCEPT !.sel = r, !.open = @ \union {"detail"}]
    /\ calls' = Ask(calls, <<"permit", r>>, "detail")
    /\ UNCHANGED db

DetailLoaded ==
    \E c \in Answered({"permit"}) :
        Uses(c, [ui EXCEPT !.events = IF c.ans = Failed THEN None ELSE c.req[2]])

\* Whoever answers, the list is loaded under the filter the button was pressed under.
Refreshed(c, u) ==
    \/ Fails(c)
    \/ /\ c.ans # Failed
       /\ ui' = Refreshing(Lower(u, c))
       /\ calls' = Refresh(calls \ {c}, ui.role, c.ctx)
       /\ UNCHANGED db

\* Three buttons, one flag.
Act(r, to) ==
    /\ InTable(r)
    /\ \/ ~Tenant /\ to = "active" /\ ui.list[r] = "approved"
       \/ ~Tenant /\ to = "completed" /\ ui.list[r] = "active"
       \/ Tenant /\ to = "cancelled" /\ ui.list[r] \in Open
    /\ Submit("action", <<"act", r, to>>, ui.filter)

Acted == \E c \in Answered({"act"}) : Refreshed(c, ui)

-----------------------------------------------------------------------------
(* The modals                                                              *)

OpenApproval(r) ==
    /\ InTable(r) /\ ~Tenant /\ ui.list[r] \in Open
    /\ Show([ui EXCEPT !.sel = r, !.open = @ \union {"approval"}])

SetDecision(to) ==
    "approval" \in Rendered /\ ui.decision # to /\ Show([ui EXCEPT !.decision = to])

SubmitDecision ==
    "approval" \in Rendered /\ Submit("decide", <<"decide", ui.sel, ui.decision>>, ui.filter)

\* The modal closes, whichever permit it is open for by now.
Decided ==
    \E c \in Answered({"decide"}) :
        Refreshed(c, [ui EXCEPT !.open = @ \ {"approval"}, !.sel = None])

OpenModalOf(modal) ==
    /\ Bare
    /\ (modal = "request") = Tenant
    /\ Show([ui EXCEPT !.open = @ \union {modal}])

\* Until ten in the evening, or overnight for three days, which are 73 hours here.
ValidVisit(visit) ==
    IF visit.overnight THEN visit.hours <= 73 ELSE visit.by22

Visits ==
    {[overnight |-> FALSE, hours |-> 2, by22 |-> by22] : by22 \in BOOLEAN}
      \union {[overnight |-> TRUE, hours |-> hours, by22 |-> TRUE] : hours \in {72, 73, 74}}

RequestPermit(visit) ==
    /\ "request" \in ui.open
    /\ IF ValidVisit(visit) THEN Submit("request", <<"create", visit>>, ui.filter)
                            ELSE Show([ui EXCEPT !.error = TRUE])

PermitRequested ==
    \E c \in Answered({"create"}) : Refreshed(c, [ui EXCEPT !.open = @ \ {"request"}])

\* Its result stays in the modal, which from then on can only be closed.
ApplyRetention ==
    "retention" \in ui.open /\ ~ui.retained /\ Submit("retain", <<"retain">>, ui.filter)

RetentionApplied ==
    \E c \in Answered({"retain"}) : Refreshed(c, [ui EXCEPT !.retained = TRUE])

\* The cross is never disabled; the approval's is on top.
ClosePermitModal ==
    \E m \in {"detail", "approval", "request", "retention"} :
        /\ m \in Rendered /\ (m = "detail" => "approval" \notin Rendered)
        /\ Show([ui EXCEPT !.open = @ \ {m}, !.sel = IF m = "approval" THEN None ELSE @])

-----------------------------------------------------------------------------

\* External to the page: the transitions the server lets through.
Moved(r, before, status) == IF db[r] \in before THEN {[db EXCEPT ![r] = status]} ELSE {}

Effects(c) ==
    CASE Op(c) = "decide" -> Moved(c.req[2], Open \union {"approved", "rejected", "active"}, c.req[3])
      [] Op(c) = "act" ->
            Moved(c.req[2], IF c.req[3] = "cancelled" THEN Open ELSE {"approved", "active"}, c.req[3])
      [] Op(c) = "create" ->
            IF ValidVisit(c.req[2]) THEN {[db EXCEPT ![r] = "pending"] : r \in {r \in Rows : db[r] = "none"}}
                                    ELSE {}
      [] OTHER -> {db}

Serve == ServeAny(Effects)

Remount ==
    /\ MayCall
    /\ ui' = InitialUi(ui.role)
    /\ calls' = Refresh(Unmounted(calls), ui.role, "all")
    /\ UNCHANGED db

Deliver ==
    \/ PermitsLoaded \/ SummaryLoaded \/ DetailLoaded
    \/ Acted \/ Decided \/ PermitRequested \/ RetentionApplied

User ==
    \/ \E f \in {"all", "pending"} : SetStatusFilter(f)
    \/ RefreshList
    \/ \E r \in Rows : OpenDetail(r) \/ OpenApproval(r)
    \/ \E r \in Rows, to \in {"active", "completed", "cancelled"} : Act(r, to)
    \/ \E to \in {"approved", "rejected", "change_requested"} : SetDecision(to)
    \/ SubmitDecision
    \/ \E m \in {"request", "retention"} : OpenModalOf(m)
    \/ \E visit \in Visits : RequestPermit(visit)
    \/ ApplyRetention \/ ClosePermitModal \/ Remount

\* The table, the summary, and the permit whose history is open.
OnShow ==
    {<<"permits", ui.filter>>, <<"summary">>} \union (IF "detail" \in Rendered THEN {<<"permit", ui.sel>>} ELSE {})

Next == Step(User, Serve, Deliver, OnShow, {"act", "decide", "create", "retain"})
Spec == Init /\ [][Next]_pageVars

\* The list and the summary are the server's.
Current ==
    /\ ui.list = Listed(db, ui.filter)
    /\ Tenant \/ ui.active = ActiveCount(db)

\* The history on show is that of the permit it is shown for, unless it came back
\* with the permit that an approval was opened for.
OfSelected == Rendered = {"detail"} => ui.events = ui.sel
=============================================================================
