--------------------------- MODULE CheckoutsPage ---------------------------
(***************************************************************************)
(* The checkouts page: the list under its tabs, a new notice, the          *)
(* inspection of the room and the settlement with its preview, approval,   *)
(* execution and cancellation.                                             *)
(***************************************************************************)
EXTENDS WebPage

\* sel is the checkout an inspection or a settlement was opened with, as the
\* list held it then: the modals do not follow the list.
InitialUi ==
    [list |-> <<>>, wait |-> {"load"}, error |-> FALSE, filter |-> "all",
     open |-> {}, sel |-> None, preview |-> None]

Matching(d, filter) ==
    [r \in {r \in Rows : d[r] # "none" /\ filter \in {"all", d[r]}} |-> d[r]]

ListKey(u) == <<"list", u.filter>>

Init ==
    /\ ui = InitialUi
    /\ calls = Ask({}, ListKey(ui), "load")
    /\ db \in {[r \in Rows |-> IF r = 1 THEN "submitted" ELSE s] : s \in {"none", "approved"}}
    /\ clicks = 0 /\ clean = TRUE

-----------------------------------------------------------------------------
(* The list                                                                *)

CheckoutsLoaded ==
    \E c \in Answered({"list"}) :
        Takes(c, [ui EXCEPT !.list = Matching(c.ans.db, c.req[2])])

\* A tab, or the button that loads the list again.
FetchCheckouts(status) ==
    LET u == [ui EXCEPT !.filter = status]
    IN  Uncovered /\ Load(Fetching(u), ListKey(u), "load")

Clickable(r) == Uncovered /\ ~Loading /\ r \in DOMAIN ui.list

Final(status) == status \in {"completed", "cancelled"}

-----------------------------------------------------------------------------
(* The modals                                                              *)

OpenNotice == Uncovered /\ OpenModal("notice")

CreateNotice == "notice" \in ui.open /\ Submit("notice", <<"create">>, ui.filter)

OpenInspection(r) ==
    /\ Clickable(r) /\ ~Final(ui.list[r])
    /\ Show([ui EXCEPT !.sel = <<r, ui.list[r]>>, !.open = {"inspect"}])

\* Items, meter readings and the key are filled in as part of sending them.
RecordInspections ==
    "inspect" \in ui.open /\ Submit("inspect", <<"inspect", ui.sel[1]>>, ui.filter)

OpenSettlement(r) ==
    /\ Clickable(r)
    /\ Load([ui EXCEPT !.sel = <<r, ui.list[r]>>, !.open = {"settle"}, !.preview = None, !.error = FALSE],
            <<"preview", r>>, "preview")

\* Only the modal that asked takes the answer.
PreviewLoaded ==
    \E c \in Answered({"preview"}) :
        IF "preview" \in c.for THEN Takes(c, [ui EXCEPT !.preview = c.req[2]]) ELSE Uses(c, ui)

Settling == "settle" \in ui.open /\ ~Final(ui.sel[2])

Approve ==
    /\ Settling /\ ui.sel[2] # "approved" /\ "preview" \notin ui.wait
    /\ Submit("act", <<"approve", ui.sel[1]>>, ui.filter)

\* Without the key, or with a room that is free at once, it takes an override
\* and its reason.
Execute ==
    Settling /\ "preview" \notin ui.wait /\ Submit("act", <<"execute", ui.sel[1]>>, ui.filter)

Cancel == Settling /\ Submit("act", <<"cancel", ui.sel[1]>>, ui.filter)

SettleFlags == {"preview", "act"}

CloseCheckoutModal ==
    \/ CloseModal("notice")
    \/ Discard("inspect", {"inspect"})
    \/ Discard("settle", SettleFlags)

-----------------------------------------------------------------------------
(* What an answer brings about.  The modal of its kind that is open by then *)
(* is closed, whichever checkout it is about.                              *)

Refetched(cs, filter) == Ask(cs, <<"list", filter>>, "load")

Replaced(d, r) == [q \in DOMAIN ui.list |-> IF q = r THEN d[r] ELSE ui.list[q]]

\* Variant: the modal closes and the list is not loaded again.
NoticeCreatedOnly ==
    \E c \in Answered({"create"}) : Takes(c, [ui EXCEPT !.open = @ \ {"notice"}])

NoticeCreated ==
    \E c \in Answered({"create"}) :
        \/ Fails(c)
        \/ /\ c.ans # Failed
           /\ ui' = Fetching(Lower([ui EXCEPT !.open = @ \ {"notice"}], c))
           /\ calls' = Refetched(calls \ {c}, c.ctx)
           /\ UNCHANGED db

\* The error of a modal that is gone is not shown.
ActFails(c) ==
    IF "orphan" \in c.for THEN c.ans = Failed /\ Uses(c, ui) ELSE Fails(c)

\* The row is replaced in place and the list loaded again.
Inspected ==
    \E c \in Answered({"inspect"}) :
        \/ ActFails(c)
        \/ /\ c.ans # Failed
           /\ ui' = Fetching([Without(ui, "inspect", {"inspect"}) EXCEPT
                                !.list = Replaced(c.ans.db, c.req[2])])
           /\ calls' = Refetched(Orphaned(calls \ {c}, {"inspect"}), c.ctx)
           /\ UNCHANGED db

Settled ==
    \E c \in Answered({"approve", "execute"}) :
        \/ ActFails(c)
        \/ /\ c.ans # Failed
           /\ ui' = Fetching([Without(ui, "settle", SettleFlags) EXCEPT
                                !.list = Replaced(c.ans.db, c.req[2])])
           /\ calls' = Refetched(Orphaned(calls \ {c}, SettleFlags), c.ctx)
           /\ UNCHANGED db

\* A cancellation closes the modal and leaves the list as it is.
Cancelled ==
    \E c \in Answered({"cancel"}) :
        \/ ActFails(c)
        \/ /\ c.ans # Failed
           /\ ui' = Without(ui, "settle", SettleFlags)
           /\ calls' = Orphaned(calls \ {c}, SettleFlags)
           /\ UNCHANGED db

-----------------------------------------------------------------------------

\* External to the page: a checkout that is over takes nothing any more.
Becomes(r, status) == IF Final(db[r]) THEN {} ELSE {[db EXCEPT ![r] = status]}

Effects(c) ==
    CASE Op(c) = "create"  -> {[db EXCEPT ![r] = "submitted"] : r \in {r \in Rows : db[r] = "none"}}
      [] Op(c) = "inspect" -> Becomes(c.req[2], "inspection_completed")
      [] Op(c) = "approve" -> Becomes(c.req[2], "approved")
      [] Op(c) = "execute" -> Becomes(c.req[2], "completed")
      [] Op(c) = "cancel"  -> Becomes(c.req[2], "cancelled")
      [] OTHER -> {db}

Serve == ServeAny(Effects)

Remount ==
    /\ MayCall
    /\ ui' = InitialUi
    /\ calls' = Ask(Unmounted(calls), ListKey(ui'), "load")
    /\ UNCHANGED db

Deliver ==
    CheckoutsLoaded \/ PreviewLoaded \/ NoticeCreated \/ Inspected \/ Settled \/ Cancelled

User ==
    \/ \E s \in {"all", "submitted", "approved"} : FetchCheckouts(s)
    \/ \E r \in Rows : OpenInspection(r) \/ OpenSettlement(r)
    \/ OpenNotice \/ CreateNotice \/ RecordInspections
    \/ Approve \/ Execute \/ Cancel
    \/ CloseCheckoutModal \/ Incomplete({"notice", "settle"})
    \/ Remount

Next == Step(User, Serve, Deliver, {ListKey(ui)}, {"create", "inspect", "approve", "execute"})
Spec == Init /\ [][Next]_pageVars

\* The table and the server agree on every checkout that is not cancelled, and
\* the calculation shown is that of the checkout that is being settled.
Current ==
    \A r \in {r \in Rows : db[r] # "cancelled"} :
        /\ r \in DOMAIN ui.list <=> r \in DOMAIN Matching(db, ui.filter)
        /\ r \in DOMAIN ui.list => ui.list[r] = db[r]
OfSelected == "settle" \in ui.open /\ ui.preview # None => ui.preview = ui.sel[1]
=============================================================================
