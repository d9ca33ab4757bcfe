----------------------------- MODULE RoomsPage -----------------------------
(***************************************************************************)
(* The rooms page: the rooms with their tenants, tabs, pages and export,   *)
(* the form that edits a room and the dialog that deletes one.  Rooms are  *)
(* added and assigned on a page of their own; the second step of this      *)
(* page's form is for a new room and is never reached.                     *)
(***************************************************************************)
EXTENDS WebPage

\* form is the status of the room as the form or the dialog was opened with it;
\* the form sends it back with the rest.
InitialUi(role) ==
    [role |-> role, list |-> <<>>, wait |-> {"load"}, error |-> FALSE, tab |-> "all", page |-> 1,
     view |-> "list", open |-> {}, sel |-> None, form |-> None, exported |-> {}]

CanWriteRooms == ui.role = "manager"

Listed(d) == [r \in {r \in Rows : d[r] # "none"} |-> d[r]]

Init ==
    /\ \E role \in {"manager", "viewer"} : ui = InitialUi(role)
    /\ calls = Ask({}, <<"rooms">>, "load")
    /\ db \in {[r \in Rows |-> IF r = 1 THEN "available" ELSE s] : s \in {"occupied", "maintenance"}}
    /\ clicks = 0 /\ clean = TRUE

-----------------------------------------------------------------------------
(* The rooms                                                               *)

\* Variant: what could not be loaded is loaded again at once.
RoomsLoadedOrAgain ==
    \E c \in Answered({"rooms"}) :
        \/ c.ans = Failed /\ calls' = Ask(calls \ {c}, c.req, "load") /\ UNCHANGED <<ui, db>>
        \/ c.ans # Failed /\ Uses(c, [ui EXCEPT !.list = Listed(c.ans.db)])

\* The rooms and the active contracts are loaded together, or not at all.
RoomsLoaded ==
    \E c \in Answered({"rooms"}) : Takes(c, [ui EXCEPT !.list = Listed(c.ans.db)])

FilteredRooms == {r \in DOMAIN ui.list : ui.tab \in {"all", ui.list[r]}}

\* Another tab starts at the first page.
SetTab(tab) ==
    Uncovered /\ ui.tab # tab /\ Show([ui EXCEPT !.tab = tab, !.page = 1])

SetView(view) == Uncovered /\ ui.view # view /\ Show([ui EXCEPT !.view = view])

\* The filtered rooms, all pages of them, as the page holds them now.
ExportRooms == Uncovered /\ FilteredRooms # {} /\ Show([ui EXCEPT !.exported = FilteredRooms])

TotalPages == Cardinality(FilteredRooms)

\* Back from any page; forward only to one there is.
SetPage(page) ==
    /\ Uncovered /\ FilteredRooms # {}
    /\ \/ page = ui.page - 1 /\ page >= 1
       \/ page \in 1 .. TotalPages
    /\ Show([ui EXCEPT !.page = page])

Clickable(r) == Uncovered /\ r \in PageOf(FilteredRooms, ui.page)

-----------------------------------------------------------------------------
(* The form and the dialog                                                 *)

\* From the menu of a row.
OpenRoom(r, modal) ==
    /\ Clickable(r) /\ CanWriteRooms
    /\ Show([ui EXCEPT !.sel = r, !.form = ui.list[r], !.open = {modal}])

\* Saving and loading share one flag, and the button is disabled while it is up.
SubmitRoom ==
    /\ "edit" \in ui.open /\ ~Loading /\ MayCall
    /\ ui' = Fetching(ui)
    /\ calls' = Send(calls, <<"save", ui.sel, ui.form>>, {"load"}, None)
    /\ UNCHANGED db

\* The rooms are asked for again, and the flag goes down all the same.
RoomSaved ==
    \E c \in Answered({"save"}) :
        \/ Fails(c)
        \/ /\ c.ans # Failed
           /\ ui' = [Lower(ui, c) EXCEPT !.open = @ \ {"edit"}]
           /\ calls' = Ask(calls \ {c}, <<"rooms">>, "load")
           /\ UNCHANGED db

\* No flag: the buttons of the dialog stay enabled until it is closed.
ConfirmDelete(withTenant) ==
    /\ "delete" \in ui.open /\ MayCall
    /\ withTenant => ui.form = "occupied"
    /\ calls' = Send(calls, <<"delete", ui.sel, withTenant>>, {"delete"}, None)
    /\ UNCHANGED <<ui, db>>

RoomDeleted ==
    \E c \in Answered({"delete"}) :
        \/ Fails(c)
        \/ /\ c.ans # Failed
           /\ ui' = Raise([ui EXCEPT !.open = @ \ {"delete"}], "load")
           /\ calls' = Ask(calls \ {c}, <<"rooms">>, "load")
           /\ UNCHANGED db

-----------------------------------------------------------------------------

\* External to the page: a room that is let, or ever was, is not deleted.
Effects(c) ==
    CASE Op(c) = "save" -> IF db[c.req[2]] = "none" THEN {} ELSE {[db EXCEPT ![c.req[2]] = c.req[3]]}
      [] Op(c) = "delete" -> IF db[c.req[2]] \in {"none", "occupied"} THEN {} ELSE {[db EXCEPT ![c.req[2]] = "none"]}
      [] OTHER -> {db}

Serve == ServeAny(Effects)

Remount ==
    /\ MayCall
    /\ ui' = InitialUi(ui.role)
    /\ calls' = Ask(Unmounted(calls), <<"rooms">>, "load")
    /\ UNCHANGED db

Deliver == RoomsLoaded \/ RoomSaved \/ RoomDeleted

User ==
    \/ \E t \in {"all", "available", "occupied"} : SetTab(t)
    \/ \E v \in {"list", "grid"} : SetView(v)
    \/ ExportRooms
    \/ \E p \in 1 .. 2 : SetPage(p)
    \/ \E r \in Rows, m \in {"edit", "delete"} : OpenRoom(r, m)
    \/ SubmitRoom \/ Incomplete({"edit"})
    \/ \E withTenant \in BOOLEAN : ConfirmDelete(withTenant)
    \/ \E m \in {"edit", "delete"} : CloseModal(m)
    \/ Remount

Next == Step(User, Serve, Deliver, {<<"rooms">>}, {"save", "delete"})
Spec == Init /\ [][Next]_pageVars

\* The page shows the rooms the server has.
Current == ui.list = Listed(db)
=============================================================================
