--------------------------- MODULE TenantProfile ---------------------------
(***************************************************************************)
(* The page of one tenant: the profile, the contract and the payments in   *)
(* views, the forms that edit the profile, extend the contract, check the  *)
(* tenant out and move the tenant to another room, and the history of the  *)
(* rooms.  The requests of one load of the page are one request here.      *)
(***************************************************************************)
EXTENDS WebPage, Sequences

\* at is "tenants" once the page was left for the list.  wanted is what the
\* transfer's form says, the date and the fee with the room; due, that the
\* preview's timer runs; dated, that the history is filtered.
InitialUi ==
    [at |-> "profile", held |-> None, form |-> None, menu |-> "ringkasan", filter |-> "all",
     wait |-> {"load"}, error |-> FALSE, open |-> {}, wanted |-> None, due |-> FALSE,
     preview |-> None, dated |-> FALSE, stays |-> {}]

Tenants == [InitialUi EXCEPT !.at = "tenants", !.wait = {}]

\* What the page reads of the server's state.
Profile(d) == [profile |-> d.profile, room |-> d.room, contract |-> d.contract]

Init ==
    /\ ui = InitialUi
    /\ calls = Ask({}, <<"profile">>, "load")
    /\ db \in [profile : {"stored"}, room : {1}, contract : {"long", "ending"}, renewals : {0},
               moves : {<<>>}, stays : {{1}}]
    /\ clicks = 0 /\ clean = TRUE

-----------------------------------------------------------------------------
(* Loading, and what goes with it                                          *)

\* A load that fails leaves the page, and so does one whose page is gone:
\* "stray" waits for those, "chain" for changes that load when they are done.
Left(cs) ==
    {[c EXCEPT !.for = IF Op(c) = "profile" THEN {"stray"} ELSE @ \intersect {"chain"}] : c \in cs}

Gone(c) == c.for = {"chain"}

\* While the page loads there is nothing but a spinner: the transfer's form and
\* the history are unmounted, the open forms of the page itself come back.
Inner == {"transfer", "preview", "history", "reset"}

Spinner(u) ==
    [Raise(u, "load") EXCEPT !.wait = @ \ Inner, !.wanted = None, !.due = FALSE, !.preview = None,
                             !.dated = FALSE, !.stays = {}]

History(u) == u.menu = "histori-kamar"

\* The history asks for its rooms whenever it is mounted.
Mounted(u, cs) ==
    IF History(u) THEN /\ ui' = Raise(u, "history")
                       /\ calls' = Ask(cs, <<"history", FALSE>>, "history")
                  ELSE ui' = u /\ calls' = cs

\* What was typed into the profile's form is overwritten.
ProfileLoaded ==
    \E c \in Answered({"profile"}) :
        /\ \/ c.ans = Failed /\ ui' = Tenants /\ calls' = Left(calls \ {c})
           \/ c.ans # Failed /\ "load" \notin c.for /\ ui' = ui /\ calls' = calls \ {c}
           \/ /\ c.ans # Failed /\ "load" \in c.for
              /\ Mounted([Lower(ui, c) EXCEPT !.held = Profile(c.ans.db), !.form = c.ans.db.profile],
                         calls \ {c})
        /\ UNCHANGED db

Reading == ui.at = "profile" /\ ~Loading

Bare == Reading /\ Uncovered

-----------------------------------------------------------------------------
(* The views                                                               *)

OpenMenu(menu) ==
    /\ Bare /\ MayCall /\ ui.menu # menu
    /\ Mounted([ui EXCEPT !.menu = menu, !.wait = @ \ Inner, !.dated = FALSE, !.stays = {}],
               Orphaned(calls, {"history", "reset"}))
    /\ UNCHANGED db

SetActivityFilter(filter) ==
    Bare /\ ui.menu = "aktivitas" /\ ui.filter # filter /\ Show([ui EXCEPT !.filter = filter])

SetHistoryDates == Bare /\ History(ui) /\ ~ui.dated /\ Show([ui EXCEPT !.dated = TRUE])

ApplyHistoryFilter ==
    /\ Bare /\ History(ui) /\ MayCall
    /\ ui' = [Raise(ui, "history") EXCEPT !.error = FALSE]
    /\ calls' = Ask(calls, <<"history", ui.dated>>, "history")
    /\ UNCHANGED db

\* Without a flag, and without a word when it fails.
ResetHistoryFilter ==
    /\ Bare /\ ui.dated /\ MayCall
    /\ ui' = [ui EXCEPT !.dated = FALSE]
    /\ calls' = Ask(calls, <<"history", FALSE>>, "reset")
    /\ UNCHANGED db

\* The later dates leave the present room alone.
StaysOf(d, dated) == IF dated THEN d.stays \intersect {d.room} ELSE d.stays

HistoryLoaded ==
    \E c \in Answered({"history"}) :
        \/ c.ans = Failed /\ Uses(c, [ui EXCEPT !.error = @ \/ "history" \in c.for])
        \/ c.ans # Failed /\ Uses(c, [ui EXCEPT !.stays =
                IF c.for \intersect Inner = {} THEN @ ELSE StaysOf(c.ans.db, c.req[2])])

-----------------------------------------------------------------------------
(* The forms of the page                                                   *)

\* The profile's form is the one that was left; an extension waits for the
\* last week of the contract.
OpenForm(form) ==
    /\ Bare
    /\ form = "extend" => ui.held.contract # "long"
    /\ OpenModal(form)

ExtendTooEarly == Bare /\ ui.held.contract = "long" /\ Show([ui EXCEPT !.error = TRUE])

TypeProfile == Reading /\ "edit" \in ui.open /\ ui.form # "typed" /\ Show([ui EXCEPT !.form = "typed"])

CloseForm == Reading /\ \E f \in {"edit", "extend", "checkout", "transfer"} : CloseModal(f)

\* A change that loads the page when it is done, also when the page is gone.
Change(form, req) ==
    /\ Reading /\ form \in ui.open /\ MayCall /\ form \notin ui.wait
    /\ ui' = Raise(ui, form)
    /\ calls' = Send(calls, req, {form, "chain"}, None)
    /\ UNCHANGED db

\* The room goes with the profile, as the page holds it.
EditProfileSubmit == Change("edit", <<"edit", ui.form, ui.held.room>>)

ExtendContractSubmit == Change("extend", <<"extend">>)

CheckoutSubmit == Change("checkout", <<"checkout">>)

\* The form closes, whichever visit of it sent the change.
Done(c, form) ==
    /\ IF Gone(c)
       THEN ui' = ui /\ calls' = Ask(calls \ {c}, <<"profile">>, "stray")
       ELSE /\ ui' = Spinner([Lower(ui, c) EXCEPT !.open = @ \ {form}])
            /\ calls' = Ask(Orphaned(calls \ {c}, Inner), <<"profile">>, "load")
    /\ UNCHANGED db

\* Only a form that is still there can say what went wrong.
Refused(c) ==
    /\ c.ans = Failed
    /\ Uses(c, [ui EXCEPT !.error = @ \/ c.for \intersect {"edit", "extend", "checkout", "transfer"} # {}])

Changed ==
    \E c \in Answered({"edit", "extend", "checkout"}) :
        Refused(c) \/ (c.ans # Failed /\ Done(c, Op(c)))

-----------------------------------------------------------------------------
(* The transfer to another room                                            *)

\* A change of the form, shown or not, drops the preview that is on its way
\* and starts the timer of the next; an empty choice drops the preview shown,
\* and leaves the flag of the one on its way up.
ChooseRoom(room) ==
    /\ Reading /\ "transfer" \in ui.open /\ ui.wanted # room /\ room # ui.held.room
    /\ ui' = [ui EXCEPT !.wanted = room, !.due = (room # None),
                        !.preview = IF room = None THEN None ELSE @]
    /\ calls' = Orphaned(calls, {"preview"})
    /\ UNCHANGED db

FetchPreview ==
    /\ ui.due
    /\ ui' = [Raise(ui, "preview") EXCEPT !.due = FALSE, !.error = FALSE]
    /\ calls' = Send(calls, <<"preview", ui.wanted>>, {"preview"}, None)
    /\ UNCHANGED db

\* The preview before it stays on show until this one is here.
PreviewLoaded ==
    \E c \in Answered({"preview"}) :
        \/ c.for = {"orphan"} /\ Uses(c, ui)
        \/ c.for # {"orphan"} /\ c.ans = Failed /\ Uses(c, [ui EXCEPT !.preview = None, !.error = TRUE])
        \/ c.for # {"orphan"} /\ c.ans # Failed /\ Uses(c, [ui EXCEPT !.preview = c.req[2]])

\* With a room, a reason and a preview; at once, or for somebody's approval.
SubmitTransfer(direct) ==
    /\ Reading /\ "transfer" \in ui.open /\ "transfer" \notin ui.wait /\ MayCall
    /\ ui.wanted # None /\ ui.preview # None
    /\ ui' = [Raise(ui, "transfer") EXCEPT !.error = FALSE]
    /\ calls' = Send(calls, <<"create", ui.wanted>>, {"transfer", "chain"},
                     [direct |-> direct, seen |-> ui.preview])
    /\ UNCHANGED db

\* What was created is approved and executed, one after the other; a failure
\* leaves it where it is, and pressing the button again creates another.
TransferCreated ==
    \E c \in Answered({"create"}) :
        \/ Refused(c)
        \/ c.ans # Failed /\ ~c.ctx.direct /\ Done(c, "transfer")
        \/ /\ c.ans # Failed /\ c.ctx.direct
           /\ calls' = Send(calls \ {c}, <<"approve", Len(c.ans.db.moves)>>, c.for, c.ctx)
           /\ UNCHANGED <<ui, db>>

TransferApproved ==
    \E c \in Answered({"approve"}) :
        \/ Refused(c)
        \/ /\ c.ans # Failed
           /\ calls' = Send(calls \ {c}, <<"execute", c.req[2]>>, c.for, c.ctx)
           /\ UNCHANGED <<ui, db>>

TransferExecuted ==
    \E c \in Answered({"execute"}) : Refused(c) \/ (c.ans # Failed /\ Done(c, "transfer"))

-----------------------------------------------------------------------------

\* External to the page: what the server makes of a change.
Effects(c) ==
    LET live == db.contract # "ended"
    IN  CASE Op(c) = "edit" ->
                IF live /\ c.req[3] = db.room THEN {[db EXCEPT !.profile = c.req[2]]} ELSE {}
          [] Op(c) = "extend" -> IF live /\ db.renewals < 1 THEN {[db EXCEPT !.renewals = @ + 1]} ELSE {}
          [] Op(c) = "checkout" -> IF live THEN {[db EXCEPT !.contract = "ended"]} ELSE {}
          [] Op(c) = "create" ->
                IF live THEN {[db EXCEPT !.moves = Append(@, [to |-> c.req[2], status |-> "pending"])]} ELSE {}
          [] Op(c) = "approve" -> {[db EXCEPT !.moves[c.req[2]].status = "approved"]}
          [] Op(c) = "execute" ->
                IF ~live \/ db.moves[c.req[2]].to = db.room THEN {}
                ELSE {[db EXCEPT !.moves[c.req[2]].status = "completed", !.room = db.moves[c.req[2]].to,
                                 !.stays = @ \union {db.moves[c.req[2]].to}]}
          [] OTHER -> {db}

Serve == ServeAny(Effects)

\* To the list or to the documents, and back.
Leave == Reading /\ ui' = Tenants /\ calls' = Left(calls) /\ UNCHANGED db

Visit ==
    /\ ui.at = "tenants" /\ MayCall
    /\ ui' = InitialUi
    /\ calls' = Ask(Left(calls), <<"profile">>, "load")
    /\ UNCHANGED db

Deliver ==
    \/ ProfileLoaded \/ HistoryLoaded \/ Changed
    \/ FetchPreview \/ PreviewLoaded
    \/ TransferCreated \/ TransferApproved \/ TransferExecuted

User ==
    \/ \E m \in {"ringkasan", "aktivitas", "histori-kamar"} : OpenMenu(m)
    \/ \E f \in {"all", "kontrak"} : SetActivityFilter(f)
    \/ SetHistoryDates \/ ApplyHistoryFilter \/ ResetHistoryFilter
    \/ \E f \in {"edit", "extend", "checkout", "transfer"} : OpenForm(f)
    \/ ExtendTooEarly \/ TypeProfile \/ CloseForm
    \/ EditProfileSubmit \/ ExtendContractSubmit \/ CheckoutSubmit
    \/ \E r \in Rows \union {None} : ChooseRoom(r)
    \/ \E direct \in BOOLEAN : SubmitTransfer(direct)
    \/ Leave \/ Visit

Next == Step(User, Serve, Deliver, {<<"profile">>}, {"edit", "extend", "checkout", "create", "approve", "execute"})
Spec == Init /\ [][Next]_pageVars

\* The page shows the tenant the server has.
Current == Reading => ui.held = Profile(db)

\* The preview on show is that of the room the form names, or of none, unless
\* the next one is still to be asked for.
OfSelected == "transfer" \in ui.open /\ ~ui.due /\ ui.preview # None => ui.preview = ui.wanted
=============================================================================
