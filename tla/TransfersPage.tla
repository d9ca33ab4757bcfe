--------------------------- MODULE TransfersPage ---------------------------
(***************************************************************************)
(* The list of the requests to move to another room: one status at a time, *)
(* with the buttons that approve, execute, reject and cancel.              *)
(***************************************************************************)
EXTENDS WebPage

\* sel is the request that is being rejected.
InitialUi ==
    [list |-> <<>>, wait |-> {"load"}, error |-> FALSE, status |-> "all", open |-> {}, sel |-> None]

Listed(d, status) == [r \in {r \in Rows : status \in {"all", d[r]}} |-> d[r]]

ListKey(status) == <<"transfers", status>>

Init ==
    /\ ui = InitialUi
    /\ calls = Ask({}, ListKey("all"), "load")
    /\ db \in {[r \in Rows |-> IF r = 1 THEN "pending" ELSE s] : s \in {"pending", "approved"}}
    /\ clicks = 0 /\ clean = TRUE

\* Whichever list is answered last is shown.
TransfersLoaded ==
    \E c \in Answered({"transfers"}) : Takes(c, [ui EXCEPT !.list = Listed(c.ans.db, c.req[2])])

SetStatus(status) ==
    /\ Uncovered /\ MayCall /\ ui.status # status
    /\ ui' = [Fetching(ui) EXCEPT !.status = status]
    /\ calls' = Ask(calls, ListKey(status), "load")
    /\ UNCHANGED db

\* Variant: the buttons look at the list and not at the flag.
IdleWhenShown == ~Loading /\ ~ui.error

\* One flag for the four; the buttons are there when the list is.
Idle == ~Loading /\ ~ui.error /\ "process" \notin ui.wait

\* The handler loads the list of the status it was pressed under.
Process(r, to) ==
    /\ MayCall
    /\ ui' = Raise(ui, "process")
    /\ calls' = Send(calls, <<"decide", r, to>>, {"process"}, ui.status)
    /\ UNCHANGED db

Decide(r, to) ==
    /\ Uncovered /\ Idle /\ r \in DOMAIN ui.list
    /\ \/ to \in {"approved", "cancelled"} /\ ui.list[r] = "pending"
       \/ to = "completed" /\ ui.list[r] = "approved"
    /\ Process(r, to)

OpenReject(r) ==
    /\ Uncovered /\ Idle /\ r \in DOMAIN ui.list /\ ui.list[r] \in {"pending", "approved"}
    /\ Show([ui EXCEPT !.sel = r, !.open = {"reject"}])

CloseReject == CloseModal("reject")

SubmitReject == "reject" \in ui.open /\ "process" \notin ui.wait /\ Process(ui.sel, "rejected")

\* Variant: a refusal returns before the flag is lowered.
DecidedForgetting ==
    \E c \in Answered({"decide"}) :
        \/ c.ans = Failed /\ calls' = calls \ {c} /\ UNCHANGED <<ui, db>>
        \/ /\ c.ans # Failed
           /\ ui' = Fetching(ui)
           /\ calls' = AskFor(calls \ {c}, ListKey(c.ctx), {"load", "process"}, None)
           /\ UNCHANGED db

\* The flag stays up until the list is there; a rejection closes the form,
\* whichever request it is open for by now.
Decided ==
    \E c \in Answered({"decide"}) :
        \/ c.ans = Failed /\ Uses(c, ui)
        \/ /\ c.ans # Failed
           /\ ui' = Fetching(IF c.req[3] = "rejected" THEN [ui EXCEPT !.open = {}] ELSE ui)
           /\ calls' = AskFor(calls \ {c}, ListKey(c.ctx), {"load", "process"}, None)
           /\ UNCHANGED db

-----------------------------------------------------------------------------

\* External to the page: a request is decided once, and may be
\* executed before it is approved.
Effects(c) ==
    IF Op(c) # "decide" THEN {db}
    ELSE LET before == IF c.req[3] = "approved" THEN {"pending"} ELSE {"pending", "approved"}
         IN  IF db[c.req[2]] \in before THEN {[db EXCEPT ![c.req[2]] = c.req[3]]} ELSE {}

Serve == ServeAny(Effects)

Remount ==
    /\ MayCall
    /\ ui' = InitialUi
    /\ calls' = Ask(Unmounted(calls), ListKey("all"), "load")
    /\ UNCHANGED db

Deliver == TransfersLoaded \/ Decided

User ==
    \/ \E s \in {"all", "pending"} : SetStatus(s)
    \/ \E r \in Rows, to \in {"approved", "cancelled", "completed"} : Decide(r, to)
    \/ \E r \in Rows : OpenReject(r)
    \/ CloseReject \/ SubmitReject \/ Remount

Next == Step(User, Serve, Deliver, {ListKey(ui.status)}, {"decide"})
Spec == Init /\ [][Next]_pageVars

\* The page shows the requests of the chosen status as the server has them.
Current == ui.error \/ ui.list = Listed(db, ui.status)
=============================================================================
