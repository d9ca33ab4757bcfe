---------------------------- MODULE DeliveryPage ----------------------------
(***************************************************************************)
(* Two tabs of the notifications page: the preferences, and the monitor    *)
(* that lists what is to be delivered and sends it again.  A tab that is   *)
(* left is unmounted.                                                      *)
(***************************************************************************)
EXTENDS WebPage

\* sel is the item of the detail as it was when it was opened; retrying is the
\* one item whose button is disabled; pref is the form.
InitialUi(tab) ==
    [tab |-> tab, list |-> <<>>, filter |-> "all", retrying |-> None, sel |-> None, pref |-> None,
     wait |-> {"load"}, error |-> FALSE, open |-> {}]

Items(d) == d.items

Listed(d, filter) == [r \in {r \in Rows : filter \in {"all", Items(d)[r]}} |-> Items(d)[r]]

FirstKey(tab) == IF tab = "outbox" THEN <<"outbox", "all">> ELSE <<"preferences">>

Init ==
    /\ ui = InitialUi("outbox")
    /\ calls = Ask({}, FirstKey("outbox"), "load")
    /\ db \in [items : {[r \in Rows |-> IF r = 1 THEN s ELSE "failed"] : s \in {"pending", "delivered"}},
               pref : {"all"}]
    /\ clicks = 0 /\ clean = TRUE

OutboxTab == ui.tab = "outbox"

-----------------------------------------------------------------------------
(* The outbox                                                              *)

\* A failure leaves what was there, and is not shown.
OutboxLoaded ==
    \E c \in Answered({"outbox"}) :
        Uses(c, IF c.ans = Failed THEN ui ELSE [ui EXCEPT !.list = Listed(c.ans.db, c.req[2])])

SetFilter(filter) ==
    /\ OutboxTab /\ Uncovered /\ ui.filter # filter
    /\ Load([ui EXCEPT !.filter = filter], <<"outbox", filter>>, "load")

Reload == OutboxTab /\ Uncovered /\ Load(ui, <<"outbox", ui.filter>>, "load")

InTable(r) == OutboxTab /\ Uncovered /\ ~Loading /\ r \in DOMAIN ui.list

OpenItem(r) ==
    InTable(r) /\ Show([ui EXCEPT !.sel = [id |-> r, status |-> ui.list[r]], !.open = {"item"}])

CloseItem == CloseModal("item")

Held(u) == IF u.open = {} THEN None ELSE u.sel.id

\* From the table, or from the detail whatever its status is.
Retry(r) ==
    /\ MayCall /\ ui.retrying # r
    /\ \/ InTable(r) /\ ui.list[r] \in {"failed", "pending"}
       \/ OutboxTab /\ "item" \in ui.open /\ ui.sel.id = r
    /\ ui' = [ui EXCEPT !.retrying = r, !.error = FALSE]
    /\ calls' = Send(calls, <<"retry", r>>, {"retry"}, Held(ui))
    /\ UNCHANGED db

\* The detail that was open when the button was pressed is shown again.  The
\* button that comes back is that of the item retried last.
Retried ==
    \E c \in Answered({"retry"}) :
        LET r == c.req[2]
            done == [ui EXCEPT !.retrying = None]
            now == [id |-> r, status |-> Items(c.ans.db)[r]]
        IN  IF c.ans = Failed THEN Uses(c, [done EXCEPT !.error = TRUE])
            ELSE Uses(c, [done EXCEPT
                    !.list = [q \in DOMAIN @ |-> IF q = r THEN now.status ELSE @[q]],
                    !.sel = IF c.ctx = r THEN now ELSE @,
                    !.open = IF c.ctx = r THEN {"item"} ELSE @])

-----------------------------------------------------------------------------
(* The preferences                                                         *)

\* Without them there is no form.
PreferencesLoaded ==
    \E c \in Answered({"preferences"}) :
        \/ c.ans = Failed /\ Uses(c, [ui EXCEPT !.error = @ \/ "load" \in c.for])
        \/ c.ans # Failed /\ Uses(c, IF "load" \in c.for THEN [ui EXCEPT !.pref = c.ans.db.pref] ELSE ui)

EditPreferences(pref) ==
    ~OutboxTab /\ ~Loading /\ ui.pref \notin {None, pref} /\ Show([ui EXCEPT !.pref = pref])

SavePreferences ==
    ~OutboxTab /\ ~Loading /\ ui.pref # None /\ Submit("save", <<"save", ui.pref>>, None)

\* What the server answers replaces what was typed meanwhile.
PreferencesSaved ==
    \E c \in Answered({"save"}) : Takes(c, [ui EXCEPT !.pref = c.ans.db.pref])

-----------------------------------------------------------------------------

\* External to the page: an item that is sent again is delivered, or fails.
Effects(c) ==
    CASE Op(c) = "retry" ->
            IF Items(db)[c.req[2]] = "delivered" THEN {}
            ELSE {[db EXCEPT !.items[c.req[2]] = s] : s \in {"delivered", "failed"}}
      [] Op(c) = "save" -> {[db EXCEPT !.pref = c.req[2]]}
      [] OTHER -> {db}

Serve == ServeAny(Effects)

SetTab(tab) ==
    /\ Uncovered /\ MayCall
    /\ ui' = InitialUi(tab)
    /\ calls' = Ask(Unmounted(calls), FirstKey(tab), "load")
    /\ UNCHANGED db

Deliver == OutboxLoaded \/ Retried \/ PreferencesLoaded \/ PreferencesSaved

User ==
    \/ \E f \in {"all", "failed"} : SetFilter(f)
    \/ Reload
    \/ \E r \in Rows : OpenItem(r) \/ Retry(r)
    \/ CloseItem
    \/ \E p \in {"all", "some"} : EditPreferences(p)
    \/ SavePreferences
    \/ \E t \in {"outbox", "preferences"} : SetTab(t)

\* The table, and what the server said of the items that were sent again.
OnShow == {<<"outbox", ui.filter>>} \union {<<"retry", r>> : r \in Rows}

Next == Step(User, Serve, Deliver, OnShow, {})
Spec == Init /\ [][Next]_pageVars

\* Every item in the table has the status the server has for it.  One whose
\* status is of the filter only since it was sent again may be missing.
Current == OutboxTab => \A r \in DOMAIN ui.list : ui.list[r] = Items(db)[r]
=============================================================================
