------------------------- MODULE NotificationsPage -------------------------
(***************************************************************************)
(* The inbox and the bell: the list of the notifications on its page, and  *)
(* the badge with the latest ones in the bar above every page.  Each keeps *)
(* its own copy and its own count of what is unread, and tells the other   *)
(* nothing.  Notifications come in at any moment.                          *)
(***************************************************************************)
EXTENDS WebPage

\* One list, and the count that goes with it.
Copy == [list |-> <<>>, count |-> 0]

\* at is where the user is; only is the inbox's filter.
InitialUi ==
    [at |-> "inbox", inbox |-> Copy, only |-> FALSE, bell |-> Copy,
     wait |-> {"load"}, error |-> FALSE, open |-> {}]

\* A notification is new until it comes in, and late if that was while the
\* answer to a mark-all was on its way: the server has it unread all the same.
IsUnread(status) == status \in {"unread", "late"}

Unread(d) == Cardinality({r \in Rows : IsUnread(d[r])})

Listed(d, only) ==
    [r \in {r \in Rows : IsUnread(d[r]) \/ (~only /\ d[r] = "read")} |->
        IF IsUnread(d[r]) THEN "unread" ELSE "read"]

Init ==
    /\ ui = InitialUi
    /\ calls = Ask(Ask({}, <<"inbox", FALSE>>, "load"), <<"count">>, "badge")
    /\ db \in {[r \in Rows |-> IF r = 1 THEN s ELSE t] : s \in {"read", "unread"}, t \in {"unread", "new"}}
    /\ clicks = 0 /\ clean = TRUE

-----------------------------------------------------------------------------
(* What a change does to a copy                                            *)

ReadOne(copy, r) ==
    [list |-> [q \in DOMAIN copy.list |-> IF q = r THEN "read" ELSE copy.list[q]],
     count |-> IF copy.count = 0 THEN 0 ELSE copy.count - 1]

ReadAll(copy) == [list |-> [q \in DOMAIN copy.list |-> "read"], count |-> 0]

\* What is deleted leaves the list and stays in the count.
DropOne(copy, r) == [copy EXCEPT !.list = [q \in DOMAIN @ \ {r} |-> @[q]]]

\* No flag: every button can be pressed again until its answer is here.
Press(req, handler) ==
    /\ MayCall
    /\ calls' = Send(calls, req, {handler}, None)
    /\ UNCHANGED <<ui, db>>

-----------------------------------------------------------------------------
(* The inbox                                                               *)

AtInbox == ui.at = "inbox"

\* A failure leaves what was there, and is not shown; an inbox that was left
\* takes no answer.
InboxLoaded ==
    \E c \in Answered({"inbox"}) :
        Uses(c, IF c.ans = Failed \/ "load" \notin c.for THEN ui
                ELSE [ui EXCEPT !.inbox =
                        [list |-> Listed(c.ans.db, c.req[2]), count |-> Unread(c.ans.db)]])

Reload == AtInbox /\ Load(ui, <<"inbox", ui.only>>, "load")

SetUnreadOnly(only) ==
    AtInbox /\ ui.only # only /\ Load([ui EXCEPT !.only = only], <<"inbox", only>>, "load")

InInbox(r) == AtInbox /\ ~Loading /\ r \in DOMAIN ui.inbox.list

MarkRead(r) == InInbox(r) /\ ui.inbox.list[r] = "unread" /\ Press(<<"read", r>>, "inbox")

MarkAllRead == AtInbox /\ ui.inbox.count > 0 /\ Press(<<"all">>, "inbox")

Delete(r) == InInbox(r) /\ Press(<<"delete", r>>, "inbox")

\* Variant: the list is updated before the server has answered for it.
InboxChangedAnyway ==
    \E c \in Answered({"read", "all", "delete"}) :
        /\ "bell" \notin c.for
        /\ Uses(c, IF Op(c) = "read" THEN [ui EXCEPT !.inbox = ReadOne(@, c.req[2])] ELSE ui)

InboxChanged ==
    \E c \in Answered({"read", "all", "delete"}) :
        /\ "bell" \notin c.for
        /\ Uses(c, IF c.ans = Failed \/ c.for = {"orphan"} THEN ui
                   ELSE [ui EXCEPT !.inbox = CASE Op(c) = "read" -> ReadOne(@, c.req[2])
                                               [] Op(c) = "all" -> ReadAll(@)
                                               [] OTHER -> DropOne(@, c.req[2])])

-----------------------------------------------------------------------------
(* The bell                                                                *)

\* When the bar is mounted, and every half a minute.
RefreshUnread ==
    /\ MayCall /\ calls' = Ask(calls, <<"count">>, "badge")
    /\ UNCHANGED <<ui, db>>

BadgeLoaded ==
    \E c \in Answered({"count"}) :
        Uses(c, IF c.ans = Failed THEN ui
                ELSE [ui EXCEPT !.bell.count = Unread(c.ans.db)])

BellOpen == "bell" \in ui.open

OpenBell == ~BellOpen /\ Load([ui EXCEPT !.open = {"bell"}], <<"recent">>, "recent")

CloseBell == CloseModal("bell")

RecentLoaded ==
    \E c \in Answered({"recent"}) :
        Uses(c, IF c.ans = Failed THEN ui
                ELSE [ui EXCEPT !.bell = [list |-> Listed(c.ans.db, FALSE), count |-> Unread(c.ans.db)]])

InBell(r) == BellOpen /\ "recent" \notin ui.wait /\ r \in DOMAIN ui.bell.list

MarkAllFromBell == BellOpen /\ ui.bell.count > 0 /\ Press(<<"all">>, "bell")

DeleteFromBell(r) == InBell(r) /\ Press(<<"delete", r>>, "bell")

\* A notification may lead somewhere else; the inbox is left for it.
Leads(r) == r = 1

Follow(u, cs, r) ==
    IF Leads(r)
    THEN /\ ui' = [u EXCEPT !.open = {}, !.at = "elsewhere", !.inbox = Copy, !.only = FALSE, !.wait = @ \ {"load"}]
         /\ calls' = Orphaned(cs, {"load", "inbox"})
    ELSE ui' = u /\ calls' = cs

ClickItem(r) ==
    /\ InBell(r)
    /\ \/ ui.bell.list[r] = "unread" /\ Press(<<"read", r>>, "bell")
       \/ ui.bell.list[r] = "read" /\ Follow(ui, calls, r) /\ UNCHANGED db

\* Read or not, it is followed, wherever the user is by then.
ItemRead ==
    \E c \in Answered({"read"}) :
        /\ "bell" \in c.for
        /\ Follow(IF c.ans = Failed THEN ui ELSE [ui EXCEPT !.bell = ReadOne(@, c.req[2])],
                  calls \ {c}, c.req[2])
        /\ UNCHANGED db

BellChanged ==
    \E c \in Answered({"all", "delete"}) :
        /\ "bell" \in c.for
        /\ \/ c.ans = Failed /\ Uses(c, ui)
           \/ c.ans # Failed /\ Op(c) = "all" /\ Uses(c, [ui EXCEPT !.bell = ReadAll(@)])
           \/ /\ c.ans # Failed /\ Op(c) = "delete"
              /\ ui' = [ui EXCEPT !.bell = DropOne(@, c.req[2])]
              /\ calls' = Ask(calls \ {c}, <<"count">>, "badge")
              /\ UNCHANGED db

-----------------------------------------------------------------------------

\* External to the page: what is read stays read, what is deleted is gone.
Effects(c) ==
    CASE Op(c) = "read" -> IF db[c.req[2]] = "none" THEN {} ELSE {[db EXCEPT ![c.req[2]] = "read"]}
      [] Op(c) = "all" -> {[r \in Rows |-> IF IsUnread(db[r]) THEN "read" ELSE db[r]]}
      [] Op(c) = "delete" -> {[db EXCEPT ![c.req[2]] = "none"]}
      [] OTHER -> {db}

\* The server has marked all it had, and the continuation has yet to do so.
MarkingAll == \E c \in calls : Op(c) = "all" /\ c.ans \notin {None, Failed}

\* External to the page: something happens that the user is told of.
Arrive ==
    /\ \E r \in Rows :
        /\ db[r] = "new"
        /\ db' = [db EXCEPT ![r] = IF MarkingAll THEN "late" ELSE "unread"]
    /\ UNCHANGED <<ui, calls, clicks, clean>>

Serve == ServeAny(Effects) \/ Arrive

\* The inbox is a page; the bar stays.
VisitInbox ==
    /\ ~AtInbox /\ Uncovered
    /\ Load([ui EXCEPT !.at = "inbox"], <<"inbox", FALSE>>, "load")

Deliver ==
    \/ InboxLoaded \/ InboxChanged
    \/ BadgeLoaded \/ RecentLoaded \/ ItemRead \/ BellChanged

User ==
    \/ Reload \/ \E only \in BOOLEAN : SetUnreadOnly(only)
    \/ \E r \in Rows : MarkRead(r) \/ Delete(r) \/ DeleteFromBell(r) \/ ClickItem(r)
    \/ MarkAllRead \/ MarkAllFromBell
    \/ RefreshUnread \/ OpenBell \/ CloseBell \/ VisitInbox

Next == Step(User, Serve, Deliver, {}, {})
Spec == Init /\ [][Next]_pageVars

\* Nothing is shown as read that the server has unread, unless it came in after
\* a mark-all was served and was on show before its continuation ran.
ReadIsRead ==
    \A copy \in {ui.inbox, ui.bell} :
        \A r \in DOMAIN copy.list : copy.list[r] = "read" => db[r] \notin {"new", "unread"}
=============================================================================
