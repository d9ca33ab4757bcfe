----------------------------- MODULE WebClient -----------------------------
(***************************************************************************)
(* The pages of the web client, each with the server behind it.  A user    *)
(* works in one of them: the pages share no state but the server's rows    *)
(* and the requests in flight, and what a page finds when it is left and   *)
(* visited again is part of its own module.  The properties are those that *)
(* every page has to keep, said of all pages at once, and those of one.    *)
(***************************************************************************)
EXTENDS WebPage

CONSTANTS
    Views,      \* the pages that are looked at
    Vacancies,  \* the rooms a tenant may be moved to
    Fewer       \* of each page, how many steps less the user takes there: some offer more

\* The pages there are.
Pages ==
    {"payments", "invoices", "rules", "checkouts", "complaints", "rooms", "wizard",
     "profile", "transfers", "notifications", "permits", "delivery", "expenses", "tenants"}

ASSUME ViewsAssumption == Views \subseteq Pages /\ Fewer \in [Pages -> Nat]

VARIABLE view       \* the page the user works in

vars == <<pageVars, view>>

Clicks(page) == MaxClicks - Fewer[page]

Payments      == INSTANCE PaymentsPage WITH MaxClicks <- Clicks("payments")
Invoices      == INSTANCE InvoicesPage
Rules         == INSTANCE RulesPage
Checkouts     == INSTANCE CheckoutsPage WITH MaxClicks <- Clicks("checkouts")
Complaints    == INSTANCE ComplaintsPages
Rooms         == INSTANCE RoomsPage
Wizard        == INSTANCE RoomWizard
Profile       == INSTANCE TenantProfile WITH Rows <- Vacancies, MaxClicks <- Clicks("profile")
Transfers     == INSTANCE TransfersPage
Notifications == INSTANCE NotificationsPage WITH MaxClicks <- Clicks("notifications")
Permits       == INSTANCE GuestPermitsPage WITH MaxClicks <- Clicks("permits")
Delivery      == INSTANCE DeliveryPage
Expenses      == INSTANCE ExpensesPage WITH MaxClicks <- Clicks("expenses")
Tenants       == INSTANCE TenantsPage WITH MaxClicks <- Clicks("tenants")

-----------------------------------------------------------------------------

Init ==
    /\ view \in Views
    /\ CASE view = "payments"      -> Payments!Init
         [] view = "invoices"      -> Invoices!Init
         [] view = "rules"         -> Rules!Init
         [] view = "checkouts"     -> Checkouts!Init
         [] view = "complaints"    -> Complaints!Init
         [] view = "rooms"         -> Rooms!Init
         [] view = "wizard"        -> Wizard!Init
         [] view = "profile"       -> Profile!Init
         [] view = "transfers"     -> Transfers!Init
         [] view = "notifications" -> Notifications!Init
         [] view = "permits"       -> Permits!Init
         [] view = "delivery"      -> Delivery!Init
         [] view = "expenses"      -> Expenses!Init
         [] view = "tenants"       -> Tenants!Init

At(page) == view = page /\ UNCHANGED view

Next ==
    \/ At("payments") /\ Payments!Next
    \/ At("invoices") /\ Invoices!Next
    \/ At("rules") /\ Rules!Next
    \/ At("checkouts") /\ Checkouts!Next
    \/ At("complaints") /\ Complaints!Next
    \/ At("rooms") /\ Rooms!Next
    \/ At("wizard") /\ Wizard!Next
    \/ At("profile") /\ Profile!Next
    \/ At("transfers") /\ Transfers!Next
    \/ At("notifications") /\ Notifications!Next
    \/ At("permits") /\ Permits!Next
    \/ At("delivery") /\ Delivery!Next
    \/ At("expenses") /\ Expenses!Next
    \/ At("tenants") /\ Tenants!Next

\* The browser answers every request in the end, if only with an error, and
\* runs its continuation.
Fairness == WF_vars(Next /\ clicks' = clicks)

Spec == Init /\ [][Next]_vars /\ Fairness

-----------------------------------------------------------------------------
(* Properties                                                              *)

\* No button stays disabled and no spinner turns for ever: whatever answer is
\* lost, refused or late, each flag that is up has a request out whose
\* continuation takes it down (the finally of every handler, and the reset of
\* the modals).  The preview flag of the transfer modal is the exception:
\* RoomTransferModal lowers it only when a room is chosen.
FlagsComeDown ==
    \A h \in ui.wait \ (IF view = "profile" THEN {"preview"} ELSE {}) :
        \E c \in calls : h \in c.for

\* On the pages whose buttons are disabled by a flag, a handler has one change
\* out at a time, however often the user presses, opens and closes.
OnePressOneChange ==
    view \in {"payments", "invoices", "transfers", "permits"} => OneAtATime

\* Once everything that was asked for was answered, the page shows what the
\* server has: every change is followed by a read of what it may have changed,
\* and every filter, tab and page of the table by a read of its rows.  It does
\* not, and nothing in the client makes that good, after a failure, after a
\* change that was done when its page was left, and when two reads went wrong
\* together: a GET that was served before a change and is shared by the read
\* that follows it (apiFetch), or the rows of another filter that come after
\* those of the one on show.  Each of these makes clean FALSE, at the step where
\* it bites; whatever else happens with several requests out is checked.
SettledIsCurrent ==
    calls = {} /\ clean =>
        CASE view = "payments"      -> Payments!Current
          [] view = "invoices"      -> Invoices!Current
          [] view = "rules"         -> Rules!Current
          [] view = "checkouts"     -> Checkouts!Current
          [] view = "complaints"    -> Complaints!Current
          [] view = "rooms"         -> Rooms!Current
          [] view = "profile"       -> Profile!Current
          [] view = "transfers"     -> Transfers!Current
          [] view = "permits"       -> Permits!Current
          [] view = "delivery"      -> Delivery!Current
          [] view = "expenses"      -> Expenses!Current
          [] OTHER                  -> TRUE


\* When the user pauses, the client comes to rest: no answer makes a page ask for
\* something for ever.
ComesToRest == []<>(calls = {})

\* A room is submitted for good only with the sections its status needs, be it
\* a new one or a draft that is completed.
SubmittedIsComplete == view = "wizard" => Wizard!Complete

\* Neither the inbox nor the bell shows as read what the server has unread,
\* unless it came in after a mark-all was served and was on show before the
\* continuation of the mark-all ran, which marks whatever is on show.
ReadIsRead == view = "notifications" => Notifications!ReadIsRead

\* The list of tenants never shows an empty page while the filters find somebody.
NoEmptyPage == view = "tenants" => Tenants!Current
=============================================================================
