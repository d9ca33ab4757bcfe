-------------------------- MODULE ComplaintsPages --------------------------
(***************************************************************************)
(* The complaints: the list with the tenant's form, and the page of one    *)
(* complaint with triage, status, comments, the AI's suggestion, work      *)
(* orders and the tenant's confirmation.  The requests of one load of a    *)
(* page are one request here.                                              *)
(***************************************************************************)
EXTENDS WebPage, Sequences

List == 0

\* at is the page that is mounted: the list, or a complaint.
InitialUi(role, at) ==
    [role |-> role, at |-> at, list |-> <<>>, held |-> None, wait |-> {"load"}, error |-> FALSE,
     filter |-> "all", photo |-> FALSE, open |-> {}]

Tenant == ui.role = "tenant"

Listed(d) == [r \in {r \in Rows : d[r] # "none"} |-> d[r]]

\* What a page asks for when it is mounted.
FirstKey(at) == IF at = List THEN <<"me">> ELSE <<"complaint", at>>

Init ==
    /\ \E role \in {"tenant", "staff"} : ui = InitialUi(role, List)
    /\ calls = Ask({}, FirstKey(List), "load")
    /\ db \in {[r \in Rows |-> IF r = 1 THEN s ELSE "none"] : s \in {"pending", "resolved"}}
    /\ clicks = 0 /\ clean = TRUE

-----------------------------------------------------------------------------
(* The list                                                                *)

At(at) == ui.at = at

\* First who the user is, then the complaints; a failure is not shown.
MeLoaded ==
    \E c \in Answered({"me"}) :
        \/ c.ans = Failed /\ Uses(c, ui)
        \/ c.ans # Failed /\ calls' = Ask(calls \ {c}, <<"list">>, "load") /\ UNCHANGED <<ui, db>>

ComplaintsLoaded ==
    \E c \in Answered({"list"}) :
        Uses(c, [ui EXCEPT !.list = IF c.ans = Failed THEN @ ELSE Listed(c.ans.db)])

SetStatusFilter(status) == At(List) /\ ~Tenant /\ Show([ui EXCEPT !.filter = status])

Visible(r) ==
    /\ r \in DOMAIN ui.list
    /\ Tenant \/ ui.filter \in {"all", ui.list[r]}

ChoosePhoto(chosen) == At(List) /\ Tenant /\ ui.photo # chosen /\ Show([ui EXCEPT !.photo = chosen])

\* A photo goes first; with or without one, the handler is one.
SubmitComplaint ==
    /\ At(List) /\ Tenant /\ MayCall /\ "submit" \notin ui.wait
    /\ ui' = [Raise(ui, "submit") EXCEPT !.error = FALSE]
    /\ calls' = IF ui.photo THEN Send(calls, <<"upload">>, {"submit", "chain"}, None)
                            ELSE Send(calls, <<"create">>, {"submit"}, None)
    /\ UNCHANGED db

PhotoUploaded ==
    \E c \in Answered({"upload"}) :
        \/ "submit" \in c.for /\ Fails(c)
        \/ "submit" \notin c.for /\ c.ans = Failed /\ Uses(c, ui)
        \/ /\ c.ans # Failed
           /\ calls' = Send(calls \ {c}, <<"create">>, c.for \ {"chain"}, None)
           /\ UNCHANGED <<ui, db>>

ComplaintCreated ==
    \E c \in Answered({"create"}) :
        \/ Fails(c)
        \/ /\ c.ans # Failed
           /\ ui' = Raise([Lower(ui, c) EXCEPT !.photo = FALSE], "load")
           /\ calls' = Ask(calls \ {c}, FirstKey(List), "load")
           /\ UNCHANGED db

-----------------------------------------------------------------------------
(* One complaint                                                           *)

\* While it loads there is nothing but a spinner: what stood on the page is
\* unmounted, its forms and flags with it, save for the triage modal's being open.
Sections == {"triage", "comment", "order", "apply", "confirm", "reopen"}

Reloading(u) == [u EXCEPT !.wait = (@ \ Sections) \union {"load"}, !.open = @ \intersect {"triage"}]

Reload(cs) == Ask(Orphaned(cs, Sections), FirstKey(ui.at), "load")

\* A reload that fails leaves what was there; a first load that fails leaves
\* a page without a complaint.
ComplaintLoaded ==
    \E c \in Answered({"complaint"}) :
        \/ c.ans = Failed /\ Uses(c, [ui EXCEPT !.error = Tenant])
        \/ c.ans # Failed /\ Uses(c, [ui EXCEPT !.held = c.ans.db[ui.at]])

Reading == ~At(List) /\ ~Loading /\ ui.held # None

Managing == Reading /\ ~Tenant

\* What a section sends; the triage modal covers the others.
Post(op, value) ==
    Submit(op, <<op, ui.at, value>>, None)

OpenTriage == Managing /\ Uncovered /\ OpenModal("triage")

TriageComplaint == Managing /\ "triage" \in ui.open /\ Post("triage", "in_progress")

\* These buttons have no flag: they can be pressed again at once.
UpdateStatus(status) ==
    /\ Managing /\ Uncovered /\ MayCall
    /\ \/ status = "resolved" /\ ui.held \notin {"resolved", "confirmed"}
       \/ status = "in_progress" /\ ui.held = "pending"
    /\ calls' = Send(calls, <<"status", ui.at, status>>, {"status"}, None)
    /\ UNCHANGED <<ui, db>>

AddComment == Reading /\ Uncovered /\ Post("comment", ui.role)

ApplyAI == Managing /\ Uncovered /\ Post("apply", ui.held)

CreateWorkOrder == Managing /\ Uncovered /\ Post("order", "new")

\* The whole work order goes back as this page last saw it, with the status.
CompleteWorkOrder ==
    /\ Managing /\ Uncovered /\ MayCall
    /\ calls' = Send(calls, <<"completed", ui.at, "seen">>, {"completed"}, None)
    /\ UNCHANGED <<ui, db>>

OpenResolution(modal) ==
    /\ Reading /\ Tenant /\ Uncovered
    /\ ui.held \in {"resolved", "confirmed"} /\ (modal = "confirm" => ui.held = "resolved")
    /\ OpenModal(modal)

ConfirmResolution == Reading /\ "confirm" \in ui.open /\ Post("confirm", "confirmed")

Reopen == Reading /\ "reopen" \in ui.open /\ Post("reopen", "reopened")

CloseComplaintModal == Reading /\ \E m \in {"triage", "confirm", "reopen"} : CloseModal(m)

\* The page says what went wrong and the section goes on as after a success:
\* its modal closes, its text is gone.  Only the triage modal closes for a
\* section that was unmounted meanwhile.
Posted ==
    \E c \in Answered(Sections \union {"status", "completed"}) :
        LET done == [Lower(ui, c) EXCEPT
                        !.open = @ \ (IF Op(c) = "triage" THEN {"triage"} ELSE c.for)]
        IN  \/ c.ans = Failed /\ Uses(c, [done EXCEPT !.error = TRUE])
            \/ /\ c.ans # Failed
               /\ ui' = Reloading(done)
               /\ calls' = Reload(calls \ {c})
               /\ UNCHANGED db

-----------------------------------------------------------------------------

\* External to the pages: what the server makes of a request.
Effects(c) ==
    LET now == IF Len(c.req) = 3 THEN db[c.req[2]] ELSE "none"
        to(status) == [db EXCEPT ![c.req[2]] = status]
    IN  CASE Op(c) = "create" -> {[db EXCEPT ![r] = "pending"] : r \in {r \in Rows : db[r] = "none"}}
          [] Op(c) = "triage" -> {IF now = "pending" THEN to("in_progress") ELSE db}
          [] Op(c) = "status" -> {to(c.req[3])}
          [] Op(c) = "order" -> {IF now \in {"pending", "in_progress"} THEN to("scheduled") ELSE db}
          [] Op(c) \in {"confirm", "reopen"} -> IF now \in {"resolved", "confirmed"} THEN {to(c.req[3])} ELSE {}
          [] OTHER -> {db}

Serve == ServeAny(Effects)

\* The pages are left and visited through the list, its rows and their links.
Visit(at) ==
    /\ MayCall
    /\ At(List) => at = List \/ Visible(at)
    /\ ~At(List) => at \in {List, ui.at}
    /\ ui' = InitialUi(ui.role, at)
    /\ calls' = Ask(Unmounted(calls), FirstKey(at), "load")
    /\ UNCHANGED db

Deliver ==
    \/ MeLoaded \/ ComplaintsLoaded \/ PhotoUploaded \/ ComplaintCreated
    \/ ComplaintLoaded \/ Posted

User ==
    \/ \E at \in Rows \union {List} : Visit(at)
    \/ \E s \in {"all", "pending"} : SetStatusFilter(s)
    \/ \E chosen \in BOOLEAN : ChoosePhoto(chosen)
    \/ SubmitComplaint
    \/ OpenTriage \/ TriageComplaint \/ AddComment \/ ApplyAI
    \/ \E s \in {"resolved", "in_progress"} : UpdateStatus(s)
    \/ CreateWorkOrder \/ CompleteWorkOrder
    \/ \E m \in {"confirm", "reopen"} : OpenResolution(m)
    \/ ConfirmResolution \/ Reopen \/ CloseComplaintModal

Next == Step(User, Serve, Deliver, {IF At(List) THEN <<"list">> ELSE <<"complaint", ui.at>>}, {"create", "me"} \union Sections \union {"status", "completed"})
Spec == Init /\ [][Next]_pageVars

\* The page shows the complaints, or the complaint, the server has.
Current == IF At(List) THEN ui.list = Listed(db) ELSE ui.held = db[ui.at]
=============================================================================
