----------------------------- MODULE RulesPage -----------------------------
(***************************************************************************)
(* The house rules page: the published version and the tenant's consent to *)
(* it, the editor of the next version, its publication, the history of     *)
(* versions and the audit of consents.  The content of a version is the    *)
(* number of edits it was made by.                                         *)
(***************************************************************************)
EXTENDS WebPage

\* text is what the editor holds, 0 while it has no items.
InitialUi(role) ==
    [role |-> role, wait |-> {"load"}, error |-> FALSE, open |-> {}, active |-> None,
     acked |-> FALSE, consent |-> FALSE, text |-> 0, versions |-> FALSE, inspect |-> None]

CanWrite == ui.role = "manager"

\* The server keeps the published version (its number and its content), the
\* content of the draft, which has the next number, and the last version this
\* tenant consented to.
Init ==
    /\ \E role \in {"tenant", "manager", "viewer"} : ui = InitialUi(role)
    /\ calls = Ask({}, <<"active">>, "load")
    /\ db \in [active : {[number |-> 1, text |-> 1]}, draft : {None, 1}, acked : {0}]
    /\ clicks = 0 /\ clean = TRUE

-----------------------------------------------------------------------------
(* The published version                                                   *)

\* While it is loaded the page is a skeleton, whatever was open on it.
Visible == ~Loading
Page == Visible /\ Uncovered

\* The handlers of the editor go on until the version is loaded again.
ActiveLoaded ==
    \E c \in Answered({"active"}) :
        Uses(c, IF c.ans = Failed THEN ui
                ELSE [ui EXCEPT !.active = c.ans.db.active.number,
                                !.acked = c.ans.db.acked = c.ans.db.active.number])

Reload(u, c) ==
    /\ ui' = Raise(u, "load")
    /\ calls' = AskFor(calls \ {c}, <<"active">>, {"load"} \union (c.for \ {"chain"}), None)
    /\ UNCHANGED db

CheckConsent ==
    /\ Page /\ ui.role = "tenant" /\ ui.active # None /\ ~ui.acked
    /\ Show([ui EXCEPT !.consent = ~@])

Acknowledge ==
    /\ Page /\ ui.role = "tenant" /\ ui.active # None /\ ~ui.acked /\ ui.consent
    /\ Submit("ack", <<"ack", ui.active>>, None)

Acknowledged ==
    \E c \in Answered({"ack"}) :
        \/ c.ans = Failed /\ Uses(c, ui)
        \/ c.ans # Failed /\ Reload([ui EXCEPT !.consent = FALSE], c)

-----------------------------------------------------------------------------
(* The editor                                                              *)

\* The button lowers the flag of a save that may still be out.
OpenDraftEditor ==
    /\ MayCall /\ Page /\ CanWrite
    /\ ui' = [ui EXCEPT !.wait = @ \ {"save"}, !.error = FALSE]
    /\ calls' = Ask(calls, <<"versions">>, "draft")
    /\ UNCHANGED db

\* The draft if there is one, else the published version; if the lists cannot
\* be had, whatever the editor held before.
Edits(u, text) == [u EXCEPT !.text = text, !.open = @ \union {"draft"}]

VersionsLoaded ==
    \E c \in Answered({"versions"}) :
        LET listed == [ui EXCEPT !.versions = @ \/ ("history" \in c.for /\ c.ans # Failed)]
            opens == "draft" \in c.for
        IN  \/ ~opens /\ Uses(c, listed)
            \/ opens /\ c.ans = Failed /\ Uses(c, Edits(listed, ui.text))
            \/ /\ opens /\ c.ans # Failed /\ c.ans.db.draft = None
               /\ Uses(c, Edits(listed, IF ui.active = None THEN 0 ELSE 1))
            \/ /\ opens /\ c.ans # Failed /\ c.ans.db.draft # None
               /\ ui' = Lower(listed, c)
               /\ calls' = Ask(calls \ {c}, <<"version">>, "draft")
               /\ UNCHANGED db

\* A version's details are asked for by the editor and by the history.
VersionLoaded ==
    \E c \in Answered({"version"}) :
        LET came == c.ans # Failed
            inspected == IF "inspect" \in c.for /\ came
                         THEN [ui EXCEPT !.inspect = 1, !.open = @ \union {"inspect"}] ELSE ui
        IN  Uses(c, IF "draft" \notin c.for THEN inspected
                    ELSE Edits(inspected, IF ~came THEN ui.text
                                          ELSE IF c.ans.db.draft = None THEN c.ans.db.active.text
                                          ELSE c.ans.db.draft))

Editing == Visible /\ "draft" \in ui.open

EditItems == Editing /\ ui.text < 2 /\ Show([ui EXCEPT !.text = @ + 1])

LoadFromTemplate ==
    /\ MayCall /\ Editing
    /\ calls' = Ask(calls, <<"templates">>, "template")
    /\ UNCHANGED <<ui, db>>

TemplatesLoaded ==
    \E c \in Answered({"templates"}) :
        Fails(c) \/ (c.ans # Failed /\ Uses(c, [ui EXCEPT !.text = 1, !.error = FALSE]))

SaveDraft == Editing /\ ui.text # 0 /\ Submit("save", <<"save", ui.text>>, None)

DraftSaved ==
    \E c \in Answered({"save"}) :
        Fails(c) \/ (c.ans # Failed /\ Reload([ui EXCEPT !.open = @ \ {"draft"}], c))

-----------------------------------------------------------------------------
(* Publication: the draft is saved first and published then                *)

OpenPublish == Editing /\ Show([ui EXCEPT !.open = @ \union {"publish"}, !.error = FALSE])

ExecutePublish ==
    /\ MayCall /\ Visible /\ "publish" \in ui.open /\ "publish" \notin ui.wait
    /\ ui' = [Raise(ui, "publish") EXCEPT !.error = FALSE]
    /\ calls' = Send(calls, <<"presave", ui.text>>, {"publish", "chain"}, None)
    /\ UNCHANGED db

DraftPresaved ==
    \E c \in Answered({"presave"}) :
        \/ Fails(c)
        \/ /\ c.ans # Failed
           /\ calls' = Send(calls \ {c}, <<"publish", c.ans.db.active.number + 1>>, c.for \ {"chain"}, None)
           /\ UNCHANGED <<ui, db>>

Published ==
    \E c \in Answered({"publish"}) :
        Fails(c) \/ (c.ans # Failed /\ Reload([ui EXCEPT !.open = @ \ {"draft", "publish"}], c))

-----------------------------------------------------------------------------
(* The history of versions and the audit of consents                       *)

OpenHistory == Page /\ CanWrite /\ Load([ui EXCEPT !.open = {"history"}], <<"versions">>, "history")

InspectVersion ==
    /\ MayCall /\ Visible /\ "history" \in ui.open /\ ui.versions
    /\ calls' = Ask(calls, <<"version">>, "inspect")
    /\ UNCHANGED <<ui, db>>

OpenAudit ==
    /\ Visible /\ ui.active # None
    /\ CanWrite /\ ui.open \in {{}, {"history"}}
    /\ Load([ui EXCEPT !.open = {"audit"}], <<"acks">>, "audit")

AuditLoaded == \E c \in Answered({"acks"}) : Uses(c, ui)

-----------------------------------------------------------------------------

\* External to the page: what the server makes of a request.  A publication
\* takes the draft as it is then; a draft without items is refused.
Effects(c) ==
    CASE Op(c) = "ack" -> IF c.req[2] = db.active.number THEN {[db EXCEPT !.acked = c.req[2]]} ELSE {}
      [] Op(c) \in {"save", "presave"} -> {[db EXCEPT !.draft = c.req[2]]}
      [] Op(c) = "publish" ->
            IF db.draft \in {None, 0} \/ c.req[2] # db.active.number + 1 THEN {}
            ELSE {[db EXCEPT !.draft = None, !.active = [number |-> c.req[2], text |-> db.draft]]}
      [] OTHER -> {db}

Serve == ServeAny(Effects)

Remount ==
    /\ MayCall
    /\ ui' = InitialUi(ui.role)
    /\ calls' = Ask(Unmounted(calls), <<"active">>, "load")
    /\ UNCHANGED db

Deliver ==
    \/ ActiveLoaded \/ Acknowledged \/ VersionsLoaded \/ VersionLoaded \/ TemplatesLoaded
    \/ DraftSaved \/ DraftPresaved \/ Published \/ AuditLoaded

User ==
    \/ CheckConsent \/ Acknowledge \/ OpenDraftEditor \/ EditItems \/ LoadFromTemplate \/ SaveDraft
    \/ OpenPublish \/ ExecutePublish \/ OpenHistory \/ InspectVersion \/ OpenAudit
    \/ \E m \in {"draft", "publish", "history", "inspect", "audit"} : Visible /\ CloseModal(m)
    \/ Remount

Next == Step(User, Serve, Deliver, {<<"active">>}, {"ack", "save", "presave", "publish"})
Spec == Init /\ [][Next]_pageVars

\* What the page shows when it shows what the server has.
Current ==
    ui.active = db.active.number /\ ui.acked = (db.acked = db.active.number)
=============================================================================
