-------------------------- MODULE WebClientProofs --------------------------
(***************************************************************************)
(* Theorems about the web client, for any number of rows, requests and     *)
(* things a user does.                                                     *)
(***************************************************************************)
EXTENDS WebClient, FiniteSetTheorems, TLAPS

-----------------------------------------------------------------------------
(* The room wizard.  SubmittedIsComplete is about requests; that a request *)
(* is complete when it is sent follows from the steps the user has been    *)
(* through, WizardSteps, and from the room being a real one, which the     *)
(* requests for it say.                                                    *)

Fields == {"req", "n", "for", "ctx", "ans"}

\* What SubmittedIsComplete says of one request.
IsComplete(req) ==
    /\ req[3] # Wizard!NoStatus
    /\ req[3] = "occupied" => {2, 3} \subseteq req[4]
    /\ req[2] = None => 1 \in req[4]

WizardCall(c) ==
    /\ DOMAIN c = Fields
    /\ c.req[1] = "room" => c.req[2] \in Rows
    /\ c.req[1] = "store" /\ ~c.req[5] => IsComplete(c.req)

\* A step is reached when the sections before it were complete.
WizardSteps(u) ==
    /\ DOMAIN u = {"step", "status", "filled", "room", "wait", "error", "open"}
    /\ u.step \in 1 .. 4
    /\ u.step > 1 => u.status # Wizard!NoStatus /\ (u.room # None \/ 1 \in u.filled)
    /\ u.status = "occupied" /\ u.step > 2 => 2 \in u.filled
    /\ u.status = "occupied" /\ u.step > 3 => 3 \in u.filled

WizardInv == WizardSteps(ui) /\ \A c \in calls : WizardCall(c)

\* A wizard that starts is at its first step.
LEMMA WizardStart ==
    ASSUME NEW u, u = Wizard!InitialUi PROVE WizardSteps(u)
<1>1. u.step = 1 /\ u.status = Wizard!NoStatus /\ DOMAIN u = {"step", "status", "filled", "room", "wait", "error", "open"}
  BY DEF Wizard!InitialUi
<1>2. Wizard!NoStatus # "occupied"
  BY DEF Wizard!NoStatus
<1> QED BY <1>1, <1>2 DEF WizardSteps

\* A request that goes on its way unchanged but for who waits for it or what
\* was answered says what it said.
LEMMA WizardCallKept ==
    ASSUME NEW c, WizardCall(c), NEW v
    PROVE  WizardCall([c EXCEPT !.for = v]) /\ WizardCall([c EXCEPT !.ans = v])
           /\ WizardCall([c EXCEPT !.for = v, !.ctx = v])
BY DEF WizardCall, Fields, IsComplete

\* The server answers what it was sent.
LEMMA WizardServe ==
    ASSUME WizardInv, Wizard!Serve PROVE WizardInv'
<1>1. PICK c \in calls, a \in {"answered", "failed"} : \E d :
        /\ calls' = (calls \ {c}) \union
                      {[c EXCEPT !.ans = IF a = "failed" THEN Failed ELSE [db |-> d]]}
        /\ ui' = ui
  BY DEF Wizard!Serve, Wizard!ServeAny
<1>2. PICK v : calls' = (calls \ {c}) \union {[c EXCEPT !.ans = v]} /\ ui' = ui
  BY <1>1
<1>3. WizardCall([c EXCEPT !.ans = v])
  BY WizardCallKept DEF WizardInv
<1> QED BY <1>2, <1>3 DEF WizardInv

\* A request for a room, shared or new, leaves the others as they are.
LEMMA WizardAsks ==
    ASSUME NEW cs, \A c \in cs : WizardCall(c), NEW r \in Rows
    PROVE  \A c \in Wizard!AskFor(cs, <<"room", r>>, {"fetch"}, None) : WizardCall(c)
<1> DEFINE same == {c \in cs : c.req = <<"room", r>> /\ c.n = 0}
<1>1. CASE same = {}
  <2>1. WizardCall(Wizard!Call(<<"room", r>>, 0, {"fetch"}, None))
    BY DEF Wizard!Call, WizardCall, Fields
  <2>2. Wizard!AskFor(cs, <<"room", r>>, {"fetch"}, None)
          = cs \union {Wizard!Call(<<"room", r>>, 0, {"fetch"}, None)}
    BY <1>1 DEF Wizard!AskFor
  <2> QED BY <2>1, <2>2
<1>2. CASE same # {}
  <2> DEFINE one == CHOOSE c \in same : TRUE
             shared == [one EXCEPT !.for = @ \union {"fetch"}]
  <2>1. one \in cs
    BY <1>2
  <2>2. WizardCall([one EXCEPT !.for = one.for \union {"fetch"}, !.ctx = one.ctx])
    BY <2>1 DEF WizardCall, Fields, IsComplete
  <2>3. Wizard!AskFor(cs, <<"room", r>>, {"fetch"}, None)
          = (cs \ same) \union {[one EXCEPT !.for = one.for \union {"fetch"}, !.ctx = one.ctx]}
    BY <1>2 DEF Wizard!AskFor
  <2> QED BY <2>2, <2>3
<1> QED BY <1>1, <1>2

\* Leaving the page changes who waits, and no request.
LEMMA WizardLeft ==
    ASSUME NEW cs, \A c \in cs : WizardCall(c)
    PROVE  \A c \in Wizard!Unmounted(cs) : WizardCall(c)
BY DEF Wizard!Unmounted, WizardCall, Fields, IsComplete

\* The page is visited for a room.
LEMMA WizardVisits ==
    ASSUME NEW cs, \A c \in cs : WizardCall(c), NEW r \in Rows
    PROVE  \A c \in Wizard!AskFor(Wizard!Unmounted(cs), <<"room", r>>, {"fetch"}, None) : WizardCall(c)
BY WizardLeft, WizardAsks

\* What the user does in a step, and what a step of the user leaves behind.
LEMMA WizardEdits ==
    ASSUME WizardInv,
           \/ \E status \in {"available", "occupied"} : Wizard!ChooseStatus(status)
           \/ \E section \in 1 .. 3 : Wizard!Edit(section)
           \/ Wizard!GoNext
           \/ Wizard!GoBack
    PROVE  WizardInv'
<1>1. calls' = calls
  BY DEF Wizard!ChooseStatus, Wizard!Edit, Wizard!GoNext, Wizard!GoBack, Wizard!Show
<1>2. WizardSteps(ui)
  BY DEF WizardInv
<1>3. WizardSteps(ui')
  <2>1. CASE \E status \in {"available", "occupied"} : Wizard!ChooseStatus(status)
    <3>1. PICK status : ui.step = 1 /\ ui' = [ui EXCEPT !.status = status]
      BY <2>1 DEF Wizard!ChooseStatus, Wizard!Show
    <3> QED BY <1>2, <3>1 DEF WizardSteps
  <2>2. CASE \E section \in 1 .. 3 : Wizard!Edit(section)
    <3>1. PICK section \in 1 .. 3 : Wizard!Edit(section)
      BY <2>2
    <3> DEFINE filled == IF section \in ui.filled THEN ui.filled \ {section} ELSE ui.filled \union {section}
    <3>2. ui' = [ui EXCEPT !.filled = filled] /\ ui.step = section
      BY <3>1 DEF Wizard!Edit, Wizard!Show
    <3>3. \A k : k # section => (k \in filled <=> k \in ui.filled)
      OBVIOUS
    <3> HIDE DEF filled
    <3> QED BY <1>2, <3>2, <3>3 DEF WizardSteps
  <2>3. CASE Wizard!GoNext
    <3>1. CASE ~Wizard!ValidStep(ui.step)
      <4>1. ui' = [ui EXCEPT !.error = TRUE]
        BY <2>3, <3>1 DEF Wizard!GoNext, Wizard!Show
      <4> QED BY <1>2, <4>1 DEF WizardSteps
    <3>2. CASE Wizard!ValidStep(ui.step)
      <4> DEFINE next == IF ui.step = 1 /\ ui.status = "available" THEN Wizard!Review ELSE ui.step + 1
      <4>1. ui' = [ui EXCEPT !.step = next, !.error = FALSE] /\ ui.step < 4
        BY <2>3, <3>2 DEF Wizard!GoNext, Wizard!Show, Wizard!Review
      <4>2. ui.step = 1 => 1 \in ui.filled /\ ui.status # Wizard!NoStatus
        BY <3>2 DEF Wizard!ValidStep
      <4>3. ui.step \in {2, 3} => (ui.status = "occupied" => ui.step \in ui.filled)
        BY <3>2 DEF Wizard!ValidStep
      <4>4. next \in 1 .. 4 /\ (next > 1 /\ ui.status = "occupied" => next = ui.step + 1)
        BY <1>2, <4>1 DEF WizardSteps, Wizard!Review
      <4>5. DOMAIN ui' = DOMAIN ui /\ ui'.step = next /\ ui'.status = ui.status /\ ui'.filled = ui.filled
            /\ ui'.room = ui.room
        BY <1>2, <4>1 DEF WizardSteps
      <4> HIDE DEF next
      <4> QED BY <1>2, <4>1, <4>2, <4>3, <4>4, <4>5 DEF WizardSteps
    <3> QED BY <3>1, <3>2
  <2>4. CASE Wizard!GoBack
    <3> DEFINE back == IF ui.step = Wizard!Review /\ ui.status = "available" THEN 1 ELSE ui.step - 1
    <3>1. ui' = [ui EXCEPT !.step = back] /\ ui.step > 1
      BY <2>4 DEF Wizard!GoBack, Wizard!Show
    <3>2. back \in 1 .. 4 /\ back < ui.step
      BY <1>2, <3>1 DEF WizardSteps, Wizard!Review
    <3>3. DOMAIN ui' = DOMAIN ui /\ ui'.step = back /\ ui'.status = ui.status /\ ui'.filled = ui.filled
          /\ ui'.room = ui.room
      BY <1>2, <3>1 DEF WizardSteps
    <3> HIDE DEF back
    <3> QED BY <1>2, <3>1, <3>2, <3>3 DEF WizardSteps
  <2> QED BY <2>1, <2>2, <2>3, <2>4
<1> QED BY <1>1, <1>3 DEF WizardInv

\* The draft is saved from the first step, the room from the last.
LEMMA WizardSubmits ==
    ASSUME WizardInv, Wizard!SaveDraft \/ Wizard!SubmitRoom PROVE WizardInv'
<1> DEFINE Store(draft) == <<"store", ui.room, ui.status, ui.filled, draft>>
<1>1. PICK draft \in BOOLEAN :
        /\ \E n : calls' = calls \union {Wizard!Call(Store(draft), n, {"submit"}, None)}
        /\ ui' = [ui EXCEPT !.wait = ui.wait \union {"submit"}, !.error = FALSE]
        /\ ~draft => ui.step = 4
  BY DEF Wizard!SaveDraft, Wizard!SubmitRoom, Wizard!SubmitToServer, Wizard!Send, Wizard!Raise, Wizard!Review
<1>2. ~draft => IsComplete(Store(draft))
  BY <1>1 DEF IsComplete, WizardInv, WizardSteps
<1>3. \A n : WizardCall(Wizard!Call(Store(draft), n, {"submit"}, None))
  BY <1>2 DEF Wizard!Call, WizardCall, Fields
<1>4. WizardSteps(ui')
  BY <1>1 DEF WizardInv, WizardSteps
<1> QED BY <1>1, <1>3, <1>4 DEF WizardInv

\* The page is left and visited again.
LEMMA WizardLeaves ==
    ASSUME WizardInv, Wizard!Leave PROVE WizardInv'
<1>1. PICK room \in Rows \union {None} : Wizard!Visit(room)
  BY DEF Wizard!Leave
<1>2. WizardSteps(ui')
  BY <1>1, WizardStart DEF Wizard!Visit
<1>3. \A c \in calls' : WizardCall(c)
  <2>1. CASE room = None
    BY <1>1, <2>1, WizardLeft DEF Wizard!Visit, WizardInv
  <2>2. CASE room # None
    <3>1. \A c \in Wizard!AskFor(Wizard!Unmounted(calls), <<"room", room>>, {"fetch"}, None) : WizardCall(c)
      BY <2>2, WizardVisits DEF WizardInv
    <3>2. calls' = Wizard!AskFor(Wizard!Unmounted(calls), <<"room", room>>, {"fetch"}, None)
      BY <1>1, <2>2 DEF Wizard!Visit
    <3> QED BY <3>1, <3>2
  <2> QED BY <2>1, <2>2
<1> QED BY <1>2, <1>3 DEF WizardInv

\* The room that was asked for, or the answer to a submission.
LEMMA WizardDelivers ==
    ASSUME WizardInv, Wizard!Deliver \/ Wizard!Forget PROVE WizardInv'
<1>1. CASE Wizard!RoomFetched
  <2>1. PICK c \in calls :
          /\ c.req[1] = "room"
          /\ \/ Wizard!Uses(c, ui)
             \/ \E complete \in {{}, {1}} :
                  Wizard!Uses(c, [ui EXCEPT !.room = c.req[2], !.status = "occupied", !.step = 2,
                                            !.filled = (ui.filled \ {1}) \union complete])
    BY <1>1 DEF Wizard!RoomFetched, Wizard!Answered, Wizard!Op
  <2>2. calls' = calls \ {c}
    BY <2>1 DEF Wizard!Uses
  <2>3. CASE Wizard!Uses(c, ui)
    <3>1. ui' = [ui EXCEPT !.wait = ui.wait \ c.for]
      BY <2>3 DEF Wizard!Uses, Wizard!Lower
    <3> QED BY <2>2, <3>1 DEF WizardInv, WizardSteps
  <2>4. ASSUME NEW filled,
               Wizard!Uses(c, [ui EXCEPT !.room = c.req[2], !.status = "occupied", !.step = 2, !.filled = filled])
        PROVE  WizardSteps(ui')
    <3> DEFINE u == [ui EXCEPT !.room = c.req[2], !.status = "occupied", !.step = 2, !.filled = filled]
    <3>1. DOMAIN u = DOMAIN ui /\ u.room = c.req[2] /\ u.status = "occupied" /\ u.step = 2
      BY DEF WizardInv, WizardSteps
    <3>2. ui' = [u EXCEPT !.wait = u.wait \ c.for]
      BY <2>4 DEF Wizard!Uses, Wizard!Lower
    <3> HIDE DEF u
    <3>3. DOMAIN ui' = DOMAIN ui /\ ui'.room = c.req[2] /\ ui'.status = "occupied" /\ ui'.step = 2
      BY <3>1, <3>2 DEF WizardInv, WizardSteps
    <3>4. c.req[2] # None
      BY <2>1, WebAssumption DEF WizardInv, WizardCall
    <3>5. "occupied" # Wizard!NoStatus
      BY DEF Wizard!NoStatus
    <3> QED BY <3>3, <3>4, <3>5 DEF WizardInv, WizardSteps
  <2>5. WizardSteps(ui')
    BY <2>1, <2>3, <2>4 DEF WizardInv
  <2> QED BY <2>2, <2>5 DEF WizardInv
<1>2. CASE Wizard!Stored
  <2>1. PICK c \in calls : Wizard!Fails(c) \/ (ui' = Wizard!InitialUi /\ calls' = Wizard!Unmounted(calls \ {c}))
    BY <1>2 DEF Wizard!Stored, Wizard!Answered
  <2>2. CASE Wizard!Fails(c)
    <3>1. calls' = calls \ {c} /\ ui' = [ui EXCEPT !.wait = ui.wait \ c.for, !.error = TRUE]
      BY <2>2 DEF Wizard!Fails, Wizard!Lower
    <3> QED BY <3>1 DEF WizardInv, WizardSteps
  <2>3. CASE ui' = Wizard!InitialUi /\ calls' = Wizard!Unmounted(calls \ {c})
    BY <2>3, WizardStart, WizardLeft DEF WizardInv
  <2> QED BY <2>1, <2>2, <2>3
<1>3. CASE Wizard!Forget
  BY <1>3 DEF Wizard!Forget, WizardInv
<1> QED BY <1>1, <1>2, <1>3 DEF Wizard!Deliver

\* Every step keeps the invariant.
LEMMA WizardStep ==
    ASSUME WizardInv, Wizard!Next PROVE WizardInv'
<1>1. Wizard!User \/ Wizard!Serve \/ Wizard!Deliver \/ Wizard!Forget
  BY DEF Wizard!Next, Wizard!Step
<1>2. CASE Wizard!User
  BY <1>2, WizardEdits, WizardSubmits, WizardLeaves DEF Wizard!User
<1> QED BY <1>1, <1>2, WizardServe, WizardDelivers

\* So does the first visit, for a new room or for one in the address.
LEMMA WizardInit ==
    ASSUME Wizard!Init PROVE WizardInv
<1>1. WizardSteps(ui)
  BY WizardStart DEF Wizard!Init
<1>2. CASE calls = {}
  BY <1>1, <1>2 DEF WizardInv
<1>3. CASE \E r \in Rows : calls = Wizard!AskFor({}, <<"room", r>>, {"fetch"}, None)
  BY <1>1, <1>3, WizardAsks DEF WizardInv
<1> QED BY <1>2, <1>3 DEF Wizard!Init

\* However the user moves through the steps, fills in and clears sections, and
\* whenever the room in the address arrives, what is submitted has the
\* sections its status needs (rooms/add/page.tsx, validateStep and submitToServer).
THEOREM WizardCompletes == Spec => []SubmittedIsComplete
<1> DEFINE Inv == view = "wizard" => WizardInv
<1>1. Init => Inv
  <2>1. Init /\ view = "wizard" => Wizard!Init
    BY DEF Init
  <2> QED BY <2>1, WizardInit
<1>2. Inv /\ [Next]_vars => Inv'
  <2> SUFFICES ASSUME Inv, [Next]_vars, view' = "wizard" PROVE WizardInv'
    OBVIOUS
  <2>1. CASE UNCHANGED vars
    BY <2>1 DEF vars, pageVars, WizardInv, WizardSteps, WizardCall
  <2>2. CASE Next
    <3>1. view = "wizard" /\ Wizard!Next
      BY <2>2 DEF Next, At
    <3> QED BY <3>1, WizardStep
  <2> QED BY <2>1, <2>2
<1>3. Inv => SubmittedIsComplete
  BY DEF WizardInv, WizardCall, IsComplete, SubmittedIsComplete, Wizard!Complete, Wizard!Op
<1> QED BY <1>1, <1>2, <1>3, PTL DEF Spec

-----------------------------------------------------------------------------
(* The inbox and the bell.  What a copy shows as read was read on the      *)
(* server when an answer said so, and the server never unreads: ReadIsRead *)
(* needs that of every answer that is still on its way, MailCall.  What    *)
(* comes in meanwhile is late, and not unread, where the answer to a       *)
(* mark-all has yet to be used.                                            *)

\* What came in, and is not unread.
Settled(status) == status \notin {"new", "unread"}

\* Nothing that was read, or gone, in d is unread in e, and nothing goes back
\* to before it came in.
Later(d, e) == \A r \in Rows : (Settled(d[r]) => Settled(e[r])) /\ (d[r] # "new" => e[r] # "new")

\* No more is unread in e than in d.
NoneIn(d, e) == \A r \in Rows : d[r] # "unread" => e[r] # "unread"

Honest(list, d) ==
    /\ DOMAIN list \subseteq Rows
    /\ \A r \in DOMAIN list : d[r] # "new" /\ (list[r] = "read" => Settled(d[r]))

MailCall(c, d) ==
    /\ DOMAIN c = Fields
    /\ c.req[1] \in {"read", "delete"} => c.req[2] \in Rows
    /\ c.ans # None /\ c.ans # Failed =>
        /\ Later(c.ans.db, d)
        /\ c.req[1] = "read" => Settled(c.ans.db[c.req[2]])
        /\ c.req[1] = "all" => \A r \in Rows : d[r] # "unread"

MailUi(u, d) ==
    /\ DOMAIN u = {"at", "inbox", "only", "bell", "wait", "error", "open"}
    /\ DOMAIN u.inbox = {"list", "count"} /\ DOMAIN u.bell = {"list", "count"}
    /\ Honest(u.inbox.list, d) /\ Honest(u.bell.list, d)

MailInv ==
    /\ DOMAIN db = Rows
    /\ MailUi(ui, db)
    /\ \A c \in calls : MailCall(c, db)

\* What was honest stays honest while the server only moves forward.
LEMMA MailLater ==
    ASSUME NEW d, NEW e, Later(d, e)
    PROVE  /\ \A u : MailUi(u, d) => MailUi(u, e)
           /\ \A c : MailCall(c, d) /\ (NoneIn(d, e) \/ c.req[1] # "all" \/ c.ans \in {None, Failed}) => MailCall(c, e)
<1>1. \A list : Honest(list, d) => Honest(list, e)
  BY DEF Later, Honest
<1>2. \A f : Later(f, d) => Later(f, e)
  BY DEF Later
<1> QED BY <1>1, <1>2 DEF MailUi, MailCall, NoneIn

\* Who waits for a request, and with what, is no matter.
LEMMA MailCallKept ==
    ASSUME NEW c, NEW d, MailCall(c, d), NEW v, NEW w
    PROVE  MailCall([c EXCEPT !.for = v, !.ctx = w], d)
<1> DEFINE e == [c EXCEPT !.for = v, !.ctx = w]
<1>1. DOMAIN e = Fields /\ e.req = c.req /\ e.ans = c.ans
  BY DEF MailCall, Fields
<1> HIDE DEF e
<1>2. MailCall(e, d)
  BY <1>1 DEF MailCall
<1> QED BY <1>2 DEF e

\* A request that is added, or shared, has no answer that was not there.
LEMMA MailAsks ==
    ASSUME NEW cs, NEW d, \A c \in cs : MailCall(c, d), NEW req, req[1] \notin {"read", "delete"}, NEW handler
    PROVE  \A c \in Notifications!Ask(cs, req, handler) : MailCall(c, d)
<1> DEFINE same == {c \in cs : c.req = req /\ c.n = 0}
<1>1. CASE same = {}
  <2>1. MailCall(Notifications!Call(req, 0, {handler}, None), d)
    BY DEF Notifications!Call, MailCall, Fields
  <2>2. Notifications!Ask(cs, req, handler) = cs \union {Notifications!Call(req, 0, {handler}, None)}
    BY <1>1 DEF Notifications!Ask, Notifications!AskFor
  <2> QED BY <2>1, <2>2
<1>2. CASE same # {}
  <2> DEFINE one == CHOOSE c \in same : TRUE
  <2>1. one \in cs
    BY <1>2
  <2>2. MailCall([one EXCEPT !.for = one.for \union {handler}, !.ctx = one.ctx], d)
    BY <2>1, MailCallKept
  <2>3. Notifications!Ask(cs, req, handler)
          = (cs \ same) \union {[one EXCEPT !.for = one.for \union {handler}, !.ctx = one.ctx]}
    BY <1>2 DEF Notifications!Ask, Notifications!AskFor
  <2> QED BY <2>2, <2>3
<1> QED BY <1>1, <1>2

\* A button of the inbox or of the bell sends its request.
LEMMA MailPress ==
    ASSUME MailInv, NEW req, req[1] \in {"read", "delete"} => req[2] \in Rows, NEW handler,
           Notifications!Press(req, handler)
    PROVE  MailInv'
<1>1. PICK n : calls' = calls \union {Notifications!Call(req, n, {handler}, None)}
  BY DEF Notifications!Press, Notifications!Send
<1>2. MailCall(Notifications!Call(req, n, {handler}, None), db)
  BY DEF Notifications!Call, MailCall, Fields
<1>3. ui' = ui /\ db' = db
  BY DEF Notifications!Press
<1> QED BY <1>1, <1>2, <1>3 DEF MailInv

\* The server reads, deletes and answers.
LEMMA MailServed ==
    ASSUME MailInv, Notifications!ServeAny(Notifications!Effects) PROVE MailInv'
<1>0. PICK c \in calls, a \in {"answered", "failed"} : \E d :
        /\ d \in Notifications!Effects(c) \union {db}
        /\ a = "answered" => d \in Notifications!Effects(c)
        /\ db' = d
        /\ calls' = (calls \ {c}) \union
                      {[c EXCEPT !.ans = IF a = "failed" THEN Failed ELSE [db |-> d]]}
        /\ ui' = ui
  BY DEF Notifications!ServeAny
<1>1. PICK d :
        /\ d \in Notifications!Effects(c) \union {db}
        /\ a = "answered" => d \in Notifications!Effects(c)
        /\ db' = d
        /\ calls' = (calls \ {c}) \union
                      {[c EXCEPT !.ans = IF a = "failed" THEN Failed ELSE [db |-> d]]}
        /\ ui' = ui
  BY <1>0
<1>2. MailCall(c, db) /\ DOMAIN db = Rows
  BY DEF MailInv
<1>3. ASSUME d \in Notifications!Effects(c)
      PROVE  /\ DOMAIN d = Rows /\ Later(db, d) /\ NoneIn(db, d)
             /\ c.req[1] = "read" => Settled(d[c.req[2]])
             /\ c.req[1] = "all" => \A r \in Rows : d[r] # "unread"
  <2>1. CASE c.req[1] = "read"
    <3>1. d = [db EXCEPT ![c.req[2]] = "read"]
      BY <1>3, <2>1 DEF Notifications!Effects, Notifications!Op
    <3> QED BY <1>2, <2>1, <3>1 DEF Later, NoneIn, Settled, MailCall
  <2>2. CASE c.req[1] = "all"
    <3>1. d = [r \in Rows |-> IF db[r] \in {"unread", "late"} THEN "read" ELSE db[r]]
      BY <1>3, <2>2 DEF Notifications!Effects, Notifications!Op, Notifications!IsUnread
    <3> QED BY <2>2, <3>1 DEF Later, NoneIn, Settled
  <2>3. CASE c.req[1] = "delete"
    <3>1. d = [db EXCEPT ![c.req[2]] = "none"]
      BY <1>3, <2>3 DEF Notifications!Effects, Notifications!Op
    <3> QED BY <1>2, <2>3, <3>1 DEF Later, NoneIn, Settled, MailCall
  <2>4. CASE c.req[1] \notin {"read", "all", "delete"}
    <3>1. d = db
      BY <1>3, <2>4 DEF Notifications!Effects, Notifications!Op
    <3> QED BY <1>2, <2>4, <3>1 DEF Later, NoneIn
  <2> QED BY <2>1, <2>2, <2>3, <2>4
<1>4. DOMAIN db' = Rows /\ Later(db, db') /\ NoneIn(db, db')
  BY <1>1, <1>2, <1>3 DEF Later, NoneIn
<1>5. \A b \in calls : MailCall(b, db')
  BY <1>4, MailLater DEF MailInv
<1>6. MailUi(ui', db')
  BY <1>1, <1>4, MailLater DEF MailInv
<1>7. MailCall([c EXCEPT !.ans = IF a = "failed" THEN Failed ELSE [db |-> d]], db')
  <2>1. CASE a = "failed"
    BY <2>1, <1>5 DEF MailCall, Fields
  <2>2. CASE a = "answered"
    <3> DEFINE answered == [c EXCEPT !.ans = [db |-> d]]
    <3>1. DOMAIN answered = Fields /\ answered.req = c.req /\ answered.ans.db = d
      BY <1>2 DEF MailCall, Fields
    <3>2. Later(d, db')
      BY <1>1 DEF Later
    <3>3. MailCall(answered, db')
      BY <1>1, <1>2, <1>3, <2>2, <3>1, <3>2 DEF MailCall
    <3> QED BY <2>2, <3>3
  <2> QED BY <2>1, <2>2
<1> QED BY <1>1, <1>4, <1>5, <1>6, <1>7 DEF MailInv

\* A notification comes in, late if the answer to a mark-all is out.
LEMMA MailArrives ==
    ASSUME MailInv, Notifications!Arrive PROVE MailInv'
<1>1. PICK r \in Rows :
        /\ db[r] = "new"
        /\ db' = [db EXCEPT ![r] = IF Notifications!MarkingAll THEN "late" ELSE "unread"]
        /\ ui' = ui /\ calls' = calls
  BY DEF Notifications!Arrive
<1>2. DOMAIN db' = Rows /\ Later(db, db')
  BY <1>1 DEF Later, Settled, MailInv
<1>3. MailUi(ui', db')
  BY <1>1, <1>2, MailLater DEF MailInv
<1>4. CASE Notifications!MarkingAll
  <2>1. NoneIn(db, db')
    BY <1>1, <1>4 DEF NoneIn, MailInv
  <2> QED BY <1>1, <1>2, <1>3, <2>1, MailLater DEF MailInv
<1>5. CASE ~Notifications!MarkingAll
  <2>1. \A c \in calls : c.req[1] # "all" \/ c.ans \in {None, Failed}
    BY <1>5 DEF Notifications!MarkingAll, Notifications!Op
  <2> QED BY <1>1, <1>2, <1>3, <2>1, MailLater DEF MailInv
<1> QED BY <1>4, <1>5

\* Either is a step of the server.
LEMMA MailServe ==
    ASSUME MailInv, Notifications!Serve PROVE MailInv'
BY MailServed, MailArrives DEF Notifications!Serve

\* What a page that is left, or a bell that leads elsewhere, does to requests.
LEMMA MailOrphaned ==
    ASSUME NEW cs, NEW d, \A c \in cs : MailCall(c, d), NEW handlers
    PROVE  \A c \in Notifications!Orphaned(cs, handlers) : MailCall(c, d)
BY DEF Notifications!Orphaned, MailCall, Fields

\* A step that changes neither the copies nor the server's rows, and sends
\* nothing but a read.
LEMMA MailShows ==
    ASSUME MailInv, db' = db,
           DOMAIN ui' = DOMAIN ui, ui'.inbox = ui.inbox, ui'.bell = ui.bell,
           \/ calls' \subseteq calls
           \/ \E req, handler : req[1] \notin {"read", "delete"} /\ calls' = Notifications!Ask(calls, req, handler)
    PROVE  MailInv'
<1>1. \A c \in calls' : MailCall(c, db)
  BY MailAsks DEF MailInv
<1> QED BY <1>1 DEF MailInv, MailUi

\* The user of the inbox, of the bell and of the bar.
LEMMA MailUser ==
    ASSUME MailInv,
           \/ Notifications!Reload
           \/ \E only \in BOOLEAN : Notifications!SetUnreadOnly(only)
           \/ \E r \in Rows : Notifications!MarkRead(r) \/ Notifications!Delete(r) \/ Notifications!DeleteFromBell(r)
           \/ Notifications!MarkAllRead \/ Notifications!MarkAllFromBell
           \/ Notifications!RefreshUnread \/ Notifications!OpenBell \/ Notifications!CloseBell
           \/ Notifications!VisitInbox
    PROVE  MailInv'
<1>0. DOMAIN ui = {"at", "inbox", "only", "bell", "wait", "error", "open"}
  BY DEF MailInv, MailUi
<1>1. CASE Notifications!Reload
  <2>1. ui' = [ui EXCEPT !.wait = ui.wait \union {"load"}] /\ db' = db
        /\ calls' = Notifications!Ask(calls, <<"inbox", ui.only>>, "load")
    BY <1>1 DEF Notifications!Reload, Notifications!Load, Notifications!Raise
  <2> QED BY <1>0, <2>1, MailShows
<1>2. CASE \E only \in BOOLEAN : Notifications!SetUnreadOnly(only)
  <2>1. PICK only \in BOOLEAN : Notifications!SetUnreadOnly(only)
    BY <1>2
  <2> DEFINE u == [ui EXCEPT !.only = only]
  <2>2. ui' = [u EXCEPT !.wait = u.wait \union {"load"}] /\ db' = db
        /\ calls' = Notifications!Ask(calls, <<"inbox", only>>, "load")
    BY <2>1 DEF Notifications!SetUnreadOnly, Notifications!Load, Notifications!Raise
  <2> QED BY <1>0, <2>2, MailShows
<1>3. CASE \E r \in Rows : Notifications!MarkRead(r) \/ Notifications!Delete(r) \/ Notifications!DeleteFromBell(r)
  <2>1. PICK r \in Rows : \E op \in {"read", "delete"} : \E handler : Notifications!Press(<<op, r>>, handler)
    BY <1>3 DEF Notifications!MarkRead, Notifications!Delete, Notifications!DeleteFromBell
  <2> QED BY <2>1, MailPress
<1>4. CASE Notifications!MarkAllRead \/ Notifications!MarkAllFromBell
  <2>1. PICK handler : Notifications!Press(<<"all">>, handler)
    BY <1>4 DEF Notifications!MarkAllRead, Notifications!MarkAllFromBell
  <2> QED BY <2>1, MailPress
<1>5. CASE Notifications!RefreshUnread
  <2>1. ui' = ui /\ db' = db /\ calls' = Notifications!Ask(calls, <<"count">>, "badge")
    BY <1>5 DEF Notifications!RefreshUnread
  <2> QED BY <2>1, MailShows
<1>6. CASE Notifications!OpenBell
  <2> DEFINE u == [ui EXCEPT !.open = {"bell"}]
  <2>1. ui' = [u EXCEPT !.wait = u.wait \union {"recent"}] /\ db' = db
        /\ calls' = Notifications!Ask(calls, <<"recent">>, "recent")
    BY <1>6 DEF Notifications!OpenBell, Notifications!Load, Notifications!Raise
  <2> QED BY <1>0, <2>1, MailShows
<1>7. CASE Notifications!CloseBell
  <2>1. ui' = [ui EXCEPT !.open = ui.open \ {"bell"}] /\ db' = db /\ calls' = calls
    BY <1>7 DEF Notifications!CloseBell, Notifications!CloseModal, Notifications!Show
  <2> QED BY <1>0, <2>1, MailShows
<1>8. CASE Notifications!VisitInbox
  <2> DEFINE u == [ui EXCEPT !.at = "inbox"]
  <2>1. ui' = [u EXCEPT !.wait = u.wait \union {"load"}] /\ db' = db
        /\ calls' = Notifications!Ask(calls, <<"inbox", FALSE>>, "load")
    BY <1>8 DEF Notifications!VisitInbox, Notifications!Load, Notifications!Raise
  <2> QED BY <1>0, <2>1, MailShows
<1> QED BY <1>1, <1>2, <1>3, <1>4, <1>5, <1>6, <1>7, <1>8

\* What an answer shows as read was read when it was sent, and still is.
LEMMA MailLists ==
    ASSUME MailInv, NEW c \in calls, c.ans # None, c.ans # Failed
    PROVE  /\ \A only : Honest(Notifications!Listed(c.ans.db, only), db)
           /\ c.req[1] = "read" => Settled(db[c.req[2]])
           /\ c.req[1] = "all" => \A r \in Rows : db[r] # "unread"
<1>1. MailCall(c, db)
  BY DEF MailInv
<1>2. Later(c.ans.db, db)
  BY <1>1 DEF MailCall
<1>3. ASSUME NEW only PROVE Honest(Notifications!Listed(c.ans.db, only), db)
  <2>1. ASSUME NEW r \in DOMAIN Notifications!Listed(c.ans.db, only)
        PROVE  /\ r \in Rows /\ c.ans.db[r] # "new"
               /\ Notifications!Listed(c.ans.db, only)[r] = "read" => Settled(c.ans.db[r])
    BY DEF Notifications!Listed, Notifications!IsUnread, Settled
  <2> QED BY <1>2, <2>1 DEF Honest, Later
<1> QED BY <1>1, <1>2, <1>3 DEF MailCall, Later

\* A change made to a copy after its answer keeps the copy honest.
LEMMA MailCopies ==
    ASSUME NEW d, NEW copy, DOMAIN copy = {"list", "count"}, Honest(copy.list, d)
    PROVE  /\ \A r : Settled(d[r]) =>
                 /\ DOMAIN Notifications!ReadOne(copy, r) = {"list", "count"}
                 /\ Honest(Notifications!ReadOne(copy, r).list, d)
           /\ (\A r \in Rows : d[r] # "unread") =>
                 /\ DOMAIN Notifications!ReadAll(copy) = {"list", "count"}
                 /\ Honest(Notifications!ReadAll(copy).list, d)
           /\ \A r : DOMAIN Notifications!DropOne(copy, r) = {"list", "count"}
                     /\ Honest(Notifications!DropOne(copy, r).list, d)
<1>1. ASSUME NEW r, Settled(d[r])
      PROVE  /\ DOMAIN Notifications!ReadOne(copy, r) = {"list", "count"}
             /\ Honest(Notifications!ReadOne(copy, r).list, d)
  BY <1>1 DEF Notifications!ReadOne, Honest
<1>2. ASSUME \A r \in Rows : d[r] # "unread"
      PROVE  /\ DOMAIN Notifications!ReadAll(copy) = {"list", "count"}
             /\ Honest(Notifications!ReadAll(copy).list, d)
  BY <1>2 DEF Notifications!ReadAll, Honest, Settled
<1>3. ASSUME NEW r
      PROVE  /\ DOMAIN Notifications!DropOne(copy, r) = {"list", "count"}
             /\ Honest(Notifications!DropOne(copy, r).list, d)
  <2> DEFINE rest == [q \in DOMAIN copy.list \ {r} |-> copy.list[q]]
             dropped == [copy EXCEPT !.list = rest]
  <2>1. Honest(rest, d)
    BY DEF Honest
  <2> HIDE DEF rest
  <2>2. DOMAIN dropped = {"list", "count"} /\ dropped.list = rest
    OBVIOUS
  <2>3. Notifications!DropOne(copy, r) = dropped
    BY DEF Notifications!DropOne, rest
  <2> HIDE DEF dropped
  <2> QED BY <2>1, <2>2, <2>3
<1> QED BY <1>1, <1>2, <1>3

\* A step that leaves the server's rows and takes an answer away.
LEMMA MailUses ==
    ASSUME MailInv, NEW u, MailUi(u, db), NEW c, Notifications!Uses(c, u)
    PROVE  MailInv'
<1>1. ui' = [u EXCEPT !.wait = u.wait \ c.for] /\ calls' = calls \ {c} /\ db' = db
  BY DEF Notifications!Uses, Notifications!Lower
<1>2. DOMAIN ui' = DOMAIN u /\ ui'.inbox = u.inbox /\ ui'.bell = u.bell
  BY <1>1 DEF MailUi
<1> QED BY <1>1, <1>2 DEF MailInv, MailUi

\* An item of the bell that is followed empties the inbox at most.
LEMMA MailFollows ==
    ASSUME MailInv, NEW u, MailUi(u, db), NEW cs, cs \subseteq calls, NEW r,
           Notifications!Follow(u, cs, r), db' = db
    PROVE  MailInv'
<1>1. \A c \in cs : MailCall(c, db)
  BY DEF MailInv
<1>2. CASE Notifications!Leads(r)
  <2>1. calls' = Notifications!Orphaned(cs, {"load", "inbox"})
    BY <1>2 DEF Notifications!Follow
  <2>2. \A c \in calls' : MailCall(c, db)
    BY <1>1, <2>1, MailOrphaned
  <2>3. DOMAIN ui' = DOMAIN u /\ ui'.inbox = Notifications!Copy /\ ui'.bell = u.bell
    BY <1>2 DEF Notifications!Follow, MailUi
  <2>4. DOMAIN Notifications!Copy = {"list", "count"} /\ Honest(Notifications!Copy.list, db)
    BY DEF Notifications!Copy, Honest
  <2> QED BY <2>2, <2>3, <2>4 DEF MailInv, MailUi
<1>3. CASE ~Notifications!Leads(r)
  <2>1. ui' = u /\ calls' = cs
    BY <1>3 DEF Notifications!Follow
  <2> QED BY <1>1, <2>1 DEF MailInv
<1> QED BY <1>2, <1>3

\* An item of the bell is clicked.
LEMMA MailClicks ==
    ASSUME MailInv, NEW r \in Rows, Notifications!ClickItem(r) PROVE MailInv'
<1>1. CASE Notifications!Press(<<"read", r>>, "bell")
  BY <1>1, MailPress
<1>2. CASE Notifications!Follow(ui, calls, r) /\ db' = db
  BY <1>2, MailFollows DEF MailInv
<1> QED BY <1>1, <1>2 DEF Notifications!ClickItem

\* The answers to reads: the inbox, the badge, the latest.
LEMMA MailLoads ==
    ASSUME MailInv,
           Notifications!InboxLoaded \/ Notifications!BadgeLoaded \/ Notifications!RecentLoaded
    PROVE  MailInv'
<1>0. MailUi(ui, db)
  BY DEF MailInv
<1>1. CASE Notifications!InboxLoaded
  <2> DEFINE Shown(c) == [list |-> Notifications!Listed(c.ans.db, c.req[2]), count |-> Notifications!Unread(c.ans.db)]
  <2>1. PICK c \in calls :
          /\ c.ans # None
          /\ Notifications!Uses(c, IF c.ans = Failed \/ "load" \notin c.for THEN ui ELSE [ui EXCEPT !.inbox = Shown(c)])
    BY <1>1 DEF Notifications!InboxLoaded, Notifications!Answered
  <2>2. CASE Notifications!Uses(c, ui)
    BY <1>0, <2>2, MailUses
  <2>3. CASE c.ans # Failed /\ Notifications!Uses(c, [ui EXCEPT !.inbox = Shown(c)])
    <3>1. Honest(Shown(c).list, db) /\ DOMAIN Shown(c) = {"list", "count"}
      BY <2>1, <2>3, MailLists
    <3> HIDE DEF Shown
    <3>2. MailUi([ui EXCEPT !.inbox = Shown(c)], db)
      BY <1>0, <3>1 DEF MailUi
    <3> QED BY <2>3, <3>2, MailUses
  <2> QED BY <2>1, <2>2, <2>3
<1>2. CASE Notifications!BadgeLoaded
  <2>1. PICK c \in calls :
          Notifications!Uses(c, IF c.ans = Failed THEN ui
                                ELSE [ui EXCEPT !.bell.count = Notifications!Unread(c.ans.db)])
    BY <1>2 DEF Notifications!BadgeLoaded, Notifications!Answered
  <2>2. CASE Notifications!Uses(c, ui)
    BY <1>0, <2>2, MailUses
  <2>3. ASSUME NEW n, Notifications!Uses(c, [ui EXCEPT !.bell.count = n])
        PROVE  MailInv'
    <3> DEFINE counted == [ui.bell EXCEPT !.count = n]
               u == [ui EXCEPT !.bell = counted]
    <3>1. DOMAIN counted = {"list", "count"} /\ counted.list = ui.bell.list
      BY <1>0 DEF MailUi
    <3>2. [ui EXCEPT !.bell.count = n] = u
      OBVIOUS
    <3> HIDE DEF counted
    <3>3. MailUi(u, db)
      BY <1>0, <3>1 DEF MailUi
    <3> QED BY <2>3, <3>2, <3>3, MailUses
  <2> QED BY <2>1, <2>2, <2>3
<1>3. CASE Notifications!RecentLoaded
  <2> DEFINE Shown(c) == [list |-> Notifications!Listed(c.ans.db, FALSE), count |-> Notifications!Unread(c.ans.db)]
  <2>1. PICK c \in calls :
          /\ c.ans # None
          /\ Notifications!Uses(c, IF c.ans = Failed THEN ui ELSE [ui EXCEPT !.bell = Shown(c)])
    BY <1>3 DEF Notifications!RecentLoaded, Notifications!Answered
  <2>2. CASE Notifications!Uses(c, ui)
    BY <1>0, <2>2, MailUses
  <2>3. CASE c.ans # Failed /\ Notifications!Uses(c, [ui EXCEPT !.bell = Shown(c)])
    <3>1. Honest(Shown(c).list, db) /\ DOMAIN Shown(c) = {"list", "count"}
      BY <2>1, <2>3, MailLists
    <3> HIDE DEF Shown
    <3>2. MailUi([ui EXCEPT !.bell = Shown(c)], db)
      BY <1>0, <3>1 DEF MailUi
    <3> QED BY <2>3, <3>2, MailUses
  <2> QED BY <2>1, <2>2, <2>3
<1> QED BY <1>1, <1>2, <1>3

\* The answers to changes made in the inbox.
LEMMA MailInboxChanges ==
    ASSUME MailInv, Notifications!InboxChanged PROVE MailInv'
<1>0. MailUi(ui, db)
  BY DEF MailInv
<1>1. PICK c \in calls :
        /\ c.ans # None /\ c.req[1] \in {"read", "all", "delete"}
        /\ \/ Notifications!Uses(c, ui)
           \/ c.ans # Failed /\ c.req[1] = "read" /\
                Notifications!Uses(c, [ui EXCEPT !.inbox = Notifications!ReadOne(ui.inbox, c.req[2])])
           \/ c.ans # Failed /\ c.req[1] = "all" /\
                Notifications!Uses(c, [ui EXCEPT !.inbox = Notifications!ReadAll(ui.inbox)])
           \/ c.ans # Failed /\ c.req[1] = "delete" /\
                Notifications!Uses(c, [ui EXCEPT !.inbox = Notifications!DropOne(ui.inbox, c.req[2])])
  BY DEF Notifications!InboxChanged, Notifications!Answered, Notifications!Op
<1>2. CASE Notifications!Uses(c, ui)
  BY <1>0, <1>2, MailUses
<1>3. ASSUME NEW copy, DOMAIN copy = {"list", "count"}, Honest(copy.list, db),
             Notifications!Uses(c, [ui EXCEPT !.inbox = copy])
      PROVE  MailInv'
  <2>1. MailUi([ui EXCEPT !.inbox = copy], db)
    BY <1>0, <1>3 DEF MailUi
  <2> QED BY <1>3, <2>1, MailUses
<1>4. DOMAIN ui.inbox = {"list", "count"} /\ Honest(ui.inbox.list, db)
  BY <1>0 DEF MailUi
<1>5. CASE c.ans # Failed /\ c.req[1] = "read" /\
             Notifications!Uses(c, [ui EXCEPT !.inbox = Notifications!ReadOne(ui.inbox, c.req[2])])
  BY <1>1, <1>3, <1>4, <1>5, MailLists, MailCopies
<1>6. CASE c.ans # Failed /\ c.req[1] = "all" /\
             Notifications!Uses(c, [ui EXCEPT !.inbox = Notifications!ReadAll(ui.inbox)])
  BY <1>1, <1>3, <1>4, <1>6, MailLists, MailCopies
<1>7. CASE c.ans # Failed /\ c.req[1] = "delete" /\
             Notifications!Uses(c, [ui EXCEPT !.inbox = Notifications!DropOne(ui.inbox, c.req[2])])
  BY <1>3, <1>4, <1>7, MailCopies
<1> QED BY <1>1, <1>2, <1>5, <1>6, <1>7

\* The answers to changes made in the bell.
LEMMA MailBellChanges ==
    ASSUME MailInv, Notifications!ItemRead \/ Notifications!BellChanged PROVE MailInv'
<1>0. MailUi(ui, db)
  BY DEF MailInv
<1>1. DOMAIN ui.bell = {"list", "count"} /\ Honest(ui.bell.list, db)
  BY <1>0 DEF MailUi
<1>2. ASSUME NEW copy, DOMAIN copy = {"list", "count"}, Honest(copy.list, db)
      PROVE  MailUi([ui EXCEPT !.bell = copy], db)
  BY <1>0, <1>2 DEF MailUi
<1>3. CASE Notifications!ItemRead
  <2> DEFINE Read(c) == [ui EXCEPT !.bell = Notifications!ReadOne(ui.bell, c.req[2])]
  <2>1. PICK c \in calls :
          /\ c.ans # None /\ c.req[1] = "read" /\ db' = db
          /\ Notifications!Follow(IF c.ans = Failed THEN ui ELSE Read(c), calls \ {c}, c.req[2])
    BY <1>3 DEF Notifications!ItemRead, Notifications!Answered, Notifications!Op
  <2>2. CASE c.ans = Failed
    <3>1. Notifications!Follow(ui, calls \ {c}, c.req[2])
      BY <2>1, <2>2
    <3> QED BY <1>0, <2>1, <3>1, MailFollows
  <2>3. CASE c.ans # Failed
    <3> DEFINE copy == Notifications!ReadOne(ui.bell, c.req[2])
    <3>0. Settled(db[c.req[2]])
      BY <2>1, <2>3, MailLists
    <3>1. DOMAIN copy = {"list", "count"} /\ Honest(copy.list, db)
      BY <1>1, <3>0, MailCopies
    <3>2. MailUi(Read(c), db)
      BY <1>2, <3>1
    <3>3. Notifications!Follow(Read(c), calls \ {c}, c.req[2])
      BY <2>1, <2>3
    <3> HIDE DEF Read
    <3> QED BY <2>1, <3>2, <3>3, MailFollows
  <2> QED BY <2>2, <2>3
<1>4. CASE Notifications!BellChanged
  <2> DEFINE Dropped(c) == [ui EXCEPT !.bell = Notifications!DropOne(ui.bell, c.req[2])]
  <2>1. PICK c \in calls :
          /\ c.ans # None
          /\ \/ Notifications!Uses(c, ui)
             \/ c.ans # Failed /\ c.req[1] = "all" /\
                  Notifications!Uses(c, [ui EXCEPT !.bell = Notifications!ReadAll(ui.bell)])
             \/ /\ ui' = Dropped(c) /\ db' = db
                /\ calls' = Notifications!Ask(calls \ {c}, <<"count">>, "badge")
    BY <1>4 DEF Notifications!BellChanged, Notifications!Answered, Notifications!Op
  <2>2. CASE Notifications!Uses(c, ui)
    BY <1>0, <2>2, MailUses
  <2>3. CASE c.ans # Failed /\ c.req[1] = "all" /\
               Notifications!Uses(c, [ui EXCEPT !.bell = Notifications!ReadAll(ui.bell)])
    <3>1. MailUi([ui EXCEPT !.bell = Notifications!ReadAll(ui.bell)], db)
      BY <1>1, <1>2, <2>1, <2>3, MailLists, MailCopies
    <3> QED BY <2>3, <3>1, MailUses
  <2>4. CASE /\ ui' = Dropped(c) /\ db' = db
             /\ calls' = Notifications!Ask(calls \ {c}, <<"count">>, "badge")
    <3>1. MailUi(Dropped(c), db)
      BY <1>1, <1>2, MailCopies
    <3> HIDE DEF Dropped
    <3>2. \A b \in calls \ {c} : MailCall(b, db)
      BY DEF MailInv
    <3>3. \A b \in calls' : MailCall(b, db)
      BY <2>4, <3>2, MailAsks
    <3> QED BY <2>4, <3>1, <3>3 DEF MailInv
  <2> QED BY <2>1, <2>2, <2>3, <2>4
<1> QED BY <1>3, <1>4

\* Every step keeps the invariant.
LEMMA MailStep ==
    ASSUME MailInv, Notifications!Next PROVE MailInv'
<1>1. Notifications!User \/ Notifications!Serve \/ Notifications!Deliver \/ Notifications!Forget
  BY DEF Notifications!Next, Notifications!Step
<1>2. CASE Notifications!User
  BY <1>2, MailUser, MailClicks DEF Notifications!User
<1>3. CASE Notifications!Deliver
  BY <1>3, MailLoads, MailInboxChanges, MailBellChanges DEF Notifications!Deliver
<1>4. CASE Notifications!Forget
  BY <1>4 DEF Notifications!Forget, MailInv
<1> QED BY <1>1, <1>2, <1>3, <1>4, MailServe

\* The inbox is visited for the first time: nothing is shown, nothing answered.
LEMMA MailInit ==
    ASSUME Notifications!Init PROVE MailInv
<1>1. DOMAIN db = Rows
  BY DEF Notifications!Init
<1>2. MailUi(ui, db)
  BY DEF Notifications!Init, Notifications!InitialUi, Notifications!Copy, MailUi, Honest
<1>3. \A c \in calls : MailCall(c, db)
  <2>1. \A c \in Notifications!Ask({}, <<"inbox", FALSE>>, "load") : MailCall(c, db)
    BY MailAsks
  <2>2. \A c \in Notifications!Ask(Notifications!Ask({}, <<"inbox", FALSE>>, "load"), <<"count">>, "badge") :
          MailCall(c, db)
    BY <2>1, MailAsks
  <2> QED BY <2>2 DEF Notifications!Init
<1> QED BY <1>1, <1>2, <1>3 DEF MailInv

\* Whatever is read, deleted, loaded or lost, in the inbox or in the bell and in
\* whatever order the answers arrive, neither shows as read what is unread on
\* the server, but for what came in between a mark-all and its continuation
\* (notifications/page.tsx and NotificationBell.tsx).
THEOREM MailIsHonest == Spec => []ReadIsRead
<1> DEFINE Inv == view = "notifications" => MailInv
<1>1. Init => Inv
  <2>1. Init /\ view = "notifications" => Notifications!Init
    BY DEF Init
  <2> QED BY <2>1, MailInit
<1>2. Inv /\ [Next]_vars => Inv'
  <2> SUFFICES ASSUME Inv, [Next]_vars, view' = "notifications" PROVE MailInv'
    OBVIOUS
  <2>1. CASE UNCHANGED vars
    BY <2>1 DEF vars, pageVars, MailInv
  <2>2. CASE Next
    <3>1. view = "notifications" /\ Notifications!Next
      BY <2>2 DEF Next, At
    <3> QED BY <3>1, MailStep
  <2> QED BY <2>1, <2>2
<1>3. Inv => ReadIsRead
  BY DEF MailInv, MailUi, Honest, Settled, ReadIsRead, Notifications!ReadIsRead
<1> QED BY <1>1, <1>2, <1>3, PTL DEF Spec

-----------------------------------------------------------------------------
(* Flags and requests, for every page.  A page keeps two things: each flag *)
(* that is up has a request out whose continuation lowers it, Flagged, and *)
(* a handler that sends a change has one request out, Alone.  The lemmas   *)
(* say what each kind of step does to them; the pages cite those.          *)

\* The requests that are out are finitely many, and GETs of one key are one.
Requests(cs) ==
    /\ IsFiniteSet(cs)
    /\ \A c \in cs : DOMAIN c = Fields
    /\ \A c, d \in cs : c.n = 0 /\ d.n = 0 /\ c.req = d.req => c = d

\* For each of the handlers of W there is one it waits for, and one of the kinds
\* that T names is only waited for by the handlers T says.
Pending(cs, W, T) ==
    /\ Requests(cs)
    /\ \A h \in W : \E c \in cs : h \in c.for
    /\ \A c \in cs : c.req[1] \in DOMAIN T => c.for \subseteq T[c.req[1]]

\* A request of its own has a number that no other has.
LEMMA FreshNumber ==
    ASSUME NEW cs, IsFiniteSet(cs)
    PROVE  \E n \in 1 .. Cardinality(cs) + 1 : \A c \in cs : c.n # n
<1> DEFINE k == Cardinality(cs)
<1>1. k \in Nat
  BY FS_CardinalityType
<1>2. SUFFICES ASSUME \A n \in 1 .. k + 1 : \E c \in cs : c.n = n PROVE FALSE
  OBVIOUS
<1> DEFINE f == [n \in 1 .. k + 1 |-> CHOOSE c \in cs : c.n = n]
<1>3. \A n \in 1 .. k + 1 : f[n] \in cs /\ f[n].n = n
  BY <1>2
<1>4. f \in [1 .. k + 1 -> cs]
  BY <1>3
<1>5. IsFiniteSet(1 .. k + 1) /\ Cardinality(1 .. k + 1) = k + 1
  BY <1>1, FS_Interval
<1> HIDE DEF f
<1>6. \E x, y \in 1 .. k + 1 : x # y /\ f[x] = f[y]
  <2>1. k < Cardinality(1 .. k + 1)
    BY <1>1, <1>5
  <2> QED BY <2>1, <1>4, <1>5, FS_PigeonHole
<1> QED BY <1>3, <1>6

\* What AskFor leaves: the other requests, and one that these wait for too.
LEMMA AskForIs ==
    ASSUME NEW cs, Requests(cs), NEW req, NEW F, NEW ctx
    PROVE  \E c :
             /\ DOMAIN c = Fields /\ c.req = req /\ c.n = 0
             /\ \/ /\ \A d \in cs : d.n = 0 => d.req # req
                   /\ c.for = F /\ c.ans = None
                   /\ AskFor(cs, req, F, ctx) = cs \union {c}
                \/ \E d \in cs :
                     /\ d.req = req /\ d.n = 0 /\ c.for = d.for \union F /\ c.ans = d.ans
                     /\ AskFor(cs, req, F, ctx) = (cs \ {d}) \union {c}
<1> DEFINE same == {c \in cs : c.req = req /\ c.n = 0}
           new == Call(req, 0, F, ctx)
           one == CHOOSE c \in same : TRUE
           x == IF ctx = None THEN one.ctx ELSE ctx
           both == [one EXCEPT !.for = one.for \union F, !.ctx = x]
<1>1. CASE same = {}
  <2>1. AskFor(cs, req, F, ctx) = cs \union {new}
    BY <1>1 DEF AskFor
  <2>2. DOMAIN new = Fields /\ new.for = F /\ new.req = req /\ new.n = 0 /\ new.ans = None
    BY DEF Call, Fields
  <2>3. \A d \in cs : d.n = 0 => d.req # req
    BY <1>1
  <2> HIDE DEF new, same
  <2> QED BY <2>1, <2>2, <2>3
<1>2. CASE same # {}
  <2>1. one \in same
    BY <1>2
  <2>2. AskFor(cs, req, F, ctx) = (cs \ same) \union {both}
    BY <1>2 DEF AskFor
  <2>3. DOMAIN both = Fields /\ both.for = one.for \union F /\ both.req = req /\ both.n = 0 /\ both.ans = one.ans
    BY <2>1 DEF Requests, Fields
  <2>4. same = {one}
    BY <2>1 DEF Requests
  <2>5. one \in cs /\ one.req = req /\ one.n = 0
    BY <2>1
  <2> HIDE DEF both, one, same
  <2>6. AskFor(cs, req, F, ctx) = (cs \ {one}) \union {both}
    BY <2>2, <2>4
  <2> QED BY <2>3, <2>5, <2>6
<1> QED BY <1>1, <1>2

\* Of no kind is it said who waits for it.
Anyone == [op \in {} |-> {}]

\* To ask for something adds to the flags a request lowers those of who asks.
LEMMA AskForPending ==
    ASSUME NEW cs, NEW W, NEW T, Pending(cs, W, T), NEW req, NEW H, NEW ctx,
           req[1] \in DOMAIN T => H \subseteq T[req[1]]
    PROVE  Pending(AskFor(cs, req, H, ctx), W \union H, T)
<1> DEFINE after == AskFor(cs, req, H, ctx)
<1>1. PICK c :
             /\ DOMAIN c = Fields /\ c.req = req /\ c.n = 0
             /\ \/ /\ \A d \in cs : d.n = 0 => d.req # req
                   /\ c.for = H
                   /\ after = cs \union {c}
                \/ \E d \in cs :
                     /\ d.req = req /\ d.n = 0 /\ c.for = d.for \union H
                     /\ after = (cs \ {d}) \union {c}
  BY AskForIs DEF Pending
<1> HIDE DEF after
<1>2. IsFiniteSet(cs) /\ \A d : IsFiniteSet(cs \ {d})
  BY FS_RemoveElement DEF Requests, Pending
<1>3. IsFiniteSet(after)
  <2>1. \A S : IsFiniteSet(S) => IsFiniteSet(S \union {c})
    BY FS_AddElement
  <2> QED BY <1>1, <1>2, <2>1
<1>4. \A d \in after : DOMAIN d = Fields
  BY <1>1 DEF Requests, Pending
<1>5. \A d, e \in after : d.n = 0 /\ e.n = 0 /\ d.req = e.req => d = e
  BY <1>1 DEF Requests, Pending
<1>6. \A h \in W \union H : \E d \in after : h \in d.for
  BY <1>1 DEF Pending
<1>7. \A d \in after : d.req[1] \in DOMAIN T => d.for \subseteq T[d.req[1]]
  BY <1>1 DEF Pending
<1> QED BY <1>3, <1>4, <1>5, <1>6, <1>7 DEF Requests, Pending, after

\* What Send leaves: the requests there were, and one of its own number.
LEMMA SendIs ==
    ASSUME NEW cs, Requests(cs), NEW req, NEW F, NEW ctx
    PROVE  \E c : /\ Send(cs, req, F, ctx) = cs \union {c}
                  /\ DOMAIN c = Fields /\ c.req = req /\ c.n \in Nat \ {0} /\ c.for = F
                  /\ c.ctx = ctx /\ c.ans = None
<1> DEFINE k == Cardinality(cs)
           n == CHOOSE n \in 1 .. k + 1 : \A c \in cs : c.n # n
<1>1. k \in Nat
  BY FS_CardinalityType DEF Requests
<1>2. n \in 1 .. k + 1
  BY FreshNumber DEF Requests
<1>3. Send(cs, req, F, ctx) = cs \union {Call(req, n, F, ctx)}
  BY DEF Send
<1> HIDE DEF n, k
<1>4. n \in Nat \ {0}
  BY <1>1, <1>2
<1> DEFINE c == Call(req, n, F, ctx)
<1>5. DOMAIN c = Fields /\ c.req = req /\ c.n = n /\ c.for = F /\ c.ctx = ctx /\ c.ans = None
  BY DEF Call, Fields
<1> HIDE DEF c
<1>6. Send(cs, req, F, ctx) = cs \union {c}
  BY <1>3 DEF c
<1> QED BY <1>4, <1>5, <1>6

\* To send a change does as to ask.
LEMMA SendPending ==
    ASSUME NEW cs, NEW W, NEW T, Pending(cs, W, T), NEW req, NEW H, NEW ctx,
           req[1] \in DOMAIN T => H \subseteq T[req[1]]
    PROVE  Pending(Send(cs, req, H, ctx), W \union H, T)
<1>1. PICK c : /\ Send(cs, req, H, ctx) = cs \union {c}
               /\ DOMAIN c = Fields /\ c.req = req /\ c.n \in Nat \ {0} /\ c.for = H
  BY SendIs DEF Pending
<1>2. IsFiniteSet(cs \union {c})
  BY FS_AddElement DEF Requests, Pending
<1> QED BY <1>1, <1>2 DEF Requests, Pending

\* A request that is answered leaves the flags of the others.
LEMMA TakenPending ==
    ASSUME NEW cs, NEW W, NEW T, Pending(cs, W, T), NEW c
    PROVE  Pending(cs \ {c}, W \ c.for, T)
BY FS_RemoveElement DEF Requests, Pending

\* Fewer flags are lowered by the same requests.
LEMMA FewerPending ==
    ASSUME NEW cs, NEW W, NEW T, Pending(cs, W, T), NEW V, V \subseteq W
    PROVE  Pending(cs, V, T)
BY DEF Pending

\* Whoever waits, the requests are the same.
LEMMA Rewired ==
    ASSUME NEW cs, Requests(cs), NEW f,
           \A c \in cs : /\ DOMAIN f[c] = Fields
                         /\ f[c].req = c.req /\ f[c].n = c.n
    PROVE  Requests({f[c] : c \in cs})
<1> DEFINE T == {f[c] : c \in cs}
           g == [c \in cs |-> f[c]]
<1>1. IsFiniteSet(T)
  <2>1. g \in [cs -> T] /\ \A t \in T : \E c \in cs : g[c] = t
    OBVIOUS
  <2> HIDE DEF g, T
  <2>2. g \in Surjection(cs, T)
    BY <2>1 DEF Surjection
  <2> QED BY <2>2, FS_Surjection DEF Requests
<1> QED BY <1>1 DEF Requests

\* The handlers of a modal that goes wait for nothing; the others still do.
LEMMA OrphanedPending ==
    ASSUME NEW cs, NEW W, NEW T, Pending(cs, W, T), NEW H,
           \A op \in DOMAIN T : T[op] \intersect H = {} \/ "orphan" \in T[op]
    PROVE  Pending(Orphaned(cs, H), W \ H, T)
<1> DEFINE x(c) == IF c.for \intersect H = {} THEN c.for ELSE (c.for \ H) \union {"orphan"}
           g(c) == [c EXCEPT !.for = x(c)]
           f == [c \in cs |-> g(c)]
<1>1. Orphaned(cs, H) = {f[c] : c \in cs}
  BY DEF Orphaned
<1>2. \A c \in cs : DOMAIN f[c] = Fields /\ f[c].req = c.req /\ f[c].n = c.n /\ f[c].for = x(c)
  BY DEF Requests, Fields, Pending
<1>3. \A c \in cs : c.for \ H \subseteq x(c)
  OBVIOUS
<1>4. \A c \in cs : c.req[1] \in DOMAIN T => x(c) \subseteq T[c.req[1]]
  BY DEF Pending
<1> HIDE DEF f, x
<1>5. Requests(Orphaned(cs, H))
  BY <1>1, <1>2, Rewired DEF Pending
<1> QED BY <1>1, <1>2, <1>3, <1>4, <1>5 DEF Pending

\* No handler waits once the page is left.
LEMMA UnmountedPending ==
    ASSUME NEW cs, NEW W, NEW T, Pending(cs, W, T) PROVE Pending(Unmounted(cs), {}, T)
<1> DEFINE f == [c \in cs |-> [c EXCEPT !.for = c.for \intersect {"chain"}]]
<1>1. Unmounted(cs) = {f[c] : c \in cs}
  BY DEF Unmounted
<1>2. \A c \in cs : DOMAIN f[c] = Fields /\ f[c].req = c.req /\ f[c].n = c.n /\ f[c].for \subseteq c.for
  BY DEF Requests, Fields, Pending
<1> HIDE DEF f
<1>3. Requests(Unmounted(cs))
  BY <1>1, <1>2, Rewired DEF Pending
<1> QED BY <1>1, <1>2, <1>3 DEF Pending

\* The server answers: the request is the same but for its answer.
LEMMA ServedPending ==
    ASSUME NEW cs, NEW W, NEW T, Pending(cs, W, T), NEW c \in cs, NEW a
    PROVE  Pending((cs \ {c}) \union {[c EXCEPT !.ans = a]}, W, T)
<1> DEFINE e == [c EXCEPT !.ans = a]
<1>1. DOMAIN e = Fields /\ e.req = c.req /\ e.n = c.n /\ e.for = c.for
  BY DEF Requests, Fields, Pending
<1> HIDE DEF e
<1>2. IsFiniteSet((cs \ {c}) \union {e})
  BY FS_RemoveElement, FS_AddElement DEF Requests, Pending
<1>3. Requests((cs \ {c}) \union {e})
  BY <1>1, <1>2 DEF Requests, Pending
<1> QED BY <1>1, <1>3 DEF Pending, e

\* The flags that may be up, those of F, and that each of them but for ex has
\* a request out that takes it down.
Flagged(F, ex, T) ==
    /\ "wait" \in DOMAIN ui /\ ui.wait \subseteq F
    /\ Pending(calls, ui.wait \ ex, T)

\* A step that sends nothing, takes a request that is answered, asks for
\* something or sends something, does both, or answers a request.
LEMMA StillFlagged ==
    ASSUME NEW F, NEW ex, NEW T, Flagged(F, ex, T),
           "wait" \in DOMAIN ui', ui'.wait \subseteq ui.wait, calls' = calls
    PROVE  Flagged(F, ex, T)'
BY DEF Flagged, Pending

LEMMA TakenFlagged ==
    ASSUME NEW F, NEW ex, NEW T, Flagged(F, ex, T), NEW c,
           "wait" \in DOMAIN ui', ui'.wait \subseteq ui.wait \ c.for, calls' = calls \ {c}
    PROVE  Flagged(F, ex, T)'
<1>1. Pending(calls', (ui.wait \ ex) \ c.for, T)
  BY TakenPending DEF Flagged
<1> QED BY <1>1 DEF Flagged, Pending

LEMMA AskedFlagged ==
    ASSUME NEW F, NEW ex, NEW T, Flagged(F, ex, T), NEW req, NEW H, NEW ctx,
           req[1] \in DOMAIN T => H \subseteq T[req[1]],
           "wait" \in DOMAIN ui', ui'.wait \subseteq F, ui'.wait \subseteq ui.wait \union H,
           \/ calls' = AskFor(calls, req, H, ctx)
           \/ calls' = Send(calls, req, H, ctx)
    PROVE  Flagged(F, ex, T)'
<1>1. Pending(calls', (ui.wait \ ex) \union H, T)
  BY AskForPending, SendPending DEF Flagged
<1> QED BY <1>1 DEF Flagged, Pending

LEMMA TurnedFlagged ==
    ASSUME NEW F, NEW ex, NEW T, Flagged(F, ex, T), NEW c, NEW req, NEW H, NEW ctx,
           req[1] \in DOMAIN T => H \subseteq T[req[1]],
           "wait" \in DOMAIN ui', ui'.wait \subseteq F, ui'.wait \subseteq (ui.wait \ c.for) \union H,
           \/ calls' = AskFor(calls \ {c}, req, H, ctx)
           \/ calls' = Send(calls \ {c}, req, H, ctx)
    PROVE  Flagged(F, ex, T)'
<1>1. Pending(calls \ {c}, (ui.wait \ ex) \ c.for, T)
  BY TakenPending DEF Flagged
<1>2. Pending(calls', ((ui.wait \ ex) \ c.for) \union H, T)
  BY <1>1, AskForPending, SendPending
<1> QED BY <1>2 DEF Flagged, Pending

\* Something is asked for, after whatever was done to the requests.
LEMMA AsksFlagged ==
    ASSUME NEW F, NEW ex, NEW T, NEW cs, NEW W, Pending(cs, W, T), NEW req, NEW H, NEW ctx,
           req[1] \in DOMAIN T => H \subseteq T[req[1]],
           "wait" \in DOMAIN ui', ui'.wait \subseteq F, ui'.wait \ ex \subseteq W \union H,
           calls' = AskFor(cs, req, H, ctx)
    PROVE  Flagged(F, ex, T)'
<1>1. Pending(calls', W \union H, T)
  BY AskForPending
<1> QED BY <1>1 DEF Flagged, Pending

\* Two things are asked for.
LEMMA AsksTwiceFlagged ==
    ASSUME NEW F, NEW ex, NEW T, NEW cs, NEW W, Pending(cs, W, T),
           NEW req, NEW H, NEW ctx, req[1] \in DOMAIN T => H \subseteq T[req[1]],
           NEW next, NEW G, NEW clo, next[1] \in DOMAIN T => G \subseteq T[next[1]],
           "wait" \in DOMAIN ui', ui'.wait \subseteq F, ui'.wait \ ex \subseteq (W \union H) \union G,
           calls' = AskFor(AskFor(cs, req, H, ctx), next, G, clo)
    PROVE  Flagged(F, ex, T)'
<1>1. Pending(AskFor(cs, req, H, ctx), W \union H, T)
  BY AskForPending
<1> QED BY <1>1, AsksFlagged

LEMMA TurnedTwiceFlagged ==
    ASSUME NEW F, NEW ex, NEW T, Flagged(F, ex, T), NEW c,
           NEW req, NEW H, NEW ctx, req[1] \in DOMAIN T => H \subseteq T[req[1]],
           NEW next, NEW G, NEW clo, next[1] \in DOMAIN T => G \subseteq T[next[1]],
           "wait" \in DOMAIN ui', ui'.wait \subseteq F, ui'.wait \subseteq ((ui.wait \ c.for) \union H) \union G,
           calls' = AskFor(AskFor(calls \ {c}, req, H, ctx), next, G, clo)
    PROVE  Flagged(F, ex, T)'
<1>1. Pending(calls \ {c}, (ui.wait \ ex) \ c.for, T)
  BY TakenPending DEF Flagged
<1>2. ui'.wait \ ex \subseteq (((ui.wait \ ex) \ c.for) \union H) \union G
  OBVIOUS
<1> QED BY <1>1, <1>2, AsksTwiceFlagged

\* A modal goes, and its handlers wait for nothing any more; or it goes when a
\* request is answered, and something is asked for.
LEMMA OrphanedFlagged ==
    ASSUME NEW F, NEW ex, NEW T, Flagged(F, ex, T), NEW H,
           \A op \in DOMAIN T : T[op] \intersect H = {} \/ "orphan" \in T[op],
           "wait" \in DOMAIN ui', ui'.wait \subseteq F, ui'.wait \ ex \subseteq ui.wait \ H,
           calls' = Orphaned(calls, H)
    PROVE  Flagged(F, ex, T)'
<1>1. Pending(calls', (ui.wait \ ex) \ H, T)
  BY OrphanedPending DEF Flagged
<1> QED BY <1>1 DEF Flagged, Pending

LEMMA TakenOrphanedPending ==
    ASSUME NEW F, NEW ex, NEW T, Flagged(F, ex, T), NEW c, NEW H,
           \A op \in DOMAIN T : T[op] \intersect H = {} \/ "orphan" \in T[op]
    PROVE  Pending(Orphaned(calls \ {c}, H), ((ui.wait \ ex) \ c.for) \ H, T)
<1>1. Pending(calls \ {c}, (ui.wait \ ex) \ c.for, T)
  BY TakenPending DEF Flagged
<1> QED BY <1>1, OrphanedPending

LEMMA TakenOrphanedFlagged ==
    ASSUME NEW F, NEW ex, NEW T, Flagged(F, ex, T), NEW c, NEW H,
           \A op \in DOMAIN T : T[op] \intersect H = {} \/ "orphan" \in T[op],
           "wait" \in DOMAIN ui', ui'.wait \subseteq (ui.wait \ c.for) \ H,
           calls' = Orphaned(calls \ {c}, H)
    PROVE  Flagged(F, ex, T)'
<1>1. Pending(calls', ((ui.wait \ ex) \ c.for) \ H, T)
  BY TakenOrphanedPending
<1> QED BY <1>1 DEF Flagged, Pending

LEMMA TurnedOrphanedFlagged ==
    ASSUME NEW F, NEW ex, NEW T, Flagged(F, ex, T), NEW c, NEW H,
           \A op \in DOMAIN T : T[op] \intersect H = {} \/ "orphan" \in T[op],
           NEW req, NEW G, NEW ctx, req[1] \in DOMAIN T => G \subseteq T[req[1]],
           "wait" \in DOMAIN ui', ui'.wait \subseteq F, ui'.wait \subseteq ((ui.wait \ c.for) \ H) \union G,
           calls' = AskFor(Orphaned(calls \ {c}, H), req, G, ctx)
    PROVE  Flagged(F, ex, T)'
<1>1. Pending(Orphaned(calls \ {c}, H), ((ui.wait \ ex) \ c.for) \ H, T)
  BY TakenOrphanedPending
<1>2. Pending(calls', (((ui.wait \ ex) \ c.for) \ H) \union G, T)
  BY <1>1, AskForPending
<1> QED BY <1>2 DEF Flagged, Pending

\* The server answers, and the page does not know yet.
LEMMA ServedFlagged ==
    ASSUME NEW F, NEW ex, NEW T, Flagged(F, ex, T), NEW c \in calls, NEW a,
           calls' = (calls \ {c}) \union {[c EXCEPT !.ans = a]}, ui' = ui
    PROVE  Flagged(F, ex, T)'
<1>1. Pending(calls', ui.wait \ ex, T)
  BY ServedPending DEF Flagged
<1> QED BY <1>1 DEF Flagged

\* The page is mounted again, with the flag of what it asks for first.
LEMMA MountedFlagged ==
    ASSUME NEW F, NEW ex, NEW T, Flagged(F, ex, T), NEW h \in F, "wait" \in DOMAIN ui', ui'.wait \subseteq {h},
           NEW req, req[1] \in DOMAIN T => h \in T[req[1]], NEW ctx,
           calls' = AskFor(Unmounted(calls), req, {h}, ctx)
    PROVE  Flagged(F, ex, T)'
<1>1. Pending(Unmounted(calls), {}, T)
  BY UnmountedPending DEF Flagged
<1>2. Pending(calls', {} \union {h}, T)
  BY <1>1, AskForPending
<1> QED BY <1>2 DEF Flagged, Pending

\* And it is so at the start.
LEMMA FirstFlagged ==
    ASSUME NEW F, NEW ex, NEW T, NEW h \in F, "wait" \in DOMAIN ui, ui.wait \subseteq {h},
           NEW req, req[1] \in DOMAIN T => h \in T[req[1]], NEW ctx, calls = AskFor({}, req, {h}, ctx)
    PROVE  Flagged(F, ex, T)
<1>1. Pending({}, {}, T)
  BY FS_EmptySet DEF Pending, Requests
<1>2. Pending(calls, {} \union {h}, T)
  BY <1>1, AskForPending
<1> QED BY <1>2 DEF Flagged, Pending

\* All these leave requests.
LEMMA StillRequests ==
    ASSUME NEW cs, Requests(cs)
    PROVE  /\ \A req, H, ctx : Requests(AskFor(cs, req, H, ctx)) /\ Requests(Send(cs, req, H, ctx))
           /\ \A c : Requests(cs \ {c})
           /\ \A c \in cs : \A a : Requests((cs \ {c}) \union {[c EXCEPT !.ans = a]})
           /\ Requests(Unmounted(cs))
<1> DEFINE T == [x \in {} |-> {}]
<1>1. DOMAIN T = {} /\ Pending(cs, {}, T)
  BY DEF Pending
<1> HIDE DEF T
<1>2. ASSUME NEW req, NEW H, NEW ctx
      PROVE  Requests(AskFor(cs, req, H, ctx)) /\ Requests(Send(cs, req, H, ctx))
  <2>1. req[1] \in DOMAIN T => H \subseteq T[req[1]]
    BY <1>1
  <2> QED BY <1>1, <2>1, AskForPending, SendPending DEF Pending
<1>3. ASSUME NEW c PROVE Requests(cs \ {c})
  BY <1>1, TakenPending DEF Pending
<1>4. ASSUME NEW c \in cs, NEW a PROVE Requests((cs \ {c}) \union {[c EXCEPT !.ans = a]})
  BY <1>1, ServedPending DEF Pending
<1> QED BY <1>1, <1>2, <1>3, <1>4, UnmountedPending DEF Pending

\* The handlers of A wait for one request at a time, with their flags up, and
\* every request that is no GET is for them.
AloneIn(cs, W, A) ==
    /\ \A c \in cs : c.for \intersect A \subseteq W
    /\ \A c, d \in cs : (c.for \intersect d.for) \intersect A # {} => c = d
    /\ \A c \in cs : c.n > 0 => c.for \subseteq A

\* So for the page.
Alone(A) == Requests(calls) /\ AloneIn(calls, ui.wait, A)

\* A GET may be asked for by any handler but one that waits for another.
LEMMA AskForAlone ==
    ASSUME NEW cs, Requests(cs), NEW A, NEW W, AloneIn(cs, W, A), NEW H, H \intersect A \subseteq W,
           \A d \in cs : (d.for \intersect H) \intersect A = {}, NEW req, NEW ctx
    PROVE  Requests(AskFor(cs, req, H, ctx)) /\ AloneIn(AskFor(cs, req, H, ctx), W, A)
<1> DEFINE after == AskFor(cs, req, H, ctx)
<1>1. PICK c :
             /\ DOMAIN c = Fields /\ c.req = req /\ c.n = 0
             /\ \/ /\ \A d \in cs : d.n = 0 => d.req # req
                   /\ c.for = H /\ c.ans = None
                   /\ after = cs \union {c}
                \/ \E d \in cs :
                     /\ d.req = req /\ d.n = 0 /\ c.for = d.for \union H /\ c.ans = d.ans
                     /\ after = (cs \ {d}) \union {c}
  BY AskForIs
<1>3. Requests(after)
  BY StillRequests
<1> HIDE DEF after
<1>4. \A d \in after : d.for \intersect A \subseteq W
  BY <1>1 DEF AloneIn
<1>5. \A d \in after : d.n > 0 => d.for \subseteq A
  BY <1>1 DEF AloneIn
<1>6. \A d, e \in after : (d.for \intersect e.for) \intersect A # {} => d = e
  <2>1. CASE c.for = H /\ after = cs \union {c}
    BY <2>1 DEF AloneIn
  <2>2. CASE \E b \in cs : c.for = b.for \union H /\ after = (cs \ {b}) \union {c}
    <3>1. PICK b \in cs : c.for = b.for \union H /\ after = (cs \ {b}) \union {c}
      BY <2>2
    <3>2. \A d \in cs \ {b} : (d.for \intersect c.for) \intersect A = {}
      BY <3>1 DEF AloneIn
    <3> QED BY <3>1, <3>2 DEF AloneIn
  <2> QED BY <1>1, <2>1, <2>2
<1> QED BY <1>3, <1>4, <1>5, <1>6 DEF AloneIn, after

\* The kinds of step, as above.
LEMMA StillAlone ==
    ASSUME NEW A, Alone(A), ui.wait \subseteq ui'.wait, calls' = calls PROVE Alone(A)'
BY DEF Alone, AloneIn

LEMMA TakenAlone ==
    ASSUME NEW A, Alone(A), NEW c \in calls, ui.wait \ c.for \subseteq ui'.wait, calls' = calls \ {c}
    PROVE  Alone(A)'
<1>1. Requests(calls')
  BY StillRequests DEF Alone
<1> QED BY <1>1 DEF Alone, AloneIn

LEMMA AskedAlone ==
    ASSUME NEW A, Alone(A), NEW H, H \intersect A = {}, ui.wait \subseteq ui'.wait, NEW req, NEW ctx,
           calls' = AskFor(calls, req, H, ctx)
    PROVE  Alone(A)'
<1>1. AloneIn(calls, ui'.wait, A) /\ Requests(calls)
  BY DEF Alone, AloneIn
<1>2. Requests(calls') /\ AloneIn(calls', ui'.wait, A)
  BY <1>1, AskForAlone
<1> QED BY <1>2 DEF Alone

LEMMA AsksAlone ==
    ASSUME NEW A, NEW cs, Requests(cs), NEW W, AloneIn(cs, W, A), W \subseteq ui'.wait,
           NEW H, H \intersect A = {}, NEW req, NEW ctx, calls' = AskFor(cs, req, H, ctx)
    PROVE  Alone(A)'
<1>1. AloneIn(cs, ui'.wait, A)
  BY DEF AloneIn
<1>2. Requests(calls') /\ AloneIn(calls', ui'.wait, A)
  BY <1>1, AskForAlone
<1> QED BY <1>2 DEF Alone

LEMMA AsksTwiceAlone ==
    ASSUME NEW A, NEW cs, Requests(cs), NEW W, AloneIn(cs, W, A), W \subseteq ui'.wait,
           NEW req, NEW H, H \intersect A = {}, NEW ctx, NEW next, NEW G, G \intersect A = {}, NEW clo,
           calls' = AskFor(AskFor(cs, req, H, ctx), next, G, clo)
    PROVE  Alone(A)'
<1>1. Requests(AskFor(cs, req, H, ctx)) /\ AloneIn(AskFor(cs, req, H, ctx), W, A)
  BY AskForAlone
<1> QED BY <1>1, AsksAlone

\* What is left when a request is answered.
LEMMA TakenAloneIn ==
    ASSUME NEW A, Alone(A), NEW c \in calls
    PROVE  Requests(calls \ {c}) /\ AloneIn(calls \ {c}, ui.wait \ c.for, A)
BY StillRequests DEF Alone, AloneIn

LEMMA TurnedTwiceAlone ==
    ASSUME NEW A, Alone(A), NEW c \in calls, ui.wait \ c.for \subseteq ui'.wait,
           NEW req, NEW H, H \intersect A = {}, NEW ctx, NEW next, NEW G, G \intersect A = {}, NEW clo,
           calls' = AskFor(AskFor(calls \ {c}, req, H, ctx), next, G, clo)
    PROVE  Alone(A)'
BY TakenAloneIn, AsksTwiceAlone

\* A handler whose flag is down sends a change.
LEMMA SentAlone ==
    ASSUME NEW A, Alone(A), NEW H, H \subseteq A, H \intersect ui.wait = {}, ui.wait \union H \subseteq ui'.wait,
           NEW req, NEW ctx, calls' = Send(calls, req, H, ctx)
    PROVE  Alone(A)'
<1>1. PICK c : calls' = calls \union {c} /\ c.for = H
  BY SendIs DEF Alone
<1>3. Requests(calls')
  BY StillRequests DEF Alone
<1>4. \A d \in calls : (d.for \intersect H) \intersect A = {}
  BY DEF Alone, AloneIn
<1> QED BY <1>1, <1>3, <1>4 DEF Alone, AloneIn

\* A request is answered, and what its handler waits for next takes its place.
LEMMA TurnedAlone ==
    ASSUME NEW A, Alone(A), NEW c \in calls, NEW H, H \intersect A \subseteq c.for,
           (ui.wait \ c.for) \union (H \intersect A) \subseteq ui'.wait, NEW req, NEW ctx,
           calls' = AskFor(calls \ {c}, req, H, ctx)
    PROVE  Alone(A)'
<1>1. Requests(calls \ {c})
  BY StillRequests DEF Alone
<1>2. AloneIn(calls \ {c}, ui'.wait, A) /\ \A d \in calls \ {c} : (d.for \intersect H) \intersect A = {}
  BY DEF Alone, AloneIn
<1>3. Requests(calls') /\ AloneIn(calls', ui'.wait, A)
  BY <1>1, <1>2, AskForAlone
<1> QED BY <1>3 DEF Alone

\* No handler that sends waits once the page is left.
LEMMA UnmountedAlone ==
    ASSUME NEW cs, Requests(cs), NEW A, "chain" \notin A, NEW W, AloneIn(cs, W, A), NEW V
    PROVE  /\ Requests(Unmounted(cs)) /\ AloneIn(Unmounted(cs), V, A)
           /\ \A c \in Unmounted(cs) : c.for \intersect A = {}
<1>2. Requests(Unmounted(cs))
  BY StillRequests
<1>3. \A d \in Unmounted(cs) : d.for \subseteq {"chain"} /\ (d.n > 0 => d.for = {})
  <2> TAKE d \in Unmounted(cs)
  <2>1. PICK c \in cs : d = [c EXCEPT !.for = c.for \intersect {"chain"}]
    BY DEF Unmounted
  <2>2. d.for = c.for \intersect {"chain"} /\ d.n = c.n
    BY <2>1 DEF Requests, Fields
  <2>3. c.n > 0 => c.for \subseteq A
    BY DEF AloneIn
  <2> QED BY <2>2, <2>3
<1> QED BY <1>2, <1>3 DEF AloneIn

LEMMA MountedAlone ==
    ASSUME NEW A, Alone(A), "chain" \notin A, NEW H, H \intersect A = {}, NEW req, NEW ctx,
           calls' = AskFor(Unmounted(calls), req, H, ctx)
    PROVE  Alone(A)'
<1>1. /\ Requests(Unmounted(calls)) /\ AloneIn(Unmounted(calls), ui'.wait, A)
      /\ \A c \in Unmounted(calls) : c.for \intersect A = {}
  BY UnmountedAlone DEF Alone
<1>2. Requests(calls') /\ AloneIn(calls', ui'.wait, A)
  BY <1>1, AskForAlone
<1> QED BY <1>2 DEF Alone

\* The server answers, and the page does not know yet.
LEMMA ServedAlone ==
    ASSUME NEW A, Alone(A), NEW c \in calls, NEW a,
           calls' = (calls \ {c}) \union {[c EXCEPT !.ans = a]}, ui' = ui
    PROVE  Alone(A)'
<1> DEFINE e == [c EXCEPT !.ans = a]
<1>1. e.n = c.n /\ e.for = c.for
  BY DEF Requests, Fields, Alone
<1>3. Requests(calls')
  BY StillRequests DEF Alone
<1> HIDE DEF e
<1>4. calls' = (calls \ {c}) \union {e}
  BY DEF e
<1> QED BY <1>1, <1>3, <1>4 DEF Alone, AloneIn

\* And it is so at the start.
LEMMA FirstAlone ==
    ASSUME NEW A, NEW H, H \intersect A = {}, NEW req, NEW ctx, calls = AskFor({}, req, H, ctx)
    PROVE  Alone(A)
<1>1. Requests({}) /\ AloneIn({}, ui.wait, A)
  BY FS_EmptySet DEF Requests, AloneIn
<1> QED BY <1>1, AskForAlone DEF Alone

\* It is what OneAtATime asks for.
LEMMA AloneAtATime ==
    ASSUME NEW A, Alone(A) PROVE OneAtATime
BY DEF Alone, AloneIn, OneAtATime

-----------------------------------------------------------------------------
(* The payments                                                            *)

\* What the page takes from WebPage is what the lemmas above are about.
LEMMA PaymentsShares ==
    /\ \A cs, req, H, ctx : Payments!AskFor(cs, req, H, ctx) = AskFor(cs, req, H, ctx)
    /\ \A cs, req, H, ctx : Payments!Send(cs, req, H, ctx) = Send(cs, req, H, ctx)
    /\ \A cs : Payments!Unmounted(cs) = Unmounted(cs)
<1>1. \A S : Payments!Cardinality(S) = Cardinality(S)
  BY DEF Payments!Cardinality, Cardinality
<1> QED BY <1>1 DEF Payments!AskFor, AskFor, Payments!Call, Call, Payments!Send, Send,
             Payments!Unmounted, Unmounted

\* The flags of the page.
PaymentsFlags == {"load", "report", "receipt", "submit"}

\* Who waits for a request of that kind.
PaymentsWait == [list |-> {"load"}]

\* The handlers that send a change.
PaymentsSends == {"submit"}

\* The invariant of the page.
PaymentsFlagged == Flagged(PaymentsFlags, {}, PaymentsWait) /\ Alone(PaymentsSends)

\* It holds when the page is mounted,
LEMMA PaymentsFlaggedFirst ==
    ASSUME Payments!Init PROVE PaymentsFlagged
<1>1. PICK req : calls = AskFor({}, req, {"load"}, None) /\ ui.wait = {"load"} /\ "wait" \in DOMAIN ui
  BY PaymentsShares DEF Payments!Init, Payments!InitialUi, Payments!Ask
<1> QED BY <1>1, FirstFlagged, FirstAlone DEF PaymentsFlagged, PaymentsFlags, PaymentsWait, PaymentsSends

\* whatever the user does keeps it,
LEMMA PaymentsFlaggedUser ==
    ASSUME PaymentsFlagged, Payments!User PROVE PaymentsFlagged'
<1> USE PaymentsShares DEF PaymentsFlagged
<1>w. "wait" \in DOMAIN ui /\ ui.wait \subseteq PaymentsFlags
  BY DEF Flagged
<1>1. CASE \E s \in {"any", "unpaid", "paid"} : Payments!SetFilter(s)
  <2>1. PICK req : /\ calls' = AskFor(calls, req, {"load"}, None) /\ req[1] = "list"
                   /\ "wait" \in DOMAIN ui' /\ ui'.wait = ui.wait \union {"load"}
    BY <1>w, <1>1 DEF Payments!SetFilter, Payments!ListKey, Payments!Load, Payments!Fetching, Payments!Raise, Payments!Ask
  <2> QED BY <1>w, <2>1, AskedFlagged, AskedAlone DEF PaymentsFlags, PaymentsWait, PaymentsSends
<1>2. CASE \/ \E t \in {"payments", "reconciliation"} : Payments!SetTab(t)
           \/ \E d \in {"month", "week"} : Payments!ReloadReport(d)
  <2>1. \/ calls' = calls /\ "wait" \in DOMAIN ui' /\ ui'.wait = ui.wait
        \/ \E d : /\ calls' = AskFor(calls, <<"report", d>>, {"report"}, None)
                  /\ "wait" \in DOMAIN ui' /\ ui'.wait = ui.wait \union {"report"}
    BY <1>w, <1>2 DEF Payments!SetTab, Payments!ReloadReport, Payments!Show, Payments!Load, Payments!Raise, Payments!Ask
  <2> QED BY <1>w, <2>1, StillFlagged, StillAlone, AskedFlagged, AskedAlone
          DEF PaymentsFlags, PaymentsWait, PaymentsSends
<1>3. CASE \E r \in Rows : Payments!OpenReceipt(r)
  <2>1. PICK r : /\ calls' = AskFor(calls, <<"receipt", r>>, {"receipt"}, None)
                 /\ "wait" \in DOMAIN ui' /\ ui'.wait = ui.wait \union {"receipt"}
    BY <1>w, <1>3 DEF Payments!OpenReceipt, Payments!Load, Payments!Raise, Payments!Ask
  <2> QED BY <1>w, <2>1, AskedFlagged, AskedAlone DEF PaymentsFlags, PaymentsWait, PaymentsSends
<1>4. CASE \E r \in Rows : Payments!OpenVerify(r)
  <2>1. PICK r : /\ calls' = AskFor(calls, <<"payment", r>>, {"verify"}, None)
                 /\ "wait" \in DOMAIN ui' /\ ui'.wait = ui.wait
    BY <1>w, <1>4 DEF Payments!OpenVerify, Payments!Ask
  <2> QED BY <1>w, <2>1, AskedFlagged, AskedAlone DEF PaymentsFlags, PaymentsWait, PaymentsSends
<1>5. CASE \/ \E r \in Rows : Payments!SetPage(r) \/ Payments!OpenPay(r)
           \/ Payments!OpenCreateBill
           \/ \E m \in {"verify", "pay", "receipt", "bill"} : Payments!CloseModal(m)
           \/ Payments!Incomplete({"verify", "pay", "bill"})
  <2>1. calls' = calls /\ "wait" \in DOMAIN ui' /\ ui'.wait = ui.wait
    BY <1>w, <1>5 DEF Payments!SetPage, Payments!OpenPay, Payments!OpenCreateBill, Payments!OpenModal,
         Payments!CloseModal, Payments!Incomplete, Payments!Show
  <2> QED BY <2>1, StillFlagged, StillAlone
<1>6. CASE \/ \E v \in {"paid", "rejected"} : Payments!SubmitVerify(v)
           \/ Payments!SubmitPay \/ Payments!CreateBill
  <2>1. PICK req, ctx : req[1] # "list" /\ Payments!Submit("submit", req, ctx)
    BY <1>6 DEF Payments!SubmitVerify, Payments!SubmitPay, Payments!CreateBill
  <2>2. /\ calls' = Send(calls, req, {"submit"}, ctx) /\ "submit" \notin ui.wait
        /\ "wait" \in DOMAIN ui' /\ ui'.wait = ui.wait \union {"submit"}
    BY <1>w, <2>1 DEF Payments!Submit, Payments!Raise
  <2> QED BY <1>w, <2>1, <2>2, AskedFlagged, SentAlone DEF PaymentsFlags, PaymentsWait, PaymentsSends
<1>7. CASE Payments!Remount
  <2>1. PICK req : /\ calls' = AskFor(Unmounted(calls), req, {"load"}, None) /\ req[1] = "list"
                   /\ "wait" \in DOMAIN ui' /\ ui'.wait = {"load"}
    BY <1>7 DEF Payments!Remount, Payments!InitialUi, Payments!ListKey, Payments!Ask
  <2> QED BY <2>1, MountedFlagged, MountedAlone DEF PaymentsFlags, PaymentsWait, PaymentsSends
<1> QED BY <1>1, <1>2, <1>3, <1>4, <1>5, <1>6, <1>7 DEF Payments!User

\* and so does whatever a continuation does,
LEMMA PaymentsFlaggedDelivers ==
    ASSUME PaymentsFlagged, Payments!Deliver \/ Payments!Forget PROVE PaymentsFlagged'
<1> USE PaymentsShares DEF PaymentsFlagged
<1>w. "wait" \in DOMAIN ui /\ ui.wait \subseteq PaymentsFlags
  BY DEF Flagged
<1>1. CASE Payments!PaymentsLoaded
  <2>1. PICK c \in calls :
          \/ "wait" \in DOMAIN ui' /\ ui'.wait = ui.wait \ c.for /\ calls' = calls \ {c}
          \/ /\ c.req[1] = "list"
             /\ "wait" \in DOMAIN ui' /\ ui'.wait = ui.wait
             /\ calls' = AskFor(calls \ {c}, <<"contracts">>, {"load"}, None)
    BY <1>w, <1>1 DEF Payments!PaymentsLoaded, Payments!Answered, Payments!Op, Payments!Fails, Payments!Uses,
          Payments!Lower, Payments!Ask
  <2>2. c.req[1] = "list" => c.for \subseteq {"load"}
    BY DEF Flagged, Pending, PaymentsWait
  <2> QED BY <1>w, <2>1, <2>2, TakenFlagged, TakenAlone, TurnedFlagged, TurnedAlone
          DEF PaymentsFlags, PaymentsWait, PaymentsSends
<1>2. CASE \/ Payments!ContractsLoaded \/ Payments!ReportLoaded \/ Payments!VerifyLoaded \/ Payments!ReceiptLoaded
           \/ Payments!Forget
  <2>1. PICK c \in calls : "wait" \in DOMAIN ui' /\ ui'.wait = ui.wait \ c.for /\ calls' = calls \ {c}
    BY <1>w, <1>2 DEF Payments!ContractsLoaded, Payments!ReportLoaded, Payments!VerifyLoaded, Payments!ReceiptLoaded,
         Payments!Forget, Payments!Answered, Payments!Uses, Payments!Lower
  <2> QED BY <2>1, TakenFlagged, TakenAlone
<1>3. CASE Payments!Submitted
  <2>1. PICK c \in calls :
          \/ "wait" \in DOMAIN ui' /\ ui'.wait = ui.wait \ c.for /\ calls' = calls \ {c}
          \/ /\ calls' = AskFor(calls \ {c}, c.ctx.list, {"load"}, None)
             /\ "wait" \in DOMAIN ui' /\ ui'.wait = (ui.wait \ c.for) \union {"load"}
          \/ /\ calls' = AskFor(AskFor(calls \ {c}, c.ctx.list, {"load"}, None),
                                <<"report", c.ctx.dates>>, {"report"}, None)
             /\ "wait" \in DOMAIN ui' /\ ui'.wait = (ui.wait \ c.for) \union {"load", "report"}
    BY <1>w, <1>3 DEF Payments!Submitted, Payments!Answered, Payments!Fails, Payments!Fetching, Payments!Raise,
          Payments!Lower, Payments!Ask
  <2>2. CASE calls' = calls \ {c} /\ ui'.wait = ui.wait \ c.for
    BY <2>1, <2>2, TakenFlagged, TakenAlone
  <2>3. CASE /\ calls' = AskFor(calls \ {c}, c.ctx.list, {"load"}, None)
             /\ ui'.wait = (ui.wait \ c.for) \union {"load"}
    BY <1>w, <2>1, <2>3, TurnedFlagged, TurnedAlone DEF PaymentsFlags, PaymentsWait, PaymentsSends
  <2>4. CASE /\ calls' = AskFor(AskFor(calls \ {c}, c.ctx.list, {"load"}, None),
                                <<"report", c.ctx.dates>>, {"report"}, None)
             /\ ui'.wait = (ui.wait \ c.for) \union {"load", "report"}
    BY <1>w, <2>1, <2>4, TurnedTwiceFlagged, TurnedTwiceAlone DEF PaymentsFlags, PaymentsWait, PaymentsSends
  <2> QED BY <2>1, <2>2, <2>3, <2>4
<1> QED BY <1>1, <1>2, <1>3 DEF Payments!Deliver

\* and an answer of the server:
LEMMA PaymentsFlaggedServes ==
    ASSUME PaymentsFlagged, Payments!Serve PROVE PaymentsFlagged'
<1>1. PICK c, a : c \in calls /\ calls' = (calls \ {c}) \union {[c EXCEPT !.ans = a]} /\ ui' = ui
  BY DEF Payments!Serve, Payments!ServeAny
<1> QED BY <1>1, ServedFlagged, ServedAlone DEF PaymentsFlagged

\* every step does.
LEMMA PaymentsFlaggedStep ==
    ASSUME PaymentsFlagged, Payments!Next PROVE PaymentsFlagged'
BY PaymentsFlaggedUser, PaymentsFlaggedDelivers, PaymentsFlaggedServes DEF Payments!Next, Payments!Step

-----------------------------------------------------------------------------
(* The invoices                                                            *)

\* What the page takes from WebPage is what the lemmas above are about.
LEMMA InvoicesShares ==
    /\ \A cs, req, H, ctx : Invoices!AskFor(cs, req, H, ctx) = AskFor(cs, req, H, ctx)
    /\ \A cs, req, H, ctx : Invoices!Send(cs, req, H, ctx) = Send(cs, req, H, ctx)
    /\ \A cs : Invoices!Unmounted(cs) = Unmounted(cs)
<1>1. \A S : Invoices!Cardinality(S) = Cardinality(S)
  BY DEF Invoices!Cardinality, Cardinality
<1> QED BY <1>1 DEF Invoices!AskFor, AskFor, Invoices!Call, Call, Invoices!Send, Send,
             Invoices!Unmounted, Unmounted

\* The flags of the page.
InvoicesFlags == {"load", "detail", "preview", "submit"}

\* The handlers that send a change.
InvoicesSends == {"preview", "submit"}

\* The invariant of the page.
InvoicesFlagged == Flagged(InvoicesFlags, {}, Anyone) /\ Alone(InvoicesSends)

\* It holds when the page is mounted,
LEMMA InvoicesFlaggedFirst ==
    ASSUME Invoices!Init PROVE InvoicesFlagged
<1>1. PICK req : calls = AskFor({}, req, {"load"}, None) /\ ui.wait = {"load"} /\ "wait" \in DOMAIN ui
  BY InvoicesShares DEF Invoices!Init, Invoices!InitialUi, Invoices!Ask
<1> QED BY <1>1, FirstFlagged, FirstAlone DEF InvoicesFlagged, InvoicesFlags, Anyone, InvoicesSends

\* whatever the user does keeps it,
LEMMA InvoicesFlaggedUser ==
    ASSUME InvoicesFlagged, Invoices!User PROVE InvoicesFlagged'
<1> USE InvoicesShares DEF InvoicesFlagged
<1>w. "wait" \in DOMAIN ui /\ ui.wait \subseteq InvoicesFlags
  BY DEF Flagged
<1>1. CASE \/ \E s \in {"any", "issued"} : Invoices!SetFilter(s)
           \/ \E r \in Rows : Invoices!SetPage(r)
  <2>1. PICK u : "wait" \in DOMAIN u /\ u.wait = ui.wait /\ Invoices!Browse(u)
    BY <1>w, <1>1 DEF Invoices!SetFilter, Invoices!SetPage
  <2>2. PICK req : /\ calls' = AskFor(calls, req, {"load"}, None)
                   /\ "wait" \in DOMAIN ui' /\ ui'.wait = ui.wait \union {"load"}
    BY <2>1 DEF Invoices!Browse, Invoices!Load, Invoices!Fetching, Invoices!Raise, Invoices!Ask
  <2> QED BY <1>w, <2>2, AskedFlagged, AskedAlone DEF InvoicesFlags, Anyone, InvoicesSends
<1>2. CASE \E t \in {"invoices", "jobs", "policy"} : Invoices!SetTab(t)
  <2>1. PICK t \in {"invoices", "jobs", "policy"} : Invoices!SetTab(t)
    BY <1>2
  <2>2. "wait" \in DOMAIN ui' /\ ui'.wait = ui.wait
    BY <1>w, <2>1 DEF Invoices!SetTab
  <2>3. CASE t = "invoices"
    <3>1. calls' = calls
      BY <2>1, <2>3 DEF Invoices!SetTab
    <3> QED BY <2>2, <3>1, StillFlagged, StillAlone
  <2>4. CASE t # "invoices"
    <3>1. calls' = AskFor(calls, <<t>>, {t}, None)
      BY <2>1, <2>4 DEF Invoices!SetTab, Invoices!Ask
    <3> QED BY <1>w, <2>1, <2>2, <2>4, <3>1, AskedFlagged, AskedAlone DEF InvoicesFlags, Anyone, InvoicesSends
  <2> QED BY <2>3, <2>4
<1>3. CASE \E r \in Rows : Invoices!OpenDetail(r)
  <2>1. PICK r : /\ calls' = AskFor(calls, <<"invoice", r>>, {"detail"}, None)
                 /\ "wait" \in DOMAIN ui' /\ ui'.wait = ui.wait \union {"detail"}
    BY <1>w, <1>3 DEF Invoices!OpenDetail, Invoices!Load, Invoices!Raise, Invoices!Ask
  <2> QED BY <1>w, <2>1, AskedFlagged, AskedAlone DEF InvoicesFlags, Anyone, InvoicesSends
<1>4. CASE \/ Invoices!CloseDetail \/ Invoices!ToggleAdjustment \/ Invoices!EditAdjustment \/ Invoices!EditPolicy
           \/ \E m \in {"generate", "meter"} : Invoices!OpenStaffModal(m) \/ Invoices!CloseModal(m)
           \/ Invoices!Incomplete({"meter"})
  <2>1. calls' = calls /\ "wait" \in DOMAIN ui' /\ ui'.wait = ui.wait
    BY <1>w, <1>4 DEF Invoices!CloseDetail, Invoices!ToggleAdjustment, Invoices!EditAdjustment, Invoices!EditPolicy,
         Invoices!OpenStaffModal, Invoices!OpenModal, Invoices!CloseModal, Invoices!Incomplete, Invoices!Show
  <2> QED BY <2>1, StillFlagged, StillAlone
<1>5. CASE \/ Invoices!Preview \/ Invoices!SubmitAdjustment
           \/ Invoices!Generate \/ Invoices!RecordMeter \/ Invoices!SavePolicy
  <2>1. PICK h, req, ctx : h \in InvoicesSends /\ Invoices!Submit(h, req, ctx)
    BY <1>5 DEF Invoices!Preview, Invoices!SubmitAdjustment, Invoices!Generate, Invoices!RecordMeter,
         Invoices!SavePolicy, InvoicesSends
  <2>2. /\ calls' = Send(calls, req, {h}, ctx) /\ h \notin ui.wait
        /\ "wait" \in DOMAIN ui' /\ ui'.wait = ui.wait \union {h}
    BY <1>w, <2>1 DEF Invoices!Submit, Invoices!Raise
  <2>3. h \in InvoicesFlags /\ {h} \subseteq InvoicesSends
    BY <2>1 DEF InvoicesFlags, InvoicesSends
  <2> QED BY <1>w, <2>2, <2>3, AskedFlagged, SentAlone DEF Anyone
<1>6. CASE Invoices!Remount
  <2>1. PICK req : /\ calls' = AskFor(Unmounted(calls), req, {"load"}, None)
                   /\ "wait" \in DOMAIN ui' /\ ui'.wait = {"load"}
    BY <1>6 DEF Invoices!Remount, Invoices!InitialUi, Invoices!Ask
  <2> QED BY <2>1, MountedFlagged, MountedAlone DEF InvoicesFlags, Anyone, InvoicesSends
<1> QED BY <1>1, <1>2, <1>3, <1>4, <1>5, <1>6 DEF Invoices!User

\* and so does whatever a continuation does,
LEMMA InvoicesFlaggedDelivers ==
    ASSUME InvoicesFlagged, Invoices!Deliver \/ Invoices!Forget PROVE InvoicesFlagged'
<1> USE InvoicesShares DEF InvoicesFlagged
<1>w. "wait" \in DOMAIN ui /\ ui.wait \subseteq InvoicesFlags
  BY DEF Flagged
<1>1. CASE \/ Invoices!InvoicesLoaded \/ Invoices!JobsLoaded \/ Invoices!PolicyLoaded \/ Invoices!PreviewLoaded
           \/ Invoices!MeterRecorded \/ Invoices!PolicySaved \/ Invoices!Forget
  <2>1. PICK c \in calls : "wait" \in DOMAIN ui' /\ ui'.wait = ui.wait \ c.for /\ calls' = calls \ {c}
    BY <1>w, <1>1 DEF Invoices!InvoicesLoaded, Invoices!JobsLoaded, Invoices!PolicyLoaded, Invoices!PreviewLoaded,
         Invoices!MeterRecorded, Invoices!PolicySaved, Invoices!Forget, Invoices!Answered,
         Invoices!Fails, Invoices!Uses, Invoices!Lower
  <2> QED BY <2>1, TakenFlagged, TakenAlone
<1>2. CASE Invoices!DetailLoaded
  <2>1. PICK c \in calls :
          \/ "wait" \in DOMAIN ui' /\ ui'.wait = ui.wait \ c.for /\ calls' = calls \ {c}
          \/ /\ calls' = AskFor(calls \ {c}, c.ctx.list, {"load"}, None)
             /\ "wait" \in DOMAIN ui' /\ ui'.wait = (ui.wait \ c.for) \union {"load"}
    BY <1>w, <1>2 DEF Invoices!DetailLoaded, Invoices!Answered, Invoices!Fails, Invoices!Uses, Invoices!Lower,
         Invoices!Fetching, Invoices!Raise, Invoices!Ask
  <2> QED BY <1>w, <2>1, TakenFlagged, TakenAlone, TurnedFlagged, TurnedAlone
          DEF InvoicesFlags, Anyone, InvoicesSends
<1>3. CASE Invoices!Adjusted
  <2>1. PICK c \in calls :
          \/ "wait" \in DOMAIN ui' /\ ui'.wait = ui.wait \ c.for /\ calls' = calls \ {c}
          \/ /\ calls' = AskFor(calls \ {c}, <<"invoice", c.req[2]>>, c.for, c.ctx)
             /\ "wait" \in DOMAIN ui' /\ ui'.wait = ui.wait
    BY <1>w, <1>3 DEF Invoices!Adjusted, Invoices!Answered, Invoices!Fails, Invoices!Lower
  <2>2. c.for \intersect InvoicesSends \subseteq ui.wait
    BY DEF Alone, AloneIn
  <2> QED BY <1>w, <2>1, <2>2, TakenFlagged, TakenAlone, TurnedFlagged, TurnedAlone DEF Anyone
<1>4. CASE Invoices!Generated
  <2>1. PICK c \in calls :
          \/ "wait" \in DOMAIN ui' /\ ui'.wait = ui.wait \ c.for /\ calls' = calls \ {c}
          \/ /\ calls' = AskFor(AskFor(calls \ {c}, c.ctx.list, {"load"}, None), <<"jobs">>, {"jobs"}, None)
             /\ "wait" \in DOMAIN ui' /\ ui'.wait = (ui.wait \ c.for) \union {"load"}
    BY <1>w, <1>4 DEF Invoices!Generated, Invoices!Answered, Invoices!Fails, Invoices!Lower,
         Invoices!Fetching, Invoices!Raise, Invoices!Ask
  <2>2. CASE calls' = calls \ {c} /\ ui'.wait = ui.wait \ c.for
    BY <2>1, <2>2, TakenFlagged, TakenAlone
  <2>3. CASE /\ calls' = AskFor(AskFor(calls \ {c}, c.ctx.list, {"load"}, None), <<"jobs">>, {"jobs"}, None)
             /\ ui'.wait = (ui.wait \ c.for) \union {"load"}
    BY <1>w, <2>1, <2>3, TurnedTwiceFlagged, TurnedTwiceAlone DEF InvoicesFlags, Anyone, InvoicesSends
  <2> QED BY <2>1, <2>2, <2>3
<1> QED BY <1>1, <1>2, <1>3, <1>4 DEF Invoices!Deliver

\* and an answer of the server:
LEMMA InvoicesFlaggedServes ==
    ASSUME InvoicesFlagged, Invoices!Serve PROVE InvoicesFlagged'
<1>1. PICK c, a : c \in calls /\ calls' = (calls \ {c}) \union {[c EXCEPT !.ans = a]} /\ ui' = ui
  BY DEF Invoices!Serve, Invoices!ServeAny
<1> QED BY <1>1, ServedFlagged, ServedAlone DEF InvoicesFlagged

\* every step does.
LEMMA InvoicesFlaggedStep ==
    ASSUME InvoicesFlagged, Invoices!Next PROVE InvoicesFlagged'
BY InvoicesFlaggedUser, InvoicesFlaggedDelivers, InvoicesFlaggedServes DEF Invoices!Next, Invoices!Step

-----------------------------------------------------------------------------
(* The transfers                                                           *)

\* What the page takes from WebPage is what the lemmas above are about.
LEMMA TransfersShares ==
    /\ \A cs, req, H, ctx : Transfers!AskFor(cs, req, H, ctx) = AskFor(cs, req, H, ctx)
    /\ \A cs, req, H, ctx : Transfers!Send(cs, req, H, ctx) = Send(cs, req, H, ctx)
    /\ \A cs : Transfers!Unmounted(cs) = Unmounted(cs)
<1>1. \A S : Transfers!Cardinality(S) = Cardinality(S)
  BY DEF Transfers!Cardinality, Cardinality
<1> QED BY <1>1 DEF Transfers!AskFor, AskFor, Transfers!Call, Call, Transfers!Send, Send,
             Transfers!Unmounted, Unmounted

\* The flags of the page.
TransfersFlags == {"load", "process"}

\* Who waits for a request of that kind.
TransfersWait == [decide |-> {"process"}]

\* The handlers that send a change.
TransfersSends == {"process"}

\* The invariant of the page.
TransfersFlagged == Flagged(TransfersFlags, {}, TransfersWait) /\ Alone(TransfersSends)

\* It holds when the page is mounted,
LEMMA TransfersFlaggedFirst ==
    ASSUME Transfers!Init PROVE TransfersFlagged
<1>1. /\ calls = AskFor({}, <<"transfers", "all">>, {"load"}, None)
      /\ ui.wait = {"load"} /\ "wait" \in DOMAIN ui
  BY TransfersShares DEF Transfers!Init, Transfers!InitialUi, Transfers!Ask, Transfers!ListKey
<1> QED BY <1>1, FirstFlagged, FirstAlone DEF TransfersFlagged, TransfersFlags, TransfersWait, TransfersSends

\* whatever the user does keeps it,
LEMMA TransfersFlaggedUser ==
    ASSUME TransfersFlagged, Transfers!User PROVE TransfersFlagged'
<1> USE TransfersShares DEF TransfersFlagged
<1>w. "wait" \in DOMAIN ui /\ ui.wait \subseteq TransfersFlags
  BY DEF Flagged
<1>1. CASE \E s \in {"all", "pending"} : Transfers!SetStatus(s)
  <2>1. PICK s : /\ calls' = AskFor(calls, <<"transfers", s>>, {"load"}, None)
                 /\ "wait" \in DOMAIN ui' /\ ui'.wait = ui.wait \union {"load"}
    BY <1>w, <1>1 DEF Transfers!SetStatus, Transfers!ListKey, Transfers!Fetching, Transfers!Raise, Transfers!Ask
  <2> QED BY <1>w, <2>1, AskedFlagged, AskedAlone DEF TransfersFlags, TransfersWait, TransfersSends
<1>2. CASE \/ \E r \in Rows, to \in {"approved", "cancelled", "completed"} : Transfers!Decide(r, to)
           \/ Transfers!SubmitReject
  <2>1. PICK r, to : "process" \notin ui.wait /\ Transfers!Process(r, to)
    BY <1>2 DEF Transfers!Decide, Transfers!SubmitReject, Transfers!Idle
  <2>2. /\ calls' = Send(calls, <<"decide", r, to>>, {"process"}, ui.status)
        /\ "wait" \in DOMAIN ui' /\ ui'.wait = ui.wait \union {"process"}
    BY <1>w, <2>1 DEF Transfers!Process, Transfers!Raise
  <2> QED BY <1>w, <2>1, <2>2, AskedFlagged, SentAlone DEF TransfersFlags, TransfersWait, TransfersSends
<1>3. CASE (\E r \in Rows : Transfers!OpenReject(r)) \/ Transfers!CloseReject
  <2>1. calls' = calls /\ "wait" \in DOMAIN ui' /\ ui'.wait = ui.wait
    BY <1>w, <1>3 DEF Transfers!OpenReject, Transfers!CloseReject, Transfers!CloseModal, Transfers!Show
  <2> QED BY <2>1, StillFlagged, StillAlone
<1>4. CASE Transfers!Remount
  <2>1. /\ calls' = AskFor(Unmounted(calls), <<"transfers", "all">>, {"load"}, None)
        /\ "wait" \in DOMAIN ui' /\ ui'.wait = {"load"}
    BY <1>4 DEF Transfers!Remount, Transfers!InitialUi, Transfers!Ask, Transfers!ListKey
  <2> QED BY <2>1, MountedFlagged, MountedAlone DEF TransfersFlags, TransfersWait, TransfersSends
<1> QED BY <1>1, <1>2, <1>3, <1>4 DEF Transfers!User

\* and so does whatever a continuation does,
LEMMA TransfersFlaggedDelivers ==
    ASSUME TransfersFlagged, Transfers!Deliver \/ Transfers!Forget PROVE TransfersFlagged'
<1> USE TransfersShares DEF TransfersFlagged
<1>w. "wait" \in DOMAIN ui /\ ui.wait \subseteq TransfersFlags
  BY DEF Flagged
<1>1. CASE Transfers!TransfersLoaded \/ Transfers!Forget
  <2>1. PICK c \in calls : "wait" \in DOMAIN ui' /\ ui'.wait = ui.wait \ c.for /\ calls' = calls \ {c}
    BY <1>w, <1>1 DEF Transfers!TransfersLoaded, Transfers!Forget, Transfers!Answered,
         Transfers!Takes, Transfers!Fails, Transfers!Uses, Transfers!Lower
  <2> QED BY <2>1, TakenFlagged, TakenAlone
<1>2. CASE Transfers!Decided
  <2>1. PICK c \in calls :
          \/ "wait" \in DOMAIN ui' /\ ui'.wait = ui.wait \ c.for /\ calls' = calls \ {c}
          \/ /\ c.req[1] = "decide" /\ c.for # {}
             /\ calls' = AskFor(calls \ {c}, <<"transfers", c.ctx>>, {"load", "process"}, None)
             /\ "wait" \in DOMAIN ui' /\ ui'.wait = ui.wait \union {"load"}
    BY <1>w, <1>2 DEF Transfers!Decided, Transfers!Answered, Transfers!Op, Transfers!Uses, Transfers!Lower,
         Transfers!Fetching, Transfers!Raise, Transfers!ListKey
  <2>2. c.req[1] = "decide" /\ c.for # {} => c.for = {"process"} /\ "process" \in ui.wait
    BY DEF Flagged, Pending, TransfersWait, Alone, AloneIn, TransfersSends
  <2> QED BY <1>w, <2>1, <2>2, TakenFlagged, TakenAlone, TurnedFlagged, TurnedAlone
          DEF TransfersFlags, TransfersWait, TransfersSends
<1> QED BY <1>1, <1>2 DEF Transfers!Deliver

\* and an answer of the server:
LEMMA TransfersFlaggedServes ==
    ASSUME TransfersFlagged, Transfers!Serve PROVE TransfersFlagged'
<1>1. PICK c, a : c \in calls /\ calls' = (calls \ {c}) \union {[c EXCEPT !.ans = a]} /\ ui' = ui
  BY DEF Transfers!Serve, Transfers!ServeAny
<1> QED BY <1>1, ServedFlagged, ServedAlone DEF TransfersFlagged

\* every step does.
LEMMA TransfersFlaggedStep ==
    ASSUME TransfersFlagged, Transfers!Next PROVE TransfersFlagged'
BY TransfersFlaggedUser, TransfersFlaggedDelivers, TransfersFlaggedServes DEF Transfers!Next, Transfers!Step

-----------------------------------------------------------------------------
(* The visitors' permits                                                   *)

\* What the page takes from WebPage is what the lemmas above are about.
LEMMA PermitsShares ==
    /\ \A cs, req, H, ctx : Permits!AskFor(cs, req, H, ctx) = AskFor(cs, req, H, ctx)
    /\ \A cs, req, H, ctx : Permits!Send(cs, req, H, ctx) = Send(cs, req, H, ctx)
    /\ \A cs : Permits!Unmounted(cs) = Unmounted(cs)
<1>1. \A S : Permits!Cardinality(S) = Cardinality(S)
  BY DEF Permits!Cardinality, Cardinality
<1> QED BY <1>1 DEF Permits!AskFor, AskFor, Permits!Call, Call, Permits!Send, Send,
             Permits!Unmounted, Unmounted

\* The flags of the page.
PermitsFlags == {"load", "summary", "action", "decide", "request", "retain"}

\* The handlers that send a change.
PermitsSends == {"action", "decide", "request", "retain"}

\* The invariant of the page.
PermitsFlagged == Flagged(PermitsFlags, {}, Anyone) /\ Alone(PermitsSends) /\ "role" \in DOMAIN ui

\* What a tenant asks for, and what the staff does.
LEMMA PermitsRefresh ==
    ASSUME NEW cs, NEW role, NEW filter
    PROVE  \/ /\ role = "tenant"
              /\ Permits!Refresh(cs, role, filter) = AskFor(cs, <<"permits", filter>>, {"load"}, None)
           \/ /\ role # "tenant"
              /\ Permits!Refresh(cs, role, filter) =
                   AskFor(AskFor(cs, <<"permits", filter>>, {"load"}, None), <<"summary">>, {"summary"}, None)
BY PermitsShares DEF Permits!Refresh, Permits!Ask

\* It holds when the page is mounted,
LEMMA PermitsFlaggedFirst ==
    ASSUME Permits!Init PROVE PermitsFlagged
<1>1. PICK role : ui = Permits!InitialUi(role) /\ calls = Permits!Refresh({}, role, "all")
  BY DEF Permits!Init
<1>2. {"wait", "role"} \subseteq DOMAIN ui /\ ui.wait = {"load"} \union (IF role = "tenant" THEN {} ELSE {"summary"})
  BY <1>1 DEF Permits!InitialUi
<1>3. Pending({}, {}, Anyone) /\ AloneIn({}, ui.wait, PermitsSends)
  BY FS_EmptySet DEF Pending, Requests, AloneIn
<1> DEFINE permits == AskFor({}, <<"permits", "all">>, {"load"}, None)
<1>4. Pending(permits, {"load"}, Anyone) /\ AloneIn(permits, ui.wait, PermitsSends)
  <2>1. Pending(permits, {} \union {"load"}, Anyone)
    BY <1>3, AskForPending DEF Anyone
  <2>2. AloneIn(permits, ui.wait, PermitsSends)
    BY <1>3, AskForAlone DEF PermitsSends, Pending
  <2> QED BY <2>1, <2>2 DEF Pending
<1>5. CASE role = "tenant"
  BY <1>1, <1>2, <1>4, <1>5, PermitsRefresh DEF PermitsFlagged, Flagged, Alone, Pending, PermitsFlags
<1>6. CASE role # "tenant"
  <2> DEFINE both == AskFor(permits, <<"summary">>, {"summary"}, None)
  <2>1. calls = both
    BY <1>1, <1>6, PermitsRefresh
  <2>2. Pending(both, {"load"} \union {"summary"}, Anyone)
    BY <1>4, AskForPending DEF Anyone
  <2>3. AloneIn(both, ui.wait, PermitsSends)
    BY <1>4, AskForAlone DEF PermitsSends, Pending
  <2> HIDE DEF both
  <2> QED BY <1>2, <2>1, <2>2, <2>3 DEF PermitsFlagged, Flagged, Alone, Pending, PermitsFlags
<1> QED BY <1>5, <1>6

\* whatever the user does keeps it,
LEMMA PermitsFlaggedUser ==
    ASSUME PermitsFlagged, Permits!User PROVE PermitsFlagged'
<1> USE PermitsShares DEF PermitsFlagged
<1>w. {"wait", "role"} \subseteq DOMAIN ui /\ ui.wait \subseteq PermitsFlags
  BY DEF Flagged
<1>1. CASE \E f \in {"all", "pending"} : Permits!SetStatusFilter(f)
  <2>1. PICK f : /\ calls' = AskFor(calls, <<"permits", f>>, {"load"}, None)
                 /\ {"wait", "role"} \subseteq DOMAIN ui' /\ ui'.wait = ui.wait \union {"load"}
    BY <1>w, <1>1 DEF Permits!SetStatusFilter, Permits!Load, Permits!Raise, Permits!Ask
  <2> QED BY <1>w, <2>1, AskedFlagged, AskedAlone DEF PermitsFlags, Anyone, PermitsSends
<1>2. CASE Permits!RefreshList
  <2>1. /\ calls' = Permits!Refresh(calls, ui.role, ui.filter)
        /\ {"wait", "role"} \subseteq DOMAIN ui'
        /\ ui'.wait = ui.wait \union {"load"} \union (IF ui.role = "tenant" THEN {} ELSE {"summary"})
    BY <1>w, <1>2 DEF Permits!RefreshList, Permits!Refreshing
  <2>2. CASE /\ ui.role = "tenant"
             /\ calls' = AskFor(calls, <<"permits", ui.filter>>, {"load"}, None)
    BY <1>w, <2>1, <2>2, AskedFlagged, AskedAlone DEF PermitsFlags, Anyone, PermitsSends
  <2>3. CASE calls' = AskFor(AskFor(calls, <<"permits", ui.filter>>, {"load"}, None), <<"summary">>, {"summary"}, None)
    <3>1. Pending(calls, ui.wait, Anyone)
      BY DEF Flagged
    <3>2. Flagged(PermitsFlags, {}, Anyone)'
      BY <1>w, <2>1, <2>3, <3>1, AsksTwiceFlagged DEF PermitsFlags, Anyone
    <3>3. Requests(calls) /\ AloneIn(calls, ui.wait, PermitsSends)
      BY DEF Alone
    <3>4. Alone(PermitsSends)'
      BY <2>1, <2>3, <3>3, AsksTwiceAlone DEF PermitsSends
    <3> QED BY <2>1, <3>2, <3>4
  <2> QED BY <2>1, <2>2, <2>3, PermitsRefresh
<1>3. CASE \E r \in Rows : Permits!OpenDetail(r)
  <2>1. PICK r : /\ calls' = AskFor(calls, <<"permit", r>>, {"detail"}, None)
                 /\ {"wait", "role"} \subseteq DOMAIN ui' /\ ui'.wait = ui.wait
    BY <1>w, <1>3 DEF Permits!OpenDetail, Permits!Ask
  <2> QED BY <1>w, <2>1, AskedFlagged, AskedAlone DEF PermitsFlags, Anyone, PermitsSends
<1>4. CASE \/ \E r \in Rows, to \in {"active", "completed", "cancelled"} : Permits!Act(r, to)
           \/ Permits!SubmitDecision \/ Permits!ApplyRetention
           \/ \E visit \in Permits!Visits : Permits!RequestPermit(visit) /\ Permits!ValidVisit(visit)
  <2>1. PICK h, req, ctx : h \in PermitsSends /\ Permits!Submit(h, req, ctx)
    <3>1. CASE \E r \in Rows, to \in {"active", "completed", "cancelled"} : Permits!Act(r, to)
      <4>1. \E req, ctx : Permits!Submit("action", req, ctx)
        BY <3>1 DEF Permits!Act
      <4> QED BY <4>1 DEF PermitsSends
    <3>2. CASE Permits!SubmitDecision
      <4>1. \E req, ctx : Permits!Submit("decide", req, ctx)
        BY <3>2 DEF Permits!SubmitDecision
      <4> QED BY <4>1 DEF PermitsSends
    <3>3. CASE Permits!ApplyRetention
      <4>1. \E req, ctx : Permits!Submit("retain", req, ctx)
        BY <3>3 DEF Permits!ApplyRetention
      <4> QED BY <4>1 DEF PermitsSends
    <3>4. CASE \E visit \in Permits!Visits : Permits!RequestPermit(visit) /\ Permits!ValidVisit(visit)
      <4>1. \E req, ctx : Permits!Submit("request", req, ctx)
        BY <3>4 DEF Permits!RequestPermit
      <4> QED BY <4>1 DEF PermitsSends
    <3> QED BY <1>4, <3>1, <3>2, <3>3, <3>4
  <2>2. /\ calls' = Send(calls, req, {h}, ctx) /\ h \notin ui.wait
        /\ {"wait", "role"} \subseteq DOMAIN ui' /\ ui'.wait = ui.wait \union {h}
    BY <1>w, <2>1 DEF Permits!Submit, Permits!Raise
  <2>3. h \in PermitsFlags /\ {h} \subseteq PermitsSends
    BY <2>1 DEF PermitsFlags, PermitsSends
  <2> QED BY <1>w, <2>2, <2>3, AskedFlagged, SentAlone DEF Anyone
<1>5. CASE \/ \E r \in Rows : Permits!OpenApproval(r)
           \/ \E to \in {"approved", "rejected", "change_requested"} : Permits!SetDecision(to)
           \/ \E m \in {"request", "retention"} : Permits!OpenModalOf(m)
           \/ \E visit \in Permits!Visits : Permits!RequestPermit(visit) /\ ~Permits!ValidVisit(visit)
           \/ Permits!ClosePermitModal
  <2>1. calls' = calls /\ {"wait", "role"} \subseteq DOMAIN ui' /\ ui'.wait = ui.wait
    BY <1>w, <1>5 DEF Permits!OpenApproval, Permits!SetDecision, Permits!OpenModalOf, Permits!OpenModal,
         Permits!RequestPermit, Permits!ClosePermitModal, Permits!Show
  <2> QED BY <2>1, StillFlagged, StillAlone
<1>6. CASE Permits!Remount
  <2>1. /\ calls' = Permits!Refresh(Unmounted(calls), ui.role, "all")
        /\ {"wait", "role"} \subseteq DOMAIN ui'
        /\ ui'.wait = {"load"} \union (IF ui.role = "tenant" THEN {} ELSE {"summary"})
    BY <1>w, <1>6 DEF Permits!Remount, Permits!InitialUi
  <2>2. CASE ui.role = "tenant" /\ calls' = AskFor(Unmounted(calls), <<"permits", "all">>, {"load"}, None)
    BY <2>1, <2>2, MountedFlagged, MountedAlone DEF PermitsFlags, Anyone, PermitsSends
  <2>3. CASE calls' = AskFor(AskFor(Unmounted(calls), <<"permits", "all">>, {"load"}, None), <<"summary">>, {"summary"}, None)
    <3>1. Pending(Unmounted(calls), {}, Anyone)
      BY UnmountedPending DEF Flagged
    <3>2. Flagged(PermitsFlags, {}, Anyone)'
      BY <2>1, <2>3, <3>1, AsksTwiceFlagged DEF PermitsFlags, Anyone
    <3>3. Requests(Unmounted(calls)) /\ AloneIn(Unmounted(calls), {}, PermitsSends)
      BY UnmountedAlone DEF Alone, PermitsSends
    <3>4. Alone(PermitsSends)'
      BY <2>1, <2>3, <3>3, AsksTwiceAlone DEF PermitsSends
    <3> QED BY <2>1, <3>2, <3>4
  <2> QED BY <2>1, <2>2, <2>3, PermitsRefresh
<1> QED BY <1>1, <1>2, <1>3, <1>4, <1>5, <1>6 DEF Permits!User

\* and so does whatever a continuation does,
LEMMA PermitsFlaggedDelivers ==
    ASSUME PermitsFlagged, Permits!Deliver \/ Permits!Forget PROVE PermitsFlagged'
<1> USE PermitsShares DEF PermitsFlagged
<1>w. {"wait", "role"} \subseteq DOMAIN ui /\ ui.wait \subseteq PermitsFlags
  BY DEF Flagged
<1>1. CASE \/ Permits!PermitsLoaded \/ Permits!SummaryLoaded \/ Permits!DetailLoaded \/ Permits!Forget
  <2>1. PICK c \in calls : {"wait", "role"} \subseteq DOMAIN ui' /\ ui'.wait = ui.wait \ c.for /\ calls' = calls \ {c}
    BY <1>w, <1>1 DEF Permits!PermitsLoaded, Permits!SummaryLoaded, Permits!DetailLoaded, Permits!Forget,
         Permits!Answered, Permits!Uses, Permits!Lower
  <2> QED BY <2>1, TakenFlagged, TakenAlone
<1>2. CASE Permits!Acted \/ Permits!Decided \/ Permits!PermitRequested \/ Permits!RetentionApplied
  <2>1. PICK c, u : c \in calls /\ {"wait", "role"} \subseteq DOMAIN u /\ u.wait = ui.wait /\ u.role = ui.role /\ Permits!Refreshed(c, u)
    <3>1. CASE Permits!Acted
      BY <1>w, <3>1 DEF Permits!Acted, Permits!Answered
    <3>2. CASE Permits!Decided
      <4> DEFINE u == [ui EXCEPT !.open = @ \ {"approval"}, !.sel = None]
      <4>1. {"wait", "role"} \subseteq DOMAIN u /\ u.wait = ui.wait /\ u.role = ui.role
        BY <1>w
      <4>2. \E c \in calls : Permits!Refreshed(c, u)
        BY <3>2 DEF Permits!Decided, Permits!Answered
      <4> HIDE DEF u
      <4> QED BY <4>1, <4>2
    <3>3. CASE Permits!PermitRequested
      <4> DEFINE u == [ui EXCEPT !.open = @ \ {"request"}]
      <4>1. {"wait", "role"} \subseteq DOMAIN u /\ u.wait = ui.wait /\ u.role = ui.role
        BY <1>w
      <4>2. \E c \in calls : Permits!Refreshed(c, u)
        BY <3>3 DEF Permits!PermitRequested, Permits!Answered
      <4> HIDE DEF u
      <4> QED BY <4>1, <4>2
    <3>4. CASE Permits!RetentionApplied
      <4> DEFINE u == [ui EXCEPT !.retained = TRUE]
      <4>1. {"wait", "role"} \subseteq DOMAIN u /\ u.wait = ui.wait /\ u.role = ui.role
        BY <1>w
      <4>2. \E c \in calls : Permits!Refreshed(c, u)
        BY <3>4 DEF Permits!RetentionApplied, Permits!Answered
      <4> HIDE DEF u
      <4> QED BY <4>1, <4>2
    <3> QED BY <1>2, <3>1, <3>2, <3>3, <3>4
  <2>2. CASE Permits!Fails(c)
    <3>1. {"wait", "role"} \subseteq DOMAIN ui' /\ ui'.wait = ui.wait \ c.for /\ calls' = calls \ {c}
      BY <1>w, <2>2 DEF Permits!Fails, Permits!Lower
    <3> QED BY <2>1, <3>1, TakenFlagged, TakenAlone
  <2>3. CASE ~Permits!Fails(c)
    <3>1. /\ calls' = Permits!Refresh(calls \ {c}, ui.role, c.ctx)
          /\ {"wait", "role"} \subseteq DOMAIN ui'
          /\ ui'.wait = (ui.wait \ c.for) \union {"load"} \union (IF ui.role = "tenant" THEN {} ELSE {"summary"})
      BY <1>w, <2>1, <2>3 DEF Permits!Refreshed, Permits!Refreshing, Permits!Lower
    <3>2. CASE ui.role = "tenant" /\ calls' = AskFor(calls \ {c}, <<"permits", c.ctx>>, {"load"}, None)
      <4>1. {"load"} \intersect PermitsSends = {} /\ c \in calls
        BY <2>1 DEF PermitsSends
      <4>2. {"load"} \subseteq PermitsFlags
        BY DEF PermitsFlags
      <4>3. Flagged(PermitsFlags, {}, Anyone)'
        BY <1>w, <3>1, <3>2, <4>2, TurnedFlagged DEF Anyone
      <4>4. Alone(PermitsSends)'
        BY <3>1, <3>2, <4>1, TurnedAlone
      <4> QED BY <3>1, <4>3, <4>4
    <3>3. CASE calls' = AskFor(AskFor(calls \ {c}, <<"permits", c.ctx>>, {"load"}, None), <<"summary">>, {"summary"}, None)
      <4>1. ui'.wait \subseteq ((ui.wait \ c.for) \union {"load"}) \union {"summary"}
        BY <3>1
      <4>2. ui'.wait \subseteq PermitsFlags /\ ui.wait \ c.for \subseteq ui'.wait
        BY <1>w, <3>1 DEF PermitsFlags
      <4>3. Flagged(PermitsFlags, {}, Anyone)'
        BY <3>1, <3>3, <4>1, <4>2, TurnedTwiceFlagged DEF Anyone
      <4>4. Alone(PermitsSends)'
        BY <2>1, <3>3, <4>2, TurnedTwiceAlone DEF PermitsSends
      <4> QED BY <3>1, <4>3, <4>4
    <3> QED BY <3>1, <3>2, <3>3, PermitsRefresh
  <2> QED BY <2>2, <2>3
<1> QED BY <1>1, <1>2 DEF Permits!Deliver

\* and an answer of the server:
LEMMA PermitsFlaggedServes ==
    ASSUME PermitsFlagged, Permits!Serve PROVE PermitsFlagged'
<1>1. PICK c, a : c \in calls /\ calls' = (calls \ {c}) \union {[c EXCEPT !.ans = a]} /\ ui' = ui
  BY DEF Permits!Serve, Permits!ServeAny
<1> QED BY <1>1, ServedFlagged, ServedAlone DEF PermitsFlagged

\* every step does.
LEMMA PermitsFlaggedStep ==
    ASSUME PermitsFlagged, Permits!Next PROVE PermitsFlagged'
BY PermitsFlaggedUser, PermitsFlaggedDelivers, PermitsFlaggedServes DEF Permits!Next, Permits!Step

-----------------------------------------------------------------------------
(* The house rules                                                         *)

\* What the page takes from WebPage is what the lemmas above are about.
LEMMA RulesShares ==
    /\ \A cs, req, H, ctx : Rules!AskFor(cs, req, H, ctx) = AskFor(cs, req, H, ctx)
    /\ \A cs, req, H, ctx : Rules!Send(cs, req, H, ctx) = Send(cs, req, H, ctx)
    /\ \A cs : Rules!Unmounted(cs) = Unmounted(cs)
<1>1. \A S : Rules!Cardinality(S) = Cardinality(S)
  BY DEF Rules!Cardinality, Cardinality
<1> QED BY <1>1 DEF Rules!AskFor, AskFor, Rules!Call, Call, Rules!Send, Send,
             Rules!Unmounted, Unmounted

\* The flags of the page.
RulesFlags == {"load", "ack", "save", "publish", "history", "audit"}

\* The invariant of the page.
RulesFlagged == Flagged(RulesFlags, {}, Anyone)

\* It holds when the page is mounted,
LEMMA RulesFlaggedFirst ==
    ASSUME Rules!Init PROVE RulesFlagged
<1>1. calls = AskFor({}, <<"active">>, {"load"}, None) /\ ui.wait = {"load"} /\ "wait" \in DOMAIN ui
  BY RulesShares DEF Rules!Init, Rules!InitialUi, Rules!Ask
<1> QED BY <1>1, FirstFlagged DEF RulesFlagged, RulesFlags, Anyone

\* whatever the user does keeps it,
LEMMA RulesFlaggedUser ==
    ASSUME RulesFlagged, Rules!User PROVE RulesFlagged'
<1> USE RulesShares DEF RulesFlagged
<1>w. "wait" \in DOMAIN ui /\ ui.wait \subseteq RulesFlags
  BY DEF Flagged
<1>1. CASE \/ Rules!CheckConsent \/ Rules!EditItems \/ Rules!OpenPublish
           \/ \E m \in {"draft", "publish", "history", "inspect", "audit"} : Rules!Visible /\ Rules!CloseModal(m)
  <2>1. calls' = calls /\ "wait" \in DOMAIN ui' /\ ui'.wait = ui.wait
    BY <1>w, <1>1 DEF Rules!CheckConsent, Rules!EditItems, Rules!OpenPublish, Rules!CloseModal, Rules!Show
  <2> QED BY <2>1, StillFlagged
<1>2. CASE Rules!Acknowledge \/ Rules!SaveDraft
  <2>1. PICK h, req, ctx : h \in RulesFlags /\ Rules!Submit(h, req, ctx)
    BY <1>2 DEF Rules!Acknowledge, Rules!SaveDraft, RulesFlags
  <2>2. /\ calls' = Send(calls, req, {h}, ctx)
        /\ "wait" \in DOMAIN ui' /\ ui'.wait = ui.wait \union {h}
    BY <1>w, <2>1 DEF Rules!Submit, Rules!Raise
  <2> QED BY <1>w, <2>1, <2>2, AskedFlagged DEF Anyone
<1>3. CASE Rules!OpenDraftEditor
  <2>1. /\ calls' = AskFor(calls, <<"versions">>, {"draft"}, None)
        /\ "wait" \in DOMAIN ui' /\ ui'.wait = ui.wait \ {"save"}
    BY <1>w, <1>3 DEF Rules!OpenDraftEditor, Rules!Ask
  <2> QED BY <1>w, <2>1, AskedFlagged DEF Anyone
<1>4. CASE Rules!LoadFromTemplate
  <2>1. calls' = AskFor(calls, <<"templates">>, {"template"}, None) /\ ui' = ui
    BY <1>4 DEF Rules!LoadFromTemplate, Rules!Ask
  <2> QED BY <1>w, <2>1, AskedFlagged DEF Anyone
<1>5. CASE Rules!InspectVersion
  <2>1. calls' = AskFor(calls, <<"version">>, {"inspect"}, None) /\ ui' = ui
    BY <1>5 DEF Rules!InspectVersion, Rules!Ask
  <2> QED BY <1>w, <2>1, AskedFlagged DEF Anyone
<1>6. CASE Rules!ExecutePublish
  <2>1. /\ calls' = Send(calls, <<"presave", ui.text>>, {"publish", "chain"}, None)
        /\ "wait" \in DOMAIN ui' /\ ui'.wait = ui.wait \union {"publish"}
    BY <1>w, <1>6 DEF Rules!ExecutePublish, Rules!Raise
  <2> QED BY <1>w, <2>1, AskedFlagged DEF Anyone, RulesFlags
<1>7. CASE Rules!OpenHistory
  <2>1. /\ calls' = AskFor(calls, <<"versions">>, {"history"}, None)
        /\ "wait" \in DOMAIN ui' /\ ui'.wait = ui.wait \union {"history"}
    BY <1>w, <1>7 DEF Rules!OpenHistory, Rules!Load, Rules!Raise, Rules!Ask
  <2> QED BY <1>w, <2>1, AskedFlagged DEF Anyone, RulesFlags
<1>8. CASE Rules!OpenAudit
  <2>1. /\ calls' = AskFor(calls, <<"acks">>, {"audit"}, None)
        /\ "wait" \in DOMAIN ui' /\ ui'.wait = ui.wait \union {"audit"}
    BY <1>w, <1>8 DEF Rules!OpenAudit, Rules!Load, Rules!Raise, Rules!Ask
  <2> QED BY <1>w, <2>1, AskedFlagged DEF Anyone, RulesFlags
<1>9. CASE Rules!Remount
  <2>1. /\ calls' = AskFor(Unmounted(calls), <<"active">>, {"load"}, None)
        /\ "wait" \in DOMAIN ui' /\ ui'.wait = {"load"}
    BY <1>9 DEF Rules!Remount, Rules!InitialUi, Rules!Ask
  <2> QED BY <2>1, MountedFlagged DEF Anyone, RulesFlags
<1> QED BY <1>1, <1>2, <1>3, <1>4, <1>5, <1>6, <1>7, <1>8, <1>9 DEF Rules!User

\* A change that was made is followed by a load, for which its handler waits.
LEMMA RulesReload ==
    ASSUME RulesFlagged, NEW c \in calls, NEW u, "wait" \in DOMAIN u, u.wait = ui.wait, Rules!Reload(u, c)
    PROVE  RulesFlagged'
<1>1. /\ calls' = AskFor(calls \ {c}, <<"active">>, {"load"} \union (c.for \ {"chain"}), None)
      /\ "wait" \in DOMAIN ui' /\ ui'.wait = ui.wait \union {"load"}
  BY RulesShares DEF Rules!Reload, Rules!Raise
<1>2. ui.wait \subseteq RulesFlags /\ "chain" \notin RulesFlags /\ "load" \in RulesFlags
  BY DEF RulesFlagged, Flagged, RulesFlags
<1> QED BY <1>1, <1>2, TurnedFlagged DEF Anyone, RulesFlagged

\* and so does whatever a continuation does,
LEMMA RulesFlaggedDelivers ==
    ASSUME RulesFlagged, Rules!Deliver \/ Rules!Forget PROVE RulesFlagged'
<1> USE RulesShares DEF RulesFlagged
<1>w. "wait" \in DOMAIN ui /\ ui.wait \subseteq RulesFlags
  BY DEF Flagged
<1>1. CASE Rules!ActiveLoaded \/ Rules!VersionLoaded \/ Rules!TemplatesLoaded \/ Rules!AuditLoaded \/ Rules!Forget
  <2>1. PICK c \in calls : "wait" \in DOMAIN ui' /\ ui'.wait = ui.wait \ c.for /\ calls' = calls \ {c}
    <3>1. CASE Rules!VersionLoaded
      <4>1. PICK c, u : c \in calls /\ "wait" \in DOMAIN u /\ u.wait = ui.wait /\ Rules!Uses(c, u)
        BY <1>w, <3>1 DEF Rules!VersionLoaded, Rules!Answered, Rules!Edits
      <4> QED BY <4>1 DEF Rules!Uses, Rules!Lower
    <3>2. CASE ~Rules!VersionLoaded
      BY <1>w, <1>1, <3>2 DEF Rules!ActiveLoaded, Rules!TemplatesLoaded, Rules!AuditLoaded, Rules!Forget,
         Rules!Answered, Rules!Fails, Rules!Uses, Rules!Lower
    <3> QED BY <3>1, <3>2
  <2> QED BY <2>1, TakenFlagged
<1>2. CASE Rules!VersionsLoaded
  <2>1. PICK c, u :
          /\ c \in calls
          /\ "wait" \in DOMAIN u /\ u.wait = ui.wait
          /\ \/ Rules!Uses(c, u)
             \/ /\ ui' = Rules!Lower(u, c)
                /\ calls' = AskFor(calls \ {c}, <<"version">>, {"draft"}, None)
    BY <1>w, <1>2 DEF Rules!VersionsLoaded, Rules!Answered, Rules!Edits, Rules!Ask
  <2>2. /\ "wait" \in DOMAIN ui' /\ ui'.wait = ui.wait \ c.for
        /\ calls' = calls \ {c} \/ calls' = AskFor(calls \ {c}, <<"version">>, {"draft"}, None)
    BY <2>1 DEF Rules!Uses, Rules!Lower
  <2> QED BY <1>w, <2>2, TakenFlagged, TurnedFlagged DEF Anyone
<1>3. CASE Rules!Acknowledged \/ Rules!DraftSaved \/ Rules!Published
  <2>1. PICK c, u :
          /\ c \in calls
          /\ \/ "wait" \in DOMAIN ui' /\ ui'.wait = ui.wait \ c.for /\ calls' = calls \ {c}
             \/ "wait" \in DOMAIN u /\ u.wait = ui.wait /\ Rules!Reload(u, c)
    BY <1>w, <1>3 DEF Rules!Acknowledged, Rules!DraftSaved, Rules!Published, Rules!Answered,
       Rules!Fails, Rules!Uses, Rules!Lower
  <2> QED BY <2>1, TakenFlagged, RulesReload
<1>4. CASE Rules!DraftPresaved
  <2>1. PICK c, req :
          /\ c \in calls
          /\ \/ "wait" \in DOMAIN ui' /\ ui'.wait = ui.wait \ c.for /\ calls' = calls \ {c}
             \/ ui' = ui /\ calls' = Send(calls \ {c}, req, c.for \ {"chain"}, None)
    BY <1>w, <1>4 DEF Rules!DraftPresaved, Rules!Answered, Rules!Fails, Rules!Lower
  <2>2. CASE ui' = ui /\ calls' = Send(calls \ {c}, req, c.for \ {"chain"}, None)
    <3>1. ui'.wait \subseteq (ui.wait \ c.for) \union (c.for \ {"chain"})
      BY <1>w, <2>2 DEF RulesFlags
    <3>2. "wait" \in DOMAIN ui' /\ ui'.wait \subseteq RulesFlags
      BY <1>w, <2>2
    <3> QED BY <1>w, <2>2, <3>1, <3>2, TurnedFlagged DEF Anyone
  <2> QED BY <2>1, <2>2, TakenFlagged
<1> QED BY <1>1, <1>2, <1>3, <1>4 DEF Rules!Deliver

\* and an answer of the server:
LEMMA RulesFlaggedServes ==
    ASSUME RulesFlagged, Rules!Serve PROVE RulesFlagged'
<1>1. PICK c, a : c \in calls /\ calls' = (calls \ {c}) \union {[c EXCEPT !.ans = a]} /\ ui' = ui
  BY DEF Rules!Serve, Rules!ServeAny
<1> QED BY <1>1, ServedFlagged DEF RulesFlagged

\* every step does.
LEMMA RulesFlaggedStep ==
    ASSUME RulesFlagged, Rules!Next PROVE RulesFlagged'
BY RulesFlaggedUser, RulesFlaggedDelivers, RulesFlaggedServes DEF Rules!Next, Rules!Step

-----------------------------------------------------------------------------
(* The checkouts                                                           *)

\* What the page takes from WebPage is what the lemmas above are about.
LEMMA CheckoutsShares ==
    /\ \A cs, req, H, ctx : Checkouts!AskFor(cs, req, H, ctx) = AskFor(cs, req, H, ctx)
    /\ \A cs, req, H, ctx : Checkouts!Send(cs, req, H, ctx) = Send(cs, req, H, ctx)
    /\ \A cs : Checkouts!Unmounted(cs) = Unmounted(cs)
    /\ \A cs, H : Checkouts!Orphaned(cs, H) = Orphaned(cs, H)
<1>1. \A S : Checkouts!Cardinality(S) = Cardinality(S)
  BY DEF Checkouts!Cardinality, Cardinality
<1> QED BY <1>1 DEF Checkouts!AskFor, AskFor, Checkouts!Call, Call, Checkouts!Send, Send,
             Checkouts!Unmounted, Unmounted, Checkouts!Orphaned, Orphaned

\* The flags of the page.
CheckoutsFlags == {"load", "notice", "inspect", "preview", "act"}

\* Which handler an answer is for, while its modal is there.
CheckoutsWait ==
    [op \in {"inspect", "approve", "execute", "cancel"} |->
        IF op = "inspect" THEN {"inspect", "orphan"} ELSE {"act", "orphan"}]

\* The invariant of the page.
CheckoutsFlagged == Flagged(CheckoutsFlags, {}, CheckoutsWait)

\* It holds when the page is mounted,
LEMMA CheckoutsFlaggedFirst ==
    ASSUME Checkouts!Init PROVE CheckoutsFlagged
<1>1. PICK req : calls = AskFor({}, req, {"load"}, None) /\ ui.wait = {"load"} /\ "wait" \in DOMAIN ui /\ req[1] = "list"
  BY CheckoutsShares DEF Checkouts!Init, Checkouts!InitialUi, Checkouts!Ask, Checkouts!ListKey
<1> QED BY <1>1, FirstFlagged DEF CheckoutsFlagged, CheckoutsFlags, CheckoutsWait

\* whatever the user does keeps it,
LEMMA CheckoutsFlaggedUser ==
    ASSUME CheckoutsFlagged, Checkouts!User PROVE CheckoutsFlagged'
<1> USE CheckoutsShares DEF CheckoutsFlagged
<1>w. "wait" \in DOMAIN ui /\ ui.wait \subseteq CheckoutsFlags
  BY DEF Flagged
<1>1. CASE \E s \in {"all", "submitted", "approved"} : Checkouts!FetchCheckouts(s)
  <2>1. PICK req : /\ calls' = AskFor(calls, req, {"load"}, None) /\ req[1] = "list"
                   /\ "wait" \in DOMAIN ui' /\ ui'.wait = ui.wait \union {"load"}
    BY <1>w, <1>1 DEF Checkouts!FetchCheckouts, Checkouts!ListKey, Checkouts!Load, Checkouts!Fetching,
          Checkouts!Raise, Checkouts!Ask
  <2> QED BY <1>w, <2>1, AskedFlagged DEF CheckoutsFlags, CheckoutsWait
<1>2. CASE \/ \E r \in Rows : Checkouts!OpenInspection(r)
           \/ Checkouts!OpenNotice \/ Checkouts!CloseModal("notice")
           \/ Checkouts!Incomplete({"notice", "settle"})
  <2>1. calls' = calls /\ "wait" \in DOMAIN ui' /\ ui'.wait = ui.wait
    BY <1>w, <1>2 DEF Checkouts!OpenInspection, Checkouts!OpenNotice, Checkouts!OpenModal, Checkouts!CloseModal,
          Checkouts!Incomplete, Checkouts!Show
  <2> QED BY <2>1, StillFlagged
<1>3. CASE \E r \in Rows : Checkouts!OpenSettlement(r)
  <2>1. PICK r : /\ calls' = AskFor(calls, <<"preview", r>>, {"preview"}, None)
                 /\ "wait" \in DOMAIN ui' /\ ui'.wait = ui.wait \union {"preview"}
    BY <1>w, <1>3 DEF Checkouts!OpenSettlement, Checkouts!Load, Checkouts!Raise, Checkouts!Ask
  <2> QED BY <1>w, <2>1, AskedFlagged DEF CheckoutsFlags, CheckoutsWait
<1>4. CASE Checkouts!CreateNotice \/ Checkouts!RecordInspections
           \/ Checkouts!Approve \/ Checkouts!Execute \/ Checkouts!Cancel
  <2>1. PICK h, req, ctx :
          /\ h \in CheckoutsFlags
          /\ req[1] \in DOMAIN CheckoutsWait => {h} \subseteq CheckoutsWait[req[1]]
          /\ Checkouts!Submit(h, req, ctx)
    BY <1>4 DEF Checkouts!CreateNotice, Checkouts!RecordInspections, Checkouts!Approve, Checkouts!Execute,
          Checkouts!Cancel, CheckoutsFlags, CheckoutsWait
  <2>2. /\ calls' = Send(calls, req, {h}, ctx)
        /\ "wait" \in DOMAIN ui' /\ ui'.wait = ui.wait \union {h}
    BY <1>w, <2>1 DEF Checkouts!Submit, Checkouts!Raise
  <2> QED BY <1>w, <2>1, <2>2, AskedFlagged
<1>5. CASE Checkouts!Discard("inspect", {"inspect"}) \/ Checkouts!Discard("settle", Checkouts!SettleFlags)
  <2>1. PICK H : /\ calls' = Orphaned(calls, H) /\ "wait" \in DOMAIN ui' /\ ui'.wait = ui.wait \ H
    BY <1>w, <1>5 DEF Checkouts!Discard, Checkouts!Without
  <2>2. \A op \in DOMAIN CheckoutsWait : "orphan" \in CheckoutsWait[op]
    BY DEF CheckoutsWait
  <2> QED BY <1>w, <2>1, <2>2, OrphanedFlagged
<1>6. CASE Checkouts!Remount
  <2>1. PICK req : /\ calls' = AskFor(Unmounted(calls), req, {"load"}, None) /\ req[1] = "list"
                   /\ "wait" \in DOMAIN ui' /\ ui'.wait = {"load"}
    BY <1>6 DEF Checkouts!Remount, Checkouts!InitialUi, Checkouts!ListKey, Checkouts!Ask
  <2> QED BY <2>1, MountedFlagged DEF CheckoutsFlags, CheckoutsWait
<1> QED BY <1>1, <1>2, <1>3, <1>4, <1>5, <1>6 DEF Checkouts!User, Checkouts!CloseCheckoutModal

\* and so does whatever a continuation does,
LEMMA CheckoutsFlaggedDelivers ==
    ASSUME CheckoutsFlagged, Checkouts!Deliver \/ Checkouts!Forget PROVE CheckoutsFlagged'
<1> USE CheckoutsShares DEF CheckoutsFlagged
<1>w. "wait" \in DOMAIN ui /\ ui.wait \subseteq CheckoutsFlags
  BY DEF Flagged
<1>o. \A op \in DOMAIN CheckoutsWait : "orphan" \in CheckoutsWait[op]
  BY DEF CheckoutsWait
<1>f. \A c \in calls : c.req[1] \in DOMAIN CheckoutsWait => c.for \subseteq CheckoutsWait[c.req[1]]
  BY DEF Flagged, Pending
<1>a. ASSUME NEW c \in calls, Checkouts!ActFails(c)
      PROVE  "wait" \in DOMAIN ui' /\ ui'.wait = ui.wait \ c.for /\ calls' = calls \ {c}
  BY <1>w, <1>a DEF Checkouts!ActFails, Checkouts!Fails, Checkouts!Uses, Checkouts!Lower
<1>1. CASE Checkouts!CheckoutsLoaded \/ Checkouts!PreviewLoaded \/ Checkouts!Forget
  <2>1. PICK c \in calls : "wait" \in DOMAIN ui' /\ ui'.wait = ui.wait \ c.for /\ calls' = calls \ {c}
    BY <1>w, <1>1 DEF Checkouts!CheckoutsLoaded, Checkouts!PreviewLoaded, Checkouts!Forget, Checkouts!Answered,
       Checkouts!Takes, Checkouts!Fails, Checkouts!Uses, Checkouts!Lower
  <2> QED BY <2>1, TakenFlagged
<1>2. CASE Checkouts!NoticeCreated
  <2>1. PICK c \in calls :
          \/ "wait" \in DOMAIN ui' /\ ui'.wait = ui.wait \ c.for /\ calls' = calls \ {c}
          \/ /\ calls' = AskFor(calls \ {c}, <<"list", c.ctx>>, {"load"}, None)
             /\ "wait" \in DOMAIN ui' /\ ui'.wait = (ui.wait \ c.for) \union {"load"}
    BY <1>w, <1>2 DEF Checkouts!NoticeCreated, Checkouts!Answered, Checkouts!Fails, Checkouts!Fetching,
       Checkouts!Raise, Checkouts!Lower, Checkouts!Refetched, Checkouts!Ask
  <2> QED BY <1>w, <2>1, TakenFlagged, TurnedFlagged DEF CheckoutsFlags, CheckoutsWait
<1>3. CASE Checkouts!Inspected \/ Checkouts!Settled
  <2>1. PICK c, H :
          /\ c \in calls
          /\ c.for \subseteq H \union {"orphan"}
          /\ \/ Checkouts!ActFails(c)
             \/ /\ calls' = AskFor(Orphaned(calls \ {c}, H), <<"list", c.ctx>>, {"load"}, None)
                /\ "wait" \in DOMAIN ui' /\ ui'.wait = (ui.wait \ H) \union {"load"}
    <3>1. CASE Checkouts!Inspected
      <4>1. PICK c \in calls :
              /\ c.req[1] = "inspect"
              /\ \/ Checkouts!ActFails(c)
                 \/ /\ calls' = AskFor(Orphaned(calls \ {c}, {"inspect"}), <<"list", c.ctx>>, {"load"}, None)
                    /\ "wait" \in DOMAIN ui' /\ ui'.wait = (ui.wait \ {"inspect"}) \union {"load"}
        BY <1>w, <3>1 DEF Checkouts!Inspected, Checkouts!Answered, Checkouts!Op, Checkouts!Fetching,
           Checkouts!Raise, Checkouts!Without, Checkouts!Refetched, Checkouts!Ask
      <4>2. c.for \subseteq {"inspect"} \union {"orphan"}
        BY <1>f, <4>1 DEF CheckoutsWait
      <4> QED BY <4>1, <4>2
    <3>2. CASE Checkouts!Settled
      <4>1. PICK c \in calls :
              /\ c.req[1] \in {"approve", "execute"}
              /\ \/ Checkouts!ActFails(c)
                 \/ /\ calls' = AskFor(Orphaned(calls \ {c}, Checkouts!SettleFlags), <<"list", c.ctx>>, {"load"}, None)
                    /\ "wait" \in DOMAIN ui' /\ ui'.wait = (ui.wait \ Checkouts!SettleFlags) \union {"load"}
        BY <1>w, <3>2 DEF Checkouts!Settled, Checkouts!Answered, Checkouts!Op, Checkouts!Fetching,
           Checkouts!Raise, Checkouts!Without, Checkouts!Refetched, Checkouts!Ask
      <4>2. c.for \subseteq Checkouts!SettleFlags \union {"orphan"}
        BY <1>f, <4>1 DEF CheckoutsWait, Checkouts!SettleFlags
      <4> QED BY <4>1, <4>2, Zenon
    <3> QED BY <1>3, <3>1, <3>2
  <2>2. CASE Checkouts!ActFails(c)
    BY <1>a, <2>1, <2>2, TakenFlagged
  <2>3. CASE /\ calls' = AskFor(Orphaned(calls \ {c}, H), <<"list", c.ctx>>, {"load"}, None)
             /\ "wait" \in DOMAIN ui' /\ ui'.wait = (ui.wait \ H) \union {"load"}
    <3>1. ui'.wait \subseteq ((ui.wait \ c.for) \ H) \union {"load"}
      BY <1>w, <2>1, <2>3 DEF CheckoutsFlags
    <3>2. ui'.wait \subseteq CheckoutsFlags
      BY <1>w, <2>3 DEF CheckoutsFlags
    <3>3. "list" \notin DOMAIN CheckoutsWait
      BY DEF CheckoutsWait
    <3> QED BY <1>o, <2>3, <3>1, <3>2, <3>3, TurnedOrphanedFlagged
  <2> QED BY <2>1, <2>2, <2>3
<1>4. CASE Checkouts!Cancelled
  <2>1. PICK c \in calls :
          /\ c.req[1] = "cancel"
          /\ \/ Checkouts!ActFails(c)
             \/ /\ calls' = Orphaned(calls \ {c}, Checkouts!SettleFlags)
                /\ "wait" \in DOMAIN ui' /\ ui'.wait = ui.wait \ Checkouts!SettleFlags
    BY <1>w, <1>4 DEF Checkouts!Cancelled, Checkouts!Answered, Checkouts!Op, Checkouts!Without
  <2>2. CASE Checkouts!ActFails(c)
    BY <1>a, <2>1, <2>2, TakenFlagged
  <2>3. CASE ~Checkouts!ActFails(c)
    <3>1. c.for \subseteq Checkouts!SettleFlags \union {"orphan"}
      BY <1>f, <2>1 DEF CheckoutsWait, Checkouts!SettleFlags
    <3>2. ui'.wait \subseteq (ui.wait \ c.for) \ Checkouts!SettleFlags
      BY <1>w, <2>1, <2>3, <3>1 DEF CheckoutsFlags
    <3> QED BY <1>o, <2>1, <2>3, <3>2, TakenOrphanedFlagged
  <2> QED BY <2>2, <2>3
<1> QED BY <1>1, <1>2, <1>3, <1>4 DEF Checkouts!Deliver

\* and an answer of the server:
LEMMA CheckoutsFlaggedServes ==
    ASSUME CheckoutsFlagged, Checkouts!Serve PROVE CheckoutsFlagged'
<1>1. PICK c, a : c \in calls /\ calls' = (calls \ {c}) \union {[c EXCEPT !.ans = a]} /\ ui' = ui
  BY DEF Checkouts!Serve, Checkouts!ServeAny
<1> QED BY <1>1, ServedFlagged DEF CheckoutsFlagged

\* every step does.
LEMMA CheckoutsFlaggedStep ==
    ASSUME CheckoutsFlagged, Checkouts!Next PROVE CheckoutsFlagged'
BY CheckoutsFlaggedUser, CheckoutsFlaggedDelivers, CheckoutsFlaggedServes DEF Checkouts!Next, Checkouts!Step

-----------------------------------------------------------------------------
(* The complaints                                                          *)

\* What the page takes from WebPage is what the lemmas above are about.
LEMMA ComplaintsShares ==
    /\ \A cs, req, H, ctx : Complaints!AskFor(cs, req, H, ctx) = AskFor(cs, req, H, ctx)
    /\ \A cs, req, H, ctx : Complaints!Send(cs, req, H, ctx) = Send(cs, req, H, ctx)
    /\ \A cs : Complaints!Unmounted(cs) = Unmounted(cs)
    /\ \A cs, H : Complaints!Orphaned(cs, H) = Orphaned(cs, H)
<1>1. \A S : Complaints!Cardinality(S) = Cardinality(S)
  BY DEF Complaints!Cardinality, Cardinality
<1> QED BY <1>1 DEF Complaints!AskFor, AskFor, Complaints!Call, Call, Complaints!Send, Send,
             Complaints!Unmounted, Unmounted, Complaints!Orphaned, Orphaned

\* The flags of the page.
ComplaintsFlags == Complaints!Sections \union {"load", "submit"}

\* The user is asked for by the load of the list alone.
ComplaintsWait == [me |-> {"load"}]

\* The invariant of the page.
ComplaintsFlagged == Flagged(ComplaintsFlags, {}, ComplaintsWait)

\* It holds when the page is mounted,
LEMMA ComplaintsFlaggedFirst ==
    ASSUME Complaints!Init PROVE ComplaintsFlagged
<1>1. calls = AskFor({}, <<"me">>, {"load"}, None) /\ ui.wait = {"load"} /\ "wait" \in DOMAIN ui
  BY ComplaintsShares DEF Complaints!Init, Complaints!InitialUi, Complaints!Ask, Complaints!FirstKey
<1> QED BY <1>1, FirstFlagged DEF ComplaintsFlagged, ComplaintsFlags, ComplaintsWait

\* A change is sent by the page or by a section of it.
LEMMA ComplaintsPost ==
    ASSUME ComplaintsFlagged, NEW op \in Complaints!Sections, NEW value, Complaints!Post(op, value)
    PROVE  ComplaintsFlagged'
<1>w. "wait" \in DOMAIN ui /\ ui.wait \subseteq ComplaintsFlags
  BY DEF ComplaintsFlagged, Flagged
<1>1. /\ calls' = Send(calls, <<op, ui.at, value>>, {op}, None)
      /\ "wait" \in DOMAIN ui' /\ ui'.wait = ui.wait \union {op}
  BY <1>w, ComplaintsShares DEF Complaints!Post, Complaints!Submit, Complaints!Raise
<1>2. op \in ComplaintsFlags /\ op \notin DOMAIN ComplaintsWait
  BY DEF ComplaintsFlags, ComplaintsWait, Complaints!Sections
<1> QED BY <1>w, <1>1, <1>2, AskedFlagged DEF ComplaintsFlagged

\* whatever the user does keeps it,
LEMMA ComplaintsFlaggedUser ==
    ASSUME ComplaintsFlagged, Complaints!User PROVE ComplaintsFlagged'
<1> USE ComplaintsShares DEF ComplaintsFlagged
<1>w. "wait" \in DOMAIN ui /\ ui.wait \subseteq ComplaintsFlags
  BY DEF Flagged
<1>1. CASE \E at \in Rows \union {Complaints!List} : Complaints!Visit(at)
  <2>1. PICK req : /\ calls' = AskFor(Unmounted(calls), req, {"load"}, None)
                   /\ "wait" \in DOMAIN ui' /\ ui'.wait = {"load"}
    BY <1>1 DEF Complaints!Visit, Complaints!InitialUi, Complaints!Ask
  <2> QED BY <2>1, MountedFlagged DEF ComplaintsFlags, ComplaintsWait
<1>2. CASE \/ \E s \in {"all", "pending"} : Complaints!SetStatusFilter(s)
           \/ \E chosen \in BOOLEAN : Complaints!ChoosePhoto(chosen)
           \/ Complaints!OpenTriage
           \/ \E m \in {"confirm", "reopen"} : Complaints!OpenResolution(m)
           \/ Complaints!CloseComplaintModal
  <2>1. calls' = calls /\ "wait" \in DOMAIN ui' /\ ui'.wait = ui.wait
    BY <1>w, <1>2 DEF Complaints!SetStatusFilter, Complaints!ChoosePhoto, Complaints!OpenTriage,
       Complaints!OpenResolution, Complaints!CloseComplaintModal, Complaints!OpenModal, Complaints!CloseModal,
       Complaints!Show
  <2> QED BY <2>1, StillFlagged
<1>3. CASE Complaints!SubmitComplaint
  <2>1. PICK req, H : /\ calls' = Send(calls, req, H, None) /\ "submit" \in H
                      /\ req \in {<<"upload">>, <<"create">>}
                      /\ "wait" \in DOMAIN ui' /\ ui'.wait = ui.wait \union {"submit"}
    <3>1. CASE ui.photo
      BY <1>w, <1>3, <3>1 DEF Complaints!SubmitComplaint, Complaints!Raise
    <3>2. CASE ~ui.photo
      BY <1>w, <1>3, <3>2 DEF Complaints!SubmitComplaint, Complaints!Raise
    <3> QED BY <3>1, <3>2
  <2> QED BY <1>w, <2>1, AskedFlagged DEF ComplaintsFlags, ComplaintsWait
<1>4. CASE \/ Complaints!TriageComplaint \/ Complaints!AddComment \/ Complaints!ApplyAI
           \/ Complaints!CreateWorkOrder \/ Complaints!ConfirmResolution \/ Complaints!Reopen
  <2>1. PICK op, value : op \in Complaints!Sections /\ Complaints!Post(op, value)
    BY <1>4 DEF Complaints!TriageComplaint, Complaints!AddComment, Complaints!ApplyAI, Complaints!CreateWorkOrder,
       Complaints!ConfirmResolution, Complaints!Reopen, Complaints!Sections
  <2> QED BY <2>1, ComplaintsPost
<1>5. CASE (\E s \in {"resolved", "in_progress"} : Complaints!UpdateStatus(s)) \/ Complaints!CompleteWorkOrder
  <2>1. PICK req, H : calls' = Send(calls, req, H, None) /\ ui' = ui /\ req[1] \in {"status", "completed"}
    BY <1>5 DEF Complaints!UpdateStatus, Complaints!CompleteWorkOrder
  <2> QED BY <1>w, <2>1, AskedFlagged DEF ComplaintsWait
<1> QED BY <1>1, <1>2, <1>3, <1>4, <1>5 DEF Complaints!User

\* and so does whatever a continuation does,
LEMMA ComplaintsFlaggedDelivers ==
    ASSUME ComplaintsFlagged, Complaints!Deliver \/ Complaints!Forget PROVE ComplaintsFlagged'
<1> USE ComplaintsShares DEF ComplaintsFlagged
<1>w. "wait" \in DOMAIN ui /\ ui.wait \subseteq ComplaintsFlags
  BY DEF Flagged
<1>1. CASE Complaints!MeLoaded
  <2>1. PICK c \in calls :
          /\ c.req[1] = "me"
          /\ \/ "wait" \in DOMAIN ui' /\ ui'.wait = ui.wait \ c.for /\ calls' = calls \ {c}
             \/ ui' = ui /\ calls' = AskFor(calls \ {c}, <<"list">>, {"load"}, None)
    BY <1>w, <1>1 DEF Complaints!MeLoaded, Complaints!Answered, Complaints!Op, Complaints!Uses, Complaints!Lower,
       Complaints!Ask
  <2>2. c.for \subseteq {"load"}
    BY <2>1 DEF Flagged, Pending, ComplaintsWait
  <2> QED BY <1>w, <2>1, <2>2, TakenFlagged, TurnedFlagged DEF ComplaintsWait
<1>2. CASE Complaints!ComplaintsLoaded \/ Complaints!ComplaintLoaded \/ Complaints!Forget
  <2>1. PICK c \in calls : "wait" \in DOMAIN ui' /\ ui'.wait = ui.wait \ c.for /\ calls' = calls \ {c}
    BY <1>w, <1>2 DEF Complaints!ComplaintsLoaded, Complaints!ComplaintLoaded, Complaints!Forget,
       Complaints!Answered, Complaints!Uses, Complaints!Lower
  <2> QED BY <2>1, TakenFlagged
<1>3. CASE Complaints!PhotoUploaded
  <2>1. PICK c \in calls :
          \/ "wait" \in DOMAIN ui' /\ ui'.wait = ui.wait \ c.for /\ calls' = calls \ {c}
          \/ ui' = ui /\ calls' = Send(calls \ {c}, <<"create">>, c.for \ {"chain"}, None)
    BY <1>w, <1>3 DEF Complaints!PhotoUploaded, Complaints!Answered, Complaints!Fails, Complaints!Uses,
       Complaints!Lower
  <2>2. CASE ui' = ui /\ calls' = Send(calls \ {c}, <<"create">>, c.for \ {"chain"}, None)
    <3>1. ui'.wait \subseteq (ui.wait \ c.for) \union (c.for \ {"chain"})
      BY <1>w, <2>2 DEF ComplaintsFlags, Complaints!Sections
    <3> QED BY <1>w, <2>2, <3>1, TurnedFlagged DEF ComplaintsWait
  <2> QED BY <2>1, <2>2, TakenFlagged
<1>4. CASE Complaints!ComplaintCreated
  <2>1. PICK c, req :
          /\ c \in calls
          /\ \/ "wait" \in DOMAIN ui' /\ ui'.wait = ui.wait \ c.for /\ calls' = calls \ {c}
             \/ /\ calls' = AskFor(calls \ {c}, req, {"load"}, None)
                /\ "wait" \in DOMAIN ui' /\ ui'.wait = (ui.wait \ c.for) \union {"load"}
    BY <1>w, <1>4 DEF Complaints!ComplaintCreated, Complaints!Answered, Complaints!Fails, Complaints!Raise,
       Complaints!Lower, Complaints!Ask
  <2> QED BY <1>w, <2>1, TakenFlagged, TurnedFlagged DEF ComplaintsFlags, ComplaintsWait
<1>5. CASE Complaints!Posted
  <2>1. PICK c, u :
          /\ c \in calls
          /\ "wait" \in DOMAIN u /\ u.wait = ui.wait \ c.for
          /\ \/ Complaints!Uses(c, u)
             \/ ui' = Complaints!Reloading(u) /\ calls' = Complaints!Reload(calls \ {c})
    BY <1>w, <1>5 DEF Complaints!Posted, Complaints!Answered, Complaints!Lower
  <2>2. CASE Complaints!Uses(c, u)
    BY <2>1, <2>2, TakenFlagged DEF Complaints!Uses, Complaints!Lower
  <2>3. CASE ui' = Complaints!Reloading(u) /\ calls' = Complaints!Reload(calls \ {c})
    <3>1. PICK req : calls' = AskFor(Orphaned(calls \ {c}, Complaints!Sections), req, {"load"}, None)
      BY <2>3 DEF Complaints!Reload, Complaints!Ask
    <3>2. "wait" \in DOMAIN ui' /\ ui'.wait \subseteq ((ui.wait \ c.for) \ Complaints!Sections) \union {"load"}
      BY <2>1, <2>3 DEF Complaints!Reloading
    <3>3. /\ ui'.wait \subseteq ComplaintsFlags
          /\ \A op \in DOMAIN ComplaintsWait : ComplaintsWait[op] \intersect Complaints!Sections = {}
          /\ req[1] \in DOMAIN ComplaintsWait => {"load"} \subseteq ComplaintsWait[req[1]]
      BY <1>w, <3>2 DEF ComplaintsFlags, ComplaintsWait, Complaints!Sections
    <3> QED BY <3>1, <3>2, <3>3, TurnedOrphanedFlagged
  <2> QED BY <2>1, <2>2, <2>3
<1> QED BY <1>1, <1>2, <1>3, <1>4, <1>5 DEF Complaints!Deliver

\* and an answer of the server:
LEMMA ComplaintsFlaggedServes ==
    ASSUME ComplaintsFlagged, Complaints!Serve PROVE ComplaintsFlagged'
<1>1. PICK c, a : c \in calls /\ calls' = (calls \ {c}) \union {[c EXCEPT !.ans = a]} /\ ui' = ui
  BY DEF Complaints!Serve, Complaints!ServeAny
<1> QED BY <1>1, ServedFlagged DEF ComplaintsFlagged

\* every step does.
LEMMA ComplaintsFlaggedStep ==
    ASSUME ComplaintsFlagged, Complaints!Next PROVE ComplaintsFlagged'
BY ComplaintsFlaggedUser, ComplaintsFlaggedDelivers, ComplaintsFlaggedServes DEF Complaints!Next, Complaints!Step

-----------------------------------------------------------------------------
(* The rooms                                                               *)

\* What the page takes from WebPage is what the lemmas above are about.
LEMMA RoomsShares ==
    /\ \A cs, req, H, ctx : Rooms!AskFor(cs, req, H, ctx) = AskFor(cs, req, H, ctx)
    /\ \A cs, req, H, ctx : Rooms!Send(cs, req, H, ctx) = Send(cs, req, H, ctx)
    /\ \A cs : Rooms!Unmounted(cs) = Unmounted(cs)
<1>1. \A S : Rooms!Cardinality(S) = Cardinality(S)
  BY DEF Rooms!Cardinality, Cardinality
<1> QED BY <1>1 DEF Rooms!AskFor, AskFor, Rooms!Call, Call, Rooms!Send, Send,
             Rooms!Unmounted, Unmounted

\* The invariant of the page.
RoomsFlagged == Flagged({"load"}, {}, Anyone)

\* It holds when the page is mounted,
LEMMA RoomsFlaggedFirst ==
    ASSUME Rooms!Init PROVE RoomsFlagged
<1>1. calls = AskFor({}, <<"rooms">>, {"load"}, None) /\ ui.wait = {"load"} /\ "wait" \in DOMAIN ui
  BY RoomsShares DEF Rooms!Init, Rooms!InitialUi, Rooms!Ask
<1> QED BY <1>1, FirstFlagged DEF RoomsFlagged, Anyone

\* whatever the user does keeps it,
LEMMA RoomsFlaggedUser ==
    ASSUME RoomsFlagged, Rooms!User PROVE RoomsFlagged'
<1> USE RoomsShares DEF RoomsFlagged
<1>w. "wait" \in DOMAIN ui /\ ui.wait \subseteq {"load"}
  BY DEF Flagged
<1>1. CASE \/ \E t \in {"all", "available", "occupied"} : Rooms!SetTab(t)
           \/ \E v \in {"list", "grid"} : Rooms!SetView(v)
           \/ Rooms!ExportRooms
           \/ \E p \in 1 .. 2 : Rooms!SetPage(p)
           \/ \E r \in Rows, m \in {"edit", "delete"} : Rooms!OpenRoom(r, m)
           \/ Rooms!Incomplete({"edit"})
           \/ \E m \in {"edit", "delete"} : Rooms!CloseModal(m)
  <2>1. calls' = calls /\ "wait" \in DOMAIN ui' /\ ui'.wait = ui.wait
    BY <1>w, <1>1 DEF Rooms!SetTab, Rooms!SetView, Rooms!ExportRooms, Rooms!SetPage, Rooms!OpenRoom,
       Rooms!Incomplete, Rooms!CloseModal, Rooms!Show
  <2> QED BY <2>1, StillFlagged
<1>2. CASE Rooms!SubmitRoom
  <2>1. PICK req : /\ calls' = Send(calls, req, {"load"}, None)
                   /\ "wait" \in DOMAIN ui' /\ ui'.wait = ui.wait \union {"load"}
    BY <1>w, <1>2 DEF Rooms!SubmitRoom, Rooms!Fetching, Rooms!Raise
  <2> QED BY <1>w, <2>1, AskedFlagged DEF Anyone
<1>3. CASE \E withTenant \in BOOLEAN : Rooms!ConfirmDelete(withTenant)
  <2>1. PICK req : calls' = Send(calls, req, {"delete"}, None) /\ ui' = ui
    BY <1>3 DEF Rooms!ConfirmDelete
  <2> QED BY <1>w, <2>1, AskedFlagged DEF Anyone
<1>4. CASE Rooms!Remount
  <2>1. /\ calls' = AskFor(Unmounted(calls), <<"rooms">>, {"load"}, None)
        /\ "wait" \in DOMAIN ui' /\ ui'.wait = {"load"}
    BY <1>4 DEF Rooms!Remount, Rooms!InitialUi, Rooms!Ask
  <2> QED BY <2>1, MountedFlagged DEF Anyone
<1> QED BY <1>1, <1>2, <1>3, <1>4 DEF Rooms!User

\* and so does whatever a continuation does,
LEMMA RoomsFlaggedDelivers ==
    ASSUME RoomsFlagged, Rooms!Deliver \/ Rooms!Forget PROVE RoomsFlagged'
<1> USE RoomsShares DEF RoomsFlagged
<1>w. "wait" \in DOMAIN ui /\ ui.wait \subseteq {"load"}
  BY DEF Flagged
<1>1. CASE Rooms!RoomsLoaded \/ Rooms!Forget
  <2>1. PICK c \in calls : "wait" \in DOMAIN ui' /\ ui'.wait = ui.wait \ c.for /\ calls' = calls \ {c}
    BY <1>w, <1>1 DEF Rooms!RoomsLoaded, Rooms!Forget, Rooms!Answered, Rooms!Takes, Rooms!Fails, Rooms!Uses,
       Rooms!Lower
  <2> QED BY <2>1, TakenFlagged
<1>2. CASE Rooms!RoomSaved \/ Rooms!RoomDeleted
  <2>1. PICK c \in calls :
          \/ "wait" \in DOMAIN ui' /\ ui'.wait = ui.wait \ c.for /\ calls' = calls \ {c}
          \/ /\ calls' = AskFor(calls \ {c}, <<"rooms">>, {"load"}, None)
             /\ "wait" \in DOMAIN ui' /\ ui'.wait \subseteq {"load"}
    BY <1>w, <1>2 DEF Rooms!RoomSaved, Rooms!RoomDeleted, Rooms!Answered, Rooms!Fails, Rooms!Raise, Rooms!Lower,
       Rooms!Ask
  <2> QED BY <1>w, <2>1, TakenFlagged, TurnedFlagged DEF Anyone
<1> QED BY <1>1, <1>2 DEF Rooms!Deliver

\* and an answer of the server:
LEMMA RoomsFlaggedServes ==
    ASSUME RoomsFlagged, Rooms!Serve PROVE RoomsFlagged'
<1>1. PICK c, a : c \in calls /\ calls' = (calls \ {c}) \union {[c EXCEPT !.ans = a]} /\ ui' = ui
  BY DEF Rooms!Serve, Rooms!ServeAny
<1> QED BY <1>1, ServedFlagged DEF RoomsFlagged

\* every step does.
LEMMA RoomsFlaggedStep ==
    ASSUME RoomsFlagged, Rooms!Next PROVE RoomsFlagged'
BY RoomsFlaggedUser, RoomsFlaggedDelivers, RoomsFlaggedServes DEF Rooms!Next, Rooms!Step

-----------------------------------------------------------------------------
(* The wizard that adds a room                                             *)

\* What the page takes from WebPage is what the lemmas above are about.
LEMMA WizardShares ==
    /\ \A cs, req, H, ctx : Wizard!AskFor(cs, req, H, ctx) = AskFor(cs, req, H, ctx)
    /\ \A cs, req, H, ctx : Wizard!Send(cs, req, H, ctx) = Send(cs, req, H, ctx)
    /\ \A cs : Wizard!Unmounted(cs) = Unmounted(cs)
<1>1. \A S : Wizard!Cardinality(S) = Cardinality(S)
  BY DEF Wizard!Cardinality, Cardinality
<1> QED BY <1>1 DEF Wizard!AskFor, AskFor, Wizard!Call, Call, Wizard!Send, Send,
             Wizard!Unmounted, Unmounted

\* The flags of the page.
WizardFlags == {"submit", "fetch"}

\* The invariant of the page.
WizardFlagged == Flagged(WizardFlags, {}, Anyone)

\* A wizard that starts waits for nothing.
LEMMA WizardFresh ==
    "wait" \in DOMAIN Wizard!InitialUi /\ Wizard!InitialUi.wait = {}
BY DEF Wizard!InitialUi

\* It holds when the page is mounted,
LEMMA WizardFlaggedFirst ==
    ASSUME Wizard!Init PROVE WizardFlagged
<1>1. ui.wait = {} /\ "wait" \in DOMAIN ui
  BY DEF Wizard!Init, Wizard!InitialUi
<1>2. CASE calls = {}
  BY <1>1, <1>2, FS_EmptySet DEF WizardFlagged, Flagged, Pending, Requests
<1>3. CASE calls # {}
  <2>1. PICK r : calls = AskFor({}, <<"room", r>>, {"fetch"}, None)
    BY <1>3, WizardShares DEF Wizard!Init
  <2> QED BY <1>1, <2>1, FirstFlagged DEF WizardFlagged, WizardFlags, Anyone
<1> QED BY <1>2, <1>3

\* whatever the user does keeps it,
LEMMA WizardFlaggedUser ==
    ASSUME WizardFlagged, Wizard!User PROVE WizardFlagged'
<1> USE WizardShares DEF WizardFlagged
<1>w. "wait" \in DOMAIN ui /\ ui.wait \subseteq WizardFlags
  BY DEF Flagged
<1>1. CASE \/ \E s \in {"available", "occupied"} : Wizard!ChooseStatus(s)
           \/ \E section \in 1 .. 3 : Wizard!Edit(section)
           \/ Wizard!GoNext \/ Wizard!GoBack
  <2>1. calls' = calls /\ "wait" \in DOMAIN ui' /\ ui'.wait = ui.wait
    BY <1>w, <1>1 DEF Wizard!ChooseStatus, Wizard!Edit, Wizard!GoNext, Wizard!GoBack, Wizard!Show
  <2> QED BY <2>1, StillFlagged
<1>2. CASE Wizard!SaveDraft \/ Wizard!SubmitRoom
  <2>1. PICK req : /\ calls' = Send(calls, req, {"submit"}, None)
                   /\ "wait" \in DOMAIN ui' /\ ui'.wait = ui.wait \union {"submit"}
    BY <1>w, <1>2 DEF Wizard!SaveDraft, Wizard!SubmitRoom, Wizard!SubmitToServer, Wizard!Raise
  <2> QED BY <1>w, <2>1, AskedFlagged DEF Anyone, WizardFlags
<1>3. CASE Wizard!Leave
  <2>1. "wait" \in DOMAIN ui' /\ ui'.wait = {}
    <3>1. ui' = Wizard!InitialUi
      BY <1>3 DEF Wizard!Leave, Wizard!Visit
    <3> QED BY <3>1, WizardFresh
  <2>2. CASE calls' = Unmounted(calls)
    BY <2>1, <2>2, UnmountedPending DEF Flagged, Pending
  <2>3. CASE calls' # Unmounted(calls)
    <3>1. PICK r : calls' = AskFor(Unmounted(calls), <<"room", r>>, {"fetch"}, None)
      BY <1>3, <2>3 DEF Wizard!Leave, Wizard!Visit
    <3> QED BY <2>1, <3>1, MountedFlagged DEF WizardFlags, Anyone
  <2> QED BY <2>2, <2>3
<1> QED BY <1>1, <1>2, <1>3 DEF Wizard!User

\* and so does whatever a continuation does,
LEMMA WizardFlaggedDelivers ==
    ASSUME WizardFlagged, Wizard!Deliver \/ Wizard!Forget PROVE WizardFlagged'
<1> USE WizardShares DEF WizardFlagged
<1>w. "wait" \in DOMAIN ui /\ ui.wait \subseteq WizardFlags
  BY DEF Flagged
<1>1. PICK c \in calls :
        \/ "wait" \in DOMAIN ui' /\ ui'.wait = ui.wait \ c.for /\ calls' = calls \ {c}
        \/ "wait" \in DOMAIN ui' /\ ui'.wait = {} /\ calls' = Unmounted(calls \ {c})
  <2>1. CASE Wizard!RoomFetched \/ Wizard!Forget
    BY <1>w, <2>1 DEF Wizard!RoomFetched, Wizard!Forget, Wizard!Answered, Wizard!Uses, Wizard!Lower
  <2>2. CASE Wizard!Stored
    <3>1. PICK c \in calls : Wizard!Fails(c) \/ (ui' = Wizard!InitialUi /\ calls' = Unmounted(calls \ {c}))
      BY <2>2 DEF Wizard!Stored, Wizard!Answered
    <3>2. CASE Wizard!Fails(c)
      BY <1>w, <3>2 DEF Wizard!Fails, Wizard!Lower
    <3> QED BY <3>1, <3>2, WizardFresh
  <2> QED BY <2>1, <2>2 DEF Wizard!Deliver
<1>2. CASE ui'.wait = {} /\ calls' = Unmounted(calls \ {c}) /\ "wait" \in DOMAIN ui'
  <2>1. Pending(calls \ {c}, (ui.wait \ {}) \ c.for, Anyone)
    BY TakenPending DEF Flagged
  <2>2. Pending(calls', {}, Anyone)
    BY <1>2, <2>1, UnmountedPending
  <2> QED BY <1>2, <2>2 DEF Flagged, Pending
<1> QED BY <1>1, <1>2, TakenFlagged

\* and an answer of the server:
LEMMA WizardFlaggedServes ==
    ASSUME WizardFlagged, Wizard!Serve PROVE WizardFlagged'
<1>1. PICK c, a : c \in calls /\ calls' = (calls \ {c}) \union {[c EXCEPT !.ans = a]} /\ ui' = ui
  BY DEF Wizard!Serve, Wizard!ServeAny
<1> QED BY <1>1, ServedFlagged DEF WizardFlagged

\* every step does.
LEMMA WizardFlaggedStep ==
    ASSUME WizardFlagged, Wizard!Next PROVE WizardFlagged'
BY WizardFlaggedUser, WizardFlaggedDelivers, WizardFlaggedServes DEF Wizard!Next, Wizard!Step

-----------------------------------------------------------------------------
(* The tenant's profile                                                    *)

\* What the page takes from WebPage is what the lemmas above are about.
LEMMA ProfileShares ==
    /\ \A cs, req, H, ctx : Profile!AskFor(cs, req, H, ctx) = AskFor(cs, req, H, ctx)
    /\ \A cs, req, H, ctx : Profile!Send(cs, req, H, ctx) = Send(cs, req, H, ctx)
    /\ \A cs, H : Profile!Orphaned(cs, H) = Orphaned(cs, H)
<1>1. \A S : Profile!Cardinality(S) = Cardinality(S)
  BY DEF Profile!Cardinality, Cardinality
<1> QED BY <1>1 DEF Profile!AskFor, AskFor, Profile!Call, Call, Profile!Send, Send,
             Profile!Orphaned, Orphaned

\* The flags of the page.
ProfileFlags == Profile!Inner \union {"load", "edit", "extend", "checkout"}

\* A load of the page is waited for by the page, or by nobody.
ProfileWait == [profile |-> {"load", "stray"}]

\* The invariant of the page.
ProfileFlagged == Flagged(ProfileFlags, {"preview"}, ProfileWait)

\* It holds when the page is mounted,
LEMMA ProfileFlaggedFirst ==
    ASSUME Profile!Init PROVE ProfileFlagged
<1>1. calls = AskFor({}, <<"profile">>, {"load"}, None) /\ ui.wait = {"load"} /\ "wait" \in DOMAIN ui
  BY ProfileShares DEF Profile!Init, Profile!InitialUi, Profile!Ask
<1> QED BY <1>1, FirstFlagged DEF ProfileFlagged, ProfileFlags, ProfileWait

\* The page is left: what still waits are the changes that load it when they
\* are done.
LEMMA LeftPending ==
    ASSUME NEW cs, NEW W, Pending(cs, W, ProfileWait) PROVE Pending(Profile!Left(cs), {}, ProfileWait)
<1> DEFINE x(c) == IF c.req[1] = "profile" THEN {"stray"} ELSE c.for \intersect {"chain"}
           g(c) == [c EXCEPT !.for = x(c)]
           f == [c \in cs |-> g(c)]
<1>1. Profile!Left(cs) = {f[c] : c \in cs}
  BY DEF Profile!Left, Profile!Op
<1>2. \A c \in cs : DOMAIN f[c] = Fields /\ f[c].req = c.req /\ f[c].n = c.n /\ f[c].for = x(c)
  BY DEF Requests, Fields, Pending
<1>3. \A c \in cs : c.req[1] \in DOMAIN ProfileWait => x(c) \subseteq ProfileWait[c.req[1]]
  BY DEF Pending, ProfileWait
<1> HIDE DEF f, x
<1>4. Requests(Profile!Left(cs))
  BY <1>1, <1>2, Rewired DEF Pending
<1> QED BY <1>1, <1>2, <1>3, <1>4 DEF Pending

\* The profile that is mounted asks for its sections.
LEMMA ProfileFresh ==
    /\ "wait" \in DOMAIN Profile!InitialUi /\ Profile!InitialUi.wait = {"load"}
    /\ "wait" \in DOMAIN Profile!Tenants /\ Profile!Tenants.wait = {}
BY DEF Profile!InitialUi, Profile!Tenants

\* The view is mounted, with the request of the history or without.
LEMMA ProfileMounted ==
    ASSUME NEW cs, NEW W, Pending(cs, W, ProfileWait), NEW u, "wait" \in DOMAIN u,
           u.wait \subseteq ProfileFlags, u.wait \ {"preview"} \subseteq W, Profile!Mounted(u, cs)
    PROVE  ProfileFlagged'
<1>1. CASE Profile!History(u)
  <2>1. /\ calls' = AskFor(cs, <<"history", FALSE>>, {"history"}, None)
        /\ "wait" \in DOMAIN ui' /\ ui'.wait = u.wait \union {"history"}
    BY <1>1, ProfileShares DEF Profile!Mounted, Profile!Raise, Profile!Ask
  <2>2. ui'.wait \subseteq ProfileFlags /\ ui'.wait \ {"preview"} \subseteq W \union {"history"}
    BY <2>1 DEF ProfileFlags, Profile!Inner
  <2> QED BY <2>1, <2>2, AsksFlagged DEF ProfileFlagged, ProfileWait
<1>2. CASE ~Profile!History(u)
  BY <1>2 DEF Profile!Mounted, ProfileFlagged, Flagged, Pending
<1> QED BY <1>1, <1>2

\* A change to the tenant, with the flag of who sends it.
LEMMA ProfileChange ==
    ASSUME ProfileFlagged, NEW form \in {"edit", "extend", "checkout"}, NEW req, req[1] = form, Profile!Change(form, req)
    PROVE  ProfileFlagged'
<1>w. "wait" \in DOMAIN ui /\ ui.wait \subseteq ProfileFlags
  BY DEF ProfileFlagged, Flagged
<1>1. /\ calls' = Send(calls, req, {form, "chain"}, None)
      /\ "wait" \in DOMAIN ui' /\ ui'.wait = ui.wait \union {form}
  BY <1>w, ProfileShares DEF Profile!Change, Profile!Raise
<1>2. ui'.wait \subseteq ProfileFlags /\ req[1] \notin DOMAIN ProfileWait
  BY <1>w, <1>1 DEF ProfileFlags, ProfileWait
<1> QED BY <1>1, <1>2, AskedFlagged DEF ProfileFlagged

\* whatever the user does keeps it,
LEMMA ProfileFlaggedUser ==
    ASSUME ProfileFlagged, Profile!User PROVE ProfileFlagged'
<1> USE ProfileShares DEF ProfileFlagged
<1>w. "wait" \in DOMAIN ui /\ ui.wait \subseteq ProfileFlags
  BY DEF Flagged
<1>1. CASE \E m \in {"ringkasan", "aktivitas", "histori-kamar"} : Profile!OpenMenu(m)
  <2>1. PICK u : /\ "wait" \in DOMAIN u /\ u.wait = ui.wait \ Profile!Inner
                 /\ Profile!Mounted(u, Orphaned(calls, {"history", "reset"}))
    BY <1>w, <1>1 DEF Profile!OpenMenu
  <2>2. Pending(Orphaned(calls, {"history", "reset"}), (ui.wait \ {"preview"}) \ {"history", "reset"}, ProfileWait)
    BY OrphanedPending DEF Flagged, ProfileWait
  <2>3. u.wait \subseteq ProfileFlags /\ u.wait \ {"preview"} \subseteq (ui.wait \ {"preview"}) \ {"history", "reset"}
    BY <1>w, <2>1 DEF Profile!Inner
  <2> QED BY <2>1, <2>2, <2>3, ProfileMounted
<1>2. CASE \/ \E f \in {"all", "kontrak"} : Profile!SetActivityFilter(f)
           \/ Profile!SetHistoryDates
           \/ \E f \in {"edit", "extend", "checkout", "transfer"} : Profile!OpenForm(f)
           \/ Profile!ExtendTooEarly \/ Profile!TypeProfile \/ Profile!CloseForm
  <2>1. calls' = calls /\ "wait" \in DOMAIN ui' /\ ui'.wait = ui.wait
    BY <1>w, <1>2 DEF Profile!SetActivityFilter, Profile!SetHistoryDates, Profile!OpenForm, Profile!ExtendTooEarly,
       Profile!TypeProfile, Profile!CloseForm, Profile!OpenModal, Profile!CloseModal, Profile!Show
  <2> QED BY <2>1, StillFlagged
<1>3. CASE Profile!ApplyHistoryFilter
  <2>1. PICK d : /\ calls' = AskFor(calls, <<"history", d>>, {"history"}, None)
                 /\ "wait" \in DOMAIN ui' /\ ui'.wait = ui.wait \union {"history"}
    BY <1>w, <1>3 DEF Profile!ApplyHistoryFilter, Profile!Raise, Profile!Ask
  <2> QED BY <1>w, <2>1, AskedFlagged DEF ProfileFlags, ProfileWait, Profile!Inner
<1>4. CASE Profile!ResetHistoryFilter
  <2>1. PICK d : /\ calls' = AskFor(calls, <<"history", d>>, {"reset"}, None)
                 /\ "wait" \in DOMAIN ui' /\ ui'.wait = ui.wait
    BY <1>w, <1>4 DEF Profile!ResetHistoryFilter, Profile!Ask
  <2> QED BY <1>w, <2>1, AskedFlagged DEF ProfileWait
<1>5. CASE Profile!EditProfileSubmit \/ Profile!ExtendContractSubmit \/ Profile!CheckoutSubmit
  BY <1>5, ProfileChange DEF Profile!EditProfileSubmit, Profile!ExtendContractSubmit, Profile!CheckoutSubmit
<1>6. CASE \E r \in Vacancies \union {None} : Profile!ChooseRoom(r)
  <2>1. calls' = Orphaned(calls, {"preview"}) /\ "wait" \in DOMAIN ui' /\ ui'.wait = ui.wait
    BY <1>w, <1>6 DEF Profile!ChooseRoom
  <2> QED BY <1>w, <2>1, OrphanedFlagged DEF ProfileWait
<1>7. CASE \E direct \in BOOLEAN : Profile!SubmitTransfer(direct)
  <2>1. PICK r, ctx : /\ calls' = Send(calls, <<"create", r>>, {"transfer", "chain"}, ctx)
                      /\ "wait" \in DOMAIN ui' /\ ui'.wait = ui.wait \union {"transfer"}
    BY <1>w, <1>7 DEF Profile!SubmitTransfer, Profile!Raise
  <2> QED BY <1>w, <2>1, AskedFlagged DEF ProfileFlags, ProfileWait, Profile!Inner
<1>8. CASE Profile!Leave
  <2>1. calls' = Profile!Left(calls) /\ "wait" \in DOMAIN ui' /\ ui'.wait = {}
    BY <1>8, ProfileFresh DEF Profile!Leave
  <2>2. Pending(calls', {}, ProfileWait)
    BY <2>1, LeftPending DEF Flagged
  <2> QED BY <2>1, <2>2 DEF Flagged, Pending
<1>9. CASE Profile!Visit
  <2>1. /\ calls' = AskFor(Profile!Left(calls), <<"profile">>, {"load"}, None)
        /\ "wait" \in DOMAIN ui' /\ ui'.wait = {"load"}
    BY <1>9, ProfileFresh DEF Profile!Visit, Profile!Ask
  <2>2. Pending(Profile!Left(calls), {}, ProfileWait)
    BY LeftPending DEF Flagged
  <2> QED BY <2>1, <2>2, AsksFlagged DEF ProfileFlags, ProfileWait
<1> QED BY <1>1, <1>2, <1>3, <1>4, <1>5, <1>6, <1>7, <1>8, <1>9 DEF Profile!User

\* A change that is done is followed by a load, of the page or of none.
LEMMA ProfileDone ==
    ASSUME ProfileFlagged, NEW c \in calls, NEW form, Profile!Done(c, form) PROVE ProfileFlagged'
<1> USE ProfileShares DEF ProfileFlagged
<1>w. "wait" \in DOMAIN ui /\ ui.wait \subseteq ProfileFlags
  BY DEF Flagged
<1>1. CASE Profile!Gone(c)
  <2>1. ui' = ui /\ calls' = AskFor(calls \ {c}, <<"profile">>, {"stray"}, None) /\ c.for = {"chain"}
    BY <1>1 DEF Profile!Done, Profile!Gone, Profile!Ask
  <2>2. "wait" \in DOMAIN ui' /\ ui'.wait \subseteq ProfileFlags /\ ui'.wait \subseteq (ui.wait \ c.for) \union {"stray"}
    BY <1>w, <2>1 DEF ProfileFlags, Profile!Inner
  <2> QED BY <2>1, <2>2, TurnedFlagged DEF ProfileWait
<1>2. CASE ~Profile!Gone(c)
  <2>1. /\ calls' = AskFor(Orphaned(calls \ {c}, Profile!Inner), <<"profile">>, {"load"}, None)
        /\ "wait" \in DOMAIN ui' /\ ui'.wait = ((ui.wait \ c.for) \union {"load"}) \ Profile!Inner
    BY <1>w, <1>2 DEF Profile!Done, Profile!Spinner, Profile!Raise, Profile!Lower, Profile!Ask
  <2>2. /\ ui'.wait \subseteq ProfileFlags
        /\ ui'.wait \subseteq ((ui.wait \ c.for) \ Profile!Inner) \union {"load"}
        /\ \A op \in DOMAIN ProfileWait : ProfileWait[op] \intersect Profile!Inner = {}
    BY <1>w, <2>1 DEF ProfileFlags, ProfileWait, Profile!Inner
  <2> QED BY <2>1, <2>2, TurnedOrphanedFlagged DEF ProfileWait
<1> QED BY <1>1, <1>2

\* and so does whatever a continuation does,
LEMMA ProfileFlaggedDelivers ==
    ASSUME ProfileFlagged, Profile!Deliver \/ Profile!Forget PROVE ProfileFlagged'
<1> USE ProfileShares DEF ProfileFlagged
<1>w. "wait" \in DOMAIN ui /\ ui.wait \subseteq ProfileFlags
  BY DEF Flagged
<1>1. CASE Profile!ProfileLoaded
  <2>1. PICK c \in calls :
          /\ c.req[1] = "profile"
          /\ \/ ui' = Profile!Tenants /\ calls' = Profile!Left(calls \ {c})
             \/ "load" \notin c.for /\ ui' = ui /\ calls' = calls \ {c}
             \/ Profile!Mounted([Profile!Lower(ui, c) EXCEPT !.held = Profile!Profile(c.ans.db),
                                                             !.form = c.ans.db.profile], calls \ {c})
    BY <1>1 DEF Profile!ProfileLoaded, Profile!Answered, Profile!Op
  <2>2. Pending(calls \ {c}, (ui.wait \ {"preview"}) \ c.for, ProfileWait)
    BY TakenPending DEF Flagged
  <2>3. CASE ui' = Profile!Tenants /\ calls' = Profile!Left(calls \ {c})
    <3>1. "wait" \in DOMAIN ui' /\ ui'.wait = {}
      BY <2>3, ProfileFresh
    <3>2. Pending(calls', {}, ProfileWait)
      BY <2>2, <2>3, LeftPending
    <3> QED BY <3>1, <3>2 DEF Flagged, Pending
  <2>4. CASE "load" \notin c.for /\ ui' = ui /\ calls' = calls \ {c}
    <3>1. c.for \subseteq {"stray"}
      BY <2>1, <2>4 DEF Flagged, Pending, ProfileWait
    <3>2. "wait" \in DOMAIN ui' /\ ui'.wait \subseteq ui.wait \ c.for
      BY <1>w, <2>4, <3>1 DEF ProfileFlags, Profile!Inner
    <3> QED BY <2>4, <3>2, TakenFlagged
  <2>5. CASE \E held, form : Profile!Mounted([Profile!Lower(ui, c) EXCEPT !.held = held, !.form = form], calls \ {c})
    <3>1. PICK u : /\ "wait" \in DOMAIN u /\ u.wait = ui.wait \ c.for
                   /\ Profile!Mounted(u, calls \ {c})
      BY <1>w, <2>5 DEF Profile!Lower
    <3>2. u.wait \subseteq ProfileFlags /\ u.wait \ {"preview"} \subseteq (ui.wait \ {"preview"}) \ c.for
      BY <1>w, <3>1
    <3> QED BY <2>2, <3>1, <3>2, ProfileMounted
  <2> QED BY <2>1, <2>3, <2>4, <2>5
<1>r. ASSUME NEW c \in calls, Profile!Refused(c) PROVE ProfileFlagged'
  <2>1. "wait" \in DOMAIN ui' /\ ui'.wait = ui.wait \ c.for /\ calls' = calls \ {c}
    BY <1>w, <1>r DEF Profile!Refused, Profile!Uses, Profile!Lower
  <2> QED BY <2>1, TakenFlagged
<1>2. CASE Profile!HistoryLoaded \/ Profile!PreviewLoaded \/ Profile!Forget
  <2>1. PICK c \in calls : "wait" \in DOMAIN ui' /\ ui'.wait = ui.wait \ c.for /\ calls' = calls \ {c}
    BY <1>w, <1>2 DEF Profile!HistoryLoaded, Profile!PreviewLoaded, Profile!Forget, Profile!Answered,
       Profile!Uses, Profile!Lower
  <2> QED BY <2>1, TakenFlagged
<1>3. CASE Profile!Changed \/ Profile!TransferExecuted
  <2>1. PICK c, form : c \in calls /\ (Profile!Refused(c) \/ Profile!Done(c, form))
    BY <1>3 DEF Profile!Changed, Profile!TransferExecuted, Profile!Answered
  <2> QED BY <1>r, <2>1, ProfileDone
<1>4. CASE Profile!FetchPreview
  <2>1. PICK r : /\ calls' = Send(calls, <<"preview", r>>, {"preview"}, None)
                 /\ "wait" \in DOMAIN ui' /\ ui'.wait = ui.wait \union {"preview"}
    BY <1>w, <1>4 DEF Profile!FetchPreview, Profile!Raise
  <2> QED BY <1>w, <2>1, AskedFlagged DEF ProfileFlags, ProfileWait, Profile!Inner
<1>5. CASE Profile!TransferCreated \/ Profile!TransferApproved
  <2>1. PICK c, req :
          /\ c \in calls
          /\ \/ Profile!Refused(c)
             \/ Profile!Done(c, "transfer")
             \/ /\ req[1] \in {"approve", "execute"} /\ ui' = ui
                /\ calls' = Send(calls \ {c}, req, c.for, c.ctx)
    BY <1>5 DEF Profile!TransferCreated, Profile!TransferApproved, Profile!Answered
  <2>2. CASE req[1] \in {"approve", "execute"} /\ ui' = ui /\ calls' = Send(calls \ {c}, req, c.for, c.ctx)
    BY <1>w, <2>2, TurnedFlagged DEF ProfileWait
  <2> QED BY <1>r, <2>1, <2>2, ProfileDone
<1> QED BY <1>1, <1>2, <1>3, <1>4, <1>5 DEF Profile!Deliver

\* and an answer of the server:
LEMMA ProfileFlaggedServes ==
    ASSUME ProfileFlagged, Profile!Serve PROVE ProfileFlagged'
<1>1. PICK c, a : c \in calls /\ calls' = (calls \ {c}) \union {[c EXCEPT !.ans = a]} /\ ui' = ui
  BY DEF Profile!Serve, Profile!ServeAny
<1> QED BY <1>1, ServedFlagged DEF ProfileFlagged

\* every step does.
LEMMA ProfileFlaggedStep ==
    ASSUME ProfileFlagged, Profile!Next PROVE ProfileFlagged'
BY ProfileFlaggedUser, ProfileFlaggedDelivers, ProfileFlaggedServes DEF Profile!Next, Profile!Step

-----------------------------------------------------------------------------
(* The notifications                                                       *)

\* What the page takes from WebPage is what the lemmas above are about.
LEMMA NotificationsShares ==
    /\ \A cs, req, H, ctx : Notifications!AskFor(cs, req, H, ctx) = AskFor(cs, req, H, ctx)
    /\ \A cs, req, H, ctx : Notifications!Send(cs, req, H, ctx) = Send(cs, req, H, ctx)
    /\ \A cs, H : Notifications!Orphaned(cs, H) = Orphaned(cs, H)
<1>1. \A S : Notifications!Cardinality(S) = Cardinality(S)
  BY DEF Notifications!Cardinality, Cardinality
<1> QED BY <1>1 DEF Notifications!AskFor, AskFor, Notifications!Call, Call, Notifications!Send, Send,
             Notifications!Orphaned, Orphaned

\* The flags of the page.
NotificationsFlags == {"load", "recent"}

\* The answer to a change lowers no flag.
NotificationsWait == [op \in {"read", "all", "delete"} |-> {"inbox", "bell", "orphan"}]

\* The invariant of the page.
NotificationsFlagged == Flagged(NotificationsFlags, {}, NotificationsWait)

\* It holds when the page is mounted,
LEMMA NotificationsFlaggedFirst ==
    ASSUME Notifications!Init PROVE NotificationsFlagged
<1>1. /\ calls = AskFor(AskFor({}, <<"inbox", FALSE>>, {"load"}, None), <<"count">>, {"badge"}, None)
      /\ ui.wait = {"load"} /\ "wait" \in DOMAIN ui
  BY NotificationsShares DEF Notifications!Init, Notifications!InitialUi, Notifications!Ask
<1>2. Pending({}, {}, NotificationsWait)
  BY FS_EmptySet DEF Pending, Requests
<1>3. Pending(AskFor({}, <<"inbox", FALSE>>, {"load"}, None), {} \union {"load"}, NotificationsWait)
  BY <1>2, AskForPending DEF NotificationsWait
<1>4. Pending(calls, ({} \union {"load"}) \union {"badge"}, NotificationsWait)
  BY <1>1, <1>3, AskForPending DEF NotificationsWait
<1> QED BY <1>1, <1>4 DEF NotificationsFlagged, Flagged, Pending, NotificationsFlags

\* A press in the list or in the bell.
LEMMA NotificationsPress ==
    ASSUME NotificationsFlagged, NEW req, NEW h \in {"inbox", "bell"}, Notifications!Press(req, h)
    PROVE  NotificationsFlagged'
<1>1. "wait" \in DOMAIN ui /\ ui.wait \subseteq NotificationsFlags
  BY DEF NotificationsFlagged, Flagged
<1>2. calls' = Send(calls, req, {h}, None) /\ ui' = ui
  BY NotificationsShares DEF Notifications!Press
<1>3. req[1] \in DOMAIN NotificationsWait => {h} \subseteq NotificationsWait[req[1]]
  BY DEF NotificationsWait
<1> QED BY <1>1, <1>2, <1>3, AskedFlagged DEF NotificationsFlagged

\* whatever the user does keeps it,
LEMMA NotificationsFlaggedUser ==
    ASSUME NotificationsFlagged, Notifications!User PROVE NotificationsFlagged'
<1> USE NotificationsShares DEF NotificationsFlagged
<1>w. "wait" \in DOMAIN ui /\ ui.wait \subseteq NotificationsFlags
  BY DEF Flagged
<1>1. CASE \/ Notifications!Reload \/ \E only \in BOOLEAN : Notifications!SetUnreadOnly(only)
           \/ Notifications!VisitInbox
  <2>1. PICK only : /\ calls' = AskFor(calls, <<"inbox", only>>, {"load"}, None)
                    /\ "wait" \in DOMAIN ui' /\ ui'.wait = ui.wait \union {"load"}
    BY <1>w, <1>1 DEF Notifications!Reload, Notifications!SetUnreadOnly, Notifications!VisitInbox,
       Notifications!Load, Notifications!Raise, Notifications!Ask
  <2> QED BY <1>w, <2>1, AskedFlagged DEF NotificationsFlags, NotificationsWait
<1>2. CASE \/ \E r \in Rows : \/ Notifications!MarkRead(r) \/ Notifications!Delete(r)
                              \/ Notifications!DeleteFromBell(r)
           \/ Notifications!MarkAllRead \/ Notifications!MarkAllFromBell
  <2>1. CASE \E r \in Rows : Notifications!MarkRead(r) \/ Notifications!Delete(r)
    BY <2>1, NotificationsPress DEF Notifications!MarkRead, Notifications!Delete
  <2>2. CASE \E r \in Rows : Notifications!DeleteFromBell(r)
    BY <2>2, NotificationsPress DEF Notifications!DeleteFromBell
  <2>3. CASE Notifications!MarkAllRead \/ Notifications!MarkAllFromBell
    BY <2>3, NotificationsPress DEF Notifications!MarkAllRead, Notifications!MarkAllFromBell
  <2> QED BY <1>2, <2>1, <2>2, <2>3
<1>3. CASE \E r \in Rows : Notifications!ClickItem(r)
  <2>1. PICK r \in Rows :
          Notifications!Press(<<"read", r>>, "bell") \/ Notifications!Follow(ui, calls, r)
    BY <1>3 DEF Notifications!ClickItem
  <2>2. CASE Notifications!Follow(ui, calls, r)
    <3>1. \/ calls' = calls /\ "wait" \in DOMAIN ui' /\ ui'.wait = ui.wait
          \/ /\ calls' = Orphaned(calls, {"load", "inbox"})
             /\ "wait" \in DOMAIN ui' /\ ui'.wait = ui.wait \ {"load"}
      BY <1>w, <2>2 DEF Notifications!Follow
    <3>2. CASE calls' = Orphaned(calls, {"load", "inbox"}) /\ ui'.wait = ui.wait \ {"load"}
      <4>1. /\ "wait" \in DOMAIN ui' /\ ui'.wait \subseteq NotificationsFlags
            /\ ui'.wait \ {} \subseteq ui.wait \ {"load", "inbox"}
        BY <1>w, <3>1, <3>2 DEF NotificationsFlags
      <4>2. \A op \in DOMAIN NotificationsWait : "orphan" \in NotificationsWait[op]
        BY DEF NotificationsWait
      <4> QED BY <3>2, <4>1, <4>2, OrphanedFlagged
    <3> QED BY <3>1, <3>2, StillFlagged
  <2> QED BY <2>1, <2>2, NotificationsPress
<1>4. CASE Notifications!RefreshUnread
  <2>1. calls' = AskFor(calls, <<"count">>, {"badge"}, None) /\ ui' = ui
    BY <1>4 DEF Notifications!RefreshUnread, Notifications!Ask
  <2> QED BY <1>w, <2>1, AskedFlagged DEF NotificationsWait
<1>5. CASE Notifications!OpenBell
  <2>1. /\ calls' = AskFor(calls, <<"recent">>, {"recent"}, None)
        /\ "wait" \in DOMAIN ui' /\ ui'.wait = ui.wait \union {"recent"}
    BY <1>w, <1>5 DEF Notifications!OpenBell, Notifications!Load, Notifications!Raise, Notifications!Ask
  <2> QED BY <1>w, <2>1, AskedFlagged DEF NotificationsFlags, NotificationsWait
<1>6. CASE Notifications!CloseBell
  <2>1. calls' = calls /\ "wait" \in DOMAIN ui' /\ ui'.wait = ui.wait
    BY <1>w, <1>6 DEF Notifications!CloseBell, Notifications!CloseModal, Notifications!Show
  <2> QED BY <2>1, StillFlagged
<1> QED BY <1>1, <1>2, <1>3, <1>4, <1>5, <1>6 DEF Notifications!User

\* and so does whatever a continuation does,
LEMMA NotificationsFlaggedDelivers ==
    ASSUME NotificationsFlagged, Notifications!Deliver \/ Notifications!Forget PROVE NotificationsFlagged'
<1> USE NotificationsShares DEF NotificationsFlagged
<1>w. "wait" \in DOMAIN ui /\ ui.wait \subseteq NotificationsFlags
  BY DEF Flagged
<1>f. ASSUME NEW c \in calls, c.req[1] \in {"read", "all", "delete"}
      PROVE  ui.wait \ c.for = ui.wait
  BY <1>w, <1>f DEF Flagged, Pending, NotificationsWait, NotificationsFlags
<1>1. CASE \/ Notifications!InboxLoaded \/ Notifications!InboxChanged \/ Notifications!BadgeLoaded
           \/ Notifications!RecentLoaded \/ Notifications!Forget
  <2>1. PICK c \in calls : "wait" \in DOMAIN ui' /\ ui'.wait = ui.wait \ c.for /\ calls' = calls \ {c}
    BY <1>w, <1>1 DEF Notifications!InboxLoaded, Notifications!InboxChanged, Notifications!BadgeLoaded,
       Notifications!RecentLoaded, Notifications!Forget, Notifications!Answered, Notifications!Uses,
       Notifications!Lower
  <2> QED BY <2>1, TakenFlagged
<1>2. CASE Notifications!ItemRead
  <2>1. PICK c, u :
          /\ c \in calls
          /\ c.req[1] = "read"
          /\ "wait" \in DOMAIN u /\ u.wait = ui.wait
          /\ Notifications!Follow(u, calls \ {c}, c.req[2])
    BY <1>w, <1>2 DEF Notifications!ItemRead, Notifications!Answered, Notifications!Op
  <2>2. \/ calls' = calls \ {c} /\ "wait" \in DOMAIN ui' /\ ui'.wait = ui.wait
        \/ /\ calls' = Orphaned(calls \ {c}, {"load", "inbox"})
           /\ "wait" \in DOMAIN ui' /\ ui'.wait = ui.wait \ {"load"}
    BY <2>1 DEF Notifications!Follow
  <2>3. ui.wait \ c.for = ui.wait
    BY <1>f, <2>1
  <2>4. CASE calls' = calls \ {c} /\ ui'.wait = ui.wait
    BY <2>2, <2>3, <2>4, TakenFlagged
  <2>5. CASE calls' = Orphaned(calls \ {c}, {"load", "inbox"}) /\ ui'.wait = ui.wait \ {"load"}
    <3>1. "wait" \in DOMAIN ui' /\ ui'.wait \subseteq (ui.wait \ c.for) \ {"load", "inbox"}
      BY <1>w, <2>2, <2>3, <2>5 DEF NotificationsFlags
    <3>2. \A op \in DOMAIN NotificationsWait : "orphan" \in NotificationsWait[op]
      BY DEF NotificationsWait
    <3> QED BY <2>5, <3>1, <3>2, TakenOrphanedFlagged
  <2> QED BY <2>2, <2>4, <2>5
<1>3. CASE Notifications!BellChanged
  <2>1. PICK c \in calls :
          /\ c.req[1] \in {"all", "delete"}
          /\ \/ "wait" \in DOMAIN ui' /\ ui'.wait = ui.wait \ c.for /\ calls' = calls \ {c}
             \/ /\ calls' = AskFor(calls \ {c}, <<"count">>, {"badge"}, None)
                /\ "wait" \in DOMAIN ui' /\ ui'.wait = ui.wait
    BY <1>w, <1>3 DEF Notifications!BellChanged, Notifications!Answered, Notifications!Op, Notifications!Uses,
       Notifications!Lower, Notifications!Ask
  <2>2. ui.wait \ c.for = ui.wait
    BY <1>f, <2>1
  <2> QED BY <1>w, <2>1, <2>2, TakenFlagged, TurnedFlagged DEF NotificationsWait
<1> QED BY <1>1, <1>2, <1>3 DEF Notifications!Deliver

\* and an answer of the server:
LEMMA NotificationsFlaggedServes ==
    ASSUME NotificationsFlagged, Notifications!Serve PROVE NotificationsFlagged'
<1>1. CASE Notifications!Arrive
  BY <1>1 DEF Notifications!Arrive, NotificationsFlagged, Flagged
<1>2. CASE Notifications!ServeAny(Notifications!Effects)
  <2>1. PICK c, a : c \in calls /\ calls' = (calls \ {c}) \union {[c EXCEPT !.ans = a]} /\ ui' = ui
    BY <1>2 DEF Notifications!ServeAny
  <2> QED BY <2>1, ServedFlagged DEF NotificationsFlagged
<1> QED BY <1>1, <1>2 DEF Notifications!Serve

\* every step does.
LEMMA NotificationsFlaggedStep ==
    ASSUME NotificationsFlagged, Notifications!Next PROVE NotificationsFlagged'
BY NotificationsFlaggedUser, NotificationsFlaggedDelivers, NotificationsFlaggedServes DEF Notifications!Next, Notifications!Step

-----------------------------------------------------------------------------
(* What is delivered, and the preferences                                  *)

\* What the page takes from WebPage is what the lemmas above are about.
LEMMA DeliveryShares ==
    /\ \A cs, req, H, ctx : Delivery!AskFor(cs, req, H, ctx) = AskFor(cs, req, H, ctx)
    /\ \A cs, req, H, ctx : Delivery!Send(cs, req, H, ctx) = Send(cs, req, H, ctx)
    /\ \A cs : Delivery!Unmounted(cs) = Unmounted(cs)
<1>1. \A S : Delivery!Cardinality(S) = Cardinality(S)
  BY DEF Delivery!Cardinality, Cardinality
<1> QED BY <1>1 DEF Delivery!AskFor, AskFor, Delivery!Call, Call, Delivery!Send, Send,
             Delivery!Unmounted, Unmounted

\* The flags of the page.
DeliveryFlags == {"load", "save"}

\* To send an item again raises no flag of the page.
DeliveryWait == [retry |-> {"retry"}]

\* The invariant of the page.
DeliveryFlagged == Flagged(DeliveryFlags, {}, DeliveryWait)

\* It holds when the page is mounted,
LEMMA DeliveryFlaggedFirst ==
    ASSUME Delivery!Init PROVE DeliveryFlagged
<1>1. calls = AskFor({}, <<"outbox", "all">>, {"load"}, None) /\ ui.wait = {"load"} /\ "wait" \in DOMAIN ui
  BY DeliveryShares DEF Delivery!Init, Delivery!InitialUi, Delivery!Ask, Delivery!FirstKey
<1> QED BY <1>1, FirstFlagged DEF DeliveryFlagged, DeliveryFlags, DeliveryWait

\* whatever the user does keeps it,
LEMMA DeliveryFlaggedUser ==
    ASSUME DeliveryFlagged, Delivery!User PROVE DeliveryFlagged'
<1> USE DeliveryShares DEF DeliveryFlagged
<1>w. "wait" \in DOMAIN ui /\ ui.wait \subseteq DeliveryFlags
  BY DEF Flagged
<1>1. CASE (\E f \in {"all", "failed"} : Delivery!SetFilter(f)) \/ Delivery!Reload
  <2>1. PICK f : /\ calls' = AskFor(calls, <<"outbox", f>>, {"load"}, None)
                 /\ "wait" \in DOMAIN ui' /\ ui'.wait = ui.wait \union {"load"}
    BY <1>w, <1>1 DEF Delivery!SetFilter, Delivery!Reload, Delivery!Load, Delivery!Raise, Delivery!Ask
  <2> QED BY <1>w, <2>1, AskedFlagged DEF DeliveryFlags, DeliveryWait
<1>2. CASE \/ \E r \in Rows : Delivery!OpenItem(r)
           \/ Delivery!CloseItem \/ \E p \in {"all", "some"} : Delivery!EditPreferences(p)
  <2>1. calls' = calls /\ "wait" \in DOMAIN ui' /\ ui'.wait = ui.wait
    BY <1>w, <1>2 DEF Delivery!OpenItem, Delivery!CloseItem, Delivery!EditPreferences, Delivery!CloseModal,
       Delivery!Show
  <2> QED BY <2>1, StillFlagged
<1>3. CASE \E r \in Rows : Delivery!Retry(r)
  <2>1. PICK r, ctx : /\ calls' = Send(calls, <<"retry", r>>, {"retry"}, ctx)
                      /\ "wait" \in DOMAIN ui' /\ ui'.wait = ui.wait
    BY <1>w, <1>3 DEF Delivery!Retry
  <2> QED BY <1>w, <2>1, AskedFlagged DEF DeliveryWait
<1>4. CASE Delivery!SavePreferences
  <2>1. PICK p : /\ calls' = Send(calls, <<"save", p>>, {"save"}, None)
                 /\ "wait" \in DOMAIN ui' /\ ui'.wait = ui.wait \union {"save"}
    BY <1>w, <1>4 DEF Delivery!SavePreferences, Delivery!Submit, Delivery!Raise
  <2> QED BY <1>w, <2>1, AskedFlagged DEF DeliveryFlags, DeliveryWait
<1>5. CASE \E t \in {"outbox", "preferences"} : Delivery!SetTab(t)
  <2>1. PICK req : /\ calls' = AskFor(Unmounted(calls), req, {"load"}, None) /\ req[1] # "retry"
                   /\ "wait" \in DOMAIN ui' /\ ui'.wait = {"load"}
    BY <1>5 DEF Delivery!SetTab, Delivery!InitialUi, Delivery!FirstKey, Delivery!Ask
  <2> QED BY <2>1, MountedFlagged DEF DeliveryFlags, DeliveryWait
<1> QED BY <1>1, <1>2, <1>3, <1>4, <1>5 DEF Delivery!User

\* and so does whatever a continuation does,
LEMMA DeliveryFlaggedDelivers ==
    ASSUME DeliveryFlagged, Delivery!Deliver \/ Delivery!Forget PROVE DeliveryFlagged'
<1>w. "wait" \in DOMAIN ui /\ ui.wait \subseteq DeliveryFlags
  BY DEF Flagged, DeliveryFlagged
<1>1. PICK c \in calls : "wait" \in DOMAIN ui' /\ ui'.wait \subseteq ui.wait \ c.for /\ calls' = calls \ {c}
  <2>1. CASE \/ Delivery!OutboxLoaded \/ Delivery!PreferencesLoaded \/ Delivery!PreferencesSaved
             \/ Delivery!Forget
    BY <1>w, <2>1 DEF Delivery!OutboxLoaded, Delivery!PreferencesLoaded, Delivery!PreferencesSaved,
       Delivery!Forget, Delivery!Answered, Delivery!Takes, Delivery!Fails, Delivery!Uses, Delivery!Lower
  <2>2. CASE Delivery!Retried
    <3>1. PICK c, u : c \in calls /\ "wait" \in DOMAIN u /\ u.wait = ui.wait /\ Delivery!Uses(c, u)
      BY <1>w, <2>2 DEF Delivery!Retried, Delivery!Answered
    <3> QED BY <3>1 DEF Delivery!Uses, Delivery!Lower
  <2> QED BY <2>1, <2>2 DEF Delivery!Deliver
<1> QED BY <1>1, TakenFlagged DEF DeliveryFlagged

\* and an answer of the server:
LEMMA DeliveryFlaggedServes ==
    ASSUME DeliveryFlagged, Delivery!Serve PROVE DeliveryFlagged'
<1>1. PICK c, a : c \in calls /\ calls' = (calls \ {c}) \union {[c EXCEPT !.ans = a]} /\ ui' = ui
  BY DEF Delivery!Serve, Delivery!ServeAny
<1> QED BY <1>1, ServedFlagged DEF DeliveryFlagged

\* every step does.
LEMMA DeliveryFlaggedStep ==
    ASSUME DeliveryFlagged, Delivery!Next PROVE DeliveryFlagged'
BY DeliveryFlaggedUser, DeliveryFlaggedDelivers, DeliveryFlaggedServes DEF Delivery!Next, Delivery!Step

-----------------------------------------------------------------------------
(* The expenses                                                            *)

\* What the page takes from WebPage is what the lemmas above are about.
LEMMA ExpensesShares ==
    /\ \A cs, req, H, ctx : Expenses!AskFor(cs, req, H, ctx) = AskFor(cs, req, H, ctx)
    /\ \A cs, req, H, ctx : Expenses!Send(cs, req, H, ctx) = Send(cs, req, H, ctx)
    /\ \A cs : Expenses!Unmounted(cs) = Unmounted(cs)
<1>1. \A S : Expenses!Cardinality(S) = Cardinality(S)
  BY DEF Expenses!Cardinality, Cardinality
<1> QED BY <1>1 DEF Expenses!AskFor, AskFor, Expenses!Call, Call, Expenses!Send, Send,
             Expenses!Unmounted, Unmounted

\* The flags of the page.
ExpensesFlags == {"load", "create"}

\* The buttons of a row raise no flag but that of the load that follows.
ExpensesWait == [act |-> {"act", "load"}]

\* The invariant of the page.
ExpensesFlagged == Flagged(ExpensesFlags, {}, ExpensesWait)

\* It holds when the page is mounted,
LEMMA ExpensesFlaggedFirst ==
    ASSUME Expenses!Init PROVE ExpensesFlagged
<1>1. PICK req : calls = AskFor({}, req, {"load"}, None) /\ ui.wait = {"load"} /\ "wait" \in DOMAIN ui
  BY ExpensesShares DEF Expenses!Init, Expenses!InitialUi, Expenses!Ask
<1> QED BY <1>1, FirstFlagged DEF ExpensesFlagged, ExpensesFlags, ExpensesWait

\* whatever the user does keeps it,
LEMMA ExpensesFlaggedUser ==
    ASSUME ExpensesFlagged, Expenses!User PROVE ExpensesFlagged'
<1> USE ExpensesShares DEF ExpensesFlagged
<1>w. "wait" \in DOMAIN ui /\ ui.wait \subseteq ExpensesFlags
  BY DEF Flagged
<1>1. CASE (\E s \in {"all", "draft", "approved"} : Expenses!SetStatus(s)) \/ \E p \in 1 .. 2 : Expenses!SetPage(p)
  <2>1. PICK req : /\ calls' = AskFor(calls, req, {"load"}, None)
                   /\ "wait" \in DOMAIN ui' /\ ui'.wait = ui.wait \union {"load"}
    BY <1>w, <1>1 DEF Expenses!SetStatus, Expenses!SetPage, Expenses!LoadPage, Expenses!Fetching,
       Expenses!Raise, Expenses!Ask
  <2> QED BY <1>w, <2>1, AskedFlagged DEF ExpensesFlags, ExpensesWait
<1>2. CASE \E r \in Rows, act \in {"approve", "pay", "delete"} : Expenses!Act(r, act)
  <2>1. PICK req, ctx : /\ req[1] = "act" /\ calls' = Send(calls, req, {"act"}, ctx) /\ ui' = ui
    BY <1>2 DEF Expenses!Act
  <2> QED BY <1>w, <2>1, AskedFlagged DEF ExpensesWait
<1>3. CASE Expenses!OpenCreate \/ Expenses!CloseCreate \/ Expenses!Incomplete({"create"})
  <2>1. calls' = calls /\ "wait" \in DOMAIN ui' /\ ui'.wait = ui.wait
    BY <1>w, <1>3 DEF Expenses!OpenCreate, Expenses!CloseCreate, Expenses!Incomplete, Expenses!OpenModal,
       Expenses!CloseModal, Expenses!Show
  <2> QED BY <2>1, StillFlagged
<1>4. CASE Expenses!SubmitExpense
  <2>1. PICK ctx : /\ calls' = Send(calls, <<"closure">>, {"create", "chain"}, ctx)
                   /\ "wait" \in DOMAIN ui' /\ ui'.wait = ui.wait \union {"create"}
    BY <1>w, <1>4 DEF Expenses!SubmitExpense, Expenses!Raise
  <2> QED BY <1>w, <2>1, AskedFlagged DEF ExpensesFlags, ExpensesWait
<1>5. CASE Expenses!Remount
  <2>1. PICK req : /\ calls' = AskFor(Unmounted(calls), req, {"load"}, None)
                   /\ "wait" \in DOMAIN ui' /\ ui'.wait = {"load"}
    BY <1>5 DEF Expenses!Remount, Expenses!InitialUi, Expenses!Ask
  <2> QED BY <2>1, MountedFlagged DEF ExpensesFlags, ExpensesWait
<1> QED BY <1>1, <1>2, <1>3, <1>4, <1>5 DEF Expenses!User

\* and so does whatever a continuation does,
LEMMA ExpensesFlaggedDelivers ==
    ASSUME ExpensesFlagged, Expenses!Deliver \/ Expenses!Forget PROVE ExpensesFlagged'
<1> USE ExpensesShares DEF ExpensesFlagged
<1>w. "wait" \in DOMAIN ui /\ ui.wait \subseteq ExpensesFlags
  BY DEF Flagged
<1>1. CASE Expenses!ExpensesLoaded \/ Expenses!Forget
  <2>1. PICK c \in calls : "wait" \in DOMAIN ui' /\ ui'.wait = ui.wait \ c.for /\ calls' = calls \ {c}
    BY <1>w, <1>1 DEF Expenses!ExpensesLoaded, Expenses!Forget, Expenses!Answered, Expenses!Takes,
       Expenses!Fails, Expenses!Uses, Expenses!Lower
  <2> QED BY <2>1, TakenFlagged
<1>2. CASE Expenses!Acted
  <2>1. PICK c \in calls :
          /\ c.req[1] = "act"
          /\ \/ "wait" \in DOMAIN ui' /\ ui'.wait = ui.wait \ c.for /\ calls' = calls \ {c}
             \/ /\ calls' = AskFor(calls \ {c}, c.ctx, {"load"}, None)
                /\ "wait" \in DOMAIN ui' /\ ui'.wait = ui.wait \union {"load"}
    BY <1>w, <1>2 DEF Expenses!Acted, Expenses!Answered, Expenses!Op, Expenses!Fails, Expenses!Fetching,
       Expenses!Raise, Expenses!Lower, Expenses!Ask
  <2>2. CASE calls' = AskFor(calls \ {c}, c.ctx, {"load"}, None) /\ ui'.wait = ui.wait \union {"load"}
    <3>1. c.for \subseteq {"act", "load"}
      BY <2>1 DEF Flagged, Pending, ExpensesWait
    <3>2. /\ "wait" \in DOMAIN ui' /\ ui'.wait \subseteq ExpensesFlags
          /\ ui'.wait \subseteq (ui.wait \ c.for) \union {"load"}
      BY <1>w, <2>1, <2>2, <3>1 DEF ExpensesFlags
    <3> QED BY <2>2, <3>2, TurnedFlagged DEF ExpensesWait
  <2> QED BY <2>1, <2>2, TakenFlagged
<1>3. CASE Expenses!ClosureChecked
  <2>1. PICK c, ctx :
          /\ c \in calls
          /\ \/ "wait" \in DOMAIN ui' /\ ui'.wait = ui.wait \ c.for /\ calls' = calls \ {c}
             \/ ui' = ui /\ calls' = Send(calls \ {c}, <<"create">>, c.for \ {"chain"}, ctx)
    BY <1>w, <1>3 DEF Expenses!ClosureChecked, Expenses!Answered, Expenses!Uses, Expenses!Lower
  <2>2. CASE ui' = ui /\ calls' = Send(calls \ {c}, <<"create">>, c.for \ {"chain"}, ctx)
    <3>1. ui'.wait \subseteq (ui.wait \ c.for) \union (c.for \ {"chain"})
      BY <1>w, <2>2 DEF ExpensesFlags
    <3> QED BY <1>w, <2>2, <3>1, TurnedFlagged DEF ExpensesWait
  <2> QED BY <2>1, <2>2, TakenFlagged
<1>4. CASE Expenses!ExpenseCreated
  <2>1. PICK c \in calls :
          \/ "wait" \in DOMAIN ui' /\ ui'.wait = ui.wait \ c.for /\ calls' = calls \ {c}
          \/ /\ calls' = AskFor(calls \ {c}, c.ctx, {"load"}, None)
             /\ "wait" \in DOMAIN ui' /\ ui'.wait = (ui.wait \ c.for) \union {"load"}
    BY <1>w, <1>4 DEF Expenses!ExpenseCreated, Expenses!Answered, Expenses!Fails, Expenses!Fetching,
       Expenses!Raise, Expenses!Lower, Expenses!Ask
  <2> QED BY <1>w, <2>1, TakenFlagged, TurnedFlagged DEF ExpensesFlags, ExpensesWait
<1> QED BY <1>1, <1>2, <1>3, <1>4 DEF Expenses!Deliver

\* and an answer of the server:
LEMMA ExpensesFlaggedServes ==
    ASSUME ExpensesFlagged, Expenses!Serve PROVE ExpensesFlagged'
<1>1. PICK c, a : c \in calls /\ calls' = (calls \ {c}) \union {[c EXCEPT !.ans = a]} /\ ui' = ui
  BY DEF Expenses!Serve, Expenses!ServeAny
<1> QED BY <1>1, ServedFlagged DEF ExpensesFlagged

\* every step does.
LEMMA ExpensesFlaggedStep ==
    ASSUME ExpensesFlagged, Expenses!Next PROVE ExpensesFlagged'
BY ExpensesFlaggedUser, ExpensesFlaggedDelivers, ExpensesFlaggedServes DEF Expenses!Next, Expenses!Step

-----------------------------------------------------------------------------
(* The tenants                                                             *)

\* What the page takes from WebPage is what the lemmas above are about.
LEMMA TenantsShares ==
    /\ \A cs, req, H, ctx : Tenants!AskFor(cs, req, H, ctx) = AskFor(cs, req, H, ctx)
    /\ \A cs : Tenants!Unmounted(cs) = Unmounted(cs)
BY DEF Tenants!AskFor, AskFor, Tenants!Call, Call, Tenants!Unmounted, Unmounted

\* The invariant of the page.
TenantsFlagged == Flagged({"load"}, {}, Anyone)

\* It holds when the page is mounted,
LEMMA TenantsFlaggedFirst ==
    ASSUME Tenants!Init PROVE TenantsFlagged
<1>1. calls = AskFor({}, <<"contracts">>, {"load"}, None) /\ ui.wait = {"load"} /\ "wait" \in DOMAIN ui
  BY TenantsShares DEF Tenants!Init, Tenants!InitialUi, Tenants!Ask
<1> QED BY <1>1, FirstFlagged DEF TenantsFlagged, Anyone

\* whatever the user does keeps it,
LEMMA TenantsFlaggedUser ==
    ASSUME TenantsFlagged, Tenants!User PROVE TenantsFlagged'
<1> USE TenantsShares DEF TenantsFlagged
<1>w. "wait" \in DOMAIN ui
  BY DEF Flagged
<1>1. CASE Tenants!Remount
  <2>1. /\ calls' = AskFor(Unmounted(calls), <<"contracts">>, {"load"}, None)
        /\ "wait" \in DOMAIN ui' /\ ui'.wait = {"load"}
    BY <1>1 DEF Tenants!Remount, Tenants!InitialUi, Tenants!Ask
  <2> QED BY <2>1, MountedFlagged DEF Anyone
<1>2. CASE ~Tenants!Remount
  <2>1. calls' = calls /\ "wait" \in DOMAIN ui' /\ ui'.wait = ui.wait
    BY <1>w, <1>2 DEF Tenants!User, Tenants!SetTab, Tenants!SetSearch, Tenants!SetSort, Tenants!SetItemsPerPage,
       Tenants!Choose, Tenants!SetView, Tenants!SetPage, Tenants!ExportTenants, Tenants!OpenTenant, Tenants!Show
  <2> QED BY <2>1, StillFlagged
<1> QED BY <1>1, <1>2

\* and so does whatever a continuation does,
LEMMA TenantsFlaggedDelivers ==
    ASSUME TenantsFlagged, Tenants!Deliver \/ Tenants!Forget PROVE TenantsFlagged'
<1>w. "wait" \in DOMAIN ui
  BY DEF TenantsFlagged, Flagged
<1>1. PICK c \in calls : "wait" \in DOMAIN ui' /\ ui'.wait \subseteq ui.wait \ c.for /\ calls' = calls \ {c}
  BY <1>w DEF Tenants!Deliver, Tenants!TenantsLoaded, Tenants!Forget, Tenants!Answered, Tenants!Uses, Tenants!Lower
<1> QED BY <1>1, TakenFlagged DEF TenantsFlagged

\* and an answer of the server:
LEMMA TenantsFlaggedServes ==
    ASSUME TenantsFlagged, Tenants!Serve PROVE TenantsFlagged'
<1>1. PICK c, a : c \in calls /\ calls' = (calls \ {c}) \union {[c EXCEPT !.ans = a]} /\ ui' = ui
  BY DEF Tenants!Serve, Tenants!ServeAny
<1> QED BY <1>1, ServedFlagged DEF TenantsFlagged

\* every step does.
LEMMA TenantsFlaggedStep ==
    ASSUME TenantsFlagged, Tenants!Next PROVE TenantsFlagged'
BY TenantsFlaggedUser, TenantsFlaggedDelivers, TenantsFlaggedServes DEF Tenants!Next, Tenants!Step

-----------------------------------------------------------------------------
(* The page that is mounted, whichever it is                               *)

\* The page that is mounted keeps its flags.
PagesInv ==
    /\ view \in Pages
    /\ view = "payments"      => PaymentsFlagged
    /\ view = "invoices"      => InvoicesFlagged
    /\ view = "rules"         => RulesFlagged
    /\ view = "checkouts"     => CheckoutsFlagged
    /\ view = "complaints"    => ComplaintsFlagged
    /\ view = "rooms"         => RoomsFlagged
    /\ view = "wizard"        => WizardFlagged
    /\ view = "profile"       => ProfileFlagged
    /\ view = "transfers"     => TransfersFlagged
    /\ view = "notifications" => NotificationsFlagged
    /\ view = "permits"       => PermitsFlagged
    /\ view = "delivery"      => DeliveryFlagged
    /\ view = "expenses"      => ExpensesFlagged
    /\ view = "tenants"       => TenantsFlagged

LEMMA PagesStart ==
    ASSUME Init PROVE PagesInv
<1>1. view \in Pages
  BY ViewsAssumption DEF Init
<1>2. /\ view = "payments" => Payments!Init
      /\ view = "invoices" => Invoices!Init
      /\ view = "rules" => Rules!Init
      /\ view = "checkouts" => Checkouts!Init
      /\ view = "complaints" => Complaints!Init
      /\ view = "rooms" => Rooms!Init
      /\ view = "wizard" => Wizard!Init
      /\ view = "profile" => Profile!Init
      /\ view = "transfers" => Transfers!Init
      /\ view = "notifications" => Notifications!Init
      /\ view = "permits" => Permits!Init
      /\ view = "delivery" => Delivery!Init
      /\ view = "expenses" => Expenses!Init
      /\ view = "tenants" => Tenants!Init
  BY DEF Init
<1> QED BY <1>1, <1>2, PaymentsFlaggedFirst, InvoicesFlaggedFirst, RulesFlaggedFirst, CheckoutsFlaggedFirst, ComplaintsFlaggedFirst, RoomsFlaggedFirst,
           WizardFlaggedFirst, ProfileFlaggedFirst, TransfersFlaggedFirst, NotificationsFlaggedFirst, PermitsFlaggedFirst, DeliveryFlaggedFirst,
           ExpensesFlaggedFirst, TenantsFlaggedFirst DEF PagesInv

LEMMA PagesStep ==
    ASSUME PagesInv, [Next]_vars PROVE PagesInv'
<1>1. CASE Next
  <2>1. view' = view
    BY <1>1 DEF Next, At
  <2>2. \/ view = "payments" /\ Payments!Next
        \/ view = "invoices" /\ Invoices!Next
        \/ view = "rules" /\ Rules!Next
        \/ view = "checkouts" /\ Checkouts!Next
        \/ view = "complaints" /\ Complaints!Next
        \/ view = "rooms" /\ Rooms!Next
        \/ view = "wizard" /\ Wizard!Next
        \/ view = "profile" /\ Profile!Next
        \/ view = "transfers" /\ Transfers!Next
        \/ view = "notifications" /\ Notifications!Next
        \/ view = "permits" /\ Permits!Next
        \/ view = "delivery" /\ Delivery!Next
        \/ view = "expenses" /\ Expenses!Next
        \/ view = "tenants" /\ Tenants!Next
    BY <1>1 DEF Next, At
  <2> QED BY <2>1, <2>2, PaymentsFlaggedStep, InvoicesFlaggedStep, RulesFlaggedStep, CheckoutsFlaggedStep, ComplaintsFlaggedStep, RoomsFlaggedStep,
             WizardFlaggedStep, ProfileFlaggedStep, TransfersFlaggedStep, NotificationsFlaggedStep, PermitsFlaggedStep, DeliveryFlaggedStep,
             ExpensesFlaggedStep, TenantsFlaggedStep DEF PagesInv
<1>2. CASE UNCHANGED vars
  <2>1. ui' = ui /\ calls' = calls /\ view' = view
    BY <1>2 DEF vars, pageVars
  <2> QED BY <2>1 DEF PagesInv, Flagged, Alone, PaymentsFlagged, InvoicesFlagged, RulesFlagged, CheckoutsFlagged, ComplaintsFlagged,
          RoomsFlagged, WizardFlagged, ProfileFlagged, TransfersFlagged, NotificationsFlagged, PermitsFlagged, DeliveryFlagged, ExpensesFlagged,
          TenantsFlagged
<1> QED BY <1>1, <1>2

\* No button stays disabled and no spinner turns for ever, on any page, however
\* many requests are out: a flag that is up has a request that takes it down.
THEOREM FlagsAlwaysComeDown == Spec => []FlagsComeDown
<1>1. Init => PagesInv
  BY PagesStart
<1>2. PagesInv /\ [Next]_vars => PagesInv'
  BY PagesStep
<1>3. PagesInv => FlagsComeDown
  <2>1. ASSUME NEW F, NEW ex, NEW T, Flagged(F, ex, T) PROVE \A h \in ui.wait \ ex : \E c \in calls : h \in c.for
    BY <2>1 DEF Flagged, Pending
  <2>2. ASSUME PagesInv, view = "profile" PROVE FlagsComeDown
    BY <2>1, <2>2 DEF PagesInv, ProfileFlagged, FlagsComeDown
  <2>3. ASSUME PagesInv, view # "profile" PROVE FlagsComeDown
    <3>1. \E F, T : Flagged(F, {}, T)
      BY <2>3 DEF PagesInv, Pages, PaymentsFlagged, InvoicesFlagged, RulesFlagged, CheckoutsFlagged, ComplaintsFlagged,
          RoomsFlagged, WizardFlagged, TransfersFlagged, NotificationsFlagged, PermitsFlagged, DeliveryFlagged, ExpensesFlagged,
          TenantsFlagged
    <3> QED BY <2>1, <2>3, <3>1 DEF FlagsComeDown
  <2> QED BY <2>2, <2>3
<1> QED BY <1>1, <1>2, <1>3, PTL DEF Spec

\* However often the user presses, opens and closes, a handler of the pages whose
\* buttons are disabled by a flag has one change out at a time.
THEOREM OnePressOneChangeAlways == Spec => []OnePressOneChange
<1>1. Init => PagesInv
  BY PagesStart
<1>2. PagesInv /\ [Next]_vars => PagesInv'
  BY PagesStep
<1>3. PagesInv => OnePressOneChange
  <2> SUFFICES ASSUME PagesInv, view \in {"payments", "invoices", "transfers", "permits"} PROVE OneAtATime
    BY DEF OnePressOneChange
  <2>1. \E A : Alone(A)
    BY DEF PagesInv, PaymentsFlagged, InvoicesFlagged, TransfersFlagged, PermitsFlagged
  <2> QED BY <2>1, AloneAtATime
<1> QED BY <1>1, <1>2, <1>3, PTL DEF Spec

-----------------------------------------------------------------------------
(* The tenants' table, which the client cuts into pages itself.  That      *)
(* every page has somebody on it is a matter of counting: the tenants      *)
(* shown are on as many pages as there are of them.                        *)

\* Of things each of which has those before it, and itself, below it, there is
\* one at every place.
LEMMA EveryPlace ==
    ASSUME NEW S, IsFiniteSet(S), NEW below,
           \A r \in S : below[r] \subseteq S /\ r \in below[r],
           \A a, b \in S : a # b => \/ below[a] \subseteq below[b] /\ b \notin below[a]
                                    \/ below[b] \subseteq below[a] /\ a \notin below[b]
    PROVE  \A k \in 1 .. Cardinality(S) : \E r \in S : Cardinality(below[r]) = k
<1> DEFINE N == Cardinality(S)
           place == [r \in S |-> Cardinality(below[r])]
<1>1. N \in Nat /\ IsFiniteSet(1 .. N) /\ Cardinality(1 .. N) = N
  BY FS_CardinalityType, FS_Interval
<1>2. \A r \in S : IsFiniteSet(below[r]) /\ Cardinality(below[r]) \in 1 .. N
  <2> TAKE r \in S
  <2>1. IsFiniteSet(below[r]) /\ Cardinality(below[r]) <= N
    BY FS_Subset
  <2>2. Cardinality(below[r]) \in Nat /\ Cardinality(below[r]) # 0
    BY <2>1, FS_CardinalityType, FS_EmptySet
  <2> QED BY <1>1, <2>1, <2>2
<1>3. ASSUME NEW a \in S, NEW b \in S, below[a] \subseteq below[b], b \notin below[a]
      PROVE  Cardinality(below[a]) # Cardinality(below[b])
  <2>1. below[a] # below[b]
    BY <1>3
  <2> QED BY <1>2, <1>3, <2>1, FS_Subset
<1>4. \A a, b \in S : place[a] = place[b] => a = b
  BY <1>3
<1>5. place \in Injection(S, 1 .. N)
  <2>1. place \in [S -> 1 .. N]
    BY <1>2
  <2> QED BY <1>4, <2>1 DEF Injection, IsInjective
<1>6. place \in Surjection(S, 1 .. N)
  BY <1>1, <1>5, FS_Injection
<1> QED BY <1>6 DEF Surjection

-----------------------------------------------------------------------------

\* What the page holds, and that its page of the table is one there is.
Paged(u, d) ==
    /\ DOMAIN u = {"list", "wait", "error", "open", "tab", "search", "sort", "view", "size", "page",
                   "exported", "went"}
    /\ u.size \in {1, 2} /\ u.page \in Nat \ {0}
    /\ u.list = d \/ DOMAIN u.list = {}

\* The invariant of the table: the page is one there is, by the count of the
\* rows it was computed from, and every answer is the server's rows.
TenantsTable ==
    /\ DOMAIN db = Rows /\ \A r \in Rows : db[r].days \in {"past", "month", "later"}
    /\ \A c \in calls : c.ans \in {None, Failed, [db |-> db]}
    /\ Paged(ui, db)
    /\ ui.page <= IF Tenants!TotalPages = 0 THEN 1 ELSE Tenants!TotalPages

\* The client's Cardinality is the library's.
LEMMA TenantsCounts ==
    \A S : Tenants!Cardinality(S) = Cardinality(S)
BY DEF Tenants!Cardinality, Cardinality

\* How many pages there are.
LEMMA TenantsPages ==
    ASSUME Paged(ui, db), DOMAIN db = Rows
    PROVE  /\ IsFiniteSet(Tenants!Filtered) /\ Tenants!Filtered \subseteq Rows
           /\ Tenants!TotalPages \in Nat
           /\ ui.size = 1 => Tenants!TotalPages = Cardinality(Tenants!Filtered)
           /\ ui.size = 2 => Tenants!TotalPages = (Cardinality(Tenants!Filtered) + 1) \div 2
           /\ DOMAIN ui.list = {} => Tenants!TotalPages = 0
<1>1. Tenants!Filtered \subseteq Rows
  BY DEF Tenants!Filtered, Paged
<1>2. IsFiniteSet(Tenants!Filtered)
  BY <1>1, FS_Subset, WebAssumption
<1>3. Cardinality(Tenants!Filtered) \in Nat
  BY <1>2, FS_CardinalityType
<1> DEFINE N == Cardinality(Tenants!Filtered)
<1>4. Tenants!TotalPages = (N + ui.size - 1) \div ui.size
  BY TenantsCounts DEF Tenants!TotalPages
<1>5. DOMAIN ui.list = {} => N = 0
  BY FS_EmptySet DEF Tenants!Filtered
<1> HIDE DEF N
<1>6. CASE ui.size = 1
  BY <1>1, <1>2, <1>3, <1>4, <1>5, <1>6 DEF N
<1>7. CASE ui.size = 2
  BY <1>1, <1>2, <1>3, <1>4, <1>5, <1>7 DEF N
<1> QED BY <1>6, <1>7 DEF Paged

\* The order of the table is one.
LEMMA TenantsOrdered ==
    ASSUME TenantsTable, ui.list = db, NEW a \in Rows, NEW b \in Rows
    PROVE  /\ Tenants!Before(a, a)
           /\ a # b => (Tenants!Before(a, b) <=> ~Tenants!Before(b, a))
           /\ \A c \in Rows : Tenants!Before(a, b) /\ Tenants!Before(b, c) => Tenants!Before(a, c)
<1>1. \A r \in Rows : Tenants!Rank(r) \in Nat
  BY DEF TenantsTable, Tenants!Rank
<1>2. Rows \subseteq Nat
  BY WebAssumption
<1> QED BY <1>1, <1>2 DEF Tenants!Before

\* So there is somebody on each of its pages.
LEMMA TenantsOnPage ==
    ASSUME TenantsTable, Tenants!Filtered # {} PROVE Tenants!OnPage # {}
<1> DEFINE S == Tenants!Filtered
           N == Cardinality(S)
           below == [r \in S |-> {q \in S : Tenants!Before(q, r)}]
           k == (ui.page - 1) * ui.size + 1
<1>1. /\ IsFiniteSet(S) /\ S \subseteq Rows
      /\ ui.size = 1 => Tenants!TotalPages = N
      /\ ui.size = 2 => Tenants!TotalPages = (N + 1) \div 2
  BY TenantsPages DEF TenantsTable
<1>2. ui.list = db
  BY DEF TenantsTable, Paged, Tenants!Filtered
<1>3. N \in Nat /\ N # 0
  BY <1>1, FS_CardinalityType, FS_EmptySet
<1>4. /\ ui.size \in {1, 2} /\ ui.page \in Nat \ {0}
      /\ ui.page <= IF Tenants!TotalPages = 0 THEN 1 ELSE Tenants!TotalPages
  BY DEF TenantsTable, Paged
<1>5. \A r \in S : below[r] = {q \in S : Tenants!Before(q, r)}
  OBVIOUS
<1>6. \A r \in S : below[r] \subseteq S /\ r \in below[r]
  BY <1>1, <1>2, <1>5, TenantsOrdered
<1>7. ASSUME NEW a \in S, NEW b \in S, Tenants!Before(a, b), a # b
      PROVE  below[a] \subseteq below[b] /\ b \notin below[a]
  <2>1. a \in Rows /\ b \in Rows /\ S \subseteq Rows
    BY <1>1
  <2>2. ~Tenants!Before(b, a)
    BY <1>2, <1>7, <2>1, TenantsOrdered
  <2>3. \A q \in S : Tenants!Before(q, a) => Tenants!Before(q, b)
    BY <1>2, <1>7, <2>1, TenantsOrdered
  <2> HIDE DEF below, S
  <2> QED BY <1>5, <2>2, <2>3
<1>8. \A a, b \in S : a # b => Tenants!Before(a, b) \/ Tenants!Before(b, a)
  BY <1>1, <1>2, TenantsOrdered
<1> HIDE DEF below, S
<1>9. \A p \in 1 .. N : \E r \in S : Cardinality(below[r]) = p
  BY <1>1, <1>6, <1>7, <1>8, EveryPlace
<1>10. k \in 1 .. N /\ k > (ui.page - 1) * ui.size /\ k <= ui.page * ui.size
  <2> HIDE DEF N
  <2>1. CASE ui.size = 1
    BY <1>1, <1>3, <1>4, <2>1
  <2>2. CASE ui.size = 2
    BY <1>1, <1>3, <1>4, <2>2
  <2> QED BY <1>4, <2>1, <2>2
<1>11. PICK r \in S : Cardinality(below[r]) = k
  BY <1>9, <1>10
<1>12. Tenants!Cardinality({q \in S : Tenants!Before(q, r)}) = k
  BY <1>5, <1>11, TenantsCounts
<1> QED BY <1>10, <1>12 DEF Tenants!OnPage, S

\* What the page asks for and what it forgets has the answers it had.
LEMMA AnswersStay ==
    ASSUME NEW cs, Requests(cs), NEW A, None \in A, \A c \in cs : c.ans \in A
    PROVE  /\ \A req, H, ctx : \A c \in AskFor(cs, req, H, ctx) : c.ans \in A
           /\ \A c \in Unmounted(cs) : c.ans \in A
<1>1. ASSUME NEW req, NEW H, NEW ctx PROVE \A c \in AskFor(cs, req, H, ctx) : c.ans \in A
  <2> DEFINE same == {c \in cs : c.req = req /\ c.n = 0}
             one == CHOOSE c \in same : TRUE
             x == IF ctx = None THEN one.ctx ELSE ctx
             both == [one EXCEPT !.for = one.for \union H, !.ctx = x]
  <2>1. CASE same = {}
    <3>1. AskFor(cs, req, H, ctx) = cs \union {Call(req, 0, H, ctx)} /\ Call(req, 0, H, ctx).ans = None
      BY <2>1 DEF AskFor, Call
    <3> QED BY <3>1
  <2>2. CASE same # {}
    <3>1. one \in cs
      BY <2>2
    <3>2. AskFor(cs, req, H, ctx) = (cs \ same) \union {both}
      BY <2>2 DEF AskFor
    <3>3. both.ans = one.ans
      BY <3>1 DEF Requests, Fields
    <3> HIDE DEF both, one, same
    <3> QED BY <3>1, <3>2, <3>3
  <2> QED BY <2>1, <2>2
<1>2. \A c \in Unmounted(cs) : c.ans \in A
  <2> SUFFICES ASSUME NEW c \in cs PROVE [c EXCEPT !.for = c.for \intersect {"chain"}].ans \in A
    BY DEF Unmounted
  <2> QED BY DEF Requests, Fields
<1> QED BY <1>1, <1>2

\* The table is empty at first.
LEMMA TenantsTableStart ==
    ASSUME Tenants!Init PROVE TenantsTable
<1>1. calls = AskFor({}, <<"contracts">>, {"load"}, None)
  BY TenantsShares DEF Tenants!Init, Tenants!InitialUi, Tenants!Ask
<1>2. \A c \in calls : c.ans \in {None, Failed, [db |-> db]}
  <2>1. Requests({})
    BY FS_EmptySet DEF Requests
  <2> QED BY <1>1, <2>1, AnswersStay
<1>3. DOMAIN db = Rows /\ \A r \in Rows : db[r].days \in {"past", "month", "later"}
  BY DEF Tenants!Init, Tenants!Contracts
<1>4. Paged(ui, db) /\ ui.page = 1
  BY DEF Tenants!Init, Tenants!InitialUi, Paged
<1>5. Tenants!TotalPages \in Nat
  BY <1>3, <1>4, TenantsPages
<1> QED BY <1>2, <1>3, <1>4, <1>5 DEF TenantsTable

\* The number of pages is one.
LEMMA TenantsPagesCounted ==
    Paged(ui, db) /\ DOMAIN db = Rows => Tenants!TotalPages \in Nat
BY TenantsPages

\* A step to the first page, and one that keeps what the table is made of.
LEMMA TenantsFirstPage ==
    ASSUME TenantsTable, db' = db, Paged(ui, db)', ui'.page = 1,
           \A c \in calls' : c.ans \in {None, Failed, [db |-> db]}
    PROVE  TenantsTable'
<1>1. DOMAIN db' = Rows
  BY DEF TenantsTable
<1>2. (Paged(ui, db) /\ DOMAIN db = Rows => Tenants!TotalPages \in Nat)'
  BY TenantsPagesCounted, PTL
<1> QED BY <1>1, <1>2 DEF TenantsTable

\* A step that leaves the rows, the search and the page leaves the table.
LEMMA TenantsSameTable ==
    ASSUME TenantsTable, db' = db, DOMAIN ui' = DOMAIN ui,
           ui'.list = ui.list, ui'.tab = ui.tab, ui'.search = ui.search, ui'.size = ui.size,
           ui'.page \in Nat \ {0}, ui'.page <= IF Tenants!TotalPages = 0 THEN 1 ELSE Tenants!TotalPages,
           \A c \in calls' : c.ans \in {None, Failed, [db |-> db]}
    PROVE  TenantsTable'
<1>1. Tenants!Filtered' = Tenants!Filtered
  BY DEF Tenants!Filtered, Tenants!InTab
<1>2. Tenants!TotalPages' = Tenants!TotalPages
  BY <1>1 DEF Tenants!TotalPages
<1>3. Paged(ui, db)'
  BY DEF TenantsTable, Paged
<1> QED BY <1>2, <1>3 DEF TenantsTable

\* A search goes back to the first page, and no press goes past the last.
LEMMA TenantsTableUser ==
    ASSUME TenantsFlagged, TenantsTable, Tenants!User PROVE TenantsTable'
<1>p. Paged(ui, db) /\ DOMAIN db = Rows
  BY DEF TenantsTable
<1>a. \A c \in calls : c.ans \in {None, Failed, [db |-> db]}
  BY DEF TenantsTable
<1>t. Tenants!TotalPages \in Nat
  BY <1>p, TenantsPages
<1>1. CASE \/ \E t \in Tenants!Tabs : Tenants!SetTab(t)
           \/ \E s \in {{1}, Rows} : Tenants!SetSearch(s)
           \/ \E s \in {"newest", "closest"} : Tenants!SetSort(s)
           \/ \E n \in 1 .. 2 : Tenants!SetItemsPerPage(n)
  <2>1. calls' = calls /\ db' = db
    BY <1>1 DEF Tenants!SetTab, Tenants!SetSearch, Tenants!SetSort, Tenants!SetItemsPerPage, Tenants!Choose,
       Tenants!Show
  <2>2. PICK u : Paged(u, db) /\ ui' = [u EXCEPT !.page = 1]
    <3>1. CASE \E n \in 1 .. 2 : Tenants!SetItemsPerPage(n)
      <4>1. PICK n \in 1 .. 2 : ui' = [[ui EXCEPT !.size = n] EXCEPT !.page = 1]
        BY <3>1 DEF Tenants!SetItemsPerPage, Tenants!Choose, Tenants!Show
      <4>2. n \in {1, 2}
        OBVIOUS
      <4>3. Paged([ui EXCEPT !.size = n], db)
        BY <1>p, <4>2 DEF Paged
      <4> QED BY <4>1, <4>3
    <3>2. CASE ~\E n \in 1 .. 2 : Tenants!SetItemsPerPage(n)
      <4>1. \A x : /\ Paged([ui EXCEPT !.tab = x], db) /\ Paged([ui EXCEPT !.search = x], db)
                   /\ Paged([ui EXCEPT !.sort = x], db)
        BY <1>p DEF Paged
      <4> QED BY <1>1, <3>2, <4>1 DEF Tenants!SetTab, Tenants!SetSearch, Tenants!SetSort, Tenants!Choose, Tenants!Show
    <3> QED BY <3>1, <3>2
  <2>3. Paged(ui, db)' /\ ui'.page = 1
    BY <2>1, <2>2 DEF Paged
  <2> QED BY <1>a, <2>1, <2>3, TenantsFirstPage
<1>2. CASE \/ \E v \in {"list", "grid"} : Tenants!SetView(v)
           \/ Tenants!ExportTenants
           \/ \E r \in Rows : Tenants!OpenTenant(r)
           \/ \E p \in 1 .. 2 : Tenants!SetPage(p)
  <2>1. /\ calls' = calls /\ db' = db
        /\ DOMAIN ui' = DOMAIN ui /\ ui'.list = ui.list /\ ui'.tab = ui.tab /\ ui'.search = ui.search
        /\ ui'.size = ui.size
    BY <1>p, <1>2 DEF Tenants!SetView, Tenants!ExportTenants, Tenants!OpenTenant, Tenants!SetPage, Tenants!Show, Paged
  <2>2. /\ ui'.page \in Nat \ {0}
        /\ ui'.page <= IF Tenants!TotalPages = 0 THEN 1 ELSE Tenants!TotalPages
    <3>1. CASE \E p \in 1 .. 2 : Tenants!SetPage(p)
      <4>1. PICK p \in 1 .. 2 :
              /\ \/ p = ui.page - 1 /\ p >= 1
                 \/ p \in 1 .. (IF Tenants!TotalPages = 0 THEN 1 ELSE Tenants!TotalPages)
              /\ ui' = [ui EXCEPT !.page = p]
        BY <3>1 DEF Tenants!SetPage, Tenants!Show
      <4>2. ui'.page = p
        BY <1>p, <4>1 DEF Paged
      <4> QED BY <1>p, <1>t, <4>1, <4>2 DEF TenantsTable, Paged
    <3>2. CASE ~\E p \in 1 .. 2 : Tenants!SetPage(p)
      <4>1. ui'.page = ui.page
        BY <1>p, <1>2, <3>2 DEF Tenants!SetView, Tenants!ExportTenants, Tenants!OpenTenant, Tenants!Show, Paged
      <4> QED BY <1>p, <4>1 DEF TenantsTable, Paged
    <3> QED BY <3>1, <3>2
  <2> QED BY <1>a, <2>1, <2>2, TenantsSameTable
<1>3. CASE Tenants!Remount
  <2>1. calls' = AskFor(Unmounted(calls), <<"contracts">>, {"load"}, None) /\ ui' = Tenants!InitialUi /\ db' = db
    BY <1>3, TenantsShares DEF Tenants!Remount, Tenants!Ask
  <2>2. \A c \in calls' : c.ans \in {None, Failed, [db |-> db]}
    <3>1. Requests(calls)
      BY DEF TenantsFlagged, Flagged, Pending
    <3>2. Requests(Unmounted(calls))
      BY <3>1, StillRequests
    <3>3. \A c \in Unmounted(calls) : c.ans \in {None, Failed, [db |-> db]}
      BY <1>a, <3>1, AnswersStay
    <3> QED BY <2>1, <3>2, <3>3, AnswersStay
  <2>3. Paged(ui, db)' /\ ui'.page = 1
    BY <2>1 DEF Tenants!InitialUi, Paged
  <2> QED BY <2>1, <2>2, <2>3, TenantsFirstPage
<1> QED BY <1>1, <1>2, <1>3 DEF Tenants!User

\* Rows that arrive go back to the first page.
LEMMA TenantsTableDelivers ==
    ASSUME TenantsTable, Tenants!Deliver \/ Tenants!Forget PROVE TenantsTable'
<1>p. Paged(ui, db) /\ DOMAIN db = Rows
  BY DEF TenantsTable
<1>1. PICK c \in calls : calls' = calls \ {c} /\ db' = db
        /\ \/ DOMAIN ui' = DOMAIN ui /\ ui'.list = ui.list
           \/ c.ans \notin {None, Failed} /\ DOMAIN ui' = DOMAIN ui /\ ui'.list = c.ans.db
        /\ ui'.tab = ui.tab /\ ui'.search = ui.search /\ ui'.size = ui.size /\ ui'.page = ui.page
  BY <1>p DEF Tenants!Deliver, Tenants!TenantsLoaded, Tenants!Forget, Tenants!Answered, Tenants!Uses, Tenants!Lower,
     Paged
<1>2. \A b \in calls' : b.ans \in {None, Failed, [db |-> db]}
  BY <1>1 DEF TenantsTable
<1>3. CASE ui'.list = ui.list
  BY <1>p, <1>1, <1>2, <1>3, TenantsSameTable DEF TenantsTable, Paged
<1>4. CASE ui'.list # ui.list
  <2>1. ui'.list = db
    <3>1. c.ans = [db |-> db] /\ ui'.list = c.ans.db
      BY <1>1, <1>4 DEF TenantsTable
    <3> QED BY <3>1
  <2>2. DOMAIN ui.list = {}
    BY <1>p, <1>4, <2>1 DEF Paged
  <2>3. ui'.page = 1
    BY <1>p, <1>1, <2>2, TenantsPages DEF TenantsTable, Paged
  <2>4. Paged(ui, db)'
    BY <1>p, <1>1, <2>1 DEF Paged
  <2> QED BY <1>1, <1>2, <2>3, <2>4, TenantsFirstPage
<1> QED BY <1>3, <1>4

\* The server changes no row of a table it only reads.
LEMMA TenantsTableServes ==
    ASSUME TenantsFlagged, TenantsTable, Tenants!Serve PROVE TenantsTable'
<1>1. PICK c, a :
        /\ c \in calls
        /\ a \in {Failed, [db |-> db]} /\ db' = db /\ ui' = ui
        /\ calls' = (calls \ {c}) \union {[c EXCEPT !.ans = a]}
  BY DEF Tenants!Serve, Tenants!ServeAny
<1>2. [c EXCEPT !.ans = a].ans = a
  BY DEF TenantsFlagged, Flagged, Pending, Requests, Fields
<1>3. \A b \in calls' : b.ans \in {None, Failed, [db |-> db]}
  BY <1>1, <1>2 DEF TenantsTable
<1> QED BY <1>1, <1>3, TenantsSameTable DEF TenantsTable, Paged

\* The list of tenants never shows an empty page while the filters find somebody,
\* whatever was typed, sorted, paged and answered before.
THEOREM SomebodyOnEveryPage == Spec => []NoEmptyPage
<1> DEFINE Inv == view = "tenants" => TenantsFlagged /\ TenantsTable
<1>1. Init => Inv
  <2>1. Init /\ view = "tenants" => Tenants!Init
    BY DEF Init
  <2> QED BY <2>1, TenantsFlaggedFirst, TenantsTableStart
<1>2. Inv /\ [Next]_vars => Inv'
  <2> SUFFICES ASSUME Inv, [Next]_vars, view' = "tenants" PROVE TenantsFlagged' /\ TenantsTable'
    OBVIOUS
  <2>1. CASE UNCHANGED vars
    <3>1. ui' = ui /\ calls' = calls /\ db' = db /\ view' = view
      BY <2>1 DEF vars, pageVars
    <3>2. TenantsTable'
      BY <3>1, TenantsSameTable DEF TenantsTable, Paged
    <3> QED BY <3>1, <3>2 DEF TenantsFlagged, Flagged
  <2>2. CASE Next
    <3>1. view = "tenants" /\ Tenants!Next
      BY <2>2 DEF Next, At
    <3>2. Tenants!User \/ Tenants!Serve \/ Tenants!Deliver \/ Tenants!Forget
      BY <3>1 DEF Tenants!Next, Tenants!Step
    <3> QED BY <3>1, <3>2, TenantsFlaggedStep, TenantsTableUser, TenantsTableServes, TenantsTableDelivers
  <2> QED BY <2>1, <2>2
<1>3. Inv => NoEmptyPage
  BY TenantsOnPage DEF NoEmptyPage, Tenants!Current
<1> QED BY <1>1, <1>2, <1>3, PTL DEF Spec
=============================================================================
