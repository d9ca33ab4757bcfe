------------------------------ MODULE WebPage ------------------------------
(***************************************************************************)
(* A mounted page of the web client and its requests to the server: what   *)
(* lib/api.ts and React do for every page, and the state every page keeps. *)
(*                                                                         *)
(* A request is on its way until it is answered, and its answer is on its  *)
(* way until the page's continuation runs.  GETs of one key share one      *)
(* request; every other request is a request of its own, told apart by n.  *)
(* The answer is the state of the server when it served the request, of    *)
(* which the continuation reads what it needs, or Failed: a refusal, or an *)
(* answer that was lost after the server did the work.                     *)
(***************************************************************************)
EXTENDS Naturals, FiniteSets

CONSTANTS
    None,       \* no answer yet, nothing selected
    Failed,     \* the promise was rejected
    Rows,       \* the rows of the table the page is about
    MaxCalls,   \* a user starts nothing while this many requests are out
    MaxClicks   \* things the user does in all

ASSUME WebAssumption ==
    /\ Rows \subseteq Nat \ {0} /\ IsFiniteSet(Rows) /\ None \notin Rows
    /\ MaxCalls \in Nat \ {0} /\ MaxClicks \in Nat

VARIABLES
    ui,         \* the React state of the mounted page
    calls,      \* the requests whose continuation has not run
    db,         \* the server's rows
    clicks,     \* how often the user has acted
    clean       \* no request has failed so far, and none was answered too late

pageVars == <<ui, calls, db, clicks, clean>>

-----------------------------------------------------------------------------
(* Requests: the handlers that wait for one (for), what they closed over   *)
(* when they sent it (ctx)                                                 *)

Call(req, n, for, ctx) == [req |-> req, n |-> n, for |-> for, ctx |-> ctx, ans |-> None]

Op(c) == c.req[1]

\* apiFetch of a GET: a request of the same key that is still in flight is
\* shared, also by a page that was mounted after it was sent.
AskFor(cs, req, for, ctx) ==
    LET same == {c \in cs : c.req = req /\ c.n = 0}
    IN  (cs \ same) \union {IF same = {} THEN Call(req, 0, for, ctx)
                            ELSE [CHOOSE c \in same : TRUE EXCEPT
                                    !.for = @ \union for, !.ctx = IF ctx = None THEN @ ELSE ctx]}

Ask(cs, req, handler) == AskFor(cs, req, {handler}, None)

\* apiFetch of any other method.
Send(cs, req, for, ctx) ==
    LET n == CHOOSE n \in 1 .. Cardinality(cs) + 1 : \A c \in cs : c.n # n
    IN  cs \union {Call(req, n, for, ctx)}

Click == clicks < MaxClicks /\ clicks' = clicks + 1

MayCall == Cardinality(calls) < MaxCalls

\* Somebody waits for the request who will act on its answer on this page.
WaitedFor(c) == c.for \ {"chain"} # {}

\* The in-flight entry is cleared before the handlers go on.
Answered(ops) == {c \in calls : Op(c) \in ops /\ c.ans # None /\ c.for # {}}

-----------------------------------------------------------------------------
(* The server, and the answers nobody waits for                            *)

\* The server does one of the things a request may do, Effects(c), and its
\* answer arrives or is lost; or it refuses and does nothing.
ServeAny(Effects(_)) ==
    \E c \in calls :
        /\ c.ans = None
        /\ \E d \in Effects(c) \union {db}, a \in {"answered", "failed"} :
            /\ a = "answered" => d \in Effects(c)
            /\ db' = d
            /\ calls' = (calls \ {c}) \union
                          {[c EXCEPT !.ans = IF a = "failed" THEN Failed ELSE [db |-> d]]}
            /\ clean' = (clean /\ a = "answered" /\ (d # db => WaitedFor(c)))
        /\ UNCHANGED <<ui, clicks>>

\* The page is left and mounted again: its state starts afresh, the requests
\* that are out stay out, and only a handler that has more to send goes on.
Unmounted(cs) == {[c EXCEPT !.for = @ \intersect {"chain"}] : c \in cs}

\* The setters of a page that is no longer mounted do nothing.
Forget ==
    \E c \in calls :
        /\ c.ans # None /\ c.for = {}
        /\ calls' = calls \ {c}
        /\ UNCHANGED <<ui, db>>

-----------------------------------------------------------------------------
(* What the pages have in common.  ui.wait holds the handlers whose flag   *)
(* (busy, loading, ...) is up; a modal covers the page under it, and its   *)
(* own buttons that close it are never disabled.                           *)

Uncovered == ui.open = {}

Loading == "load" \in ui.wait

Raise(u, handler) == [u EXCEPT !.wait = @ \union {handler}]

Lower(u, c) == [u EXCEPT !.wait = @ \ c.for]

Fetching(u) == [Raise(u, "load") EXCEPT !.error = FALSE]

\* A step of the page alone.
Show(u) == ui' = u /\ UNCHANGED <<calls, db>>

\* A step that asks the server for something to show.
Load(u, req, handler) ==
    /\ MayCall
    /\ ui' = Raise(u, handler)
    /\ calls' = Ask(calls, req, handler)
    /\ UNCHANGED db

OpenModal(modal) == Show([ui EXCEPT !.open = {modal}])

CloseModal(modal) == modal \in ui.open /\ Show([ui EXCEPT !.open = @ \ {modal}])

\* A modal that is rendered only while it is open goes when it is closed: what
\* its handlers have sent goes on, with setters that do nothing.
Orphaned(cs, handlers) ==
    {[c EXCEPT !.for = IF @ \intersect handlers = {} THEN @ ELSE (@ \ handlers) \union {"orphan"}] : c \in cs}

Without(u, modal, handlers) == [u EXCEPT !.open = @ \ {modal}, !.wait = @ \ handlers]

Discard(modal, handlers) ==
    /\ modal \in ui.open
    /\ ui' = Without(ui, modal, handlers)
    /\ calls' = Orphaned(calls, handlers)
    /\ UNCHANGED db

\* A form that is not complete is not sent.
Incomplete(modals) == ui.open \intersect modals # {} /\ Show([ui EXCEPT !.error = TRUE])

\* A page of a table with one row to a page, as the server or the client cuts it.
PageOf(rows, page) == {r \in rows : Cardinality({q \in rows : q <= r}) = page}

\* A handler that sends: its button is disabled until it is done.
Submit(handler, req, ctx) ==
    /\ MayCall /\ handler \notin ui.wait
    /\ ui' = [Raise(ui, handler) EXCEPT !.error = FALSE]
    /\ calls' = Send(calls, req, {handler}, ctx)
    /\ UNCHANGED db

\* A handler whose request failed says so and is done.
Fails(c) ==
    /\ c.ans = Failed
    /\ ui' = [Lower(ui, c) EXCEPT !.error = TRUE]
    /\ calls' = calls \ {c}
    /\ UNCHANGED db

\* The answer is used, and nothing more is asked for.
Uses(c, u) ==
    /\ ui' = Lower(u, c)
    /\ calls' = calls \ {c}
    /\ UNCHANGED db

\* The usual try and catch: the answer is shown, or that there is none.
Takes(c, u) == Fails(c) \/ (c.ans # Failed /\ Uses(c, u))

-----------------------------------------------------------------------------
(* What nothing in the client makes good: a request that failed, a change  *)
(* that is done when its page was left already, and an answer that comes   *)
(* too late.  shown are the keys of what the page has on show, reloads the *)
(* requests whose handlers load that again.                                *)

\* A GET of what is on show that was served before a change, while no handler
\* has yet to ask for it again: the one that should have shared this request,
\* or asked for the key that was on show when its button was pressed.
Outdated(c, reloads) ==
    /\ c.ans # [db |-> db]
    /\ ~\E d \in calls : Op(d) \in reloads /\ WaitedFor(d)

\* Another key, of what the user had on show before, or of what its handler had
\* when it was pressed, is answered after the key that is on show.
Overtaken(c, shown) ==
    \E key \in shown : key[1] = Op(c) /\ ~\E d \in calls : d.req = key /\ WaitedFor(d)

TooLate(c, shown, reloads) ==
    IF c.req \in shown THEN Outdated(c, reloads) ELSE Overtaken(c, shown)

\* The requests whose continuation ran in this step.
Taken == {c \in calls : c.ans # None /\ WaitedFor(c) /\ ~\E d \in calls' : d.req = c.req /\ d.n = c.n /\ d.ans = c.ans}

-----------------------------------------------------------------------------

Step(User, Serve, Deliver, shown, reloads) ==
    \/ Click /\ User /\ UNCHANGED clean
    \/ Serve
    \/ /\ Deliver \/ Forget
       /\ clean' = (clean /\ \A c \in Taken : ~TooLate(c, shown, reloads))
       /\ UNCHANGED clicks

-----------------------------------------------------------------------------

\* No flag stays up, and no spinner turns, once nothing is on its way that
\* will take it down: the finally of every handler is reached.
NothingHangs == \A h \in ui.wait : \E c \in calls : h \in c.for

\* One press, one request: a handler that sends a change has one out at a
\* time, and its button is disabled meanwhile.
OneAtATime ==
    \A c, d \in calls : c.n > 0 =>
        /\ c.for \ {"chain"} \subseteq ui.wait
        /\ d.n > 0 /\ (c.for \ {"chain"}) \intersect d.for # {} => c = d
=============================================================================
