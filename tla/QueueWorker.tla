---------------------------- MODULE QueueWorker ----------------------------
(***************************************************************************)
(* The queues of background work: the API that publishes, the RabbitMQ     *)
(* broker, and any number of worker processes (cmd/worker), each with one  *)
(* consumer per queue.  The broker lends a message to a consumer's channel *)
(* until it is acknowledged, refused, or the channel closes; connections   *)
(* break and are dialled again, processes stop, crash and are restarted.   *)
(*                                                                         *)
(* Messages are numbered in the order the broker got them, which is the    *)
(* place a message that is requeued goes back to.                          *)
(***************************************************************************)
EXTENDS Naturals, Sequences, FiniteSets, Functions

CONSTANTS
    None,
    Workers,
    Messages,
    Queues,
    QueueOf,        \* the queue the routing key of a message leads to
    RetryCount,     \* the x-retry-count its publisher wrote
    Malformed,      \* messages a consumer cannot read
    Prefetch,       \* Qos of each queue: how many messages one channel may hold
    MaxStarts,      \* bound: how often workers are started
    Cap             \* bound: successes and failures of a message are counted up to here

MaxRetries == 3

\* maxNotificationRetries counts retries: a failure is sent back unless it has
\* been retried that often.
Patient == {"q.notification.whatsapp", "q.notification.email"}
Triage == "q.ai.complaint_triage"

ASSUME QueueAssumption ==
    /\ Messages \subseteq Nat /\ Malformed \subseteq Messages
    /\ QueueOf \in [Messages -> Queues] /\ RetryCount \in [Messages -> Nat]
    /\ Queues \subseteq DOMAIN Prefetch /\ \A q \in Queues : Prefetch[q] \in Nat \ {0}
    /\ MaxStarts \in Nat /\ Cap \in Nat \ {0}
    /\ None \notin Messages
    /\ Workers \intersect {"new", "dropped", "ready", "acked", "dead"} = {}

VARIABLES
    at,         \* where the broker has each message: ready, lent to a worker, acked, ...
    topology,   \* the exchanges and queues are declared
    process,    \* of each worker: down, running, draining
    link,       \* its connection is open
    consumer,   \* its consumers
    starts,
    done,       \* how often the work of a message took effect
    fails       \* how often it failed

vars == <<at, topology, process, link, consumer, starts, done, fails>>

\* job is the message a consumer handles, buffer those its channel holds besides.
ConsumerStates ==
    [pc : {"off", "starting", "idle", "busy", "performed", "backoff"},
     job : Messages \union {None}, buffer : Seq(Messages), open : BOOLEAN]

\* A consumer that is at work has a message that is not settled.
AtWork == {"busy", "performed", "backoff"}

Idle == [pc |-> "idle", job |-> None, buffer |-> <<>>, open |-> TRUE]
Off == [Idle EXCEPT !.pc = "off", !.open = FALSE]
Starting == [Off EXCEPT !.pc = "starting"]

Init ==
    /\ at = [m \in Messages |-> "new"]
    /\ topology = FALSE
    /\ process = [w \in Workers |-> "down"] /\ link = [w \in Workers |-> FALSE]
    /\ consumer = [w \in Workers |-> [q \in Queues |-> Off]]
    /\ starts = 0
    /\ done = [m \in Messages |-> 0] /\ fails = [m \in Messages |-> 0]

Bump(n) == IF n < Cap THEN n + 1 ELSE n

-----------------------------------------------------------------------------
(* The publishers                                                          *)

\* The API declares the topology when it starts, if it is connected by then, and
\* never after; so does a worker (Start).
DeclareTopology ==
    /\ topology' = TRUE
    /\ UNCHANGED <<at, process, link, consumer, starts, done, fails>>

InTurn(m) == \A l \in Messages : l < m => at[l] # "new"

\* The exchange routes the message to its queue.
Routed(m) ==
    /\ topology
    /\ at' = [at EXCEPT ![m] = "ready"]
    /\ UNCHANGED done

\* The errors of a publish are dropped and nothing is confirmed: a message that
\* meets a broken connection, or no queue, is gone.
Dropped(m) ==
    /\ at' = [at EXCEPT ![m] = "dropped"]
    /\ UNCHANGED done

\* Without a broker, the API triages a complaint itself.
TriagedAtOnce(m) ==
    /\ QueueOf[m] = Triage
    /\ at' = [at EXCEPT ![m] = "dropped"]
    /\ done' = [done EXCEPT ![m] = Bump(@)]

Publish(m) ==
    /\ at[m] = "new" /\ InTurn(m)
    /\ Routed(m) \/ Dropped(m) \/ TriagedAtOnce(m)
    /\ UNCHANGED <<topology, process, link, consumer, starts, fails>>

-----------------------------------------------------------------------------
(* The broker                                                              *)

\* What a channel has not acknowledged yet.
Unacked(c) == IF c.open THEN (Range(c.buffer) \union {c.job}) \ {None} ELSE {}

HeldBy(w) == UNION {Unacked(consumer[w][q]) : q \in Queues}

Released(ms) == [m \in Messages |-> IF m \in ms THEN "ready" ELSE at[m]]

First(q, m) == QueueOf[m] = q /\ at[m] = "ready" /\ \A l \in Messages : QueueOf[l] = q /\ at[l] = "ready" => m <= l

\* Until its context is cancelled, a consumer is sent what is first in its queue.
Deliver(w, q, m) ==
    /\ process[w] = "running" /\ consumer[w][q].open
    /\ Cardinality(Unacked(consumer[w][q])) < Prefetch[q]
    /\ First(q, m)
    /\ at' = [at EXCEPT ![m] = w]
    /\ consumer' = [consumer EXCEPT ![w][q].buffer = Append(@, m)]
    /\ UNCHANGED <<topology, process, link, starts, done, fails>>

-----------------------------------------------------------------------------
(* A consumer: one goroutine, one message at a time                        *)

Steps(w, q, c) == consumer' = [consumer EXCEPT ![w][q] = c]

\* IsConnected, Channel, Qos and Consume; any of them may fail, and the error
\* of a consumer is dropped.
Subscribe(w, q) ==
    /\ consumer[w][q].pc = "starting"
    /\ \/ link[w] /\ topology /\ Steps(w, q, Idle)
       \/ Steps(w, q, Off)
    /\ UNCHANGED <<at, topology, process, link, starts, done, fails>>

Take(w, q) ==
    LET c == consumer[w][q]
    IN  /\ c.pc = "idle" /\ c.buffer # <<>>
        /\ Steps(w, q, [c EXCEPT !.pc = "busy", !.job = Head(c.buffer), !.buffer = Tail(c.buffer)])
        /\ UNCHANGED <<at, topology, process, link, starts, done, fails>>

\* The channel is left open.
QuitUnclosed(w, q) ==
    /\ consumer[w][q].pc = "idle" /\ (process[w] = "draining" \/ ~consumer[w][q].open)
    /\ Steps(w, q, Off)
    /\ UNCHANGED <<at, topology, process, link, starts, done, fails>>

\* The context is not looked at.
QuitWhenClosed(w, q) ==
    /\ consumer[w][q].pc = "idle" /\ ~consumer[w][q].open
    /\ Steps(w, q, Off)
    /\ UNCHANGED <<at, topology, process, link, starts, done, fails>>

\* The context is cancelled, or the channel's deliveries have ended.  The
\* deferred Close gives the rest back.
Quit(w, q) ==
    LET c == consumer[w][q]
    IN  /\ c.pc = "idle" /\ (process[w] = "draining" \/ ~c.open)
        /\ at' = Released(Unacked(c))
        /\ Steps(w, q, Off)
        /\ UNCHANGED <<topology, process, link, starts, done, fails>>

\* Ack and Nack do nothing on a channel that was closed meanwhile.
Settle(w, q, place) ==
    LET c == consumer[w][q]
    IN  /\ at' = IF c.open THEN [at EXCEPT ![c.job] = place] ELSE at
        /\ Steps(w, q, [c EXCEPT !.pc = "idle", !.job = None])

GoesOn(w, q, pc) == Steps(w, q, [consumer[w][q] EXCEPT !.pc = pc]) /\ UNCHANGED at

Handling(w, q) == consumer[w][q].pc = "busy"

Job(w, q) == consumer[w][q].job

\* What cannot be read is skipped.
RefuseUnsettled(w, q) ==
    /\ Handling(w, q) /\ Job(w, q) \in Malformed
    /\ Steps(w, q, [consumer[w][q] EXCEPT !.pc = "idle", !.job = None])
    /\ fails' = [fails EXCEPT ![Job(w, q)] = Bump(@)]
    /\ UNCHANGED <<at, topology, process, link, starts, done>>

\* What cannot be read is requeued.
RefuseForNow(w, q) ==
    /\ Handling(w, q) /\ Job(w, q) \in Malformed
    /\ Settle(w, q, "ready")
    /\ fails' = [fails EXCEPT ![Job(w, q)] = Bump(@)]
    /\ UNCHANGED <<topology, process, link, starts, done>>

\* What cannot be read is refused for good.
Refuse(w, q) ==
    /\ Handling(w, q) /\ Job(w, q) \in Malformed
    /\ Settle(w, q, "dead")
    /\ fails' = [fails EXCEPT ![Job(w, q)] = Bump(@)]
    /\ UNCHANGED <<topology, process, link, starts, done>>

\* The message is sent, compiled, exported or triaged.
Perform(w, q) ==
    /\ Handling(w, q) /\ Job(w, q) \notin Malformed
    /\ done' = [done EXCEPT ![Job(w, q)] = Bump(@)]
    /\ GoesOn(w, q, "performed")
    /\ UNCHANGED <<topology, process, link, starts, fails>>

\* An advice that cannot be saved is logged, and its job is acknowledged.
Unsaved(w, q) ==
    /\ Handling(w, q) /\ Job(w, q) \notin Malformed /\ q = Triage
    /\ GoesOn(w, q, "performed")
    /\ UNCHANGED <<topology, process, link, starts, done, fails>>

\* Every failure is logged and acknowledged.
FailAcknowledged(w, q) ==
    /\ Handling(w, q) /\ Job(w, q) \notin Malformed /\ q # Triage
    /\ done' \in {done, [done EXCEPT ![Job(w, q)] = Bump(@)]}
    /\ fails' = [fails EXCEPT ![Job(w, q)] = Bump(@)]
    /\ Settle(w, q, "acked")
    /\ UNCHANGED <<topology, process, link, starts>>

\* What failed is sent back, and the handler falls through to its acknowledgement.
FailFallsThrough(w, q) ==
    /\ Handling(w, q) /\ Job(w, q) \notin Malformed /\ q # Triage
    /\ at' = IF consumer[w][q].open THEN [at EXCEPT ![Job(w, q)] = "ready"] ELSE at
    /\ Steps(w, q, [consumer[w][q] EXCEPT !.pc = "performed", !.job = None])
    /\ fails' = [fails EXCEPT ![Job(w, q)] = Bump(@)]
    /\ UNCHANGED <<topology, process, link, starts, done>>

\* A failure, which may be an effect whose answer was lost; the advisor of
\* complaints falls back on rules of its own and never fails.  A notification
\* waits before it is sent back.  Nothing is written into the message: its
\* x-retry-count stays what the publisher wrote.
Fail(w, q) ==
    /\ Handling(w, q) /\ Job(w, q) \notin Malformed /\ q # Triage
    /\ done' \in {done, [done EXCEPT ![Job(w, q)] = Bump(@)]}
    /\ fails' = [fails EXCEPT ![Job(w, q)] = Bump(@)]
    /\ IF RetryCount[Job(w, q)] >= MaxRetries THEN Settle(w, q, "dead")
       ELSE IF q \in Patient THEN GoesOn(w, q, "backoff")
       ELSE Settle(w, q, "ready")
    /\ UNCHANGED <<topology, process, link, starts>>

SendBack(w, q) ==
    /\ consumer[w][q].pc = "backoff"
    /\ Settle(w, q, "ready")
    /\ UNCHANGED <<topology, process, link, starts, done, fails>>

Ack(w, q) ==
    /\ consumer[w][q].pc = "performed"
    /\ Settle(w, q, "acked")
    /\ UNCHANGED <<topology, process, link, starts, done, fails>>

Consume(w, q) ==
    \/ Subscribe(w, q) \/ Take(w, q) \/ Quit(w, q)
    \/ Refuse(w, q) \/ Perform(w, q) \/ Unsaved(w, q) \/ Fail(w, q)
    \/ SendBack(w, q) \/ Ack(w, q)

-----------------------------------------------------------------------------
(* The worker process and its connection                                   *)

\* Connected or not, the worker runs; it declares the topology, which may fail,
\* and starts its consumers only now.
Start(w) ==
    /\ process[w] = "down" /\ starts < MaxStarts
    /\ process' = [process EXCEPT ![w] = "running"]
    /\ starts' = starts + 1
    /\ \/ /\ link' = [link EXCEPT ![w] = TRUE]
          /\ consumer' = [consumer EXCEPT ![w] = [q \in Queues |-> Starting]]
          /\ topology' \in {topology, TRUE}
       \/ UNCHANGED <<link, consumer, topology>>
    /\ UNCHANGED <<at, done, fails>>

\* The connection breaks, and its channels with it.
LoseLink(w) ==
    /\ link[w]
    /\ link' = [link EXCEPT ![w] = FALSE]
    /\ at' = Released(HeldBy(w))
    /\ consumer' = [consumer EXCEPT ![w] =
                      [q \in Queues |-> [consumer[w][q] EXCEPT !.buffer = <<>>, !.open = FALSE]]]
    /\ UNCHANGED <<topology, process, starts, done, fails>>

\* The supervisor dials until there is a connection; it starts no consumer.
Reconnect(w) ==
    /\ process[w] # "down" /\ ~link[w]
    /\ link' = [link EXCEPT ![w] = TRUE]
    /\ UNCHANGED <<at, topology, process, consumer, starts, done, fails>>

\* SIGINT or SIGTERM cancels the context of all consumers.
Signal(w) ==
    /\ process[w] = "running"
    /\ process' = [process EXCEPT ![w] = "draining"]
    /\ UNCHANGED <<at, topology, link, consumer, starts, done, fails>>

\* When all consumers have returned the connection is closed.
Exit(w) ==
    /\ process[w] = "draining" /\ \A q \in Queues : consumer[w][q].pc = "off"
    /\ process' = [process EXCEPT ![w] = "down"]
    /\ link' = [link EXCEPT ![w] = FALSE]
    /\ UNCHANGED <<at, topology, consumer, starts, done, fails>>

Crash(w) ==
    /\ process[w] # "down"
    /\ process' = [process EXCEPT ![w] = "down"]
    /\ link' = [link EXCEPT ![w] = FALSE]
    /\ at' = Released(HeldBy(w))
    /\ consumer' = [consumer EXCEPT ![w] = [q \in Queues |-> Off]]
    /\ UNCHANGED <<topology, starts, done, fails>>

-----------------------------------------------------------------------------

Next ==
    \/ DeclareTopology
    \/ \E m \in Messages : Publish(m)
    \/ \E w \in Workers :
        \/ \E q \in Queues : Consume(w, q) \/ \E m \in Messages : Deliver(w, q, m)
        \/ Start(w) \/ LoseLink(w) \/ Reconnect(w) \/ Signal(w) \/ Exit(w) \/ Crash(w)

\* A consumer runs on: what it calls returns, with an error at worst.  The broker
\* delivers at once, so a message does not come first in its queue, with room in
\* a channel, again and again for nothing.  A process whose consumers have
\* returned exits.
Fairness ==
    \A w \in Workers :
        /\ \A q \in Queues :
            /\ WF_vars(Consume(w, q))
            /\ \A m \in Messages : SF_vars(Deliver(w, q, m))
        /\ WF_vars(Exit(w))

Spec == Init /\ [][Next]_vars /\ Fairness

-----------------------------------------------------------------------------
(* Properties                                                              *)

Places == {"new", "dropped", "ready", "acked", "dead"}

Typed ==
    /\ at \in [Messages -> Places \union Workers]
    /\ topology \in BOOLEAN
    /\ process \in [Workers -> {"down", "running", "draining"}] /\ link \in [Workers -> BOOLEAN]
    /\ consumer \in [Workers -> [Queues -> ConsumerStates]]
    /\ starts \in 0 .. MaxStarts
    /\ done \in [Messages -> 0 .. Cap] /\ fails \in [Messages -> 0 .. Cap]

\* Every variable holds values of its type, and a consumer is at work exactly
\* while it has a message that it has not settled: no delivery is settled twice.
TypeOK ==
    /\ Typed
    /\ \A w \in Workers, q \in Queues : consumer[w][q].pc \in AtWork <=> consumer[w][q].job # None

\* What the broker counts as unacknowledged is in the hands of one consumer of
\* the worker it was lent to, of the message's own queue, and in no other's:
\* whatever breaks, no message is left lent to a channel that is gone.
LentIsHeld ==
    \A m \in Messages, w \in Workers :
        at[m] = w <=> \E q \in Queues : m \in Unacked(consumer[w][q])

\* Where a message is, as whoever needs its work done sees it.
StageOf(place) ==
    IF place \in {"new", "dropped"} THEN "absent"
    ELSE IF place = "ready" THEN "waiting"
    ELSE IF place = "acked" THEN "done"
    ELSE IF place = "dead" THEN "given up"
    ELSE "lent"

Stages == [m \in Messages |-> StageOf(at[m])]
Performed == {m \in Messages : done[m] > 0}
Failed == {m \in Messages : fails[m] > 0}

Board == INSTANCE WorkQueue WITH
            stage <- Stages, performed <- Performed, failed <- Failed,
            BestEffort <- {m \in Messages : QueueOf[m] = Triage}

\* The queue keeps what a queue of work promises: nothing that the broker has is
\* lost by a crash, a broken connection or a stop, nothing is acknowledged
\* before it was performed, and only what failed is a dead letter.
KeepsPromise == Board!Spec

\* A message that was lent is let go again, acknowledged, refused or given back:
\* also one that waits in the buffer of a consumer whose other messages fail.
LetGo == \A m \in Messages : at[m] \in Workers ~> at[m] \notin Workers

\* A worker that is told to stop does, with nothing in its hands.
StopsCleanly == \A w \in Workers : process[w] = "draining" ~> process[w] = "down" /\ HeldBy(w) = {}

\* While a consumer of its queue stays subscribed, a message that waits is settled
\* in the end, even if some of the others never can be done, as long as they
\* are fewer than a channel may hold.
Hopeless(ms, q) == [][\A w \in Workers : Fail(w, q) => Job(w, q) \in ms]_vars

Served ==
    \A w \in Workers, q \in Queues, ms \in SUBSET Messages :
        Cardinality(ms) < Prefetch[q] =>
            (<>[](process[w] = "running" /\ consumer[w][q].open) /\ <>Hopeless(ms, q)
             => \A m \in Messages \ ms : QueueOf[m] = q => (at[m] = "ready" ~> at[m] \in {"acked", "dead"}))

\* What failed more often than it may be retried is a dead letter.
DeadAfterRetries == \A m \in Messages : fails[m] > MaxRetries => at[m] = "dead"
=============================================================================
