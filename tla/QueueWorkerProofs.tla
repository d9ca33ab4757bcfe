------------------------- MODULE QueueWorkerProofs -------------------------
(***************************************************************************)
(* For any number of workers, queues and messages: the types, that what    *)
(* the broker counts as unacknowledged is held by one consumer, and that   *)
(* the queues implement the abstract queue of work.                        *)
(*                                                                         *)
(* Why LentIsHeld is not inductive: it says who holds a message and not    *)
(* how often.  A message twice in a consumer's hands would be settled once *)
(* and still be held; one in the hands of the consumer of another queue    *)
(* would be settled there.  And a consumer whose channel closed goes on    *)
(* with its job, whose message by then is anybody's: what it may still say *)
(* of the job (it was accepted; it was performed; it failed) it knows from *)
(* its own steps, and no step of another consumer takes that back.         *)
(***************************************************************************)
EXTENDS QueueWorker, SequenceTheorems, TLAPS

Distinct(s) == \A i, j \in DOMAIN s : s[i] = s[j] => i = j

\* The hands of a consumer: one job, or none, and no message twice.
HandsOk(c) ==
    /\ c.pc \in AtWork <=> c.job # None
    /\ c.open => c.pc \notin {"off", "starting"}
    /\ ~c.open => c.buffer = <<>>
    /\ Distinct(c.buffer)
    /\ c.job \notin Range(c.buffer)

\* What the consumer knows of its job, given the place and the counts.
JobOk(q, c, a, d, f) ==
    c.job # None =>
        /\ QueueOf[c.job] = q
        /\ a[c.job] \notin {"new", "dropped"}
        /\ c.pc = "performed" => q = Triage \/ d[c.job] > 0
        /\ c.pc = "backoff" => f[c.job] > 0

\* What its channel has not acknowledged was lent to this worker.
LentOk(w, q, c, a) == \A m \in Unacked(c) : QueueOf[m] = q /\ a[m] = w

ConsumerOk(w, q, c, a, d, f) == HandsOk(c) /\ JobOk(q, c, a, d, f) /\ LentOk(w, q, c, a)

Inv ==
    /\ Typed
    /\ \A w \in Workers, q \in Queues : ConsumerOk(w, q, consumer[w][q], at, done, fails)
    /\ \A m \in Messages : at[m] \in Workers => m \in Unacked(consumer[at[m]][QueueOf[m]])
    /\ \A w \in Workers, q \in Queues : process[w] = "down" => consumer[w][q].pc = "off"
-----------------------------------------------------------------------------
(* Sequences and channels                                                  *)

\* Appending puts one more value in a sequence.
LEMMA AppendRange ==
    ASSUME NEW S, NEW s \in Seq(S), NEW e \in S
    PROVE  /\ Range(Append(s, e)) = Range(s) \union {e}
           /\ Distinct(s) /\ e \notin Range(s) => Distinct(Append(s, e))
<1> DEFINE t == Append(s, e)
<1>1. /\ DOMAIN s = 1 .. Len(s) /\ DOMAIN t = 1 .. Len(s) + 1 /\ Len(s) \in Nat
      /\ \A i \in 1 .. Len(s) : t[i] = s[i]
      /\ t[Len(s) + 1] = e
    BY AppendProperties
<1> HIDE DEF t
<1>2. Range(t) = Range(s) \union {e}
    BY <1>1 DEF Range
<1>3. Distinct(s) /\ e \notin Range(s) => Distinct(t)
    BY <1>1 DEF Range, Distinct
<1> QED BY <1>2, <1>3 DEF t

\* The head and the tail of a sequence have its values between them.
LEMMA TailRange ==
    ASSUME NEW S, NEW s \in Seq(S), s # <<>>
    PROVE  /\ Head(s) \in S /\ Tail(s) \in Seq(S)
           /\ Range(s) = {Head(s)} \union Range(Tail(s))
           /\ Distinct(s) => Distinct(Tail(s)) /\ Head(s) \notin Range(Tail(s))
<1> DEFINE t == Tail(s)
<1>1. /\ t \in Seq(S) /\ Head(s) \in S /\ Head(s) = s[1] /\ Len(s) \in Nat \ {0}
      /\ DOMAIN s = 1 .. Len(s) /\ DOMAIN t = 1 .. Len(s) - 1
      /\ \A i \in 1 .. Len(s) - 1 : t[i] = s[i + 1]
    BY HeadTailProperties, EmptySeq, LenProperties
<1> HIDE DEF t
<1>2. Range(s) \subseteq {s[1]} \union Range(t)
  <2>1. \A i \in 1 .. Len(s) : i # 1 => i - 1 \in 1 .. Len(s) - 1 /\ s[i] = t[i - 1]
      BY <1>1
  <2> QED BY <1>1, <2>1 DEF Range
<1>3. {s[1]} \union Range(t) \subseteq Range(s)
    BY <1>1 DEF Range
<1>4. ASSUME Distinct(s) PROVE Distinct(t) /\ s[1] \notin Range(t)
  <2>1. \A i \in 1 .. Len(s) - 1 : i + 1 \in 1 .. Len(s) /\ i + 1 # 1
      BY <1>1
  <2>2. \A i \in 1 .. Len(s) - 1 : t[i] # s[1]
      BY <1>1, <1>4, <2>1 DEF Distinct
  <2>3. Distinct(t)
      BY <1>1, <1>4, <2>1 DEF Distinct
  <2> QED BY <1>1, <2>2, <2>3 DEF Range
<1> QED BY <1>1, <1>2, <1>3, <1>4 DEF t

\* What a channel has not acknowledged are messages: its buffer and the job.
LEMMA UnackedIs ==
    ASSUME NEW c \in ConsumerStates
    PROVE  /\ Unacked(c) \subseteq Messages /\ Range(c.buffer) \subseteq Messages
           /\ ~c.open => Unacked(c) = {}
           /\ c.open => Unacked(c) = Range(c.buffer) \union ({c.job} \ {None})
<1>1. c.buffer \in Seq(Messages) /\ c.job \in Messages \union {None}
    BY DEF ConsumerStates
<1>2. Range(c.buffer) \subseteq Messages
    BY <1>1, RangeOfSeq, ElementOfSeq DEF Range
<1> QED BY <1>1, <1>2, QueueAssumption DEF Unacked

\* Consumers with empty hands.
LEMMA Fresh ==
    /\ Idle \in ConsumerStates /\ Off \in ConsumerStates /\ Starting \in ConsumerStates
    /\ HandsOk(Idle) /\ HandsOk(Off) /\ HandsOk(Starting)
    /\ Unacked(Idle) = {} /\ Unacked(Off) = {} /\ Unacked(Starting) = {}
<1>1. <<>> \in Seq(Messages) /\ Range(<<>>) = {} /\ Distinct(<<>>)
    BY EmptySeq DEF Range, Distinct
<1> QED BY <1>1 DEF Idle, Off, Starting, ConsumerStates, HandsOk, AtWork, Unacked

-----------------------------------------------------------------------------
(* A step of one consumer                                                  *)

\* A step after which one consumer is c: it takes from its own queue what is
\* ready, it settles what it was lent, and nothing that happened is undone.
BecomesOk(w, q, c) ==
    /\ consumer[w][q].pc # "off"
    /\ consumer' = [consumer EXCEPT ![w][q] = c]
    /\ at' \in [Messages -> Places \union Workers]
    /\ done' \in [Messages -> 0 .. Cap] /\ fails' \in [Messages -> 0 .. Cap]
    /\ \A m \in Messages : (done[m] > 0 => done'[m] > 0) /\ (fails[m] > 0 => fails'[m] > 0)
    /\ \A m \in Messages : at'[m] # at[m] =>
            /\ QueueOf[m] = q /\ at[m] \in {"ready", w}
            /\ at'[m] \in {"ready", "acked", "dead", w}
    /\ \A m \in Messages : at'[m] = w /\ QueueOf[m] = q => m \in Unacked(c)
    /\ ConsumerOk(w, q, c, at', done', fails')
    /\ UNCHANGED <<topology, process, link, starts>>

\* Such a step keeps the invariant, of this consumer and of the others.
LEMMA OneConsumer ==
    ASSUME Inv, NEW w \in Workers, NEW q \in Queues, NEW c \in ConsumerStates, BecomesOk(w, q, c)
    PROVE  Inv'
<1> USE DEF BecomesOk
<1>1. /\ consumer \in [Workers -> [Queues -> ConsumerStates]]
      /\ consumer' \in [Workers -> [Queues -> ConsumerStates]]
      /\ consumer'[w][q] = c
      /\ \A v \in Workers, p \in Queues : <<v, p>> # <<w, q>> => consumer'[v][p] = consumer[v][p]
    BY DEF Inv, Typed
<1>2. Typed'
    BY <1>1 DEF Inv, Typed, Places
<1>3. ASSUME NEW v \in Workers, NEW p \in Queues, <<v, p>> # <<w, q>>
      PROVE  ConsumerOk(v, p, consumer[v][p], at', done', fails')
  <2> DEFINE d == consumer[v][p]
  <2>1. d \in ConsumerStates /\ HandsOk(d) /\ JobOk(p, d, at, done, fails) /\ LentOk(v, p, d, at)
      BY <1>1 DEF Inv, ConsumerOk
  <2>2. JobOk(p, d, at', done', fails')
    <3> SUFFICES ASSUME d.job # None PROVE JobOk(p, d, at', done', fails')
        BY DEF JobOk
    <3>1. d.job \in Messages
        BY <2>1 DEF ConsumerStates
    <3>2. at'[d.job] \notin {"new", "dropped"}
        BY <2>1, <3>1, QueueAssumption DEF JobOk
    <3> QED BY <2>1, <3>1, <3>2 DEF JobOk
  <2>3. ASSUME NEW m \in Unacked(d) PROVE QueueOf[m] = p /\ at'[m] = v
    <3>1. m \in Messages /\ QueueOf[m] = p /\ at[m] = v
        BY <2>1, <2>3, UnackedIs DEF LentOk
    <3>2. at'[m] # at[m] => p = q /\ v \in {"ready", w}
        BY <3>1
    <3> QED BY <1>3, <3>1, <3>2, QueueAssumption
  <2> QED BY <2>1, <2>2, <2>3 DEF ConsumerOk, LentOk
<1>4. ASSUME NEW m \in Messages, at'[m] \in Workers
      PROVE  m \in Unacked(consumer'[at'[m]][QueueOf[m]])
  <2>1. QueueOf[m] \in Queues
      BY QueueAssumption
  <2>2. CASE at'[m] = w /\ QueueOf[m] = q
      BY <1>1, <2>2
  <2>3. CASE ~(at'[m] = w /\ QueueOf[m] = q)
    <3>1. at'[m] = at[m]
        BY <1>4, <2>3, QueueAssumption
    <3>2. consumer'[at[m]][QueueOf[m]] = consumer[at[m]][QueueOf[m]]
        BY <1>1, <1>4, <2>1, <2>3, <3>1
    <3> QED BY <1>4, <3>1, <3>2 DEF Inv
  <2> QED BY <2>2, <2>3
<1>5. \A v \in Workers, p \in Queues : process[v] = "down" => consumer'[v][p].pc = "off"
    BY <1>1 DEF Inv
<1> QED BY <1>1, <1>2, <1>3, <1>4, <1>5 DEF Inv


\* A consumer that settles its job has empty hands but for its buffer.
LEMMA SettledKeeps ==
    ASSUME Inv, NEW w \in Workers, NEW q \in Queues, NEW place \in {"ready", "acked", "dead"},
           consumer[w][q].pc \in AtWork, Settle(w, q, place),
           done' \in [Messages -> 0 .. Cap], fails' \in [Messages -> 0 .. Cap],
           \A m \in Messages : (done[m] > 0 => done'[m] > 0) /\ (fails[m] > 0 => fails'[m] > 0),
           UNCHANGED <<topology, process, link, starts>>
    PROVE  Inv'
<1> DEFINE c == consumer[w][q]
           d == [c EXCEPT !.pc = "idle", !.job = None]
<1>1. /\ c \in ConsumerStates /\ HandsOk(c) /\ JobOk(q, c, at, done, fails) /\ LentOk(w, q, c, at)
      /\ at \in [Messages -> Places \union Workers]
    BY DEF Inv, Typed, ConsumerOk
<1>2. c.job \in Messages /\ c.pc # "off"
    BY <1>1 DEF HandsOk, ConsumerStates, AtWork
<1>3. /\ d \in ConsumerStates /\ d.pc = "idle" /\ d.job = None
      /\ d.buffer = c.buffer /\ d.open = c.open
    BY <1>1 DEF ConsumerStates
<1>4. HandsOk(d)
  <2>1. None \notin Range(c.buffer)
      BY <1>1, UnackedIs, QueueAssumption
  <2> QED BY <1>1, <1>3, <2>1 DEF HandsOk, AtWork
<1>5. Unacked(d) = Unacked(c) \ {c.job}
  <2>1. Unacked(c) = IF c.open THEN Range(c.buffer) \union {c.job} ELSE {}
    <3>1. {c.job} \ {None} = {c.job}
        BY <1>2, QueueAssumption
    <3> HIDE DEF c
    <3> QED BY <1>1, <3>1, UnackedIs
  <2>2. Unacked(d) = IF c.open THEN Range(c.buffer) ELSE {}
    <3> HIDE DEF c, d
    <3>1. Unacked(d) = IF d.open THEN Range(d.buffer) \union ({None} \ {None}) ELSE {}
        BY <1>3, UnackedIs
    <3> QED BY <1>3, <3>1
  <2>3. c.job \notin Range(c.buffer)
      BY <1>1 DEF HandsOk
  <2> HIDE DEF c, d
  <2> QED BY <2>1, <2>2, <2>3
<1>6. consumer' = [consumer EXCEPT ![w][q] = d]
    BY DEF Settle, Steps
<1>7. /\ at' \in [Messages -> Places \union Workers]
      /\ \A m \in Messages : m # c.job => at'[m] = at[m]
      /\ c.open => at'[c.job] = place /\ at[c.job] = w /\ QueueOf[c.job] = q
      /\ ~c.open => at' = at
  <2>1. c.open => c.job \in Unacked(c)
      BY <1>1, <1>2, UnackedIs, QueueAssumption
  <2> QED BY <1>1, <1>2, <2>1 DEF Settle, Places, LentOk
<1>8. ConsumerOk(w, q, d, at', done', fails')
    BY <1>1, <1>3, <1>4, <1>5, <1>7, UnackedIs DEF ConsumerOk, JobOk, LentOk
<1>9. \A m \in Messages : at'[m] = w /\ QueueOf[m] = q => m \in Unacked(d)
  <2>1. \A m \in Messages : at[m] = w /\ QueueOf[m] = q => m \in Unacked(c)
      BY DEF Inv
  <2>2. c.open => at'[c.job] # w
      BY <1>7, QueueAssumption
  <2>3. ~c.open => Unacked(c) = {}
      BY <1>1, UnackedIs
  <2> QED BY <1>5, <1>7, <2>1, <2>2, <2>3
<1>10. \A m \in Messages : at'[m] # at[m] =>
            /\ QueueOf[m] = q /\ at[m] \in {"ready", w}
            /\ at'[m] \in {"ready", "acked", "dead", w}
    BY <1>7
<1>11. BecomesOk(w, q, d)
    BY <1>2, <1>6, <1>7, <1>8, <1>9, <1>10 DEF BecomesOk
<1> HIDE DEF d
<1> QED BY <1>3, <1>11, OneConsumer

\* A consumer that goes on with its job still has it.
LEMMA GoesOnKeeps ==
    ASSUME Inv, NEW w \in Workers, NEW q \in Queues, NEW pc \in AtWork,
           consumer[w][q].pc \in AtWork, GoesOn(w, q, pc),
           done' \in [Messages -> 0 .. Cap], fails' \in [Messages -> 0 .. Cap],
           \A m \in Messages : (done[m] > 0 => done'[m] > 0) /\ (fails[m] > 0 => fails'[m] > 0),
           pc = "performed" => q = Triage \/ done'[Job(w, q)] > 0,
           pc = "backoff" => fails'[Job(w, q)] > 0,
           UNCHANGED <<topology, process, link, starts>>
    PROVE  Inv'
<1> DEFINE c == consumer[w][q]
           d == [c EXCEPT !.pc = pc]
<1>1. /\ c \in ConsumerStates /\ HandsOk(c) /\ JobOk(q, c, at, done, fails) /\ LentOk(w, q, c, at)
      /\ at \in [Messages -> Places \union Workers]
    BY DEF Inv, Typed, ConsumerOk
<1>2. c.job \in Messages /\ c.pc # "off"
    BY <1>1 DEF HandsOk, ConsumerStates, AtWork
<1>3. /\ d \in ConsumerStates /\ d.pc = pc /\ d.job = c.job
      /\ d.buffer = c.buffer /\ d.open = c.open
    BY <1>1 DEF ConsumerStates, AtWork
<1>4. HandsOk(d)
    BY <1>1, <1>2, <1>3, QueueAssumption DEF HandsOk, AtWork
<1>5. Unacked(d) = Unacked(c)
    BY <1>3 DEF Unacked
<1>6. consumer' = [consumer EXCEPT ![w][q] = d] /\ at' = at
    BY DEF GoesOn, Steps
<1>7. ConsumerOk(w, q, d, at', done', fails')
    BY <1>1, <1>2, <1>3, <1>4, <1>5, <1>6 DEF ConsumerOk, JobOk, LentOk, Job
<1>8. \A m \in Messages : at'[m] = w /\ QueueOf[m] = q => m \in Unacked(d)
    BY <1>5, <1>6 DEF Inv
<1>9. BecomesOk(w, q, d)
    BY <1>1, <1>2, <1>6, <1>7, <1>8 DEF BecomesOk
<1> HIDE DEF d
<1> QED BY <1>3, <1>9, OneConsumer

\* What every step below starts from.
LEMMA ConsumerIs ==
    ASSUME Inv, NEW w \in Workers, NEW q \in Queues
    PROVE  /\ consumer[w][q] \in ConsumerStates
           /\ HandsOk(consumer[w][q]) /\ JobOk(q, consumer[w][q], at, done, fails)
           /\ LentOk(w, q, consumer[w][q], at)
           /\ \A m \in Messages : at[m] = w /\ QueueOf[m] = q => m \in Unacked(consumer[w][q])
           /\ at \in [Messages -> Places \union Workers]
           /\ done \in [Messages -> 0 .. Cap] /\ fails \in [Messages -> 0 .. Cap]
BY DEF Inv, Typed, ConsumerOk

\* A message that is delivered was in nobody's hands.
LEMMA DeliverKeeps ==
    ASSUME Inv, NEW w \in Workers, NEW q \in Queues, NEW m \in Messages, Deliver(w, q, m)
    PROVE  Inv'
<1> DEFINE c == consumer[w][q]
           d == [c EXCEPT !.buffer = Append(c.buffer, m)]
<1>1. /\ c \in ConsumerStates /\ HandsOk(c) /\ JobOk(q, c, at, done, fails) /\ LentOk(w, q, c, at)
      /\ at \in [Messages -> Places \union Workers]
      /\ \A l \in Messages : at[l] = w /\ QueueOf[l] = q => l \in Unacked(c)
    BY ConsumerIs
<1>2. /\ c.open /\ QueueOf[m] = q /\ at[m] = "ready"
      /\ at' = [at EXCEPT ![m] = w]
      /\ consumer' = [consumer EXCEPT ![w][q] = d]
      /\ UNCHANGED <<topology, process, link, starts, done, fails>>
    BY <1>1 DEF Deliver, First, ConsumerStates
<1>3. /\ c.buffer \in Seq(Messages) /\ c.pc \notin {"off", "starting"} /\ "ready" \notin Workers
      /\ c.job \in Messages \union {None}
    BY <1>1, <1>2, QueueAssumption DEF HandsOk, ConsumerStates
<1>4. m \notin Unacked(c)
    BY <1>1, <1>2, <1>3 DEF LentOk
<1>5. m \notin Range(c.buffer) /\ m # c.job
  <2> HIDE DEF c
  <2> QED BY <1>1, <1>2, <1>4, UnackedIs, QueueAssumption
<1>6. /\ Append(c.buffer, m) \in Seq(Messages)
      /\ Range(Append(c.buffer, m)) = Range(c.buffer) \union {m}
      /\ Distinct(Append(c.buffer, m))
    BY <1>1, <1>3, <1>5, AppendRange, AppendProperties DEF HandsOk
<1>7. /\ d \in ConsumerStates /\ d.pc = c.pc /\ d.job = c.job
      /\ d.buffer = Append(c.buffer, m) /\ d.open = c.open
    BY <1>1, <1>6 DEF ConsumerStates
<1>8. HandsOk(d)
    BY <1>1, <1>2, <1>5, <1>6, <1>7 DEF HandsOk
<1>9. Unacked(d) = Unacked(c) \union {m}
  <2> HIDE DEF c, d
  <2>1. Unacked(c) = Range(c.buffer) \union ({c.job} \ {None})
      BY <1>1, <1>2, UnackedIs
  <2>2. Unacked(d) = Range(d.buffer) \union ({d.job} \ {None})
      BY <1>2, <1>7, UnackedIs
  <2> QED BY <1>6, <1>7, <2>1, <2>2
<1>10. ConsumerOk(w, q, d, at', done', fails')
  <2>1. JobOk(q, d, at', done', fails')
      BY <1>1, <1>2, <1>3, <1>5, <1>7 DEF JobOk
  <2>2. LentOk(w, q, d, at')
      BY <1>1, <1>2, <1>9, UnackedIs DEF LentOk
  <2> QED BY <1>8, <2>1, <2>2 DEF ConsumerOk
<1>11. BecomesOk(w, q, d)
  <2>1. \A l \in Messages : at'[l] = w /\ QueueOf[l] = q => l \in Unacked(d)
      BY <1>1, <1>2, <1>9
  <2>2. \A l \in Messages : at'[l] # at[l] =>
            /\ QueueOf[l] = q /\ at[l] \in {"ready", w} /\ at'[l] \in {"ready", "acked", "dead", w}
      BY <1>1, <1>2
  <2>3. at' \in [Messages -> Places \union Workers] /\ done' = done /\ fails' = fails
      BY <1>1, <1>2
  <2> QED BY <1>2, <1>3, <1>10, <2>1, <2>2, <2>3, ConsumerIs DEF BecomesOk
<1> HIDE DEF d
<1> QED BY <1>7, <1>11, OneConsumer

\* A new subscription, and one that failed.
LEMMA SubscribeKeeps ==
    ASSUME Inv, NEW w \in Workers, NEW q \in Queues, Subscribe(w, q)
    PROVE  Inv'
<1> DEFINE c == consumer[w][q]
<1>1. /\ c \in ConsumerStates /\ HandsOk(c) /\ LentOk(w, q, c, at)
      /\ at \in [Messages -> Places \union Workers]
      /\ done \in [Messages -> 0 .. Cap] /\ fails \in [Messages -> 0 .. Cap]
      /\ \A l \in Messages : at[l] = w /\ QueueOf[l] = q => l \in Unacked(c)
    BY ConsumerIs
<1>2. c.pc = "starting" /\ Unacked(c) = {}
    BY <1>1, UnackedIs DEF Subscribe, HandsOk
<1>3. PICK d \in {Idle, Off} : consumer' = [consumer EXCEPT ![w][q] = d]
    BY DEF Subscribe, Steps
<1>4. UNCHANGED <<at, topology, process, link, starts, done, fails>>
    BY DEF Subscribe
<1>5. d \in ConsumerStates /\ HandsOk(d) /\ Unacked(d) = {} /\ d.job = None
  <2>1. Idle.job = None /\ Off.job = None
      BY DEF Idle, Off
  <2> QED BY <2>1, Fresh
<1>6. ConsumerOk(w, q, d, at', done', fails')
    BY <1>5 DEF ConsumerOk, JobOk, LentOk
<1>7. BecomesOk(w, q, d)
    BY <1>1, <1>2, <1>3, <1>4, <1>6 DEF BecomesOk
<1> QED BY <1>5, <1>7, OneConsumer

\* The head of the buffer becomes the job.
LEMMA TakeKeeps ==
    ASSUME Inv, NEW w \in Workers, NEW q \in Queues, Take(w, q)
    PROVE  Inv'
<1> DEFINE c == consumer[w][q]
           d == [c EXCEPT !.pc = "busy", !.job = Head(c.buffer), !.buffer = Tail(c.buffer)]
<1>1. /\ c \in ConsumerStates /\ HandsOk(c) /\ LentOk(w, q, c, at)
      /\ at \in [Messages -> Places \union Workers]
      /\ done \in [Messages -> 0 .. Cap] /\ fails \in [Messages -> 0 .. Cap]
      /\ \A l \in Messages : at[l] = w /\ QueueOf[l] = q => l \in Unacked(c)
    BY ConsumerIs
<1>2. /\ c.pc = "idle" /\ c.buffer # <<>> /\ consumer' = [consumer EXCEPT ![w][q] = d]
      /\ UNCHANGED <<at, topology, process, link, starts, done, fails>>
    BY DEF Take, Steps
<1>3. /\ c.buffer \in Seq(Messages) /\ c.job = None /\ c.open
    BY <1>1, <1>2 DEF HandsOk, ConsumerStates, AtWork
<1>4. /\ Head(c.buffer) \in Messages /\ Tail(c.buffer) \in Seq(Messages)
      /\ Range(c.buffer) = {Head(c.buffer)} \union Range(Tail(c.buffer))
      /\ Distinct(Tail(c.buffer)) /\ Head(c.buffer) \notin Range(Tail(c.buffer))
    BY <1>1, <1>2, <1>3, TailRange DEF HandsOk
<1>5. /\ d \in ConsumerStates /\ d.pc = "busy" /\ d.job = Head(c.buffer)
      /\ d.buffer = Tail(c.buffer) /\ d.open = c.open
    BY <1>1, <1>4 DEF ConsumerStates
<1>6. HandsOk(d)
    BY <1>3, <1>4, <1>5, QueueAssumption DEF HandsOk, AtWork
<1>7. Unacked(d) = Unacked(c)
  <2>1. d.job # None
      BY <1>4, <1>5, QueueAssumption
  <2> HIDE DEF c, d
  <2>2. Unacked(c) = Range(c.buffer) \union ({c.job} \ {None})
      BY <1>1, <1>3, UnackedIs
  <2>3. Unacked(d) = Range(d.buffer) \union ({d.job} \ {None})
      BY <1>3, <1>5, UnackedIs
  <2> QED BY <1>3, <1>4, <1>5, <2>1, <2>2, <2>3
<1>8. ConsumerOk(w, q, d, at', done', fails')
  <2>1. d.job \in Unacked(c)
    <3> HIDE DEF c, d
    <3> QED BY <1>1, <1>3, <1>4, <1>5, UnackedIs
  <2>2. QueueOf[d.job] = q /\ at[d.job] = w
      BY <1>1, <2>1 DEF LentOk
  <2>3. JobOk(q, d, at', done', fails')
      BY <1>2, <1>5, <2>2, QueueAssumption DEF JobOk
  <2>4. LentOk(w, q, d, at')
      BY <1>1, <1>2, <1>7 DEF LentOk
  <2> QED BY <1>6, <2>3, <2>4 DEF ConsumerOk
<1>9. BecomesOk(w, q, d)
    BY <1>1, <1>2, <1>7, <1>8 DEF BecomesOk
<1> HIDE DEF d
<1> QED BY <1>5, <1>9, OneConsumer

\* A consumer that returns gives back what it holds.
LEMMA QuitKeeps ==
    ASSUME Inv, NEW w \in Workers, NEW q \in Queues, Quit(w, q)
    PROVE  Inv'
<1> DEFINE c == consumer[w][q]
<1>1. /\ c \in ConsumerStates /\ LentOk(w, q, c, at)
      /\ at \in [Messages -> Places \union Workers]
      /\ done \in [Messages -> 0 .. Cap] /\ fails \in [Messages -> 0 .. Cap]
      /\ \A l \in Messages : at[l] = w /\ QueueOf[l] = q => l \in Unacked(c)
    BY ConsumerIs
<1>2. /\ c.pc = "idle" /\ consumer' = [consumer EXCEPT ![w][q] = Off]
      /\ at' = [m \in Messages |-> IF m \in Unacked(c) THEN "ready" ELSE at[m]]
      /\ UNCHANGED <<topology, process, link, starts, done, fails>>
    BY DEF Quit, Steps, Released
<1>3. Off.job = None
    BY DEF Off, Idle
<1>4. ConsumerOk(w, q, Off, at', done', fails')
    BY <1>3, Fresh DEF ConsumerOk, JobOk, LentOk
<1>5. /\ at' \in [Messages -> Places \union Workers]
      /\ \A m \in Messages : at'[m] # at[m] =>
            /\ QueueOf[m] = q /\ at[m] \in {"ready", w} /\ at'[m] \in {"ready", "acked", "dead", w}
      /\ \A m \in Messages : at'[m] = w /\ QueueOf[m] = q => m \in Unacked(Off)
    BY <1>1, <1>2, QueueAssumption DEF LentOk, Places
<1>6. BecomesOk(w, q, Off)
    BY <1>1, <1>2, <1>4, <1>5 DEF BecomesOk
<1> QED BY <1>6, Fresh, OneConsumer

\* Counting on never goes back to nothing.
LEMMA BumpCounts ==
    /\ \A n \in 0 .. Cap : Bump(n) \in 0 .. Cap /\ Bump(n) > 0
    /\ \A f \in [Messages -> 0 .. Cap], j \in Messages :
            LET g == [f EXCEPT ![j] = Bump(@)]
            IN  /\ g \in [Messages -> 0 .. Cap] /\ g[j] > 0
                /\ \A m \in Messages : f[m] > 0 => g[m] > 0
<1>1. \A n \in 0 .. Cap : Bump(n) \in 0 .. Cap /\ Bump(n) > 0
    BY QueueAssumption DEF Bump
<1> QED BY <1>1

\* The steps of a consumer that has a job.
LEMMA JobKeeps ==
    ASSUME Inv, NEW w \in Workers, NEW q \in Queues,
           Refuse(w, q) \/ Perform(w, q) \/ Unsaved(w, q) \/ Fail(w, q) \/ SendBack(w, q) \/ Ack(w, q)
    PROVE  Inv'
<1>1. /\ HandsOk(consumer[w][q]) /\ consumer[w][q] \in ConsumerStates
      /\ JobOk(q, consumer[w][q], at, done, fails)
      /\ done \in [Messages -> 0 .. Cap] /\ fails \in [Messages -> 0 .. Cap]
    BY ConsumerIs
<1>2. consumer[w][q].pc \in AtWork
    BY DEF Refuse, Perform, Unsaved, Fail, SendBack, Ack, Handling, AtWork
<1>3. Job(w, q) \in Messages
    BY <1>1, <1>2 DEF HandsOk, ConsumerStates, Job
<1>4. CASE Refuse(w, q)
  <2>1. fails' = [fails EXCEPT ![Job(w, q)] = Bump(@)] /\ done' = done
      BY <1>4 DEF Refuse
  <2>2. /\ fails' \in [Messages -> 0 .. Cap]
        /\ \A m \in Messages : fails[m] > 0 => fails'[m] > 0
      BY <1>1, <1>3, <2>1, BumpCounts
  <2> QED BY <1>1, <1>2, <1>4, <2>1, <2>2, SettledKeeps DEF Refuse
<1>5. CASE Perform(w, q)
  <2>1. done' = [done EXCEPT ![Job(w, q)] = Bump(@)] /\ fails' = fails
      BY <1>5 DEF Perform
  <2>2. /\ done' \in [Messages -> 0 .. Cap] /\ done'[Job(w, q)] > 0
        /\ \A m \in Messages : done[m] > 0 => done'[m] > 0
      BY <1>1, <1>3, <2>1, BumpCounts
  <2>3. "performed" \in AtWork
      BY DEF AtWork
  <2> QED BY <1>1, <1>2, <1>5, <2>1, <2>2, <2>3, GoesOnKeeps DEF Perform
<1>6. CASE Unsaved(w, q)
  <2>1. "performed" \in AtWork
      BY DEF AtWork
  <2> QED BY <1>1, <1>2, <1>6, <2>1, GoesOnKeeps DEF Unsaved
<1>7. CASE Fail(w, q)
  <2>1. fails' = [fails EXCEPT ![Job(w, q)] = Bump(@)]
      BY <1>7 DEF Fail
  <2>2. /\ fails' \in [Messages -> 0 .. Cap] /\ fails'[Job(w, q)] > 0
        /\ \A m \in Messages : fails[m] > 0 => fails'[m] > 0
      BY <1>1, <1>3, <2>1, BumpCounts
  <2>3. /\ done' \in [Messages -> 0 .. Cap]
        /\ \A m \in Messages : done[m] > 0 => done'[m] > 0
    <3>1. CASE done' = done
        BY <1>1, <3>1
    <3>2. CASE done' = [done EXCEPT ![Job(w, q)] = Bump(@)]
        BY <1>1, <1>3, <3>2, BumpCounts
    <3> QED BY <1>7, <3>1, <3>2 DEF Fail
  <2>4. /\ "backoff" \in AtWork /\ UNCHANGED <<topology, process, link, starts>>
        /\ \/ GoesOn(w, q, "backoff")
           \/ \E place \in {"ready", "dead"} : Settle(w, q, place)
      BY <1>7 DEF AtWork, Fail
  <2>5. CASE GoesOn(w, q, "backoff")
      BY <1>2, <2>2, <2>3, <2>4, <2>5, GoesOnKeeps
  <2>6. CASE \E place \in {"ready", "dead"} : Settle(w, q, place)
      BY <1>2, <2>2, <2>3, <2>4, <2>6, SettledKeeps
  <2> QED BY <2>4, <2>5, <2>6
<1>8. CASE SendBack(w, q)
    BY <1>1, <1>2, <1>8, SettledKeeps DEF SendBack
<1>9. CASE Ack(w, q)
    BY <1>1, <1>2, <1>9, SettledKeeps DEF Ack
<1> QED BY <1>4, <1>5, <1>6, <1>7, <1>8, <1>9

-----------------------------------------------------------------------------
(* A step of a whole worker                                                *)

\* A worker that lets go of all it has, and whose consumers are new: nobody else
\* is concerned.
LEMMA OneWorker ==
    ASSUME Inv, NEW w \in Workers, NEW cs \in [Queues -> ConsumerStates],
           consumer' = [consumer EXCEPT ![w] = cs],
           at' = Released(HeldBy(w)),
           \A q \in Queues : /\ HandsOk(cs[q]) /\ Unacked(cs[q]) = {}
                             /\ JobOk(q, cs[q], at, done, fails)
                             /\ process'[w] = "down" => cs[q].pc = "off",
           topology' \in BOOLEAN, starts' \in 0 .. MaxStarts,
           process' \in [Workers -> {"down", "running", "draining"}], link' \in [Workers -> BOOLEAN],
           \A v \in Workers : v # w => process'[v] = process[v],
           UNCHANGED <<done, fails>>
    PROVE  Inv'
<1>1. /\ consumer \in [Workers -> [Queues -> ConsumerStates]]
      /\ consumer' \in [Workers -> [Queues -> ConsumerStates]]
      /\ consumer'[w] = cs
      /\ \A v \in Workers : v # w => consumer'[v] = consumer[v]
    BY DEF Inv, Typed
<1>2. at \in [Messages -> Places \union Workers]
    BY DEF Inv, Typed
<1>3. \A m \in HeldBy(w) : at[m] = w
    BY ConsumerIs DEF HeldBy, LentOk
<1>4. \A m \in Messages : at[m] = w => m \in HeldBy(w)
  <2>1. \A m \in Messages : at[m] = w => m \in Unacked(consumer[w][QueueOf[m]])
      BY DEF Inv
  <2>2. \A m \in Messages : QueueOf[m] \in Queues
      BY QueueAssumption
  <2> QED BY <2>1, <2>2 DEF HeldBy
<1>5. \A m \in Messages : at'[m] = IF at[m] = w THEN "ready" ELSE at[m]
    BY <1>3, <1>4 DEF Released
<1>6. at' \in [Messages -> Places \union Workers]
    BY <1>2 DEF Released, Places
<1>7. Typed'
    BY <1>1, <1>6 DEF Inv, Typed
<1>8. ASSUME NEW v \in Workers, NEW q \in Queues
      PROVE  ConsumerOk(v, q, consumer'[v][q], at', done', fails')
  <2>1. CASE v = w
    <3>1. JobOk(q, cs[q], at', done', fails')
      <4> SUFFICES ASSUME cs[q].job # None PROVE JobOk(q, cs[q], at', done', fails')
          BY DEF JobOk
      <4>1. cs[q].job \in Messages
          BY DEF ConsumerStates
      <4> QED BY <1>5, <4>1 DEF JobOk
    <3> QED BY <1>1, <2>1, <3>1 DEF ConsumerOk, LentOk
  <2>2. CASE v # w
    <3> DEFINE d == consumer[v][q]
    <3>1. d \in ConsumerStates /\ HandsOk(d) /\ JobOk(q, d, at, done, fails) /\ LentOk(v, q, d, at)
        BY ConsumerIs
    <3>2. JobOk(q, d, at', done', fails')
      <4> SUFFICES ASSUME d.job # None PROVE JobOk(q, d, at', done', fails')
          BY DEF JobOk
      <4>1. d.job \in Messages
          BY <3>1 DEF ConsumerStates
      <4> QED BY <1>5, <3>1, <4>1 DEF JobOk
    <3>3. LentOk(v, q, d, at')
        BY <1>5, <2>2, <3>1, UnackedIs DEF LentOk
    <3> QED BY <1>1, <2>2, <3>1, <3>2, <3>3 DEF ConsumerOk
  <2> QED BY <2>1, <2>2
<1>9. ASSUME NEW m \in Messages, at'[m] \in Workers
      PROVE  m \in Unacked(consumer'[at'[m]][QueueOf[m]])
  <2>1. at'[m] = at[m] /\ at[m] # w
      BY <1>5, <1>9, QueueAssumption
  <2> QED BY <1>1, <1>9, <2>1 DEF Inv
<1>10. \A v \in Workers, q \in Queues : process'[v] = "down" => consumer'[v][q].pc = "off"
    BY <1>1 DEF Inv
<1> QED BY <1>7, <1>8, <1>9, <1>10 DEF Inv

\* A worker that only starts, is told to stop, stops, or is connected.
LEMMA ProcessKeeps ==
    ASSUME Inv, UNCHANGED <<at, consumer, done, fails>>,
           topology' \in BOOLEAN, starts' \in 0 .. MaxStarts,
           process' \in [Workers -> {"down", "running", "draining"}], link' \in [Workers -> BOOLEAN],
           \A v \in Workers : process'[v] = "down" =>
                process[v] = "down" \/ \A q \in Queues : consumer[v][q].pc = "off"
    PROVE  Inv'
BY DEF Inv, Typed

\* The steps of a worker and of its connection.
LEMMA WorkerKeeps ==
    ASSUME Inv, NEW w \in Workers,
           Start(w) \/ LoseLink(w) \/ Reconnect(w) \/ Signal(w) \/ Exit(w) \/ Crash(w)
    PROVE  Inv'
<1>1. /\ process \in [Workers -> {"down", "running", "draining"}] /\ link \in [Workers -> BOOLEAN]
      /\ topology \in BOOLEAN /\ starts \in 0 .. MaxStarts /\ MaxStarts \in Nat
      /\ consumer \in [Workers -> [Queues -> ConsumerStates]]
      /\ at \in [Messages -> Places \union Workers]
    BY QueueAssumption DEF Inv, Typed
<1>2. Off.job = None /\ Starting.job = None /\ Off.pc = "off"
    BY DEF Idle, Off, Starting
<1>3. CASE Start(w)
  <2>1. /\ process[w] = "down" /\ process' = [process EXCEPT ![w] = "running"]
        /\ starts' \in 0 .. MaxStarts
        /\ UNCHANGED <<at, done, fails>>
      BY <1>1, <1>3 DEF Start
  <2>2. CASE UNCHANGED <<link, consumer, topology>>
      BY <1>1, <2>1, <2>2, ProcessKeeps
  <2>3. CASE /\ link' = [link EXCEPT ![w] = TRUE]
             /\ consumer' = [consumer EXCEPT ![w] = [q \in Queues |-> Starting]]
             /\ topology' \in {topology, TRUE}
    <3> DEFINE cs == [q \in Queues |-> Starting]
    <3>1. cs \in [Queues -> ConsumerStates]
        BY Fresh
    <3>2. ASSUME NEW q \in Queues PROVE Unacked(consumer[w][q]) = {}
      <4>1. consumer[w][q] \in ConsumerStates /\ HandsOk(consumer[w][q])
          BY ConsumerIs
      <4>2. consumer[w][q].pc = "off"
          BY <2>1 DEF Inv
      <4>3. ~consumer[w][q].open
          BY <4>1, <4>2 DEF HandsOk
      <4> QED BY <4>1, <4>3, UnackedIs
    <3>3. at' = Released(HeldBy(w))
      <4>1. HeldBy(w) = {}
          BY <3>2 DEF HeldBy
      <4> QED BY <1>1, <2>1, <4>1 DEF Released
    <3>4. \A q \in Queues : /\ HandsOk(cs[q]) /\ Unacked(cs[q]) = {}
                            /\ JobOk(q, cs[q], at, done, fails)
        BY <1>2, Fresh DEF JobOk
    <3>5. process'[w] # "down"
        BY <1>1, <2>1
    <3> HIDE DEF cs
    <3>6. consumer' = [consumer EXCEPT ![w] = cs]
        BY <2>3 DEF cs
    <3> QED BY <1>1, <2>1, <2>3, <3>1, <3>3, <3>4, <3>5, <3>6, OneWorker
  <2> QED BY <1>3, <2>2, <2>3 DEF Start
<1>4. CASE LoseLink(w)
  <2> DEFINE cs == [q \in Queues |-> [consumer[w][q] EXCEPT !.buffer = <<>>, !.open = FALSE]]
  <2>1. /\ at' = Released(HeldBy(w)) /\ consumer' = [consumer EXCEPT ![w] = cs]
        /\ link' \in [Workers -> BOOLEAN]
        /\ UNCHANGED <<topology, process, starts, done, fails>>
      BY <1>1, <1>4 DEF LoseLink
  <2>2. <<>> \in Seq(Messages) /\ Range(<<>>) = {} /\ Distinct(<<>>)
      BY EmptySeq DEF Range, Distinct
  <2>3. ASSUME NEW q \in Queues
        PROVE  /\ cs[q] \in ConsumerStates /\ HandsOk(cs[q]) /\ Unacked(cs[q]) = {}
               /\ JobOk(q, cs[q], at, done, fails)
               /\ process'[w] = "down" => cs[q].pc = "off"
    <3> DEFINE c == consumer[w][q]
               d == [c EXCEPT !.buffer = <<>>, !.open = FALSE]
    <3>1. c \in ConsumerStates /\ HandsOk(c) /\ JobOk(q, c, at, done, fails)
        BY ConsumerIs
    <3>2. /\ d \in ConsumerStates /\ d.pc = c.pc /\ d.job = c.job
          /\ d.buffer = <<>> /\ d.open = FALSE
        BY <2>2, <3>1 DEF ConsumerStates
    <3>3. HandsOk(d) /\ JobOk(q, d, at, done, fails)
        BY <2>2, <3>1, <3>2 DEF HandsOk, JobOk
    <3>4. Unacked(d) = {}
        BY <3>2 DEF Unacked
    <3>5. process'[w] = "down" => d.pc = "off"
        BY <2>1, <3>2 DEF Inv
    <3>6. cs[q] = d
        OBVIOUS
    <3> HIDE DEF cs, d
    <3> QED BY <3>2, <3>3, <3>4, <3>5, <3>6
  <2>4. cs \in [Queues -> ConsumerStates]
      BY <2>3
  <2>5. /\ topology' \in BOOLEAN /\ starts' \in 0 .. MaxStarts
        /\ process' \in [Workers -> {"down", "running", "draining"}]
        /\ \A v \in Workers : v # w => process'[v] = process[v]
      BY <1>1, <2>1
  <2>6. \A q \in Queues : /\ HandsOk(cs[q]) /\ Unacked(cs[q]) = {}
                          /\ JobOk(q, cs[q], at, done, fails)
                          /\ process'[w] = "down" => cs[q].pc = "off"
      BY <2>3
  <2>7. at' = Released(HeldBy(w)) /\ consumer' = [consumer EXCEPT ![w] = cs]
      BY <2>1
  <2>8. link' \in [Workers -> BOOLEAN] /\ UNCHANGED <<done, fails>>
      BY <2>1
  <2> HIDE DEF cs
  <2> QED BY <2>4, <2>5, <2>6, <2>7, <2>8, OneWorker
<1>5. CASE Reconnect(w)
    BY <1>1, <1>5, ProcessKeeps DEF Reconnect
<1>6. CASE Signal(w)
    BY <1>1, <1>6, ProcessKeeps DEF Signal
<1>7. CASE Exit(w)
    BY <1>1, <1>7, ProcessKeeps DEF Exit
<1>8. CASE Crash(w)
  <2> DEFINE cs == [q \in Queues |-> Off]
  <2>1. /\ at' = Released(HeldBy(w)) /\ consumer' = [consumer EXCEPT ![w] = cs]
        /\ process' = [process EXCEPT ![w] = "down"] /\ link' \in [Workers -> BOOLEAN]
        /\ UNCHANGED <<topology, starts, done, fails>>
    <3>1. /\ at' = Released(HeldBy(w)) /\ process' = [process EXCEPT ![w] = "down"]
          /\ link' = [link EXCEPT ![w] = FALSE] /\ consumer' = [consumer EXCEPT ![w] = cs]
          /\ UNCHANGED <<topology, starts, done, fails>>
        BY <1>8, Zenon DEF Crash
    <3> QED BY <1>1, <3>1
  <2>2. cs \in [Queues -> ConsumerStates]
      BY Fresh
  <2>3. \A q \in Queues : /\ HandsOk(cs[q]) /\ Unacked(cs[q]) = {}
                          /\ JobOk(q, cs[q], at, done, fails)
                          /\ process'[w] = "down" => cs[q].pc = "off"
      BY <1>2, Fresh DEF JobOk
  <2>4. /\ topology' \in BOOLEAN /\ starts' \in 0 .. MaxStarts
        /\ process' \in [Workers -> {"down", "running", "draining"}]
        /\ \A v \in Workers : v # w => process'[v] = process[v]
      BY <1>1, <2>1
  <2> HIDE DEF cs
  <2> QED BY <2>1, <2>2, <2>3, <2>4, OneWorker
<1> QED BY <1>3, <1>4, <1>5, <1>6, <1>7, <1>8

-----------------------------------------------------------------------------
(* The invariant                                                           *)

\* A message that is published was in nobody's hands.
LEMMA PublishKeeps ==
    ASSUME Inv, NEW m \in Messages, Publish(m)
    PROVE  Inv'
<1>1. /\ at[m] = "new" /\ at' \in [Messages -> Places \union Workers]
      /\ \A l \in Messages : l # m => at'[l] = at[l]
      /\ at'[m] \in {"ready", "dropped"}
      /\ UNCHANGED <<topology, process, link, consumer, starts, fails>>
    BY DEF Publish, Routed, Dropped, TriagedAtOnce, Inv, Typed, Places
<1>2. /\ done' \in [Messages -> 0 .. Cap]
      /\ \A l \in Messages : done[l] > 0 => done'[l] > 0
  <2>1. done \in [Messages -> 0 .. Cap] /\ (done' = done \/ done' = [done EXCEPT ![m] = Bump(@)])
      BY DEF Publish, Routed, Dropped, TriagedAtOnce, Inv, Typed
  <2> QED BY <2>1, BumpCounts
<1>3. "new" \notin Workers /\ "ready" \notin Workers
    BY QueueAssumption
<1>4. ASSUME NEW w \in Workers, NEW q \in Queues
      PROVE  ConsumerOk(w, q, consumer[w][q], at', done', fails')
  <2> DEFINE c == consumer[w][q]
  <2>1. c \in ConsumerStates /\ HandsOk(c) /\ JobOk(q, c, at, done, fails) /\ LentOk(w, q, c, at)
      BY ConsumerIs
  <2>2. JobOk(q, c, at', done', fails')
    <3> SUFFICES ASSUME c.job # None PROVE JobOk(q, c, at', done', fails')
        BY DEF JobOk
    <3>1. c.job \in Messages
        BY <2>1 DEF ConsumerStates
    <3> QED BY <1>1, <1>2, <2>1, <3>1 DEF JobOk
  <2>3. LentOk(w, q, c, at')
      BY <1>1, <1>3, <2>1, UnackedIs DEF LentOk
  <2> QED BY <2>1, <2>2, <2>3 DEF ConsumerOk
<1>5. \A l \in Messages : at'[l] \in Workers => at'[l] = at[l]
  <2>1. "dropped" \notin Workers
      BY QueueAssumption
  <2> QED BY <1>1, <1>3, <2>1
<1>6. Typed'
    BY <1>1, <1>2 DEF Inv, Typed
<1> QED BY <1>1, <1>4, <1>5, <1>6 DEF Inv

\* Nobody holds anything yet.
LEMMA InitOk == Init => Inv
<1> SUFFICES ASSUME Init PROVE Inv
    OBVIOUS
<1>1. Typed
  <2>1. /\ at \in [Messages -> Places \union Workers] /\ topology \in BOOLEAN
        /\ process \in [Workers -> {"down", "running", "draining"}] /\ link \in [Workers -> BOOLEAN]
      BY DEF Init, Places
  <2>2. consumer \in [Workers -> [Queues -> ConsumerStates]]
      BY Fresh DEF Init
  <2>3. starts \in 0 .. MaxStarts /\ done \in [Messages -> 0 .. Cap] /\ fails \in [Messages -> 0 .. Cap]
      BY QueueAssumption DEF Init
  <2> QED BY <2>1, <2>2, <2>3 DEF Typed
<1>2. Off.job = None /\ Off.pc = "off"
    BY DEF Off, Idle
<1>3. \A w \in Workers, q \in Queues : consumer[w][q] = Off
    BY DEF Init
<1>4. \A w \in Workers, q \in Queues : ConsumerOk(w, q, consumer[w][q], at, done, fails)
    BY <1>2, <1>3, Fresh DEF ConsumerOk, JobOk, LentOk
<1>5. \A m \in Messages : at[m] \notin Workers
    BY QueueAssumption DEF Init
<1> QED BY <1>1, <1>2, <1>3, <1>4, <1>5 DEF Inv

\* One step per action.
LEMMA NextKeeps == Inv /\ [Next]_vars => Inv'
<1> SUFFICES ASSUME Inv, [Next]_vars PROVE Inv'
    OBVIOUS
<1>1. CASE DeclareTopology
    BY <1>1, ProcessKeeps DEF DeclareTopology, Inv, Typed
<1>2. ASSUME NEW m \in Messages, Publish(m) PROVE Inv'
    BY <1>2, PublishKeeps
<1>3. ASSUME NEW w \in Workers, NEW q \in Queues, NEW m \in Messages, Deliver(w, q, m) PROVE Inv'
    BY <1>3, DeliverKeeps
<1>4. ASSUME NEW w \in Workers, NEW q \in Queues, Consume(w, q) PROVE Inv'
    BY <1>4, SubscribeKeeps, TakeKeeps, QuitKeeps, JobKeeps DEF Consume
<1>5. ASSUME NEW w \in Workers,
             Start(w) \/ LoseLink(w) \/ Reconnect(w) \/ Signal(w) \/ Exit(w) \/ Crash(w)
      PROVE  Inv'
    BY <1>5, WorkerKeeps
<1>6. CASE UNCHANGED vars
    BY <1>6 DEF vars, Inv, Typed
<1> QED BY <1>1, <1>2, <1>3, <1>4, <1>5, <1>6 DEF Next

\* The invariant holds in every state, for any number of workers, queues and
\* messages.
THEOREM InvHolds == Spec => []Inv
<1> QED BY InitOk, NextKeeps, PTL DEF Spec

\* Every variable holds values of its type, and a consumer is at work exactly
\* while it has a message to settle.
THEOREM QueueTypes == Spec => []TypeOK
<1>1. Inv => TypeOK
    BY DEF Inv, TypeOK, ConsumerOk, HandsOk
<1> QED BY <1>1, InvHolds, PTL

\* What the broker counts as unacknowledged is in one consumer's hands.
THEOREM NothingStaysLent == Spec => []LentIsHeld
<1>1. Inv => LentIsHeld
  <2> SUFFICES ASSUME Inv, NEW m \in Messages, NEW w \in Workers
               PROVE  at[m] = w <=> \E q \in Queues : m \in Unacked(consumer[w][q])
      BY DEF LentIsHeld
  <2>1. QueueOf[m] \in Queues
      BY QueueAssumption
  <2>2. at[m] = w => m \in Unacked(consumer[w][QueueOf[m]])
      BY DEF Inv
  <2>3. \A q \in Queues : m \in Unacked(consumer[w][q]) => at[m] = w
      BY ConsumerIs DEF LentOk
  <2> QED BY <2>1, <2>2, <2>3
<1> QED BY <1>1, InvHolds, PTL

-----------------------------------------------------------------------------
(* The queues implement the abstract queue of work                         *)

\* What the places of the broker mean.
LEMMA StageIs ==
    /\ StageOf("new") = "absent" /\ StageOf("dropped") = "absent"
    /\ StageOf("ready") = "waiting" /\ StageOf("acked") = "done" /\ StageOf("dead") = "given up"
    /\ \A w \in Workers : StageOf(w) = "lent"
    /\ \A p \in Places \union Workers : p \notin {"new", "dropped"} => StageOf(p) # "absent"
BY QueueAssumption DEF StageOf, Places

\* One message changes its place.
LEMMA OneMoves ==
    ASSUME NEW m \in Messages, \A l \in Messages : l # m => at'[l] = at[l]
    PROVE  /\ Stages' = [Stages EXCEPT ![m] = StageOf(at'[m])]
           /\ Stages[m] = StageOf(at[m])
BY DEF Stages, StageOf

\* What is released is returned.
LEMMA ReleaseReturns ==
    ASSUME Inv, NEW ms \in SUBSET Messages, NEW w \in Workers, \A m \in ms : at[m] = w,
           at' = Released(ms), UNCHANGED <<done, fails>>
    PROVE  Board!Next
<1>1. \A m \in ms : Stages[m] = "lent"
    BY StageIs DEF Stages
<1>2. Stages' = [m \in Messages |-> IF m \in ms THEN "waiting" ELSE Stages[m]]
  <2>1. \A m \in Messages : at'[m] = IF m \in ms THEN "ready" ELSE at[m]
      BY DEF Released
  <2> QED BY <2>1, StageIs DEF Stages
<1>3. Board!Return(ms) /\ UNCHANGED <<Performed, Failed>>
    BY <1>1, <1>2 DEF Board!Return, Performed, Failed
<1> QED BY <1>3 DEF Board!Next

\* Nothing that whoever waits for the work can see.
LEMMA Unseen ==
    ASSUME UNCHANGED <<at, done, fails>>
    PROVE  UNCHANGED Board!boardVars
BY DEF Board!boardVars, Stages, Performed, Failed

\* To count a success, or a failure, of one message.
LEMMA CountsAre ==
    ASSUME Inv, NEW m \in Messages
    PROVE  /\ done' = [done EXCEPT ![m] = Bump(@)] => Performed' = Performed \union {m}
           /\ fails' = [fails EXCEPT ![m] = Bump(@)] => Failed' = Failed \union {m}
           /\ done' = done => Performed' = Performed
           /\ fails' = fails => Failed' = Failed
<1>1. done \in [Messages -> 0 .. Cap] /\ fails \in [Messages -> 0 .. Cap]
    BY DEF Inv, Typed
<1>2. ASSUME done' = [done EXCEPT ![m] = Bump(@)] PROVE Performed' = Performed \union {m}
  <2>1. \A l \in Messages : done'[l] > 0 <=> done[l] > 0 \/ l = m
      BY <1>1, <1>2, BumpCounts
  <2> QED BY <2>1 DEF Performed
<1>3. ASSUME fails' = [fails EXCEPT ![m] = Bump(@)] PROVE Failed' = Failed \union {m}
  <2>1. \A l \in Messages : fails'[l] > 0 <=> fails[l] > 0 \/ l = m
      BY <1>1, <1>3, BumpCounts
  <2> QED BY <2>1 DEF Failed
<1> QED BY <1>2, <1>3 DEF Performed, Failed

\* To work on a message: it stays where it is, or it failed and is returned or
\* given up.
LEMMA WorkDone ==
    ASSUME Inv, NEW m \in Messages, at[m] \notin {"new", "dropped"},
           done' \in {done, [done EXCEPT ![m] = Bump(@)]},
           fails' \in {fails, [fails EXCEPT ![m] = Bump(@)]},
           \/ at' = at
           \/ /\ at[m] \in Workers /\ fails'[m] > 0
              /\ \E p \in {"ready", "dead"} : at' = [at EXCEPT ![m] = p]
    PROVE  Board!Next
<1>1. /\ Performed' \in {Performed, Performed \union {m}}
      /\ Failed' \in {Failed, Failed \union {m}}
    BY CountsAre
<1>2. Stages[m] # "absent"
    BY StageIs DEF Stages, Inv, Typed
<1>3. Stages' = Stages \/ (m \in Failed' /\ (Board!Return({m}) \/ Board!GiveUp(m)))
  <2>1. CASE at' = at
      BY <2>1 DEF Stages
  <2>2. ASSUME NEW p \in {"ready", "dead"}, at' = [at EXCEPT ![m] = p],
               at[m] \in Workers, fails'[m] > 0
        PROVE  m \in Failed' /\ (Board!Return({m}) \/ Board!GiveUp(m))
    <3>1. Stages' = [Stages EXCEPT ![m] = StageOf(p)] /\ Stages[m] = "lent"
      <4>1. at'[m] = p /\ \A l \in Messages : l # m => at'[l] = at[l]
          BY <2>2 DEF Inv, Typed
      <4>2. Stages' = [Stages EXCEPT ![m] = StageOf(at'[m])] /\ Stages[m] = StageOf(at[m])
          BY <4>1, OneMoves
      <4> QED BY <2>2, <4>1, <4>2, StageIs
    <3>2. m \in Failed'
        BY <2>2 DEF Failed
    <3>3. CASE p = "ready"
      <4>1. Stages' = [l \in Messages |-> IF l \in {m} THEN "waiting" ELSE Stages[l]]
          BY <3>1, <3>3, StageIs DEF Stages
      <4> QED BY <3>1, <3>2, <4>1 DEF Board!Return
    <3>4. CASE p = "dead"
        BY <3>1, <3>2, <3>4, StageIs DEF Board!GiveUp
    <3> QED BY <3>3, <3>4
  <2> QED BY <2>1, <2>2
<1>4. Board!Work(m)
    BY <1>1, <1>2, <1>3 DEF Board!Work
<1> QED BY <1>4 DEF Board!Next

\* The steps of a consumer that has a job.
LEMMA JobStep ==
    ASSUME Inv, NEW w \in Workers, NEW q \in Queues,
           Refuse(w, q) \/ Perform(w, q) \/ Unsaved(w, q) \/ Fail(w, q) \/ SendBack(w, q) \/ Ack(w, q)
    PROVE  Board!Next \/ UNCHANGED Board!boardVars
<1> DEFINE c == consumer[w][q]
           m == c.job
<1>1. /\ c \in ConsumerStates /\ HandsOk(c) /\ JobOk(q, c, at, done, fails)
      /\ fails \in [Messages -> 0 .. Cap] /\ at \in [Messages -> Places \union Workers]
    BY ConsumerIs
<1>2. m \in Messages /\ m # None
  <2>1. c.pc \in AtWork
      BY DEF Refuse, Perform, Unsaved, Fail, SendBack, Ack, Handling, AtWork
  <2> QED BY <1>1, <2>1, QueueAssumption DEF HandsOk, ConsumerStates
<1>3. at[m] \notin {"new", "dropped"} /\ (c.open => at[m] \in Workers)
  <2>1. c.open => m \in Unacked(c)
    <3> HIDE DEF c
    <3> QED BY <1>1, <1>2, UnackedIs
  <2> QED BY <1>1, <1>2, <2>1, ConsumerIs DEF JobOk, LentOk
<1>4. ASSUME NEW place, Settle(w, q, place)
      PROVE  at' = at \/ (c.open /\ at' = [at EXCEPT ![m] = place])
    BY <1>4 DEF Settle
<1>5. fails' = [fails EXCEPT ![m] = Bump(@)] => fails'[m] > 0
    BY <1>1, <1>2, BumpCounts
<1>6. CASE Refuse(w, q)
  <2>1. done' = done /\ fails' = [fails EXCEPT ![m] = Bump(@)] /\ Settle(w, q, "dead")
      BY <1>6 DEF Refuse, Job
  <2> HIDE DEF c, m
  <2> QED BY <1>2, <1>3, <1>4, <1>5, <2>1, WorkDone
<1>7. CASE Perform(w, q)
  <2>1. at' = at /\ done' = [done EXCEPT ![m] = Bump(@)] /\ fails' = fails
      BY <1>7 DEF Perform, Job, GoesOn
  <2> HIDE DEF c, m
  <2> QED BY <1>2, <1>3, <2>1, WorkDone
<1>8. CASE Unsaved(w, q)
    BY <1>8, Unseen DEF Unsaved, GoesOn
<1>9. CASE Fail(w, q)
  <2>1. /\ done' \in {done, [done EXCEPT ![m] = Bump(@)]}
        /\ fails' = [fails EXCEPT ![m] = Bump(@)]
        /\ at' = at \/ \E place \in {"ready", "dead"} : Settle(w, q, place)
      BY <1>9 DEF Fail, Job, GoesOn
  <2>2. at' = at \/ (c.open /\ \E place \in {"ready", "dead"} : at' = [at EXCEPT ![m] = place])
      BY <1>4, <2>1
  <2> HIDE DEF c, m
  <2> QED BY <1>2, <1>3, <1>5, <2>1, <2>2, WorkDone
<1>10. CASE SendBack(w, q)
  <2>1. done' = done /\ fails' = fails /\ Settle(w, q, "ready") /\ c.pc = "backoff"
      BY <1>10 DEF SendBack
  <2>2. fails'[m] > 0
      BY <1>1, <1>2, <2>1 DEF JobOk
  <2> HIDE DEF c, m
  <2> QED BY <1>2, <1>3, <1>4, <2>1, <2>2, WorkDone
<1>11. CASE Ack(w, q)
  <2>1. done' = done /\ fails' = fails /\ Settle(w, q, "acked") /\ c.pc = "performed"
      BY <1>11 DEF Ack
  <2>2. CASE at' = at
      BY <2>1, <2>2, Unseen
  <2>3. CASE c.open /\ at' = [at EXCEPT ![m] = "acked"]
    <3>1. Stages' = [Stages EXCEPT ![m] = "done"] /\ Stages[m] = "lent"
      <4> HIDE DEF c, m
      <4>1. at'[m] = "acked" /\ \A l \in Messages : l # m => at'[l] = at[l]
          BY <1>1, <1>2, <2>3
      <4>2. Stages' = [Stages EXCEPT ![m] = StageOf(at'[m])] /\ Stages[m] = StageOf(at[m])
          BY <1>2, <4>1, OneMoves
      <4> QED BY <1>2, <1>3, <2>3, <4>1, <4>2, StageIs
    <3>2. m \in Performed \union {l \in Messages : QueueOf[l] = Triage}
        BY <1>1, <1>2, <2>1 DEF JobOk, Performed
    <3>3. UNCHANGED <<Performed, Failed>>
        BY <2>1 DEF Performed, Failed
    <3>4. Board!Complete(m)
      <4> HIDE DEF c, m
      <4> QED BY <3>1, <3>2, <3>3 DEF Board!Complete
    <3> HIDE DEF c, m
    <3> QED BY <1>2, <3>4 DEF Board!Next
  <2> QED BY <1>4, <2>1, <2>2, <2>3
<1> QED BY <1>6, <1>7, <1>8, <1>9, <1>10, <1>11

\* Every step of the queues is a step of the abstract queue, or none.
LEMMA StepMaps == Inv /\ [Next]_vars => Board!Next \/ UNCHANGED Board!boardVars
<1> SUFFICES ASSUME Inv, [Next]_vars PROVE Board!Next \/ UNCHANGED Board!boardVars
    OBVIOUS
<1>1. CASE DeclareTopology
    BY <1>1, Unseen DEF DeclareTopology
<1>2. ASSUME NEW m \in Messages, Publish(m)
      PROVE  Board!Next \/ UNCHANGED Board!boardVars
  <2>1. at[m] = "new" /\ fails' = fails /\ Failed' = Failed
      BY <1>2 DEF Publish, Failed
  <2>2. CASE at' = [at EXCEPT ![m] = "ready"] /\ done' = done
    <3>1. Stages[m] = "absent" /\ Stages' = [Stages EXCEPT ![m] = "waiting"]
      <4>1. at'[m] = "ready" /\ \A l \in Messages : l # m => at'[l] = at[l]
          BY <2>2 DEF Inv, Typed
      <4>2. Stages' = [Stages EXCEPT ![m] = StageOf(at'[m])] /\ Stages[m] = StageOf(at[m])
          BY <4>1, OneMoves
      <4> QED BY <2>1, <4>1, <4>2, StageIs
    <3>2. Board!Accept(m)
        BY <2>1, <2>2, <3>1 DEF Board!Accept, Performed, Failed
    <3> QED BY <3>2 DEF Board!Next
  <2>3. CASE at' = [at EXCEPT ![m] = "dropped"]
    <3>1. Stages[m] = "absent" /\ Stages' = Stages
      <4>1. at'[m] = "dropped" /\ \A l \in Messages : l # m => at'[l] = at[l]
          BY <2>3 DEF Inv, Typed
      <4>2. Stages' = [Stages EXCEPT ![m] = StageOf(at'[m])] /\ Stages[m] = StageOf(at[m])
          BY <4>1, OneMoves
      <4>3. Stages[m] = "absent" /\ Stages' = [Stages EXCEPT ![m] = "absent"]
          BY <2>1, <4>1, <4>2, StageIs
      <4> QED BY <4>3 DEF Stages
    <3>2. CASE done' = done
        BY <2>1, <3>1, <3>2 DEF Board!boardVars, Performed
    <3>3. CASE done' = [done EXCEPT ![m] = Bump(@)]
      <4>1. Board!DoWithout(m)
          BY <2>1, <3>1, <3>3, CountsAre DEF Board!DoWithout
      <4> QED BY <4>1 DEF Board!Next
    <3> QED BY <1>2, <2>3, <3>2, <3>3 DEF Publish, Routed, Dropped, TriagedAtOnce
  <2> QED BY <1>2, <2>2, <2>3 DEF Publish, Routed, Dropped, TriagedAtOnce
<1>3. ASSUME NEW w \in Workers, NEW q \in Queues, NEW m \in Messages, Deliver(w, q, m)
      PROVE  Board!Next
  <2>1. at[m] = "ready" /\ at' = [at EXCEPT ![m] = w] /\ UNCHANGED <<done, fails>>
      BY <1>3 DEF Deliver, First
  <2>2. Stages[m] = "waiting" /\ Stages' = [Stages EXCEPT ![m] = "lent"]
    <3>1. at'[m] = w /\ \A l \in Messages : l # m => at'[l] = at[l]
        BY <2>1 DEF Inv, Typed
    <3>2. Stages' = [Stages EXCEPT ![m] = StageOf(at'[m])] /\ Stages[m] = StageOf(at[m])
        BY <3>1, OneMoves
    <3> QED BY <2>1, <3>1, <3>2, StageIs
  <2>3. Board!Lend(m)
      BY <2>1, <2>2 DEF Board!Lend, Performed, Failed
  <2> QED BY <2>3 DEF Board!Next
<1>4. ASSUME NEW w \in Workers, NEW q \in Queues, Consume(w, q)
      PROVE  Board!Next \/ UNCHANGED Board!boardVars
  <2>1. CASE Subscribe(w, q)
      BY <2>1, Unseen DEF Subscribe
  <2>2. CASE Take(w, q)
      BY <2>2, Unseen DEF Take
  <2>3. CASE Quit(w, q)
    <3>1. /\ Unacked(consumer[w][q]) \in SUBSET Messages
          /\ \A m \in Unacked(consumer[w][q]) : at[m] = w
        BY ConsumerIs, UnackedIs DEF LentOk
    <3>2. at' = Released(Unacked(consumer[w][q])) /\ UNCHANGED <<done, fails>>
        BY <2>3 DEF Quit
    <3> QED BY <3>1, <3>2, ReleaseReturns
  <2> QED BY <1>4, <2>1, <2>2, <2>3, JobStep DEF Consume
<1>5. ASSUME NEW w \in Workers, LoseLink(w) \/ Crash(w)
      PROVE  Board!Next
  <2>1. HeldBy(w) \in SUBSET Messages /\ \A m \in HeldBy(w) : at[m] = w
      BY ConsumerIs, UnackedIs DEF HeldBy, LentOk
  <2>2. at' = Released(HeldBy(w)) /\ UNCHANGED <<done, fails>>
      BY <1>5 DEF LoseLink, Crash
  <2> QED BY <2>1, <2>2, ReleaseReturns
<1>6. ASSUME NEW w \in Workers, Start(w) \/ Reconnect(w) \/ Signal(w) \/ Exit(w)
      PROVE  UNCHANGED Board!boardVars
    BY <1>6, Unseen DEF Start, Reconnect, Signal, Exit
<1>7. CASE UNCHANGED vars
    BY <1>7, Unseen DEF vars
<1> QED BY <1>1, <1>2, <1>3, <1>4, <1>5, <1>6, <1>7 DEF Next

\* Nothing was accepted yet.
LEMMA InitMaps == Init => Board!Init
<1> SUFFICES ASSUME Init PROVE Board!Init
    OBVIOUS
<1>1. \A m \in Messages : at[m] = "new" /\ done[m] = 0 /\ fails[m] = 0
    BY DEF Init
<1>2. Stages = [m \in Messages |-> "absent"]
    BY <1>1, StageIs DEF Stages
<1>3. Performed = {} /\ Failed = {}
    BY <1>1 DEF Performed, Failed
<1> QED BY <1>2, <1>3 DEF Board!Init

\* The queues, with their broker, workers, crashes and broken connections, keep
\* the promise of a queue of work.
THEOREM QueueKeepsPromise == Spec => KeepsPromise
<1>1. Inv /\ [Next]_vars => [Board!Next]_(Board!boardVars)
    BY StepMaps
<1> QED BY <1>1, InitMaps, InvHolds, PTL DEF Spec, KeepsPromise, Board!Spec
=============================================================================
