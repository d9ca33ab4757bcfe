----------------------------- MODULE WorkQueue -----------------------------
(***************************************************************************)
(* What a queue of work promises: a message that was accepted is waiting,  *)
(* or lent to somebody who works on it, until it is done or given up, and  *)
(* both are final.  Nothing is done that was not performed at least once,  *)
(* unless the message is of those that are worth one try; and nothing is   *)
(* given up that did not fail.                                             *)
(***************************************************************************)
CONSTANTS
    Messages,
    BestEffort      \* messages worth one try

VARIABLES
    stage,          \* of each message: absent, waiting, lent, done, given up
    performed,      \* messages whose work took effect, once or more
    failed          \* messages whose work failed, once or more

boardVars == <<stage, performed, failed>>

Init ==
    /\ stage = [m \in Messages |-> "absent"]
    /\ performed = {} /\ failed = {}

-----------------------------------------------------------------------------

Accept(m) ==
    /\ stage[m] = "absent"
    /\ stage' = [stage EXCEPT ![m] = "waiting"]
    /\ UNCHANGED <<performed, failed>>

\* The work of a message that never was accepted is done by whoever had it.
DoWithout(m) ==
    /\ stage[m] = "absent"
    /\ performed' = performed \union {m}
    /\ UNCHANGED <<stage, failed>>

Lend(m) ==
    /\ stage[m] = "waiting"
    /\ stage' = [stage EXCEPT ![m] = "lent"]
    /\ UNCHANGED <<performed, failed>>

\* Whoever had them is gone, or could not do them now.
Return(ms) ==
    /\ \A m \in ms : stage[m] = "lent"
    /\ stage' = [m \in Messages |-> IF m \in ms THEN "waiting" ELSE stage[m]]

GiveUp(m) ==
    /\ stage[m] = "lent"
    /\ stage' = [stage EXCEPT ![m] = "given up"]

\* The work succeeds or fails, perhaps both: an effect whose answer was lost;
\* perhaps after the message was taken back from who works on it.  After a
\* failure the message is returned or given up.
Work(m) ==
    /\ stage[m] # "absent"
    /\ performed' \in {performed, performed \union {m}}
    /\ failed' \in {failed, failed \union {m}}
    /\ \/ UNCHANGED stage
       \/ m \in failed' /\ (Return({m}) \/ GiveUp(m))

Complete(m) ==
    /\ stage[m] = "lent" /\ m \in performed \union BestEffort
    /\ stage' = [stage EXCEPT ![m] = "done"]
    /\ UNCHANGED <<performed, failed>>

Next ==
    \/ \E m \in Messages : Accept(m) \/ DoWithout(m) \/ Lend(m) \/ Work(m) \/ Complete(m)
    \/ \E ms \in SUBSET Messages : Return(ms) /\ UNCHANGED <<performed, failed>>

Spec == Init /\ [][Next]_boardVars
=============================================================================
