----------------------------- MODULE StartOrder -----------------------------
(***************************************************************************)
(* What the start controller of app/starter.go promises to the rest of the *)
(* program, without its array, its mutex or its goroutines: starters       *)
(* arrive, the waiting one that comes first - highest priority, and among  *)
(* equals the earliest to arrive - is run alone until it ends, and startup *)
(* closes successfully only when nobody is waiting any more.               *)
(* StartController is checked to implement this module.                    *)
(***************************************************************************)
EXTENDS Integers, Sequences, SequencesExt

CONSTANTS
    Starter,   \* the starters of the program
    Priority,  \* the priorities a starter may have
    None       \* no starter

VARIABLES
    arrived,   \* the starters that have arrived, in order of arrival
    prio,      \* the priority of every starter
    running,   \* the starter that is running, or None
    done,      \* the starters that ran to their end
    result     \* "none" until startup ends, then "ok" or "error"

vars == <<arrived, prio, running, done, result>>

Waiting == ToSet(arrived) \ (done \cup {running})

\* s comes before t in the sequence q.
Earlier(q, s, t) ==
    \E i, j \in DOMAIN q : i < j /\ q[i] = s /\ q[j] = t

\* s is to be run before t when both wait.
Precedes(s, t) ==
    \/ prio[s] > prio[t]
    \/ prio[s] = prio[t] /\ Earlier(arrived, s, t)

Init ==
    /\ arrived = <<>>
    /\ prio \in [Starter -> Priority]
    /\ running = None
    /\ done = {}
    /\ result = "none"

\* A starter arrives. Nobody joins a startup that has succeeded.
Arrive(s) ==
    /\ result # "ok"
    /\ s \notin ToSet(arrived)
    /\ arrived' = Append(arrived, s)
    /\ UNCHANGED <<prio, running, done, result>>

\* The priority of a starter settles before it arrives.
Reprioritise(s, p) ==
    /\ s \notin ToSet(arrived)
    /\ prio' = [prio EXCEPT ![s] = p]
    /\ UNCHANGED <<arrived, running, done, result>>

Begin(s) ==
    /\ result = "none"
    /\ running = None
    /\ s \in Waiting
    /\ \A t \in Waiting \ {s} : Precedes(s, t)
    /\ running' = s
    /\ UNCHANGED <<arrived, prio, done, result>>

Succeed ==
    /\ result = "none"
    /\ running # None
    /\ done' = done \cup {running}
    /\ running' = None
    /\ UNCHANGED <<arrived, prio, result>>

Fail ==
    /\ result = "none"
    /\ running # None
    /\ result' = "error"
    /\ UNCHANGED <<arrived, prio, running, done>>

Close ==
    /\ result = "none"
    /\ running = None
    /\ Waiting = {}
    /\ result' = "ok"
    /\ UNCHANGED <<arrived, prio, running, done>>

Next ==
    \/ \E s \in Starter : Arrive(s) \/ Begin(s)
    \/ \E s \in Starter, p \in Priority : Reprioritise(s, p)
    \/ Succeed
    \/ Fail
    \/ Close

Spec == Init /\ [][Next]_vars

=============================================================================
