--------------------------- MODULE StartController ---------------------------
(***************************************************************************)
(* The start controller of app/starter.go.  The main goroutine registers   *)
(* starters and then calls Start, which pops the queue, runs the popped    *)
(* starter and its listeners, and goes on until the queue is empty or      *)
(* something fails.  Code run by a starter or a listener may itself        *)
(* register starters and listeners, and other goroutines (Registrar) may   *)
(* register starters at any time: that is what the mutex is for.           *)
(*                                                                         *)
(* What a starter or a listener does is left to the environment: it calls  *)
(* the API of the controller any number of times, then returns, fails or   *)
(* panics.                                                                 *)
(***************************************************************************)
EXTENDS Integers, Sequences, SequencesExt

CONSTANTS
    Starter,    \* the starters, each under its own name
    Priority,   \* the priorities a starter may have
    Listener,   \* the listeners passed to OnStarted, each at most once
    Registrar,  \* the goroutines, other than main, that register starters
    None        \* no starter

ASSUME PriorityAssumption == Priority \subseteq Int
ASSUME NoneAssumption == None \notin Starter

VARIABLES
    registered,  \* startersMap, in the order of registration
    queue,       \* startersArray
    prio,        \* starter.Priority()
    started,     \* the starters whose Started() is true
    listeners,   \* listenersMap
    controller,  \* the global: "live", or "nil" once Start is through
    mu,          \* the mutex between critical sections: "free" or "held"
    pc,          \* what the main goroutine is doing
    cur,         \* the starter startStarter is at work on
    pending,     \* the captured listeners that have not returned
    outcome,     \* what Start is about to return: "none", "ok", "error"
    crash,       \* why the program panicked: "no" while it runs
    call,        \* the starter each registrar is waiting for the mutex with
    late,        \* history: listeners that came after their starter started
    ran          \* history: the listeners that returned, in order

mainVars == <<started, pc, cur, pending, outcome>>
listenerVars == <<listeners, late, ran>>
vars == <<registered, queue, prio, started, listeners, controller, mu, pc,
          cur, pending, outcome, crash, call, late, ran>>

Running == crash = "no"

\* The main goroutine executes code of the application: the program's own
\* set-up, a starter's Start, or a listener.
InUserCode ==
    \/ pc \in {"setup", "starting"}
    \/ pc = "notifying" /\ pending # <<>>

-----------------------------------------------------------------------------
Init ==
    /\ registered = <<>>
    /\ queue = <<>>
    /\ prio \in [Starter -> Priority]
    /\ started = {}
    /\ listeners = [s \in Starter |-> <<>>]
    /\ controller = "live"
    /\ mu = "free"
    /\ pc = "setup"
    /\ cur = None
    /\ pending = <<>>
    /\ outcome = "none"
    /\ crash = "no"
    /\ call = [g \in Registrar |-> None]
    /\ late = {}
    /\ ran = <<>>

BugInsertPoints(s) ==
    {p \in 1 .. Len(queue) + 1 :
        /\ \A i \in 1 .. p - 1 : prio[queue[i]] > prio[s]
        /\ p <= Len(queue) => prio[s] >= prio[queue[p]]}

\* Where register puts s: before the first starter of lower priority, so
\* behind every starter of its own priority.
InsertPoints(s) ==
    {p \in 1 .. Len(queue) + 1 :
        /\ \A i \in 1 .. p - 1 : prio[queue[i]] >= prio[s]
        /\ p <= Len(queue) => prio[s] > prio[queue[p]]}

\* A starter whose name is new is recorded and queued.
Enqueue(s) ==
    /\ s \notin ToSet(registered)
    /\ registered' = Append(registered, s)
    /\ \E p \in InsertPoints(s) : queue' = InsertAt(queue, p, s)
    /\ UNCHANGED <<mu, crash>>

\* A name that is taken makes register panic, with the mutex locked.
RejectDuplicate(s) ==
    /\ s \in ToSet(registered)
    /\ crash' = "duplicate"
    /\ mu' = "held"
    /\ UNCHANGED <<registered, queue>>

BugRegister(s) ==
    /\ mu = "free"
    /\ registered' = Append(registered, s)
    /\ \E p \in InsertPoints(s) : queue' = InsertAt(queue, p, s)
    /\ UNCHANGED <<mu, crash>>

\* The critical section of register.
Register(s) ==
    /\ mu = "free"
    /\ Enqueue(s) \/ RejectDuplicate(s)

\* RegisterStarter, called by the main goroutine.
MainRegister(s) ==
    /\ Running /\ InUserCode
    /\ Register(s)
    /\ UNCHANGED <<mainVars, listenerVars, prio, controller, call>>

\* RegisterStarter, called by another goroutine, up to the lock: it reads the
\* global controller, which may be nil by now.
Call(g, s) ==
    /\ Running
    /\ call[g] = None
    /\ IF controller = "live"
       THEN call' = [call EXCEPT ![g] = s] /\ UNCHANGED crash
       ELSE crash' = "nil" /\ UNCHANGED call
    /\ UNCHANGED <<mainVars, listenerVars, registered, queue, prio,
                   controller, mu>>

\* The same goroutine gets the mutex. It holds a pointer to the controller,
\* so it registers even when the global has been cleared in between.
Enter(g) ==
    /\ Running
    /\ call[g] # None
    /\ Register(call[g])
    /\ call' = [call EXCEPT ![g] = None]
    /\ UNCHANGED <<mainVars, listenerVars, prio, controller>>

\* SetPriority. Its one caller, BaseApp.Mount, runs before the mounted app is
\* registered.
SetPriority(s, p) ==
    /\ Running /\ InUserCode
    /\ s \notin ToSet(registered)
    /\ \A g \in Registrar : call[g] # s
    /\ prio' = [prio EXCEPT ![s] = p]
    /\ UNCHANGED <<mainVars, listenerVars, registered, queue, controller, mu,
                   crash, call>>

\* OnStarted, called by the main goroutine: it takes no lock and does not ask
\* whether the starter has started already.
OnStarted(s, l) ==
    /\ Running /\ InUserCode
    /\ \A t \in Starter : l \notin ToSet(listeners[t])
    /\ listeners' = [listeners EXCEPT ![s] = Append(@, l)]
    /\ late' = IF s \in started THEN late \cup {l} ELSE late
    /\ UNCHANGED <<mainVars, registered, queue, prio, controller, mu, crash,
                   call, ran>>

\* The set-up code, a starter or a listener panics.
Panic ==
    /\ Running /\ InUserCode
    /\ crash' = "user"
    /\ UNCHANGED <<mainVars, listenerVars, registered, queue, prio,
                   controller, mu, call>>

\* Start calls startNext.
Start ==
    /\ Running
    /\ pc = "setup"
    /\ pc' = "next"
    /\ UNCHANGED <<listenerVars, registered, queue, prio, started, controller,
                   mu, cur, pending, outcome, crash, call>>

BugForgetfulStartNext ==
    /\ Running
    /\ pc = "next" /\ mu = "free"
    /\ queue # <<>>
    /\ queue' = Tail(queue)
    /\ pc' = "starting"
    /\ UNCHANGED <<listenerVars, registered, prio, started, controller, mu,
                   cur, pending, outcome, crash, call>>

\* startNext pops the queue under the mutex, and startStarter panics when the
\* popped starter has started before.
StartNext ==
    /\ Running
    /\ pc = "next" /\ mu = "free"
    /\ queue # <<>>
    /\ cur' = Head(queue)
    /\ queue' = Tail(queue)
    /\ IF Head(queue) \in started
       THEN crash' = "restarted" /\ UNCHANGED pc
       ELSE pc' = "starting" /\ UNCHANGED crash
    /\ UNCHANGED <<listenerVars, registered, prio, started, controller, mu,
                   pending, outcome, call>>

BugStartNextEmpty ==
    /\ Running
    /\ pc = "next" /\ mu = "free"
    /\ queue = <<>>
    /\ outcome' = "ok"
    /\ pc' = "exit"
    /\ UNCHANGED <<listenerVars, registered, queue, prio, started, controller,
                   mu, cur, pending, crash, call>>

\* startNext finds the queue empty and returns without unlocking.
StartNextEmpty ==
    /\ Running
    /\ pc = "next" /\ mu = "free"
    /\ queue = <<>>
    /\ mu' = "held"
    /\ outcome' = "ok"
    /\ pc' = "exit"
    /\ UNCHANGED <<listenerVars, registered, queue, prio, started, controller,
                   cur, pending, crash, call>>

BugStartReturns ==
    /\ Running
    /\ pc = "starting"
    /\ pending' = listeners[cur]
    /\ pc' = "notifying"
    /\ UNCHANGED <<listenerVars, registered, queue, prio, started, controller,
                   mu, cur, outcome, crash, call>>

\* The starter's Start succeeds; startStarter marks the starter and captures
\* the slice of its listeners.
StartReturns ==
    /\ Running
    /\ pc = "starting"
    /\ started' = started \cup {cur}
    /\ pending' = listeners[cur]
    /\ pc' = "notifying"
    /\ UNCHANGED <<listenerVars, registered, queue, prio, controller, mu, cur,
                   outcome, crash, call>>

BugStartFails ==
    /\ Running
    /\ pc = "starting"
    /\ outcome' = "error"
    /\ pc' = "exit"
    /\ mu' = "held"
    /\ UNCHANGED <<listenerVars, registered, queue, prio, started, controller,
                   cur, pending, crash, call>>

\* The starter's Start fails, and with it startStarter and startNext.
StartFails ==
    /\ Running
    /\ pc = "starting"
    /\ outcome' = "error"
    /\ pc' = "exit"
    /\ UNCHANGED <<listenerVars, registered, queue, prio, started, controller,
                   mu, cur, pending, crash, call>>

BugListenerReturns ==
    /\ Running
    /\ pc = "notifying" /\ pending # <<>>
    /\ ran' = Append(ran, Head(pending))
    /\ pending' = <<>>
    /\ UNCHANGED <<registered, queue, prio, started, listeners, controller,
                   mu, pc, cur, outcome, crash, call, late>>

ListenerReturns ==
    /\ Running
    /\ pc = "notifying" /\ pending # <<>>
    /\ ran' = Append(ran, Head(pending))
    /\ pending' = Tail(pending)
    /\ UNCHANGED <<registered, queue, prio, started, listeners, controller,
                   mu, pc, cur, outcome, crash, call, late>>

\* A listener fails: the ones after it never run, and startup fails although
\* the starter stays marked as started.
ListenerFails ==
    /\ Running
    /\ pc = "notifying" /\ pending # <<>>
    /\ outcome' = "error"
    /\ pc' = "exit"
    /\ UNCHANGED <<listenerVars, registered, queue, prio, started, controller,
                   mu, cur, pending, crash, call>>

\* startStarter returns nil and startNext calls itself.
Notified ==
    /\ Running
    /\ pc = "notifying" /\ pending = <<>>
    /\ cur' = None
    /\ pc' = "next"
    /\ UNCHANGED <<listenerVars, registered, queue, prio, started, controller,
                   mu, pending, outcome, crash, call>>

\* Start drops the controller, whatever the outcome, and returns.
Exit ==
    /\ Running
    /\ pc = "exit"
    /\ controller' = "nil"
    /\ pc' = "returned"
    /\ UNCHANGED <<listenerVars, registered, queue, prio, started, mu, cur,
                   pending, outcome, crash, call>>

\* After Start, RegisterStarter, OnStarted and Start dereference nil.
UseAfterStart ==
    /\ Running
    /\ pc = "returned"
    /\ crash' = "nil"
    /\ UNCHANGED <<mainVars, listenerVars, registered, queue, prio,
                   controller, mu, call>>

\* The program has panicked, or Start has returned.
Terminated ==
    /\ ~Running \/ pc = "returned"
    /\ UNCHANGED vars

MainStep ==
    \/ StartNext \/ StartNextEmpty
    \/ StartReturns \/ StartFails
    \/ ListenerReturns \/ ListenerFails \/ Notified
    \/ Exit

Next ==
    \/ \E s \in Starter : MainRegister(s)
    \/ \E g \in Registrar, s \in Starter : Call(g, s)
    \/ \E g \in Registrar : Enter(g)
    \/ \E s \in Starter, p \in Priority : SetPriority(s, p)
    \/ \E s \in Starter, l \in Listener : OnStarted(s, l)
    \/ Panic
    \/ Start
    \/ MainStep
    \/ UseAfterStart
    \/ Terminated

Spec == Init /\ [][Next]_vars

\* Starters and listeners are assumed to return, and a goroutine waiting for
\* a free mutex to get it. Nothing obliges the application to call anything.
FairSpec ==
    /\ Spec
    /\ WF_vars(MainStep)
    /\ \A g \in Registrar : WF_vars(Enter(g))

-----------------------------------------------------------------------------
TypeOK ==
    /\ registered \in Seq(Starter)
    /\ queue \in Seq(Starter)
    /\ prio \in [Starter -> Priority]
    /\ started \in SUBSET Starter
    /\ listeners \in [Starter -> Seq(Listener)]
    /\ controller \in {"live", "nil"}
    /\ mu \in {"free", "held"}
    /\ pc \in {"setup", "next", "starting", "notifying", "exit", "returned"}
    /\ cur \in Starter \cup {None}
    /\ pc \in {"starting", "notifying"} => cur # None
    /\ pending \in Seq(Listener)
    /\ outcome \in {"none", "ok", "error"}
    /\ crash \in {"no", "duplicate", "nil", "restarted", "user"}
    /\ call \in [Registrar -> Starter \cup {None}]
    /\ late \in SUBSET Listener
    /\ ran \in Seq(Listener)

\* s comes before t in the sequence q.
Earlier(q, s, t) ==
    \E i, j \in DOMAIN q : i < j /\ q[i] = s /\ q[j] = t

\* No starter is lost or doubled on its way from register to SetStarted,
\* whoever registers it and whenever: what the map holds is what waits in the
\* array, what is being started and what has started, each once.
Ledger ==
    /\ ToSet(registered) = ToSet(queue) \cup started \cup ({cur} \ {None})
    /\ ToSet(queue) \cap (started \cup {cur}) = {}
    /\ IsInjective(registered)
    /\ IsInjective(queue)
    /\ pc = "starting" => cur \notin started

\* The array stays sorted by falling priority under every interleaving of
\* registrations and pops, and within a priority it is first come, first
\* started.
QueueOrder ==
    \A i, j \in DOMAIN queue :
        i < j => \/ prio[queue[i]] > prio[queue[j]]
                 \/ /\ prio[queue[i]] = prio[queue[j]]
                    /\ Earlier(registered, queue[i], queue[j])

\* The panic "has been started" of startStarter is unreachable, because
\* register refuses a second starter of the same name.
NeverRestarted == crash # "restarted"

\* How the control state and the rest of the state go together: what an
\* inductive proof of the above needs beside them.
ControlState ==
    /\ pc \in {"setup", "next"} => cur = None
    /\ pc \in {"exit", "returned"} <=> outcome # "none"
    /\ pc = "notifying" => cur \in started
    /\ outcome = "ok" => queue = <<>> /\ cur = None /\ mu = "held"

\* Start reports success only if every starter the controller accepted has
\* started, those that other goroutines registered up to the last moment
\* included: nobody gets in after the queue was seen empty.
CompleteMeansAll ==
    outcome = "ok" => ToSet(registered) \subseteq started

IndInv ==
    /\ TypeOK
    /\ ControlState
    /\ Ledger
    /\ QueueOrder
    /\ NeverRestarted

\* The listeners of a starter that has started run once each in the order of
\* OnStarted; what has not run yet is what startStarter captured and still
\* has to run, or came too late.
NotifiedInOrder ==
    \A s \in started :
        LET heard  == ran \o (IF s = cur THEN pending ELSE <<>>)
            inTime == ToSet(listeners[s]) \ late
        IN  /\ IsInjective(heard)
            /\ ToSet(heard) \cap ToSet(listeners[s]) = inTime
            /\ \A k, l \in inTime :
                  Earlier(listeners[s], k, l) => Earlier(heard, k, l)

\* Where a listener is: with one starter, once, and not called, nor waited
\* for, before that starter has started.
ListenerLedger ==
    /\ \A s \in Starter : IsInjective(listeners[s])
    /\ \A s, t \in Starter :
          s # t => ToSet(listeners[s]) \cap ToSet(listeners[t]) = {}
    /\ \A l \in ToSet(ran) \cup late :
          \E s \in started : l \in ToSet(listeners[s])
    /\ pc \in {"setup", "next", "starting"} => pending = <<>>
    /\ pending # <<>> =>
          cur \in started /\ ToSet(pending) \subseteq ToSet(listeners[cur])
    /\ IsInjective(ran \o pending)

\* Once Start is called, every registered starter ends up started, unless a
\* starter or a listener fails or the program panics.
EveryStarterStarts ==
    \A s \in Starter :
        s \in ToSet(registered) /\ pc # "setup"
            ~> s \in started \/ outcome = "error" \/ ~Running

\* A goroutine that waits in register gets through, unless startup succeeds
\* first: then the mutex stays locked for good. A failed startup does not
\* leave it locked.
RegistrarSettles ==
    \A g \in Registrar :
        call[g] # None ~> call[g] = None \/ outcome = "ok" \/ ~Running

\* Without its array, mutex and goroutines the controller is StartOrder: each
\* starter runs alone, in its turn, and success closes the list.
Order == INSTANCE StartOrder WITH
    arrived <- registered,
    running <- cur,
    done <- started \ {cur},
    result <- outcome

ImplementsOrder == Order!Spec

=============================================================================
