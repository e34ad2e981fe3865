------------------------------- MODULE DistLock -------------------------------
(***************************************************************************)
(* One lock of util/distributed_lock.go: a redis key with an expiry, used  *)
(* by several processes through TryLock, Unlock and AddTimeout.  A command *)
(* is sent, executed and answered in separate steps; either the command or *)
(* its answer may be lost, time passes in between, and processes crash and *)
(* restart.  Redis is external: SET NX EX, DEL, TTL and SET EX are modelled *)
(* by what the code relies on.                                             *)
(*                                                                         *)
(* The library does not keep its callers to the lease: how long they stay  *)
(* in their critical section, and what they do after an error, is up to    *)
(* them.  overrun and retried record whether they did what it cannot bear. *)
(***************************************************************************)
EXTENDS Integers

CONSTANTS
    Client,   \* the processes, each with a token of its own
    Expire,   \* the values of the expire parameters, in seconds
    Second,   \* clock ticks in a second
    MaxTtl,   \* bound: no lease is extended beyond so many ticks
    None      \* no token

ASSUME ClientAssumption == None \notin Client
ASSUME ExpireAssumption == Expire \subseteq Nat \ {0}
ASSUME SecondAssumption == Second \in Nat \ {0}
ASSUME MaxTtlAssumption == MaxTtl \in Nat

VARIABLES
    owner,    \* the token stored under the key, None when there is no key
    ttl,      \* the ticks left before the key expires
    pc,       \* where each process is
    reply,    \* what redis answered to a process's SET NX: "OK" or "nil"
    seen,     \* the seconds a process's TTL command returned
    overrun,  \* history: a lease ran out under a process still using it
    retried   \* history: Unlock was called again after it had failed

lock == <<owner, ttl>>
vars == <<owner, ttl, pc, reply, seen, overrun, retried>>

\* TryLock told c it has the lock, and c has not called Unlock since.
Believes(c) == pc[c] \in {"holding", "ttl", "extending", "extended"}

\* c has the lock for all it knows, or is about to learn so, or its DEL has
\* not been executed yet.
Active(c) ==
    \/ Believes(c)
    \/ pc[c] = "set" /\ reply[c] = "OK"
    \/ pc[c] = "deleting"

\* The answer to TTL: redis rounds milliseconds to the nearest second.
TtlSeconds == (ttl + Second \div 2) \div Second

Goto(c, label) == pc' = [pc EXCEPT ![c] = label]

-----------------------------------------------------------------------------
Init ==
    /\ owner = None
    /\ ttl = 0
    /\ pc = [c \in Client |-> "idle"]
    /\ reply = [c \in Client |-> "nil"]
    /\ seen = [c \in Client |-> 0]
    /\ overrun = FALSE
    /\ retried = FALSE

\* Time passes for a key with an expiry; at the end of its lease it is gone.
Tick ==
    /\ owner # None /\ ttl > 0
    /\ ttl' = ttl - 1
    /\ IF ttl > 1 THEN UNCHANGED <<owner, overrun>>
       ELSE owner' = None /\ overrun' = (overrun \/ Active(owner))
    /\ UNCHANGED <<pc, reply, seen, retried>>

\* TryLock: SET key token EX expire NX is on its way.
TryLock(c) ==
    /\ pc[c] = "idle"
    /\ Goto(c, "setting")
    /\ UNCHANGED <<lock, reply, seen, overrun, retried>>

BugExecSet(c, e) ==
    /\ pc[c] = "setting"
    /\ Goto(c, "set")
    /\ owner' = c /\ ttl' = e * Second
    /\ reply' = [reply EXCEPT ![c] = "OK"]
    /\ UNCHANGED <<seen, overrun, retried>>

BugExecSetForever(c, e) ==
    /\ pc[c] = "setting"
    /\ Goto(c, "set")
    /\ IF owner = None
       THEN /\ owner' = c /\ ttl' = 0
            /\ reply' = [reply EXCEPT ![c] = "OK"]
       ELSE /\ reply' = [reply EXCEPT ![c] = "nil"]
            /\ UNCHANGED lock
    /\ UNCHANGED <<seen, overrun, retried>>

\* Redis executes the SET NX.
ExecSetNX(c, e) ==
    /\ pc[c] = "setting"
    /\ Goto(c, "set")
    /\ IF owner = None
       THEN /\ owner' = c /\ ttl' = e * Second
            /\ reply' = [reply EXCEPT ![c] = "OK"]
       ELSE /\ reply' = [reply EXCEPT ![c] = "nil"]
            /\ UNCHANGED lock
    /\ UNCHANGED <<seen, overrun, retried>>

BugTryLockReturns(c) ==
    /\ pc[c] = "set"
    /\ Goto(c, "holding")
    /\ UNCHANGED <<lock, reply, seen, overrun, retried>>

\* TryLock returns true or false.
TryLockReturns(c) ==
    /\ pc[c] = "set"
    /\ Goto(c, IF reply[c] = "OK" THEN "holding" ELSE "idle")
    /\ UNCHANGED <<lock, reply, seen, overrun, retried>>

\* TryLock returns an error: the command or its answer is lost. The key may
\* be set all the same.
TryLockFails(c) ==
    /\ pc[c] \in {"setting", "set"}
    /\ Goto(c, "idle")
    /\ UNCHANGED <<lock, reply, seen, overrun, retried>>

\* Unlock: DEL key is on its way.
Unlock(c) ==
    /\ pc[c] = "holding"
    /\ Goto(c, "deleting")
    /\ UNCHANGED <<lock, reply, seen, overrun, retried>>

\* Redis executes the DEL, whoever's token the key has.
ExecDel(c) ==
    /\ pc[c] = "deleting"
    /\ Goto(c, "deleted")
    /\ owner' = None /\ ttl' = 0
    /\ UNCHANGED <<reply, seen, overrun, retried>>

UnlockReturns(c) ==
    /\ pc[c] = "deleted"
    /\ Goto(c, "idle")
    /\ UNCHANGED <<lock, reply, seen, overrun, retried>>

\* Unlock returns an error: the command or its answer is lost.
UnlockFails(c) ==
    /\ pc[c] \in {"deleting", "deleted"}
    /\ Goto(c, "failed")
    /\ UNCHANGED <<lock, reply, seen, overrun, retried>>

\* The caller leaves the key to its expiry.
GiveUp(c) ==
    /\ pc[c] = "failed"
    /\ Goto(c, "idle")
    /\ UNCHANGED <<lock, reply, seen, overrun, retried>>

\* The caller calls Unlock again.
RetryUnlock(c) ==
    /\ pc[c] = "failed"
    /\ Goto(c, "deleting")
    /\ retried' = TRUE
    /\ UNCHANGED <<lock, reply, seen, overrun>>

\* AddTimeout: TTL key is on its way.
AddTimeout(c) ==
    /\ pc[c] = "holding"
    /\ Goto(c, "ttl")
    /\ UNCHANGED <<lock, reply, seen, overrun, retried>>

\* The TTL is answered, for whoever's key. At zero, which is also the answer
\* in the last half second of the lease, AddTimeout returns nil having done
\* nothing.
ExecTtl(c) ==
    /\ pc[c] = "ttl"
    /\ LET s == IF owner = None THEN -2 ELSE TtlSeconds IN
       /\ seen' = [seen EXCEPT ![c] = s]
       /\ Goto(c, IF s > 0 THEN "extending" ELSE "holding")
    /\ UNCHANGED <<lock, reply, overrun, retried>>

\* The TTL fails: log.Fatal ends the process.
TtlFails(c) ==
    /\ pc[c] = "ttl"
    /\ Goto(c, "dead")
    /\ UNCHANGED <<lock, reply, seen, overrun, retried>>

BugExecExtend(c, e) ==
    /\ pc[c] = "extending"
    /\ e * Second <= MaxTtl
    /\ Goto(c, "extended")
    /\ owner' = c /\ ttl' = e * Second
    /\ UNCHANGED <<reply, seen, overrun, retried>>

\* SET key token EX ttl+expire is executed, without NX and whoever's token the
\* key has by now.
ExecExtend(c, e) ==
    /\ pc[c] = "extending"
    /\ (seen[c] + e) * Second <= MaxTtl
    /\ Goto(c, "extended")
    /\ owner' = c /\ ttl' = (seen[c] + e) * Second
    /\ UNCHANGED <<reply, seen, overrun, retried>>

\* AddTimeout returns nil, or an error if the answer is lost.
ExtendReturns(c) ==
    /\ pc[c] = "extended"
    /\ Goto(c, "holding")
    /\ UNCHANGED <<lock, reply, seen, overrun, retried>>

\* AddTimeout returns an error: the SET is lost.
ExtendFails(c) ==
    /\ pc[c] = "extending"
    /\ Goto(c, "holding")
    /\ UNCHANGED <<lock, reply, seen, overrun, retried>>

Crash(c) ==
    /\ pc[c] # "dead"
    /\ Goto(c, "dead")
    /\ UNCHANGED <<lock, reply, seen, overrun, retried>>

Restart(c) ==
    /\ pc[c] = "dead"
    /\ Goto(c, "idle")
    /\ UNCHANGED <<lock, reply, seen, overrun, retried>>

Step(c) ==
    \/ TryLock(c) \/ TryLockReturns(c) \/ TryLockFails(c)
    \/ Unlock(c) \/ ExecDel(c) \/ UnlockReturns(c) \/ UnlockFails(c)
    \/ GiveUp(c) \/ RetryUnlock(c)
    \/ AddTimeout(c) \/ ExecTtl(c) \/ TtlFails(c)
    \/ ExtendReturns(c) \/ ExtendFails(c)
    \/ Crash(c) \/ Restart(c)
    \/ \E e \in Expire : ExecSetNX(c, e) \/ ExecExtend(c, e)

Next ==
    \/ Tick
    \/ \E c \in Client : Step(c)

Spec == Init /\ [][Next]_vars

\* Time passes; nothing is asked of the processes.
FairSpec == Spec /\ WF_vars(Tick)

-----------------------------------------------------------------------------
TypeOK ==
    /\ owner \in Client \cup {None}
    /\ ttl \in Nat
    /\ owner = None <=> ttl = 0
    /\ pc \in [Client -> {"idle", "setting", "set", "holding", "deleting",
                          "deleted", "failed", "ttl", "extending",
                          "extended", "dead"}]
    /\ reply \in [Client -> {"OK", "nil"}]
    /\ seen \in [Client -> Int]
    /\ \A c \in Client : pc[c] = "extending" => seen[c] > 0
    /\ overrun \in BOOLEAN
    /\ retried \in BOOLEAN

\* No caller kept the lock beyond its lease or repeated an Unlock.
Careful == ~overrun /\ ~retried

\* Whoever uses the lock owns the key.
UserOwnsKey == Careful => \A c \in Client : Active(c) => owner = c

\* Two processes believe to have the lock only after one of them has
\* outlived its lease or has repeated an Unlock that had failed. Lost
\* answers, crashes, restarts and the two commands of AddTimeout do not
\* bring it about.
MutualExclusion ==
    Careful => \A c, d \in Client : Believes(c) /\ Believes(d) => c = d

\* While a careful process is between the two commands of AddTimeout, what it
\* has read still bounds what is left, up to the rounding.
SeenBoundsTtl ==
    Careful => \A c \in Client :
        pc[c] = "extending" =>
            ttl + Second \div 2 < (seen[c] + 1) * Second

\* AddTimeout never takes time away from a careful caller, although it
\* computes the new expiry from a rounded reading that is out of date.
ExtendNeverShortens ==
    [][\A c \in Client : \A e \in Expire :
          ExecExtend(c, e) /\ Careful => ttl' >= ttl]_vars

\* A crashed process does not keep the lock.
CrashedLetsGo ==
    \A c \in Client : pc[c] = "dead" /\ owner = c ~> owner # c

=============================================================================
