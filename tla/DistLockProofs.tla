---------------------------- MODULE DistLockProofs ----------------------------
(***************************************************************************)
(* For every set of processes, every choice of expiries and any length of  *)
(* a second in ticks: the lock is exclusive among careful callers, and     *)
(* AddTimeout never shortens a careful caller's lease.                     *)
(***************************************************************************)
EXTENDS DistLock, TLAPS

USE ClientAssumption, ExpireAssumption, SecondAssumption, MaxTtlAssumption

\* Rounding to the nearest second, in ticks.
LEMMA Rounding ==
    ASSUME NEW S \in Nat \ {0}, NEW t \in Nat
    PROVE  LET q == (t + S \div 2) \div S
           IN  /\ S \div 2 \in Nat
               /\ q \in Nat
               /\ t + S \div 2 < (q + 1) * S
<1> DEFINE h == S \div 2
<1>1. h \in Nat
  OBVIOUS
<1> HIDE DEF h
<1> DEFINE n == t + h
<1>2. n \in Nat
  BY <1>1
<1> HIDE DEF n
<1> DEFINE q == n \div S
<1>3. q \in Int /\ S * q <= n /\ n < S * q + S
  BY <1>2
<1>4. q >= 0
  BY <1>2
<1> HIDE DEF q
<1>5. S * q + S = (q + 1) * S
  BY <1>3
<1> QED
  BY <1>1, <1>3, <1>4, <1>5 DEF h, n, q

\* A product of positive numbers.
LEMMA Positive ==
    ASSUME NEW a \in Nat \ {0}, NEW b \in Nat \ {0}
    PROVE  a * b \in Nat \ {0}
OBVIOUS

\* A longer expiry in seconds is no shorter in ticks.
LEMMA MoreSeconds ==
    ASSUME NEW s \in Nat, NEW e \in Nat \ {0}, NEW S \in Nat \ {0}
    PROVE  (s + 1) * S <= (s + e) * S
<1>1. (s + e) * S = (s + 1) * S + (e - 1) * S
  OBVIOUS
<1>2. (e - 1) * S >= 0
  OBVIOUS
<1>3. (s + 1) * S \in Int /\ (s + e) * S \in Int /\ (e - 1) * S \in Int
  OBVIOUS
<1> QED
  BY <1>1, <1>2, <1>3

\* What is below a bound stays there when it shrinks.
LEMMA LessStays ==
    ASSUME NEW a \in Nat, NEW b \in Nat, NEW h \in Nat, NEW z \in Int,
           b <= a, a + h < z
    PROVE  b + h < z
OBVIOUS

IndInv == TypeOK /\ UserOwnsKey /\ SeenBoundsTtl

LEMMA InitIndInv == Init => IndInv
<1> SUFFICES ASSUME Init PROVE IndInv
  OBVIOUS
<1>1. TypeOK
  <2>1. /\ pc \in [Client -> {"idle"}] /\ reply \in [Client -> {"nil"}]
        /\ seen \in [Client -> {0}]
    BY DEF Init
  <2>2. \A c \in Client : pc[c] = "idle"
    BY DEF Init
  <2>3. owner = None /\ ttl = 0 /\ ~overrun /\ ~retried
        /\ overrun \in BOOLEAN /\ retried \in BOOLEAN
    BY DEF Init
  <2> QED
    BY <2>1, <2>2, <2>3 DEF TypeOK
<1>2. UserOwnsKey
  BY DEF Init, UserOwnsKey, Active, Believes
<1>3. SeenBoundsTtl
  BY DEF Init, SeenBoundsTtl
<1> QED
  BY <1>1, <1>2, <1>3 DEF IndInv

LEMMA StepTypeOK == TypeOK /\ [Next]_vars => TypeOK'
<1> SUFFICES ASSUME TypeOK, [Next]_vars PROVE TypeOK'
  OBVIOUS
<1>1. CASE Tick
  <2>1. ttl' = ttl - 1 /\ owner # None /\ ttl > 0
    BY <1>1 DEF Tick, TypeOK
  <2>2. (overrun \/ Active(owner)) \in BOOLEAN
    BY DEF TypeOK, Active, Believes
  <2>3. CASE ttl > 1
    BY <1>1, <2>1, <2>3 DEF Tick, TypeOK
  <2>4. CASE ~(ttl > 1)
    <3>1. ttl' = 0 /\ owner' = None
      BY <1>1, <2>1, <2>4 DEF Tick, TypeOK
    <3>2. overrun' \in BOOLEAN
      BY <1>1, <2>2, <2>4 DEF Tick
    <3> QED
      BY <1>1, <3>1, <3>2 DEF Tick, TypeOK
  <2> QED
    BY <2>3, <2>4
<1>2. ASSUME NEW c \in Client, NEW e \in Expire, ExecSetNX(c, e)
      PROVE  TypeOK'
  <2>1. e * Second \in Nat \ {0}
    BY Positive
  <2> QED
    BY <1>2, <2>1 DEF ExecSetNX, TypeOK, Goto, lock
<1>3. ASSUME NEW c \in Client, NEW e \in Expire, ExecExtend(c, e)
      PROVE  TypeOK'
  <2>1. seen[c] + e \in Nat \ {0}
    BY <1>3 DEF ExecExtend, TypeOK
  <2>2. (seen[c] + e) * Second \in Nat \ {0}
    BY <2>1, Positive
  <2> QED
    BY <1>3, <2>2 DEF ExecExtend, TypeOK, Goto
<1>4. ASSUME NEW c \in Client, ExecTtl(c) PROVE TypeOK'
  <2> DEFINE s == IF owner = None THEN -2 ELSE TtlSeconds
  <2>1. s \in Int
    BY Rounding DEF TtlSeconds, TypeOK
  <2>2. /\ seen' = [seen EXCEPT ![c] = s]
        /\ Goto(c, IF s > 0 THEN "extending" ELSE "holding")
        /\ UNCHANGED <<lock, reply, overrun, retried>>
    BY <1>4 DEF ExecTtl
  <2> HIDE DEF s
  <2> QED
    BY <2>1, <2>2 DEF TypeOK, Goto, lock
<1>5. ASSUME NEW c \in Client, ExecDel(c) PROVE TypeOK'
  BY <1>5 DEF ExecDel, TypeOK, Goto
<1>6. ASSUME NEW c \in Client,
             \/ TryLock(c) \/ TryLockReturns(c) \/ TryLockFails(c)
             \/ Unlock(c) \/ UnlockReturns(c) \/ UnlockFails(c)
             \/ GiveUp(c) \/ RetryUnlock(c) \/ AddTimeout(c) \/ TtlFails(c)
             \/ ExtendReturns(c) \/ ExtendFails(c) \/ Crash(c) \/ Restart(c)
      PROVE  TypeOK'
  BY <1>6 DEF TypeOK, Goto, lock, TryLock, TryLockReturns, TryLockFails, Unlock,
              UnlockReturns, UnlockFails, GiveUp, RetryUnlock, AddTimeout,
              TtlFails, ExtendReturns, ExtendFails, Crash, Restart
<1>7. CASE UNCHANGED vars
  BY <1>7 DEF vars, TypeOK
<1> QED
  BY <1>1, <1>2, <1>3, <1>4, <1>5, <1>6, <1>7 DEF Next, Step

\* Who uses the lock owns the key: the lease of a careful caller does not end
\* under it, and only the owner of the key deletes or overwrites it.
LEMMA StepUserOwnsKey ==
    TypeOK /\ UserOwnsKey /\ [Next]_vars => UserOwnsKey'
<1> SUFFICES ASSUME TypeOK, UserOwnsKey, [Next]_vars, Careful'
             PROVE  \A d \in Client : Active(d)' => owner' = d
  BY DEF UserOwnsKey
<1> USE DEF Careful, Active, Believes
<1>1. CASE Tick
  BY <1>1 DEF Tick, TypeOK, UserOwnsKey
<1>2. ASSUME NEW c \in Client, NEW e \in Expire, ExecSetNX(c, e)
      PROVE  \A d \in Client : Active(d)' => owner' = d
  BY <1>2 DEF ExecSetNX, TypeOK, UserOwnsKey, Goto, lock
<1>3. ASSUME NEW c \in Client, NEW e \in Expire, ExecExtend(c, e)
      PROVE  \A d \in Client : Active(d)' => owner' = d
  BY <1>3 DEF ExecExtend, TypeOK, UserOwnsKey, Goto
<1>4. ASSUME NEW c \in Client, ExecTtl(c)
      PROVE  \A d \in Client : Active(d)' => owner' = d
  BY <1>4 DEF ExecTtl, TypeOK, UserOwnsKey, Goto, lock
<1>5. ASSUME NEW c \in Client, ExecDel(c)
      PROVE  \A d \in Client : Active(d)' => owner' = d
  BY <1>5 DEF ExecDel, TypeOK, UserOwnsKey, Goto
<1>6. ASSUME NEW c \in Client,
             \/ TryLock(c) \/ TryLockReturns(c) \/ TryLockFails(c)
             \/ Unlock(c) \/ UnlockReturns(c) \/ UnlockFails(c)
             \/ GiveUp(c) \/ RetryUnlock(c) \/ AddTimeout(c) \/ TtlFails(c)
             \/ ExtendReturns(c) \/ ExtendFails(c) \/ Crash(c) \/ Restart(c)
      PROVE  \A d \in Client : Active(d)' => owner' = d
  BY <1>6 DEF TypeOK, UserOwnsKey, Goto, lock, TryLock, TryLockReturns,
              TryLockFails, Unlock, UnlockReturns, UnlockFails, GiveUp,
              RetryUnlock, AddTimeout, TtlFails, ExtendReturns, ExtendFails,
              Crash, Restart
<1>7. CASE UNCHANGED vars
  BY <1>7 DEF vars, UserOwnsKey
<1> QED
  BY <1>1, <1>2, <1>3, <1>4, <1>5, <1>6, <1>7 DEF Next, Step

\* While nobody else may touch the key, what is left of the lease can only
\* shrink between the TTL and the SET of AddTimeout.
LEMMA StepSeenBoundsTtl ==
    IndInv /\ UserOwnsKey' /\ [Next]_vars => SeenBoundsTtl'
<1> SUFFICES ASSUME IndInv, UserOwnsKey', [Next]_vars, Careful',
                    NEW d \in Client, pc'[d] = "extending"
             PROVE  ttl' + Second \div 2 < (seen'[d] + 1) * Second
  BY DEF SeenBoundsTtl
<1>1. TypeOK /\ UserOwnsKey /\ SeenBoundsTtl
  BY DEF IndInv
<1>2. owner' = d
  BY DEF UserOwnsKey, Active, Believes
<1>3. Second \div 2 \in Nat
  BY Rounding
<1>4. ASSUME pc[d] = "extending", seen'[d] = seen[d], ttl' \in Nat, ttl' <= ttl,
             Careful
      PROVE  ttl' + Second \div 2 < (seen'[d] + 1) * Second
  <2>1. ttl + Second \div 2 < (seen[d] + 1) * Second
    BY <1>1, <1>4 DEF SeenBoundsTtl
  <2>2. (seen[d] + 1) * Second \in Int /\ ttl \in Nat
    BY <1>1 DEF TypeOK
  <2>3. ttl' + Second \div 2 < (seen[d] + 1) * Second
    BY <2>1, <2>2, <1>3, <1>4, LessStays
  <2> QED
    BY <2>3, <1>4
<1>5. Careful
  BY <1>1 DEF Careful, TypeOK, Next, Step, Tick, TryLock, TryLockReturns,
              TryLockFails, Unlock, ExecDel, UnlockReturns, UnlockFails,
              GiveUp, RetryUnlock, AddTimeout, ExecTtl, TtlFails,
              ExtendReturns, ExtendFails, Crash, Restart, ExecSetNX,
              ExecExtend, vars, Active, Believes
<1>6. CASE Tick
  BY <1>1, <1>4, <1>5, <1>6 DEF Tick, TypeOK
<1>7. ASSUME NEW c \in Client, NEW e \in Expire, ExecSetNX(c, e)
      PROVE  ttl' + Second \div 2 < (seen'[d] + 1) * Second
  <2>1. pc[d] = "extending" /\ seen' = seen
    BY <1>1, <1>7 DEF ExecSetNX, TypeOK, Goto
  <2>2. owner = d
    BY <1>1, <1>5, <2>1 DEF UserOwnsKey, Active, Believes
  <2>3. ttl' = ttl
    BY <1>7, <2>2 DEF ExecSetNX, lock
  <2> QED
    BY <1>1, <1>4, <1>5, <2>1, <2>3 DEF TypeOK
<1>8. ASSUME NEW c \in Client, NEW e \in Expire, ExecExtend(c, e)
      PROVE  ttl' + Second \div 2 < (seen'[d] + 1) * Second
  <2>1. d = c
    BY <1>2, <1>8 DEF ExecExtend
  <2> QED
    BY <1>1, <1>8, <2>1 DEF ExecExtend, TypeOK, Goto
<1>9. ASSUME NEW c \in Client, ExecDel(c)
      PROVE  ttl' + Second \div 2 < (seen'[d] + 1) * Second
  BY <1>2, <1>9 DEF ExecDel
<1>10. ASSUME NEW c \in Client, ExecTtl(c)
       PROVE  ttl' + Second \div 2 < (seen'[d] + 1) * Second
  <2>1. ttl' = ttl /\ owner' = owner
    BY <1>10 DEF ExecTtl, lock
  <2>2. CASE d = c
    <3>1. seen'[c] = TtlSeconds
      BY <1>1, <1>2, <1>10, <2>1, <2>2 DEF ExecTtl, TypeOK
    <3>2. ttl + Second \div 2 < (TtlSeconds + 1) * Second
      BY <1>1, Rounding DEF TtlSeconds, TypeOK
    <3> QED
      BY <2>1, <2>2, <3>1, <3>2
  <2>3. CASE d # c
    <3>1. pc[d] = "extending" /\ seen'[d] = seen[d]
      BY <1>1, <1>10, <2>3 DEF ExecTtl, TypeOK, Goto
    <3> QED
      BY <1>1, <1>4, <1>5, <2>1, <3>1 DEF TypeOK
  <2> QED
    BY <2>2, <2>3
<1>11. ASSUME NEW c \in Client,
              \/ TryLock(c) \/ TryLockReturns(c) \/ TryLockFails(c)
              \/ Unlock(c) \/ UnlockReturns(c) \/ UnlockFails(c)
              \/ GiveUp(c) \/ RetryUnlock(c) \/ AddTimeout(c) \/ TtlFails(c)
              \/ ExtendReturns(c) \/ ExtendFails(c) \/ Crash(c) \/ Restart(c)
       PROVE  ttl' + Second \div 2 < (seen'[d] + 1) * Second
  <2>1. ttl' = ttl /\ seen' = seen /\ pc[d] = "extending"
    BY <1>1, <1>11
       DEF TypeOK, Goto, lock, TryLock, TryLockReturns, TryLockFails, Unlock,
           UnlockReturns, UnlockFails, GiveUp, RetryUnlock, AddTimeout,
           TtlFails, ExtendReturns, ExtendFails, Crash, Restart
  <2> QED
    BY <1>1, <1>4, <1>5, <2>1 DEF TypeOK
<1>12. CASE UNCHANGED vars
  BY <1>1, <1>4, <1>5, <1>12 DEF vars, TypeOK
<1> QED
  BY <1>6, <1>7, <1>8, <1>9, <1>10, <1>11, <1>12 DEF Next, Step

LEMMA StepIndInv == IndInv /\ [Next]_vars => IndInv'
BY StepTypeOK, StepUserOwnsKey, StepSeenBoundsTtl DEF IndInv

\* The inductive invariant holds in every reachable state.
THEOREM IndInvariant == Spec => []IndInv
BY InitIndInv, StepIndInv, PTL DEF Spec

\* Every variable of the lock keeps its type.
THEOREM TypeCorrect == Spec => []TypeOK
<1>1. IndInv => TypeOK
  BY DEF IndInv
<1> QED
  BY <1>1, IndInvariant, PTL

\* A caller that believes to have the lock has its key, as long as all are
\* careful.
THEOREM KeyOwned == Spec => []UserOwnsKey
<1>1. IndInv => UserOwnsKey
  BY DEF IndInv
<1> QED
  BY <1>1, IndInvariant, PTL

\* As long as no caller outlives its lease and none repeats a failed Unlock,
\* at most one process believes to have the lock.
THEOREM Exclusive == Spec => []MutualExclusion
<1>1. IndInv => MutualExclusion
  BY DEF IndInv, UserOwnsKey, MutualExclusion, Active
<1> QED
  BY <1>1, IndInvariant, PTL

\* AddTimeout never shortens the lease of a careful caller.
THEOREM ExtensionsExtend == Spec => ExtendNeverShortens
<1>1. ASSUME IndInv, NEW c \in Client, NEW e \in Expire, ExecExtend(c, e),
             Careful
      PROVE  ttl' >= ttl
  <2>1. pc[c] = "extending" /\ ttl' = (seen[c] + e) * Second
    BY <1>1 DEF ExecExtend
  <2>2. seen[c] \in Nat /\ ttl \in Nat
    BY <1>1, <2>1 DEF IndInv, TypeOK
  <2>3. ttl + Second \div 2 < (seen[c] + 1) * Second
    BY <1>1, <2>1 DEF IndInv, SeenBoundsTtl
  <2>4. (seen[c] + 1) * Second <= (seen[c] + e) * Second
    BY <2>2, MoreSeconds
  <2>5. Second \div 2 \in Nat
    BY Rounding
  <2> DEFINE a == (seen[c] + 1) * Second
             b == (seen[c] + e) * Second
             h == Second \div 2
  <2>6. a \in Int /\ b \in Int
    BY <2>2
  <2> HIDE DEF a, b, h
  <2> QED
    BY <2>1, <2>2, <2>3, <2>4, <2>5, <2>6 DEF a, b, h
<1>2. IndInv =>
        [\A c \in Client : \A e \in Expire :
            ExecExtend(c, e) /\ Careful => ttl' >= ttl]_vars
  BY <1>1
<1> QED
  BY <1>2, IndInvariant, PTL DEF ExtendNeverShortens

=============================================================================
