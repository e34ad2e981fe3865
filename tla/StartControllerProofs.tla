------------------------ MODULE StartControllerProofs ------------------------
(***************************************************************************)
(* For every set of starters, priorities, listeners and goroutines: the    *)
(* invariants of StartController, and that it implements StartOrder.       *)
(***************************************************************************)
EXTENDS StartController, SequenceTheorems, TLAPS

(***************************************************************************)
(* What Append, InsertAt and Tail do to the elements of a sequence without *)
(* repetition: the operations on startersArray in app/starter.go.          *)
(***************************************************************************)

\* Appending to a sequence, as register appends to its list of names.
LEMMA AppendNew ==
    ASSUME NEW S, NEW q \in Seq(S), NEW e \in S
    PROVE  /\ Append(q, e) \in Seq(S)
           /\ ToSet(Append(q, e)) = ToSet(q) \cup {e}
           /\ IsInjective(q) /\ e \notin ToSet(q) => IsInjective(Append(q, e))
<1> DEFINE r == Append(q, e)
<1>1. /\ r \in Seq(S)
      /\ Len(r) = Len(q) + 1
      /\ \A i \in 1 .. Len(q) : r[i] = q[i]
      /\ r[Len(q) + 1] = e
  BY AppendProperties
<1>2. DOMAIN r = 1 .. Len(q) + 1 /\ DOMAIN q = 1 .. Len(q) /\ Len(q) \in Nat
  BY <1>1, LenProperties
<1> HIDE DEF r
<1>3. ToSet(r) \subseteq ToSet(q) \cup {e}
  BY <1>1, <1>2 DEF ToSet
<1>4. ToSet(q) \cup {e} \subseteq ToSet(r)
  BY <1>1, <1>2 DEF ToSet
<1>5. IsInjective(q) /\ e \notin ToSet(q) => IsInjective(r)
  BY <1>1, <1>2 DEF ToSet, IsInjective
<1> QED
  BY <1>1, <1>3, <1>4, <1>5 DEF r

\* Inserting into a sequence shifts the elements from the insertion point on.
LEMMA InsertAtProperties ==
    ASSUME NEW S, NEW q \in Seq(S), NEW e \in S, NEW p \in 1 .. Len(q) + 1
    PROVE  /\ InsertAt(q, p, e) \in Seq(S)
           /\ Len(InsertAt(q, p, e)) = Len(q) + 1
           /\ \A i \in 1 .. Len(q) + 1 :
                 InsertAt(q, p, e)[i] = IF i < p THEN q[i]
                                        ELSE IF i = p THEN e ELSE q[i - 1]
<1> DEFINE a == SubSeq(q, 1, p - 1)
           b == <<e>>
           c == SubSeq(q, p, Len(q))
<1>0. Len(q) \in Nat /\ p \in Int /\ p >= 1 /\ p <= Len(q) + 1
  BY LenProperties
<1>1. \A i \in 1 .. Len(q) : q[i] \in S
  BY ElementOfSeq
<1>2. /\ a \in Seq(S) /\ Len(a) = p - 1
      /\ \A i \in 1 .. p - 1 : a[i] = q[i]
  <2>1. /\ a \in Seq(S)
        /\ Len(a) = IF 1 <= p - 1 THEN p - 1 - 1 + 1 ELSE 0
        /\ \A i \in 1 .. (p - 1) - 1 + 1 : a[i] = q[1 + i - 1]
    BY <1>0, <1>1, SubSeqProperties
  <2> QED
    BY <2>1, <1>0
<1>3. b \in Seq(S) /\ Len(b) = 1 /\ b[1] = e
  OBVIOUS
<1>4. /\ c \in Seq(S) /\ Len(c) = Len(q) + 1 - p
      /\ \A i \in 1 .. Len(q) + 1 - p : c[i] = q[p + i - 1]
  <2>1. /\ c \in Seq(S)
        /\ Len(c) = IF p <= Len(q) THEN Len(q) - p + 1 ELSE 0
        /\ \A i \in 1 .. Len(q) - p + 1 : c[i] = q[p + i - 1]
    BY <1>0, <1>1, SubSeqProperties
  <2> QED
    BY <2>1, <1>0
<1> HIDE DEF a, b, c
<1>5. /\ a \o b \in Seq(S) /\ Len(a \o b) = p
      /\ \A i \in 1 .. p : (a \o b)[i] = IF i < p THEN q[i] ELSE e
  <2>1. /\ a \o b \in Seq(S) /\ Len(a \o b) = Len(a) + Len(b)
        /\ \A i \in 1 .. Len(a) + Len(b) :
              (a \o b)[i] = IF i <= Len(a) THEN a[i] ELSE b[i - Len(a)]
    BY <1>2, <1>3, ConcatProperties
  <2> QED
    BY <2>1, <1>0, <1>2, <1>3
<1> DEFINE ab == a \o b
<1>6. /\ ab \o c \in Seq(S)
      /\ Len(ab \o c) = Len(ab) + Len(c)
      /\ \A i \in 1 .. Len(ab) + Len(c) :
            (ab \o c)[i] = IF i <= Len(ab) THEN ab[i] ELSE c[i - Len(ab)]
  <2>1. ab \in Seq(S)
    BY <1>5
  <2> HIDE DEF ab
  <2> QED
    BY <2>1, <1>4, ConcatProperties
<1> DEFINE r == ab \o c
<1>7. InsertAt(q, p, e) = r
  BY DEF InsertAt, a, b, c
<1> HIDE DEF r
<1>8. Len(r) = Len(q) + 1
  BY <1>0, <1>4, <1>5, <1>6 DEF r
<1>9. \A i \in 1 .. Len(q) + 1 :
         r[i] = IF i < p THEN q[i] ELSE IF i = p THEN e ELSE q[i - 1]
  <2> SUFFICES ASSUME NEW i \in 1 .. Len(q) + 1
               PROVE  r[i] = IF i < p THEN q[i]
                             ELSE IF i = p THEN e ELSE q[i - 1]
    OBVIOUS
  <2>1. CASE i <= p
    BY <2>1, <1>0, <1>4, <1>5, <1>6 DEF r
  <2>2. CASE i > p
    <3>1. i - p \in 1 .. Len(q) + 1 - p /\ p + (i - p) - 1 = i - 1
      BY <2>2, <1>0
    <3>2. r[i] = c[i - p]
      BY <2>2, <1>0, <1>4, <1>5, <1>6 DEF r
    <3> QED
      BY <3>1, <3>2, <2>2, <1>0, <1>4
  <2> QED
    BY <2>1, <2>2, <1>0
<1> QED
  BY <1>6, <1>7, <1>8, <1>9 DEF r

\* Inserting a new element, as register does with startersArray.
LEMMA InsertAtNew ==
    ASSUME NEW S, NEW q \in Seq(S), NEW e \in S, NEW p \in 1 .. Len(q) + 1
    PROVE  /\ ToSet(InsertAt(q, p, e)) = ToSet(q) \cup {e}
           /\ IsInjective(q) /\ e \notin ToSet(q)
                => IsInjective(InsertAt(q, p, e))
<1> DEFINE r == InsertAt(q, p, e)
<1>1. /\ r \in Seq(S) /\ Len(r) = Len(q) + 1
      /\ \A i \in 1 .. Len(q) + 1 :
            r[i] = IF i < p THEN q[i] ELSE IF i = p THEN e ELSE q[i - 1]
  BY InsertAtProperties
<1>2. /\ DOMAIN r = 1 .. Len(q) + 1 /\ DOMAIN q = 1 .. Len(q)
      /\ Len(q) \in Nat /\ p \in Int
  BY <1>1, LenProperties
<1> HIDE DEF r
<1>3. ToSet(r) \subseteq ToSet(q) \cup {e}
  <2> SUFFICES ASSUME NEW i \in 1 .. Len(q) + 1
               PROVE  r[i] \in ToSet(q) \cup {e}
    BY <1>2 DEF ToSet
  <2>1. i < p => r[i] = q[i] /\ i \in DOMAIN q
    BY <1>1, <1>2
  <2>2. i > p => r[i] = q[i - 1] /\ i - 1 \in DOMAIN q
    BY <1>1, <1>2
  <2>3. i = p => r[i] = e
    BY <1>1, <1>2
  <2> QED
    BY <2>1, <2>2, <2>3, <1>2 DEF ToSet
<1>4. ToSet(q) \cup {e} \subseteq ToSet(r)
  <2>1. e \in ToSet(r)
    BY <1>1, <1>2 DEF ToSet
  <2>2. ASSUME NEW i \in DOMAIN q PROVE q[i] \in ToSet(r)
    <3>1. i < p => r[i] = q[i]
      BY <1>1, <1>2
    <3>2. ~(i < p) => r[i + 1] = q[i]
      BY <1>1, <1>2
    <3> QED
      BY <3>1, <3>2, <1>2 DEF ToSet
  <2> QED
    BY <2>1, <2>2 DEF ToSet
<1>5. ASSUME IsInjective(q), e \notin ToSet(q)
      PROVE  IsInjective(r)
  <2> DEFINE old(i) == IF i < p THEN i ELSE i - 1
  <2>1. \A i \in 1 .. Len(q) + 1 :
           i # p => old(i) \in DOMAIN q /\ r[i] = q[old(i)]
    BY <1>1, <1>2
  <2>2. r[p] = e
    BY <1>1, <1>2
  <2>3. \A i \in DOMAIN q : q[i] # e
    BY <1>5 DEF ToSet
  <2>4. \A i, j \in 1 .. Len(q) + 1 :
           i # p /\ j # p /\ r[i] = r[j] => old(i) = old(j)
    BY <2>1, <1>5 DEF IsInjective
  <2>5. \A i, j \in 1 .. Len(q) + 1 :
           i # p /\ j # p /\ old(i) = old(j) => i = j
    BY <1>2
  <2> HIDE DEF old
  <2> QED
    BY <2>1, <2>2, <2>3, <2>4, <2>5, <1>2 DEF IsInjective
<1> QED
  BY <1>3, <1>4, <1>5 DEF r

\* Popping, as startNext does.
LEMMA TailOfInjective ==
    ASSUME NEW S, NEW q \in Seq(S), q # <<>>, IsInjective(q)
    PROVE  /\ Tail(q) \in Seq(S) /\ Head(q) \in S /\ Head(q) = q[1]
           /\ ToSet(Tail(q)) = ToSet(q) \ {Head(q)}
           /\ Head(q) \in ToSet(q)
           /\ IsInjective(Tail(q))
           /\ DOMAIN Tail(q) = 1 .. Len(q) - 1
           /\ \A i \in 1 .. Len(q) - 1 : Tail(q)[i] = q[i + 1]
<1> DEFINE t == Tail(q)
<1>1. /\ t \in Seq(S) /\ Head(q) \in S /\ Len(t) = Len(q) - 1
      /\ \A i \in 1 .. Len(t) : t[i] = q[i + 1]
  BY HeadTailProperties
<1>2. DOMAIN t = 1 .. Len(q) - 1 /\ DOMAIN q = 1 .. Len(q) /\ Len(q) \in Nat
  BY <1>1, LenProperties
<1>3. Len(q) >= 1 /\ Head(q) = q[1]
  BY <1>2, EmptySeq
<1> HIDE DEF t
<1>4. ToSet(t) \subseteq ToSet(q) \ {Head(q)}
  BY <1>1, <1>2, <1>3 DEF ToSet, IsInjective
<1>5. ToSet(q) \ {Head(q)} \subseteq ToSet(t)
  <2> SUFFICES ASSUME NEW i \in DOMAIN q, q[i] # Head(q)
               PROVE  q[i] \in ToSet(t)
    BY DEF ToSet
  <2>1. i - 1 \in DOMAIN t /\ t[i - 1] = q[i]
    BY <1>1, <1>2, <1>3
  <2> QED
    BY <2>1 DEF ToSet
<1>6. IsInjective(t)
  BY <1>1, <1>2 DEF IsInjective
<1>7. Head(q) \in ToSet(q)
  BY <1>2, <1>3 DEF ToSet
<1> QED
  BY <1>1, <1>2, <1>3, <1>4, <1>5, <1>6, <1>7 DEF t

-----------------------------------------------------------------------------
(***************************************************************************)
(* The queue, the accounting of starters, and what success means.          *)
(***************************************************************************)

USE PriorityAssumption, NoneAssumption

\* The insertion loop of register finds a place in the array.
LEMMA InsertPointsType ==
    ASSUME TypeOK, NEW s \in Starter, NEW p \in InsertPoints(s)
    PROVE  p \in 1 .. Len(queue) + 1
BY DEF InsertPoints

\* What a successful register does to the map and the array.
LEMMA EnqueueEffect ==
    ASSUME TypeOK, Ledger, NEW s \in Starter, Enqueue(s)
    PROVE  /\ registered' \in Seq(Starter) /\ queue' \in Seq(Starter)
           /\ s \notin ToSet(registered) /\ s \notin ToSet(queue)
           /\ ToSet(registered') = ToSet(registered) \cup {s}
           /\ ToSet(queue') = ToSet(queue) \cup {s}
           /\ IsInjective(registered') /\ IsInjective(queue')
<1>1. s \notin ToSet(registered) /\ registered' = Append(registered, s)
  BY DEF Enqueue
<1>2. PICK p \in InsertPoints(s) : queue' = InsertAt(queue, p, s)
  BY DEF Enqueue
<1>3. p \in 1 .. Len(queue) + 1
  BY InsertPointsType
<1>4. registered \in Seq(Starter) /\ queue \in Seq(Starter)
  BY DEF TypeOK
<1>5. s \notin ToSet(queue) /\ IsInjective(registered) /\ IsInjective(queue)
  BY <1>1 DEF Ledger
<1>6. /\ registered' \in Seq(Starter)
      /\ ToSet(registered') = ToSet(registered) \cup {s}
      /\ IsInjective(registered')
  BY <1>1, <1>4, <1>5, AppendNew
<1>7. queue' \in Seq(Starter)
  BY <1>2, <1>3, <1>4, InsertAtProperties
<1>8. ToSet(queue') = ToSet(queue) \cup {s} /\ IsInjective(queue')
  BY <1>2, <1>3, <1>4, <1>5, InsertAtNew
<1> QED
  BY <1>1, <1>5, <1>6, <1>7, <1>8

\* Registering keeps the order in which earlier starters were registered, and
\* puts the new one behind them all.
LEMMA EarlierGrows ==
    ASSUME TypeOK, NEW s \in Starter, registered' = Append(registered, s)
    PROVE  /\ \A a, b : Earlier(registered, a, b) => Earlier(registered', a, b)
           /\ \A a \in ToSet(registered) : Earlier(registered', a, s)
<1>1. registered \in Seq(Starter)
  BY DEF TypeOK
<1>2. /\ registered' \in Seq(Starter)
      /\ Len(registered') = Len(registered) + 1
      /\ \A i \in 1 .. Len(registered) : registered'[i] = registered[i]
      /\ registered'[Len(registered) + 1] = s
  BY <1>1, AppendProperties
<1>3. /\ DOMAIN registered = 1 .. Len(registered)
      /\ DOMAIN registered' = 1 .. Len(registered) + 1
      /\ Len(registered) \in Nat
  BY <1>1, <1>2, LenProperties
<1>4. ASSUME NEW a, NEW b, Earlier(registered, a, b) PROVE Earlier(registered', a, b)
  <2>1. PICK i, j \in DOMAIN registered :
           i < j /\ registered[i] = a /\ registered[j] = b
    BY <1>4 DEF Earlier
  <2>2. /\ i \in DOMAIN registered' /\ j \in DOMAIN registered'
        /\ registered'[i] = a /\ registered'[j] = b
    BY <2>1, <1>2, <1>3
  <2> QED
    BY <2>1, <2>2 DEF Earlier
<1>5. ASSUME NEW a \in ToSet(registered) PROVE Earlier(registered', a, s)
  <2>1. PICK i \in DOMAIN registered : registered[i] = a
    BY DEF ToSet
  <2>2. /\ i \in DOMAIN registered' /\ registered'[i] = a
        /\ i < Len(registered) + 1
    BY <2>1, <1>2, <1>3
  <2>3. Len(registered) + 1 \in DOMAIN registered'
    BY <1>3
  <2> QED
    BY <2>2, <2>3, <1>2 DEF Earlier
<1> QED
  BY <1>4, <1>5

\* The insertion keeps the array in order.
LEMMA EnqueueKeepsOrder ==
    ASSUME TypeOK, Ledger, QueueOrder, NEW s \in Starter, Enqueue(s),
           prio' = prio
    PROVE  QueueOrder'
<1>1. registered' = Append(registered, s)
  BY DEF Enqueue
<1>2. PICK p \in InsertPoints(s) : queue' = InsertAt(queue, p, s)
  BY DEF Enqueue
<1> DEFINE n == Len(queue)
           old(i) == IF i < p THEN i ELSE i - 1
<1>3. /\ queue \in Seq(Starter) /\ n \in Nat /\ DOMAIN queue = 1 .. n
      /\ p \in 1 .. n + 1
      /\ \A i \in 1 .. p - 1 : prio[queue[i]] >= prio[s]
      /\ p <= n => prio[s] > prio[queue[p]]
  BY LenProperties DEF TypeOK, InsertPoints
<1>4. /\ queue' \in Seq(Starter) /\ Len(queue') = n + 1
      /\ \A i \in 1 .. n + 1 :
            queue'[i] = IF i < p THEN queue[i]
                        ELSE IF i = p THEN s ELSE queue[i - 1]
  BY <1>2, <1>3, InsertAtProperties
<1>5. DOMAIN queue' = 1 .. n + 1
  BY <1>4, LenProperties
<1>6. /\ \A t \in Starter : prio[t] \in Int
      /\ \A i \in 1 .. n : queue[i] \in Starter
  BY <1>3, ElementOfSeq DEF TypeOK
<1>7. \A i \in 1 .. n : queue[i] \in ToSet(registered)
  BY <1>3 DEF Ledger, ToSet
<1>8. /\ \A a, b : Earlier(registered, a, b) => Earlier(registered', a, b)
      /\ \A a \in ToSet(registered) : Earlier(registered', a, s)
  BY <1>1, EarlierGrows
<1> HIDE DEF n
<1>9. \A i \in p .. n : prio[s] > prio[queue[i]]
  <2> SUFFICES ASSUME NEW i \in p .. n PROVE prio[s] > prio[queue[i]]
    OBVIOUS
  <2>1. p <= n /\ p \in 1 .. n /\ i \in 1 .. n /\ prio[s] > prio[queue[p]]
    BY <1>3
  <2>2. CASE i = p
    BY <2>1, <2>2
  <2>3. CASE p < i
    <3>1. prio[queue[p]] >= prio[queue[i]]
      BY <2>1, <2>3, <1>3, <1>6 DEF QueueOrder
    <3> QED
      BY <3>1, <2>1, <1>6
  <2> QED
    BY <2>2, <2>3, <1>3
<1>10. ASSUME NEW i \in 1 .. n + 1, NEW j \in 1 .. n + 1, i < j
       PROVE  \/ prio[queue'[i]] > prio[queue'[j]]
              \/ /\ prio[queue'[i]] = prio[queue'[j]]
                 /\ Earlier(registered', queue'[i], queue'[j])
  <2>1. CASE i # p /\ j # p
    <3>1. /\ old(i) \in 1 .. n /\ old(j) \in 1 .. n /\ old(i) < old(j)
          /\ queue'[i] = queue[old(i)] /\ queue'[j] = queue[old(j)]
      BY <2>1, <1>3, <1>4, <1>10
    <3> HIDE DEF old
    <3>2. \/ prio[queue[old(i)]] > prio[queue[old(j)]]
          \/ /\ prio[queue[old(i)]] = prio[queue[old(j)]]
             /\ Earlier(registered, queue[old(i)], queue[old(j)])
      BY <3>1, <1>3 DEF QueueOrder
    <3> QED
      BY <3>1, <3>2, <1>8
  <2>2. CASE i = p
    <3>1. p \in Nat /\ n \in Nat /\ p < j
      BY <2>2, <1>3, <1>10
    <3>2. j - 1 \in p .. n /\ ~(j < p) /\ j # p
      BY <3>1
    <3>3. queue'[i] = s /\ queue'[j] = queue[j - 1]
      BY <2>2, <3>1, <3>2, <1>4
    <3> QED
      BY <3>2, <3>3, <1>9
  <2>3. CASE j = p
    <3>1. p \in Nat /\ n \in Nat /\ i < p /\ p <= n + 1
      BY <2>3, <1>3, <1>10
    <3>2. i \in 1 .. p - 1 /\ i \in 1 .. n /\ i # p
      BY <3>1
    <3>3. queue'[j] = s /\ queue'[i] = queue[i]
      BY <2>3, <3>1, <3>2, <1>4
    <3>4. prio[queue[i]] >= prio[s]
      BY <3>2, <1>3
    <3>5. Earlier(registered', queue[i], s)
      BY <3>2, <1>7, <1>8
    <3> QED
      BY <3>2, <3>3, <3>4, <3>5, <1>6
  <2> QED
    BY <2>1, <2>2, <2>3
<1> QED
  BY <1>5, <1>10 DEF QueueOrder

\* The critical section of register, whoever runs it.
LEMMA RegisterPreserves ==
    ASSUME IndInv, Running, NEW s \in Starter, Register(s),
           UNCHANGED <<mainVars, prio>>
    PROVE  /\ registered' \in Seq(Starter) /\ queue' \in Seq(Starter)
           /\ mu' \in {"free", "held"}
           /\ crash' \in {"no", "duplicate"}
           /\ ControlState' /\ Ledger' /\ QueueOrder'
<1> USE DEF IndInv
<1>0. mu = "free" /\ outcome # "ok"
  BY DEF Register, ControlState
<1>1. CASE Enqueue(s)
  <2>1. /\ registered' \in Seq(Starter) /\ queue' \in Seq(Starter)
        /\ s \notin ToSet(registered) /\ s \notin ToSet(queue)
        /\ ToSet(registered') = ToSet(registered) \cup {s}
        /\ ToSet(queue') = ToSet(queue) \cup {s}
        /\ IsInjective(registered') /\ IsInjective(queue')
    BY <1>1, EnqueueEffect
  <2>2. mu' = mu /\ crash' = crash
    BY <1>1 DEF Enqueue
  <2>3. ControlState'
    BY <1>0, <2>2 DEF ControlState, mainVars
  <2>4. Ledger'
    BY <2>1 DEF Ledger, mainVars, TypeOK
  <2>5. QueueOrder'
    BY <1>1, EnqueueKeepsOrder
  <2> QED
    BY <1>0, <2>1, <2>2, <2>3, <2>4, <2>5 DEF Running
<1>2. CASE RejectDuplicate(s)
  <2>1. ControlState'
    BY <1>0, <1>2 DEF ControlState, RejectDuplicate, mainVars
  <2>2. Ledger' /\ QueueOrder'
    BY <1>2 DEF Ledger, QueueOrder, RejectDuplicate, mainVars
  <2> QED
    BY <2>1, <2>2, <1>2 DEF RejectDuplicate, TypeOK
<1> QED
  BY <1>1, <1>2 DEF Register

LEMMA InitIndInv == Init => IndInv
<1> SUFFICES ASSUME Init PROVE IndInv
  OBVIOUS
<1>1. TypeOK
  BY DEF Init, TypeOK
<1>2. ToSet(<<>>) = {} /\ IsInjective(<<>>)
  BY DEF ToSet, IsInjective
<1>3. ControlState /\ Ledger /\ NeverRestarted
  BY <1>2 DEF Init, ControlState, Ledger, NeverRestarted
<1>4. QueueOrder
  BY DEF Init, QueueOrder
<1> QED
  BY <1>1, <1>3, <1>4 DEF IndInv

LEMMA StepIndInv == IndInv /\ [Next]_vars => IndInv'
<1> SUFFICES ASSUME IndInv, [Next]_vars PROVE IndInv'
  OBVIOUS
<1>1. TypeOK /\ ControlState /\ Ledger /\ QueueOrder /\ NeverRestarted
  BY DEF IndInv
<1>2. ASSUME NEW s \in Starter, MainRegister(s) PROVE IndInv'
  <2>1. /\ registered' \in Seq(Starter) /\ queue' \in Seq(Starter)
        /\ mu' \in {"free", "held"}
        /\ crash' \in {"no", "duplicate"}
        /\ ControlState' /\ Ledger' /\ QueueOrder'
    BY <1>2, RegisterPreserves DEF MainRegister
  <2>2. TypeOK'
    BY <1>1, <1>2, <2>1 DEF TypeOK, MainRegister, mainVars, listenerVars
  <2> QED
    BY <2>1, <2>2 DEF IndInv, NeverRestarted
<1>3. ASSUME NEW g \in Registrar, NEW s \in Starter, Call(g, s) PROVE IndInv'
  <2> USE <1>1, <1>3 DEF Call, mainVars, listenerVars
  <2>1. TypeOK'
    BY DEF TypeOK
  <2>2. ControlState' /\ Ledger' /\ NeverRestarted'
    BY DEF ControlState, Ledger, NeverRestarted
  <2>3. QueueOrder'
    BY DEF QueueOrder
  <2> QED
    BY <2>1, <2>2, <2>3 DEF IndInv
<1>4. ASSUME NEW g \in Registrar, Enter(g) PROVE IndInv'
  <2>1. call[g] \in Starter
    BY <1>1, <1>4 DEF TypeOK, Enter
  <2>2. /\ registered' \in Seq(Starter) /\ queue' \in Seq(Starter)
        /\ mu' \in {"free", "held"}
        /\ crash' \in {"no", "duplicate"}
        /\ ControlState' /\ Ledger' /\ QueueOrder'
    BY <1>4, <2>1, RegisterPreserves DEF Enter
  <2>3. TypeOK'
    BY <1>1, <1>4, <2>2 DEF TypeOK, Enter, mainVars, listenerVars
  <2> QED
    BY <2>2, <2>3 DEF IndInv, NeverRestarted
<1>5. ASSUME NEW s \in Starter, NEW p \in Priority, SetPriority(s, p)
      PROVE  IndInv'
  <2> USE <1>1, <1>5 DEF SetPriority, mainVars, listenerVars
  <2>1. TypeOK'
    BY DEF TypeOK
  <2>2. ControlState' /\ Ledger' /\ NeverRestarted'
    BY DEF ControlState, Ledger, NeverRestarted
  <2>3. \A i \in DOMAIN queue : prio'[queue[i]] = prio[queue[i]]
    <3>1. \A i \in DOMAIN queue : queue[i] \in ToSet(registered)
      BY DEF Ledger, ToSet
    <3> QED
      BY <3>1 DEF TypeOK
  <2>4. QueueOrder'
    BY <2>3 DEF QueueOrder
  <2> QED
    BY <2>1, <2>2, <2>4 DEF IndInv
<1>6. ASSUME NEW s \in Starter, NEW l \in Listener, OnStarted(s, l)
      PROVE  IndInv'
  <2> USE <1>1, <1>6 DEF OnStarted, mainVars
  <2>1. listeners' \in [Starter -> Seq(Listener)]
    <3>1. listeners[s] \in Seq(Listener)
      BY DEF TypeOK
    <3>2. Append(listeners[s], l) \in Seq(Listener)
      BY <3>1, AppendProperties
    <3> QED
      BY <3>2 DEF TypeOK
  <2>2. TypeOK'
    BY <2>1 DEF TypeOK
  <2>3. ControlState' /\ Ledger' /\ NeverRestarted'
    BY DEF ControlState, Ledger, NeverRestarted
  <2>4. QueueOrder'
    BY DEF QueueOrder
  <2> QED
    BY <2>2, <2>3, <2>4 DEF IndInv
<1>7. CASE Start
  <2> USE <1>1, <1>7 DEF Start, listenerVars
  <2>1. TypeOK'
    BY DEF TypeOK
  <2>2. ControlState' /\ Ledger' /\ NeverRestarted'
    BY DEF ControlState, Ledger, NeverRestarted
  <2>3. QueueOrder'
    BY DEF QueueOrder
  <2> QED
    BY <2>1, <2>2, <2>3 DEF IndInv
<1>8. CASE StartNext
  <2> USE <1>1, <1>8 DEF StartNext, listenerVars
  <2>1. queue \in Seq(Starter) /\ IsInjective(queue) /\ queue # <<>>
    BY DEF TypeOK, Ledger
  <2>2. /\ Tail(queue) \in Seq(Starter) /\ Head(queue) \in Starter
        /\ ToSet(Tail(queue)) = ToSet(queue) \ {Head(queue)}
        /\ Head(queue) \in ToSet(queue)
        /\ IsInjective(Tail(queue))
        /\ DOMAIN Tail(queue) = 1 .. Len(queue) - 1
        /\ \A i \in 1 .. Len(queue) - 1 : Tail(queue)[i] = queue[i + 1]
    BY <2>1, TailOfInjective
  <2>3. Head(queue) \notin started /\ Head(queue) \in ToSet(registered)
    BY <2>2 DEF Ledger
  <2>4. Head(queue) # None /\ cur = None
    BY <2>2 DEF ControlState
  <2>5. pc' = "starting" /\ crash' = crash
    BY <2>3
  <2>6. TypeOK'
    BY <2>2, <2>4, <2>5 DEF TypeOK
  <2>7. ControlState' /\ NeverRestarted'
    BY <2>4, <2>5 DEF ControlState, NeverRestarted
  <2>8. Ledger'
    BY <2>2, <2>3, <2>4, <2>5 DEF Ledger
  <2>9. QueueOrder'
    <3>1. DOMAIN queue = 1 .. Len(queue) /\ Len(queue) \in Nat
      BY <2>1, LenProperties
    <3>2. \A i \in DOMAIN queue' :
             i + 1 \in DOMAIN queue /\ queue'[i] = queue[i + 1]
      BY <2>2, <3>1
    <3>3. \A i, j \in DOMAIN queue' : i < j => i + 1 < j + 1
      BY <2>2
    <3> QED
      BY <3>2, <3>3 DEF QueueOrder
  <2> QED
    BY <2>6, <2>7, <2>8, <2>9 DEF IndInv
<1>9. CASE StartNextEmpty
  <2> USE <1>1, <1>9 DEF StartNextEmpty, listenerVars
  <2>1. TypeOK'
    BY DEF TypeOK
  <2>2. ControlState' /\ Ledger' /\ NeverRestarted'
    BY DEF ControlState, Ledger, NeverRestarted
  <2>3. QueueOrder'
    BY DEF QueueOrder
  <2> QED
    BY <2>1, <2>2, <2>3 DEF IndInv
<1>10. CASE StartReturns
  <2> USE <1>1, <1>10 DEF StartReturns, listenerVars
  <2>1. cur \in Starter
    BY DEF TypeOK
  <2>2. TypeOK'
    BY <2>1 DEF TypeOK
  <2>3. ControlState' /\ Ledger' /\ NeverRestarted'
    BY <2>1 DEF ControlState, Ledger, NeverRestarted
  <2>4. QueueOrder'
    BY DEF QueueOrder
  <2> QED
    BY <2>2, <2>3, <2>4 DEF IndInv
<1>11. CASE StartFails \/ ListenerFails
  <2> USE <1>1, <1>11 DEF StartFails, ListenerFails, listenerVars
  <2>1. TypeOK'
    BY DEF TypeOK
  <2>2. ControlState' /\ Ledger' /\ NeverRestarted'
    BY DEF ControlState, Ledger, NeverRestarted
  <2>3. QueueOrder'
    BY DEF QueueOrder
  <2> QED
    BY <2>1, <2>2, <2>3 DEF IndInv
<1>12. CASE ListenerReturns
  <2> USE <1>1, <1>12 DEF ListenerReturns
  <2>1. pending \in Seq(Listener) /\ pending # <<>> /\ ran \in Seq(Listener)
    BY DEF TypeOK
  <2>2. Head(pending) \in Listener /\ Tail(pending) \in Seq(Listener)
    BY <2>1, HeadTailProperties
  <2>3. Append(ran, Head(pending)) \in Seq(Listener)
    BY <2>1, <2>2, AppendProperties
  <2>4. TypeOK'
    BY <2>2, <2>3 DEF TypeOK
  <2>5. ControlState' /\ Ledger' /\ NeverRestarted'
    BY DEF ControlState, Ledger, NeverRestarted
  <2>6. QueueOrder'
    BY DEF QueueOrder
  <2> QED
    BY <2>4, <2>5, <2>6 DEF IndInv
<1>13. CASE Notified
  <2> USE <1>1, <1>13 DEF Notified, listenerVars
  <2>1. TypeOK'
    BY DEF TypeOK
  <2>2. ControlState' /\ NeverRestarted'
    BY DEF ControlState, NeverRestarted
  <2>3. cur \in started /\ None \notin ToSet(queue)
    <3>1. queue \in Seq(Starter)
      BY DEF TypeOK
    <3>2. ToSet(queue) \subseteq Starter
      BY <3>1, LenProperties, ElementOfSeq DEF ToSet
    <3> QED
      BY <3>2 DEF ControlState
  <2>4. Ledger'
    BY <2>3 DEF Ledger
  <2>5. QueueOrder'
    BY DEF QueueOrder
  <2> QED
    BY <2>1, <2>2, <2>4, <2>5 DEF IndInv
<1>14. CASE Exit
  <2> USE <1>1, <1>14 DEF Exit, listenerVars
  <2>1. TypeOK'
    BY DEF TypeOK
  <2>2. ControlState' /\ Ledger' /\ NeverRestarted'
    BY DEF ControlState, Ledger, NeverRestarted
  <2>3. QueueOrder'
    BY DEF QueueOrder
  <2> QED
    BY <2>1, <2>2, <2>3 DEF IndInv
<1>15. CASE UseAfterStart \/ Panic
  <2> USE <1>1, <1>15 DEF UseAfterStart, Panic, mainVars, listenerVars
  <2>1. TypeOK'
    BY DEF TypeOK
  <2>2. ControlState' /\ Ledger' /\ NeverRestarted'
    BY DEF ControlState, Ledger, NeverRestarted
  <2>3. QueueOrder'
    BY DEF QueueOrder
  <2> QED
    BY <2>1, <2>2, <2>3 DEF IndInv
<1>16. CASE UNCHANGED vars
  <2> USE <1>1, <1>16 DEF vars
  <2>1. TypeOK'
    BY DEF TypeOK
  <2>2. ControlState' /\ Ledger' /\ NeverRestarted'
    BY DEF ControlState, Ledger, NeverRestarted
  <2>3. QueueOrder'
    BY DEF QueueOrder
  <2> QED
    BY <2>1, <2>2, <2>3 DEF IndInv
<1> QED
  BY <1>2, <1>3, <1>4, <1>5, <1>6, <1>7, <1>8, <1>9, <1>10, <1>11, <1>12,
     <1>13, <1>14, <1>15, <1>16 DEF Next, MainStep, Terminated

\* The inductive invariant holds in every reachable state: among its parts
\* are the types, the order of startersArray and the panic that cannot
\* happen.
THEOREM IndInvariant == Spec => []IndInv
BY InitIndInv, StepIndInv, PTL DEF Spec

\* Every variable of the start controller keeps its type.
THEOREM TypeCorrect == Spec => []TypeOK
<1>1. IndInv => TypeOK
  BY DEF IndInv
<1> QED
  BY <1>1, IndInvariant, PTL

\* No starter is lost or doubled between register and SetStarted.
THEOREM LedgerBalanced == Spec => []Ledger
<1>1. IndInv => Ledger
  BY DEF IndInv
<1> QED
  BY <1>1, IndInvariant, PTL

\* startersArray is sorted by priority, then by order of registration.
THEOREM QueueOrdered == Spec => []QueueOrder
<1>1. IndInv => QueueOrder
  BY DEF IndInv
<1> QED
  BY <1>1, IndInvariant, PTL

\* startStarter never meets a starter that has started.
THEOREM NoRestart == Spec => []NeverRestarted
<1>1. IndInv => NeverRestarted
  BY DEF IndInv
<1> QED
  BY <1>1, IndInvariant, PTL

\* When Start reports success, every accepted starter has started.
THEOREM SuccessIsComplete == Spec => []CompleteMeansAll
<1>1. IndInv => CompleteMeansAll
  <2> SUFFICES ASSUME IndInv, outcome = "ok"
               PROVE  ToSet(registered) \subseteq started
    BY DEF CompleteMeansAll
  <2>1. ToSet(<<>>) = {}
    BY DEF ToSet
  <2> QED
    BY <2>1 DEF IndInv, ControlState, Ledger
<1> QED
  BY <1>1, IndInvariant, PTL

-----------------------------------------------------------------------------
(***************************************************************************)
(* The listeners.                                                          *)
(***************************************************************************)

\* Concatenation keeps what is in either part, in its order.
LEMMA ConcatParts ==
    ASSUME NEW S, NEW q \in Seq(S), NEW r \in Seq(S)
    PROVE  /\ q \o r \in Seq(S)
           /\ ToSet(q \o r) = ToSet(q) \cup ToSet(r)
           /\ \A a, b : Earlier(q, a, b) => Earlier(q \o r, a, b)
           /\ \A a, b : Earlier(r, a, b) => Earlier(q \o r, a, b)
           /\ IsInjective(q \o r) => IsInjective(q) /\ IsInjective(r)
           /\ IsInjective(q) /\ IsInjective(r) /\ ToSet(q) \cap ToSet(r) = {}
                => IsInjective(q \o r)
<1> DEFINE c == q \o r
<1>1. /\ c \in Seq(S) /\ Len(c) = Len(q) + Len(r)
      /\ \A i \in 1 .. Len(q) + Len(r) :
            c[i] = IF i <= Len(q) THEN q[i] ELSE r[i - Len(q)]
  BY ConcatProperties
<1>2. /\ DOMAIN c = 1 .. Len(q) + Len(r)
      /\ DOMAIN q = 1 .. Len(q) /\ DOMAIN r = 1 .. Len(r)
      /\ Len(q) \in Nat /\ Len(r) \in Nat
  BY <1>1, LenProperties
<1> HIDE DEF c
<1>3. \A i \in DOMAIN q : i \in DOMAIN c /\ c[i] = q[i]
  BY <1>1, <1>2
<1>4. \A i \in DOMAIN r : Len(q) + i \in DOMAIN c /\ c[Len(q) + i] = r[i]
  BY <1>1, <1>2
<1>5. \A i \in DOMAIN c : \/ i \in DOMAIN q /\ c[i] = q[i]
                          \/ i - Len(q) \in DOMAIN r /\ c[i] = r[i - Len(q)]
  BY <1>1, <1>2
<1>6. ToSet(c) = ToSet(q) \cup ToSet(r)
  <2>1. ToSet(c) \subseteq ToSet(q) \cup ToSet(r)
    BY <1>5 DEF ToSet
  <2>2. ToSet(q) \cup ToSet(r) \subseteq ToSet(c)
    BY <1>3, <1>4 DEF ToSet
  <2> QED
    BY <2>1, <2>2
<1>7. \A a, b : Earlier(q, a, b) => Earlier(c, a, b)
  BY <1>3 DEF Earlier
<1>8. ASSUME NEW a, NEW b, Earlier(r, a, b) PROVE Earlier(c, a, b)
  <2>1. PICK i, j \in DOMAIN r : i < j /\ r[i] = a /\ r[j] = b
    BY <1>8 DEF Earlier
  <2>2. Len(q) + i < Len(q) + j
    BY <2>1, <1>2
  <2> QED
    BY <2>1, <2>2, <1>4 DEF Earlier
<1>9. ASSUME IsInjective(c) PROVE IsInjective(q) /\ IsInjective(r)
  <2>1. IsInjective(q)
    BY <1>3, <1>9 DEF IsInjective
  <2>2. \A i, j \in DOMAIN r : r[i] = r[j] => Len(q) + i = Len(q) + j
    BY <1>4, <1>9 DEF IsInjective
  <2>3. IsInjective(r)
    BY <2>2, <1>2 DEF IsInjective
  <2> QED
    BY <2>1, <2>3
<1>10. ASSUME IsInjective(q), IsInjective(r), ToSet(q) \cap ToSet(r) = {}
       PROVE  IsInjective(c)
  <2> SUFFICES ASSUME NEW i \in DOMAIN c, NEW j \in DOMAIN c, c[i] = c[j]
               PROVE  i = j
    BY DEF IsInjective
  <2>1. \A k \in DOMAIN q : q[k] \in ToSet(q)
    BY DEF ToSet
  <2>2. \A k \in DOMAIN r : r[k] \in ToSet(r)
    BY DEF ToSet
  <2>3. CASE i \in DOMAIN q /\ c[i] = q[i] /\ j \in DOMAIN q /\ c[j] = q[j]
    BY <2>3, <1>10 DEF IsInjective
  <2>4. CASE /\ i - Len(q) \in DOMAIN r /\ c[i] = r[i - Len(q)]
             /\ j - Len(q) \in DOMAIN r /\ c[j] = r[j - Len(q)]
    <3>1. i - Len(q) = j - Len(q)
      BY <2>4, <1>10 DEF IsInjective
    <3> QED
      BY <3>1, <1>2
  <2> QED
    BY <2>1, <2>2, <2>3, <2>4, <1>5, <1>10
<1> QED
  BY <1>1, <1>6, <1>7, <1>8, <1>9, <1>10 DEF c

\* Appending puts the new element behind the others and moves none of them.
LEMMA AppendKeepsOrder ==
    ASSUME NEW S, NEW q \in Seq(S), NEW e \in S
    PROVE  /\ \A a, b : Earlier(q, a, b) => Earlier(Append(q, e), a, b)
           /\ \A a, b : b # e /\ Earlier(Append(q, e), a, b)
                           => Earlier(q, a, b)
<1> DEFINE c == Append(q, e)
<1>1. /\ c \in Seq(S) /\ Len(c) = Len(q) + 1
      /\ \A i \in 1 .. Len(q) : c[i] = q[i]
      /\ c[Len(q) + 1] = e
  BY AppendProperties
<1>2. DOMAIN c = 1 .. Len(q) + 1 /\ DOMAIN q = 1 .. Len(q) /\ Len(q) \in Nat
  BY <1>1, LenProperties
<1> HIDE DEF c
<1>3. \A a, b : Earlier(q, a, b) => Earlier(c, a, b)
  BY <1>1, <1>2 DEF Earlier
<1>4. ASSUME NEW a, NEW b, b # e, Earlier(c, a, b) PROVE Earlier(q, a, b)
  <2>1. PICK i, j \in DOMAIN c : i < j /\ c[i] = a /\ c[j] = b
    BY <1>4 DEF Earlier
  <2>2. j # Len(q) + 1
    BY <2>1, <1>1, <1>4
  <2>3. i \in DOMAIN q /\ j \in DOMAIN q
    BY <2>1, <2>2, <1>2
  <2> QED
    BY <2>1, <2>3, <1>1, <1>2 DEF Earlier
<1> QED
  BY <1>3, <1>4 DEF c

\* Moving the head of one sequence to the end of the other moves nothing in
\* the two together.
LEMMA ShiftHead ==
    ASSUME NEW S, NEW q \in Seq(S), NEW r \in Seq(S), r # <<>>
    PROVE  Append(q, Head(r)) \o Tail(r) = q \o r
<1>1. /\ Head(r) \in S /\ Head(r) = r[1] /\ Tail(r) \in Seq(S)
      /\ Len(Tail(r)) = Len(r) - 1
      /\ \A i \in 1 .. Len(Tail(r)) : Tail(r)[i] = r[i + 1]
  BY HeadTailProperties
<1>2. /\ Append(q, Head(r)) \in Seq(S)
      /\ Len(Append(q, Head(r))) = Len(q) + 1
      /\ \A i \in 1 .. Len(q) : Append(q, Head(r))[i] = q[i]
      /\ Append(q, Head(r))[Len(q) + 1] = r[1]
  BY <1>1, AppendProperties
<1>3. Len(q) \in Nat /\ Len(r) \in Nat /\ Len(r) >= 1
  BY LenProperties, EmptySeq
<1> DEFINE a == Append(q, Head(r))
           t == Tail(r)
<1> HIDE DEF a, t
<1>4. /\ a \o t \in Seq(S) /\ Len(a \o t) = Len(q) + Len(r)
      /\ \A i \in 1 .. Len(q) + Len(r) :
            (a \o t)[i] = IF i <= Len(q) + 1 THEN a[i] ELSE t[i - (Len(q) + 1)]
  <2>1. /\ a \o t \in Seq(S) /\ Len(a \o t) = Len(a) + Len(t)
        /\ \A i \in 1 .. Len(a) + Len(t) :
              (a \o t)[i] = IF i <= Len(a) THEN a[i] ELSE t[i - Len(a)]
    BY <1>1, <1>2, ConcatProperties DEF a, t
  <2>2. Len(a) = Len(q) + 1 /\ Len(a) + Len(t) = Len(q) + Len(r)
    BY <1>1, <1>2, <1>3 DEF a, t
  <2> QED
    BY <2>1, <2>2
<1>5. /\ q \o r \in Seq(S) /\ Len(q \o r) = Len(q) + Len(r)
      /\ \A i \in 1 .. Len(q) + Len(r) :
            (q \o r)[i] = IF i <= Len(q) THEN q[i] ELSE r[i - Len(q)]
  BY ConcatProperties
<1>6. ASSUME NEW i \in 1 .. Len(q) + Len(r)
      PROVE  (a \o t)[i] = (q \o r)[i]
  <2>1. CASE i <= Len(q)
    BY <2>1, <1>2, <1>3, <1>4, <1>5 DEF a
  <2>2. CASE i = Len(q) + 1
    BY <2>2, <1>2, <1>3, <1>4, <1>5 DEF a
  <2>3. CASE i > Len(q) + 1
    <3>1. /\ i - (Len(q) + 1) \in 1 .. Len(t)
          /\ i - (Len(q) + 1) + 1 = i - Len(q)
      BY <2>3, <1>1, <1>3 DEF t
    <3>2. t[i - (Len(q) + 1)] = r[i - Len(q)]
      BY <3>1, <1>1 DEF t
    <3> QED
      BY <3>2, <2>3, <1>3, <1>4, <1>5
  <2>4. i <= Len(q) \/ i = Len(q) + 1 \/ i > Len(q) + 1
    BY <1>3
  <2> QED
    BY <2>1, <2>2, <2>3, <2>4
<1>7. a \o t = q \o r
  BY <1>4, <1>5, <1>6, SeqEqual
<1> QED
  BY <1>7 DEF a, t

\* Where the listeners are, and the order they run in: inductive together.
ListenerInv == ListenerLedger /\ NotifiedInOrder

LEMMA InitListenerInv == Init => ListenerInv
<1> SUFFICES ASSUME Init PROVE ListenerInv
  OBVIOUS
<1>1. ToSet(<<>>) = {} /\ IsInjective(<<>>)
  BY DEF ToSet, IsInjective
<1>2. <<>> \o <<>> = <<>>
  BY ConcatEmptySeq, EmptySeq
<1>3. ListenerLedger
  BY <1>1, <1>2 DEF Init, ListenerLedger
<1>4. NotifiedInOrder
  BY DEF Init, NotifiedInOrder
<1> QED
  BY <1>3, <1>4 DEF ListenerInv

\* A step that runs, adds or captures no listener, and turns to another
\* starter only when none is waited for.
LEMMA QuietStep ==
    ASSUME ListenerInv, UNCHANGED <<started, listenerVars, pending>>,
           \/ pending = <<>>
           \/ cur' = cur /\ pc' \notin {"setup", "next", "starting"}
    PROVE  ListenerInv'
<1>1. ListenerLedger'
  BY DEF ListenerInv, ListenerLedger, listenerVars
<1>2. NotifiedInOrder'
  <2> SUFFICES ASSUME NEW s \in started
               PROVE  (IF s = cur' THEN pending ELSE <<>>)
                        = (IF s = cur THEN pending ELSE <<>>)
    BY DEF ListenerInv, NotifiedInOrder, listenerVars
  <2> QED
    OBVIOUS
<1> QED
  BY <1>1, <1>2 DEF ListenerInv

\* No step of the controller disturbs it.
LEMMA StepListenerInv == IndInv /\ ListenerInv /\ [Next]_vars => ListenerInv'
<1> SUFFICES ASSUME IndInv, ListenerInv, [Next]_vars PROVE ListenerInv'
  OBVIOUS
<1>1. TypeOK /\ ControlState /\ Ledger /\ ListenerLedger /\ NotifiedInOrder
  BY DEF IndInv, ListenerInv
<1>2. pc \in {"setup", "next", "starting"} => pending = <<>>
  BY <1>1 DEF ListenerLedger
<1>3. /\ ran \in Seq(Listener) /\ pending \in Seq(Listener)
      /\ \A s \in Starter : listeners[s] \in Seq(Listener)
      /\ started \subseteq Starter
  BY <1>1 DEF TypeOK
<1>4. ToSet(<<>>) = {} /\ IsInjective(<<>>)
  BY DEF ToSet, IsInjective
<1>5. ran \o <<>> = ran
  BY <1>3, ConcatEmptySeq
<1>6. ASSUME \/ \E s \in Starter : MainRegister(s)
             \/ \E g \in Registrar, s \in Starter : Call(g, s)
             \/ \E g \in Registrar : Enter(g)
             \/ \E s \in Starter, p \in Priority : SetPriority(s, p)
             \/ UseAfterStart \/ Panic \/ Terminated \/ UNCHANGED vars
      PROVE  ListenerInv'
  <2>1. UNCHANGED <<started, listenerVars, pending, cur, pc>>
    BY <1>6 DEF MainRegister, Call, Enter, SetPriority, UseAfterStart, Panic,
                Terminated, mainVars, listenerVars, vars
  <2> QED
    BY <2>1, <1>2, QuietStep
<1>7. ASSUME Start \/ StartNext \/ StartNextEmpty \/ StartFails
             \/ ListenerFails \/ Notified \/ Exit
      PROVE  ListenerInv'
  <2>1. UNCHANGED <<started, listenerVars, pending>>
    BY <1>7 DEF Start, StartNext, StartNextEmpty, StartFails, ListenerFails,
                Notified, Exit
  <2>2. \/ pending = <<>>
        \/ cur' = cur /\ pc' \notin {"setup", "next", "starting"}
    BY <1>2, <1>7 DEF Start, StartNext, StartNextEmpty, StartFails,
                      ListenerFails, Notified, Exit
  <2> QED
    BY <2>1, <2>2, QuietStep
<1>8. ASSUME NEW t \in Starter, NEW l \in Listener, OnStarted(t, l)
      PROVE  ListenerInv'
  <2>1. /\ \A s \in Starter : l \notin ToSet(listeners[s])
        /\ UNCHANGED <<started, pc, cur, pending, ran>>
        /\ late' = IF t \in started THEN late \cup {l} ELSE late
        /\ \A s \in Starter :
             listeners'[s] = IF s = t THEN Append(listeners[t], l)
                             ELSE listeners[s]
    BY <1>1, <1>8 DEF OnStarted, mainVars, TypeOK
  <2>2. /\ ToSet(Append(listeners[t], l)) = ToSet(listeners[t]) \cup {l}
        /\ IsInjective(Append(listeners[t], l))
    BY <2>1, <1>1, <1>3, AppendNew DEF ListenerLedger
  <2>3. ListenerLedger'
    <3>1. \A s \in Starter : IsInjective(listeners'[s])
      BY <2>1, <2>2, <1>1 DEF ListenerLedger
    <3>2. \A s, u \in Starter :
            s # u => ToSet(listeners'[s]) \cap ToSet(listeners'[u]) = {}
      BY <2>1, <2>2, <1>1 DEF ListenerLedger
    <3>3. \A k \in ToSet(ran) \cup late' :
            \E s \in started : k \in ToSet(listeners'[s])
      <4>1. \A s \in Starter : ToSet(listeners[s]) \subseteq ToSet(listeners'[s])
        BY <2>1, <2>2
      <4>2. l \in ToSet(listeners'[t])
        BY <2>1, <2>2
      <4> QED
        BY <4>1, <4>2, <2>1, <1>1, <1>3 DEF ListenerLedger
    <3>4. pending # <<>> =>
            cur \in started /\ ToSet(pending) \subseteq ToSet(listeners'[cur])
      BY <2>1, <2>2, <1>1, <1>3 DEF ListenerLedger
    <3>5. ToSet(ran') = ToSet(ran) /\ ToSet(pending') = ToSet(pending)
          /\ ran' \o pending' = ran \o pending
      BY <2>1
    <3> QED
      BY <3>1, <3>2, <3>3, <3>4, <3>5, <2>1, <1>1 DEF ListenerLedger
  <2>4. NotifiedInOrder'
    <3> SUFFICES ASSUME NEW s \in started
                 PROVE  LET heard  == ran \o (IF s = cur THEN pending ELSE <<>>)
                            inTime == ToSet(listeners'[s]) \ late'
                        IN  /\ IsInjective(heard)
                            /\ ToSet(heard) \cap ToSet(listeners'[s]) = inTime
                            /\ \A j, k \in inTime :
                                  Earlier(listeners'[s], j, k)
                                    => Earlier(heard, j, k)
      BY <2>1 DEF NotifiedInOrder
    <3> DEFINE heard == ran \o (IF s = cur THEN pending ELSE <<>>)
    <3>1. /\ IsInjective(heard)
          /\ ToSet(heard) \cap ToSet(listeners[s]) = ToSet(listeners[s]) \ late
          /\ \A j, k \in ToSet(listeners[s]) \ late :
                Earlier(listeners[s], j, k) => Earlier(heard, j, k)
      BY <1>1 DEF NotifiedInOrder
    <3>2. ToSet(heard) = ToSet(ran) \cup (IF s = cur THEN ToSet(pending) ELSE {})
      <4>1. ToSet(ran \o pending) = ToSet(ran) \cup ToSet(pending)
        BY <1>3, ConcatParts
      <4> QED
        BY <4>1, <1>5
    <3> HIDE DEF heard
    <3>3. s \in Starter
      BY <1>3
    <3>4. CASE s # t
      <4>1. listeners'[s] = listeners[s] /\ l \notin ToSet(listeners[s])
        BY <3>3, <3>4, <2>1
      <4> QED
        BY <4>1, <3>1, <2>1 DEF heard
    <3>5. CASE s = t
      <4>1. late' = late \cup {l} /\ listeners'[s] = Append(listeners[s], l)
        BY <3>3, <3>5, <2>1
      <4>2. ToSet(listeners'[s]) = ToSet(listeners[s]) \cup {l}
        BY <4>1, <3>5, <2>2
      <4>3. l \notin ToSet(heard)
        <5>1. \A k \in ToSet(ran) : \E u \in Starter : k \in ToSet(listeners[u])
          BY <1>1, <1>3 DEF ListenerLedger
        <5>2. s = cur => \A k \in ToSet(pending) : k \in ToSet(listeners[cur])
          BY <1>1, <1>4 DEF ListenerLedger
        <5> QED
          BY <5>1, <5>2, <3>2, <3>3, <2>1
      <4>4. ToSet(listeners'[s]) \ late' = ToSet(listeners[s]) \ late
        BY <4>1, <4>2, <2>1, <3>3
      <4>5. \A j, k \in ToSet(listeners[s]) \ late :
               Earlier(listeners'[s], j, k) => Earlier(listeners[s], j, k)
        BY <4>1, <1>3, <2>1, <3>3, AppendKeepsOrder
      <4>6. ToSet(heard) \cap ToSet(listeners'[s]) = ToSet(listeners[s]) \ late
        BY <4>2, <4>3, <3>1
      <4> QED
        BY <4>4, <4>5, <4>6, <3>1 DEF heard
    <3> QED
      BY <3>4, <3>5
  <2> QED
    BY <2>3, <2>4 DEF ListenerInv
<1>9. CASE StartReturns
  <2>1. /\ pc = "starting" /\ pc' = "notifying" /\ pending = <<>>
        /\ cur \in Starter /\ cur \notin started
        /\ started' = started \cup {cur} /\ pending' = listeners[cur]
        /\ UNCHANGED <<cur, listeners, ran, late>>
    BY <1>1, <1>2, <1>9 DEF StartReturns, listenerVars, TypeOK, Ledger
  <2>2. /\ ToSet(listeners[cur]) \cap ToSet(ran) = {}
        /\ ToSet(listeners[cur]) \cap late = {}
    BY <2>1, <1>1, <1>3 DEF ListenerLedger
  <2>3. IsInjective(ran)
    BY <2>1, <1>1, <1>5 DEF ListenerLedger
  <2>4. /\ IsInjective(ran \o listeners[cur])
        /\ ToSet(ran \o listeners[cur]) = ToSet(ran) \cup ToSet(listeners[cur])
        /\ \A j, k : Earlier(listeners[cur], j, k)
                       => Earlier(ran \o listeners[cur], j, k)
    BY <2>1, <2>2, <2>3, <1>1, <1>3, ConcatParts DEF ListenerLedger
  <2>5. ListenerLedger'
    BY <2>1, <2>4, <1>1 DEF ListenerLedger
  <2>6. NotifiedInOrder'
    <3> SUFFICES ASSUME NEW s \in started'
                 PROVE  LET heard  == ran \o (IF s = cur THEN listeners[cur]
                                              ELSE <<>>)
                            inTime == ToSet(listeners[s]) \ late
                        IN  /\ IsInjective(heard)
                            /\ ToSet(heard) \cap ToSet(listeners[s]) = inTime
                            /\ \A j, k \in inTime :
                                  Earlier(listeners[s], j, k)
                                    => Earlier(heard, j, k)
      BY <2>1 DEF NotifiedInOrder
    <3>1. CASE s = cur
      BY <3>1, <2>2, <2>4
    <3>2. CASE s # cur
      BY <3>2, <2>1, <1>1 DEF NotifiedInOrder
    <3> QED
      BY <3>1, <3>2
  <2> QED
    BY <2>5, <2>6 DEF ListenerInv
<1>10. CASE ListenerReturns
  <2> DEFINE h == Head(pending)
  <2>1. /\ pending # <<>> /\ pc' = "notifying"
        /\ ran' = Append(ran, h) /\ pending' = Tail(pending)
        /\ UNCHANGED <<started, cur, listeners, late>>
    BY <1>10 DEF ListenerReturns
  <2>2. ran' \o pending' = ran \o pending
    BY <2>1, <1>3, ShiftHead
  <2>3. /\ cur \in started /\ ToSet(pending) \subseteq ToSet(listeners[cur])
        /\ IsInjective(ran \o pending)
    BY <2>1, <1>1 DEF ListenerLedger
  <2>4. /\ IsInjective(pending)
        /\ ToSet(ran \o pending) = ToSet(ran) \cup ToSet(pending)
    BY <2>3, <1>3, ConcatParts
  <2>5. /\ h \in Listener /\ h \in ToSet(pending)
        /\ Tail(pending) \in Seq(Listener)
        /\ ToSet(Tail(pending)) = ToSet(pending) \ {h}
    BY <2>1, <2>4, <1>3, TailOfInjective
  <2>6. /\ Append(ran, h) \in Seq(Listener)
        /\ ToSet(Append(ran, h)) = ToSet(ran) \cup {h}
        /\ \A j, k : Earlier(ran, j, k) => Earlier(Append(ran, h), j, k)
    BY <2>5, <1>3, AppendNew, AppendKeepsOrder
  <2>7. IsInjective(Append(ran, h))
    BY <2>1, <2>2, <2>3, <2>5, <2>6, ConcatParts
  <2> HIDE DEF h
  <2>8. ListenerLedger'
    <3>1. \A k \in ToSet(ran') \cup late :
             \E s \in started : k \in ToSet(listeners[s])
      BY <2>1, <2>3, <2>5, <2>6, <1>1 DEF ListenerLedger
    <3> QED
      BY <3>1, <2>1, <2>2, <2>3, <2>5, <1>1 DEF ListenerLedger
  <2>9. NotifiedInOrder'
    <3> SUFFICES ASSUME NEW s \in started
                 PROVE  LET heard  == ran' \o (IF s = cur THEN pending'
                                               ELSE <<>>)
                            inTime == ToSet(listeners[s]) \ late
                        IN  /\ IsInjective(heard)
                            /\ ToSet(heard) \cap ToSet(listeners[s]) = inTime
                            /\ \A j, k \in inTime :
                                  Earlier(listeners[s], j, k)
                                    => Earlier(heard, j, k)
      BY <2>1 DEF NotifiedInOrder
    <3>1. CASE s = cur
      BY <3>1, <2>2, <1>1 DEF NotifiedInOrder
    <3>2. CASE s # cur
      <4>1. h \notin ToSet(listeners[s])
        BY <3>2, <2>3, <2>5, <1>1, <1>3 DEF ListenerLedger
      <4>2. ran' \o <<>> = Append(ran, h)
        BY <2>1, <2>6, ConcatEmptySeq
      <4>3. /\ ToSet(ran) \cap ToSet(listeners[s]) = ToSet(listeners[s]) \ late
            /\ \A j, k \in ToSet(listeners[s]) \ late :
                  Earlier(listeners[s], j, k) => Earlier(ran, j, k)
        BY <3>2, <1>1, <1>5 DEF NotifiedInOrder
      <4>4. ToSet(Append(ran, h)) \cap ToSet(listeners[s])
              = ToSet(listeners[s]) \ late
        BY <4>1, <4>3, <2>6
      <4>5. \A j, k \in ToSet(listeners[s]) \ late :
               Earlier(listeners[s], j, k) => Earlier(Append(ran, h), j, k)
        BY <4>3, <2>6
      <4> QED
        BY <3>2, <4>2, <4>4, <4>5, <2>7
    <3> QED
      BY <3>1, <3>2
  <2> QED
    BY <2>8, <2>9 DEF ListenerInv
<1> QED
  BY <1>6, <1>7, <1>8, <1>9, <1>10 DEF Next, MainStep

\* The listeners of a starter run once each, in the order of OnStarted, none
\* before its starter has started, and only those that came in time.
THEOREM ListenersInOrder == Spec => []NotifiedInOrder
<1>1. ListenerInv => NotifiedInOrder
  BY DEF ListenerInv
<1> QED
  BY <1>1, IndInvariant, InitListenerInv, StepListenerInv, PTL DEF Spec

-----------------------------------------------------------------------------
(***************************************************************************)
(* The refinement of StartOrder.                                           *)
(***************************************************************************)

\* What StartOrder calls the waiting starters is what the array holds.
LEMMA WaitingIsQueue == IndInv => Order!Waiting = ToSet(queue)
<1> SUFFICES ASSUME IndInv PROVE Order!Waiting = ToSet(queue)
  OBVIOUS
<1>1. /\ ToSet(registered) = ToSet(queue) \cup started \cup ({cur} \ {None})
      /\ ToSet(queue) \cap (started \cup {cur}) = {}
  BY DEF IndInv, Ledger
<1> QED
  BY <1>1 DEF Order!Waiting, Order!ToSet, ToSet

\* The head of the array comes first among the waiting starters.
LEMMA HeadComesFirst ==
    ASSUME IndInv, queue # <<>>, NEW t \in ToSet(queue) \ {Head(queue)}
    PROVE  Order!Precedes(Head(queue), t)
<1>1. queue \in Seq(Starter) /\ queue # <<>>
  BY DEF IndInv, TypeOK
<1>2. /\ Head(queue) = queue[1] /\ DOMAIN queue = 1 .. Len(queue)
      /\ Len(queue) \in Nat
  BY <1>1, LenProperties
<1>3. PICK j \in DOMAIN queue : queue[j] = t
  BY DEF ToSet
<1>4. 1 \in DOMAIN queue /\ 1 < j
  BY <1>2, <1>3
<1>5. \/ prio[queue[1]] > prio[queue[j]]
      \/ /\ prio[queue[1]] = prio[queue[j]]
         /\ Earlier(registered, queue[1], queue[j])
  BY <1>3, <1>4 DEF IndInv, QueueOrder
<1> QED
  BY <1>2, <1>3, <1>5 DEF Order!Precedes, Order!Earlier, Earlier

\* A successful registration is an arrival.
LEMMA RegisterArrives ==
    ASSUME IndInv, NEW s \in Starter, Register(s), UNCHANGED <<mainVars, prio>>
    PROVE  Order!Arrive(s) \/ UNCHANGED Order!vars
<1>1. outcome # "ok"
  BY DEF Register, IndInv, ControlState
<1>2. CASE Enqueue(s)
  BY <1>1, <1>2 DEF Enqueue, Order!Arrive, Order!ToSet, ToSet, mainVars
<1>3. CASE RejectDuplicate(s)
  BY <1>3 DEF RejectDuplicate, Order!vars, mainVars
<1> QED
  BY <1>2, <1>3 DEF Register

\* Every step of the controller is a step of StartOrder or none.
LEMMA StepRefines == IndInv /\ [Next]_vars => [Order!Next]_(Order!vars)
<1> SUFFICES ASSUME IndInv, [Next]_vars
             PROVE  Order!Next \/ UNCHANGED Order!vars
  OBVIOUS
<1>0. TypeOK /\ ControlState /\ Ledger
  BY DEF IndInv
<1>1. ASSUME NEW s \in Starter, MainRegister(s)
      PROVE  Order!Next \/ UNCHANGED Order!vars
  BY <1>1, RegisterArrives DEF MainRegister, Order!Next
<1>2. ASSUME NEW g \in Registrar, Enter(g)
      PROVE  Order!Next \/ UNCHANGED Order!vars
  <2>1. call[g] \in Starter
    BY <1>0, <1>2 DEF TypeOK, Enter
  <2> QED
    BY <1>2, <2>1, RegisterArrives DEF Enter, Order!Next
<1>3. ASSUME NEW s \in Starter, NEW p \in Priority, SetPriority(s, p)
      PROVE  Order!Next \/ UNCHANGED Order!vars
  <2>1. Order!Reprioritise(s, p)
    BY <1>3
       DEF SetPriority, Order!Reprioritise, Order!ToSet, ToSet, mainVars
  <2> QED
    BY <2>1 DEF Order!Next
<1>4. CASE StartNext
  <2>1. queue # <<>> /\ queue \in Seq(Starter) /\ IsInjective(queue)
    BY <1>0, <1>4 DEF StartNext, TypeOK, Ledger
  <2>2. Head(queue) \in ToSet(queue) /\ Head(queue) \in Starter
    BY <2>1, TailOfInjective
  <2>3. cur = None /\ outcome = "none"
    BY <1>0, <1>4 DEF StartNext, ControlState, TypeOK
  <2>4. \A t \in ToSet(queue) \ {Head(queue)} :
           Order!Precedes(Head(queue), t)
    BY <2>1, HeadComesFirst
  <2>5. Head(queue) \notin started /\ None \notin started
    BY <1>0, <2>2 DEF Ledger, TypeOK
  <2>6. /\ UNCHANGED <<registered, prio, outcome, started>>
        /\ cur' = Head(queue)
    BY <1>4 DEF StartNext
  <2>7. Order!Begin(Head(queue))
    BY <2>2, <2>3, <2>4, <2>5, <2>6, WaitingIsQueue DEF Order!Begin
  <2> QED
    BY <2>2, <2>7 DEF Order!Next
<1>5. CASE StartNextEmpty
  <2>1. cur = None /\ outcome = "none"
    BY <1>0, <1>5 DEF StartNextEmpty, ControlState, TypeOK
  <2>2. ToSet(queue) = {}
    BY <1>5 DEF StartNextEmpty, ToSet
  <2>3. Order!Close
    BY <1>5, <2>1, <2>2, WaitingIsQueue DEF StartNextEmpty, Order!Close
  <2> QED
    BY <2>3 DEF Order!Next
<1>6. CASE StartReturns
  BY <1>6 DEF StartReturns, Order!vars
<1>7. CASE StartFails \/ ListenerFails
  <2>1. cur # None /\ outcome = "none"
    BY <1>0, <1>7 DEF StartFails, ListenerFails, ControlState, TypeOK
  <2>2. Order!Fail
    BY <1>7, <2>1 DEF StartFails, ListenerFails, Order!Fail
  <2> QED
    BY <2>2 DEF Order!Next
<1>8. CASE Notified
  <2>1. cur # None /\ outcome = "none" /\ cur \in started
    BY <1>0, <1>8 DEF Notified, ControlState, TypeOK
  <2>2. started \ {None} = (started \ {cur}) \cup {cur}
    BY <1>0, <2>1 DEF TypeOK
  <2>3. Order!Succeed
    BY <1>8, <2>1, <2>2 DEF Notified, Order!Succeed
  <2> QED
    BY <2>3 DEF Order!Next
<1>9. ASSUME \/ \E g \in Registrar, s \in Starter : Call(g, s)
             \/ \E s \in Starter, l \in Listener : OnStarted(s, l)
             \/ Start \/ ListenerReturns \/ Exit \/ UseAfterStart \/ Panic
             \/ UNCHANGED vars
      PROVE  UNCHANGED Order!vars
  BY <1>9 DEF Call, OnStarted, Start, ListenerReturns, Exit, UseAfterStart, Panic,
              vars, mainVars, listenerVars, Order!vars
<1> QED
  BY <1>1, <1>2, <1>3, <1>4, <1>5, <1>6, <1>7, <1>8, <1>9
     DEF Next, MainStep, Terminated

\* The start controller implements StartOrder: starters run one at a time, by
\* priority and then by order of registration, and a successful startup leaves
\* nobody out.
THEOREM Refinement == Spec => ImplementsOrder
<1>1. Init => Order!Init
  BY DEF Init, Order!Init
<1> QED
  BY <1>1, StepRefines, IndInvariant, PTL
     DEF Spec, ImplementsOrder, Order!Spec

=============================================================================
