---------------------------- MODULE HelpersProofs ----------------------------
(***************************************************************************)
(* Proofs about RedisKey, Sender and Trees, which share nothing. Of        *)
(* Columns nothing is proved: what it does is a computation on data.       *)
(***************************************************************************)
EXTENDS RedisKey, Sender, Trees, TLAPS

-----------------------------------------------------------------------------
(***************************************************************************)
(* The redis helpers, against expiry and other callers                     *)
(***************************************************************************)
\* A key that is there has time left, a missing one has none.
Lives == value = None <=> ttl = 0

\* Nobody expects more of the key than it has.
Outlives == \A c \in Caller : fresh[c] <= ttl

\* Between GET and EXPIRE a caller has a value, and knows of a key gone since.
GotValue ==
    \A c \in Caller : at[c] = "got" => str[c] # Empty /\ (value = None => missed[c])

KeyInv == KeyTypeOK /\ Lives /\ Outlives /\ GotValue /\ EmptyWasMissing

LEMMA InitKeyInv == KeyInit => KeyInv
BY ValAssumption, TimeAssumption
   DEF KeyInit, KeyInv, KeyTypeOK, Lives, Outlives, GotValue, EmptyWasMissing

LEMMA TickKeyInv == KeyInv /\ Tick => KeyInv'
<1> SUFFICES ASSUME KeyInv, Tick PROVE KeyInv'
  OBVIOUS
<1> USE DEF KeyInv, Tick
<1>1. KeyTypeOK'
  <2>1. missed' \in [Caller -> BOOLEAN]
    BY Zenon
  <2>2. ttl' \in 0 .. Time /\ value' \in Val \cup {None}
    BY TimeAssumption DEF KeyTypeOK
  <2>3. fresh' \in [Caller -> 0 .. Time]
    BY TimeAssumption DEF KeyTypeOK
  <2> QED
    BY <2>1, <2>2, <2>3 DEF KeyTypeOK
<1>2. Lives'
  BY ValAssumption DEF KeyTypeOK, Lives
<1>3. Outlives'
  BY DEF KeyTypeOK, Outlives
<1>4. GotValue'
  BY DEF KeyTypeOK, GotValue
<1>5. EmptyWasMissing'
  BY DEF KeyTypeOK, EmptyWasMissing
<1> QED
  BY <1>1, <1>2, <1>3, <1>4, <1>5

LEMMA SetKeyInv == ASSUME NEW v \in Val PROVE KeyInv /\ SetKey(v) => KeyInv'
<1> SUFFICES ASSUME KeyInv, SetKey(v) PROVE KeyInv'
  OBVIOUS
<1> USE DEF KeyInv, SetKey
<1>1. KeyTypeOK'
  BY TimeAssumption DEF KeyTypeOK
<1>2. Lives'
  BY ValAssumption, TimeAssumption DEF KeyTypeOK, Lives
<1>3. Outlives'
  BY DEF KeyTypeOK, Outlives
<1>4. GotValue'
  BY ValAssumption DEF KeyTypeOK, GotValue
<1>5. EmptyWasMissing'
  BY DEF KeyTypeOK, EmptyWasMissing
<1> QED
  BY <1>1, <1>2, <1>3, <1>4, <1>5

LEMMA GetKeyInv == ASSUME NEW c \in Caller PROVE KeyInv /\ Get(c) => KeyInv'
<1> SUFFICES ASSUME KeyInv, Get(c) PROVE KeyInv'
  OBVIOUS
<1> USE DEF KeyInv, Get
<1>1. KeyTypeOK'
  <2>1. missed' \in [Caller -> BOOLEAN]
    <3> DEFINE gone == value \in {None, Empty}
    <3>1. gone \in BOOLEAN
      OBVIOUS
    <3>2. missed' = [missed EXCEPT ![c] = gone] /\ missed \in [Caller -> BOOLEAN]
      BY DEF KeyTypeOK
    <3> HIDE DEF gone
    <3> QED
      BY ONLY <3>1, <3>2, Zenon
  <2>2. answer' \in [Caller -> [str : Val, err : BOOLEAN]]
    <3> DEFINE err == value = None
    <3>1. err \in BOOLEAN
      OBVIOUS
    <3>2. [str |-> Empty, err |-> err] \in [str : Val, err : BOOLEAN]
      BY <3>1, ValAssumption
    <3>3. answer' = answer \/ answer' = [answer EXCEPT ![c] = [str |-> Empty, err |-> err]]
      BY DEF Returns
    <3> HIDE DEF err
    <3> QED
      BY <3>2, <3>3 DEF KeyTypeOK
  <2>3. at' \in [Caller -> {"idle", "got"}] /\ str' \in [Caller -> Val]
    BY DEF KeyTypeOK, Returns
  <2> QED
    BY <2>1, <2>2, <2>3 DEF KeyTypeOK, key
<1>2. Lives' /\ Outlives'
  BY DEF Lives, Outlives, key
<1>3. GotValue'
  BY ValAssumption DEF KeyTypeOK, GotValue, Returns, key
<1>4. EmptyWasMissing'
  BY DEF KeyTypeOK, EmptyWasMissing, Returns
<1> QED
  BY <1>1, <1>2, <1>3, <1>4

LEMMA ExpireKeyInv == ASSUME NEW c \in Caller PROVE KeyInv /\ Expire(c) => KeyInv'
<1> SUFFICES ASSUME KeyInv, Expire(c) PROVE KeyInv'
  OBVIOUS
<1> USE DEF KeyInv, Expire
<1>1. KeyTypeOK'
  BY ValAssumption, TimeAssumption DEF KeyTypeOK, Returns, Returned
<1>2. Lives'
  BY ValAssumption, TimeAssumption DEF KeyTypeOK, Lives
<1>3. Outlives'
  BY ValAssumption, TimeAssumption DEF KeyTypeOK, Lives, Outlives, Returned
<1>4. GotValue'
  BY DEF KeyTypeOK, GotValue, Returns
<1>5. EmptyWasMissing'
  BY DEF KeyTypeOK, GotValue, EmptyWasMissing, Returns, Returned
<1> QED
  BY <1>1, <1>2, <1>3, <1>4, <1>5

LEMMA BreaksKeyInv == ASSUME NEW c \in Caller PROVE KeyInv /\ Breaks(c) => KeyInv'
<1> SUFFICES ASSUME KeyInv, Breaks(c) PROVE KeyInv'
  OBVIOUS
<1> USE DEF KeyInv, Breaks
<1>1. KeyTypeOK'
  BY ValAssumption, TimeAssumption DEF KeyTypeOK, Returns, key
<1>2. Lives'
  BY ValAssumption, TimeAssumption DEF KeyTypeOK, Lives, key
<1>3. Outlives'
  BY ValAssumption, TimeAssumption DEF KeyTypeOK, Outlives, key
<1>4. GotValue'
  BY DEF KeyTypeOK, GotValue, Returns, key
<1>5. EmptyWasMissing'
  BY DEF KeyTypeOK, EmptyWasMissing, Returns
<1> QED
  BY <1>1, <1>2, <1>3, <1>4, <1>5

LEMMA StepKeyInv == KeyInv /\ [KeyNext]_keyVars => KeyInv'
<1> SUFFICES ASSUME KeyInv, [KeyNext]_keyVars PROVE KeyInv'
  OBVIOUS
<1>1. CASE KeyNext
  BY <1>1, TickKeyInv, SetKeyInv, GetKeyInv, ExpireKeyInv, BreaksKeyInv DEF KeyNext
<1>2. CASE UNCHANGED keyVars
  BY <1>2 DEF keyVars, key, KeyInv, KeyTypeOK, Lives, Outlives, GotValue, EmptyWasMissing
<1> QED
  BY <1>1, <1>2

\* The inductive invariant of the redis helpers holds in every reachable state.
THEOREM KeyInductive == KeySpec => []KeyInv
BY InitKeyInv, StepKeyInv, PTL DEF KeySpec

\* RedisGetAndRefreshExpireTime returns the empty string without an error only
\* if the key was missing or empty at some moment of the call.
THEOREM EmptyIsHonest == KeySpec => []EmptyWasMissing
<1>1. KeyInv => EmptyWasMissing
  BY DEF KeyInv
<1> QED
  BY <1>1, KeyInductive, PTL

\* A key whose value RedisGetAndRefreshExpireTime has returned stays for the
\* time that was asked for, whatever that is.
THEOREM KeyRefreshed == KeySpec => []RefreshedStays
<1>1. KeyInv => RefreshedStays
  BY DEF KeyInv, KeyTypeOK, Lives, Outlives, RefreshedStays
<1> QED
  BY <1>1, KeyInductive, PTL

-----------------------------------------------------------------------------
(***************************************************************************)
(* The sender and its shared response                                      *)
(***************************************************************************)
SendTypeOK ==
    /\ code \in Codes \cup {"none"}
    /\ pc \in [Call -> Ended \cup {"answered", "decoded"}]
    /\ body \in [Call -> Bodies]

\* The code of a call that was decoded stays in the map until it looks, unless
\* another decoding gets in its way.
OwnCode ==
    \A r \in Call : pc[r] = "decoded" /\ r \notin disturbed =>
        (body[r] \in Codes => code = body[r])

\* The map has the code of a success only if some answer had it.
ZeroSaid == code = "0" => zero

SendInv == SendTypeOK /\ OwnCode /\ ZeroSaid /\ OwnVerdict /\ SuccessWasSaid

LEMMA InitSendInv == SenderInit => SendInv
BY DEF SenderInit, SendInv, SendTypeOK, OwnCode, ZeroSaid, OwnVerdict,
       SuccessWasSaid, Codes, Bodies, Ended

LEMMA PostSendInv ==
    ASSUME NEW r \in Call, NEW b \in Bodies, SendInv,
           Post(r, b) \/ PostFails(r)
    PROVE  SendInv'
<1> USE DEF SendInv
<1>1. /\ UNCHANGED <<code, zero>> /\ disturbed' = disturbed \ {r}
      /\ \/ pc' = [pc EXCEPT ![r] = "answered"] /\ body' = [body EXCEPT ![r] = b]
         \/ /\ pc' = [pc EXCEPT ![r] = "false"]
            /\ body' = [body EXCEPT ![r] = "no JSON"]
  BY DEF Post, PostFails, Goto
<1>2. SendTypeOK'
  BY <1>1 DEF SendTypeOK, Ended, Bodies
<1>3. OwnCode' /\ ZeroSaid'
  BY <1>1 DEF OwnCode, ZeroSaid, SendTypeOK
<1>4. OwnVerdict'
  BY <1>1 DEF OwnVerdict, SendTypeOK, Ended
<1>5. SuccessWasSaid'
  BY <1>1 DEF SuccessWasSaid, SendTypeOK
<1> QED
  BY <1>2, <1>3, <1>4, <1>5

LEMMA UnmarshalSendInv ==
    ASSUME NEW r \in Call, SendInv, Unmarshal(r)
    PROVE  SendInv'
<1> USE DEF SendInv, Unmarshal, Decode
<1>1. /\ pc' = [pc EXCEPT ![r] = "decoded"]
      /\ body[r] \in Codes => code' = body[r]
      /\ code' \in {body[r], code, "none"} /\ code' \in Codes \cup {"none"}
  BY DEF Decoded, Goto, SendTypeOK, Codes, Bodies
<1>2. SendTypeOK'
  BY <1>1 DEF SendTypeOK, Ended
<1>3. OwnCode'
  BY <1>1 DEF OwnCode, SendTypeOK
<1>4. ZeroSaid'
  <2>1. ASSUME code' = "0" PROVE zero \/ body[r] = "0"
    BY <1>1, <2>1 DEF ZeroSaid
  <2> QED
    BY <2>1 DEF ZeroSaid
<1>5. OwnVerdict'
  BY <1>1 DEF OwnVerdict, SendTypeOK, Ended
<1>6. SuccessWasSaid'
  <2>1. ASSUME NEW q \in Call, pc'[q] = "true" PROVE zero
    BY <1>1, <2>1 DEF SuccessWasSaid, SendTypeOK
  <2> QED
    BY <2>1 DEF SuccessWasSaid
<1> QED
  BY <1>2, <1>3, <1>4, <1>5, <1>6

LEMMA LookUpSendInv ==
    ASSUME NEW r \in Call, SendInv, LookUp(r)
    PROVE  SendInv'
BY DEF LookUp, Verdict, Goto, SendInv, SendTypeOK, OwnCode, ZeroSaid,
       OwnVerdict, SuccessWasSaid, Codes, Bodies, Ended

LEMMA CollideSendInv ==
    ASSUME NEW r \in Call, NEW q \in Call, SendInv, Collide(r, q)
    PROVE  SendInv'
BY DEF Collide, SendInv, SendTypeOK, OwnCode, ZeroSaid,
       OwnVerdict, SuccessWasSaid, Codes, Bodies, Ended

LEMMA AbortSendInv == SendInv /\ Abort => SendInv'
BY DEF Abort, SendInv, SendTypeOK, OwnCode, ZeroSaid, OwnVerdict,
       SuccessWasSaid, Codes, Bodies, Ended

LEMMA StepSendInv == SendInv /\ [SenderNext]_senderVars => SendInv'
<1> SUFFICES ASSUME SendInv, [SenderNext]_senderVars PROVE SendInv'
  OBVIOUS
<1>1. CASE \E r \in Call : (\E b \in Bodies : Post(r, b)) \/ PostFails(r)
  <2>1. "null" \in Bodies
    BY DEF Bodies
  <2> QED
    BY <1>1, <2>1, PostSendInv
<1>2. CASE \E r \in Call : Unmarshal(r) \/ LookUp(r) \/ \E q \in Call : Collide(r, q)
  BY <1>2, UnmarshalSendInv, LookUpSendInv, CollideSendInv
<1>3. CASE Abort
  BY <1>3, AbortSendInv
<1>4. CASE UNCHANGED senderVars
  BY <1>4 DEF senderVars, SendInv, SendTypeOK, OwnCode, ZeroSaid, OwnVerdict,
              SuccessWasSaid
<1> QED
  BY <1>1, <1>2, <1>3, <1>4 DEF SenderNext

\* The inductive invariant of the sender holds in every reachable state.
THEOREM SendInductive == SenderSpec => []SendInv
BY InitSendInv, StepSendInv, PTL DEF SenderSpec

\* For any number of calls of SendCode, one whose answer has a code reports that
\* code, unless another answer is decoded before it looks or beside it.
THEOREM VerdictIsOwn == SenderSpec => []OwnVerdict
<1>1. SendInv => OwnVerdict
  BY DEF SendInv
<1> QED
  BY <1>1, SendInductive, PTL

\* SendCode reports no success before the provider has reported one.
THEOREM SuccessIsSaid == SenderSpec => []SuccessWasSaid
<1>1. SendInv => SuccessWasSaid
  BY DEF SendInv
<1> QED
  BY <1>1, SendInductive, PTL

-----------------------------------------------------------------------------
(***************************************************************************)
(* TreeBuilder: for any ids, parents and number of nodes, in any order,    *)
(* the nodes are linked as their parents say, and none of a well-formed    *)
(* set of trees is lost.                                                   *)
(***************************************************************************)

\* Appending the latest node keeps a sequence in the order of arrival.
LEMMA AppendInOrder ==
    ASSUME NEW n \in Nat, NEW S \in SUBSET (1 .. n), NEW s \in Seq(1 .. n),
           InOrder(s, S)
    PROVE  InOrder(Append(s, n + 1), S \cup {n + 1})
<1> DEFINE t == Append(s, n + 1)
<1>1. /\ DOMAIN t = 1 .. Len(s) + 1
      /\ DOMAIN s = 1 .. Len(s)
      /\ Len(s) \in Nat
      /\ \A i \in DOMAIN s : t[i] = s[i] /\ s[i] \in 1 .. n
      /\ t[Len(s) + 1] = n + 1
    OBVIOUS
<1>2. {t[i] : i \in DOMAIN t} = {s[i] : i \in DOMAIN s} \cup {n + 1}
    <2>1. DOMAIN t = DOMAIN s \cup {Len(s) + 1}
        BY <1>1
    <2> QED BY <1>1, <2>1
<1>3. \A i, j \in DOMAIN t : i < j => t[i] < t[j]
    <2> SUFFICES ASSUME NEW i \in DOMAIN t, NEW j \in DOMAIN t, i < j
                 PROVE  t[i] < t[j]
        OBVIOUS
    <2>1. i \in DOMAIN s
        BY <1>1
    <2>2. CASE j \in DOMAIN s
        BY <1>1, <2>1, <2>2 DEF InOrder
    <2>3. CASE j = Len(s) + 1
        BY <1>1, <2>1, <2>3
    <2> QED BY <1>1, <2>2, <2>3
<1> QED BY <1>2, <1>3 DEF InOrder

\* What Append does, whatever the elements are.
LEMMA AppendFacts ==
    ASSUME NEW T, NEW s \in Seq(T), NEW e \in T
    PROVE  /\ Append(s, e) \in Seq(T)
           /\ Len(Append(s, e)) = Len(s) + 1
           /\ \A i \in 1 .. Len(s) : Append(s, e)[i] = s[i]
           /\ Append(s, e)[Len(s) + 1] = e
OBVIOUS

\* A sequence stays one over the same set when an element is replaced.
LEMMA ReplaceFacts ==
    ASSUME NEW T, NEW s \in Seq(T), NEW j \in 1 .. Len(s), NEW e \in T
    PROVE  /\ [s EXCEPT ![j] = e] \in Seq(T)
           /\ Len([s EXCEPT ![j] = e]) = Len(s)
           /\ \A i \in 1 .. Len(s) : [s EXCEPT ![j] = e][i] = IF i = j THEN e ELSE s[i]
OBVIOUS

\* A sequence over a set is one over every larger set.
LEMMA SeqWiden ==
    ASSUME NEW T, NEW U, T \subseteq U, NEW s \in Seq(T)
    PROVE  s \in Seq(U)
OBVIOUS

\* The elements of a sequence are of its set.
LEMMA SeqElements ==
    ASSUME NEW T, NEW s \in Seq(T)
    PROVE  \A i \in 1 .. Len(s) : s[i] \in T
OBVIOUS

\* What one call of Node does to the reference: its positions grow by one, a
\* node is the first of its id if none had it, and it is one more child.
LEMMA Arrival ==
    ASSUME IndInv, NEW id \in Id, NEW p \in Parent, Node(id, p),
           NEW n, n = Len(arrived) + 1
    PROVE  /\ n \in Nat /\ n - 1 \in Nat
           /\ Positions' = Positions \cup {n}
           /\ Positions = 1 .. (n - 1)
           /\ arrived' \in Seq([id : Id, parent : Parent])
           /\ Len(arrived') = n
           /\ arrived'[n] = [id |-> id, parent |-> p]
           /\ \A m \in Positions : arrived'[m] = arrived[m]
           /\ \A m \in Positions : FirstOf(m)' <=> FirstOf(m)
           /\ FirstOf(n)' <=> node[id] = 0
           /\ \A k \in Key : ChildrenOf(k)' =
                                IF p = k THEN ChildrenOf(k) \cup {n} ELSE ChildrenOf(k)
           /\ Rootless' = IF p <= 0 THEN Rootless \cup {n} ELSE Rootless
<1> USE IdAssumption, ParentAssumption
<1>1. /\ n \in Nat /\ n - 1 \in Nat
      /\ Positions = 1 .. (n - 1)
      /\ arrived' = Append(arrived, [id |-> id, parent |-> p])
      /\ arrived' \in Seq([id : Id, parent : Parent])
      /\ Len(arrived') = n
    BY DEF IndInv, TypeOK, Node, Positions
<1>2. Positions' = 1 .. n /\ Positions' = Positions \cup {n}
    BY <1>1 DEF Positions
<1>3. /\ arrived'[n] = [id |-> id, parent |-> p]
      /\ \A m \in Positions : arrived'[m] = arrived[m]
    BY <1>1 DEF IndInv, TypeOK
<1>4. \A m \in Positions : FirstOf(m)' <=> FirstOf(m)
    BY <1>1, <1>2, <1>3 DEF FirstOf
<1>5. FirstOf(n)' <=> \A m \in Positions : arrived[m].id # id
    <2>1. \A m \in Positions : ~(n <= m)
        BY <1>1
    <2>2. FirstOf(n)' <=> \A m \in Positions' : arrived'[m].id = id => n <= m
        BY <1>3 DEF FirstOf
    <2>3. n <= n
        BY <1>1
    <2> QED BY <1>2, <1>3, <2>1, <2>2, <2>3
<1>6. FirstOf(n)' <=> node[id] = 0
    <2>1. id \in Key /\ node[id] \in {0} \cup Positions
        BY DEF Key, IndInv, TypeOK
    <2> QED BY <1>1, <1>5, <2>1 DEF IndInv, Cached
<1>7. \A k \in Key : ChildrenOf(k)' =
                        IF p = k THEN ChildrenOf(k) \cup {n} ELSE ChildrenOf(k)
    BY <1>2, <1>3 DEF ChildrenOf
<1>8. Rootless' = IF p <= 0 THEN Rootless \cup {n} ELSE Rootless
    BY <1>2, <1>3 DEF Rootless
<1> QED BY <1>1, <1>2, <1>3, <1>4, <1>6, <1>7, <1>8

-----------------------------------------------------------------------------
LEMMA InitIndInv == Init => IndInv
<1> SUFFICES ASSUME Init PROVE IndInv
    OBVIOUS
<1>1. Positions = {} /\ Len(arrived) = 0
    BY DEF Init, Positions
<1>2. TypeOK
    BY <1>1, MaxNodesAssumption DEF Init, TypeOK
<1>3. Cached
    BY <1>1 DEF Init, Cached, InOrder, ChildrenOf
<1>4. Linked
    BY <1>1 DEF Init, Linked, InOrder, Rootless, Build
<1> QED BY <1>2, <1>3, <1>4 DEF IndInv

\* The sequences of children while the node n is put in, before it is added to
\* its parent: its own are those that waited for it.
LEMMA NodesFacts ==
    ASSUME IndInv, NEW id \in Id, NEW p \in Parent, Node(id, p),
           NEW n, n = Len(arrived) + 1, NEW nodes, nodes = Append(children, Adopted(id))
    PROVE  /\ nodes \in Seq(Seq(Positions'))
           /\ Len(nodes) = n
           /\ \A m \in Positions : nodes[m] = children[m]
           /\ nodes[n] = Adopted(id)
           /\ Adopted(id) \in Seq(Positions)
           /\ \A m \in 1 .. n : nodes[m] \in Seq(Positions)
<1>1. /\ Positions' = Positions \cup {n}
      /\ Positions = 1 .. (n - 1)
      /\ n \in Nat /\ n - 1 \in Nat
    BY Arrival
<1>2. Adopted(id) \in Seq(Positions)
    BY DEF IndInv, TypeOK, Adopted, Key
<1>3. children \in Seq(Seq(Positions)) /\ Len(children) = n - 1
    BY <1>1 DEF IndInv, TypeOK
<1>4. Seq(Positions) \subseteq Seq(Positions')
    <2> SUFFICES ASSUME NEW s \in Seq(Positions) PROVE s \in Seq(Positions')
        OBVIOUS
    <2> QED BY <1>1, SeqWiden
<1> DEFINE T == Seq(Positions)
<1>5. children \in Seq(T) /\ Adopted(id) \in T
    BY <1>2, <1>3
<1> HIDE DEF T
<1>6. /\ nodes \in Seq(T)
      /\ Len(nodes) = n
      /\ \A i \in 1 .. (n - 1) : nodes[i] = children[i]
      /\ nodes[n] = Adopted(id)
    BY <1>1, <1>3, <1>5, AppendFacts
<1>7. \A m \in 1 .. n : nodes[m] \in T
    BY <1>6
<1>8. nodes \in Seq(Seq(Positions'))
    BY <1>4, <1>6, SeqWiden DEF T
<1> QED BY <1>1, <1>2, <1>6, <1>7, <1>8 DEF T

\* What Node changes, by types.
LEMMA NodeTypes ==
    ASSUME IndInv, NEW id \in Id, NEW p \in Parent, Node(id, p),
           NEW n, n = Len(arrived) + 1
    PROVE  TypeOK'
<1> DEFINE cached == IF node[id] = 0 THEN [node EXCEPT ![id] = n] ELSE node
           nodes == Append(children, Adopted(id))
<1> USE IdAssumption, ParentAssumption
<1>1. /\ n \in Nat /\ n - 1 \in Nat
      /\ Positions' = Positions \cup {n}
      /\ Positions = 1 .. (n - 1)
      /\ arrived' \in Seq([id : Id, parent : Parent])
      /\ Len(arrived') = n
    BY Arrival
<1>2. id \in Key /\ (p > 0 => p \in Key)
    BY DEF Key
<1>3. TypeOK
    BY DEF IndInv
<1>4. n <= MaxNodes
    BY <1>1, <1>3, MaxNodesAssumption DEF TypeOK, Node
<1>5. \A s \in Seq(Positions) : s \in Seq(Positions') /\ Append(s, n) \in Seq(Positions')
    BY <1>1
<1>6. cached \in [Key -> {0} \cup Positions']
    BY <1>1, <1>2, <1>3 DEF TypeOK
<1>7. /\ nodes \in Seq(Seq(Positions'))
      /\ Len(nodes) = n
      /\ \A m \in 1 .. n : nodes[m] \in Seq(Positions)
    BY NodesFacts
<1>8. node' = cached
    BY DEF Node
<1>9. roots' \in Seq(Positions')
    BY <1>3, <1>5 DEF TypeOK, Node
<1>10. waiting' \in [Key -> Seq(Positions')]
    BY <1>2, <1>3, <1>5 DEF TypeOK, Node, Postponed
<1>11. children' \in Seq(Seq(Positions')) /\ Len(children') = n
    <2>1. CASE p > 0 /\ cached[p] # 0
        <3>1. cached[p] \in 1 .. n
            BY <1>1, <1>2, <1>6, <2>1
        <3>2. Append(nodes[cached[p]], n) \in Seq(Positions')
            BY <1>5, <1>7, <3>1
        <3>3. children' = [nodes EXCEPT ![cached[p]] = Append(nodes[cached[p]], n)]
            <4>1. ~(p <= 0)
                BY <2>1
            <4> QED BY <2>1, <4>1, Zenon DEF Node
        <3> DEFINE T == Seq(Positions')
                   e == Append(nodes[cached[p]], n)
        <3>4. nodes \in Seq(T) /\ cached[p] \in 1 .. Len(nodes) /\ e \in T
            BY <1>7, <3>1, <3>2
        <3> HIDE DEF nodes, cached, T, e
        <3>5. /\ [nodes EXCEPT ![cached[p]] = e] \in Seq(T)
              /\ Len([nodes EXCEPT ![cached[p]] = e]) = Len(nodes)
            BY ONLY <3>4, ReplaceFacts
        <3> QED BY <1>7, <3>3, <3>5 DEF T, e
    <2>2. CASE ~(p > 0 /\ cached[p] # 0)
        BY <1>7, <2>2 DEF Node
    <2> QED BY <2>1, <2>2
<1> QED BY <1>1, <1>4, <1>6, <1>8, <1>9, <1>10, <1>11 DEF TypeOK

\* A call keeps the cache: the node it caches is the first of its id, and a
\* child whose parent is not there waits behind the others.
LEMMA NodeCached ==
    ASSUME IndInv, NEW id \in Id, NEW p \in Parent, Node(id, p),
           NEW n, n = Len(arrived) + 1
    PROVE  Cached'
<1> USE IdAssumption, ParentAssumption
<1>1. /\ n \in Nat /\ n - 1 \in Nat
      /\ Positions' = Positions \cup {n}
      /\ Positions = 1 .. (n - 1)
      /\ arrived'[n] = [id |-> id, parent |-> p]
      /\ \A m \in Positions : arrived'[m] = arrived[m]
      /\ \A m \in Positions : FirstOf(m)' <=> FirstOf(m)
      /\ FirstOf(n)' <=> node[id] = 0
      /\ \A k \in Key : ChildrenOf(k)' =
                            IF p = k THEN ChildrenOf(k) \cup {n} ELSE ChildrenOf(k)
    BY Arrival
<1>2. id \in Key /\ (p > 0 => p \in Key)
    BY DEF Key
<1>3. node' = IF node[id] = 0 THEN [node EXCEPT ![id] = n] ELSE node
    BY DEF Node
<1>4. /\ node \in [Key -> {0} \cup Positions]
      /\ waiting \in [Key -> Seq(Positions)]
      /\ \A k \in Key : k > 0
    BY DEF IndInv, TypeOK, Key
<1> SUFFICES ASSUME NEW k \in Key
             PROVE  /\ node'[k] # 0 => arrived'[node'[k]].id = k /\ FirstOf(node[k])'
                    /\ node'[k] = 0 => /\ \A m \in Positions' : arrived'[m].id # k
                                       /\ InOrder(waiting[k], ChildrenOf(k))'
    BY DEF Cached
<1>5. ASSUME node'[k] # 0
      PROVE  arrived'[node'[k]].id = k /\ FirstOf(node[k])'
    <2>1. CASE k = id /\ node[id] = 0
        <3>1. node'[k] = n
            BY <1>2, <1>3, <1>4, <2>1
        <3> QED BY <1>1, <1>2, <2>1, <3>1 DEF FirstOf
    <2>2. CASE ~(k = id /\ node[id] = 0)
        <3>1. node'[k] = node[k] /\ node[k] \in Positions
            BY <1>2, <1>3, <1>4, <1>5, <2>2
        <3>2. node[k] # 0
            BY <1>5, <3>1
        <3>3. arrived[node[k]].id = k /\ FirstOf(node[k])
            BY <3>2 DEF IndInv, Cached
        <3> QED BY <1>1, <3>1, <3>3 DEF FirstOf
    <2> QED BY <2>1, <2>2
<1>6. ASSUME node'[k] = 0
      PROVE  /\ \A m \in Positions' : arrived'[m].id # k
             /\ InOrder(waiting[k], ChildrenOf(k))'
    <2>1. k # id /\ node[k] = 0
        BY <1>1, <1>2, <1>3, <1>4, <1>6
    <2>2. (\A m \in Positions : arrived[m].id # k) /\ InOrder(waiting[k], ChildrenOf(k))
        BY <2>1 DEF IndInv, Cached
    <2>3. \A m \in Positions' : arrived'[m].id # k
        BY <1>1, <2>1, <2>2
    <2>4. CASE p = k
        <3>1. waiting' = [waiting EXCEPT ![p] = Append(@, n)]
            BY <1>3, <1>4, <1>6, <2>4 DEF Node, Postponed
        <3>2. waiting'[k] = Append(waiting[k], n) /\ waiting[k] \in Seq(1 .. (n - 1))
            BY <1>1, <1>4, <2>4, <3>1
        <3>3. ChildrenOf(k) \in SUBSET (1 .. (n - 1)) /\ ChildrenOf(k)' = ChildrenOf(k) \cup {n}
            BY <1>1, <2>4 DEF ChildrenOf
        <3>4. (n - 1) + 1 = n
            BY <1>1
        <3>5. InOrder(Append(waiting[k], n), ChildrenOf(k) \cup {n})
            BY ONLY <1>1, <2>2, <3>2, <3>3, <3>4, AppendInOrder
        <3> QED BY <2>3, <3>2, <3>3, <3>5 DEF InOrder
    <2>5. CASE p # k
        <3>1. waiting'[k] = waiting[k]
            BY <1>2, <1>4, <2>5 DEF Node, Postponed
        <3> QED BY <1>1, <2>2, <2>3, <2>5, <3>1 DEF InOrder
    <2> QED BY <2>4, <2>5
<1> QED BY <1>5, <1>6

\* A call keeps the links: the node gets the children that waited for it, and
\* becomes the last child of its parent, or the last root.
LEMMA NodeLinked ==
    ASSUME IndInv, NEW id \in Id, NEW p \in Parent, Node(id, p),
           NEW n, n = Len(arrived) + 1, Cached', TypeOK'
    PROVE  Linked'
<1>1. /\ n \in Nat /\ n - 1 \in Nat
      /\ Positions' = Positions \cup {n}
      /\ Positions = 1 .. (n - 1)
      /\ arrived' \in Seq([id : Id, parent : Parent])
      /\ Len(arrived') = n
      /\ arrived'[n] = [id |-> id, parent |-> p]
      /\ \A m \in Positions : arrived'[m] = arrived[m]
      /\ \A m \in Positions : FirstOf(m)' <=> FirstOf(m)
      /\ FirstOf(n)' <=> node[id] = 0
      /\ \A k \in Key : ChildrenOf(k)' =
                            IF p = k THEN ChildrenOf(k) \cup {n} ELSE ChildrenOf(k)
      /\ Rootless' = IF p <= 0 THEN Rootless \cup {n} ELSE Rootless
    BY Arrival
<1> DEFINE nodes == Append(children, Adopted(id))
           Kids(m) == IF FirstOf(m)' THEN ChildrenOf(arrived'[m].id) ELSE {}
<1> USE IdAssumption, ParentAssumption
<1>2. /\ Len(nodes) = n
      /\ nodes \in Seq(Seq(Positions'))
      /\ \A m \in Positions : nodes[m] = children[m]
      /\ nodes[n] = Adopted(id)
      /\ \A m \in 1 .. n : nodes[m] \in Seq(Positions)
    BY NodesFacts
<1>3. id \in Key /\ (p > 0 => p \in Key) /\ \A k \in Key : k > 0
    BY DEF Key
<1>4. \A m \in 1 .. n : arrived'[m].id \in Key
    <2>1. n = Len(arrived') /\ arrived' \in Seq([id : Id, parent : Parent])
        BY <1>1
    <2>2. \A m \in 1 .. n : arrived'[m] \in [id : Id, parent : Parent]
        BY ONLY <2>1, SeqElements
    <2> QED BY <2>2 DEF Key
<1> HIDE DEF nodes
<1>5. ASSUME NEW m \in 1 .. n PROVE InOrder(nodes[m], Kids(m))
    <2>1. CASE m \in Positions
        BY <1>1, <1>2, <2>1 DEF IndInv, Linked
    <2>2. CASE m = n
        <3>1. InOrder(Adopted(id), IF node[id] = 0 THEN ChildrenOf(id) ELSE {})
            BY <1>3 DEF IndInv, Cached, Adopted, InOrder
        <3> QED BY <1>1, <1>2, <2>2, <3>1
    <2> QED BY <1>1, <2>1, <2>2
<1>6. InOrder(Build, Rootless)'
    <2>1. CASE p <= 0
        <3>1. roots' = Append(roots, n)
            BY <1>3, <2>1 DEF Node
        <3>2. Rootless \in SUBSET (1 .. (n - 1)) /\ Rootless' = Rootless \cup {n}
            BY <1>1, <2>1 DEF Rootless
        <3>3. roots \in Seq(1 .. (n - 1)) /\ InOrder(roots, Rootless)
            BY <1>1 DEF IndInv, TypeOK, Linked, Build
        <3>4. (n - 1) + 1 = n
            BY <1>1
        <3>5. InOrder(Append(roots, n), Rootless \cup {n})
            BY ONLY <1>1, <3>2, <3>3, <3>4, AppendInOrder
        <3> QED BY <3>1, <3>2, <3>5 DEF InOrder, Build
    <2>2. CASE ~(p <= 0)
        <3>1. roots' = roots /\ Rootless' = Rootless
            BY <1>1, <2>2 DEF Node
        <3> QED BY <3>1 DEF IndInv, Linked, InOrder, Build
    <2> QED BY <2>1, <2>2
<1>7. ASSUME NEW m \in Positions'
      PROVE  InOrder(children'[m], IF FirstOf(m)' THEN ChildrenOf(arrived[m].id)' ELSE {})
    <2>1. m \in 1 .. n /\ arrived'[m].id \in Key
        BY <1>1, <1>4
    <2>2. ChildrenOf(arrived[m].id)' = IF p = arrived'[m].id
                                        THEN ChildrenOf(arrived'[m].id) \cup {n}
                                        ELSE ChildrenOf(arrived'[m].id)
        <3>1. PICK k \in Key : k = arrived'[m].id
            BY <2>1
        <3>2. ChildrenOf(k)' = ChildrenOf(arrived[m].id)'
            BY <3>1 DEF ChildrenOf
        <3> QED BY <1>1, <3>1, <3>2
    <2>3. CASE p > 0 /\ node'[p] # 0
        <3>1. /\ children' = [nodes EXCEPT ![node'[p]] = Append(nodes[node'[p]], n)]
            <4>1. ~(p <= 0)
                BY <2>3
            <4> QED BY <2>3, <4>1, Zenon DEF Node, nodes
        <3>2. /\ node'[p] \in 1 .. n
              /\ arrived'[node'[p]].id = p
              /\ FirstOf(node[p])'
            <4>1. node' \in [Key' -> {0} \cup Positions'] /\ Key' = Key
                BY DEF TypeOK, Key
            <4>2. node'[p] \in 1 .. n
                BY <1>1, <1>3, <2>3, <4>1
            <4>3. arrived'[node'[p]].id = p /\ FirstOf(node[p])'
                BY <1>3, <2>3 DEF Cached, Key
            <4> QED BY <4>2, <4>3
        <3>3. CASE m = node'[p]
            <4>1. children'[m] = Append(nodes[m], n)
                BY <1>2, <3>1, <3>2, <3>3
            <4>2. FirstOf(m)'
                BY <3>2, <3>3 DEF FirstOf
            <4>3. ChildrenOf(p) \in SUBSET (1 .. (n - 1))
                BY <1>1 DEF ChildrenOf
            <4>4. InOrder(nodes[m], ChildrenOf(p)) /\ nodes[m] \in Seq(1 .. (n - 1))
                BY <1>1, <1>2, <1>5, <2>1, <3>2, <3>3, <4>2
            <4>5. (n - 1) + 1 = n
                BY <1>1
            <4>6. InOrder(Append(nodes[m], n), ChildrenOf(p) \cup {n})
                BY ONLY <1>1, <4>3, <4>4, <4>5, AppendInOrder
            <4> QED BY <2>2, <3>2, <3>3, <4>1, <4>2, <4>6
        <3>4. CASE m # node'[p]
            <4>1. children'[m] = nodes[m]
                BY <1>2, <2>1, <3>1, <3>2, <3>4, ReplaceFacts
            <4>2. FirstOf(m)' => arrived'[m].id # p
                <5> SUFFICES ASSUME FirstOf(m)', arrived'[m].id = p PROVE FALSE
                    OBVIOUS
                <5>1. m <= node'[p]
                    <6>1. node'[p] \in Positions' /\ arrived'[node'[p]].id = arrived'[m].id
                        BY <1>1, <3>2
                    <6> QED BY ONLY <6>1, FirstOf(m)' DEF FirstOf
                <5>2. node'[p] <= m
                    BY <1>1, <2>1, <3>2 DEF FirstOf
                <5>3. n \in Nat /\ m \in 1 .. n /\ node'[p] \in 1 .. n
                    BY <1>1, <2>1, <3>2
                <5> QED BY ONLY <3>4, <5>1, <5>2, <5>3
            <4> QED BY <1>5, <2>1, <2>2, <4>1, <4>2
        <3> QED BY <3>3, <3>4
    <2>4. CASE p > 0 /\ node'[p] = 0
        <3>1. children' = nodes
            BY <2>4 DEF Node, nodes
        <3>2. arrived'[m].id # p
            BY <1>3, <2>4 DEF Cached
        <3> QED BY <1>5, <2>1, <2>2, <3>1, <3>2
    <2>5. CASE ~(p > 0)
        <3>1. children' = nodes
            BY <2>5 DEF Node, nodes
        <3>2. arrived'[m].id # p
            BY <1>3, <2>1, <2>5
        <3> QED BY <1>5, <2>1, <2>2, <3>1, <3>2
    <2> QED BY <2>3, <2>4, <2>5
<1>8. \A m \in Positions' :
            InOrder(children[m], IF FirstOf(m) THEN ChildrenOf(arrived[m].id) ELSE {})'
    BY <1>7 DEF InOrder
<1> QED BY <1>6, <1>8 DEF Linked

\* The invariant is inductive.
LEMMA NextIndInv == IndInv /\ [Next]_vars => IndInv'
<1> SUFFICES ASSUME IndInv, [Next]_vars PROVE IndInv'
    OBVIOUS
<1>1. ASSUME NEW id \in Id, NEW p \in Parent, Node(id, p) PROVE IndInv'
    <2> DEFINE n == Len(arrived) + 1
    <2>1. TypeOK'
        BY <1>1, NodeTypes
    <2>2. Cached'
        BY <1>1, NodeCached
    <2>3. Linked'
        BY <1>1, <2>1, <2>2, NodeLinked
    <2> QED BY <2>1, <2>2, <2>3 DEF IndInv
<1>2. CASE UNCHANGED vars
    <2>1. TypeOK'
        BY <1>2 DEF vars, IndInv, TypeOK, Positions
    <2>2. Cached'
        BY <1>2 DEF vars, IndInv, Cached, Positions, FirstOf, ChildrenOf, InOrder
    <2>3. Linked'
        BY <1>2 DEF vars, IndInv, Linked, Positions, FirstOf, ChildrenOf, Rootless, InOrder,
            Build
    <2> QED BY <2>1, <2>2, <2>3 DEF IndInv
<1> QED BY <1>1, <1>2 DEF Next, Complete

\* The invariant of TreeBuilder: the types, the cache, the links.
THEOREM Inductive == Spec => []IndInv
<1> QED BY InitIndInv, NextIndInv, PTL DEF Spec

\* TreeBuilder links the nodes as their parents say, in whatever order Node is
\* called with them, and each parent has its children in the order they came.
THEOREM TreesLinked == Spec => []Linked
<1>1. IndInv => Linked
    BY DEF IndInv
<1> QED BY <1>1, Inductive, PTL

\* Links as they should be lose no node: a set with the roots and the children
\* of its members misses some nodes only if each of them has its parent among
\* those that are missed, and well-formed nodes have no such set.
LEMMA LinkedNothingLost == Linked => NothingLost
<1> SUFFICES ASSUME Linked, WellFormed, NEW S \in SUBSET Positions,
                    Elements(Build) \subseteq S,
                    \A m \in S : Elements(children[m]) \subseteq S,
                    NEW x \in Positions, x \notin S
             PROVE  FALSE
    BY DEF NothingLost, InTrees
<1>1. PICK n \in Positions \ S : \A m \in Positions \ S : ~IsParentOf(m, n)
    BY DEF WellFormed
<1>2. Rootless \subseteq S
    BY DEF Linked, InOrder, Elements
<1>3. PICK m \in Positions : IsParentOf(m, n)
    BY <1>1, <1>2 DEF WellFormed, Rootless
<1>4. m \in S /\ FirstOf(m) /\ n \in ChildrenOf(arrived[m].id)
    BY <1>1, <1>3 DEF IsParentOf, ChildrenOf
<1>5. n \in Elements(children[m])
    BY <1>4 DEF Linked, InOrder, Elements
<1> QED BY <1>1, <1>4, <1>5

\* No node of well-formed trees is missing from what Build returns.
THEOREM TreesNothingLost == Spec => []NothingLost
<1> QED BY TreesLinked, LinkedNothingLost, PTL

=============================================================================
