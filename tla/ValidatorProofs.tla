--------------------------- MODULE ValidatorProofs ---------------------------
(***************************************************************************)
(* Proofs about the rule set cache: for any number of requests, rule sets, *)
(* fields and tags, what the races leave behind is complete, and what they *)
(* show to a request is of its own rule set.                               *)
(***************************************************************************)
EXTENDS Validator, WellFoundedInduction,
        FiniteSetTheorems, TLAPS

\* Every request beyond its start knows what it validates against; an id is
\* validated against the rule set of ids, and only a struct is translated.
Calling ==
    \A r \in Request :
        /\ pc[r] \notin {"idle", "no struct"} =>
                /\ key[r] \in Key
                /\ call[r] \in {"ValidateStruct", "ValidateVar", "ValidateMap"}
                /\ call[r] = "ValidateVar" => key[r] = IdSet
        /\ pc[r] \notin {"range", "validated"} => used[r] = {}

\* A map made for the rule set k.
MadeFor(m, k) == \E q \in Request : m = <<q, k>>

\* The cache has maps under the names they were made for, and a request writes
\* to maps of the name its call is about, and reads one of its own rule set.
PointersOf(r) ==
    /\ pc[r] \in {"make", "made", "store", "stored"} => todo[r] # {}
    /\ pc[r] \in {"made", "store", "stored"} => MadeFor(held[r], NameAt(Current(r)))
    /\ pc[r] = "range" =>
            IF key[r] = IdSet THEN held[r] = IdMap ELSE MadeFor(held[r], key[r])

Pointers ==
    /\ cache[IdSet] = IdMap
    /\ \A k \in Name : cache[k] # None => MadeFor(cache[k], k)
    /\ \A r \in Request : PointersOf(r)

\* Some call gives the rules v to the field f in the rule set k.
Given(k, f, v) ==
    \/ k = IdSet /\ f = 1 /\ v = IdRules
    \/ \E p \in Calls : p[1] = f /\ NameAt(p) = k /\ RulesAt(p) = v

\* Nothing is in a map, or was applied, that no call gives to its rule set.
Sourced ==
    /\ content[IdMap] = [Empty EXCEPT ![1] = IdRules]
    /\ \A q \in Request, k \in Name, f \in Field :
            content[<<q, k>>][f] # None => Given(k, f, content[<<q, k>>][f])
    /\ \A r \in Request : \A u \in used[r] : Given(key[r], u[1], u[2])

\* A request makes its calls in order.
Ahead ==
    \A r \in Request : \A p \in todo[r], q \in Calls : Before(p, q) => q \in todo[r]

\* The rule sets of the calls a request has behind it are in the cache, so that
\* it makes a rule set only at its first call about it.
FirstUseOf(r) ==
    /\ Translating(r) => \A p \in Calls \ todo[r] : cache[NameAt(p)] # None
    /\ pc[r] \in {"made", "store", "stored"} => cache[NameAt(Current(r))] # None
    /\ pc[r] = "make" =>
            \A p \in Calls : NameAt(p) = NameAt(Current(r)) => p \in todo[r]
    /\ pc[r] = "look again" =>
            /\ BadFields = {}
            /\ \A p \in Calls : cache[NameAt(p)] # None

FirstUse == \A r \in Request : FirstUseOf(r)

\* The last clause about its field and its rule set.
Final(p) ==
    \A q \in Calls : q[1] = p[1] /\ NameAt(q) = NameAt(p) => q[2] <= p[2]

\* The request r has still to write to m what the clause of p says.
Pending(r, m, p) ==
    /\ Translating(r)
    /\ \E q \in todo[r] :
        /\ q[1] = p[1] /\ q[2] = p[2] /\ NameAt(q) = NameAt(p)
        /\ \/ pc[r] \in {"find", "make"}
           \/ q # Current(r)
           \/ pc[r] \in {"made", "store"} /\ held[r] = m

\* What the cached rule sets lack somebody is about to write.
Converging ==
    \A k \in Name : cache[k] # None =>
        \A p \in Calls : NameAt(p) = k /\ Final(p) =>
            \/ content[cache[k]][p[1]] = RulesAt(p)
            \/ \E r \in Request : Pending(r, cache[k], p)

\* No other request translates, and what is ranged over is the cached rule set,
\* from the first entry to the last.
Alone(r) == Active(r) => \A q \in Request \ {r} : ~Translating(q)
WholeRange(r) ==
    /\ held[r] = cache[key[r]]
    /\ must[r] = {f \in Field : content[held[r]][f] # None}
    /\ used[r] \subseteq SetOf(held[r])

Undisturbed ==
    \A r \in Request :
        ~disturbed[r] => Alone(r) /\ (pc[r] = "range" => WholeRange(r))

IndInv ==
    /\ TypeOK
    /\ Calling
    /\ Pointers
    /\ Sourced
    /\ Ahead
    /\ FirstUse
    /\ Converging
    /\ Undisturbed
    /\ AloneComplete
    /\ PanicsOnlyUndeclared

-----------------------------------------------------------------------------
(***************************************************************************)
(* Tags and calls                                                          *)
(***************************************************************************)

LEMMA NatOrder == IsWellFoundedOn({ss \in Nat \X Nat : ss[1] < ss[2]}, Nat)
BY NatLessThanWellFounded DEF OpToRel

\* A nonempty set of numbers has a least.
LEMMA Least ==
    ASSUME NEW S \in SUBSET Nat, S # {}
    PROVE  \E n \in S : \A m \in S : n <= m
<1> DEFINE R == {ss \in Nat \X Nat : ss[1] < ss[2]}
<1>1. PICK x \in S : \A y \in S : <<y, x>> \notin R
    <2> HIDE DEF R
    <2>1. IsWellFoundedOn(R, Nat)
        BY NatOrder DEF R
    <2> QED BY <2>1, WFMin
<1>2. ASSUME NEW y \in S PROVE x <= y
    <2>1. x \in Nat /\ y \in Nat
        OBVIOUS
    <2>2. ~(y < x)
        BY <1>1, <2>1
    <2> QED BY <2>1, <2>2
<1> QED BY <1>2

\* A nonempty set of numbers up to a bound has a greatest.
LEMMA Greatest ==
    ASSUME NEW n \in Nat, NEW S \in SUBSET (0 .. n), S # {}
    PROVE  /\ Max(S) \in S
           /\ \A x \in S : x <= Max(S)
<1> DEFINE T == {n - x : x \in S}
<1>1. T \in SUBSET Nat /\ T # {}
    <2>1. \A x \in S : n - x \in Nat
        OBVIOUS
    <2> QED BY <2>1
<1>2. PICK t \in T : \A u \in T : t <= u
    <2> HIDE DEF T
    <2> QED BY <1>1, Least
<1>3. PICK x \in S : t = n - x
    BY <1>2
<1>4. \A y \in S : x >= y
    BY <1>2, <1>3
<1> QED BY <1>4 DEF Max

\* A nonempty set of triples of numbers has a first.
LEMMA FirstTriple ==
    ASSUME NEW S \in SUBSET (Nat \X Nat \X Nat), S # {}
    PROVE  \E p \in S : \A q \in S : p = q \/ Before(p, q)
<1> DEFINE F == {p[1] : p \in S}
<1>0. F \in SUBSET Nat /\ F # {}
    OBVIOUS
<1>1. PICK f \in F : \A g \in F : f <= g
    <2> HIDE DEF F
    <2> QED BY <1>0, Least
<1> DEFINE I == {p[2] : p \in {q \in S : q[1] = f}}
<1>2. I \in SUBSET Nat /\ I # {}
    BY <1>1
<1>3. PICK i \in I : \A j \in I : i <= j
    <2> HIDE DEF I
    <2> QED BY <1>2, Least
<1> DEFINE N == {p[3] : p \in {q \in S : q[1] = f /\ q[2] = i}}
<1>4. N \in SUBSET Nat /\ N # {}
    BY <1>3
<1>5. PICK n \in N : \A j \in N : n <= j
    <2> HIDE DEF N
    <2> QED BY <1>4, Least
<1>6. PICK p \in S : p[1] = f /\ p[2] = i /\ p[3] = n
    BY <1>5
<1>7. ASSUME NEW q \in S PROVE p = q \/ Before(p, q)
    <2>1. f <= q[1]
        BY <1>1
    <2>2. q[1] = f => i <= q[2]
        BY <1>3
    <2>3. q[1] = f /\ q[2] = i => n <= q[3]
        BY <1>5
    <2>4. q[1] = f /\ q[2] = i /\ q[3] = n => p = q
        BY <1>6
    <2> QED BY <1>6, <2>1, <2>2, <2>3, <2>4 DEF Before
<1> QED BY <1>6, <1>7

LEMMA TagsType ==
    ASSUME tags \in TagChoices
    PROVE  /\ tags \in [Field -> Seq(Clause)]
           /\ \A f \in Field : /\ DOMAIN tags[f] = 1 .. Len(tags[f])
                               /\ Len(tags[f]) \in Nat
                               /\ \A i \in DOMAIN tags[f] :
                                    /\ tags[f][i].names \in Seq(Name)
                                    /\ tags[f][i].rules \in Rules \cup {Bad}
<1>1. tags \in [Field -> Seq(Clause)]
    BY TagsAssumption
<1>2. ASSUME NEW f \in Field, NEW i \in DOMAIN tags[f]
      PROVE  tags[f][i].names \in Seq(Name) /\ tags[f][i].rules \in Rules \cup {Bad}
    <2>1. tags[f] \in Seq(Clause)
        BY <1>1
    <2>2. tags[f][i] \in Clause
        BY <2>1
    <2> QED BY <2>2 DEF Clause
<1>3. ASSUME NEW f \in Field
      PROVE  DOMAIN tags[f] = 1 .. Len(tags[f]) /\ Len(tags[f]) \in Nat
    <2>1. tags[f] \in Seq(Clause)
        BY <1>1
    <2> QED BY <2>1
<1> QED BY <1>1, <1>2, <1>3

\* The names a clause has are those it concerns.
LEMMA NamesConcerned ==
    ASSUME tags \in TagChoices, NEW f \in Field, NEW i \in DOMAIN tags[f]
    PROVE  /\ NamesOf(tags[f], i) \in Seq(Name)
           /\ \A k : Concerns(f, i, k) <=>
                        \E n \in DOMAIN NamesOf(tags[f], i) : NamesOf(tags[f], i)[n] = k
<1> DEFINE given == {j \in 1 .. i : tags[f][j].names # <<>>}
<1>1. i \in Nat /\ 1 .. i \subseteq DOMAIN tags[f]
    BY TagsType
<1>2. \A j \in 1 .. i : tags[f][j].names \in Seq(Name)
    BY <1>1, TagsType
<1>3. CASE given = {}
    <2>1. NamesOf(tags[f], i) = <<DEFAULT>>
        BY <1>3 DEF NamesOf
    <2>2. \A j \in 1 .. i : tags[f][j].names = <<>>
        BY <1>3
    <2>3. \A j \in 1 .. i : ToSet(tags[f][j].names) = {}
        BY <2>2 DEF ToSet
    <2>4. \A k : Concerns(f, i, k) <=> k = DEFAULT
        BY <2>2, <2>3 DEF Concerns
    <2> QED BY <2>1, <2>4, NameAssumption
<1>4. CASE given # {}
    <2> DEFINE m == Max(given)
    <2>1. m \in given /\ \A j \in given : j <= m
        <3>1. given \in SUBSET (0 .. i) /\ given # {}
            BY <1>4
        <3> HIDE DEF given
        <3> QED BY <1>1, <3>1, Greatest
    <2> HIDE DEF m
    <2>2. NamesOf(tags[f], i) = tags[f][m].names
        BY <1>4 DEF NamesOf, m
    <2>3. m \in 1 .. i /\ tags[f][m].names # <<>>
        BY <2>1
    <2>4. \A l \in m + 1 .. i : tags[f][l].names = <<>>
        BY <1>1, <2>1, <2>3
    <2>5. ASSUME NEW k PROVE Concerns(f, i, k) <=> k \in ToSet(tags[f][m].names)
        <3>1. Concerns(f, i, k) =>
                \E j \in 1 .. i : /\ k \in ToSet(tags[f][j].names)
                                  /\ \A l \in j + 1 .. i : tags[f][l].names = <<>>
            BY <2>3 DEF Concerns
        <3>2. ASSUME NEW j \in 1 .. i, k \in ToSet(tags[f][j].names),
                     \A l \in j + 1 .. i : tags[f][l].names = <<>>
              PROVE  j = m
            <4>1. tags[f][j].names # <<>>
                BY <3>2 DEF ToSet
            <4>2. j <= m
                BY <2>1, <4>1
            <4>3. ~(m \in j + 1 .. i)
                BY <2>3, <3>2
            <4> QED BY <1>1, <2>3, <4>2, <4>3
        <3>3. k \in ToSet(tags[f][m].names) => Concerns(f, i, k)
            BY <2>3, <2>4 DEF Concerns
        <3> QED BY <3>1, <3>2, <3>3
    <2> QED BY <1>2, <2>2, <2>3, <2>5 DEF ToSet
<1> QED BY <1>3, <1>4

\* What a call is.
LEMMA CallsAre ==
    ASSUME NEW p
    PROVE  p \in Calls <=>
              \E f \in Field : \E i \in DOMAIN tags[f] :
                  /\ Reached(f, i)
                  /\ \E n \in DOMAIN NamesOf(tags[f], i) : p = <<f, i, n>>
<1> DEFINE OfField(f) == UNION {CallsOf(f, i) : i \in {j \in DOMAIN tags[f] : Reached(f, j)}}
<1>1. p \in Calls <=> \E f \in Field : p \in OfField(f)
    BY DEF Calls
<1>2. \A f : p \in OfField(f) <=> \E i \in DOMAIN tags[f] : Reached(f, i) /\ p \in CallsOf(f, i)
    OBVIOUS
<1>3. \A f, i : p \in CallsOf(f, i) <=> \E n \in DOMAIN NamesOf(tags[f], i) : p = <<f, i, n>>
    BY DEF CallsOf
<1> HIDE DEF OfField
<1> QED BY <1>1, <1>2, <1>3

LEMMA CallFacts ==
    ASSUME tags \in TagChoices, NEW p \in Calls
    PROVE  /\ p \in Nat \X Nat \X Nat
           /\ p[1] \in Field /\ p[2] \in DOMAIN tags[p[1]]
           /\ NameAt(p) \in Name /\ RulesAt(p) \in Rules
           /\ Concerns(p[1], p[2], NameAt(p))
<1>1. PICK f \in Field : \E i \in DOMAIN tags[f] :
            /\ Reached(f, i)
            /\ \E n \in DOMAIN NamesOf(tags[f], i) : p = <<f, i, n>>
    BY CallsAre
<1>2. PICK i \in DOMAIN tags[f] :
            /\ Reached(f, i)
            /\ \E n \in DOMAIN NamesOf(tags[f], i) : p = <<f, i, n>>
    BY <1>1
<1>3. PICK n \in DOMAIN NamesOf(tags[f], i) : Reached(f, i) /\ p = <<f, i, n>>
    BY <1>2
<1>4. p[1] = f /\ p[2] = i /\ p[3] = n
    BY <1>3
<1>5. f \in Nat /\ i \in Nat \ {0}
    BY TagsType, FieldAssumption DEF Field
<1>6. NamesOf(tags[f], i) \in Seq(Name)
    BY NamesConcerned
<1>7. n \in Nat /\ NamesOf(tags[f], i)[n] \in Name
    BY <1>6
<1>8. NameAt(p) = NamesOf(tags[f], i)[n] /\ RulesAt(p) = tags[f][i].rules
    BY <1>4 DEF NameAt, RulesAt
<1>9. tags[f][i].rules \in Rules
    <2>1. i \in 1 .. i /\ i \notin BadClauses(tags[f])
        BY <1>3, <1>5 DEF Reached
    <2> QED BY <2>1, TagsType DEF BadClauses
<1>10. Concerns(f, i, NamesOf(tags[f], i)[n])
    BY NamesConcerned
<1>11. p \in Nat \X Nat \X Nat
    BY <1>3, <1>5, <1>7
<1> QED BY <1>4, <1>7, <1>8, <1>9, <1>10, <1>11

\* A request is at the first of the calls it has still to make.
LEMMA FirstCall ==
    ASSUME tags \in TagChoices, NEW r \in Request, todo[r] \subseteq Calls,
           todo[r] # {}
    PROVE  /\ Current(r) \in todo[r]
           /\ \A q \in todo[r] : Current(r) = q \/ Before(Current(r), q)
<1>1. todo[r] \in SUBSET (Nat \X Nat \X Nat)
    BY CallFacts
<1>2. \E p \in todo[r] : \A q \in todo[r] : p = q \/ Before(p, q)
    BY <1>1, FirstTriple
<1> QED BY <1>2 DEF Current

\* No call comes before itself, nor one before it and after it.
LEMMA BeforeOrders ==
    ASSUME NEW p \in Nat \X Nat \X Nat, NEW q \in Nat \X Nat \X Nat
    PROVE  Before(p, q) => p # q /\ ~Before(q, p)
BY DEF Before

\* When no tag is bad every clause has its calls.
LEMMA ConcernCall ==
    ASSUME tags \in TagChoices, BadFields = {}, NEW f \in Field,
           NEW i \in DOMAIN tags[f], NEW k, Concerns(f, i, k)
    PROVE  \E p \in Calls : p[1] = f /\ p[2] = i /\ NameAt(p) = k
<1>1. PICK n \in DOMAIN NamesOf(tags[f], i) : NamesOf(tags[f], i)[n] = k
    BY NamesConcerned
<1>2. Reached(f, i)
    <2>1. BadClauses(tags[f]) = {}
        BY DEF BadFields
    <2> QED BY <2>1 DEF Reached
<1>3. <<f, i, n>> \in Calls
    BY <1>2, CallsAre
<1> QED BY <1>1, <1>3 DEF NameAt

\* A field with a call about a rule set has a last clause about it.
LEMMA FinalExists ==
    ASSUME tags \in TagChoices, NEW p \in Calls
    PROVE  \E q \in Calls : Final(q) /\ q[1] = p[1] /\ NameAt(q) = NameAt(p)
<1> DEFINE same == {q \in Calls : q[1] = p[1] /\ NameAt(q) = NameAt(p)}
           places == {q[2] : q \in same}
<1>1. p[1] \in Field
    BY CallFacts
<1>2. \A q \in same : q[2] \in 1 .. Len(tags[p[1]])
    BY <1>1, CallFacts, TagsType
<1>3. Len(tags[p[1]]) \in Nat
    BY <1>1, TagsType
<1>4. places \in SUBSET (0 .. Len(tags[p[1]])) /\ places # {}
    BY <1>2
<1>5. Max(places) \in places /\ \A x \in places : x <= Max(places)
    <2> HIDE DEF places
    <2> QED BY <1>3, <1>4, Greatest
<1>6. PICK q \in same : q[2] = Max(places)
    BY <1>5
<1>7. Final(q)
    BY <1>5, <1>6 DEF Final
<1> QED BY <1>6, <1>7

\* The complete rule set is what the final calls say.
LEMMA CompleteCalls ==
    ASSUME tags \in TagChoices, BadFields = {}, NEW k \in Name
    PROVE  /\ \A u \in Complete(k) : \E p \in Calls :
                NameAt(p) = k /\ Final(p) /\ u = <<p[1], RulesAt(p)>>
           /\ \A p \in Calls :
                NameAt(p) = k /\ Final(p) => <<p[1], RulesAt(p)>> \in Complete(k)
<1> DEFINE last(f) == {i \in DOMAIN tags[f] :
                        /\ Concerns(f, i, k)
                        /\ \A l \in i + 1 .. Len(tags[f]) : ~Concerns(f, l, k)}
<1>1. Complete(k) = UNION {{<<f, tags[f][i].rules>> : i \in last(f)} : f \in Field}
    BY NameAssumption DEF Complete
<1>2. ASSUME NEW u \in Complete(k)
      PROVE  \E p \in Calls : NameAt(p) = k /\ Final(p) /\ u = <<p[1], RulesAt(p)>>
    <2>1. PICK f \in Field : \E i \in last(f) : u = <<f, tags[f][i].rules>>
        BY <1>1
    <2>2. PICK i \in last(f) : u = <<f, tags[f][i].rules>>
        BY <2>1
    <2>3. PICK p \in Calls : p[1] = f /\ p[2] = i /\ NameAt(p) = k
        BY <2>2, ConcernCall
    <2>4. Final(p)
        <3> SUFFICES ASSUME NEW q \in Calls, q[1] = f, NameAt(q) = k
                     PROVE  q[2] <= i
            BY <2>3 DEF Final
        <3>1. q[2] \in DOMAIN tags[f] /\ Concerns(f, q[2], k)
            BY CallFacts
        <3>2. DOMAIN tags[f] = 1 .. Len(tags[f]) /\ Len(tags[f]) \in Nat
            BY TagsType
        <3>3. q[2] \notin i + 1 .. Len(tags[f])
            BY <2>2, <3>1
        <3> QED BY <2>2, <3>1, <3>2, <3>3
    <2> QED BY <2>2, <2>3, <2>4 DEF RulesAt
<1>3. ASSUME NEW p \in Calls, NameAt(p) = k, Final(p)
      PROVE  <<p[1], RulesAt(p)>> \in Complete(k)
    <2>1. /\ p[1] \in Field /\ p[2] \in DOMAIN tags[p[1]]
          /\ Concerns(p[1], p[2], k)
        BY <1>3, CallFacts
    <2>2. ASSUME NEW l \in p[2] + 1 .. Len(tags[p[1]]), Concerns(p[1], l, k)
          PROVE  FALSE
        <3>1. l \in DOMAIN tags[p[1]] /\ l > p[2] /\ l \in Nat /\ p[2] \in Nat
            BY <2>1, TagsType
        <3>2. PICK q \in Calls : q[1] = p[1] /\ q[2] = l /\ NameAt(q) = k
            BY <2>1, <2>2, <3>1, ConcernCall
        <3> QED BY <1>3, <3>1, <3>2 DEF Final
    <2>3. p[2] \in last(p[1])
        BY <2>1, <2>2
    <2> QED BY <1>1, <2>1, <2>3 DEF RulesAt
<1> QED BY <1>2, <1>3

\* The tags never change, and with them the calls and what they say.
LEMMA TagsKept ==
    ASSUME UNCHANGED tags
    PROVE  /\ Calls' = Calls /\ BadFields' = BadFields
           /\ \A p : NameAt(p)' = NameAt(p) /\ RulesAt(p)' = RulesAt(p)
           /\ \A p : Final(p)' <=> Final(p)
           /\ \A k : Complete(k)' = Complete(k)
           /\ \A k, f, v : Given(k, f, v)' <=> Given(k, f, v)
<1>1. Calls' = Calls /\ BadFields' = BadFields
    BY DEF Calls, CallsOf, BadFields, Reached
<1>2. \A p : NameAt(p)' = NameAt(p) /\ RulesAt(p)' = RulesAt(p)
    BY DEF NameAt, RulesAt
<1>3. \A p : Final(p)' <=> Final(p)
    BY <1>1, <1>2 DEF Final
<1>4. \A k : Complete(k)' = Complete(k)
    BY DEF Complete, Concerns
<1>5. \A k, f, v : Given(k, f, v)' <=> Given(k, f, v)
    BY <1>1, <1>2 DEF Given
<1> QED BY <1>1, <1>2, <1>3, <1>4, <1>5

-----------------------------------------------------------------------------
(***************************************************************************)
(* The inductive invariant holds at the start                              *)
(***************************************************************************)

LEMMA InitIndInv == Init => IndInv
<1> SUFFICES ASSUME Init PROVE IndInv
    OBVIOUS
<1> USE NameAssumption, FieldAssumption, RulesAssumption, NoneAssumption
<1>1. /\ \A r \in Request : pc[r] = "idle" /\ used[r] = {} /\ todo[r] = {}
      /\ \A r \in Request : disturbed[r] = FALSE
      /\ \A k \in Name : cache[k] = None
      /\ cache[IdSet] = IdMap
    BY DEF Init, All, OnlyIds, Key
<1>2. TypeOK
    <2>1. 1 \in Field /\ Empty \in [Field -> Rules \cup {None}]
        BY DEF Field, Empty
    <2>2. content \in [Map -> [Field -> Rules \cup {None}]]
        BY <2>1 DEF Init, IdContent
    <2>3. cache \in [Key -> Map \cup {None}]
        BY DEF Init, OnlyIds, Map
    <2> QED BY <2>2, <2>3 DEF Init, TypeOK, All
<1>3. Calling
    BY <1>1 DEF Calling
<1>4. Pointers
    BY <1>1 DEF Pointers, PointersOf
<1>5. Sourced
    <2>1. IdMap \in Map /\ content[IdMap] = [Empty EXCEPT ![1] = IdRules]
        BY DEF Init, IdContent, Map
    <2>2. ASSUME NEW q \in Request, NEW k \in Name, NEW f \in Field
          PROVE  content[<<q, k>>][f] = None
        <3>1. <<q, k>> \in Map /\ <<q, k>> # IdMap
            BY DEF Map, IdMap
        <3>2. content[<<q, k>>] = Empty
            BY <3>1 DEF Init, IdContent
        <3> QED BY <3>2 DEF Empty
    <2> QED BY <1>1, <2>1, <2>2 DEF Sourced
<1>6. Ahead /\ FirstUse /\ Converging
    BY <1>1 DEF Ahead, FirstUse, FirstUseOf, Converging, Translating
<1>7. Undisturbed /\ AloneComplete /\ PanicsOnlyUndeclared
    BY <1>1 DEF Undisturbed, Alone, AloneComplete, PanicsOnlyUndeclared, Active, Translating
<1> QED BY <1>2, <1>3, <1>4, <1>5, <1>6, <1>7 DEF IndInv

\* The program that starts again after the runtime has ended it is as it was
\* at first.
LEMMA NoticeInv == ASSUME TypeOK, NEW m, NEW r, MayNotice(m, r) PROVE IndInv'
<1>1. Init'
    BY DEF TypeOK, MayNotice, Init
<1>2. Init' => IndInv'
    BY InitIndInv, PTL
<1> QED BY <1>1, <1>2

-----------------------------------------------------------------------------
(***************************************************************************)
(* What several actions have in common                                     *)
(***************************************************************************)

\* What a request whose locals stay as they are is at.
LEMMA CurrentKept ==
    ASSUME UNCHANGED tags, NEW q, todo'[q] = todo[q]
    PROVE  Current(q)' = Current(q) /\ NameAt(Current(q))' = NameAt(Current(q))
<1>1. Current(q)' = Current(q)
    BY DEF Current, Before
<1> QED BY <1>1 DEF NameAt

\* The call a request is at, when it has any left.
LEMMA CurrentFacts ==
    ASSUME TypeOK, NEW r \in Request, todo[r] # {}
    PROVE  /\ Current(r) \in todo[r] /\ Current(r) \in Calls
           /\ Current(r) \in Nat \X Nat \X Nat /\ Current(r)[1] \in Field
           /\ NameAt(Current(r)) \in Name /\ RulesAt(Current(r)) \in Rules
           /\ \A q \in todo[r] : Current(r) = q \/ Before(Current(r), q)
<1>1. tags \in TagChoices /\ todo[r] \subseteq Calls
    BY DEF TypeOK
<1>2. /\ Current(r) \in todo[r]
      /\ \A q \in todo[r] : Current(r) = q \/ Before(Current(r), q)
    BY <1>1, FirstCall
<1> QED BY <1>1, <1>2, CallFacts

\* The steps of a translation leave alone what was applied and whom it
\* disturbs.
LEMMA TranslationKeeps ==
    ASSUME IndInv, UNCHANGED <<tags, call, key, must, used, disturbed>>,
           NEW r \in Request, Translating(r),
           \A q \in Request \ {r} : pc'[q] = pc[q] /\ held'[q] = held[q],
           \/ pc'[r] \in {"find", "make", "made", "store", "stored", "look again"}
           \/ pc'[r] = "panicked" /\ BadFields # {}
    PROVE  Calling' /\ Undisturbed' /\ AloneComplete' /\ PanicsOnlyUndeclared'
<1> USE DEF IndInv
<1>1. pc[r] \notin {"idle", "no struct", "range", "validated"}
    BY DEF Translating
<1>2. pc'[r] \notin {"idle", "no struct", "range", "validated"}
    OBVIOUS
<1>3. Calling'
    BY <1>1, <1>2 DEF Calling
<1>4. Undisturbed'
    <2> SUFFICES ASSUME NEW s \in Request, ~disturbed[s]
                 PROVE  Alone(s)' /\ pc'[s] # "range"
        BY DEF Undisturbed
    <2>1. CASE s = r
        <3>1. \A q \in Request \ {r} : ~Translating(q)
            BY <2>1 DEF Undisturbed, Alone, Active
        <3>2. \A q \in Request \ {r} : ~Translating(q)'
            BY <3>1 DEF Translating
        <3> QED BY <1>2, <2>1, <3>2 DEF Alone
    <2>2. CASE s # r
        <3>1. ~Active(s)
            BY <2>2 DEF Undisturbed, Alone
        <3> QED BY <2>2, <3>1 DEF Alone, Active, Translating
    <2> QED BY <2>1, <2>2
<1>5. /\ BadFields' = BadFields
      /\ \A s \in Request : Complete(key[s])' = Complete(key[s])
    BY TagsKept
<1>6. AloneComplete'
    BY <1>2, <1>5 DEF AloneComplete
<1>7. PanicsOnlyUndeclared'
    BY <1>5 DEF PanicsOnlyUndeclared
<1> QED BY <1>3, <1>4, <1>6, <1>7

\* What a request is about to write stays pending while it does nothing.
LEMMA PendingKept ==
    ASSUME UNCHANGED tags, NEW q, pc'[q] = pc[q], held'[q] = held[q], todo'[q] = todo[q],
           NEW m, NEW p, Pending(q, m, p)
    PROVE  Pending(q, m, p)'
<1>1. Current(q)' = Current(q)
    BY CurrentKept
<1>2. \A c : NameAt(c)' = NameAt(c)
    BY TagsKept
<1> QED BY <1>1, <1>2 DEF Pending, Translating

\* Nor does what is not written change the maps: what they have stays as
\* given, and what they lack is still about to be written.
LEMMA SharedKept ==
    ASSUME IndInv, UNCHANGED <<tags, cache, content>>, NEW r \in Request,
           \A q \in Request \ {r} :
                pc'[q] = pc[q] /\ held'[q] = held[q] /\ todo'[q] = todo[q],
           \A m : \A p \in Calls :
                m = cache[NameAt(p)] /\ m # None /\ Pending(r, m, p) => Pending(r, m, p)'
    PROVE  Converging'
<1> USE DEF IndInv
<1> SUFFICES ASSUME NEW k \in Name, cache[k] # None, NEW p \in Calls,
                    NameAt(p) = k, Final(p), content[cache[k]][p[1]] # RulesAt(p)
             PROVE  \E q \in Request : Pending(q, cache[k], p)'
    BY TagsKept DEF Converging
<1>1. PICK q \in Request : Pending(q, cache[k], p)
    BY DEF Converging
<1>2. CASE q = r
    BY <1>1, <1>2
<1>3. CASE q # r
    BY <1>1, <1>3, PendingKept
<1> QED BY <1>2, <1>3

\* The other requests have their maps and their places as before.
LEMMA OthersKept ==
    ASSUME IndInv, UNCHANGED tags, NEW r \in Request,
           \A q \in Request \ {r} : /\ pc'[q] = pc[q] /\ held'[q] = held[q]
                                    /\ todo'[q] = todo[q] /\ key'[q] = key[q],
           \A k \in Name : cache[k] # None => cache'[k] # None
    PROVE  \A q \in Request \ {r} : PointersOf(q)' /\ FirstUseOf(q)'
<1> SUFFICES ASSUME NEW q \in Request \ {r}
             PROVE  PointersOf(q)' /\ FirstUseOf(q)'
    OBVIOUS
<1>1. NameAt(Current(q))' = NameAt(Current(q))
    BY CurrentKept
<1>2. PointersOf(q) /\ FirstUseOf(q) /\ TypeOK
    BY DEF IndInv, Pointers, FirstUse
<1>3. PointersOf(q)'
    BY <1>1, <1>2 DEF PointersOf, MadeFor
<1>4. /\ Calls' = Calls /\ BadFields' = BadFields
      /\ \A p : NameAt(p)' = NameAt(p)
    BY TagsKept
<1>5. \A p \in Calls : cache[NameAt(p)] # None => cache'[NameAt(p)] # None
    BY <1>2, CallFacts DEF TypeOK
<1>6. pc[q] \in {"made", "store", "stored"} => NameAt(Current(q)) \in Name
    BY <1>2, CurrentFacts DEF PointersOf
<1>7. FirstUseOf(q)'
    BY <1>1, <1>2, <1>4, <1>5, <1>6 DEF FirstUseOf, Translating
<1> QED BY <1>3, <1>7

\* A request that translates nothing, before and after its step, leaves the
\* others and the maps as they are.
LEMMA ReaderKeeps ==
    ASSUME IndInv, UNCHANGED <<tags, shared, todo>>, NEW r \in Request,
           ~Translating(r), ~Translating(r)',
           \A q \in Request \ {r} : /\ pc'[q] = pc[q] /\ held'[q] = held[q]
                                    /\ key'[q] = key[q]
    PROVE  /\ Ahead' /\ Converging'
           /\ cache'[IdSet] = IdMap
           /\ \A k \in Name : cache'[k] # None => MadeFor(cache'[k], k)
           /\ \A q \in Request \ {r} : PointersOf(q)' /\ FirstUseOf(q)'
<1>1. UNCHANGED <<cache, content>>
    BY DEF shared
<1>2. Ahead'
    BY TagsKept DEF IndInv, Ahead, Before
<1>3. Converging'
    BY <1>1, SharedKept DEF Pending
<1>4. \A q \in Request \ {r} : PointersOf(q)' /\ FirstUseOf(q)'
    BY <1>1, OthersKept
<1> QED BY <1>1, <1>2, <1>3, <1>4 DEF IndInv, Pointers

\* What a request ranges over does not change under it.
LEMMA RangeKept ==
    ASSUME NEW q, WholeRange(q), UNCHANGED <<cache, content>>,
           held'[q] = held[q], key'[q] = key[q], must'[q] = must[q],
           used'[q] = used[q]
    PROVE  WholeRange(q)'
<1>1. SetOf(held[q])' = SetOf(held[q])
    BY DEF SetOf
<1> QED BY <1>1 DEF WholeRange

-----------------------------------------------------------------------------
(***************************************************************************)
(* Requests that translate nothing                                         *)
(***************************************************************************)

LEMMA NoStructInv ==
    ASSUME IndInv, NEW r \in Request, NoStruct(r) PROVE IndInv'
<1>1. /\ pc[r] = "idle" /\ pc' = [pc EXCEPT ![r] = "no struct"]
      /\ UNCHANGED <<tags, shared, local, disturbed>>
      /\ UNCHANGED <<cache, content, writing, call, key, todo, held, must, used>>
    BY DEF NoStruct, At, Goto, shared, local
<1> USE DEF IndInv
<1>2. /\ pc'[r] = "no struct"
      /\ \A q \in Request \ {r} : pc'[q] = pc[q]
    BY <1>1 DEF TypeOK
<1>3. TypeOK'
    BY <1>1, TagsKept DEF TypeOK, Ended
<1>4. Calling'
    BY <1>1, <1>2 DEF Calling
<1>5. /\ Ahead' /\ Converging'
      /\ cache'[IdSet] = IdMap
      /\ \A k \in Name : cache'[k] # None => MadeFor(cache'[k], k)
      /\ \A q \in Request \ {r} : PointersOf(q)' /\ FirstUseOf(q)'
    BY <1>1, <1>2, ReaderKeeps DEF Translating
<1>6. PointersOf(r)' /\ FirstUseOf(r)'
    BY <1>2 DEF PointersOf, FirstUseOf, Translating
<1>7. Pointers' /\ FirstUse'
    BY <1>5, <1>6 DEF Pointers, FirstUse
<1>8. Sourced'
    BY <1>1, TagsKept DEF Sourced
<1>9. Undisturbed'
    <2>1. \A q \in Request : /\ Translating(q)' <=> Translating(q)
                             /\ Active(q)' <=> Active(q)
        BY <1>1, <1>2 DEF Translating, Active
    <2>2. \A q \in Request : pc'[q] = "range" => pc[q] = "range"
        BY <1>2
    <2>3. \A q \in Request : WholeRange(q) => WholeRange(q)'
        BY <1>1, RangeKept
    <2> QED BY <1>1, <2>1, <2>2, <2>3 DEF Undisturbed, Alone
<1>10. AloneComplete' /\ PanicsOnlyUndeclared'
    BY <1>1, <1>2, TagsKept DEF AloneComplete, PanicsOnlyUndeclared
<1> QED BY <1>3, <1>4, <1>5, <1>7, <1>8, <1>9, <1>10

LEMMA StartInv ==
    ASSUME IndInv, NEW r \in Request, NEW k \in Key,
           NEW c \in {"ValidateStruct", "ValidateVar", "ValidateMap"}, Start(r, c, k)
    PROVE  IndInv'
<1> DEFINE met == \E q \in Request : Translating(q)
<1>1. /\ pc[r] = "idle" /\ pc' = [pc EXCEPT ![r] = "look"]
      /\ call' = [call EXCEPT ![r] = c] /\ key' = [key EXCEPT ![r] = k]
      /\ c = "ValidateVar" => k = IdSet
      /\ disturbed' = [disturbed EXCEPT ![r] = met]
      /\ UNCHANGED <<tags, shared, cache, content, writing, todo, held, must, used>>
    BY DEF Start, At, Goto, shared
<1>2. met \in BOOLEAN
    OBVIOUS
<1> HIDE DEF met
<1> USE DEF IndInv
<1>3. /\ pc'[r] = "look" /\ call'[r] = c /\ key'[r] = k /\ disturbed'[r] = met
      /\ \A q \in Request \ {r} : /\ pc'[q] = pc[q] /\ call'[q] = call[q]
                                  /\ key'[q] = key[q] /\ disturbed'[q] = disturbed[q]
    BY <1>1 DEF TypeOK
<1>4. TypeOK'
    <2>1. disturbed' \in [Request -> BOOLEAN]
        BY <1>1, <1>2 DEF TypeOK
    <2>2. /\ pc' \in [Request -> Ended \cup {"idle", "look", "find", "make", "made",
                            "store", "stored", "look again", "range"}]
          /\ call' \in [Request ->
                    {"ValidateStruct", "ValidateVar", "ValidateMap", None}]
          /\ key' \in [Request -> Key \cup {None}]
        BY <1>1 DEF TypeOK
    <2> QED BY <1>1, <2>1, <2>2, TagsKept DEF TypeOK
<1>5. used[r] = {}
    BY <1>1 DEF Calling
<1>6. Calling'
    <2> SUFFICES ASSUME NEW q \in Request
                 PROVE  /\ pc'[q] \notin {"idle", "no struct"} =>
                            /\ key'[q] \in Key
                            /\ call'[q] \in {"ValidateStruct", "ValidateVar", "ValidateMap"}
                            /\ call'[q] = "ValidateVar" => key'[q] = IdSet
                        /\ pc'[q] \notin {"range", "validated"} => used'[q] = {}
        BY DEF Calling
    <2>1. CASE q = r
        BY <1>1, <1>3, <1>5, <2>1
    <2>2. CASE q # r
        BY <1>1, <1>3, <2>2 DEF Calling
    <2> QED BY <2>1, <2>2
<1>7. /\ Ahead' /\ Converging'
      /\ cache'[IdSet] = IdMap
      /\ \A n \in Name : cache'[n] # None => MadeFor(cache'[n], n)
      /\ \A q \in Request \ {r} : PointersOf(q)' /\ FirstUseOf(q)'
    BY <1>1, <1>3, ReaderKeeps DEF Translating
<1>8. PointersOf(r)' /\ FirstUseOf(r)'
    BY <1>3 DEF PointersOf, FirstUseOf, Translating
<1>9. Pointers' /\ FirstUse'
    BY <1>7, <1>8 DEF Pointers, FirstUse
<1>10. Sourced'
    <2>1. \A q \in Request : \A u \in used[q] : q # r /\ Given(key[q], u[1], u[2])
        BY <1>5 DEF Sourced
    <2>2. \A q \in Request : \A u \in used'[q] : Given(key'[q], u[1], u[2])
        BY <1>1, <1>3, <2>1
    <2> QED BY <1>1, <2>2, TagsKept DEF Sourced
<1>11. Undisturbed'
    <2>1. \A q \in Request : Translating(q)' <=> Translating(q)
        BY <1>1, <1>3 DEF Translating
    <2>2. \A q \in Request \ {r} : /\ Active(q)' <=> Active(q)
                                   /\ WholeRange(q) => WholeRange(q)'
        BY <1>1, <1>3, <2>1, RangeKept DEF Active
    <2>3. ~disturbed'[r] => \A s \in Request : ~Translating(s)'
        BY <1>3, <2>1 DEF met
    <2> QED BY <1>3, <2>1, <2>2, <2>3 DEF Undisturbed, Alone
<1>12. AloneComplete' /\ PanicsOnlyUndeclared'
    BY <1>1, <1>3, TagsKept DEF AloneComplete, PanicsOnlyUndeclared
<1> QED BY <1>4, <1>6, <1>7, <1>9, <1>10, <1>11, <1>12

\* A rule set that is found is ranged over: that of ids has one field.
LEMMA BeginRangeInv ==
    ASSUME IndInv, NEW r \in Request, pc[r] \in {"look", "look again"},
           cache[key[r]] # None, BeginRange(r, cache[key[r]]),
           UNCHANGED <<tags, shared, call, key, todo, used, disturbed>>
    PROVE  IndInv'
<1> DEFINE m == cache[key[r]]
           present == {f \in Field : content[m][f] # None}
<1>1. /\ key[r] \in Key /\ used[r] = {}
      /\ call[r] = "ValidateVar" => key[r] = IdSet
    BY DEF IndInv, Calling
<1>2. call[r] = "ValidateVar" => Cardinality(present) = 1
    <2> SUFFICES ASSUME call[r] = "ValidateVar" PROVE Cardinality(present) = 1
        OBVIOUS
    <2>1. content[m] = [Empty EXCEPT ![1] = IdRules]
        BY <1>1 DEF IndInv, Pointers, Sourced
    <2>2. present = {1}
        <3>1. 1 \in Field /\ IdRules # None
            <4>1. 1 \in Field
                BY ONLY FieldAssumption DEF Field
            <4>2. IdRules # None
                BY ONLY RulesAssumption, NoneAssumption
            <4> QED BY <4>1, <4>2
        <3>2. \A f \in Field : content[m][f] = IF f = 1 THEN IdRules ELSE None
            BY <2>1 DEF Empty
        <3> HIDE DEF m
        <3> QED BY <3>1, <3>2
    <2> QED BY <2>2, FS_Singleton
<1>3. /\ held' = [held EXCEPT ![r] = m] /\ must' = [must EXCEPT ![r] = present]
      /\ pc' = [pc EXCEPT ![r] = "range"]
      /\ UNCHANGED <<cache, content, writing>>
    BY <1>2 DEF BeginRange, Goto, shared
<1>4. m \in Map /\ present \in SUBSET Field
    BY <1>1 DEF IndInv, TypeOK
<1> HIDE DEF m, present
<1> USE DEF IndInv
<1>5. /\ pc'[r] = "range" /\ held'[r] = m /\ must'[r] = present
      /\ \A q \in Request \ {r} : /\ pc'[q] = pc[q] /\ held'[q] = held[q]
                                  /\ must'[q] = must[q]
    BY <1>3 DEF TypeOK
<1>6. TypeOK'
    <2>1. /\ pc' \in [Request -> Ended \cup {"idle", "look", "find", "make", "made",
                            "store", "stored", "look again", "range"}]
          /\ held' \in [Request -> Map \cup {None}]
          /\ must' \in [Request -> SUBSET Field]
        BY <1>3, <1>4 DEF TypeOK
    <2> QED BY <1>3, <2>1, TagsKept DEF TypeOK
<1>7. Calling'
    BY <1>5 DEF Calling
<1>8. /\ Ahead' /\ Converging'
      /\ cache'[IdSet] = IdMap
      /\ \A k \in Name : cache'[k] # None => MadeFor(cache'[k], k)
      /\ \A q \in Request \ {r} : PointersOf(q)' /\ FirstUseOf(q)'
    BY <1>5, ReaderKeeps DEF Translating
<1>9. PointersOf(r)'
    <2>1. IF key[r] = IdSet THEN m = IdMap ELSE MadeFor(m, key[r])
        BY <1>1 DEF m, Pointers, Key
    <2> QED BY <1>5, <2>1 DEF PointersOf, MadeFor
<1>10. FirstUseOf(r)'
    BY <1>5 DEF FirstUseOf, Translating
<1>11. Pointers' /\ FirstUse'
    BY <1>8, <1>9, <1>10 DEF Pointers, FirstUse
<1>12. Sourced'
    BY <1>3, TagsKept DEF Sourced
<1>13. Undisturbed'
    <2>1. \A q \in Request : /\ Translating(q)' <=> Translating(q)
                             /\ Active(q)' <=> Active(q)
        BY <1>5 DEF Translating, Active
    <2>2. \A q \in Request \ {r} : WholeRange(q) => WholeRange(q)'
        BY <1>3, <1>5, RangeKept
    <2>3. WholeRange(r)'
        BY <1>1, <1>3, <1>5 DEF WholeRange, m, present
    <2> QED BY <1>5, <2>1, <2>2, <2>3 DEF Undisturbed, Alone
<1>14. AloneComplete' /\ PanicsOnlyUndeclared'
    BY <1>5, TagsKept DEF AloneComplete, PanicsOnlyUndeclared
<1> QED BY <1>6, <1>7, <1>8, <1>11, <1>12, <1>13, <1>14

\* When nobody translates, the cached rule sets are complete.
LEMMA QuietIsComplete == IndInv => QuietComplete
<1> SUFFICES ASSUME IndInv, BadFields = {}, \A r \in Request : ~Translating(r),
                    NEW k \in Key, cache[k] # None
             PROVE  SetOf(cache[k]) = Complete(k)
    BY DEF QuietComplete
<1> USE DEF IndInv
<1> USE NoneAssumption
<1>1. CASE k = IdSet
    <2>1. cache[k] = IdMap /\ content[IdMap] = [Empty EXCEPT ![1] = IdRules]
        BY <1>1 DEF Pointers, Sourced
    <2>2. 1 \in Field /\ IdRules # None
        BY FieldAssumption, RulesAssumption DEF Field
    <2>3. \A f \in Field : content[IdMap][f] = IF f = 1 THEN IdRules ELSE None
        BY <2>1 DEF Empty
    <2>4. {g \in Field : content[IdMap][g] # None} = {1}
        BY <2>2, <2>3
    <2>5. SetOf(IdMap) = {<<1, IdRules>>}
        BY <2>2, <2>3, <2>4 DEF SetOf
    <2> QED BY <1>1, <2>1, <2>5 DEF Complete
<1>2. CASE k \in Name
    <2>1. PICK q \in Request : cache[k] = <<q, k>>
        BY <1>2 DEF Pointers, MadeFor
    <2>2. \A p \in Calls : NameAt(p) = k /\ Final(p) => content[cache[k]][p[1]] = RulesAt(p)
        BY <1>2 DEF Converging, Pending
    <2>3. tags \in TagChoices
        BY DEF TypeOK
    <2>4. ASSUME NEW f \in Field, content[cache[k]][f] # None
          PROVE  <<f, content[cache[k]][f]>> \in Complete(k)
        <3>1. Given(k, f, content[cache[k]][f])
            BY <1>2, <2>1, <2>4 DEF Sourced
        <3>2. PICK p \in Calls : p[1] = f /\ NameAt(p) = k
            BY <1>2, <3>1, NameAssumption DEF Given
        <3>3. PICK c \in Calls : Final(c) /\ c[1] = f /\ NameAt(c) = k
            BY <2>3, <3>2, FinalExists
        <3> QED BY <1>2, <2>2, <2>3, <3>3, CompleteCalls
    <2>5. ASSUME NEW u \in Complete(k)
          PROVE  u \in SetOf(cache[k])
        <3>1. PICK p \in Calls : NameAt(p) = k /\ Final(p) /\ u = <<p[1], RulesAt(p)>>
            BY <1>2, <2>3, CompleteCalls
        <3>2. p[1] \in Field /\ RulesAt(p) # None
            BY <2>3, CallFacts
        <3> QED BY <2>2, <3>1, <3>2 DEF SetOf
    <2> QED BY <2>4, <2>5 DEF SetOf
<1> QED BY <1>1, <1>2 DEF Key

\* A request that panics for a reason leaves all else as it is.
LEMMA PanicInv ==
    ASSUME IndInv, NEW r \in Request, pc[r] \in {"look", "look again"},
           Goto(r, "panicked"), UNCHANGED <<tags, shared, local, disturbed>>,
           call[r] = "ValidateMap" \/ Complete(key[r]) = {}
    PROVE  IndInv'
<1>1. /\ pc' = [pc EXCEPT ![r] = "panicked"]
      /\ UNCHANGED <<cache, content, writing, call, key, todo, held, must, used>>
    BY DEF Goto, shared, local
<1> USE DEF IndInv
<1>2. /\ pc'[r] = "panicked"
      /\ \A q \in Request \ {r} : pc'[q] = pc[q]
    BY <1>1 DEF TypeOK
<1>3. TypeOK'
    BY <1>1, TagsKept DEF TypeOK, Ended
<1>4. Calling'
    BY <1>1, <1>2 DEF Calling
<1>5. /\ Ahead' /\ Converging'
      /\ cache'[IdSet] = IdMap
      /\ \A k \in Name : cache'[k] # None => MadeFor(cache'[k], k)
      /\ \A q \in Request \ {r} : PointersOf(q)' /\ FirstUseOf(q)'
    BY <1>1, <1>2, ReaderKeeps DEF Translating
<1>6. PointersOf(r)' /\ FirstUseOf(r)'
    BY <1>2 DEF PointersOf, FirstUseOf, Translating
<1>7. Pointers' /\ FirstUse'
    BY <1>5, <1>6 DEF Pointers, FirstUse
<1>8. Sourced'
    BY <1>1, TagsKept DEF Sourced
<1>9. Undisturbed'
    <2>1. \A q \in Request : /\ Translating(q)' <=> Translating(q)
                             /\ Active(q)' => Active(q)
        BY <1>1, <1>2 DEF Translating, Active
    <2>2. \A q \in Request : pc'[q] = "range" => pc[q] = "range"
        BY <1>2
    <2>3. \A q \in Request : WholeRange(q) => WholeRange(q)'
        BY <1>1, RangeKept
    <2> QED BY <1>1, <2>1, <2>2, <2>3 DEF Undisturbed, Alone
<1>10. AloneComplete'
    BY <1>1, <1>2, TagsKept DEF AloneComplete
<1>11. PanicsOnlyUndeclared'
    BY <1>1, <1>2, TagsKept DEF PanicsOnlyUndeclared
<1> QED BY <1>3, <1>4, <1>5, <1>7, <1>8, <1>9, <1>10, <1>11

\* The rule set of ids is always there.
LEMMA IdsCached == IndInv => IdMap # None /\ cache[IdSet] = IdMap
BY NoneAssumption DEF IndInv, Pointers, Map

LEMMA LookInv == ASSUME IndInv, NEW r \in Request, Look(r) PROVE IndInv'
<1>1. pc[r] = "look" /\ call[r] \in {"ValidateStruct", "ValidateVar", "ValidateMap"}
    BY DEF Look, At, IndInv, Calling
<1>2. CASE MayNotice(RuleSetCache, r)
    BY <1>2, NoticeInv DEF IndInv
<1>3. CASE /\ cache[key[r]] # None
           /\ BeginRange(r, cache[key[r]])
           /\ UNCHANGED <<tags, shared, call, key, todo, used, disturbed>>
    BY <1>1, <1>3, BeginRangeInv
<1>4. CASE /\ cache[key[r]] = None /\ call[r] # "ValidateStruct"
           /\ Goto(r, "panicked")
           /\ UNCHANGED <<tags, shared, local, disturbed>>
    <2>1. call[r] # "ValidateVar"
        BY <1>1, <1>4, IdsCached DEF IndInv, Calling
    <2> QED BY <1>1, <1>4, <2>1, PanicInv
<1>5. CASE /\ cache[key[r]] = None /\ call[r] = "ValidateStruct"
           /\ Goto(r, "find")
           /\ todo' = [todo EXCEPT ![r] = Calls]
           /\ disturbed' = [q \in Request |-> disturbed[q] \/ (q # r /\ Active(q))]
           /\ UNCHANGED <<tags, shared, call, key, held, must, used>>
    <2> DEFINE met(q) == disturbed[q] \/ (q # r /\ Active(q))
    <2>1. /\ UNCHANGED <<cache, content, writing>>
          /\ pc' = [pc EXCEPT ![r] = "find"]
        BY <1>5 DEF shared, Goto
    <2>2. \A q \in Request : met(q) \in BOOLEAN
        BY DEF IndInv, TypeOK
    <2>3. disturbed' \in [Request -> BOOLEAN] /\ \A q \in Request : disturbed'[q] = met(q)
        BY <1>5, <2>2
    <2> USE DEF IndInv
    <2>4. /\ pc'[r] = "find" /\ todo'[r] = Calls
          /\ \A q \in Request \ {r} : pc'[q] = pc[q] /\ todo'[q] = todo[q]
        BY <1>5, <2>1 DEF TypeOK
    <2>5. TypeOK'
        <3>1. /\ pc' \in [Request -> Ended \cup {"idle", "look", "find", "make", "made",
                            "store", "stored", "look again", "range"}]
              /\ todo' \in [Request -> SUBSET Calls]
            BY <1>5, <2>1 DEF TypeOK
        <3> QED BY <1>5, <2>1, <2>3, <3>1, TagsKept DEF TypeOK
    <2>6. Calling'
        BY <1>1, <1>5, <2>4 DEF Calling
    <2>7. \A q \in Request \ {r} : PointersOf(q)' /\ FirstUseOf(q)'
        BY <1>5, <2>1, <2>4, OthersKept
    <2>8. PointersOf(r)' /\ FirstUseOf(r)'
        BY <1>5, <2>4, TagsKept DEF PointersOf, FirstUseOf
    <2>9. Pointers' /\ FirstUse'
        BY <2>1, <2>7, <2>8 DEF Pointers, FirstUse, MadeFor
    <2>10. Sourced'
        BY <1>5, <2>1, TagsKept DEF Sourced
    <2>11. Ahead'
        BY <1>5, <2>4, TagsKept DEF Ahead, Before
    <2>12. Converging'
        BY <1>1, <1>5, <2>1, <2>4, SharedKept DEF Pending, Translating
    <2>13. Undisturbed'
        <3>1. \A q \in Request \ {r} : /\ Translating(q)' <=> Translating(q)
                                       /\ Active(q)' <=> Active(q)
            BY <2>4 DEF Translating, Active
        <3>2. Active(r)
            BY <1>1 DEF Active
        <3>3. ~disturbed'[r] => Alone(r)' /\ pc'[r] # "range"
            BY <2>3, <2>4, <3>1, <3>2 DEF Undisturbed, Alone
        <3>4. ASSUME NEW q \in Request \ {r}, ~disturbed'[q]
              PROVE  ~Active(q)' /\ pc'[q] # "range"
            BY <2>3, <2>4, <3>1, <3>4 DEF Active
        <3> QED BY <3>3, <3>4 DEF Undisturbed, Alone
    <2>14. AloneComplete'
        BY <1>5, <2>3, <2>4, TagsKept DEF AloneComplete
    <2>15. PanicsOnlyUndeclared'
        BY <1>5, <2>4, TagsKept DEF PanicsOnlyUndeclared
    <2> QED BY <2>5, <2>6, <2>9, <2>10, <2>11, <2>12, <2>13, <2>14, <2>15
<1> QED BY <1>2, <1>3, <1>4, <1>5 DEF Look

LEMMA LookAgainInv == ASSUME IndInv, NEW r \in Request, LookAgain(r) PROVE IndInv'
<1>1. pc[r] = "look again" /\ key[r] \in Key
    BY DEF LookAgain, At, IndInv, Calling
<1>2. CASE MayNotice(RuleSetCache, r)
    BY <1>2, NoticeInv DEF IndInv
<1>3. CASE /\ cache[key[r]] # None
           /\ BeginRange(r, cache[key[r]])
           /\ UNCHANGED <<tags, shared, call, key, todo, used, disturbed>>
    BY <1>1, <1>3, BeginRangeInv
<1>4. CASE /\ cache[key[r]] = None
           /\ Goto(r, "panicked")
           /\ UNCHANGED <<tags, shared, local, disturbed>>
    <2>1. key[r] \in Name
        BY <1>1, <1>4, IdsCached DEF Key
    <2>2. BadFields = {} /\ \A p \in Calls : NameAt(p) # key[r]
        BY <1>1, <1>4 DEF IndInv, FirstUse, FirstUseOf
    <2>3. Complete(key[r]) = {}
        BY <2>1, <2>2, CompleteCalls DEF IndInv, TypeOK
    <2> QED BY <1>1, <1>4, <2>3, PanicInv
<1> QED BY <1>2, <1>3, <1>4 DEF LookAgain

\* A request that reads or writes a map has one.
LEMMA HeldMap ==
    ASSUME IndInv, NEW r \in Request, pc[r] \in {"range", "made", "store", "stored"}
    PROVE  held[r] \in Map /\ held[r] # None
<1> SUFFICES held[r] \in Map
    BY NoneAssumption
<1>1. TypeOK /\ PointersOf(r)
    BY DEF IndInv, Pointers
<1>2. CASE pc[r] = "range"
    <2>1. key[r] \in Key
        BY <1>2 DEF IndInv, Calling
    <2>2. CASE key[r] = IdSet
        BY <1>1, <1>2, <2>2 DEF PointersOf, Map
    <2>3. CASE key[r] # IdSet
        <3>1. PICK q \in Request : held[r] = <<q, key[r]>>
            BY <1>1, <1>2, <2>3 DEF PointersOf, MadeFor
        <3> QED BY <2>1, <2>3, <3>1 DEF Key, Map
    <2> QED BY <2>2, <2>3
<1>3. CASE pc[r] # "range"
    <2>1. todo[r] # {} /\ MadeFor(held[r], NameAt(Current(r)))
        BY <1>1, <1>3 DEF PointersOf
    <2>2. NameAt(Current(r)) \in Name
        BY <1>1, <2>1, CurrentFacts
    <2> QED BY <2>1, <2>2 DEF MadeFor, Map
<1> QED BY <1>2, <1>3

LEMMA VisitInv ==
    ASSUME IndInv, NEW r \in Request, NEW f \in Field, Visit(r, f) PROVE IndInv'
<1>1. pc[r] = "range" /\ content[held[r]][f] # None
    BY DEF Visit, At
<1>2. CASE MayNotice(held[r], r)
    BY <1>2, NoticeInv DEF IndInv
<1>3. CASE /\ used' = [used EXCEPT ![r] = @ \cup {<<f, content[held[r]][f]>>}]
           /\ UNCHANGED <<tags, shared, pc, call, key, todo, held, must, disturbed>>
    <2> DEFINE v == content[held[r]][f]
    <2>1. UNCHANGED <<cache, content, writing>>
        BY <1>3 DEF shared
    <2> USE DEF IndInv
    <2>2. key[r] \in Key /\ PointersOf(r)
        BY <1>1 DEF Calling, Pointers
    <2>3. Given(key[r], f, v)
        <3>1. CASE key[r] = IdSet
            <4>1. held[r] = IdMap /\ content[IdMap] = [Empty EXCEPT ![1] = IdRules]
                BY <1>1, <2>2, <3>1 DEF PointersOf, Sourced
            <4>2. v = IF f = 1 THEN IdRules ELSE None
                BY <4>1 DEF Empty
            <4> QED BY <1>1, <3>1, <4>2 DEF Given
        <3>2. CASE key[r] # IdSet
            <4>1. PICK q \in Request : held[r] = <<q, key[r]>>
                BY <1>1, <2>2, <3>2 DEF PointersOf, MadeFor
            <4>2. key[r] \in Name
                BY <2>2, <3>2 DEF Key
            <4> QED BY <1>1, <4>1, <4>2 DEF Sourced
        <3> QED BY <3>1, <3>2
    <2>4. v \in Rules
        <3>1. held[r] \in Map
            BY <1>1, HeldMap
        <3>2. content[held[r]] \in [Field -> Rules \cup {None}]
            BY <3>1 DEF TypeOK
        <3> QED BY <1>1, <3>2
    <2> HIDE DEF v
    <2>5. /\ used'[r] = used[r] \cup {<<f, v>>}
          /\ \A q \in Request \ {r} : used'[q] = used[q]
        BY <1>3 DEF TypeOK, v
    <2>6. TypeOK'
        <3>1. used' \in [Request -> SUBSET (Field \X Rules)]
            <4>1. <<f, v>> \in Field \X Rules
                BY <2>4
            <4>2. used' = [used EXCEPT ![r] = used[r] \cup {<<f, v>>}]
                BY <1>3 DEF v
            <4> QED BY <4>1, <4>2 DEF TypeOK
        <3> QED BY <1>3, <2>1, <3>1, TagsKept DEF TypeOK
    <2>7. Calling'
        BY <1>1, <1>3, <2>5 DEF Calling
    <2>8. /\ Ahead' /\ Converging'
          /\ cache'[IdSet] = IdMap
          /\ \A k \in Name : cache'[k] # None => MadeFor(cache'[k], k)
          /\ \A q \in Request \ {r} : PointersOf(q)' /\ FirstUseOf(q)'
        BY <1>1, <1>3, ReaderKeeps DEF Translating
    <2>9. PointersOf(r)' /\ FirstUseOf(r)'
        BY <1>1, <1>3, <2>2 DEF PointersOf, FirstUseOf, Translating, MadeFor
    <2>10. Pointers' /\ FirstUse'
        BY <2>8, <2>9 DEF Pointers, FirstUse
    <2>11. Sourced'
        <3>1. \A q \in Request : \A u \in used'[q] : Given(key[q], u[1], u[2])
            BY <2>3, <2>5 DEF Sourced
        <3> QED BY <1>3, <2>1, <3>1, TagsKept DEF Sourced
    <2>12. Undisturbed'
        <3>1. \A q \in Request : /\ Translating(q)' <=> Translating(q)
                                 /\ Active(q)' <=> Active(q)
            BY <1>3 DEF Translating, Active
        <3>2. \A q \in Request \ {r} : WholeRange(q) => WholeRange(q)'
            BY <1>3, <2>1, <2>5, RangeKept
        <3>3. SetOf(held[r])' = SetOf(held[r]) /\ <<f, v>> \in SetOf(held[r])
            BY <1>1, <1>3, <2>1 DEF SetOf, v
        <3>4. WholeRange(r) => WholeRange(r)'
            BY <1>3, <2>1, <2>5, <3>3 DEF WholeRange
        <3> QED BY <1>3, <3>1, <3>2, <3>4 DEF Undisturbed, Alone
    <2>13. AloneComplete'
        BY <1>1, <1>3, <2>5, TagsKept DEF AloneComplete
    <2>14. PanicsOnlyUndeclared'
        BY <1>3, TagsKept DEF PanicsOnlyUndeclared
    <2> QED BY <2>6, <2>7, <2>8, <2>10, <2>11, <2>12, <2>13, <2>14
<1> QED BY <1>2, <1>3 DEF Visit

LEMMA EndRangeInv ==
    ASSUME IndInv, NEW r \in Request, EndRange(r) PROVE IndInv'
<1>1. pc[r] = "range" /\ must[r] \subseteq Seen(r)
    BY DEF EndRange, At
<1>2. CASE MayNotice(held[r], r)
    BY <1>2, NoticeInv DEF IndInv
<1>3. CASE /\ Goto(r, "validated")
           /\ held' = [held EXCEPT ![r] = None]
           /\ must' = [must EXCEPT ![r] = {}]
           /\ UNCHANGED <<tags, shared, call, key, todo, used, disturbed>>
    <2>1. /\ UNCHANGED <<cache, content, writing>>
          /\ pc' = [pc EXCEPT ![r] = "validated"]
        BY <1>3 DEF shared, Goto
    <2>2. BadFields = {} /\ ~disturbed[r] => used[r] = Complete(key[r])
        <3> SUFFICES ASSUME BadFields = {}, ~disturbed[r] PROVE used[r] = Complete(key[r])
            OBVIOUS
        <3>1. WholeRange(r) /\ Alone(r)
            BY <1>1 DEF IndInv, Undisturbed
        <3>2. \A q \in Request : ~Translating(q)
            BY <1>1, <3>1 DEF Alone, Active, Translating
        <3>3. cache[key[r]] # None /\ key[r] \in Key
            <4>1. held[r] # None
                BY <1>1, HeldMap
            <4> QED BY <1>1, <3>1, <4>1 DEF WholeRange, IndInv, Calling
        <3>4. SetOf(held[r]) = Complete(key[r])
            BY <3>1, <3>2, <3>3, QuietIsComplete DEF QuietComplete, WholeRange
        <3>5. ASSUME NEW f \in must[r] PROVE <<f, content[held[r]][f]>> \in used[r]
            <4>1. PICK u \in used[r] : u[1] = f
                BY <1>1 DEF Seen
            <4>2. u = <<f, content[held[r]][f]>>
                BY <3>1, <4>1 DEF WholeRange, SetOf
            <4> QED BY <4>1, <4>2
        <3>6. SetOf(held[r]) \subseteq used[r]
            BY <3>1, <3>5 DEF WholeRange, SetOf
        <3> QED BY <3>1, <3>4, <3>6 DEF WholeRange
    <2> USE DEF IndInv
    <2>3. /\ pc'[r] = "validated"
          /\ \A q \in Request \ {r} : /\ pc'[q] = pc[q] /\ held'[q] = held[q]
                                      /\ must'[q] = must[q]
        BY <1>3, <2>1 DEF TypeOK
    <2>4. TypeOK'
        <3>1. /\ pc' \in [Request -> Ended \cup {"idle", "look", "find", "make", "made",
                            "store", "stored", "look again", "range"}]
              /\ held' \in [Request -> Map \cup {None}]
              /\ must' \in [Request -> SUBSET Field]
            BY <1>3, <2>1 DEF TypeOK, Ended
        <3> QED BY <1>3, <2>1, <3>1, TagsKept DEF TypeOK
    <2>5. Calling'
        BY <1>1, <1>3, <2>3 DEF Calling
    <2>6. /\ Ahead' /\ Converging'
          /\ cache'[IdSet] = IdMap
          /\ \A k \in Name : cache'[k] # None => MadeFor(cache'[k], k)
          /\ \A q \in Request \ {r} : PointersOf(q)' /\ FirstUseOf(q)'
        BY <1>1, <1>3, <2>3, ReaderKeeps DEF Translating
    <2>7. PointersOf(r)' /\ FirstUseOf(r)'
        BY <2>3 DEF PointersOf, FirstUseOf, Translating
    <2>8. Pointers' /\ FirstUse'
        BY <2>6, <2>7 DEF Pointers, FirstUse
    <2>9. Sourced'
        BY <1>3, <2>1, TagsKept DEF Sourced
    <2>10. Undisturbed'
        <3>1. \A q \in Request : /\ Translating(q)' <=> Translating(q)
                                 /\ Active(q)' => Active(q)
            BY <1>1, <2>3 DEF Translating, Active
        <3>2. \A q \in Request \ {r} : WholeRange(q) => WholeRange(q)'
            BY <1>3, <2>1, <2>3, RangeKept
        <3> QED BY <1>3, <2>3, <3>1, <3>2 DEF Undisturbed, Alone
    <2>11. AloneComplete'
        BY <1>3, <2>2, <2>3, TagsKept DEF AloneComplete
    <2>12. PanicsOnlyUndeclared'
        BY <1>3, <2>3, TagsKept DEF PanicsOnlyUndeclared
    <2> QED BY <2>4, <2>5, <2>6, <2>8, <2>9, <2>10, <2>11, <2>12
<1> QED BY <1>2, <1>3 DEF EndRange

-----------------------------------------------------------------------------
(***************************************************************************)
(* The steps of a translation                                              *)
(***************************************************************************)

LEMMA FindInv == ASSUME IndInv, NEW r \in Request, Find(r) PROVE IndInv'
<1> DEFINE k == NameAt(Current(r))
           m == cache[k]
<1>1. pc[r] = "find" /\ todo[r] # {} /\ Translating(r)
    BY DEF Find, At, Translating
<1>2. CASE MayNotice(RuleSetCache, r)
    BY <1>2, NoticeInv DEF IndInv
<1>3. CASE /\ Goto(r, IF m = None THEN "make" ELSE "store")
           /\ held' = [held EXCEPT ![r] = m]
           /\ UNCHANGED <<tags, shared, call, key, todo, must, used, disturbed>>
    <2>1. k \in Name /\ Current(r) \in Calls /\ Current(r) \in todo[r]
        BY <1>1, CurrentFacts DEF IndInv
    <2>2. m \in Map \cup {None} /\ (m # None => MadeFor(m, k))
        BY <2>1 DEF IndInv, TypeOK, Pointers, Key
    <2>3. /\ UNCHANGED <<cache, content, writing>>
          /\ pc' = [pc EXCEPT ![r] = IF m = None THEN "make" ELSE "store"]
        BY <1>3 DEF shared, Goto
    <2>4. Current(r)' = Current(r) /\ NameAt(Current(r))' = k
        BY <1>3, CurrentKept
    <2>5. \A p \in todo[r] : NameAt(p) = k => cache[NameAt(p)] = m
        OBVIOUS
    <2>6. \A p \in Calls : NameAt(p) = k /\ p \notin todo[r] => m # None
        BY <1>1 DEF IndInv, FirstUse, FirstUseOf
    <2> HIDE DEF m, k
    <2>7. /\ pc'[r] = IF m = None THEN "make" ELSE "store"
          /\ held'[r] = m
          /\ \A q \in Request \ {r} : pc'[q] = pc[q] /\ held'[q] = held[q]
        BY <1>3, <2>3 DEF IndInv, TypeOK
    <2>8. TypeOK'
        <3>1. /\ pc' \in [Request -> Ended \cup {"idle", "look", "find", "make", "made",
                            "store", "stored", "look again", "range"}]
              /\ held' \in [Request -> Map \cup {None}]
            BY <1>3, <2>2, <2>3 DEF IndInv, TypeOK
        <3> QED BY <1>3, <2>3, <3>1, TagsKept DEF IndInv, TypeOK
    <2>9. Calling' /\ Undisturbed' /\ AloneComplete' /\ PanicsOnlyUndeclared'
        BY <1>1, <1>3, <2>7, TranslationKeeps
    <2>10. \A q \in Request \ {r} : PointersOf(q)' /\ FirstUseOf(q)'
        BY <1>3, <2>3, <2>7, OthersKept
    <2>11. PointersOf(r)'
        BY <1>1, <1>3, <2>2, <2>4, <2>7 DEF PointersOf, MadeFor
    <2>12. FirstUseOf(r)'
        <3>1. pc'[r] = "store" => cache[k] # None
            BY <2>7 DEF m
        <3>2. pc'[r] = "make" => \A p \in Calls : NameAt(p) = k => p \in todo[r]
            BY <2>6, <2>7
        <3>3. \A p \in Calls \ todo[r] : cache[NameAt(p)] # None
            BY <1>1 DEF IndInv, FirstUse, FirstUseOf
        <3>4. Calls' = Calls /\ \A p : NameAt(p)' = NameAt(p)
            BY <1>3, TagsKept
        <3>5. pc'[r] \in {"make", "store"}
            BY <2>7
        <3> QED BY <1>3, <2>3, <2>4, <3>1, <3>2, <3>3, <3>4, <3>5 DEF FirstUseOf
    <2>13. Pointers' /\ FirstUse'
        BY <2>3, <2>10, <2>11, <2>12 DEF IndInv, Pointers, FirstUse, MadeFor
    <2>14. Sourced' /\ Ahead'
        BY <1>3, <2>3, TagsKept DEF IndInv, Sourced, Ahead, Before
    <2>15. Converging'
        <3>1. ASSUME NEW n, NEW p \in Calls, n = cache[NameAt(p)], Pending(r, n, p)
              PROVE  Pending(r, n, p)'
            <4>1. PICK q \in todo[r] : q[1] = p[1] /\ q[2] = p[2] /\ NameAt(q) = NameAt(p)
                BY <3>1 DEF Pending
            <4>2. q = Current(r) => n = m
                BY <3>1, <4>1 DEF m, k
            <4>3. \A c : NameAt(c)' = NameAt(c)
                BY <1>3, TagsKept
            <4> QED BY <1>3, <2>4, <2>7, <4>1, <4>2, <4>3 DEF Pending, Translating
        <3> QED BY <1>3, <2>3, <2>7, <3>1, SharedKept
    <2> QED BY <2>8, <2>9, <2>13, <2>14, <2>15 DEF IndInv
<1> QED BY <1>1, <1>2, <1>3 DEF Find

LEMMA MadeInv == ASSUME IndInv, NEW r \in Request, Made(r) PROVE IndInv'
<1>1. /\ pc[r] = "made" /\ Translating(r)
      /\ pc' = [pc EXCEPT ![r] = "store"]
      /\ writing' = [writing EXCEPT ![RuleSetCache] = None]
      /\ UNCHANGED <<tags, cache, content, call, key, todo, held, must, used, disturbed>>
    BY DEF Made, At, Goto, local, Translating
<1>2. /\ pc'[r] = "store"
      /\ \A q \in Request \ {r} : pc'[q] = pc[q]
    BY <1>1 DEF IndInv, TypeOK
<1>3. Current(r)' = Current(r) /\ NameAt(Current(r))' = NameAt(Current(r))
    BY <1>1, CurrentKept
<1>4. TypeOK'
    <2>1. /\ pc' \in [Request -> Ended \cup {"idle", "look", "find", "make", "made",
                            "store", "stored", "look again", "range"}]
          /\ writing' \in [Memory -> Request \cup {None}]
        BY <1>1 DEF IndInv, TypeOK
    <2> QED BY <1>1, <2>1, TagsKept DEF IndInv, TypeOK
<1>5. Calling' /\ Undisturbed' /\ AloneComplete' /\ PanicsOnlyUndeclared'
    BY <1>1, <1>2, TranslationKeeps
<1>6. \A q \in Request \ {r} : PointersOf(q)' /\ FirstUseOf(q)'
    BY <1>1, <1>2, OthersKept
<1>7. PointersOf(r)'
    BY <1>1, <1>2, <1>3 DEF IndInv, Pointers, PointersOf, MadeFor
<1>8. FirstUseOf(r)'
    BY <1>1, <1>2, <1>3, TagsKept DEF IndInv, FirstUse, FirstUseOf, Translating
<1>9. Pointers' /\ FirstUse'
    BY <1>1, <1>6, <1>7, <1>8 DEF IndInv, Pointers, FirstUse, MadeFor
<1>10. Sourced' /\ Ahead'
    BY <1>1, TagsKept DEF IndInv, Sourced, Ahead, Before
<1>11. Converging'
    <2>1. \A m, p : Pending(r, m, p) => Pending(r, m, p)'
        <3>1. \A c : NameAt(c)' = NameAt(c)
            BY <1>1, TagsKept
        <3> QED BY <1>1, <1>2, <1>3, <3>1 DEF Pending, Translating
    <2> QED BY <1>1, <1>2, <2>1, SharedKept
<1> QED BY <1>4, <1>5, <1>9, <1>10, <1>11 DEF IndInv

LEMMA TranslatedInv == ASSUME IndInv, NEW r \in Request, Translated(r) PROVE IndInv'
<1> DEFINE next == IF BadFields = {} THEN "look again" ELSE "panicked"
<1>1. /\ pc[r] = "find" /\ todo[r] = {} /\ Translating(r)
      /\ pc' = [pc EXCEPT ![r] = next]
      /\ UNCHANGED <<tags, cache, content, writing, call, key, todo, held, must, used,
                     disturbed>>
    BY DEF Translated, At, Goto, shared, local, Translating
<1>2. /\ pc'[r] = next
      /\ \A q \in Request \ {r} : pc'[q] = pc[q]
    BY <1>1 DEF IndInv, TypeOK
<1>3. TypeOK'
    <2>1. pc' \in [Request -> Ended \cup {"idle", "look", "find", "make", "made",
                            "store", "stored", "look again", "range"}]
        BY <1>1 DEF IndInv, TypeOK, Ended
    <2> QED BY <1>1, <2>1, TagsKept DEF IndInv, TypeOK
<1>4. Calling' /\ Undisturbed' /\ AloneComplete' /\ PanicsOnlyUndeclared'
    <2>1. pc'[r] = "look again" \/ (pc'[r] = "panicked" /\ BadFields # {})
        BY <1>2
    <2> QED BY <1>1, <1>2, <2>1, TranslationKeeps
<1>5. \A q \in Request \ {r} : PointersOf(q)' /\ FirstUseOf(q)'
    BY <1>1, <1>2, OthersKept
<1>6. PointersOf(r)'
    BY <1>2 DEF PointersOf
<1>7. FirstUseOf(r)'
    <2>1. \A p \in Calls : cache[NameAt(p)] # None
        BY <1>1 DEF IndInv, FirstUse, FirstUseOf
    <2>2. /\ Calls' = Calls /\ BadFields' = BadFields
          /\ \A p : NameAt(p)' = NameAt(p)
        BY <1>1, TagsKept
    <2>3. pc'[r] = "look again" \/ pc'[r] = "panicked"
        BY <1>2
    <2>4. pc'[r] = "look again" => BadFields = {}
        BY <1>2
    <2> QED BY <1>1, <2>1, <2>2, <2>3, <2>4 DEF FirstUseOf, Translating
<1>8. Pointers' /\ FirstUse'
    BY <1>1, <1>5, <1>6, <1>7 DEF IndInv, Pointers, FirstUse, MadeFor
<1>9. Sourced' /\ Ahead'
    BY <1>1, TagsKept DEF IndInv, Sourced, Ahead, Before
<1>10. Converging'
    <2>1. \A m, p : ~Pending(r, m, p)
        BY <1>1 DEF Pending
    <2> QED BY <1>1, <1>2, <2>1, SharedKept
<1> QED BY <1>3, <1>4, <1>8, <1>9, <1>10 DEF IndInv

LEMMA StoredInv == ASSUME IndInv, NEW r \in Request, Stored(r) PROVE IndInv'
<1> DEFINE c == Current(r)
<1>1. /\ pc[r] = "stored" /\ Translating(r)
      /\ pc' = [pc EXCEPT ![r] = "find"]
      /\ writing' = [writing EXCEPT ![held[r]] = None]
      /\ todo' = [todo EXCEPT ![r] = todo[r] \ {c}]
      /\ UNCHANGED <<tags, cache, content, call, key, held, must, used, disturbed>>
    BY DEF Stored, At, Goto, Translating
<1>2. /\ c \in todo[r] /\ c \in Calls
      /\ \A q \in todo[r] : c = q \/ Before(c, q)
    BY <1>1, CurrentFacts DEF IndInv, Pointers, PointersOf
<1>3. cache[NameAt(c)] # None
    BY <1>1 DEF IndInv, FirstUse, FirstUseOf
<1> HIDE DEF c
<1>4. /\ pc'[r] = "find" /\ todo'[r] = todo[r] \ {c}
      /\ \A q \in Request \ {r} : pc'[q] = pc[q] /\ todo'[q] = todo[q]
    BY <1>1 DEF IndInv, TypeOK
<1>5. TypeOK'
    <2>1. /\ pc' \in [Request -> Ended \cup {"idle", "look", "find", "make", "made",
                            "store", "stored", "look again", "range"}]
          /\ writing' \in [Memory -> Request \cup {None}]
          /\ todo' \in [Request -> SUBSET Calls]
        BY <1>1 DEF IndInv, TypeOK
    <2> QED BY <1>1, <2>1, TagsKept DEF IndInv, TypeOK
<1>6. Calling' /\ Undisturbed' /\ AloneComplete' /\ PanicsOnlyUndeclared'
    BY <1>1, <1>4, TranslationKeeps
<1>7. \A q \in Request \ {r} : PointersOf(q)' /\ FirstUseOf(q)'
    BY <1>1, <1>4, OthersKept
<1>8. PointersOf(r)'
    BY <1>4 DEF PointersOf
<1>9. FirstUseOf(r)'
    <2>1. \A p \in Calls \ todo'[r] : cache[NameAt(p)] # None
        BY <1>1, <1>3, <1>4 DEF IndInv, FirstUse, FirstUseOf
    <2>2. Calls' = Calls /\ \A p : NameAt(p)' = NameAt(p)
        BY <1>1, TagsKept
    <2> QED BY <1>1, <1>4, <2>1, <2>2 DEF FirstUseOf
<1>10. Pointers' /\ FirstUse'
    BY <1>1, <1>7, <1>8, <1>9 DEF IndInv, Pointers, FirstUse, MadeFor
<1>11. Sourced'
    BY <1>1, TagsKept DEF IndInv, Sourced
<1>12. Ahead'
    <2> SUFFICES ASSUME NEW q \in Request, NEW p \in todo'[q], NEW p2 \in Calls,
                        Before(p, p2)
                 PROVE  p2 \in todo'[q]
        BY <1>1, TagsKept DEF Ahead, Before
    <2>1. p \in todo[q] /\ p2 \in todo[q]
        BY <1>4 DEF IndInv, Ahead
    <2>2. CASE q # r
        BY <1>4, <2>1, <2>2
    <2>3. CASE q = r
        <3>1. p # c /\ Before(c, p)
            BY <1>2, <1>4, <2>1, <2>3
        <3>2. p \in Calls /\ tags \in TagChoices
            BY <2>1 DEF IndInv, TypeOK
        <3>3. ~Before(p, c)
            BY <1>2, <3>1, <3>2, CallFacts, BeforeOrders
        <3> QED BY <1>4, <2>1, <2>3, <3>3
    <2> QED BY <2>2, <2>3
<1>13. Converging'
    <2>1. ASSUME NEW m, NEW p, Pending(r, m, p) PROVE Pending(r, m, p)'
        <3>1. PICK q \in todo[r] : /\ q[1] = p[1] /\ q[2] = p[2] /\ NameAt(q) = NameAt(p)
                                   /\ q # c
            BY <1>1, <2>1 DEF Pending, c
        <3>2. \A d : NameAt(d)' = NameAt(d)
            BY <1>1, TagsKept
        <3> QED BY <1>4, <3>1, <3>2 DEF Pending, Translating
    <2> QED BY <1>1, <1>4, <2>1, SharedKept
<1> QED BY <1>5, <1>6, <1>10, <1>11, <1>12, <1>13 DEF IndInv

LEMMA MakeInv == ASSUME IndInv, NEW r \in Request, Make(r) PROVE IndInv'
<1> DEFINE c == Current(r)
           k == NameAt(c)
           m == <<r, k>>
<1>1. pc[r] = "make" /\ todo[r] # {} /\ Translating(r)
    BY DEF Make, At, Translating, IndInv, Pointers, PointersOf
<1>2. CASE MayNotice(RuleSetCache, r)
    BY <1>2, NoticeInv DEF IndInv
<1>3. CASE /\ cache' = [cache EXCEPT ![k] = m]
           /\ content' = [content EXCEPT ![m] = Empty]
           /\ held' = [held EXCEPT ![r] = m]
           /\ writing' = [writing EXCEPT ![RuleSetCache] = r]
           /\ Goto(r, "made")
           /\ UNCHANGED <<tags, call, key, todo, must, used, disturbed>>
    <2>1. k \in Name /\ c \in Calls /\ c \in todo[r]
        BY <1>1, CurrentFacts DEF IndInv
    <2>2. m \in Map /\ m # IdMap /\ m # None /\ k \in Key /\ k # IdSet
        BY <2>1, NameAssumption, NoneAssumption DEF Map, IdMap, Key
    <2>3. c' = c /\ NameAt(Current(r))' = k
        BY <1>3, CurrentKept
    <2>4. \A p \in Calls : NameAt(p) = k => p \in todo[r]
        BY <1>1 DEF IndInv, FirstUse, FirstUseOf
    <2>5. MadeFor(m, k)
        BY DEF MadeFor
    <2>6. \A q \in todo[r] : NameAt(q) # k => q # c
        OBVIOUS
    <2>7. \A q, n : <<q, n>> = m => n = k
        OBVIOUS
    <2> HIDE DEF c, k, m
    <2>8. /\ pc'[r] = "made" /\ held'[r] = m
          /\ \A q \in Request \ {r} : pc'[q] = pc[q] /\ held'[q] = held[q]
          /\ cache'[k] = m /\ content'[m] = Empty
          /\ \A n \in Key \ {k} : cache'[n] = cache[n]
          /\ \A n \in Map \ {m} : content'[n] = content[n]
        BY <1>3, <2>2 DEF IndInv, TypeOK, Goto
    <2>9. TypeOK'
        <3>1. /\ pc' \in [Request -> Ended \cup {"idle", "look", "find", "make", "made",
                            "store", "stored", "look again", "range"}]
              /\ held' \in [Request -> Map \cup {None}]
              /\ cache' \in [Key -> Map \cup {None}]
              /\ writing' \in [Memory -> Request \cup {None}]
            BY <1>3, <2>2 DEF IndInv, TypeOK, Goto
        <3>2. Empty \in [Field -> Rules \cup {None}]
            BY DEF Empty
        <3>3. content' \in [Map -> [Field -> Rules \cup {None}]]
            BY <1>3, <2>2, <3>2 DEF IndInv, TypeOK
        <3> QED BY <1>3, <3>1, <3>3, TagsKept DEF IndInv, TypeOK
    <2>10. Calling' /\ Undisturbed' /\ AloneComplete' /\ PanicsOnlyUndeclared'
        BY <1>1, <1>3, <2>8, TranslationKeeps
    <2>11. \A n \in Key : cache[n] # None => cache'[n] # None
        BY <2>2, <2>8
    <2>12. \A q \in Request \ {r} : PointersOf(q)' /\ FirstUseOf(q)'
        BY <1>3, <2>8, <2>11, OthersKept DEF Key
    <2>13. PointersOf(r)'
        BY <1>1, <1>3, <2>3, <2>5, <2>8 DEF PointersOf, MadeFor
    <2>14. FirstUseOf(r)'
        <3>1. \A p \in Calls \ todo[r] : cache'[NameAt(p)] # None
            <4>1. \A p \in Calls : NameAt(p) \in Key
                BY CallFacts DEF IndInv, TypeOK, Key
            <4> QED BY <1>1, <2>11, <4>1 DEF IndInv, FirstUse, FirstUseOf
        <3>2. Calls' = Calls /\ \A p : NameAt(p)' = NameAt(p)
            BY <1>3, TagsKept
        <3> QED BY <1>3, <2>2, <2>3, <2>8, <3>1, <3>2 DEF FirstUseOf
    <2>15. Pointers' /\ FirstUse'
        <3>1. cache'[IdSet] = IdMap
            BY <2>2, <2>8 DEF IndInv, Pointers, Key
        <3>2. \A n \in Name : cache'[n] # None => MadeFor(cache'[n], n)
            BY <2>5, <2>8 DEF IndInv, Pointers, Key
        <3> QED BY <2>12, <2>13, <2>14, <3>1, <3>2 DEF Pointers, FirstUse, MadeFor
    <2>16. Sourced'
        <3>1. content'[IdMap] = content[IdMap]
            BY <2>2, <2>8 DEF Map
        <3>2. ASSUME NEW q \in Request, NEW n \in Name, NEW f \in Field,
                     content'[<<q, n>>][f] # None
              PROVE  Given(n, f, content'[<<q, n>>][f])
            <4>1. <<q, n>> \in Map
                BY DEF Map
            <4>2. <<q, n>> # m
                BY <2>8, <3>2 DEF Empty
            <4> QED BY <2>8, <3>2, <4>1, <4>2 DEF IndInv, Sourced
        <3> QED BY <1>3, <3>1, <3>2, TagsKept DEF IndInv, Sourced, Empty
    <2>17. Ahead'
        BY <1>3, TagsKept DEF IndInv, Ahead, Before
    <2>18. Converging'
        <3> SUFFICES ASSUME NEW n \in Name, NEW cached, cached = cache'[n],
                            cached # None, NEW p \in Calls, NameAt(p) = n, Final(p)
                     PROVE  \/ content'[cached][p[1]] = RulesAt(p)
                            \/ \E q \in Request : Pending(q, cached, p)'
            BY <1>3, TagsKept DEF Converging
        <3>1. \A d : NameAt(d)' = NameAt(d)
            BY <1>3, TagsKept
        <3>2. CASE n = k
            <4>1. p \in todo[r]
                BY <2>4, <3>2
            <4>2. Pending(r, cached, p)'
                BY <1>3, <2>8, <3>1, <3>2, <4>1 DEF Pending, Translating
            <4> QED BY <4>2
        <3>3. CASE n # k
            <4>1. cached = cache[n]
                BY <2>8, <3>3 DEF Key
            <4>2. PICK q \in Request : cached = <<q, n>>
                BY <4>1 DEF IndInv, Pointers, MadeFor
            <4>3. content'[cached] = content[cached]
                BY <2>7, <2>8, <3>3, <4>2 DEF Map
            <4>4. SUFFICES ASSUME NEW s \in Request, Pending(s, cached, p)
                           PROVE  Pending(s, cached, p)'
                BY <4>1, <4>3 DEF IndInv, Converging
            <4>5. CASE s = r
                <5>1. PICK d \in todo[r] : /\ d[1] = p[1] /\ d[2] = p[2]
                                           /\ NameAt(d) = NameAt(p)
                    BY <4>4, <4>5 DEF Pending
                <5>2. d # c
                    BY <2>6, <3>3, <5>1
                <5> QED BY <1>3, <2>3, <2>8, <3>1, <4>5, <5>1, <5>2
                        DEF Pending, Translating, c
            <4>6. CASE s # r
                BY <1>3, <2>8, <4>4, <4>6, PendingKept
            <4> QED BY <4>5, <4>6
        <3> QED BY <3>2, <3>3
    <2> QED BY <2>9, <2>10, <2>15, <2>16, <2>17, <2>18 DEF IndInv
<1> QED BY <1>1, <1>2, <1>3 DEF Make

LEMMA StoreInv == ASSUME IndInv, NEW r \in Request, Store(r) PROVE IndInv'
<1> DEFINE c == Current(r)
           k == NameAt(c)
           m == held[r]
           f == c[1]
           v == RulesAt(c)
<1>1. pc[r] = "store" /\ todo[r] # {} /\ Translating(r)
    BY DEF Store, At, Translating, IndInv, Pointers, PointersOf
<1>2. CASE MayNotice(m, r)
    BY <1>2, NoticeInv DEF IndInv
<1>3. CASE /\ content' = [content EXCEPT ![m][f] = v]
           /\ writing' = [writing EXCEPT ![m] = r]
           /\ Goto(r, "stored")
           /\ UNCHANGED <<tags, cache, local, disturbed>>
    <2>0. UNCHANGED <<call, key, todo, held, must, used>>
        BY <1>3 DEF local
    <2>1. /\ k \in Name /\ c \in Calls /\ c \in todo[r] /\ f \in Field /\ v \in Rules
          /\ c \in Nat \X Nat \X Nat
        BY <1>1, CurrentFacts DEF IndInv
    <2>2. PICK q0 \in Request : m = <<q0, k>>
        BY <1>1 DEF IndInv, Pointers, PointersOf, MadeFor
    <2>3. m \in Map /\ m # IdMap
        BY <2>1, <2>2, NameAssumption DEF Map, IdMap
    <2>4. c' = c /\ NameAt(Current(r))' = k
        BY <1>3, <2>0, CurrentKept
    <2>5. \A q, n : <<q, n>> = m => n = k
        BY <2>2
    <2>6. \A p \in Calls : Before(c, p) => p \in todo[r] /\ p # c
        <3>1. \A p \in Calls : Before(c, p) => p # c
            BY <2>1, BeforeOrders
        <3> QED BY <2>1, <3>1 DEF IndInv, Ahead
    <2>7. \A p \in Calls : p[1] = f /\ p[2] = c[2] => RulesAt(p) = v
        BY DEF RulesAt
    <2>8. \A p \in Calls : p[1] = f /\ NameAt(p) = k /\ Final(p) => c[2] <= p[2]
        BY <2>1 DEF Final
    <2>9. Given(k, f, v)
        BY <2>1 DEF Given
    <2>10. \A p \in Calls : p[2] \in Nat
        BY CallFacts DEF IndInv, TypeOK
    <2>11. \A p \in Calls : p[1] = f /\ c[2] < p[2] => Before(c, p)
        BY DEF Before
    <2> HIDE DEF k, m, f, v
    <2>12. /\ pc'[r] = "stored"
           /\ \A q \in Request \ {r} : pc'[q] = pc[q]
           /\ content'[m][f] = v
           /\ \A n \in Map, g \in Field : n # m \/ g # f => content'[n][g] = content[n][g]
           /\ \A n \in Map : n # m => content'[n] = content[n]
        BY <1>3, <2>1, <2>3 DEF IndInv, TypeOK, Goto
    <2>13. TypeOK'
        <3>1. /\ pc' \in [Request -> Ended \cup {"idle", "look", "find", "make", "made",
                            "store", "stored", "look again", "range"}]
              /\ content' \in [Map -> [Field -> Rules \cup {None}]]
              /\ writing' \in [Memory -> Request \cup {None}]
            BY <1>3, <2>1, <2>3 DEF IndInv, TypeOK, Goto
        <3> QED BY <1>3, <2>0, <3>1, TagsKept DEF IndInv, TypeOK
    <2>14. Calling' /\ Undisturbed' /\ AloneComplete' /\ PanicsOnlyUndeclared'
        BY <1>1, <1>3, <2>0, <2>12, TranslationKeeps
    <2>15. \A q \in Request \ {r} : PointersOf(q)' /\ FirstUseOf(q)'
        BY <1>3, <2>0, <2>12, OthersKept
    <2>16. PointersOf(r)'
        BY <1>1, <2>0, <2>4, <2>12 DEF IndInv, Pointers, PointersOf, MadeFor, k
    <2>17. FirstUseOf(r)'
        <3>1. Calls' = Calls /\ \A p : NameAt(p)' = NameAt(p)
            BY <1>3, TagsKept
        <3> QED BY <1>1, <1>3, <2>0, <2>4, <2>12, <3>1
                DEF IndInv, FirstUse, FirstUseOf, Translating, k
    <2>18. Pointers' /\ FirstUse'
        BY <1>3, <2>15, <2>16, <2>17 DEF IndInv, Pointers, FirstUse, MadeFor
    <2>19. Sourced'
        <3>1. content'[IdMap] = content[IdMap]
            BY <2>3, <2>12 DEF Map
        <3>2. ASSUME NEW q \in Request, NEW n \in Name, NEW g \in Field,
                     content'[<<q, n>>][g] # None
              PROVE  Given(n, g, content'[<<q, n>>][g])
            <4>1. <<q, n>> \in Map
                BY DEF Map
            <4>2. CASE <<q, n>> = m /\ g = f
                BY <2>5, <2>9, <2>12, <4>2
            <4>3. CASE <<q, n>> # m \/ g # f
                BY <2>12, <3>2, <4>1, <4>3 DEF IndInv, Sourced
            <4> QED BY <4>2, <4>3
        <3> QED BY <1>3, <2>0, <3>1, <3>2, TagsKept DEF IndInv, Sourced, Empty
    <2>20. Ahead'
        BY <1>3, <2>0, TagsKept DEF IndInv, Ahead, Before
    <2>21. Converging'
        <3> SUFFICES ASSUME NEW n \in Name, cache[n] # None, NEW p \in Calls,
                            NameAt(p) = n, Final(p)
                     PROVE  \/ content'[cache[n]][p[1]] = RulesAt(p)
                            \/ \E q \in Request : Pending(q, cache[n], p)'
            BY <1>3, TagsKept DEF Converging
        <3>1. \A d : NameAt(d)' = NameAt(d)
            BY <1>3, TagsKept
        <3>2. PICK q1 \in Request : cache[n] = <<q1, n>>
            BY DEF IndInv, Pointers, MadeFor
        <3>3. p[1] \in Field
            BY CallFacts DEF IndInv, TypeOK
        <3>4. CASE cache[n] = m /\ p[1] = f
            <4>1. n = k /\ c[2] <= p[2]
                BY <2>5, <2>8, <3>2, <3>4
            <4>2. CASE c[2] = p[2]
                BY <2>7, <2>12, <3>4, <4>2
            <4>3. CASE c[2] # p[2]
                <5>1. p \in todo[r] /\ p # c
                    BY <2>1, <2>6, <2>10, <2>11, <3>4, <4>1, <4>3
                <5>2. Pending(r, cache[n], p)'
                    BY <2>0, <2>4, <2>12, <5>1 DEF Pending, Translating
                <5> QED BY <5>2
            <4> QED BY <4>2, <4>3
        <3>5. CASE cache[n] # m \/ p[1] # f
            <4>1. content'[cache[n]][p[1]] = content[cache[n]][p[1]]
                BY <2>12, <3>2, <3>3, <3>5 DEF Map
            <4>2. SUFFICES ASSUME NEW s \in Request, Pending(s, cache[n], p)
                           PROVE  Pending(s, cache[n], p)'
                BY <4>1 DEF IndInv, Converging
            <4>3. CASE s = r
                <5>1. PICK d \in todo[r] : /\ d[1] = p[1] /\ d[2] = p[2]
                                           /\ NameAt(d) = NameAt(p)
                                           /\ d # c \/ m = cache[n]
                    BY <1>1, <4>2, <4>3 DEF Pending, m
                <5>2. d # c
                    BY <3>5, <5>1 DEF f
                <5> QED BY <2>0, <2>4, <2>12, <3>1, <4>3, <5>1, <5>2
                        DEF Pending, Translating
            <4>4. CASE s # r
                BY <1>3, <2>0, <2>12, <4>2, <4>4, PendingKept
            <4> QED BY <4>3, <4>4
        <3> QED BY <3>4, <3>5
    <2> QED BY <2>13, <2>14, <2>18, <2>19, <2>20, <2>21 DEF IndInv
<1> QED BY <1>1, <1>2, <1>3 DEF Store

-----------------------------------------------------------------------------
(***************************************************************************)
(* The theorems                                                            *)
(***************************************************************************)

LEMMA StepIndInv == IndInv /\ [Next]_vars => IndInv'
<1> SUFFICES ASSUME IndInv, [Next]_vars PROVE IndInv'
    OBVIOUS
<1>1. CASE UNCHANGED vars
    <2>1. UNCHANGED <<tags, cache, content, writing, pc, call, key, todo, held, must,
                      used, disturbed>>
        BY <1>1 DEF vars, shared, local
    <2>2. Pointers' /\ FirstUse'
        <3>1. \A q \in Request : NameAt(Current(q))' = NameAt(Current(q))
            BY <2>1, CurrentKept
        <3>2. /\ Calls' = Calls /\ BadFields' = BadFields
              /\ \A p : NameAt(p)' = NameAt(p)
            BY <2>1, TagsKept
        <3>3. \A q \in Request : PointersOf(q)'
            BY <2>1, <3>1 DEF IndInv, Pointers, PointersOf, MadeFor
        <3>4. \A q \in Request : FirstUseOf(q)'
            BY <2>1, <3>1, <3>2 DEF IndInv, FirstUse, FirstUseOf, Translating
        <3> QED BY <2>1, <3>3, <3>4 DEF IndInv, Pointers, FirstUse, MadeFor
    <2>3. Converging'
        <3>1. \A q \in Request : \A m, p : Pending(q, m, p) => Pending(q, m, p)'
            BY <2>1, PendingKept
        <3> QED BY <2>1, <3>1, TagsKept DEF IndInv, Converging
    <2>4. Undisturbed'
        <3>1. \A q \in Request : WholeRange(q) => WholeRange(q)'
            BY <2>1, RangeKept
        <3> QED BY <2>1, <3>1 DEF IndInv, Undisturbed, Alone, Active, Translating
    <2>5. TypeOK'
        BY <2>1, TagsKept DEF IndInv, TypeOK
    <2>6. Calling' /\ Sourced' /\ Ahead' /\ AloneComplete' /\ PanicsOnlyUndeclared'
        BY <2>1, TagsKept
           DEF IndInv, Calling, Sourced, Ahead, Before, AloneComplete,
               PanicsOnlyUndeclared
    <2> QED BY <2>2, <2>3, <2>4, <2>5, <2>6 DEF IndInv
<1>2. CASE \E r \in Request : Step(r)
    <2>1. PICK r \in Request : Step(r)
        BY <1>2
    <2>2. CASE \E c \in {"ValidateStruct", "ValidateVar", "ValidateMap"}, k \in Key :
                    Start(r, c, k)
        BY <2>2, StartInv
    <2>3. CASE NoStruct(r)
        BY <2>3, NoStructInv
    <2>4. CASE Look(r)
        BY <2>4, LookInv
    <2>5. CASE Find(r)
        BY <2>5, FindInv
    <2>6. CASE Make(r)
        BY <2>6, MakeInv
    <2>7. CASE Made(r)
        BY <2>7, MadeInv
    <2>8. CASE Store(r)
        BY <2>8, StoreInv
    <2>9. CASE Stored(r)
        BY <2>9, StoredInv
    <2>10. CASE Translated(r)
        BY <2>10, TranslatedInv
    <2>11. CASE LookAgain(r)
        BY <2>11, LookAgainInv
    <2>12. CASE \E f \in Field : Visit(r, f)
        BY <2>12, VisitInv
    <2>13. CASE EndRange(r)
        BY <2>13, EndRangeInv
    <2> QED BY <2>1, <2>2, <2>3, <2>4, <2>5, <2>6, <2>7, <2>8, <2>9, <2>10, <2>11,
               <2>12, <2>13 DEF Step
<1>3. CASE Terminated
    BY <1>1, <1>3 DEF Terminated
<1> QED BY <1>1, <1>2, <1>3 DEF Next

\* What the races may do to the cache, and what they never do, for any number
\* of requests, rule sets and fields, and for all tags.
THEOREM CacheInvariant == Spec => []IndInv
BY InitIndInv, StepIndInv, PTL DEF Spec

\* The state is always of its type: what a request ranges over is a map, and
\* what it applies are rules.
THEOREM TypeCorrect == Spec => []TypeOK
<1>1. IndInv => TypeOK
    BY DEF IndInv
<1> QED BY <1>1, CacheInvariant, PTL

\* Requests that translate a struct at the same time overwrite each other's
\* rule sets and write to abandoned ones; when none is translating any more,
\* every rule set in the cache is the one of the tags.
THEOREM QuietIsAlwaysComplete == Spec => []QuietComplete
BY CacheInvariant, QuietIsComplete, PTL

\* A request that no other disturbed applies its whole rule set and nothing
\* else, whatever was raced for before it came.
THEOREM AloneIsAlwaysComplete == Spec => []AloneComplete
<1>1. IndInv => AloneComplete
    BY DEF IndInv
<1> QED BY <1>1, CacheInvariant, PTL

\* No race, and no bad tag, makes a request apply rules that no clause about
\* its rule set gives to the field.
THEOREM AppliesOnlyItsRules == Spec => []OnlyItsRules
<1>1. IndInv => OnlyItsRules
    <2> SUFFICES ASSUME IndInv, NEW r \in Request, NEW u \in used[r]
                 PROVE  \/ key[r] = IdSet /\ u = <<1, IdRules>>
                        \/ \E i \in DOMAIN tags[u[1]] :
                            Concerns(u[1], i, key[r]) /\ tags[u[1]][i].rules = u[2]
        BY DEF OnlyItsRules
    <2>1. u \in Field \X Rules
        BY DEF IndInv, TypeOK
    <2>2. Given(key[r], u[1], u[2])
        BY DEF IndInv, Sourced
    <2>3. CASE key[r] = IdSet /\ u[1] = 1 /\ u[2] = IdRules
        BY <2>1, <2>3
    <2>4. CASE \E p \in Calls : p[1] = u[1] /\ NameAt(p) = key[r] /\ RulesAt(p) = u[2]
        <3>1. PICK p \in Calls : p[1] = u[1] /\ NameAt(p) = key[r] /\ RulesAt(p) = u[2]
            BY <2>4
        <3>2. p[2] \in DOMAIN tags[p[1]] /\ Concerns(p[1], p[2], NameAt(p))
            BY CallFacts DEF IndInv, TypeOK
        <3> QED BY <3>1, <3>2 DEF RulesAt
    <2> QED BY <2>2, <2>3, <2>4 DEF Given
<1> QED BY <1>1, CacheInvariant, PTL

\* With correct tags, the validation of a struct panics only when no clause
\* names its rule set, and that of an id never.
THEOREM PanicsAreDeclared == Spec => []PanicsOnlyUndeclared
<1>1. IndInv => PanicsOnlyUndeclared
    BY DEF IndInv
<1> QED BY <1>1, CacheInvariant, PTL

=============================================================================
