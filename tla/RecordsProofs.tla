---------------------------- MODULE RecordsProofs ----------------------------
(***************************************************************************)
(* Proofs about the rows of a module: for any rows, clients and page       *)
(* sizes, the variables keep their types, what is deleted stays hidden,    *)
(* and a walk through the pages is complete.                               *)
(***************************************************************************)
EXTENDS Records, FiniteSetTheorems, TLAPS

\* A row that was deleted for good is marked so, and whoever has read it as a
\* good one has read it before.
Marked ==
    /\ \A i \in hidden : row[i] = "deleted"
    /\ \A c \in Client \ stale :
            bean[c] # None /\ bean[c].id \in hidden => bean[c].state # "ok"

\* The types of what the clients share.
TableTypes ==
    /\ column \in {"status", "dtd"}
    /\ row \in [Id -> {"none", "ok", "deleted"}]
    /\ bean \in [Client -> {None} \cup [id : Id \cup {0}, state : {"none", "ok", "deleted"}]]
    /\ hidden \subseteq Id
    /\ stale \subseteq Client

\* The types of the walk.
WalkTypes ==
    /\ filter \in [P : Nat, Ps : Int, reveal : BOOLEAN, showAll : BOOLEAN]
    /\ at \in {"start", "find", "count", "done"}
    /\ data \subseteq Id
    /\ seen \in [Id -> Nat]
    /\ first \subseteq Id
    /\ left \in BOOLEAN /\ joined \in BOOLEAN

IndInv ==
    /\ TypeOK
    /\ Marked

LEMMA Types == TypeOK <=> TableTypes /\ WalkTypes
BY DEF TypeOK, TableTypes, WalkTypes

LEMMA InitIndInv == Init => IndInv
<1> SUFFICES ASSUME Init PROVE IndInv
    OBVIOUS
<1>1. TypeOK
    <2>1. filter \in [P : Nat, Ps : Int, reveal : BOOLEAN, showAll : BOOLEAN]
        BY PageAssumption DEF Init
    <2>2. TableTypes
        BY DEF Init, TableTypes
    <2>3. WalkTypes
        BY <2>1 DEF Init, WalkTypes
    <2> QED BY <2>2, <2>3, Types
<1>2. Marked
    BY DEF Init, Marked
<1> QED BY <1>1, <1>2 DEF IndInv

\* A change of the table keeps the types of the walk.
LEMMA TrackTypes == WalkTypes /\ Track => WalkTypes'
BY DEF WalkTypes, Track

\* So do the steps of the walk.
LEMMA WalkStepTypes ==
    ASSUME TypeOK,
           \/ \E p \in 0 .. 1, ps \in PageSizes, reveal, showAll \in BOOLEAN :
                    Ask(p, ps, reveal, showAll)
           \/ Find \/ Count \/ CountFails
    PROVE  TypeOK' /\ UNCHANGED <<column, table>>
<1>1. CASE \E p \in 0 .. 1, ps \in PageSizes, reveal, showAll \in BOOLEAN :
                Ask(p, ps, reveal, showAll)
    <2>1. PICK p \in 0 .. 1, ps \in PageSizes, reveal, showAll \in BOOLEAN :
                Ask(p, ps, reveal, showAll)
        BY <1>1
    <2>2. filter' \in [P : Nat, Ps : Int, reveal : BOOLEAN, showAll : BOOLEAN]
        BY <2>1, PageAssumption DEF Ask
    <2>3. UNCHANGED <<column, row, bean, hidden, stale>>
        BY <2>1 DEF Ask, table
    <2>4. /\ first' \subseteq Id /\ at' = "find" /\ data' = data /\ seen' = seen
          /\ left' = FALSE /\ joined' = FALSE
        BY <2>1 DEF Ask
    <2> QED BY <2>2, <2>3, <2>4 DEF TypeOK, table
<1>2. CASE Find
    BY <1>2 DEF Find, TypeOK, table, PageRows, Listed
<1>3. CASE Count
    <2>1. seen' \in [Id -> Nat]
        BY <1>3 DEF Count, TypeOK
    <2>2. at' \in {"find", "done"}
        BY <1>3 DEF Count
    <2>3. filter' \in [P : Nat, Ps : Int, reveal : BOOLEAN, showAll : BOOLEAN]
        BY <1>3 DEF Count, TypeOK
    <2> QED BY <1>3, <2>1, <2>2, <2>3 DEF Count, TypeOK, table
<1>4. CASE CountFails
    BY <1>4 DEF CountFails, TypeOK, table
<1> QED BY <1>1, <1>2, <1>3, <1>4

LEMMA CreateIndInv == ASSUME IndInv, NEW i \in Id, Create(i) PROVE IndInv'
<1>1. TableTypes' /\ WalkTypes'
    BY Types, TrackTypes DEF IndInv, Create, TableTypes
<1>2. Marked'
    BY DEF IndInv, TypeOK, Create, Marked
<1> QED BY <1>1, <1>2, Types DEF IndInv, TypeOK, TableTypes, WalkTypes

\* What is read now is read as it is: a row deleted for good as deleted.
LEMMA GetIndInv ==
    ASSUME IndInv, NEW c \in Client, NEW i \in Id, Get(c, i) PROVE IndInv'
<1> DEFINE b == IF row[i] = "none" THEN [id |-> 0, state |-> "none"]
                                   ELSE [id |-> i, state |-> row[i]]
<1>1. b \in [id : Id \cup {0}, state : {"none", "ok", "deleted"}]
    BY DEF IndInv, TypeOK
<1>2. bean' = [bean EXCEPT ![c] = b] /\ UNCHANGED <<column, row, hidden, walk>>
    BY DEF Get
<1>3. TypeOK'
    BY <1>1, <1>2 DEF IndInv, TypeOK, Get, walk
<1>4. b.id \in hidden => b.state # "ok"
    BY IdAssumption DEF IndInv, TypeOK, Marked
<1>5. Marked'
    <2> SUFFICES ASSUME NEW d \in Client \ stale', bean'[d] # None, bean'[d].id \in hidden'
                 PROVE  bean'[d].state # "ok"
        BY <1>2 DEF IndInv, Marked
    <2>1. CASE d = c
        BY <1>2, <1>4, <2>1 DEF IndInv, TypeOK
    <2>2. CASE d # c
        BY <1>2, <2>2 DEF IndInv, TypeOK, Marked, Get
    <2> QED BY <2>1, <2>2
<1> QED BY <1>3, <1>5 DEF IndInv

\* A bean that is not stale does not mark a row good that was deleted for good.
LEMMA UpdateIndInv == ASSUME IndInv, NEW c \in Client, Update(c) PROVE IndInv'
<1> DEFINE b == bean[c]
<1>1. b \in [id : Id \cup {0}, state : {"none", "ok", "deleted"}] /\ b.id \in Id
    BY DEF IndInv, TypeOK, Update, UpdateIf
<1>2. TableTypes' /\ WalkTypes'
    BY <1>1, Types, TrackTypes DEF IndInv, Update, UpdateIf, TableTypes
<1>3. \A i \in hidden' : row'[i] = "deleted"
    <2> SUFFICES ASSUME NEW i \in hidden' PROVE row'[i] = "deleted"
        OBVIOUS
    <2>1. i \in hidden /\ i \in Id /\ row[i] = "deleted"
        BY DEF IndInv, TypeOK, Marked, Update, UpdateIf
    <2>2. CASE i # b.id
        BY <1>1, <2>1, <2>2 DEF IndInv, TypeOK, Update, UpdateIf
    <2>3. CASE i = b.id
        <3>1. ~Writes(b)
            BY <2>1, <2>3 DEF IndInv, Marked, Update, UpdateIf, Writes
        <3> QED BY <1>1, <2>1, <2>3, <3>1 DEF IndInv, TypeOK, Update, UpdateIf
    <2> QED BY <2>2, <2>3
<1>4. Marked'
    BY <1>3 DEF IndInv, Marked, Update, UpdateIf
<1> QED BY <1>2, <1>4, Types DEF IndInv, TypeOK, TableTypes, WalkTypes

\* All who have read a row are stale when it is deleted.
LEMMA DeleteIndInv == ASSUME IndInv, NEW i \in Id, Delete(i) PROVE IndInv'
<1>1. TableTypes' /\ WalkTypes'
    BY Types, TrackTypes DEF IndInv, Delete, TableTypes
<1>2. Marked'
    BY DEF IndInv, TypeOK, Delete, Marked
<1> QED BY <1>1, <1>2, Types DEF IndInv, TypeOK, TableTypes, WalkTypes

LEMMA NextIndInv == IndInv /\ [Next]_vars => IndInv'
<1> SUFFICES ASSUME IndInv, [Next]_vars PROVE IndInv'
    OBVIOUS
<1>1. ASSUME NEW i \in Id, Create(i) \/ Delete(i) PROVE IndInv'
    BY <1>1, CreateIndInv, DeleteIndInv
<1>2. ASSUME NEW c \in Client, Update(c) \/ \E i \in Id : Get(c, i) PROVE IndInv'
    BY <1>2, UpdateIndInv, GetIndInv
<1>3. CASE \/ \E p \in 0 .. 1, ps \in PageSizes, reveal, showAll \in BOOLEAN :
                    Ask(p, ps, reveal, showAll)
           \/ Find \/ Count \/ CountFails
    BY <1>3, WalkStepTypes DEF IndInv, Marked, table
<1>4. CASE UNCHANGED vars
    BY <1>4 DEF IndInv, TypeOK, Marked, vars, table, walk
<1> QED BY <1>1, <1>2, <1>3, <1>4 DEF Next

\* The invariant of the table: types, and the marks of what is deleted.
THEOREM Inductive == Spec => []IndInv
<1> QED BY InitIndInv, NextIndInv, PTL DEF Spec

\* Every variable keeps its type.
THEOREM TypeCorrect == Spec => []TypeOK
<1>1. IndInv => TypeOK
    BY DEF IndInv
<1> QED BY <1>1, Inductive, PTL

\* For any rows and clients, what is deleted is on no page asked for afterwards,
\* but for an update by a client that read the status before the deletion.
THEOREM Hidden == Spec => DeletedStayHidden
<1>1. ASSUME IndInv, Find, ~filter.reveal PROVE data' \cap hidden = {}
    <2>1. data' \subseteq Listed
        BY <1>1 DEF Find, PageRows
    <2>2. \A i \in hidden : i \notin Listed
        BY <1>1 DEF IndInv, Marked, Listed, Listable
    <2> QED BY <2>1, <2>2
<1>2. IndInv => [Find /\ ~filter.reveal => data' \cap hidden = {}]_vars
    BY <1>1
<1> QED BY <1>2, Inductive, PTL DEF DeletedStayHidden

-----------------------------------------------------------------------------
(***************************************************************************)
(* The walk. A row that has not been returned is beyond the pages read so  *)
(* far, as long as none leaves; one that has is within them, as long as    *)
(* none joins.                                                             *)
(***************************************************************************)
Page == IF filter.P < 1 THEN 1 ELSE filter.P
Before == (Page - 1) * Limit
Upto == Page * Limit

Reading(s) == at = s /\ ~filter.showAll

Missing ==
    ~left /\ at # "start" =>
        /\ first \subseteq Listed
        /\ Reading("find") => \A i \in first : seen[i] >= 1 \/ Rank(i) > Before
        /\ Reading("count") =>
                \A i \in first : \/ seen[i] >= 1
                                 \/ i \in data /\ Rank(i) > Before
                                 \/ Rank(i) > Upto
        /\ at = "count" /\ filter.showAll => first \subseteq data
        /\ at = "done" => \A i \in first : seen[i] >= 1

Unseen == at = "start" \/ (filter.showAll /\ at # "done") => \A i \in Id : seen[i] = 0

Once ==
    ~joined =>
        /\ \A i \in Id : seen[i] <= 1
        /\ Reading("find") \/ Reading("count") =>
                \A i \in Listed : seen[i] = 1 => Rank(i) <= Before
        /\ Reading("count") =>
                \A i \in data : seen[i] = 0 /\ (i \in Listed => Rank(i) <= Upto)

WalkInv == Missing /\ Unseen /\ Once

\* The rank of a row does not fall while rows are added to the list.
LEMMA RankGrows ==
    ASSUME NEW S \in SUBSET Id, NEW T \in SUBSET S, NEW i \in Id
    PROVE  /\ Cardinality({j \in T : j >= i}) \in Nat
           /\ Cardinality({j \in S : j >= i}) \in Nat
           /\ Cardinality({j \in T : j >= i}) <= Cardinality({j \in S : j >= i})
           /\ Cardinality({j \in S : j >= i}) <= Cardinality(S)
<1>1. IsFiniteSet(S)
    BY IdAssumption, FS_Subset
<1>2. IsFiniteSet({j \in S : j >= i}) /\ {j \in T : j >= i} \in SUBSET {j \in S : j >= i}
    BY <1>1, FS_Subset
<1>3. Cardinality({j \in S : j >= i}) <= Cardinality(S)
    BY <1>1, FS_Subset
<1>4. /\ IsFiniteSet({j \in T : j >= i})
      /\ Cardinality({j \in T : j >= i}) <= Cardinality({j \in S : j >= i})
    BY <1>2, FS_Subset
<1> QED BY <1>2, <1>3, <1>4, FS_CardinalityType

LEMMA PageFacts ==
    ASSUME TypeOK
    PROVE  /\ Page \in Nat \ {0} /\ Limit \in Nat \ {0}
           /\ Before \in Nat /\ Upto \in Nat /\ Upto = Before + Limit
           /\ \A i \in Id : Rank(i) \in Nat
           /\ Offset = Before
<1>1. Page \in Nat \ {0} /\ Limit \in Nat \ {0}
    BY PageAssumption DEF TypeOK, Page, Limit
<1>2. \A p, l \in Nat : p > 0 => (p - 1) * l \in Nat /\ p * l \in Nat /\ p * l = (p - 1) * l + l
    OBVIOUS
<1>3. Before \in Nat /\ Upto \in Nat /\ Upto = Before + Limit
    BY <1>1, <1>2 DEF Before, Upto
<1>4. \A i \in Id : Rank(i) \in Nat
    BY RankGrows DEF Listed, Rank
<1>5. Offset = Before
    <2>1. CASE filter.P < 1
        <3>1. filter.P = 0 /\ Page = 1 /\ Before = 0
            BY <1>1, <2>1 DEF TypeOK, Page, Before
        <3>2. Skip = (0 - 1) * Limit
            BY <3>1 DEF Skip
        <3> QED BY <1>1, <3>1, <3>2 DEF Offset
    <2>2. CASE ~(filter.P < 1)
        <3>1. Page = filter.P /\ Skip = Before
            BY <2>2 DEF Page, Skip, Before
        <3> QED BY <1>3, <3>1 DEF Offset
    <2> QED BY <2>1, <2>2
<1> QED BY <1>1, <1>3, <1>4, <1>5

\* A change of the table moves rows only to later pages while none leaves, and
\* only to earlier ones while none joins.
LEMMA TrackWalkInv ==
    ASSUME TypeOK, WalkInv, Track
    PROVE  WalkInv'
<1>1. /\ UNCHANGED <<filter, at, data, seen, first>>
      /\ left' = (left \/ ~(Listed \subseteq Listed'))
      /\ joined' = (joined \/ ~(Listed' \subseteq Listed))
    BY DEF Track, Listed
<1>2. UNCHANGED <<Page, Limit, Before, Upto>>
    BY <1>1 DEF Page, Limit, Before, Upto
<1>3. Listed \subseteq Id /\ Listed' \subseteq Id
    BY DEF Listed
<1>4. \A i \in Id : Rank(i) \in Nat /\ Rank(i)' \in Nat
    BY <1>3, RankGrows DEF Rank
<1>5. Before \in Nat /\ Upto \in Nat
    BY PageFacts
<1>6. Unseen'
    BY <1>1 DEF WalkInv, Unseen
<1>7. Missing'
    <2> SUFFICES ASSUME ~left', at' # "start" PROVE Missing'
        BY DEF Missing
    <2>1. ~left /\ Listed \subseteq Listed'
        BY <1>1
    <2>2. \A i \in Id : Rank(i) <= Rank(i)'
        BY <1>3, <2>1, RankGrows DEF Rank
    <2>3. first \subseteq Id
        BY DEF TypeOK
    <2>4. at # "start"
        BY <1>1
    <2>5. first' \subseteq Listed'
        BY <1>1, <2>1, <2>4 DEF WalkInv, Missing
    <2>6. Reading("find")' => \A i \in first' : seen'[i] >= 1 \/ Rank(i)' > Before'
        BY <1>1, <1>2, <1>4, <1>5, <2>1, <2>2, <2>3, <2>4 DEF WalkInv, Missing, Reading
    <2>7. Reading("count")' => \A i \in first' : \/ seen'[i] >= 1
                                                 \/ i \in data' /\ Rank(i)' > Before'
                                                 \/ Rank(i)' > Upto'
        BY <1>1, <1>2, <1>4, <1>5, <2>1, <2>2, <2>3, <2>4 DEF WalkInv, Missing, Reading
    <2>8. /\ at' = "count" /\ filter'.showAll => first' \subseteq data'
          /\ at' = "done" => \A i \in first' : seen'[i] >= 1
        BY <1>1, <2>1, <2>4 DEF WalkInv, Missing
    <2> QED BY <1>1, <2>5, <2>6, <2>7, <2>8 DEF Missing, Reading
<1>8. Once'
    <2> SUFFICES ASSUME ~joined' PROVE Once'
        BY DEF Once
    <2>1. ~joined /\ Listed' \subseteq Listed
        BY <1>1
    <2>2. \A i \in Id : Rank(i)' <= Rank(i)
        BY <1>3, <2>1, RankGrows DEF Rank
    <2>3. data \subseteq Id
        BY DEF TypeOK
    <2>4. \A i \in Id : seen'[i] <= 1
        BY <1>1, <2>1 DEF WalkInv, Once
    <2>5. Reading("find")' \/ Reading("count")' =>
              \A i \in Listed' : seen'[i] = 1 => Rank(i)' <= Before'
        BY <1>1, <1>2, <1>3, <1>4, <1>5, <2>1, <2>2 DEF WalkInv, Once, Reading
    <2>6. Reading("count")' =>
              \A i \in data' : seen'[i] = 0 /\ (i \in Listed' => Rank(i)' <= Upto')
        BY <1>1, <1>2, <1>3, <1>4, <1>5, <2>1, <2>2, <2>3 DEF WalkInv, Once, Reading
    <2> QED BY <2>4, <2>5, <2>6 DEF Once
<1> QED BY <1>6, <1>7, <1>8 DEF WalkInv

LEMMA AskWalkInv ==
    ASSUME TypeOK, WalkInv,
           NEW p \in 0 .. 1, NEW ps \in PageSizes, NEW reveal \in BOOLEAN, NEW showAll \in BOOLEAN,
           Ask(p, ps, reveal, showAll)
    PROVE  WalkInv'
<1>1. /\ at = "start" /\ at' = "find"
      /\ filter' = [P |-> p, Ps |-> ps, reveal |-> reveal, showAll |-> showAll]
      /\ row' = row /\ seen' = seen /\ data' = data
    BY DEF Ask, table
<1>2. first' = Listed'
    BY <1>1 DEF Ask, Listed
<1>3. TypeOK'
    BY WalkStepTypes
<1>4. \A i \in Id : seen[i] = 0
    BY <1>1 DEF WalkInv, Unseen
<1>5. Page' = 1 /\ Before' = 0
    <2>1. Page' = 1
        BY <1>1 DEF Page
    <2>2. \A l \in Nat : (1 - 1) * l = 0
        OBVIOUS
    <2>3. Limit' \in Nat
        BY <1>1, PageAssumption DEF Limit
    <2> QED BY <2>1, <2>2, <2>3 DEF Before
<1>6. \A i \in Listed' : Rank(i)' > 0
    <2> SUFFICES ASSUME NEW i \in Listed' PROVE Rank(i)' > 0
        OBVIOUS
    <2>1. Listed' \subseteq Id /\ IsFiniteSet(Listed')
        BY IdAssumption, FS_Subset DEF Listed
    <2>2. i \in {j \in Listed' : j >= i}
        BY <2>1, IdAssumption
    <2>3. IsFiniteSet({j \in Listed' : j >= i})
        BY <2>1, FS_Subset
    <2>4. Cardinality({j \in Listed' : j >= i}) # 0
        BY <2>2, <2>3, FS_EmptySet
    <2> QED BY <2>3, <2>4, FS_CardinalityType DEF Rank
<1>7. Missing'
    BY <1>1, <1>2, <1>5, <1>6 DEF Missing, Reading
<1>8. Unseen'
    BY <1>1, <1>4 DEF Unseen
<1>9. Once'
    BY <1>1, <1>4, <1>3 DEF Once, Reading, TypeOK, Listed
<1> QED BY <1>7, <1>8, <1>9 DEF WalkInv

LEMMA FindWalkInv == ASSUME TypeOK, WalkInv, Find PROVE WalkInv'
<1>1. /\ at = "find" /\ at' = "count"
      /\ data' = IF filter.showAll THEN Listed ELSE PageRows
      /\ UNCHANGED <<row, filter, seen, first, left, joined>>
    BY DEF Find, table
<1>2. UNCHANGED <<Listed, Page, Limit, Before, Upto>>
    BY <1>1 DEF Listed, Page, Limit, Before, Upto
<1>3. \A i \in Id : Rank(i)' = Rank(i)
    BY <1>2 DEF Rank
<1>4. /\ Before \in Nat /\ Upto \in Nat /\ Upto = Before + Limit /\ Limit \in Nat
      /\ \A i \in Id : Rank(i) \in Nat
      /\ Offset = Before
    BY PageFacts
<1>5. Listed \subseteq Id
    BY DEF Listed
<1>6. PageRows = {i \in Listed : Before < Rank(i) /\ Rank(i) <= Upto}
    BY <1>4, <1>5 DEF PageRows
<1>7. Missing'
    <2> SUFFICES ASSUME ~left PROVE Missing'
        BY <1>1 DEF Missing
    <2>1. first \subseteq Listed
        BY <1>1 DEF WalkInv, Missing
    <2>2. CASE filter.showAll
        BY <1>1, <1>2, <2>1, <2>2 DEF Missing, Reading
    <2>3. CASE ~filter.showAll
        <3>1. \A i \in first : seen[i] >= 1 \/ Rank(i) > Before
            BY <1>1, <2>3 DEF WalkInv, Missing, Reading
        <3>2. \A i \in first : \/ seen'[i] >= 1
                               \/ i \in data' /\ Rank(i)' > Before'
                               \/ Rank(i)' > Upto'
            BY <1>1, <1>2, <1>3, <1>4, <1>5, <1>6, <2>1, <2>3, <3>1
        <3> QED BY <1>1, <1>2, <2>1, <2>3, <3>2 DEF Missing, Reading
    <2> QED BY <2>2, <2>3
<1>8. Unseen'
    BY <1>1 DEF WalkInv, Unseen
<1>9. Once'
    <2> SUFFICES ASSUME ~joined PROVE Once'
        BY <1>1 DEF Once
    <2>1. \A i \in Id : seen[i] <= 1
        BY DEF WalkInv, Once
    <2>2. CASE filter.showAll
        BY <1>1, <2>1, <2>2 DEF Once, Reading
    <2>3. CASE ~filter.showAll
        <3>1. \A i \in Listed : seen[i] = 1 => Rank(i) <= Before
            BY <1>1, <2>3 DEF WalkInv, Once, Reading
        <3>2. \A i \in data' : seen[i] = 0 /\ Rank(i) <= Upto
            BY <1>1, <1>4, <1>5, <1>6, <2>1, <2>3, <3>1 DEF TypeOK
        <3>3. data' \subseteq Id
            BY <1>1, <1>5, <1>6, <2>3
        <3> QED BY <1>1, <1>2, <1>3, <1>5, <2>1, <3>1, <3>2, <3>3 DEF Once
    <2> QED BY <2>2, <2>3
<1> QED BY <1>7, <1>8, <1>9 DEF WalkInv

\* After the last page that is counted there is none: no rank is beyond it.
LEMMA LastPage ==
    ASSUME TypeOK, Page >= Pc, NEW i \in Id
    PROVE  Rank(i) <= Upto
<1> DEFINE n == Cardinality(Listed)
<1>1. n \in Nat /\ Rank(i) \in Nat /\ Rank(i) <= n
    <2>1. Listed \subseteq Id /\ IsFiniteSet(Listed)
        BY IdAssumption, FS_Subset DEF Listed
    <2> QED BY <2>1, RankGrows, FS_CardinalityType DEF Rank
<1>2. \A m \in Nat, l \in Nat \ {0}, p \in Nat : p >= m \div l + 1 => m <= p * l
    <2> SUFFICES ASSUME NEW m \in Nat, NEW l \in Nat \ {0}, NEW p \in Nat, p >= m \div l + 1
                 PROVE  m <= p * l
        OBVIOUS
    <2> DEFINE q == m \div l
    <2> DEFINE r == m % l
    <2>1. q \in Nat /\ m = l * q + r /\ r \in 0 .. l - 1
        BY SMT
    <2>2. \A k \in Nat : (q + 1 + k) * l = l * q + l + k * l /\ k * l \in Nat
        BY <2>1
    <2>3. p = q + 1 + (p - q - 1) /\ p - q - 1 \in Nat
        BY <2>1
    <2> HIDE DEF q, r
    <2>4. p * l = l * q + l + (p - q - 1) * l /\ (p - q - 1) * l \in Nat
        BY <2>2, <2>3
    <2>5. l * q \in Nat
        BY <2>1
    <2> QED BY <2>1, <2>4, <2>5
<1>3. Page \in Nat /\ Limit \in Nat \ {0}
    BY PageFacts
<1>4. n <= Upto /\ Upto \in Nat
    BY <1>1, <1>2, <1>3, PageFacts DEF Pc, Upto
<1> QED BY <1>1, <1>4

LEMMA CountWalkInv == ASSUME TypeOK, WalkInv, Count PROVE WalkInv'
<1>1. /\ at = "count"
      /\ seen' = [i \in Id |-> IF i \in data THEN seen[i] + 1 ELSE seen[i]]
      /\ UNCHANGED <<row, data, first, left, joined>>
    BY DEF Count, table
<1>2. /\ Before \in Nat /\ Upto \in Nat /\ Upto = Before + Limit /\ Limit \in Nat \ {0}
      /\ Page \in Nat \ {0}
      /\ \A i \in Id : Rank(i) \in Nat
    BY PageFacts
<1>3. /\ first \subseteq Id /\ data \subseteq Id /\ seen \in [Id -> Nat]
      /\ Listed \subseteq Id
    BY DEF TypeOK, Listed
<1>4. \A i \in Id : (seen[i] >= 1 \/ i \in data) => seen'[i] >= 1
    BY <1>1, <1>3
<1>5. ~joined => \A i \in Id : seen'[i] <= 1
    <2>1. CASE filter.showAll
        BY <1>1, <1>3, <2>1 DEF WalkInv, Unseen
    <2>2. CASE ~filter.showAll
        BY <1>1, <1>3, <2>2 DEF WalkInv, Once, Reading
    <2> QED BY <2>1, <2>2
<1>6. CASE at' = "done"
    <2>1. filter' = filter /\ (filter.showAll \/ Page >= Pc)
        BY <1>6 DEF Count, Page
    <2>2. ~left => first \subseteq Listed /\ \A i \in first : seen'[i] >= 1
        <3> SUFFICES ASSUME ~left PROVE first \subseteq Listed /\ \A i \in first : seen'[i] >= 1
            OBVIOUS
        <3>1. first \subseteq Listed
            BY <1>1 DEF WalkInv, Missing
        <3>2. CASE filter.showAll
            BY <1>1, <1>3, <1>4, <3>1, <3>2 DEF WalkInv, Missing
        <3>3. CASE ~filter.showAll
            <4>1. \A i \in Id : ~(Rank(i) > Upto)
                BY <1>2, <2>1, <3>3, LastPage
            <4>2. \A i \in first : seen[i] >= 1 \/ i \in data
                BY <1>1, <1>3, <3>3, <4>1 DEF WalkInv, Missing, Reading
            <4> QED BY <1>3, <1>4, <3>1, <4>2
        <3> QED BY <3>2, <3>3
    <2>3. Listed' = Listed
        BY <1>1, <2>1 DEF Listed
    <2>4. Missing'
        BY <1>1, <1>6, <2>2, <2>3 DEF Missing, Reading
    <2>5. Unseen' /\ Once'
        BY <1>1, <1>5, <1>6 DEF Unseen, Once, Reading
    <2> QED BY <2>4, <2>5 DEF WalkInv
<1>7. CASE at' # "done"
    <2>1. /\ at' = "find" /\ ~filter.showAll
          /\ filter' = [filter EXCEPT !.P = Page + 1]
        BY <1>7 DEF Count, Page
    <2>2. /\ filter'.P = Page + 1 /\ filter'.Ps = filter.Ps
          /\ filter'.reveal = filter.reveal /\ ~filter'.showAll
        BY <2>1 DEF TypeOK
    <2>3. Listed' = Listed /\ Limit' = Limit /\ Page' = Page + 1
        BY <1>1, <1>2, <2>2 DEF Listed, Limit, Page
    <2>4. Before' = Upto
        BY <1>2, <2>3 DEF Before, Upto
    <2>5. \A i \in Id : Rank(i)' = Rank(i)
        BY <2>3 DEF Rank
    <2>6. Missing'
        <3> SUFFICES ASSUME ~left PROVE Missing'
            BY <1>1 DEF Missing
        <3>1. first \subseteq Listed
            BY <1>1 DEF WalkInv, Missing
        <3>2. \A i \in first : seen[i] >= 1 \/ i \in data \/ Rank(i) > Upto
            BY <1>1, <2>1 DEF WalkInv, Missing, Reading
        <3>3. \A i \in first : seen'[i] >= 1 \/ Rank(i)' > Before'
            BY <1>3, <1>4, <2>4, <2>5, <3>2
        <3> QED BY <1>1, <2>1, <2>3, <3>1, <3>3 DEF Missing, Reading
    <2>7. Unseen'
        BY <2>1, <2>2 DEF Unseen
    <2>8. Once'
        <3> SUFFICES ASSUME ~joined PROVE Once'
            BY <1>1 DEF Once
        <3>1. \A i \in Listed : seen[i] = 1 => Rank(i) <= Before
            BY <1>1, <2>1 DEF WalkInv, Once, Reading
        <3>2. \A i \in data : i \in Listed => Rank(i) <= Upto
            BY <1>1, <2>1 DEF WalkInv, Once, Reading
        <3>3. \A i \in Listed' : seen'[i] = 1 => Rank(i)' <= Before'
            BY <1>1, <1>2, <1>3, <2>3, <2>4, <2>5, <3>1, <3>2
        <3> QED BY <1>5, <2>1, <3>3 DEF Once, Reading
    <2> QED BY <2>6, <2>7, <2>8 DEF WalkInv
<1> QED BY <1>6, <1>7

\* A page that is lost is asked for again, its rows are still to be seen.
LEMMA CountFailsWalkInv == ASSUME TypeOK, WalkInv, CountFails PROVE WalkInv'
<1>1. /\ at = "count" /\ at' = "find" /\ ~filter.showAll
      /\ UNCHANGED <<row, filter, data, seen, first, left, joined>>
    BY DEF CountFails, table
<1>2. UNCHANGED <<Listed, Before>>
    BY <1>1 DEF Listed, Before, Page, Limit
<1>3. \A i \in Id : Rank(i)' = Rank(i) /\ Rank(i) \in Nat
    BY <1>2, PageFacts DEF Rank
<1>4. /\ Before \in Nat /\ Upto \in Nat /\ Upto >= Before
      /\ first \subseteq Id /\ Listed \subseteq Id
    BY PageFacts DEF TypeOK, Listed
<1>5. Missing'
    <2> SUFFICES ASSUME ~left PROVE Missing'
        BY <1>1 DEF Missing
    <2>1. /\ first \subseteq Listed
          /\ \A i \in first : seen[i] >= 1 \/ Rank(i) > Before \/ Rank(i) > Upto
        BY <1>1 DEF WalkInv, Missing, Reading
    <2>2. \A i \in first : seen'[i] >= 1 \/ Rank(i)' > Before'
        BY <1>1, <1>2, <1>3, <1>4, <2>1
    <2> QED BY <1>1, <1>2, <2>1, <2>2 DEF Missing, Reading
<1>6. Unseen' /\ Once'
    BY <1>1, <1>2, <1>3, <1>4 DEF WalkInv, Unseen, Once, Reading
<1> QED BY <1>5, <1>6 DEF WalkInv

LEMMA StepWalkInv == ASSUME TypeOK, WalkInv, [Next]_vars PROVE WalkInv'
<1>1. ASSUME NEW i \in Id, Create(i) \/ Delete(i) PROVE WalkInv'
    BY <1>1, TrackWalkInv DEF Create, Delete
<1>2. ASSUME NEW c \in Client, Update(c) PROVE WalkInv'
    BY <1>2, TrackWalkInv DEF Update, UpdateIf
<1>3. CASE UNCHANGED <<row, walk>>
    <2>1. UNCHANGED <<Listed, Before, Upto>>
        BY <1>3 DEF walk, Listed, Before, Upto, Page, Limit
    <2>2. \A i : Rank(i)' = Rank(i)
        BY <2>1 DEF Rank
    <2> QED BY <1>3, <2>1, <2>2 DEF walk, WalkInv, Missing, Unseen, Once, Reading
<1>4. ASSUME NEW c \in Client, NEW i \in Id, Get(c, i) PROVE WalkInv'
    BY <1>3, <1>4 DEF Get
<1>5. CASE UNCHANGED vars
    BY <1>3, <1>5 DEF vars, table
<1> QED BY <1>1, <1>2, <1>4, <1>5, AskWalkInv, FindWalkInv, CountWalkInv, CountFailsWalkInv DEF Next

LEMMA InitWalkInv == Init => WalkInv
<1> SUFFICES ASSUME Init PROVE WalkInv
    OBVIOUS
<1>1. at = "start" /\ ~filter.showAll /\ \A i \in Id : seen[i] = 0
    BY DEF Init
<1> QED BY <1>1 DEF WalkInv, Missing, Unseen, Once, Reading

\* For any rows and page sizes, whatever other clients do: a walk through the
\* pages misses no row of the list it began with while none leaves the list,
\* and returns none twice while none joins it.
THEOREM Walked == Spec => []WalkComplete
<1>1. TypeOK /\ WalkInv => WalkComplete
    BY DEF WalkInv, Missing, Once, WalkComplete
<1>2. TypeOK /\ WalkInv /\ [Next]_vars => WalkInv'
    BY StepWalkInv
<1> QED BY <1>1, <1>2, InitWalkInv, TypeCorrect, PTL DEF Spec

=============================================================================
