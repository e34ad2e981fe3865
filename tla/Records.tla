------------------------------- MODULE Records -------------------------------
(***************************************************************************)
(* The service of a module (module.go): clients create, read, update and   *)
(* delete the rows of a table while one of them walks through its pages.   *)
(*                                                                         *)
(* The database is external and executes one statement at a time; List and *)
(* Do make two, the rows of a page and their count. A statement that fails *)
(* without having been executed changes nothing, and one whose answer is   *)
(* lost differs in nothing that is checked here: both are left out, except *)
(* between the two of a page. Of xorm this takes that Update writes the    *)
(* columns that are not zero and never one of type bool, and that an       *)
(* offset that is not positive is none.                                    *)
(***************************************************************************)
EXTENDS Integers, FiniteSets

CONSTANTS
    Id,                \* the ids rows may get
    Client,
    PageSizes,         \* what a filter may have for Ps
    DEFAULT_PAGE_SIZE,
    None

ASSUME IdAssumption == Id \subseteq Nat \ {0} /\ IsFiniteSet(Id)
ASSUME PageAssumption == PageSizes \subseteq Int /\ DEFAULT_PAGE_SIZE \in Nat \ {0}
ASSUME NoneAssumption == None \notin [id : Id \cup {0}, state : {"none", "ok", "deleted"}]

VARIABLES
    column,  \* rigid: where the table marks a deletion, in "status" or in "dtd"
    row,     \* what the table has for each id
    bean,    \* what each client has read and may send back
    filter,  \* the walk: the page asked for, and whether Reveal and All were called
    at,      \* the walk: its next statement
    data,    \* the walk: result.Data of this page
    seen,    \* history: how often the walk has returned each row
    first,   \* history: the rows listed when the walk began
    left,    \* history: a row has ceased to be listed since
    joined,  \* history: a row has come to be listed since
    hidden,  \* history: the rows deleted for good
    stale    \* history: the clients that read their bean before its row was deleted

table == <<row, bean, hidden, stale>>
walk == <<filter, at, data, seen, first, left, joined>>
vars == <<column, table, walk>>

Init ==
    /\ column \in {"status", "dtd"}
    /\ row \in [Id -> {"none", "ok"}]
    /\ bean = [c \in Client |-> None]
    /\ filter = [P |-> 1, Ps |-> DEFAULT_PAGE_SIZE, reveal |-> FALSE, showAll |-> FALSE]
    /\ at = "start"
    /\ data = {}
    /\ seen = [i \in Id |-> 0]
    /\ first = {} /\ left = FALSE /\ joined = FALSE
    /\ hidden = {} /\ stale = {}

\* The condition of a list: status = 1 of a filter's Apply, or dtd = false of
\* Do unless Reveal was called.
Listable(mark, reveal) == mark = "ok" \/ (reveal /\ mark = "deleted")

Listed == {i \in Id : Listable(row[i], filter.reveal)}

\* What a change of the table means for the walk.
Track ==
    /\ LET after == {i \in Id : Listable(row'[i], filter.reveal)}
       IN  /\ left' = (left \/ ~(Listed \subseteq after))
           /\ joined' = (joined \/ ~(after \subseteq Listed))
    /\ UNCHANGED <<filter, at, data, seen, first>>

-----------------------------------------------------------------------------
Create(i) ==
    /\ row[i] = "none"
    /\ row' = [row EXCEPT ![i] = "ok"]
    /\ Track
    /\ UNCHANGED <<column, bean, hidden, stale>>

\* Get takes the row whatever its state, and a missing one for a success: the
\* receiver keeps its zero values.
Get(c, i) ==
    /\ bean' = [bean EXCEPT ![c] = IF row[i] = "none" THEN [id |-> 0, state |-> "none"]
                                                      ELSE [id |-> i, state |-> row[i]]]
    /\ stale' = stale \ {c}
    /\ UNCHANGED <<column, row, hidden, walk>>

\* The bean's mark is written: it is not zero, and not a bool.
Writes(b) == column = "status" /\ b.state = "ok"

UpdateIf(c, writes) ==
    LET b == bean[c] IN
    /\ b # None /\ b.id > 0
    /\ row' = [row EXCEPT ![b.id] = IF writes THEN b.state ELSE @]
    /\ hidden' = IF column = "status" /\ c \in stale THEN hidden \ {b.id} ELSE hidden
    /\ Track
    /\ UNCHANGED <<column, bean, stale>>

BugUpdate(c) == UpdateIf(c, TRUE)

\* Update; an id that is not positive is refused. A stale bean may undo a
\* deletion by status, by its nature: nothing is promised after it.
Update(c) == UpdateIf(c, Writes(bean[c]))

\* Delete of a table with a status, Dtd of the others.
Delete(i) ==
    /\ row[i] # "none"
    /\ row' = [row EXCEPT ![i] = "deleted"]
    /\ hidden' = hidden \cup {i}
    /\ stale' = stale \cup {c \in Client : bean[c] # None /\ bean[c].id = i}
    /\ Track
    /\ UNCHANGED <<column, bean>>

-----------------------------------------------------------------------------
Limit == IF filter.Ps > 0 THEN filter.Ps ELSE DEFAULT_PAGE_SIZE

BugSkip == filter.P * Limit

Skip == (filter.P - 1) * Limit

\* The place of a row in the list: the greatest id comes first.
Rank(i) == Cardinality({j \in Listed : j >= i})

Offset == IF Skip > 0 THEN Skip ELSE 0

PageRows == {i \in Listed : Rank(i) \in Offset + 1 .. Offset + Limit}

\* A walk begins: List, or ListCondition and Do, which only a table with dtd
\* can do. A filter may come without a page, which is zero.
Ask(p, ps, reveal, showAll) ==
    /\ at = "start"
    /\ reveal \/ showAll => column = "dtd"
    /\ filter' = [P |-> p, Ps |-> ps, reveal |-> reveal, showAll |-> showAll]
    /\ first' = {i \in Id : Listable(row[i], reveal)}
    /\ left' = FALSE /\ joined' = FALSE
    /\ at' = "find"
    /\ UNCHANGED <<column, table, data, seen>>

\* The first statement of FindAndCount, or the only one of All.
Find ==
    /\ at = "find"
    /\ data' = IF filter.showAll THEN Listed ELSE PageRows
    /\ at' = "count"
    /\ UNCHANGED <<column, table, filter, seen, first, left, joined>>

\* The second, for the number of pages; as long as there are more, the walk
\* asks for the next.
Pc == Cardinality(Listed) \div Limit + 1

Count ==
    /\ at = "count"
    /\ seen' = [i \in Id |-> IF i \in data THEN seen[i] + 1 ELSE seen[i]]
    /\ LET p == IF filter.P < 1 THEN 1 ELSE filter.P
       IN  IF filter.showAll \/ p >= Pc
           THEN at' = "done" /\ UNCHANGED filter
           ELSE at' = "find" /\ filter' = [filter EXCEPT !.P = p + 1]
    /\ UNCHANGED <<column, table, data, first, left, joined>>

\* The second fails: the page is lost, and asked for again.
CountFails ==
    /\ at = "count" /\ ~filter.showAll
    /\ at' = "find"
    /\ UNCHANGED <<column, table, filter, data, seen, first, left, joined>>

Next ==
    \/ \E i \in Id : Create(i) \/ Delete(i)
    \/ \E c \in Client : Update(c) \/ \E i \in Id : Get(c, i)
    \/ \E p \in 0 .. 1, ps \in PageSizes, reveal, showAll \in BOOLEAN :
            Ask(p, ps, reveal, showAll)
    \/ Find
    \/ Count
    \/ CountFails

Spec == Init /\ [][Next]_vars

-----------------------------------------------------------------------------
TypeOK ==
    /\ column \in {"status", "dtd"}
    /\ row \in [Id -> {"none", "ok", "deleted"}]
    /\ bean \in [Client -> {None} \cup [id : Id \cup {0}, state : {"none", "ok", "deleted"}]]
    /\ filter \in [P : Nat, Ps : Int, reveal : BOOLEAN, showAll : BOOLEAN]
    /\ at \in {"start", "find", "count", "done"}
    /\ data \subseteq Id
    /\ seen \in [Id -> Nat]
    /\ first \subseteq Id
    /\ left \in BOOLEAN /\ joined \in BOOLEAN
    /\ hidden \subseteq Id
    /\ stale \subseteq Client

\* A row that was deleted is on no page that is asked for afterwards, unless
\* the list is to reveal it: no update brings it back, however long ago its
\* writer read the row. A row deleted by its status comes back only through an
\* update whose writer read it before the deletion (module.go:226).
DeletedStayHidden ==
    [][Find /\ ~filter.reveal => data' \cap hidden = {}]_vars

\* Walking from the first page, or from none, to the last that GetPager counts
\* misses no row while none ceases to be listed, also when others join and move
\* the rest to later pages; and returns none twice while none joins.
WalkComplete ==
    at = "done" =>
        /\ ~left => \A i \in first : seen[i] >= 1
        /\ ~joined => \A i \in Id : seen[i] <= 1

=============================================================================
