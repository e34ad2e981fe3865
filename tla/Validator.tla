------------------------------- MODULE Validator -------------------------------
(***************************************************************************)
(* The rule set cache of validator/validator.go, a global map of maps that *)
(* concurrent requests read, and fill on the first use of a struct type,   *)
(* without a lock.                                                         *)
(*                                                                         *)
(* There is one struct type, with rule sets by name, and the rule set of   *)
(* ids that is registered when the program starts.  What rules say of data *)
(* is left out: a request is known by the rules it applied.                *)
(*                                                                         *)
(* A write of a map takes two steps.  The runtime ends the program when it *)
(* sees a second write in between; a read in between it may see or not.    *)
(***************************************************************************)
EXTENDS Integers, Sequences, FiniteSets, SequencesExt

CONSTANTS
    Request,     \* goroutines that validate something, once each
    Name,        \* names of rule sets
    DEFAULT,     \* the one of tags without a name
    IdSet,       \* RULESET_ID_STRING_REQ_INT
    NumField,    \* the number of fields of the struct
    Rules,       \* lists of rules
    IdRules,     \* the one of ids, "required,int"
    Bad,         \* a list with a rule that there is not
    TagChoices,  \* what the tags of the fields may be
    None         \* nil

Field == 1 .. NumField
Key == Name \cup {IdSet}

\* A tag is split at "+" into clauses, "names~rules" or "rules".
Clause == [names : Seq(Name), rules : Rules \cup {Bad}]

ASSUME NameAssumption == DEFAULT \in Name /\ IdSet \notin Name
ASSUME FieldAssumption == NumField \in Nat \ {0}
ASSUME RulesAssumption == IdRules \in Rules /\ Bad \notin Rules
ASSUME TagsAssumption == TagChoices \subseteq [Field -> Seq(Clause)]

\* The maps: that of ids, and those made for the struct, each by the request
\* that found none.
IdMap == <<None, IdSet>>
Map == (Request \X Name) \cup {IdMap}
RuleSetCache == <<None, None>>
Memory == Map \cup {RuleSetCache}

ASSUME NoneAssumption == None \notin Request \cup Rules \cup Key \cup Map

VARIABLES
    tags,       \* rigid: the "valid" tags of the struct's fields
    cache,      \* RuleSetCache
    content,    \* what is in each map
    writing,    \* the request that is writing a map, or None
    pc,         \* how far each request is
    call,       \* ValidateStruct, ValidateVar or ValidateMap
    key,        \* the rule set it asks for
    todo,       \* the calls of cacheFieldRules it has still to make
    held,       \* structRules, or ruleSet
    must,       \* the fields its iteration cannot miss
    used,       \* the rules it has applied
    disturbed   \* history: another request was translating meanwhile

shared == <<cache, content, writing>>
local == <<call, key, todo, held, must, used>>
vars == <<tags, shared, pc, local, disturbed>>

-----------------------------------------------------------------------------
(***************************************************************************)
(* Tags                                                                    *)
(***************************************************************************)
BugNamesOf(tag, i) ==
    LET given == {j \in 1 .. i : tag[j].names # <<>>}
    IN  IF given = {} THEN <<DEFAULT>>
        ELSE SetToSeq(UNION {ToSet(tag[j].names) : j \in given})

\* A clause without names has those of the clauses before it.
NamesOf(tag, i) ==
    LET given == {j \in 1 .. i : tag[j].names # <<>>}
    IN  IF given = {} THEN <<DEFAULT>> ELSE tag[Max(given)].names

BadClauses(tag) == {i \in DOMAIN tag : tag[i].rules = Bad}
BadFields == {f \in Field : BadClauses(tags[f]) # {}}

BugReached(f, i) == \A g \in 1 .. f - 1 : g \notin BadFields

\* A translation stops at a clause with a rule that there is not.
Reached(f, i) ==
    /\ \A g \in 1 .. f - 1 : g \notin BadFields
    /\ \A j \in 1 .. i : j \notin BadClauses(tags[f])

\* The calls of cacheFieldRules for a struct, one for each name of a clause:
\* the field, the place of the clause in its tag, and that of the name.
CallsOf(f, i) == {<<f, i, n>> : n \in DOMAIN NamesOf(tags[f], i)}
Calls == UNION {UNION {CallsOf(f, i) : i \in {j \in DOMAIN tags[f] : Reached(f, j)}} :
                    f \in Field}

\* The rule set a call is about, the rules it gives to its field, and the order
\* of the calls.
NameAt(p) == NamesOf(tags[p[1]], p[2])[p[3]]
RulesAt(p) == tags[p[1]][p[2]].rules
Before(p, q) ==
    \/ p[1] < q[1]
    \/ p[1] = q[1] /\ p[2] < q[2]
    \/ p[1] = q[1] /\ p[2] = q[2] /\ p[3] < q[3]

\* The call a request is at.
Current(r) == CHOOSE p \in todo[r] : \A q \in todo[r] : p = q \/ Before(p, q)

Empty == [f \in Field |-> None]

-----------------------------------------------------------------------------
\* What the program has when it starts: the rule set of ids.
OnlyIds == [k \in Key |-> IF k = IdSet THEN IdMap ELSE None]
IdContent == [m \in Map |-> IF m = IdMap THEN [Empty EXCEPT ![1] = IdRules]
                            ELSE Empty]
All(x) == [r \in Request |-> x]

Init ==
    /\ tags \in TagChoices
    /\ cache = OnlyIds
    /\ content = IdContent
    /\ writing = [m \in Memory |-> None]
    /\ pc = All("idle")
    /\ call = All(None)
    /\ key = All(None)
    /\ todo = All({})
    /\ held = All(None)
    /\ must = All({})
    /\ used = All({})
    /\ disturbed = All(FALSE)

Translating(r) == pc[r] \in {"find", "make", "made", "store", "stored"}
Active(r) == Translating(r) \/ pc[r] \in {"look", "look again", "range"}

At(r, place) == pc[r] = place
Goto(r, place) == pc' = [pc EXCEPT ![r] = place]

\* "concurrent map writes", "concurrent map read and map write", ...: the
\* program ends. Started again, it has lost its memory.
MayNotice(m, r) ==
    /\ writing[m] \notin {None, r}
    /\ cache' = OnlyIds
    /\ content' = IdContent
    /\ writing' = [n \in Memory |-> None]
    /\ pc' = All("idle")
    /\ call' = All(None)
    /\ key' = All(None)
    /\ todo' = All({})
    /\ held' = All(None)
    /\ must' = All({})
    /\ used' = All({})
    /\ disturbed' = All(FALSE)
    /\ UNCHANGED tags

\* A nil target is fine, and one that is no struct gets an error without a
\* code: the cache is not touched.
NoStruct(r) ==
    /\ At(r, "idle")
    /\ Goto(r, "no struct")
    /\ UNCHANGED <<tags, shared, local, disturbed>>

\* A request validates an id, a map, or a struct.
Start(r, c, k) ==
    /\ At(r, "idle")
    /\ c = "ValidateStruct" => k \in Name
    /\ c = "ValidateVar" => k = IdSet
    /\ call' = [call EXCEPT ![r] = c]
    /\ key' = [key EXCEPT ![r] = k]
    /\ Goto(r, "look")
    /\ disturbed' = [disturbed EXCEPT ![r] = \E q \in Request : Translating(q)]
    /\ UNCHANGED <<tags, shared, todo, held, must, used>>

\* The loop over the rule set m begins. Entries that come later it may see or
\* not. ValidateVar wants a set of one field.
BeginRange(r, m) ==
    LET present == {f \in Field : content[m][f] # None}
    IN  /\ held' = [held EXCEPT ![r] = m]
        /\ must' = [must EXCEPT ![r] = present]
        /\ Goto(r, IF call[r] = "ValidateVar" /\ Cardinality(present) # 1
                   THEN "panicked" ELSE "range")

\* The first look into the cache. Only a struct is translated.
Look(r) ==
    /\ At(r, "look")
    /\ \/ MayNotice(RuleSetCache, r)
       \/ /\ cache[key[r]] # None
          /\ BeginRange(r, cache[key[r]])
          /\ UNCHANGED <<tags, shared, call, key, todo, used, disturbed>>
       \/ /\ cache[key[r]] = None /\ call[r] # "ValidateStruct"
          /\ Goto(r, "panicked")
          /\ UNCHANGED <<tags, shared, local, disturbed>>
       \/ /\ cache[key[r]] = None /\ call[r] = "ValidateStruct"
          /\ Goto(r, "find")
          /\ todo' = [todo EXCEPT ![r] = Calls]
          /\ disturbed' = [q \in Request |->
                              disturbed[q] \/ (q # r /\ Active(q))]
          /\ UNCHANGED <<tags, shared, call, key, held, must, used>>

\* cacheFieldRules looks for the rule set of the next call.
Find(r) ==
    /\ At(r, "find") /\ todo[r] # {}
    /\ \/ MayNotice(RuleSetCache, r)
       \/ LET m == cache[NameAt(Current(r))]
          IN  /\ Goto(r, IF m = None THEN "make" ELSE "store")
              /\ held' = [held EXCEPT ![r] = m]
              /\ UNCHANGED <<tags, shared, call, key, todo, must, used,
                             disturbed>>

\* There was none: a new one is put into the cache, whatever is there now.
Make(r) ==
    /\ At(r, "make")
    /\ \/ MayNotice(RuleSetCache, r)
       \/ LET k == NameAt(Current(r))
          IN  /\ writing[RuleSetCache] = None
              /\ cache' = [cache EXCEPT ![k] = <<r, k>>]
              /\ content' = [content EXCEPT ![<<r, k>>] = Empty]
              /\ held' = [held EXCEPT ![r] = <<r, k>>]
              /\ writing' = [writing EXCEPT ![RuleSetCache] = r]
              /\ Goto(r, "made")
              /\ UNCHANGED <<tags, call, key, todo, must, used, disturbed>>

Made(r) ==
    /\ At(r, "made")
    /\ writing' = [writing EXCEPT ![RuleSetCache] = None]
    /\ Goto(r, "store")
    /\ UNCHANGED <<tags, cache, content, local, disturbed>>

BugStore(r) ==
    /\ At(r, "store")
    /\ \/ MayNotice(held[r], r)
       \/ /\ writing[held[r]] = None
          /\ content' = IF content[held[r]][Current(r)[1]] # None THEN content
                        ELSE [content EXCEPT ![held[r]][Current(r)[1]] =
                                  RulesAt(Current(r))]
          /\ writing' = [writing EXCEPT ![held[r]] = r]
          /\ Goto(r, "stored")
          /\ UNCHANGED <<tags, cache, local, disturbed>>

\* structRules[fieldName] = fieldRules
Store(r) ==
    /\ At(r, "store")
    /\ \/ MayNotice(held[r], r)
       \/ /\ writing[held[r]] = None
          /\ content' = [content EXCEPT ![held[r]][Current(r)[1]] =
                                  RulesAt(Current(r))]
          /\ writing' = [writing EXCEPT ![held[r]] = r]
          /\ Goto(r, "stored")
          /\ UNCHANGED <<tags, cache, local, disturbed>>

Stored(r) ==
    /\ At(r, "stored")
    /\ writing' = [writing EXCEPT ![held[r]] = None]
    /\ todo' = [todo EXCEPT ![r] = @ \ {Current(r)}]
    /\ Goto(r, "find")
    /\ UNCHANGED <<tags, cache, content, call, key, held, must, used,
                   disturbed>>

\* All fields are done, or a tag was bad: then ValidateStruct panics, and what
\* was cached before stays.
Translated(r) ==
    /\ At(r, "find") /\ todo[r] = {}
    /\ Goto(r, IF BadFields = {} THEN "look again" ELSE "panicked")
    /\ UNCHANGED <<tags, shared, local, disturbed>>

BugLookAgain(r) ==
    /\ At(r, "look again")
    /\ Goto(r, "panicked")
    /\ UNCHANGED <<tags, shared, local, disturbed>>

\* The second look panics where there is no rule set.
LookAgain(r) ==
    /\ At(r, "look again")
    /\ \/ MayNotice(RuleSetCache, r)
       \/ /\ cache[key[r]] # None
          /\ BeginRange(r, cache[key[r]])
          /\ UNCHANGED <<tags, shared, call, key, todo, used, disturbed>>
       \/ /\ cache[key[r]] = None
          /\ Goto(r, "panicked")
          /\ UNCHANGED <<tags, shared, local, disturbed>>

Seen(r) == {u[1] : u \in used[r]}

\* The loop comes to a field, in any order.
Visit(r, f) ==
    /\ At(r, "range")
    /\ f \notin Seen(r) /\ content[held[r]][f] # None
    /\ \/ MayNotice(held[r], r)
       \/ /\ used' = [used EXCEPT ![r] = @ \cup {<<f, content[held[r]][f]>>}]
          /\ UNCHANGED <<tags, shared, pc, call, key, todo, held, must,
                         disturbed>>

BugEndRange(r) ==
    /\ At(r, "range")
    /\ must[r] = {} \/ Seen(r) # {}
    /\ Goto(r, "validated")
    /\ UNCHANGED <<tags, shared, local, disturbed>>

\* All errors of all fields are collected before the loop ends.
EndRange(r) ==
    /\ At(r, "range")
    /\ must[r] \subseteq Seen(r)
    /\ \/ MayNotice(held[r], r)
       \/ /\ Goto(r, "validated")
          /\ held' = [held EXCEPT ![r] = None]
          /\ must' = [must EXCEPT ![r] = {}]
          /\ UNCHANGED <<tags, shared, call, key, todo, used, disturbed>>

Ended == {"validated", "no struct", "panicked"}

Terminated ==
    /\ \A r \in Request : pc[r] \in Ended
    /\ UNCHANGED vars

Step(r) ==
    \/ \E c \in {"ValidateStruct", "ValidateVar", "ValidateMap"}, k \in Key :
            Start(r, c, k)
    \/ NoStruct(r)
    \/ Look(r)
    \/ Find(r)
    \/ Make(r)
    \/ Made(r)
    \/ Store(r)
    \/ Stored(r)
    \/ Translated(r)
    \/ LookAgain(r)
    \/ \E f \in Field : Visit(r, f)
    \/ EndRange(r)

Next ==
    \/ \E r \in Request : Step(r)
    \/ Terminated

Spec == Init /\ [][Next]_vars

-----------------------------------------------------------------------------
TypeOK ==
    /\ tags \in TagChoices
    /\ cache \in [Key -> Map \cup {None}]
    /\ content \in [Map -> [Field -> Rules \cup {None}]]
    /\ writing \in [Memory -> Request \cup {None}]
    /\ pc \in [Request -> Ended \cup {"idle", "look", "find", "make", "made",
                            "store", "stored", "look again", "range"}]
    /\ call \in [Request ->
                    {"ValidateStruct", "ValidateVar", "ValidateMap", None}]
    /\ key \in [Request -> Key \cup {None}]
    /\ todo \in [Request -> SUBSET Calls]
    /\ held \in [Request -> Map \cup {None}]
    /\ must \in [Request -> SUBSET Field]
    /\ used \in [Request -> SUBSET (Field \X Rules)]
    /\ disturbed \in [Request -> BOOLEAN]

\* The i-th clause of the tag of f is about the rule set k: the last names given
\* so far include it, or none were given and it is the default.
Concerns(f, i, k) ==
    \/ /\ \A j \in 1 .. i : tags[f][j].names = <<>>
       /\ k = DEFAULT
    \/ \E j \in 1 .. i :
            /\ k \in ToSet(tags[f][j].names)
            /\ \A l \in j + 1 .. i : tags[f][l].names = <<>>

\* The rule set k of correct tags: the last clause about k of every field.
Complete(k) ==
    LET last(f) == {i \in DOMAIN tags[f] :
                        /\ Concerns(f, i, k)
                        /\ \A l \in i + 1 .. Len(tags[f]) : ~Concerns(f, l, k)}
    IN  IF k = IdSet THEN {<<1, IdRules>>}
        ELSE UNION {{<<f, tags[f][i].rules>> : i \in last(f)} : f \in Field}

SetOf(m) == {<<f, content[m][f]>> : f \in {g \in Field : content[m][g] # None}}

\* However many requests translated the struct at the same time, overwrote
\* each other's rule sets and wrote to abandoned ones: when none of them is
\* translating any more, every cached rule set is complete, with later clauses
\* in place of earlier ones.
QuietComplete ==
    BadFields = {} /\ ~(\E r \in Request : Translating(r)) =>
        \A k \in Key : cache[k] # None => SetOf(cache[k]) = Complete(k)

\* A request that no other disturbed applies all the rules of its rule set,
\* and no others, whatever happened before.
AloneComplete ==
    BadFields = {} =>
        \A r \in Request :
            pc[r] = "validated" /\ ~disturbed[r] => used[r] = Complete(key[r])

\* Even a disturbed request, or one after a bad tag, applies no rules but those
\* that a clause about its rule set gives to the field.
OnlyItsRules ==
    \A r \in Request : \A u \in used[r] :
        \/ key[r] = IdSet /\ u = <<1, IdRules>>
        \/ \E i \in DOMAIN tags[u[1]] :
                Concerns(u[1], i, key[r]) /\ tags[u[1]][i].rules = u[2]

\* An id or a struct panics only when the tags are bad or name no such rule
\* set, also while rule sets are replaced.
PanicsOnlyUndeclared ==
    \A r \in Request :
        pc[r] = "panicked" /\ call[r] # "ValidateMap" /\ BadFields = {} =>
            Complete(key[r]) = {}

\* validator.go:88 panics at the "try to validate struct without correct
\* validating rules configured": no struct with a bad tag is validated.
IncorrectRulesPanic ==
    \A r \in Request :
        pc[r] = "validated" /\ call[r] = "ValidateStruct" => BadFields = {}

=============================================================================
