-------------------------------- MODULE Trees --------------------------------
(***************************************************************************)
(* TreeBuilder of domain.go: nodes are handed to Node one by one, in any   *)
(* order, children before or after their parents, and Build returns the    *)
(* roots of the trees they make.                                           *)
(*                                                                         *)
(* A node is known by its position among those that arrived: several may   *)
(* have the same id, as the rows of a join do. The map "cache" holds three *)
(* things under keys of different signs, which are three variables here:   *)
(* ids are primary keys, and positive.                                     *)
(***************************************************************************)
EXTENDS Integers, Sequences

CONSTANTS
    Id,        \* the ids nodes may have
    Parent,    \* the ids they may name as their parent's; none from 0 down
    MaxNodes   \* bound: the nodes that arrive

ASSUME IdAssumption == Id \subseteq Nat \ {0}
ASSUME ParentAssumption == Parent \subseteq Int
ASSUME MaxNodesAssumption == MaxNodes \in Nat

Key == Id \cup {p \in Parent : p > 0}

VARIABLES
    arrived,   \* history: the nodes that Node was called with
    node,      \* cache[id]: the node with the id, 0 for nil
    waiting,   \* cache[-id]: the children of an id that has not arrived
    roots,     \* cache[RootsNodeKey]
    children   \* what AddChild has added to each node that arrived

vars == <<arrived, node, waiting, roots, children>>

Init ==
    /\ arrived = <<>>
    /\ node = [k \in Key |-> 0]
    /\ waiting = [k \in Key |-> <<>>]
    /\ roots = <<>>
    /\ children = <<>>

BugAdopted(id) == <<>>

\* A node that is the first of its id gets the children that came before it.
Adopted(id) == IF node[id] = 0 THEN waiting[id] ELSE <<>>

BugPostponed(p, n) == [waiting EXCEPT ![p] = <<n>>]

\* The node n waits for its parent p.
Postponed(p, n) == [waiting EXCEPT ![p] = Append(@, n)]

\* Node: the node is cached, unless its id is, and put under its parent.
Node(id, p) ==
    LET n == Len(arrived) + 1
        cached == IF node[id] = 0 THEN [node EXCEPT ![id] = n] ELSE node
        nodes == Append(children, Adopted(id))
    IN  /\ Len(arrived) < MaxNodes
        /\ arrived' = Append(arrived, [id |-> id, parent |-> p])
        /\ node' = cached
        /\ \/ /\ p <= 0
              /\ roots' = Append(roots, n)
              /\ children' = nodes
              /\ UNCHANGED waiting
           \/ /\ p > 0 /\ cached[p] # 0
              /\ children' = [nodes EXCEPT ![cached[p]] = Append(@, n)]
              /\ UNCHANGED <<roots, waiting>>
           \/ /\ p > 0 /\ cached[p] = 0
              /\ waiting' = Postponed(p, n)
              /\ children' = nodes
              /\ UNCHANGED roots

Build == roots

\* No more nodes; Build may be called at any time and changes nothing.
Complete == Len(arrived) = MaxNodes /\ UNCHANGED vars

Next ==
    \/ \E id \in Id, p \in Parent : Node(id, p)
    \/ Complete

Spec == Init /\ [][Next]_vars

-----------------------------------------------------------------------------
Positions == 1 .. Len(arrived)

TypeOK ==
    /\ arrived \in Seq([id : Id, parent : Parent])
    /\ Len(arrived) <= MaxNodes
    /\ node \in [Key -> {0} \cup Positions]
    /\ waiting \in [Key -> Seq(Positions)]
    /\ roots \in Seq(Positions)
    /\ children \in Seq(Seq(Positions))
    /\ Len(children) = Len(arrived)

\* What should hang under whom, from what arrived alone.
FirstOf(n) == \A m \in Positions : arrived[m].id = arrived[n].id => n <= m
ChildrenOf(k) == {m \in Positions : arrived[m].parent = k}
Rootless == {m \in Positions : arrived[m].parent <= 0}

\* s is the set S in the order of arrival.
InOrder(s, S) ==
    /\ {s[i] : i \in DOMAIN s} = S
    /\ \A i, j \in DOMAIN s : i < j => s[i] < s[j]

\* Whatever the order of arrival, at any moment the children of a node are all
\* the nodes that name it as their parent, each once and in the order they
\* came, those that came before it first; and Build returns the nodes without
\* parents. A node whose id has come before stays without children.
Linked ==
    /\ InOrder(Build, Rootless)
    /\ \A n \in Positions :
            InOrder(children[n], IF FirstOf(n) THEN ChildrenOf(arrived[n].id) ELSE {})

Elements(s) == {s[i] : i \in DOMAIN s}

\* What the trees of Build hold: every set with the roots and the children of
\* its members has them.
InTrees(n) ==
    \A S \in SUBSET Positions :
        Elements(Build) \subseteq S
            /\ (\A m \in S : Elements(children[m]) \subseteq S)
        => n \in S

\* The node under which n should hang.
IsParentOf(m, n) == FirstOf(m) /\ arrived[m].id = arrived[n].parent

\* Every parent that is named has arrived, and nobody is his own ancestor: any
\* nodes have one among them whose parent is not.
WellFormed ==
    /\ \A n \in Positions :
            arrived[n].parent <= 0 \/ \E m \in Positions : IsParentOf(m, n)
    /\ \A S \in SUBSET Positions \ {{}} :
            \E n \in S : \A m \in S : ~IsParentOf(m, n)

\* When the nodes make up trees, no node is missing from what Build returns,
\* in whatever order they came.
NothingLost == WellFormed => \A n \in Positions : InTrees(n)

\* What is cached is the first node of each id, and the children of the
\* others wait.
Cached ==
    \A k \in Key :
        /\ node[k] # 0 => arrived[node[k]].id = k /\ FirstOf(node[k])
        /\ node[k] = 0 => /\ \A n \in Positions : arrived[n].id # k
                          /\ InOrder(waiting[k], ChildrenOf(k))

IndInv ==
    /\ TypeOK
    /\ Cached
    /\ Linked

=============================================================================
