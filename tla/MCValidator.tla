----------------------------- MODULE MCValidator -----------------------------
(***************************************************************************)
(* Instances of Validator for TLC: a struct of two fields and rule sets by *)
(* two names. The tags try what clauses and names can do.                  *)
(***************************************************************************)
EXTENDS Validator, TLC

CONSTANTS r1, r2, r3, Default, Other, id, required, ranged

MCThree == {r1, r2, r3}
MCTwo == {r1, r2}
MCNames == {Default, Other}
MCRules == {required, ranged}

Plain(rules) == [names |-> <<>>, rules |-> rules]
Named(names, rules) == [names |-> names, rules |-> rules]

\* Two rule sets of one field each, a clause that takes over a name and
\* overrides, and one rule set of two fields.
MCCorrect == {
    <<<<Named(<<Other>>, required), Named(<<Default>>, ranged)>>, <<>>>>,
    <<<<Named(<<Other>>, required), Plain(ranged)>>, <<>>>>,
    <<<<Plain(required)>>, <<Plain(ranged)>>>>}

\* Two names, and a rule that there is not.
MCBad == {<<<<Named(<<Default, Other>>, required)>>, <<Plain(Bad), Plain(ranged)>>>>}

MCTags == MCCorrect \cup MCBad

\* Nothing tells the requests apart but what they ask for.
Symmetry == Permutations(Request)
=============================================================================
