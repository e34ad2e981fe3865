----------------------------- MODULE MCUserState -----------------------------
(***************************************************************************)
(* Three requests of one browser, with three operations among them.        *)
(***************************************************************************)
EXTENDS UserState, TLC

CONSTANTS u1, u2

MCUser == {u1, u2}

\* A value beside the user, and users that ParseUser cannot read.
MCMaps == {[k \in {"user", "other"} |-> IF k = "other" THEN Junk ELSE None],
           [k \in {"user", "other"} |-> IF k = "user" THEN NonString ELSE None]}

\* A logout that leaves the other value, and one that clears nothing.
MCClears == {{"user"}, {}}

\* Requests and users are interchangeable.
Symmetry == Permutations(Request) \cup Permutations(MCUser)

=============================================================================
