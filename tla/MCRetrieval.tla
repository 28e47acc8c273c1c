---------------------------- MODULE MCRetrieval ----------------------------
(* An instance of Retrieval for TLC: two tenants with an assignment each.  *)
EXTENDS Retrieval, TLC

CONSTANTS q1, q2

TwoAskers == {q1, q2}
OneAsker == {q1}

\* Questions differ in nothing but their name.
AskerSymmetry == Permutations(Askers)

MCTenantOf == [a \in {"essay", "quiz"} |-> IF a = "essay" THEN "ana" ELSE "bob"]

\* The essay has a description and a submission, which may say the same; the
\* quiz has a description, which the essay may share.
MCContents ==
    [a \in {"essay", "quiz"} |->
        IF a = "essay" THEN {{"draft"}, {"final"}, {"draft", "final"}} ELSE {{"draft"}}]
=============================================================================
