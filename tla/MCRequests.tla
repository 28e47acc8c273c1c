----------------------------- MODULE MCRequests -----------------------------
(* Instances of Requests for TLC.                                          *)
EXTENDS Requests

CONSTANTS u1, u2, q1, q2

TwoUsers == {u1, u2}

TwoReqs == {q1, q2}

TwoTenants == 1..2

TwoKeys == 1..2

\* Two connects, of one user or of both, that overlap or follow each other.
TwoTokens == 11..12
=============================================================================
