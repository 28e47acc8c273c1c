----------------------------- MODULE MCSyncRuns -----------------------------
(* Instances of SyncRuns for TLC.                                          *)
EXTENDS SyncRuns, TLC

CONSTANTS t1, t2, r1, r2, c1, a1, k1

OneTenant == {t1}
TwoTenants == {t1, t2}
TwoRuns == {r1, r2}
OneCourse == {c1}
OneAssignment == {a1}
MCCourseOf == [a \in Assignments |-> c1]
OneKey == {k1}
\* hashtext collides for all tenants.
CollidingKey == [t \in Tenants |-> k1]

\* Runs differ in nothing but their name.  Used only by runs without liveness.
RunSymmetry == Permutations(Runs)
=============================================================================
