---------------------------- MODULE MCManualSync ----------------------------
(* Instances of ManualSync for TLC.                                        *)
EXTENDS ManualSync

CONSTANTS q1, q2, p1, p2, t1

TwoRequests == {q1, q2}
OneProcess == {p1}
TwoProcesses == {p1, p2}
OneTenant == {t1}
Together == [q \in Requests |-> p1]
Apart == [q \in Requests |-> IF q = q1 THEN p1 ELSE p2]
=============================================================================
