------------------------------ MODULE MCFleet ------------------------------
(* Instances of Fleet for TLC.                                             *)
EXTENDS Fleet

CONSTANTS t1, t2, t3, k1, k2

TwoTenants == {t1, t2}
ThreeTenants == {t1, t2, t3}
OneKey == {k1}
TwoKeys == {k1, k2}
=============================================================================
