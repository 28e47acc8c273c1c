---------------------------- MODULE RecordsAlone ----------------------------
(***************************************************************************)
(* The tables as one tenant sees them: its own rows and its own run are a  *)
(* behaviour of Records with no other tenant in it. Every query of the     *)
(* code filters by tenant_id; this is what the filters are for.            *)
(***************************************************************************)
EXTENDS Records

CONSTANT Self  \* the tenant whose view is taken

ASSUME SelfAssumption == Self \in Tenants

Mine == {r \in rows : r.tenant = Self}

MyRun == [t \in {Self} |-> run[t]]

Alone == INSTANCE Records WITH
    Tenants <- {Self},
    Accounts <- [t \in {Self} |-> Accounts[t]],
    CourseItems <- [t \in {Self} |-> CourseItems[t]],
    EnrollmentItems <- [t \in {Self} |-> EnrollmentItems[t]],
    AssignmentItems <- [t \in {Self} |-> AssignmentItems[t]],
    rows <- Mine,
    run <- MyRun

\* Tenants do not interfere, although they store records with the same Canvas
\* ids: what a tenant stores, changes and links is what it would without the
\* others, and what the others do it cannot tell from nothing being done.
AsIfAlone == Alone!Spec
=============================================================================
