------------------------------ MODULE Records ------------------------------
(***************************************************************************)
(* The record tables of all tenants, and the runs of the pipeline that     *)
(* fill them from what Canvas answers: app/sync/pipeline.py, the DTOs and  *)
(* the peer filter of app/canvas/dto.py, app/repositories/upsert.py.       *)
(*                                                                         *)
(* Tenants share Canvas ids: two students of one course both store it.     *)
(* A run that fails is rolled back as a whole (SyncRuns), so only the runs *)
(* that commit are steps here.                                             *)
(***************************************************************************)
EXTENDS Naturals, Sequences

CONSTANTS
    Tenants,
    Users, Courses, Assignments, Enrollments, Submissions,  \* Canvas ids
    Accounts,         \* Accounts[t]: the users whose token tenant t may store
    CourseItems,      \* what Canvas may list for each tenant as favourite
    EnrollmentItems,  \* courses, as its enrollments,
    AssignmentItems,  \* and as the assignments of a course
    MaxListed,        \* bound on the courses listed in a run
    None              \* a NULL column, an absent field

Kinds == {"user", "course", "enrollment", "assignment", "submission"}

CanvasIds == Users \cup Courses \cup Assignments \cup Enrollments \cup Submissions

\* What a workflow_state or an enrollment_state means to the soft deletion.
States == {"active", "inactive", None}

\* The fields of the DTOs that decide what is stored, and under which keys.
EnrollmentItem ==
    [id : Enrollments \cup {None}, user_id : Users \cup {None},
     user : Users \cup {None}, course_id : Courses \cup {None}, state : States]

CourseItem ==
    [id : Courses, state : States, enrollments : Seq(EnrollmentItem)]

SubmissionItem ==
    [id : Submissions, user_id : Users \cup {None},
     assignment_id : Assignments \cup {None}, state : States, body : BOOLEAN]

AssignmentItem ==
    [id : Assignments, state : States, submission : SubmissionItem \cup {None}]

\* A row is known by its tenant, table and Canvas id; its uuid stands for
\* this key, since rows are never removed.
RowKey == Tenants \X Kinds \X CanvasIds

ASSUME RecordsAssumption ==
    /\ None \notin CanvasIds \cup RowKey \cup SubmissionItem
    /\ Accounts \in [Tenants -> SUBSET Users]
    /\ CourseItems \in [Tenants -> SUBSET CourseItem]
    /\ EnrollmentItems \in [Tenants -> SUBSET EnrollmentItem]
    /\ AssignmentItems \in [Tenants -> SUBSET AssignmentItem]
    /\ MaxListed \in Nat

VARIABLES
    rows,   \* the rows of the five tables
    run     \* run[t]: where the run of tenant t is

vars == <<rows, run>>

\* about and text remember whose record the row was filled from, and whose
\* body it holds; None is a record that does not say.
Row ==
    [tenant : Tenants, kind : Kinds, canvas : CanvasIds,
     parent : RowKey \cup {None}, user : RowKey \cup {None}, state : States,
     deleted : BOOLEAN, about : SUBSET (Users \cup {None}),
     text : SUBSET (Users \cup {None})]

\* What an upsert writes: columns left at None or {} are not in the payload.
Change ==
    [parent : RowKey \cup {None}, user : RowKey \cup {None}, state : States,
     about : SUBSET (Users \cup {None}), text : SUBSET (Users \cup {None})]

KeyOf(r) == <<r.tenant, r.kind, r.canvas>>

\* Mutant: rows that were soft-deleted are not looked up.
FindVisible(rs, t, kind, c) ==
    {r \in rs : r.tenant = t /\ r.kind = kind /\ r.canvas = c /\ ~r.deleted}

\* Mutant: Canvas ids are taken for global.
FindAnywhere(rs, t, kind, c) ==
    {r \in rs : r.kind = kind /\ r.canvas = c}

\* SELECT by tenant_id and canvas_id.
Find(rs, t, kind, c) ==
    {r \in rs : r.tenant = t /\ r.kind = kind /\ r.canvas = c}

\* _resolve_local_uuid: the row with this Canvas id, None if there is none.
Resolve(rs, t, kind, c) ==
    IF Find(rs, t, kind, c) = {} THEN None
    ELSE KeyOf(CHOOSE r \in Find(rs, t, kind, c) : TRUE)

\* Mutant: absent columns are written as NULL.
MergedBlank(r, change) ==
    [r EXCEPT !.parent = change.parent, !.user = change.user,
              !.state = change.state,
              !.deleted = @ \/ change.state = "inactive",
              !.about = @ \cup change.about, !.text = change.text]

Given(new, old) == IF new = None THEN old ELSE new

\* The row after an update, and after soft_delete_if_inactive.
Merged(r, change) ==
    [r EXCEPT !.parent = Given(change.parent, @), !.user = Given(change.user, @),
              !.state = Given(change.state, @),
              !.deleted = @ \/ change.state = "inactive",
              !.about = @ \cup change.about,
              !.text = IF change.text = {} THEN @ ELSE change.text]

\* The row an insertion makes.
Inserted(t, kind, c, change) ==
    [tenant |-> t, kind |-> kind, canvas |-> c,
     parent |-> change.parent, user |-> change.user, state |-> change.state,
     deleted |-> change.state = "inactive",
     about |-> change.about, text |-> change.text]

\* upsert_by_canvas_id followed by soft_delete_if_inactive.
Upsert(rs, t, kind, c, change) ==
    IF Find(rs, t, kind, c) = {}
    THEN rs \cup {Inserted(t, kind, c, change)}
    ELSE {IF r \in Find(rs, t, kind, c) THEN Merged(r, change) ELSE r : r \in rs}

NoChange ==
    [parent |-> None, user |-> None, state |-> None, about |-> {}, text |-> {}]

\* _enrollment_user_id: the user is named by the field or by the object.
EnrolledUser(e) == Given(e.user_id, e.user)

\* strip_peer_data and the checks of the pipeline: the caller's enrollments
\* that have an id.
Kept(e, u) == EnrolledUser(e) = u /\ e.id # None

\* _upsert_enrollment
StoreEnrollment(rs, t, e, course) ==
    Upsert(rs, t, "enrollment", e.id,
           [parent |-> Resolve(rs, t, "course", Given(e.course_id, course)),
            user |-> Resolve(rs, t, "user", e.user_id),
            state |-> e.state, about |-> {EnrolledUser(e)}, text |-> {}])

\* The course of an item of the favourites listing.
StoreCourse(rs, t, item) ==
    Upsert(rs, t, "course", item.id, [NoChange EXCEPT !.state = item.state])

\* Mutant: only the content of a peer's submission is dropped, not the row.
StoreSubmissionStripped(rs, t, u, s, assignment) ==
    IF s = None THEN rs
    ELSE Upsert(rs, t, "submission", s.id,
           [parent |-> Resolve(rs, t, "assignment", Given(s.assignment_id, assignment)),
            user |-> Resolve(rs, t, "user", s.user_id),
            state |-> s.state, about |-> {s.user_id},
            text |-> IF s.body /\ s.user_id = u THEN {u} ELSE {}])

\* _upsert_submission, unless the submission is a peer's. strip_peer_data has
\* removed the body unless the submission names the caller.
StoreSubmission(rs, t, u, s, assignment) ==
    IF s = None \/ (s # None /\ s.user_id \notin {u, None}) THEN rs
    ELSE Upsert(rs, t, "submission", s.id,
           [parent |-> Resolve(rs, t, "assignment", Given(s.assignment_id, assignment)),
            user |-> Resolve(rs, t, "user", s.user_id),
            state |-> s.state, about |-> {s.user_id},
            text |-> IF s.body /\ s.user_id = u THEN {u} ELSE {}])

\* Mutant: the submission first.
StoreAssignmentLast(rs, t, u, course, item) ==
    LET stored == StoreSubmission(rs, t, u, item.submission, item.id)
    IN Upsert(stored, t, "assignment", item.id,
              [parent |-> Resolve(rs, t, "course", course), user |-> None,
               state |-> item.state, about |-> {}, text |-> {}])

\* An item of the assignments of a course: the assignment, then its submission.
StoreAssignment(rs, t, u, course, item) ==
    LET stored == Upsert(rs, t, "assignment", item.id,
                         [parent |-> Resolve(rs, t, "course", course), user |-> None,
                          state |-> item.state, about |-> {}, text |-> {}])
    IN StoreSubmission(stored, t, u, item.submission, item.id)

Phases == {"idle", "courses", "enrollments", "assignments"}

\* listed: the courses of the favourites listing whose assignments are not
\* read yet; pending: the embedded enrollments of the last one.
Idle ==
    [phase |-> "idle", user |-> None, listed |-> <<>>, pending |-> <<>>,
     embedded |-> FALSE]

Begun(u) ==
    [phase |-> "courses", user |-> u, listed |-> <<>>, pending |-> <<>>,
     embedded |-> FALSE]

Init == rows = {} /\ run = [t \in Tenants |-> Idle]

\* _sync_self_user. The token decides which Canvas user the tenant is.
SelfUser(t) ==
    /\ run[t].phase = "idle"
    /\ \E u \in Accounts[t] :
        /\ rows' = Upsert(rows, t, "user", u, [NoChange EXCEPT !.about = {u}])
        /\ run' = [run EXCEPT ![t] = Begun(u)]

\* _sync_favorite_courses: an item,
FavouriteCourse(t) ==
    /\ run[t].phase = "courses" /\ run[t].pending = <<>>
    /\ Len(run[t].listed) < MaxListed
    /\ \E item \in CourseItems[t] :
        /\ rows' = StoreCourse(rows, t, item)
        /\ run' = [run EXCEPT ![t].listed = Append(@, item.id),
                              ![t].pending = item.enrollments]

\* one of its enrollments,
EmbeddedEnrollment(t) ==
    /\ run[t].phase = "courses" /\ run[t].pending # <<>>
    /\ LET e == Head(run[t].pending)
           course == run[t].listed[Len(run[t].listed)]
       IN IF Kept(e, run[t].user)
          THEN /\ rows' = StoreEnrollment(rows, t, e, course)
               /\ run' = [run EXCEPT ![t].pending = Tail(@), ![t].embedded = TRUE]
          ELSE /\ run' = [run EXCEPT ![t].pending = Tail(@)]
               /\ UNCHANGED rows

\* and its end. Without an embedded enrollment the fallback is read.
EndOfCourses(t) ==
    /\ run[t].phase = "courses" /\ run[t].pending = <<>>
    /\ run' = [run EXCEPT ![t].phase =
                  IF run[t].embedded THEN "assignments" ELSE "enrollments"]
    /\ UNCHANGED rows

\* _sync_fallback_enrollments: an item,
FallbackEnrollment(t) ==
    /\ run[t].phase = "enrollments"
    /\ \E e \in EnrollmentItems[t] :
        /\ Kept(e, run[t].user)
        /\ rows' = StoreEnrollment(rows, t, e, e.course_id)
    /\ UNCHANGED run

\* and its end, on the last page or on the first 404.
EndOfEnrollments(t) ==
    /\ run[t].phase = "enrollments"
    /\ run' = [run EXCEPT ![t].phase = "assignments"]
    /\ UNCHANGED rows

\* _sync_course_assignments: an item of the first course that is left,
Assignment(t) ==
    /\ run[t].phase = "assignments" /\ run[t].listed # <<>>
    /\ \E item \in AssignmentItems[t] :
        rows' = StoreAssignment(rows, t, run[t].user, Head(run[t].listed), item)
    /\ UNCHANGED run

\* the end of its assignments,
EndOfAssignments(t) ==
    /\ run[t].phase = "assignments" /\ run[t].listed # <<>>
    /\ run' = [run EXCEPT ![t].listed = Tail(@)]
    /\ UNCHANGED rows

\* and of the run.
EndOfRun(t) ==
    /\ run[t].phase = "assignments" /\ run[t].listed = <<>>
    /\ run' = [run EXCEPT ![t] = Idle]
    /\ UNCHANGED rows

Step(t) ==
    \/ SelfUser(t)
    \/ FavouriteCourse(t)
    \/ EmbeddedEnrollment(t)
    \/ EndOfCourses(t)
    \/ FallbackEnrollment(t)
    \/ EndOfEnrollments(t)
    \/ Assignment(t)
    \/ EndOfAssignments(t)
    \/ EndOfRun(t)

Next == \E t \in Tenants : Step(t)

Spec == Init /\ [][Next]_vars
-----------------------------------------------------------------------------
(* Properties.                                                             *)

\* Every variable keeps its type; no row is stored without its Canvas id.
TypeOK ==
    /\ rows \subseteq Row
    /\ run \in [Tenants -> [phase : Phases, user : Users \cup {None},
                            listed : Seq(Courses), pending : Seq(EnrollmentItem),
                            embedded : BOOLEAN]]

\* A Canvas record has one row per tenant, soft-deleted or not, whatever is
\* delivered again (the unique constraints would end the run).
OneRowPerRecord ==
    \A r, s \in rows : KeyOf(r) = KeyOf(s) => r = s

ParentKind(kind) ==
    IF kind = "submission" THEN "assignment" ELSE "course"

\* Links lead to existing rows of the right table of the same tenant, although
\* tenants store records with the same Canvas ids.
LinksWithinTenant ==
    \A r \in rows :
        /\ r.parent # None =>
            \E p \in rows : /\ KeyOf(p) = r.parent /\ p.tenant = r.tenant
                            /\ p.kind = ParentKind(r.kind)
        /\ r.user # None =>
            \E p \in rows : /\ KeyOf(p) = r.user /\ p.tenant = r.tenant
                            /\ p.kind = "user"

\* The Canvas users a tenant has been: /users/self is the only source of users.
OwnUsers(t) == {r.canvas : r \in {s \in rows : s.tenant = t /\ s.kind = "user"}}

\* Nothing is stored that belongs to another student: rows are filled from the
\* tenant's own records, or from submissions that do not say whose they are,
\* and of those no body is kept.
PeersKeptOut ==
    \A r \in rows :
        /\ r.about \subseteq OwnUsers(r.tenant) \cup
                (IF r.kind = "submission" THEN {None} ELSE {})
        /\ r.text \subseteq OwnUsers(r.tenant)

\* A submission that names another assignment than the one it came with.
Misplaced(item) ==
    /\ item.submission # None
    /\ item.submission.assignment_id \notin {None, item.id}

\* An assignment is linked to its course and a submission to an assignment,
\* unless it came with one and names another (which may not be stored), and a
\* link once made is never lost.
NoOrphans ==
    [][\A r \in rows' :
        /\ r.kind = "assignment" => r.parent # None
        /\ r.kind = "submission" /\ r.parent = None =>
            \E item \in AssignmentItems[r.tenant] :
                Misplaced(item) /\ item.submission.id = r.canvas
        /\ \A s \in rows : KeyOf(s) = KeyOf(r) =>
            /\ s.parent # None => r.parent # None
            /\ s.user # None => r.user # None]_vars

\* A run that delivers what the run before it delivered, because the watermark
\* is the start of that run, leaves the tables as they were: a course and one of
\* its assignments, in that order.
Replayable ==
    \A t \in Tenants : run[t].phase = "idle" =>
        \A u \in OwnUsers(t), c \in CourseItems[t],
           a \in AssignmentItems[t] :
            LET Replay(rs) == StoreAssignment(StoreCourse(rs, t, c), t, u, c.id, a)
            IN Replay(Replay(rows)) = Replay(rows)
=============================================================================
