----------------------------- MODULE MCRecords -----------------------------
(* Instances of Records for TLC.                                           *)
EXTENDS RecordsAlone

CONSTANTS a, b

Tenant(x, y) == [t \in {a, b} |-> IF t = a THEN x ELSE y]

\* Tenant a has been connected with the accounts 1 and 2; tenant b, who takes
\* the same course, is user 2.
MCAccounts == Tenant({1, 2}, {2})

Own(u) == [id |-> 5, user_id |-> u, user |-> None, course_id |-> None, state |-> "active"]

\* Enrollment 5 of user 1, of user 2 with its course, of user 1 named by the
\* object only, of nobody, and one without an id.
MCEnrollments ==
    {Own(1), [Own(2) EXCEPT !.course_id = 3],
     [Own(None) EXCEPT !.user = 1],
     Own(None), [Own(1) EXCEPT !.id = None]}

MCEnrollmentItems == Tenant(MCEnrollments, {})

Course(state, enrollments) ==
    [id |-> 3, state |-> state, enrollments |-> enrollments]

\* Course 3, active, inactive or unchanged, and the enrollments embedded in it.
MCCourseItems ==
    Tenant({Course("inactive", <<>>), Course(None, <<Own(2)>>),
            Course("active", <<Own(1), Own(None)>>)},
           {Course("active", <<>>)})

Submitted(u, state) ==
    [id |-> 6, user_id |-> u, assignment_id |-> None, state |-> state, body |-> TRUE]

AssignmentWith(submission) == [id |-> 4, state |-> "active", submission |-> submission]

\* Assignment 4 with a submission of user 1, of user 2, or of nobody named and
\* for another assignment.
MCAssignmentItems ==
    Tenant({AssignmentWith(Submitted(1, "active")),
            AssignmentWith([Submitted(2, "inactive") EXCEPT !.assignment_id = 4]),
            AssignmentWith([Submitted(None, None) EXCEPT !.assignment_id = 9])},
           {AssignmentWith(Submitted(2, "active"))})
=============================================================================
