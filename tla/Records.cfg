SPECIFICATION Spec
CONSTANTS
    a = a
    b = b
    Tenants = {a, b}
    Accounts <- MCAccounts
    Users = {1, 2}
    Courses = {3}
    Assignments = {4, 9}
    Enrollments = {5}
    Submissions = {6}
    CourseItems <- MCCourseItems
    EnrollmentItems <- MCEnrollmentItems
    AssignmentItems <- MCAssignmentItems
    MaxListed = 1
    Self = a
    None = None
INVARIANTS
    OneRowPerRecord
    LinksWithinTenant
    PeersKeptOut
    Replayable
PROPERTIES
    NoOrphans
    AsIfAlone
