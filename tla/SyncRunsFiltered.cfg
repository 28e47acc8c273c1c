SPECIFICATION Spec
CONSTANTS
    t1 = t1
    t2 = t2
    r1 = r1
    r2 = r2
    c1 = c1
    a1 = a1
    k1 = k1
    NoRun = NoRun
    NoTenant = NoTenant
    Tenants <- OneTenant
    Runs <- TwoRuns
    Courses <- OneCourse
    Assignments <- OneAssignment
    CourseOf <- MCCourseOf
    LockKeys <- OneKey
    LockKey <- CollidingKey
    Modes = {"callerLock"}
    Filtered = {"courses", "assignments"}
    Errors = {"unexpected"}
    MaxClock = 3
INVARIANTS
    Complete
