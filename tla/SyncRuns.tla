------------------------------ MODULE SyncRuns ------------------------------
(***************************************************************************)
(* Concurrent synchronisation runs of app/sync/pipeline.py against the     *)
(* database and Canvas.  A run is one call of sync_tenant.  In the         *)
(* production mode "callerLock" the scheduler or CanvasService opens the   *)
(* transaction, takes the advisory lock of the tenant and passes lock_id;  *)
(* sync_tenant then works in a savepoint of that transaction.  In mode     *)
(* "ownLock" (lock_id=None) sync_tenant opens the transaction itself and   *)
(* takes the lock after it has read the watermark.                         *)
(*                                                                         *)
(* A Canvas record is represented by the time of its last change, a stored *)
(* row by the time of the change it holds (0: no such row).                *)
(***************************************************************************)
EXTENDS Naturals

CONSTANTS
    Tenants,      \* tenants with a stored Canvas credential
    Runs,         \* calls of sync_tenant that may be in flight at once
    Courses,      \* favourite courses of a tenant
    Assignments,  \* assignments of those courses, with their submissions
    CourseOf,     \* the course of each assignment
    LockKeys,     \* the 32-bit keys hashtext() can return
    LockKey,      \* the key of each tenant
    Modes,        \* the ways of calling sync_tenant in this instance
    Filtered,     \* the listings whose updated_after parameter Canvas honours
    Errors,       \* error classes a failed run may record
    NoRun,
    NoTenant,
    MaxClock      \* bound: how far time advances

Items == Courses \cup Assignments

ASSUME SetsAssumption ==
    /\ Courses \cap Assignments = {}
    /\ CourseOf \in [Assignments -> Courses]
    /\ LockKey \in [Tenants -> LockKeys]
    /\ NoRun \notin Runs
    /\ NoTenant \notin Tenants
ASSUME ChoicesAssumption ==
    /\ Modes \subseteq {"callerLock", "ownLock"}
    /\ Filtered \subseteq {"courses", "assignments"}
    /\ "unexpected" \in Errors
    /\ "none" \notin Errors
    /\ MaxClock \in Nat

VARIABLES
    clock,   \* the time both Canvas and the application read
    canvas,  \* canvas[t][i]: when Canvas last changed record i of tenant t
    rows,    \* rows[t][i]: the change the committed row holds, 0 if there is none
    state,   \* state[t]: the committed sync_state row ("users")
    lock,    \* lock[k]: the run whose transaction holds advisory key k
    run      \* run[r]: what the call of sync_tenant in slot r has done so far

vars == <<clock, canvas, rows, state, lock, run>>

(***************************************************************************)
(* Records.  wm = 0 stands for last_watermark IS NULL.                     *)
(***************************************************************************)
Row == [wm : Nat, runAt : Nat, status : {"absent", "ok", "failed"},
        err : Errors \cup {"none"}]

NoRow == [wm |-> 0, runAt |-> 0, status |-> "absent", err |-> "none"]

OkRow(at) == [wm |-> at, runAt |-> at, status |-> "ok", err |-> "none"]

\* Mutant: a failure moves the watermark.
FailedRowMovingWatermark(current, previousWatermark, at, e) ==
    [wm |-> at, runAt |-> at, status |-> "failed", err |-> e]

\* Mutant: a failure is stamped with the watermark instead of its own time.
FailedRowAtWatermark(current, previousWatermark, at, e) ==
    [wm |-> previousWatermark, runAt |-> previousWatermark, status |-> "failed", err |-> e]

\* _write_failure_state: an absent row is inserted with the watermark the run
\* read, an existing one keeps its own.
FailedRow(current, previousWatermark, at, e) ==
    [wm |-> IF current = NoRow THEN previousWatermark ELSE current.wm,
     runAt |-> at, status |-> "failed", err |-> e]

Nothing == [i \in Items |-> 0]

PCs == {"idle", "acquire", "enter", "read", "fetch", "record", "commit"}

Run == [pc : PCs, tenant : Tenants \cup {NoTenant}, mode : Modes \cup {"none"},
        runAt : Nat, seen : Row, todo : SUBSET Items, staged : [Items -> Nat],
        draft : Row, err : Errors \cup {"none"}]

Idle == [pc |-> "idle", tenant |-> NoTenant, mode |-> "none", runAt |-> 0,
         seen |-> NoRow, todo |-> {}, staged |-> Nothing, draft |-> NoRow,
         err |-> "none"]

Init ==
    /\ clock = 1
    /\ canvas = [t \in Tenants |-> [i \in Items |-> 1]]
    /\ rows = [t \in Tenants |-> Nothing]
    /\ state = [t \in Tenants |-> NoRow]
    /\ lock = [k \in LockKeys |-> NoRun]
    /\ run = [r \in Runs |-> Idle]

-----------------------------------------------------------------------------
(* Helpers.                                                                *)

Key(r) == LockKey[run[r].tenant]

\* The transaction of r ends: PostgreSQL drops the advisory lock with it.
EndTransaction(r) ==
    lock' = [k \in LockKeys |-> IF lock[k] = r THEN NoRun ELSE lock[k]]

Listing(i) == IF i \in Courses THEN "courses" ELSE "assignments"

\* Mutant: updated_after is the time of the last run, even a failed one.
ListedSinceLastRun(r, i) ==
    \/ Listing(i) \notin Filtered
    \/ canvas[run[r].tenant][i] > run[r].seen.runAt

\* A listing leaves a record out when its updated_after filter excludes it.
Listed(r, i) ==
    \/ Listing(i) \notin Filtered
    \/ canvas[run[r].tenant][i] > run[r].seen.wm

\* The ORM keeps the row the run loaded in its identity map and writes only
\* the columns whose new value differs from the loaded one.
Flush(seen, current, new) ==
    LET Column(c) == IF seen # NoRow /\ new[c] = seen[c] THEN current[c] ELSE new[c]
    IN [wm |-> Column("wm"), runAt |-> Column("runAt"),
        status |-> Column("status"), err |-> Column("err")]

\* Another transaction holds an uncommitted write of the sync_state row.
RowLocked(r) ==
    \E q \in Runs \ {r} : run[q].pc = "commit" /\ run[q].tenant = run[r].tenant

-----------------------------------------------------------------------------
(* Canvas.                                                                 *)

\* A record of a tenant changes.  Editing an assignment does not touch the
\* updated_at of its course.
Edit(t, i) ==
    /\ clock < MaxClock
    /\ clock' = clock + 1
    /\ canvas' = [canvas EXCEPT ![t][i] = clock + 1]
    /\ UNCHANGED <<rows, state, lock, run>>

-----------------------------------------------------------------------------
(* A run.                                                                  *)

\* A caller opens the transaction.
Start(r, t, m) ==
    /\ run[r].pc = "idle"
    /\ run' = [run EXCEPT
                 ![r] = [Idle EXCEPT
                           !.pc = IF m = "ownLock" THEN "enter" ELSE "acquire",
                           !.tenant = t, !.mode = m, !.todo = Courses]]
    /\ UNCHANGED <<clock, canvas, rows, state, lock>>

\* Mutant: the result of pg_try_advisory_xact_lock is ignored.
AcquireUnchecked(r) ==
    /\ run[r].pc = "acquire"
    /\ lock' = [lock EXCEPT ![Key(r)] = r]
    /\ run' = [run EXCEPT ![r] =
                 [@ EXCEPT !.pc = IF run[r].mode = "ownLock" THEN "fetch" ELSE "enter"]]
    /\ UNCHANGED <<clock, canvas, rows, state>>

\* try_acquire_sync_lock succeeds: before sync_tenant in mode "callerLock",
\* after the watermark was read in mode "ownLock".
Acquire(r) ==
    /\ run[r].pc = "acquire"
    /\ lock[Key(r)] = NoRun
    /\ lock' = [lock EXCEPT ![Key(r)] = r]
    /\ run' = [run EXCEPT ![r] =
                 [@ EXCEPT !.pc = IF run[r].mode = "ownLock" THEN "fetch" ELSE "enter"]]
    /\ UNCHANGED <<clock, canvas, rows, state>>

\* Mutant: pg_advisory_xact_lock, which waits.
BusyWaits(r) ==
    /\ run[r].pc = "acquire"
    /\ lock[Key(r)] # NoRun
    /\ UNCHANGED vars

\* try_acquire_sync_lock fails: the run returns "locked" and writes nothing.
Busy(r) ==
    /\ run[r].pc = "acquire"
    /\ lock[Key(r)] # NoRun
    /\ run' = [run EXCEPT ![r] = Idle]
    /\ UNCHANGED <<clock, canvas, rows, state, lock>>

\* sync_tenant takes run_at.
Enter(r) ==
    /\ run[r].pc = "enter"
    /\ run' = [run EXCEPT ![r] = [@ EXCEPT !.pc = "read", !.runAt = clock]]
    /\ UNCHANGED <<clock, canvas, rows, state, lock>>

\* read_watermark and _read_sync_state.
ReadState(r) ==
    /\ run[r].pc = "read"
    /\ run' = [run EXCEPT ![r] =
                 [@ EXCEPT !.pc = IF run[r].mode = "ownLock" THEN "acquire" ELSE "fetch",
                           !.seen = state[run[r].tenant]]]
    /\ UNCHANGED <<clock, canvas, rows, state, lock>>

\* A record is fetched and, if Canvas lists it, upserted in the transaction.
\* The favourites listing comes first; only a listed course has its
\* assignments fetched.
Fetch(r, i) ==
    /\ run[r].pc = "fetch"
    /\ i \in run[r].todo
    /\ i \in Assignments => run[r].todo \cap Courses = {}
    /\ IF Listed(r, i)
       THEN run' = [run EXCEPT ![r] =
              [@ EXCEPT
                 !.todo = (run[r].todo \ {i}) \cup {a \in Assignments : CourseOf[a] = i},
                 !.staged = [run[r].staged EXCEPT ![i] = canvas[run[r].tenant][i]]]]
       ELSE run' = [run EXCEPT ![r] = [@ EXCEPT !.todo = run[r].todo \ {i}]]
    /\ UNCHANGED <<clock, canvas, rows, state, lock>>

\* Mutant: the watermark is the time at which the run ends.
AdvanceWatermarkToEnd(r) ==
    /\ run[r].pc = "fetch"
    /\ run[r].todo = {}
    /\ run' = [run EXCEPT ![r] =
                 [@ EXCEPT !.pc = "commit", !.draft = OkRow(clock)]]
    /\ UNCHANGED <<clock, canvas, rows, state, lock>>

\* advance_watermark, once every listing is exhausted.
AdvanceWatermark(r) ==
    /\ run[r].pc = "fetch"
    /\ run[r].todo = {}
    /\ run' = [run EXCEPT ![r] =
                 [@ EXCEPT !.pc = "commit", !.draft = OkRow(run[r].runAt)]]
    /\ UNCHANGED <<clock, canvas, rows, state, lock>>

\* Mutant: no savepoint, what was upserted before the failure stays.
FailKeepingRows(r, e) ==
    /\ run[r].pc = "fetch"
    /\ run' = [run EXCEPT ![r] = [@ EXCEPT !.pc = "record", !.err = e, !.todo = {}]]
    /\ UNCHANGED <<clock, canvas, rows, state, lock>>

\* Mutant: the lock is released on failure although the caller holds it.
FailReleasing(r, e) ==
    /\ run[r].pc = "fetch"
    /\ run' = [run EXCEPT ![r] =
                 [@ EXCEPT !.pc = "record", !.err = e, !.todo = {}, !.staged = Nothing]]
    /\ EndTransaction(r)
    /\ UNCHANGED <<clock, canvas, rows, state>>

\* An exception leaves the work context: its writes are rolled back.  In mode
\* "ownLock" that context is the whole transaction and the lock goes with it.
Fail(r, e) ==
    /\ \/ run[r].pc \in {"read", "fetch"}
       \/ run[r].pc = "acquire" /\ run[r].mode = "ownLock"
    /\ run' = [run EXCEPT ![r] =
                 [@ EXCEPT !.pc = "record", !.err = e, !.todo = {}, !.staged = Nothing]]
    /\ IF run[r].mode = "ownLock" THEN EndTransaction(r) ELSE UNCHANGED lock
    /\ UNCHANGED <<clock, canvas, rows, state>>

\* _finish_failure inside the caller's transaction, on a row read anew.
RecordHeld(r) ==
    /\ run[r].pc = "record"
    /\ run[r].mode = "callerLock"
    /\ run' = [run EXCEPT ![r] =
                 [@ EXCEPT !.pc = "commit",
                           !.seen = state[run[r].tenant],
                           !.draft = FailedRow(state[run[r].tenant], run[r].seen.wm,
                                               run[r].runAt, run[r].err)]]
    /\ UNCHANGED <<clock, canvas, rows, state, lock>>

\* _finish_failure in a transaction of its own, without the advisory lock.
RecordOwn(r) ==
    /\ run[r].pc = "record"
    /\ run[r].mode = "ownLock"
    /\ ~RowLocked(r)
    /\ state' = [state EXCEPT ![run[r].tenant] =
                   FailedRow(@, run[r].seen.wm, run[r].runAt, run[r].err)]
    /\ run' = [run EXCEPT ![r] = Idle]
    /\ UNCHANGED <<clock, canvas, rows, lock>>

\* Recording the failure fails: the exception is swallowed, nothing is stored.
RecordLost(r) ==
    /\ run[r].pc = "record"
    /\ EndTransaction(r)
    /\ run' = [run EXCEPT ![r] = Idle]
    /\ UNCHANGED <<clock, canvas, rows, state>>

\* The outermost transaction commits: rows and sync_state become visible and
\* the lock is released in one step.
Commit(r) ==
    LET t == run[r].tenant IN
    /\ run[r].pc = "commit"
    /\ rows' = [rows EXCEPT ![t] =
                  [i \in Items |-> IF run[r].staged[i] # 0
                                   THEN run[r].staged[i] ELSE rows[t][i]]]
    /\ state' = [state EXCEPT ![t] = Flush(run[r].seen, @, run[r].draft)]
    /\ EndTransaction(r)
    /\ run' = [run EXCEPT ![r] = Idle]
    /\ UNCHANGED <<clock, canvas>>

\* The commit fails.  sync_tenant records an unexpected failure if the
\* transaction was its own; otherwise the error reaches the caller.
CommitFails(r) ==
    /\ run[r].pc = "commit"
    /\ EndTransaction(r)
    /\ run' = [run EXCEPT
                 ![r] = IF run[r].mode = "ownLock"
                        THEN [@ EXCEPT !.pc = "record", !.err = "unexpected",
                                       !.staged = Nothing, !.draft = NoRow]
                        ELSE Idle]
    /\ UNCHANGED <<clock, canvas, rows, state>>

\* The process dies or the task is cancelled: the database rolls back.
Crash(r) ==
    /\ run[r].pc # "idle"
    /\ EndTransaction(r)
    /\ run' = [run EXCEPT ![r] = Idle]
    /\ UNCHANGED <<clock, canvas, rows, state>>

Progress(r) ==
    \/ Acquire(r)
    \/ Busy(r)
    \/ Enter(r)
    \/ ReadState(r)
    \/ \E i \in Items : Fetch(r, i)
    \/ AdvanceWatermark(r)
    \/ \E e \in Errors : Fail(r, e)
    \/ RecordHeld(r)
    \/ RecordOwn(r)
    \/ RecordLost(r)
    \/ Commit(r)
    \/ CommitFails(r)

Next ==
    \/ \E t \in Tenants, i \in Items : Edit(t, i)
    \/ \E r \in Runs : \/ \E t \in Tenants, m \in Modes : Start(r, t, m)
                       \/ Progress(r)
                       \/ Crash(r)

\* Every Canvas request has a timeout and the lock never waits, so a run that
\* was started keeps taking steps.
Fairness == \A r \in Runs : WF_vars(Progress(r))

Spec == Init /\ [][Next]_vars

FairSpec == Spec /\ Fairness
-----------------------------------------------------------------------------
(* Properties.                                                             *)

\* Every variable keeps its type, and a run that was started has a tenant.
TypeOK ==
    /\ clock \in Nat
    /\ canvas \in [Tenants -> [Items -> Nat]]
    /\ rows \in [Tenants -> [Items -> Nat]]
    /\ state \in [Tenants -> Row]
    /\ lock \in [LockKeys -> Runs \cup {NoRun}]
    /\ run \in [Runs -> Run]
    /\ \A r \in Runs : run[r].pc # "idle" => run[r].tenant \in Tenants

\* The run is between taking and releasing the advisory lock.
Holding(r) ==
    \/ run[r].pc \in {"fetch", "commit"}
    \/ run[r].mode = "callerLock" /\ run[r].pc \in {"enter", "read", "record"}

\* Two runs of one tenant never work at the same time, even if hashtext maps
\* other tenants to the same key (the purpose of sync/lock.py).
NoOverlap ==
    \A r, q \in Runs :
        r # q /\ Holding(r) /\ Holding(q) => run[r].tenant # run[q].tenant

\* The records about which every run asks Canvas: the courses, and the
\* assignments as long as no course is left out of the favourites listing,
\* because the assignments of a course that is left out are not asked for.
Reached == Courses \cup {a \in Assignments : "courses" \notin Filtered}

\* All changes of these records up to time w are in the committed rows.
CompleteTo(t, w) ==
    \A i \in Reached : canvas[t][i] <= w => rows[t][i] = canvas[t][i]

\* The watermark never runs ahead of the data that every run asks for: no
\* change made up to it is missing from the rows, so filtering by it loses none.
ReachedComplete == \A t \in Tenants : CompleteTo(t, state[t].wm)

\* The watermark advances only after successful processing and a change is not
\* skipped: none made up to it is missing from the rows.  This is what the
\* specification asks for; it fails if Canvas filters the favourites listing.
Complete ==
    \A t \in Tenants, i \in Items :
        canvas[t][i] <= state[t].wm => rows[t][i] = canvas[t][i]

\* A failed run leaves the rows and the watermark of its tenant as they were;
\* it may only record that it failed.
FailureKeepsData ==
    [][\A t \in Tenants :
         state'[t].status = "failed" /\ state'[t] # state[t]
           => rows'[t] = rows[t] /\ state'[t].wm = state[t].wm]_vars

\* A committed row is never replaced by an older version of the record.
RowsOnlyAdvance ==
    [][\A t \in Tenants, i \in Items : rows[t][i] <= rows'[t][i]]_vars

\* Committed rows of a tenant change only in the step that also stores a
\* success in its sync_state row, with a watermark not before the old one.
SuccessStamped ==
    [][\A t \in Tenants :
         rows'[t] # rows[t] \/ state'[t].wm # state[t].wm
           => /\ state'[t].status = "ok"
              /\ state'[t].err = "none"
              /\ state'[t].wm = state'[t].runAt
              /\ state'[t].wm >= state[t].wm]_vars

\* The last recorded run is never replaced by one that began earlier.
RunsRecordedInOrder ==
    [][\A t \in Tenants : state[t].runAt <= state'[t].runAt]_vars

\* Every run ends, in success, failure, "locked" or an error.
RunsEnd == \A r \in Runs : run[r].pc # "idle" ~> run[r].pc = "idle"

\* A run of tenant t commits a success.
Succeeds(t) == \E r \in Runs : /\ run[r].tenant = t
                               /\ run[r].draft.status = "ok"
                               /\ Commit(r)

\* The rows that every run asks for equal Canvas.
UpToDate(t) == \A i \in Reached : rows[t][i] = canvas[t][i]

\* If runs of a tenant keep succeeding, the rows that every run asks for end up
\* equal to Canvas once Canvas stops changing.
Converges ==
    \A t \in Tenants :
        []<><<Succeeds(t)>>_vars => <>[]UpToDate(t)

\* The records of the tenants that every run asks for.
OnlyReached(f) == [t \in Tenants |-> [i \in Reached |-> f[t][i]]]

\* The synchronised copy of each tenant as its readers see it (module Mirror).
M == INSTANCE Mirror WITH Items <- Reached,
                          canvas <- OnlyReached(canvas),
                          rows <- OnlyReached(rows),
                          status <- [t \in Tenants |-> state[t].status],
                          watermark <- [t \in Tenants |-> state[t].wm],
                          lastRun <- [t \in Tenants |-> state[t].runAt]

\* With the caller's lock, concurrent runs with failures and crashes look like
\* atomic refreshes and failure marks.
ImplementsMirror == M!Spec
-----------------------------------------------------------------------------
(* The inductive invariant behind NoOverlap, ReachedComplete and RowsOnlyAdvance. *)

\* A run between acquisition and release is the one its lock key names.
LockInv ==
    \A r \in Runs : Holding(r) => lock[Key(r)] = r

\* Nothing stored or remembered is later than the clock.
TimeInv ==
    /\ \A t \in Tenants :
        /\ state[t].wm <= clock
        /\ state[t].status = "absent" => state[t] = NoRow
        /\ state[t] = NoRow => \A r \in Runs : run[r].tenant = t => run[r].seen = NoRow
        /\ \A i \in Items : 1 <= canvas[t][i] /\ canvas[t][i] <= clock
                            /\ rows[t][i] <= canvas[t][i]
    /\ \A r \in Runs : run[r].runAt <= clock /\ run[r].seen.wm <= clock

\* What a run holds depends on how far it got.
Phase(r) ==
    /\ run[r].pc # "idle" => run[r].mode \in Modes
    /\ run[r].pc \in {"acquire", "enter", "read"} => run[r].todo = Courses
    /\ run[r].pc \notin {"fetch", "commit"} => run[r].staged = Nothing
    /\ run[r].pc = "commit" =>
         \/ run[r].todo = {} /\ run[r].draft = OkRow(run[r].runAt)
         \/ /\ run[r].staged = Nothing
            /\ run[r].draft.status = "failed"
            /\ run[r].draft.wm = state[run[r].tenant].wm

PhaseInv == \A r \in Runs : Phase(r)

\* A record has changed after everything that anybody knows of its tenant.
NewerThanKnown(t, i) ==
    /\ canvas[t][i] > state[t].wm
    /\ \A q \in Runs : run[q].tenant = t => canvas[t][i] > run[q].seen.wm

\* A staged record is the current one, or Canvas changed it since; it never
\* is older than the committed row.
StagedInv ==
    \A r \in Runs, i \in Items :
        run[r].staged[i] # 0 =>
          LET t == run[r].tenant IN
          /\ t \in Tenants
          /\ rows[t][i] <= run[r].staged[i]
          /\ run[r].staged[i] <= canvas[t][i]
          /\ \/ run[r].staged[i] = canvas[t][i]
             \/ canvas[t][i] > run[r].runAt /\ NewerThanKnown(t, i)

\* Records the run has still to fetch.
Pending(r) ==
    run[r].todo \cup {a \in Assignments : CourseOf[a] \in run[r].todo}

\* A record the run is done with and did not stage needs no update.
Fetched(r) ==
    \/ run[r].pc = "fetch"
    \/ run[r].pc = "commit" /\ run[r].draft.status = "ok"
    => \A i \in Reached :
         /\ i \notin Pending(r)
         /\ run[r].staged[i] = 0
         /\ canvas[run[r].tenant][i] <= run[r].runAt
         => rows[run[r].tenant][i] = canvas[run[r].tenant][i]

FetchInv == \A r \in Runs : Fetched(r)

\* The rows are complete up to every watermark that is stored or remembered.
KnownComplete ==
    /\ ReachedComplete
    /\ \A r \in Runs : run[r].tenant \in Tenants => CompleteTo(run[r].tenant, run[r].seen.wm)

SyncInv ==
    TypeOK /\ LockInv /\ TimeInv /\ PhaseInv /\ StagedInv /\ FetchInv /\ KnownComplete

\* If every caller takes the lock first, a run knows the current sync_state
\* row and is newer than it.
CallerInv ==
    /\ \A t \in Tenants : state[t].runAt <= clock
    /\ \A r \in Runs :
        /\ run[r].pc \in {"read", "fetch", "record", "commit"} =>
             /\ state[run[r].tenant].wm <= run[r].runAt
             /\ state[run[r].tenant].runAt <= run[r].runAt
        /\ run[r].pc \in {"fetch", "commit"} =>
             run[r].seen = state[run[r].tenant]
        /\ run[r].pc = "commit" => run[r].draft.runAt = run[r].runAt
-----------------------------------------------------------------------------
(* Ends: every lock is given back and every run comes to an end.           *)

\* A lock that is held belongs to a run that is working on a tenant with that
\* key: no failure, commit or crash leaves one behind, which would answer
\* "locked" to every later run of the tenant.
LocksAreHeld ==
    \A k \in LockKeys, r \in Runs : lock[k] = r => Holding(r) /\ Key(r) = k

\* The order of the steps of a run, which depends on who takes the lock.
Stage(x) ==
    IF x.mode = "ownLock"
    THEN CASE x.pc = "enter" -> 1 [] x.pc = "read" -> 2 [] x.pc = "acquire" -> 3
           [] x.pc = "fetch" -> 4 [] x.pc = "commit" -> 5 [] x.pc = "record" -> 6
    ELSE CASE x.pc = "acquire" -> 1 [] x.pc = "enter" -> 2 [] x.pc = "read" -> 3
           [] x.pc = "fetch" -> 4 [] x.pc = "record" -> 5 [] x.pc = "commit" -> 6

\* The variant behind RunsEnd: every step of a run ends it, brings it to a later
\* stage or leaves it fewer records to fetch; so it fetches no record twice and
\* takes at most six steps more than its tenant has records.
RunsAdvance ==
    [][\A r \in Runs :
         run[r].pc # "idle" /\ run'[r] # run[r] =>
           \/ run'[r].pc = "idle"
           \/ Stage(run'[r]) > Stage(run[r])
           \/ /\ run[r].pc = "fetch" /\ run'[r].pc = "fetch"
              /\ Pending(r)' \subseteq Pending(r) /\ Pending(r)' # Pending(r)]_vars

\* The steps behind Converges: the success of a run that began after the last
\* change of the records every run asks for leaves their rows equal to Canvas,
\* whatever failed or crashed before, and they stay so until Canvas changes.
CatchesUp ==
    [][\A t \in Tenants :
         /\ UpToDate(t) /\ canvas'[t] = canvas[t] => UpToDate(t)'
         /\ \A r \in Runs :
              /\ Commit(r) /\ run[r].tenant = t /\ run[r].draft.status = "ok"
              /\ \A i \in Reached : canvas[t][i] <= run[r].runAt
              => UpToDate(t)']_vars
=============================================================================
