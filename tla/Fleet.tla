------------------------------- MODULE Fleet -------------------------------
(***************************************************************************)
(* The scheduled synchronisation of all tenants: app/sync/scheduler.py, its *)
(* lifecycle in app/main.py, and the credentials it works from, which      *)
(* app/controllers/auth.py stores through app/services/tenant_service.py.  *)
(* A run is only its lock and its duration here; SyncRuns has the rest.    *)
(***************************************************************************)
EXTENDS Naturals, FiniteSets

CONSTANTS
    Tenants,
    Slots,     \* the size of the worker pool
    Store,     \* where TenantService keeps credentials: "memory" as the
               \* application builds it, "database" with a session bound
    Keys,      \* values tenant_token_key may be configured with
    NoKey

ASSUME FleetAssumption ==
    /\ IsFiniteSet(Tenants)
    /\ Slots \in 1..4
    /\ Store \in {"memory", "database"}
    /\ NoKey \notin Keys

VARIABLES
    job,         \* the cron job is installed
    tick,        \* what the job is doing
    task,        \* task[t]: how far the tick's task for tenant t got
    free,        \* free slots of the semaphore
    lock,        \* lock[t]: who holds the tenant's lock
    key,         \* the key this process is configured with
    bound,       \* a cipher of that key is bound in the process (_ciphers)
    memory,      \* tenants with a credential in the process
    rows         \* rows[t]: the key of the token in canvas_credentials

credentials == <<key, bound, memory, rows>>

vars == <<job, tick, task, free, lock, credentials>>

InSlot == {"token", "open", "working"}

\* Every variable keeps its type; the pool never has more slots than its size.
TypeOK ==
    /\ job \in BOOLEAN
    /\ tick \in {"none", "listing", "running", "cancelled"}
    /\ task \in [Tenants -> {"none", "asleep", "queued", "done"} \cup InSlot]
    /\ free \in 0..Slots
    /\ lock \in [Tenants -> {"free", "scheduled", "manual"}]
    /\ key \in Keys
    /\ bound \in BOOLEAN
    /\ memory \subseteq Tenants
    /\ rows \in [Tenants -> Keys \cup {NoKey}]

NoTasks == [t \in Tenants |-> "none"]

Init ==
    /\ job = FALSE
    /\ tick = "none"
    /\ task = NoTasks
    /\ free = Slots
    /\ lock = [t \in Tenants |-> "free"]
    /\ key \in Keys
    /\ bound = FALSE
    /\ memory = {}
    /\ rows = [t \in Tenants |-> NoKey]

\* The tenants with a row in canvas_credentials.
Listed == {t \in Tenants : rows[t] # NoKey}

\* The tenants with a stored credential (has_credentials).
Connected == IF Store = "memory" THEN memory ELSE Listed

\* The tenants whose token get_decrypted_canvas_token returns.  In the database
\* a row needs a bound cipher, which only a connect of this process binds, and
\* is deciphered only with the key it was written with.
Readable ==
    IF Store = "memory" THEN memory
    ELSE {t \in Tenants : bound /\ rows[t] = key}

-----------------------------------------------------------------------------
(* Connecting a tenant.                                                    *)

\* connect_canvas: Canvas accepts the token, which is encrypted and stored.  A
\* request that Canvas refuses changes nothing here (Requests has its steps).
Connect(t) ==
    /\ IF Store = "memory"
       THEN memory' = memory \cup {t} /\ UNCHANGED <<bound, rows>>
       ELSE bound' = TRUE /\ rows' = [rows EXCEPT ![t] = key] /\ UNCHANGED memory
    /\ UNCHANGED <<job, tick, task, free, lock, key>>

-----------------------------------------------------------------------------
(* The job.                                                                *)

\* SyncScheduler.start, in the lifespan of a new process.
Start ==
    /\ ~job
    /\ tick = "none"
    /\ job' = TRUE
    /\ UNCHANGED <<tick, task, free, lock, credentials>>

\* The cron trigger fires.  max_instances=1: while a tick is under way the
\* firing is dropped.
Fire ==
    /\ job
    /\ tick = "none"
    /\ tick' = "listing"
    /\ UNCHANGED <<job, task, free, lock, credentials>>

\* Mutant: the tick forgets the tenants it cannot give a slot at once.
ListFitting ==
    /\ tick = "listing"
    /\ \E due \in SUBSET Listed :
         /\ Cardinality(due) = (IF Cardinality(Listed) < Slots THEN Cardinality(Listed) ELSE Slots)
         /\ task' = [t \in Tenants |-> IF t \in due THEN "asleep" ELSE "none"]
    /\ tick' = IF Listed = {} THEN "none" ELSE "running"
    /\ UNCHANGED <<job, free, lock, credentials>>

\* _list_tenant_ids reads canvas_credentials; one task per tenant is created.
List ==
    /\ tick = "listing"
    /\ task' = [t \in Tenants |-> IF t \in Listed THEN "asleep" ELSE "none"]
    /\ tick' = IF Listed = {} THEN "none" ELSE "running"
    /\ UNCHANGED <<job, free, lock, credentials>>

\* The listing fails: APScheduler logs the exception and the tick is over.
ListFails ==
    /\ tick = "listing"
    /\ tick' = "none"
    /\ UNCHANGED <<job, task, free, lock, credentials>>

\* gather returns when every task is done.
TickEnds ==
    /\ tick \in {"running", "cancelled"}
    /\ \A t \in Tenants : task[t] \in {"none", "done"}
    /\ tick' = "none"
    /\ task' = NoTasks
    /\ UNCHANGED <<job, free, lock, credentials>>

\* SyncScheduler.shutdown: APScheduler removes the job and cancels the tick.
Shutdown ==
    /\ job
    /\ job' = FALSE
    /\ tick' = IF tick = "running" THEN "cancelled" ELSE "none"
    /\ UNCHANGED <<task, free, lock, credentials>>

-----------------------------------------------------------------------------
(* The task of one tenant: _dispatch_with_jitter and _run_for_tenant.      *)

\* The task of t ends and gives its slot back.
Leave(t) ==
    /\ task' = [task EXCEPT ![t] = "done"]
    /\ free' = free + 1

\* The jitter is over.
Wake(t) ==
    /\ tick = "running"
    /\ task[t] = "asleep"
    /\ task' = [task EXCEPT ![t] = "queued"]
    /\ UNCHANGED <<job, tick, free, lock, credentials>>

\* Mutant: a task that gets its slot after the shutdown begins all the same.
TakeSlotLate(t) ==
    /\ tick \in {"running", "cancelled"}
    /\ task[t] = "queued"
    /\ free > 0
    /\ task' = [task EXCEPT ![t] = "token"]
    /\ free' = free - 1
    /\ UNCHANGED <<job, tick, lock, credentials>>

\* The semaphore of the pool admits the task.
TakeSlot(t) ==
    /\ tick = "running"
    /\ task[t] = "queued"
    /\ free > 0
    /\ task' = [task EXCEPT ![t] = "token"]
    /\ free' = free - 1
    /\ UNCHANGED <<job, tick, lock, credentials>>

\* get_decrypted_canvas_token answers in a thread; a tenant without a token, or
\* whose token cannot be deciphered, is skipped.
ReadToken(t) ==
    /\ tick = "running"
    /\ task[t] = "token"
    /\ IF t \in Readable
       THEN task' = [task EXCEPT ![t] = "open"] /\ UNCHANGED free
       ELSE Leave(t)
    /\ UNCHANGED <<job, tick, lock, credentials>>

\* Mutant: the result of try_acquire_sync_lock is ignored.
OpenUnchecked(t) ==
    /\ tick = "running"
    /\ task[t] = "open"
    /\ lock' = [lock EXCEPT ![t] = "scheduled"]
    /\ task' = [task EXCEPT ![t] = "working"]
    /\ UNCHANGED <<job, tick, free, credentials>>

\* The transaction begins and the lock is tried; a busy tenant is skipped.
Open(t) ==
    /\ tick = "running"
    /\ task[t] = "open"
    /\ IF lock[t] = "free"
       THEN /\ lock' = [lock EXCEPT ![t] = "scheduled"]
            /\ task' = [task EXCEPT ![t] = "working"]
            /\ UNCHANGED free
       ELSE Leave(t) /\ UNCHANGED lock
    /\ UNCHANGED <<job, tick, credentials>>

\* The database is not reachable: the exception is logged.
OpenFails(t) ==
    /\ tick = "running"
    /\ task[t] = "open"
    /\ Leave(t)
    /\ UNCHANGED <<job, tick, lock, credentials>>

\* Mutant: the lock outlives the transaction.
FinishLocked(t) ==
    /\ tick = "running"
    /\ task[t] = "working"
    /\ Leave(t)
    /\ UNCHANGED <<job, tick, lock, credentials>>

\* sync_tenant returns or raises; either way the transaction ends.
Finish(t) ==
    /\ tick = "running"
    /\ task[t] = "working"
    /\ lock' = [lock EXCEPT ![t] = "free"]
    /\ Leave(t)
    /\ UNCHANGED <<job, tick, credentials>>

\* Mutant: only tasks that have no slot react to the cancellation.
CancelIdle(t) ==
    /\ tick = "cancelled"
    /\ task[t] \in {"asleep", "queued"}
    /\ task' = [task EXCEPT ![t] = "done"]
    /\ UNCHANGED <<job, tick, free, lock, credentials>>

\* Mutant: a cancelled run keeps its slot.
CancelKeepingSlot(t) ==
    /\ tick = "cancelled"
    /\ task[t] \in {"asleep", "queued"} \cup InSlot
    /\ task' = [task EXCEPT ![t] = "done"]
    /\ lock' = IF task[t] = "working" THEN [lock EXCEPT ![t] = "free"] ELSE lock
    /\ UNCHANGED <<job, tick, free, credentials>>

\* The cancellation reaches the task at the await it is in.  CancelledError
\* is not an Exception, so nothing handles it; the session rolls back and
\* the slot is given back on the way out.
Cancel(t) ==
    /\ tick = "cancelled"
    /\ task[t] \in {"asleep", "queued"} \cup InSlot
    /\ IF task[t] \in InSlot THEN Leave(t)
       ELSE task' = [task EXCEPT ![t] = "done"] /\ UNCHANGED free
    /\ lock' = IF task[t] = "working" THEN [lock EXCEPT ![t] = "free"] ELSE lock
    /\ UNCHANGED <<job, tick, credentials>>

-----------------------------------------------------------------------------
(* What happens around it.                                                 *)

\* POST /sync of a tenant whose token is readable (ManualSync).
ManualBegin(t) ==
    /\ t \in Readable
    /\ lock[t] = "free"
    /\ lock' = [lock EXCEPT ![t] = "manual"]
    /\ UNCHANGED <<job, tick, task, free, credentials>>

ManualEnd(t) ==
    /\ lock[t] = "manual"
    /\ lock' = [lock EXCEPT ![t] = "free"]
    /\ UNCHANGED <<job, tick, task, free, credentials>>

\* The process dies or ends.  What it had in memory is gone, the ciphers
\* included, and the database rolls back its transactions.  The next process has
\* a new pool and may be configured with another key.
Exit ==
    /\ job' = FALSE
    /\ tick' = "none"
    /\ task' = NoTasks
    /\ free' = Slots
    /\ lock' = [t \in Tenants |-> "free"]
    /\ key' \in Keys
    /\ bound' = FALSE
    /\ memory' = {}
    /\ UNCHANGED rows

\* The steps of the task of t.
Run(t) ==
    \/ Wake(t)
    \/ TakeSlot(t)
    \/ ReadToken(t)
    \/ Open(t)
    \/ Finish(t)
    \/ Cancel(t)

Next ==
    \/ Start
    \/ Fire
    \/ List
    \/ ListFails
    \/ TickEnds
    \/ Shutdown
    \/ Exit
    \/ \E t \in Tenants : \/ Connect(t)
                          \/ Run(t)
                          \/ OpenFails(t)
                          \/ ManualBegin(t)
                          \/ ManualEnd(t)

\* The cron trigger fires again and again and the event loop resumes every
\* task.  The semaphore is first in, first out, and runs end because Canvas
\* requests have timeouts (RunsEnd of SyncRuns).  A listing does not fail for
\* ever.
Fairness ==
    /\ WF_vars(Fire)
    /\ SF_vars(List)
    /\ WF_vars(TickEnds)
    /\ \A t \in Tenants : SF_vars(Run(t)) /\ WF_vars(ManualEnd(t))

Spec == Init /\ [][Next]_vars

FairSpec == Spec /\ Fairness
-----------------------------------------------------------------------------
(* Properties.                                                             *)

Holders == {t \in Tenants : task[t] \in InSlot}

\* No slot of the pool is lost or handed out twice, whether a task finishes,
\* is skipped, fails or is cancelled; so at most Slots tenants are worked on.
SlotsBalanced == free + Cardinality(Holders) = Slots

\* The scheduler holds the lock of exactly the tenants it is working on: none
\* is left behind by a skip, a failure or a cancellation.
LocksMatchTasks ==
    \A t \in Tenants : lock[t] = "scheduled" <=> task[t] = "working"

\* A scheduled run never takes the tenant over from a manual one.
NoTakeover ==
    [][\A t \in Tenants : lock[t] = "manual" => lock'[t] # "scheduled"]_vars

\* After a shutdown no tenant is begun any more.
NothingBegunAfterShutdown ==
    [][~job => Cardinality(Holders') <= Cardinality(Holders)]_vars

\* Every tick ends, so the next firing is not dropped for ever.
TicksEnd == tick # "none" ~> tick = "none"

\* Once the scheduler stays up, every tenant whose token stays readable comes to
\* its turn again and again, whatever the others do with the slots.
ReadableAttempted ==
    \A t \in Tenants : <>[](job /\ t \in Readable) => []<>(task[t] = "open")

\* Each connected tenant is scheduled.  This is what the specification asks for;
\* it fails if a tenant is connected in another store than the table, or in the
\* table by a process that is gone.
ConnectedAttempted ==
    \A t \in Tenants : <>[](job /\ t \in Connected) => []<>(task[t] = "open")
-----------------------------------------------------------------------------
(* The inductive invariant behind SlotsBalanced and LocksMatchTasks.       *)

\* Tasks exist only between the listing and the end of a tick.
TickInv ==
    /\ tick \in {"none", "listing"} => task = NoTasks
    /\ tick = "cancelled" => ~job

FleetInv == TypeOK /\ TickInv /\ SlotsBalanced /\ LocksMatchTasks

-----------------------------------------------------------------------------
(* Consequences for the fleet as a whole.                                  *)

\* The scheduler synchronises at most four tenants at a time.
AtMostFourAtOnce == Cardinality({t \in Tenants : lock[t] = "scheduled"}) <= 4

\* A tick leaves nothing behind, however it ended: when none is under way all
\* slots are free and the scheduler holds no lock.
NothingLeftBehind ==
    tick \in {"none", "listing"} =>
        free = Slots /\ \A t \in Tenants : lock[t] # "scheduled"

\* A task that finds no free slot waits for another task of the same tick that
\* has one, and not for a slot that nobody will give back.
SlotsAreComing ==
    \A t \in Tenants : task[t] = "queued" /\ free = 0 =>
        tick \in {"running", "cancelled"} /\ \E h \in Tenants \ {t} : task[h] \in InSlot

\* How far a task is.
Stage(s) ==
    CASE s = "none" -> 0 [] s = "asleep" -> 1 [] s = "queued" -> 2 [] s = "token" -> 3
      [] s = "open" -> 4 [] s = "working" -> 5 [] s = "done" -> 6

\* Within a tick the task of a tenant only goes forward, so it runs at most once
\* and a tick takes a bounded number of steps for each tenant it listed.
TasksOnlyAdvance ==
    [][\A t \in Tenants : task'[t] # task[t] =>
         tick' = "none" \/ Stage(task'[t]) > Stage(task[t])]_vars
=============================================================================
