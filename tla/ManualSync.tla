----------------------------- MODULE ManualSync -----------------------------
(***************************************************************************)
(* POST /sync: app/controllers/sync.py and app/services/canvas_service.py. *)
(* Requests are served by processes that each run one event loop.  The     *)
(* database calls of a request block that loop, so from the rate-limit     *)
(* check to the first Canvas request nothing else happens in the process.  *)
(* Other processes do run in between.  The scheduled runs of each process  *)
(* appear only as holders of the tenant's lock.                            *)
(***************************************************************************)
EXTENDS Integers

CONSTANTS
    Processes,   \* server processes that share the database
    Requests,    \* requests to POST /sync in flight at once
    ProcessOf,   \* the process that serves each request
    Tenants,
    Interval,    \* manual_sync_min_interval_seconds, in clock units
    Second,      \* clock units per second, the unit of Retry-After
    Round,       \* clock units in the 0.999 s that round it up
    Free,        \* nobody holds the lock
    NoTenant,
    MaxClock     \* bound: how far time advances

ASSUME SetsAssumption ==
    /\ ProcessOf \in [Requests -> Processes]
    /\ Requests \cap Processes = {}
    /\ Free \notin Requests \cup Processes
    /\ NoTenant \notin Tenants
ASSUME TimesAssumption ==
    /\ Second \in Nat \ {0}
    /\ Round \in 0..(Second - 1)
    /\ Interval \in Nat
    /\ Interval >= Second
    /\ MaxClock \in Nat

VARIABLES
    clock,   \* time_source(), the same for all processes
    stamp,   \* stamp[t]: last_run_at of sync_state(t, "manual_sync"), 0: no row
    lock,    \* lock[t]: the request or the process whose run holds t's lock
    req      \* req[q]: how far the handler of request q got, and its answer

vars == <<clock, stamp, lock, req>>

Answers == {"none", "accepted", "throttled", "locked", "forbidden", "error"}

Request == [pc : {"idle", "check", "lookup", "write", "lock", "running"},
            tenant : Tenants \cup {NoTenant}, now : Nat, insert : BOOLEAN,
            answer : Answers, retryAt : Nat]

Init ==
    /\ clock = 1
    /\ stamp = [t \in Tenants |-> 0]
    /\ lock = [t \in Tenants |-> Free]
    /\ req = [q \in Requests |->
                [pc |-> "idle", tenant |-> NoTenant, now |-> 0, insert |-> FALSE,
                 answer |-> "none", retryAt |-> 0]]

-----------------------------------------------------------------------------
(* Helpers.                                                                *)

\* Mutant: the handler suspends between the check and the write of the stamp.
LoopBusySuspending(q) ==
    \E p \in Requests \ {q} :
        ProcessOf[p] = ProcessOf[q] /\ req[p].pc = "lock"

\* Another request of the process is between two database calls.
LoopBusy(q) ==
    \E p \in Requests \ {q} :
        ProcessOf[p] = ProcessOf[q] /\ req[p].pc \in {"lookup", "write", "lock"}

\* The same, seen by a task of process p that is not a request.
ProcessBusy(p) ==
    \E q \in Requests : ProcessOf[q] = p /\ req[q].pc \in {"lookup", "write", "lock"}

\* Mutant: the time left is not rounded up.
SecondsCut(last, now) ==
    LET left == (Interval - (now - last)) \div Second
    IN IF left >= 1 THEN left ELSE 1

\* int(minimum - elapsed + 0.999), at least 1.  What is left over a whole
\* number of seconds by less than a millisecond is rounded down.
SecondsLeft(last, now) ==
    LET left == (Interval - (now - last) + Round) \div Second
    IN IF left >= 1 THEN left ELSE 1

\* The response is sent and the session is closed.
Answered(r, a, wait) ==
    [pc |-> "idle", tenant |-> r.tenant, now |-> 0, insert |-> FALSE,
     answer |-> a, retryAt |-> clock + wait]

\* The transaction that q ran under the lock ends.
Unlock(q) == lock' = [t \in Tenants |-> IF lock[t] = q THEN Free ELSE lock[t]]

-----------------------------------------------------------------------------

Tick ==
    /\ clock < MaxClock
    /\ clock' = clock + 1
    /\ UNCHANGED <<stamp, lock, req>>

\* A request with a valid backend token and a stored credential reaches the
\* handler.
Receive(q, t) ==
    /\ req[q].pc = "idle"
    /\ req' = [req EXCEPT ![q] = [@ EXCEPT !.pc = "check", !.tenant = t,
                                           !.answer = "none", !.retryAt = 0]]
    /\ UNCHANGED <<clock, stamp, lock>>

\* Mutant: the limit is one clock unit short.
CheckEarly(q) ==
    LET last == stamp[req[q].tenant] IN
    /\ req[q].pc = "check"
    /\ ~LoopBusy(q)
    /\ IF last # 0 /\ clock - last < Interval - 1
       THEN req' = [req EXCEPT ![q] =
                      Answered(@, "throttled", SecondsLeft(last, clock) * Second)]
       ELSE req' = [req EXCEPT ![q] = [@ EXCEPT !.pc = "lookup", !.now = clock]]
    /\ UNCHANGED <<clock, stamp, lock>>

\* enforce_manual_rate_limit compares the stored stamp with the time.
Check(q) ==
    LET last == stamp[req[q].tenant] IN
    /\ req[q].pc = "check"
    /\ ~LoopBusy(q)
    /\ IF last # 0 /\ clock - last < Interval
       THEN req' = [req EXCEPT ![q] =
                      Answered(@, "throttled", SecondsLeft(last, clock) * Second)]
       ELSE req' = [req EXCEPT ![q] = [@ EXCEPT !.pc = "lookup", !.now = clock]]
    /\ UNCHANGED <<clock, stamp, lock>>

\* _stamp_manual_run reads the row again, to insert or to update it.
Lookup(q) ==
    /\ req[q].pc = "lookup"
    /\ req' = [req EXCEPT ![q] =
                 [@ EXCEPT !.pc = "write", !.insert = (stamp[req[q].tenant] = 0)]]
    /\ UNCHANGED <<clock, stamp, lock>>

\* The commit after enforce_manual_rate_limit: the stamp is stored before the
\* run begins.  An INSERT fails when the row has appeared since.
Write(q) ==
    LET t == req[q].tenant IN
    /\ req[q].pc = "write"
    /\ IF req[q].insert /\ stamp[t] # 0
       THEN /\ req' = [req EXCEPT ![q] = Answered(@, "error", 0)]
            /\ UNCHANGED stamp
       ELSE /\ req' = [req EXCEPT ![q] = [@ EXCEPT !.pc = "lock"]]
            /\ stamp' = [stamp EXCEPT ![t] = req[q].now]
    /\ UNCHANGED <<clock, lock>>

\* get_decrypted_canvas_token raises: the stamp stays.
NoCredentials(q) ==
    /\ req[q].pc = "lock"
    /\ req' = [req EXCEPT ![q] = Answered(@, "forbidden", 0)]
    /\ UNCHANGED <<clock, stamp, lock>>

\* Mutant: the lock is waited for, which stops the event loop.
TryLockWaiting(q) ==
    LET t == req[q].tenant IN
    /\ req[q].pc = "lock"
    /\ lock[t] = Free
    /\ lock' = [lock EXCEPT ![t] = q]
    /\ req' = [req EXCEPT ![q] = [@ EXCEPT !.pc = "running"]]
    /\ UNCHANGED <<clock, stamp>>

\* _run_locked tries the lock once.  When it is busy the answer tells the
\* client to wait for a whole interval, and the stamp stays.
TryLock(q) ==
    LET t == req[q].tenant IN
    /\ req[q].pc = "lock"
    /\ IF lock[t] = Free
       THEN /\ lock' = [lock EXCEPT ![t] = q]
            /\ req' = [req EXCEPT ![q] = [@ EXCEPT !.pc = "running"]]
       ELSE /\ req' = [req EXCEPT ![q] = Answered(@, "locked", Interval)]
            /\ UNCHANGED lock
    /\ UNCHANGED <<clock, stamp>>

\* sync_tenant returns, with "ok" or "failed", and its transaction commits.
Finish(q) ==
    /\ req[q].pc = "running"
    /\ ~LoopBusy(q)
    /\ Unlock(q)
    /\ req' = [req EXCEPT ![q] = Answered(@, "accepted", 0)]
    /\ UNCHANGED <<clock, stamp>>

\* A database call fails; nothing but SyncThrottled and
\* TenantCredentialsMissing is handled, the transaction is rolled back.
DatabaseError(q) ==
    /\ req[q].pc # "idle"
    /\ ~LoopBusy(q)
    /\ Unlock(q)
    /\ req' = [req EXCEPT ![q] = Answered(@, "error", 0)]
    /\ UNCHANGED <<clock, stamp>>

\* A scheduled run of process p takes the lock of t, and ends.
ScheduledBegin(p, t) ==
    /\ ~ProcessBusy(p)
    /\ lock[t] = Free
    /\ lock' = [lock EXCEPT ![t] = p]
    /\ UNCHANGED <<clock, stamp, req>>

ScheduledEnd(p, t) ==
    /\ ~ProcessBusy(p)
    /\ lock[t] = p
    /\ lock' = [lock EXCEPT ![t] = Free]
    /\ UNCHANGED <<clock, stamp, req>>

\* Process p dies: its requests get no answer, the database drops its locks.
Crash(p) ==
    /\ \E q \in Requests : ProcessOf[q] = p /\ req[q].pc # "idle"
    /\ req' = [q \in Requests |->
                 IF ProcessOf[q] = p /\ req[q].pc # "idle"
                 THEN [Answered(req[q], "none", 0) EXCEPT !.retryAt = 0]
                 ELSE req[q]]
    /\ lock' = [t \in Tenants |->
                  IF lock[t] = p \/ \E q \in Requests : lock[t] = q /\ ProcessOf[q] = p
                  THEN Free ELSE lock[t]]
    /\ UNCHANGED <<clock, stamp>>

Serve(q) ==
    \/ Check(q)
    \/ Lookup(q)
    \/ Write(q)
    \/ TryLock(q)
    \/ Finish(q)

Next ==
    \/ Tick
    \/ \E q \in Requests : \/ \E t \in Tenants : Receive(q, t)
                           \/ Serve(q)
                           \/ NoCredentials(q)
                           \/ DatabaseError(q)
    \/ \E p \in Processes : \/ \E t \in Tenants : \/ ScheduledBegin(p, t)
                                                  \/ ScheduledEnd(p, t)
                            \/ Crash(p)

\* An event loop runs its ready tasks in turn, and a run ends because every
\* Canvas request has a timeout (RunsEnd of SyncRuns).
Fairness ==
    /\ \A q \in Requests : SF_vars(Serve(q))
    /\ \A p \in Processes, t \in Tenants : SF_vars(ScheduledEnd(p, t))

Spec == Init /\ [][Next]_vars

FairSpec == Spec /\ Fairness
-----------------------------------------------------------------------------
(* Properties.                                                             *)

\* Every variable keeps its type, in particular no answer names a negative time.
TypeOK ==
    /\ clock \in Nat
    /\ stamp \in [Tenants -> Nat]
    /\ lock \in [Tenants -> Requests \cup Processes \cup {Free}]
    /\ req \in [Requests -> Request]
    /\ \A q \in Requests : req[q].pc # "idle" => req[q].tenant \in Tenants

\* q is admitted: its stamp is committed and it goes on to the lock.
Admitted(q) == req[q].pc = "write" /\ req'[q].pc = "lock"

\* A tenant has at most one request admitted per interval, although the check
\* and the stamp are separate database calls.
OnePerInterval ==
    [][\A q \in Requests :
         Admitted(q) => LET last == stamp[req[q].tenant]
                        IN last = 0 \/ req[q].now >= last + Interval]_vars

\* The first requests of a tenant never collide on the insertion of its row.
NoInsertConflict ==
    \A q \in Requests :
        req[q].pc = "write" /\ req[q].insert => stamp[req[q].tenant] = 0

\* A client refused for a busy lock that waits as it was told is not refused
\* again for an admission that preceded its refusal.  A throttled one comes
\* back less than a millisecond before that admission expires, which is what
\* the rounding may lose, and less than a second after.
HonestRetry ==
    [][\A q \in Requests :
         LET free == stamp'[req[q].tenant] + Interval IN
         req[q].pc # "idle" /\ req'[q].pc = "idle" =>
           /\ req'[q].answer = "locked" => req'[q].retryAt >= free
           /\ req'[q].answer = "throttled" =>
                /\ req'[q].retryAt + Second > free + Round
                /\ req'[q].retryAt < free + Second]_vars

\* Every request is answered or lost with its process: nothing in the handler
\* waits for another task of the same event loop.
EveryRequestAnswered ==
    \A q \in Requests : req[q].pc # "idle" ~> req[q].pc = "idle"
-----------------------------------------------------------------------------
(* The inductive invariant behind OnePerInterval with one process: a       *)
(* request that passed the check still knows the current stamp.            *)

PassedInv ==
    \A q \in Requests :
        LET last == stamp[req[q].tenant] IN
        /\ req[q].now <= clock
        /\ req[q].pc \in {"lookup", "write"} =>
             last = 0 \/ req[q].now >= last + Interval
        /\ req[q].pc = "write" => req[q].insert = (last = 0)
        /\ req[q].pc \in {"lookup", "write", "lock"} => ~LoopBusy(q)

\* Nothing stored or remembered is later than the clock, with any number of
\* processes.
StampInv == \A t \in Tenants : stamp[t] <= clock

NowInv == \A q \in Requests : req[q].now <= clock

RateInv == TypeOK /\ StampInv /\ PassedInv
-----------------------------------------------------------------------------
(* What several processes still owe to the event loop and to the lock.     *)

\* From the check to the answer about the lock, a request has the event loop
\* of its process to itself, whatever other processes do.
LoopInv ==
    \A q \in Requests : req[q].pc \in {"lookup", "write", "lock"} => ~LoopBusy(q)

\* The runs under way hold exactly the locks that requests hold: a request
\* that fails, is answered or dies with its process leaves none behind, and
\* no run goes on without its lock.
LocksMatchRuns ==
    \A q \in Requests, t \in Tenants :
        lock[t] = q <=> req[q].pc = "running" /\ req[q].tenant = t

\* So a tenant is synchronised once at a time, across all processes.
OneRunPerTenant ==
    \A p, q \in Requests :
        /\ req[p].pc = "running" /\ req[q].pc = "running" /\ p # q =>
             req[p].tenant # req[q].tenant
        /\ req[q].pc = "running" => lock[req[q].tenant] \notin Processes
=============================================================================
