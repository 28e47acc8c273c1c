-------------------------- MODULE SyncRunsRefinement --------------------------
(***************************************************************************)
(* When every caller of sync_tenant holds the lock (the scheduler and      *)
(* CanvasService do), the runs implement module Mirror.                    *)
(***************************************************************************)
EXTENDS SyncRunsProofs

CallersLock == Modes \subseteq {"callerLock"}

\* Every run that has started holds its lock from its first read on.
LEMMA Holders ==
    ASSUME CallersLock, SyncInv, NEW r \in Runs
    PROVE  /\ run[r].pc # "idle" => run[r].mode = "callerLock" /\ run[r].tenant \in Tenants
           /\ run[r].pc \in {"enter", "read", "fetch", "record", "commit"} => Holding(r)
  BY DEF CallersLock, SyncInv, PhaseInv, Phase, Holding, TypeOK

\* With an unchanged sync_state row the ORM writes all it was given.
LEMMA FlushAll == \A s, n \in Row : Flush(s, s, n) = n
  BY DEF Flush, Row

LEMMA CommitWrites ==
    ASSUME SyncInv, CallerInv, NEW r \in Runs, Commit(r), NEW t \in Tenants,
           t = run[r].tenant
    PROVE  state' = [state EXCEPT ![t] = run[r].draft]
<1>1. run[r].seen = state[t]
  BY DEF CallerInv, Commit
<1>2. state[t] \in Row /\ run[r].draft \in Row
  BY RunFields DEF SyncInv, TypeOK
<1>3. Flush(run[r].seen, state[t], run[r].draft) = run[r].draft
  BY <1>1, <1>2, FlushAll
<1>4. QED
  BY <1>3 DEF Commit

LEMMA CallerInit == Init => CallerInv
<1> SUFFICES ASSUME Init PROVE CallerInv
  OBVIOUS
<1>1. \A r \in Runs : run[r].pc = "idle"
  BY DEF Init, Idle
<1>2. \A t \in Tenants : state[t].runAt = 0
  BY DEF Init, NoRow
<1>3. clock = 1
  BY DEF Init
<1>4. QED
  BY <1>1, <1>2, <1>3 DEF CallerInv

\* A step of run r that leaves the database alone.
LEMMA CallerLocal ==
    ASSUME SyncInv, CallerInv, NEW r \in Runs, Others(r),
           UNCHANGED <<clock, state>>,
           run'[r].pc \in {"read", "fetch", "record", "commit"} =>
             /\ state[run'[r].tenant].wm <= run'[r].runAt
             /\ state[run'[r].tenant].runAt <= run'[r].runAt,
           run'[r].pc \in {"fetch", "commit"} =>
             run'[r].seen = state[run'[r].tenant],
           run'[r].pc = "commit" => run'[r].draft.runAt = run'[r].runAt
    PROVE  CallerInv'
  BY DEF CallerInv, Others

LEMMA CallerNext ==
    ASSUME CallersLock, SyncInv, CallerInv, [Next]_vars
    PROVE  CallerInv'
<1>0. TypeOK
  BY DEF SyncInv
<1>1. ASSUME NEW t \in Tenants, NEW i \in Items, Edit(t, i) PROVE CallerInv'
  <2>1. clock \in Nat /\ clock' = clock + 1 /\ UNCHANGED <<state, run>>
    BY <1>0, <1>1 DEF Edit, TypeOK
  <2>2. \A u \in Tenants : state[u].runAt \in Nat
    BY <1>0 DEF TypeOK, Row
  <2>3. QED
    BY <2>1, <2>2 DEF CallerInv
<1>2. ASSUME NEW r \in Runs, NEW t \in Tenants, NEW m \in Modes, Start(r, t, m)
      PROVE  CallerInv'
  <2>1. run'[r].pc \in {"enter", "acquire"} /\ Others(r)
    BY <1>0, <1>2, StartEffect
  <2>2. QED
    BY <1>2, <2>1, CallerLocal DEF Start
<1>3. ASSUME NEW r \in Runs, run' = [run EXCEPT ![r] = Idle], UNCHANGED <<clock, state>>
      PROVE  CallerInv'
  BY <1>0, <1>3, GoesIdle, CallerLocal
<1>4. ASSUME NEW r \in Runs, Progress(r) PROVE CallerInv'
  <2>0. run[r].pc # "idle" => run[r].mode = "callerLock" /\ run[r].tenant \in Tenants
    BY Holders
  <2>1. CASE Acquire(r)
    <3>1. run'[r].pc = "enter" /\ Others(r)
      BY <1>0, <2>0, <2>1, AcquireEffect DEF Acquire
    <3>2. QED
      BY <2>1, <3>1, CallerLocal DEF Acquire
  <2>2. CASE Busy(r)
    BY <1>3, <2>2 DEF Busy
  <2>3. CASE Enter(r)
    <3>1. run[r].tenant \in Tenants /\ UNCHANGED <<clock, state>>
      BY <2>0, <2>3 DEF Enter
    <3>2. state[run[r].tenant].wm <= clock /\ state[run[r].tenant].runAt <= clock
      BY <3>1 DEF CallerInv, SyncInv, TimeInv
    <3>3. QED
      BY <1>0, <2>3, <3>1, <3>2, EnterEffect, CallerLocal
  <2>4. CASE ReadState(r)
    <3>1. run[r].pc = "read" /\ UNCHANGED <<clock, state>>
      BY <2>4 DEF ReadState
    <3>2. QED
      BY <1>0, <2>0, <2>4, <3>1, ReadStateEffect, CallerLocal DEF CallerInv
  <2>5. ASSUME NEW i \in Items, Fetch(r, i) PROVE CallerInv'
    <3>1. run[r].pc = "fetch" /\ UNCHANGED <<clock, state>>
      BY <2>5 DEF Fetch
    <3>2. /\ Others(r) /\ run'[r].pc = "fetch" /\ run'[r].tenant = run[r].tenant
          /\ run'[r].runAt = run[r].runAt /\ run'[r].seen = run[r].seen
      BY <1>0, <2>5, FetchEffect
    <3>3. QED
      BY <3>1, <3>2, CallerLocal DEF CallerInv
  <2>6. CASE AdvanceWatermark(r)
    <3>1. run[r].pc = "fetch" /\ UNCHANGED <<clock, state>>
      BY <2>6 DEF AdvanceWatermark
    <3>2. OkRow(run[r].runAt).runAt = run[r].runAt
      BY DEF OkRow
    <3>3. QED
      BY <1>0, <2>6, <3>1, <3>2, AdvanceEffect, CallerLocal DEF CallerInv
  <2>7. ASSUME NEW e \in Errors, Fail(r, e) PROVE CallerInv'
    <3>1. run[r].pc \in {"read", "fetch"} /\ UNCHANGED <<clock, state>>
      BY <2>0, <2>7 DEF Fail
    <3>2. QED
      BY <1>0, <2>7, <3>1, FailEffect, CallerLocal DEF CallerInv
  <2>8. CASE RecordHeld(r)
    <3>1. run[r].pc = "record" /\ UNCHANGED <<clock, state>>
      BY <2>8 DEF RecordHeld
    <3> DEFINE d == FailedRow(state[run[r].tenant], run[r].seen.wm, run[r].runAt, run[r].err)
    <3>2. d.runAt = run[r].runAt
      BY DEF FailedRow
    <3> HIDE DEF d
    <3>3. run'[r].draft = d
      BY <1>0, <2>8, RecordHeldEffect DEF d
    <3>4. QED
      BY <1>0, <2>8, <3>1, <3>2, <3>3, RecordHeldEffect, CallerLocal DEF CallerInv
  <2>9. CASE RecordOwn(r)
    BY <2>0, <2>9 DEF RecordOwn
  <2>10. CASE RecordLost(r)
    BY <1>3, <2>10 DEF RecordLost
  <2>11. CASE Commit(r)
    <3>1. PICK t \in Tenants : t = run[r].tenant
      BY <1>0, <2>11 DEF Commit, TypeOK
    <3>2. state'[t] = run[r].draft /\ \A u \in Tenants : u # t => state'[u] = state[u]
      BY <1>0, <2>11, <3>1, CommitWrites DEF TypeOK
    <3>3. run[r].draft.runAt <= clock
      BY <2>11 DEF Commit, CallerInv, SyncInv, TimeInv
    <3>4. /\ run'[r].pc = "idle" /\ UNCHANGED clock
          /\ \A q \in Runs : q # r => run'[q] = run[q]
      BY <1>0, <2>11, GoesIdle DEF Commit, Others
    <3>5. ASSUME NEW q \in Runs, q # r,
                 run[q].pc \in {"read", "fetch", "record", "commit"}
          PROVE  run[q].tenant # t /\ run[q].tenant \in Tenants
      <4>1. Holding(r) /\ Holding(q) /\ run[q].tenant \in Tenants
        BY <2>11, <3>5, Holders DEF Commit
      <4>2. QED
        BY <3>1, <3>5, <4>1, Alone
    <3>6. QED
      BY <3>2, <3>3, <3>4, <3>5 DEF CallerInv
  <2>12. CASE CommitFails(r)
    BY <1>3, <2>0, <2>12 DEF CommitFails
  <2>13. QED
    BY <1>4, <2>1, <2>2, <2>3, <2>4, <2>5, <2>6, <2>7, <2>8, <2>9, <2>10, <2>11,
       <2>12 DEF Progress
<1>5. ASSUME NEW r \in Runs, Crash(r) PROVE CallerInv'
  BY <1>3, <1>5 DEF Crash
<1>6. CASE UNCHANGED vars
  BY <1>6 DEF vars, CallerInv
<1>7. QED
  BY <1>1, <1>2, <1>4, <1>5, <1>6 DEF Next

\* A run that works knows the current sync_state row and is newer than it.
THEOREM CallersInvariant ==
    ASSUME CallersLock
    PROVE  Spec => [](SyncInv /\ CallerInv)
<1>1. SyncInv /\ CallerInv /\ [Next]_vars => SyncInv' /\ CallerInv'
  BY InvNext, CallerNext
<1>2. QED
  BY <1>1, InvInit, CallerInit, PTL DEF Spec

-----------------------------------------------------------------------------
(* Steps of the runs as steps of Mirror.                                   *)

LEMMA InitMaps == Init => M!Init
  BY ReachedItems DEF Init, M!Init, OnlyReached, Nothing, NoRow

\* The columns Mirror sees do not change if sync_state does not.
LEMMA StutterMaps == UNCHANGED <<clock, canvas, rows, state>> => UNCHANGED M!vars
  BY DEF M!vars, OnlyReached

\* A change of a record that no run is sure to ask for passes unseen.
LEMMA EditMaps ==
    ASSUME TypeOK, NEW t \in Tenants, NEW i \in Items, Edit(t, i)
    PROVE  IF i \in Reached THEN M!Edit(t, i) ELSE M!Tick
<1>1. /\ clock < MaxClock /\ clock' = clock + 1 /\ UNCHANGED <<rows, state>>
      /\ \A u \in Tenants, j \in Items :
           canvas'[u][j] = IF u = t /\ j = i THEN clock + 1 ELSE canvas[u][j]
  BY DEF Edit, TypeOK
<1>2. UNCHANGED OnlyReached(rows)
  BY <1>1 DEF OnlyReached
<1>3. CASE i \in Reached
  <2>1. [u \in Tenants |-> [j \in Reached |-> canvas[u][j]]]'
          = [[u \in Tenants |-> [j \in Reached |-> canvas[u][j]]]
              EXCEPT ![t][i] = clock + 1]
    <3>1. \A u \in Tenants : [j \in Reached |-> canvas'[u][j]]
             = IF u = t THEN [[j \in Reached |-> canvas[t][j]] EXCEPT ![i] = clock + 1]
                        ELSE [j \in Reached |-> canvas[u][j]]
      BY <1>1, <1>3, ReachedItems
    <3>. QED
      BY <3>1
  <2>. QED
    BY <1>1, <1>2, <1>3, <2>1 DEF M!Edit, OnlyReached
<1>4. CASE i \notin Reached
  <2>1. UNCHANGED OnlyReached(canvas)
    BY <1>1, <1>4, ReachedItems DEF OnlyReached
  <2>. QED
    BY <1>1, <1>2, <1>4, <2>1 DEF M!Tick
<1>. QED
  BY <1>3, <1>4

LEMMA FailureMaps ==
    ASSUME TypeOK, CallerInv, NEW r \in Runs, Commit(r), NEW t \in Tenants,
           t = run[r].tenant, state' = [state EXCEPT ![t] = run[r].draft],
           run[r].staged = Nothing, run[r].draft.status = "failed",
           run[r].draft.wm = state[t].wm, run[r].runAt <= clock,
           NEW w, w = run[r].runAt
    PROVE  M!NoteFailure(t, w) /\ w \in 0 .. clock
<1>1. rows' = rows
  <2>1. rows' = [rows EXCEPT ![t] = [i \in Items |-> rows[t][i]]]
    BY DEF Commit, Nothing
  <2>2. QED
    BY <2>1 DEF TypeOK
<1>2. run[r].draft.runAt = run[r].runAt /\ state[t].runAt <= run[r].runAt
  BY DEF CallerInv, Commit
<1>3. run[r].runAt \in Nat /\ state[t].runAt \in Nat /\ clock \in Nat
  BY RunFields DEF TypeOK, Row
<1>4. w \in state[t].runAt .. clock /\ w \in 0 .. clock
  BY <1>2, <1>3
<1>5. \A u \in Tenants : state'[u] = IF u = t THEN run[r].draft ELSE state[u]
  BY DEF TypeOK
<1>6. /\ [u \in Tenants |-> state[u].status]'
           = [[u \in Tenants |-> state[u].status] EXCEPT ![t] = "failed"]
      /\ [u \in Tenants |-> state[u].wm]' = [u \in Tenants |-> state[u].wm]
      /\ [u \in Tenants |-> state[u].runAt]'
           = [[u \in Tenants |-> state[u].runAt] EXCEPT ![t] = w]
  <2>1. \A u \in Tenants :
          /\ state'[u].status = IF u = t THEN "failed" ELSE state[u].status
          /\ state'[u].wm = state[u].wm
          /\ state'[u].runAt = IF u = t THEN w ELSE state[u].runAt
    BY <1>2, <1>5
  <2>2. QED
    BY <2>1, Zenon
<1>7. UNCHANGED <<clock, canvas>>
  BY DEF Commit
<1>8. QED
  BY <1>1, <1>4, <1>6, <1>7 DEF M!NoteFailure, OnlyReached

LEMMA RefreshMaps ==
    ASSUME SyncInv, SyncInv', CallerInv,
           NEW r \in Runs, Commit(r), NEW t \in Tenants,
           t = run[r].tenant, state' = [state EXCEPT ![t] = run[r].draft],
           run[r].draft = OkRow(run[r].runAt),
           NEW w, w = run[r].runAt
    PROVE  M!Refresh(t, w) /\ w \in 0 .. clock
<1>1. TypeOK /\ TypeOK'
  BY DEF SyncInv
<1>2. /\ OkRow(run[r].runAt).status = "ok"
      /\ OkRow(run[r].runAt).wm = run[r].runAt
      /\ OkRow(run[r].runAt).runAt = run[r].runAt
  BY DEF OkRow
<1>3. /\ state[t].wm <= run[r].runAt
      /\ run[r].runAt <= clock
  BY DEF CallerInv, Commit, SyncInv, TimeInv
<1>4. run[r].runAt \in Nat /\ state[t].wm \in Nat /\ clock \in Nat
  BY <1>1, RunFields DEF TypeOK, Row
<1>5. w \in state[t].wm .. clock /\ w \in 0 .. clock
  BY <1>3, <1>4
<1>6. \A u \in Tenants : state'[u] = IF u = t THEN run[r].draft ELSE state[u]
  BY <1>1 DEF TypeOK
<1>7. /\ [u \in Tenants |-> state[u].status]'
           = [[u \in Tenants |-> state[u].status] EXCEPT ![t] = "ok"]
      /\ [u \in Tenants |-> state[u].wm]'
           = [[u \in Tenants |-> state[u].wm] EXCEPT ![t] = w]
      /\ [u \in Tenants |-> state[u].runAt]'
           = [[u \in Tenants |-> state[u].runAt] EXCEPT ![t] = w]
  <2>1. \A u \in Tenants :
          /\ state'[u].status = IF u = t THEN "ok" ELSE state[u].status
          /\ state'[u].wm = IF u = t THEN w ELSE state[u].wm
          /\ state'[u].runAt = IF u = t THEN w ELSE state[u].runAt
    BY <1>2, <1>6
  <2>2. QED
    BY <2>1, Zenon
<1>8. UNCHANGED <<clock, canvas>>
  BY DEF Commit
<1>9. \A i \in Reached : /\ rows[t][i] <= rows'[t][i]
                         /\ rows'[t][i] <= canvas[t][i]
                         /\ canvas[t][i] <= w => rows'[t][i] = canvas[t][i]
  <2>1. state'[t].wm = w
    BY <1>2, <1>6
  <2>2. \A i \in Reached : canvas[t][i] <= w => rows'[t][i] = canvas[t][i]
    BY <1>8, <2>1 DEF SyncInv, KnownComplete, ReachedComplete, CompleteTo
  <2>3. QED
    BY <2>2, CommitEffect, ReachedItems
<1>10. \A u \in Tenants \ {t} : rows'[u] = rows[u]
  BY CommitEffect
<1>11. QED
  BY <1>5, <1>7, <1>8, <1>9, <1>10 DEF M!Refresh, OnlyReached

LEMMA CommitMaps ==
    ASSUME SyncInv, SyncInv', CallerInv, NEW r \in Runs, Commit(r)
    PROVE  M!Next
<1>0. TypeOK
  BY DEF SyncInv
<1>1. PICK t \in Tenants : t = run[r].tenant
  BY <1>0 DEF Commit, TypeOK
<1>2. state' = [state EXCEPT ![t] = run[r].draft]
  BY <1>1, CommitWrites
<1>3. run[r].runAt <= clock
  BY DEF SyncInv, TimeInv
<1>4. CASE run[r].draft = OkRow(run[r].runAt)
  <2>1. PICK w : w = run[r].runAt
    OBVIOUS
  <2>2. M!Refresh(t, w) /\ w \in 0 .. clock
    BY <2>1, <1>1, <1>2, <1>4, RefreshMaps
  <2>3. QED
    BY <2>2 DEF M!Next
<1>5. CASE run[r].draft # OkRow(run[r].runAt)
  <2>1. /\ run[r].staged = Nothing /\ run[r].draft.status = "failed"
        /\ run[r].draft.wm = state[t].wm
    BY <1>1, <1>5 DEF SyncInv, PhaseInv, Phase, Commit
  <2>2. QED
    <3>1. PICK w : w = run[r].runAt
      OBVIOUS
    <3>2. M!NoteFailure(t, w) /\ w \in 0 .. clock
      BY <3>1, <1>0, <1>1, <1>2, <1>3, <2>1, FailureMaps
    <3>3. QED
      BY <3>2 DEF M!Next
<1>6. QED
  BY <1>4, <1>5

LEMMA StepMaps ==
    ASSUME CallersLock, SyncInv, SyncInv', CallerInv, [Next]_vars
    PROVE  [M!Next]_(M!vars)
<1>1. ASSUME NEW t \in Tenants, NEW i \in Items, Edit(t, i) PROVE M!Next
  BY <1>1, EditMaps DEF M!Next, SyncInv
<1>2. ASSUME NEW r \in Runs, Commit(r) PROVE M!Next
  BY <1>2, CommitMaps
<1>3. ASSUME NEW r \in Runs PROVE ~RecordOwn(r)
  BY Holders DEF RecordOwn
<1>4. \/ \E t \in Tenants, i \in Items : Edit(t, i)
      \/ \E r \in Runs : Commit(r)
      \/ UNCHANGED <<clock, canvas, rows, state>>
  BY <1>3 DEF Next, vars, Start, Progress, Acquire, Busy, Enter, ReadState, Fetch,
              AdvanceWatermark, Fail, RecordHeld, RecordLost, CommitFails, Crash
<1>5. QED
  BY <1>1, <1>2, <1>4, StutterMaps

\* Whatever the number of tenants, runs and records and whichever listings are
\* filtered: with the caller's lock, concurrent runs, failures and crashes look
\* to the readers of the records that every run asks for like atomic refreshes
\* and failure marks.
THEOREM RunsImplementMirror ==
    ASSUME CallersLock
    PROVE  Spec => ImplementsMirror
<1>1. SyncInv /\ CallerInv /\ SyncInv' /\ [Next]_vars => [M!Next]_(M!vars)
  BY StepMaps
<1>2. QED
  BY <1>1, InitMaps, CallersInvariant, PTL DEF Spec, ImplementsMirror, M!Spec

-----------------------------------------------------------------------------
(* Action properties of the sync_state row.                                *)

\* Only commits change what is stored: a success stamps its own start time,
\* a failure changes neither rows nor watermark.
LEMMA StoredChanges ==
    ASSUME CallersLock, SyncInv, CallerInv, [Next]_vars, NEW t \in Tenants
    PROVE  \/ rows'[t] = rows[t] /\ state'[t] = state[t]
           \/ /\ state'[t].status = "ok" /\ state'[t].err = "none"
              /\ state'[t].wm = state'[t].runAt
              /\ state[t].wm <= state'[t].wm /\ state[t].runAt <= state'[t].runAt
           \/ /\ rows'[t] = rows[t]
              /\ state'[t].status = "failed" /\ state'[t].wm = state[t].wm
              /\ state[t].runAt <= state'[t].runAt
<1>0. TypeOK
  BY DEF SyncInv
<1>1. CASE UNCHANGED <<rows, state>>
  BY <1>1
<1>2. ASSUME NEW r \in Runs, Commit(r), run[r].tenant # t
      PROVE  rows'[t] = rows[t] /\ state'[t] = state[t]
  <2>1. PICK u \in Tenants : u = run[r].tenant
    BY <1>0, <1>2 DEF Commit, TypeOK
  <2>2. QED
    BY <1>2, <2>1, CommitEffect
<1>3. ASSUME NEW r \in Runs, Commit(r), run[r].tenant = t
      PROVE  \/ /\ state'[t].status = "ok" /\ state'[t].err = "none"
                /\ state'[t].wm = state'[t].runAt
                /\ state[t].wm <= state'[t].wm /\ state[t].runAt <= state'[t].runAt
             \/ /\ rows'[t] = rows[t]
                /\ state'[t].status = "failed" /\ state'[t].wm = state[t].wm
                /\ state[t].runAt <= state'[t].runAt
  <2>1. state'[t] = run[r].draft
    BY <1>0, <1>3, CommitWrites DEF TypeOK
  <2>2. /\ state[t].wm <= run[r].runAt /\ state[t].runAt <= run[r].runAt
        /\ run[r].draft.runAt = run[r].runAt
    BY <1>3 DEF CallerInv, Commit
  <2>3. CASE run[r].draft = OkRow(run[r].runAt)
    BY <2>1, <2>2, <2>3 DEF OkRow
  <2>4. CASE run[r].draft # OkRow(run[r].runAt)
    <3>1. /\ run[r].staged = Nothing /\ run[r].draft.status = "failed"
          /\ run[r].draft.wm = state[t].wm
      BY <1>3, <2>4 DEF SyncInv, PhaseInv, Phase, Commit
    <3>2. rows'[t] = [i \in Items |-> rows[t][i]]
      BY <1>0, <1>3, <3>1 DEF Commit, Nothing, TypeOK
    <3>3. rows'[t] = rows[t]
      BY <1>0, <3>2 DEF TypeOK
    <3>4. QED
      BY <2>1, <2>2, <3>1, <3>3
  <2>5. QED
    BY <2>3, <2>4
<1>4. ASSUME NEW r \in Runs PROVE ~RecordOwn(r)
  BY Holders DEF RecordOwn
<1>5. UNCHANGED <<rows, state>> \/ \E r \in Runs : Commit(r)
  BY <1>4 DEF Next, vars, Edit, Start, Progress, Acquire, Busy, Enter, ReadState,
              Fetch, AdvanceWatermark, Fail, RecordHeld, RecordLost, CommitFails, Crash
<1>6. QED
  BY <1>1, <1>2, <1>3, <1>5

\* A run that fails after it took the caller's lock leaves rows and watermark
\* as they were.
THEOREM FailuresKeepData ==
    ASSUME CallersLock
    PROVE  Spec => FailureKeepsData
<1>1. ASSUME SyncInv, CallerInv, [Next]_vars
      PROVE  \A t \in Tenants :
               state'[t].status = "failed" /\ state'[t] # state[t]
                 => rows'[t] = rows[t] /\ state'[t].wm = state[t].wm
  BY <1>1, StoredChanges
<1>2. QED
  BY <1>1, CallersInvariant, PTL DEF Spec, FailureKeepsData

\* Rows and watermark change only together with a recorded success, and the
\* watermark only forwards.
THEOREM SuccessesAreStamped ==
    ASSUME CallersLock
    PROVE  Spec => SuccessStamped
<1>1. ASSUME SyncInv, CallerInv, [Next]_vars
      PROVE  \A t \in Tenants :
               rows'[t] # rows[t] \/ state'[t].wm # state[t].wm
                 => /\ state'[t].status = "ok"
                    /\ state'[t].err = "none"
                    /\ state'[t].wm = state'[t].runAt
                    /\ state'[t].wm >= state[t].wm
  <2> TAKE t \in Tenants
  <2>1. state[t].wm \in Nat /\ state'[t].wm \in Nat
    BY <1>1, TypeNext DEF SyncInv, TypeOK, Row
  <2>2. QED
    BY <1>1, <2>1, StoredChanges
<1>2. QED
  BY <1>1, CallersInvariant, PTL DEF Spec, SuccessStamped

\* The last recorded run is never replaced by an earlier one.
THEOREM RunsAreRecordedInOrder ==
    ASSUME CallersLock
    PROVE  Spec => RunsRecordedInOrder
<1>1. ASSUME SyncInv, CallerInv, [Next]_vars
      PROVE  \A t \in Tenants : state[t].runAt <= state'[t].runAt
  <2> TAKE t \in Tenants
  <2>1. state[t].runAt \in Nat
    BY <1>1 DEF SyncInv, TypeOK, Row
  <2>2. QED
    BY <1>1, <2>1, StoredChanges
<1>2. QED
  BY <1>1, CallersInvariant, PTL DEF Spec, RunsRecordedInOrder
=============================================================================
