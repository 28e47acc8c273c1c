--------------------------- MODULE SyncRunsProofs ---------------------------
(***************************************************************************)
(* Theorems about SyncRuns for every set of tenants, runs and records.     *)
(***************************************************************************)
EXTENDS SyncRuns, TLAPS

-----------------------------------------------------------------------------
(* Types.                                                                  *)

LEMMA RowTypes ==
    /\ NoRow \in Row
    /\ \A at \in Nat : OkRow(at) \in Row
    /\ \A c \in Row, w, at \in Nat, e \in Errors \cup {"none"} :
         FailedRow(c, w, at, e) \in Row
    /\ \A s, c, n \in Row : Flush(s, c, n) \in Row
  BY DEF NoRow, OkRow, FailedRow, Flush, Row

LEMMA IdleType == Idle \in Run /\ Nothing \in [Items -> Nat]
  BY RowTypes DEF Idle, Run, PCs, Nothing

\* A step of run r replaces its record and no other.
LEMMA RunUpdate ==
    ASSUME run \in [Runs -> Run], NEW r \in Runs, NEW n \in Run,
           run' = [run EXCEPT ![r] = n]
    PROVE  /\ run' \in [Runs -> Run]
           /\ run'[r] = n
           /\ \A q \in Runs : q # r => run'[q] = run[q]
  OBVIOUS

\* The field types of a run.
LEMMA RunFields ==
    ASSUME NEW x \in Run
    PROVE  /\ x.pc \in PCs /\ x.tenant \in Tenants \cup {NoTenant}
           /\ x.mode \in Modes \cup {"none"} /\ x.runAt \in Nat /\ x.seen \in Row
           /\ x.todo \in SUBSET Items /\ x.staged \in [Items -> Nat]
           /\ x.draft \in Row /\ x.err \in Errors \cup {"none"}
  BY DEF Run

LEMMA TypeInit == Init => TypeOK
  BY RowTypes, IdleType DEF Init, TypeOK, Nothing, Idle

LEMMA EndTransactionType ==
    ASSUME TypeOK, NEW r \in Runs, EndTransaction(r)
    PROVE  lock' \in [LockKeys -> Runs \cup {NoRun}]
  BY DEF TypeOK, EndTransaction

LEMMA TypeNext == TypeOK /\ [Next]_vars => TypeOK'
<1> SUFFICES ASSUME TypeOK, [Next]_vars PROVE TypeOK'
  OBVIOUS
<1> USE SetsAssumption, ChoicesAssumption DEF TypeOK
<1>1. ASSUME NEW t \in Tenants, NEW i \in Items, Edit(t, i) PROVE TypeOK'
  BY <1>1 DEF Edit
<1>2. ASSUME NEW r \in Runs, NEW t \in Tenants, NEW m \in Modes, Start(r, t, m)
      PROVE  TypeOK'
  <2>1. [Idle EXCEPT !.pc = IF m = "ownLock" THEN "enter" ELSE "acquire",
                     !.tenant = t, !.mode = m, !.todo = Courses] \in Run
    BY IdleType DEF Run, PCs, Items
  <2>2. QED
    BY <1>2, <2>1 DEF Start
<1>3. ASSUME NEW r \in Runs, Progress(r) PROVE TypeOK'
  <2>0. run[r] \in Run
    OBVIOUS
  <2>a. ASSUME NEW n \in Run, run' = [run EXCEPT ![r] = n],
               n.pc # "idle" => n.tenant \in Tenants,
               clock' \in Nat, canvas' \in [Tenants -> [Items -> Nat]],
               rows' \in [Tenants -> [Items -> Nat]], state' \in [Tenants -> Row],
               lock' \in [LockKeys -> Runs \cup {NoRun}]
        PROVE  TypeOK'
    BY <2>a, RunUpdate
  <2>1. CASE Acquire(r)
    <3> DEFINE n == [run[r] EXCEPT
                       !.pc = IF run[r].mode = "ownLock" THEN "fetch" ELSE "enter"]
    <3>1. n \in Run /\ n.tenant = run[r].tenant
      BY <2>0 DEF Run, PCs
    <3>2. QED
      BY <2>1, <2>a, <3>1 DEF Acquire
  <2>2. CASE Busy(r)
    BY <2>2, <2>a, IdleType DEF Busy, Idle
  <2>3. CASE Enter(r)
    <3> DEFINE n == [run[r] EXCEPT !.pc = "read", !.runAt = clock]
    <3>1. n \in Run /\ n.tenant = run[r].tenant
      BY <2>0 DEF Run, PCs
    <3>2. QED
      BY <2>3, <2>a, <3>1 DEF Enter
  <2>4. CASE ReadState(r)
    <3> DEFINE n == [run[r] EXCEPT
                       !.pc = IF run[r].mode = "ownLock" THEN "acquire" ELSE "fetch",
                       !.seen = state[run[r].tenant]]
    <3>0. state[run[r].tenant] \in Row
      BY <2>4 DEF ReadState
    <3>1. n \in Run /\ n.tenant = run[r].tenant
      BY <2>0, <3>0 DEF Run, PCs
    <3>2. QED
      BY <2>4, <2>a, <3>1 DEF ReadState
  <2>5. ASSUME NEW i \in Items, Fetch(r, i) PROVE TypeOK'
    <3> DEFINE todo == (run[r].todo \ {i}) \cup {a \in Assignments : CourseOf[a] = i}
               staged == [run[r].staged EXCEPT ![i] = canvas[run[r].tenant][i]]
               n == [run[r] EXCEPT !.todo = todo, !.staged = staged]
               m == [run[r] EXCEPT !.todo = run[r].todo \ {i}]
    <3>1. todo \in SUBSET Items /\ run[r].todo \ {i} \in SUBSET Items
      BY <2>0 DEF Run, Items
    <3>2. staged \in [Items -> Nat]
      <4>1. run[r].staged \in [Items -> Nat] /\ run[r].tenant \in Tenants
        BY <2>0, <2>5, RunFields DEF Fetch
      <4>2. QED
        BY <4>1
    <3>3. n \in Run /\ n.tenant = run[r].tenant
      BY <2>0, <3>1, <3>2 DEF Run, PCs
    <3>4. m \in Run /\ m.tenant = run[r].tenant
      BY <2>0, <3>1 DEF Run, PCs
    <3>5. run' = [run EXCEPT ![r] = n] \/ run' = [run EXCEPT ![r] = m]
      BY <2>5 DEF Fetch
    <3>6. run[r].tenant \in Tenants
      BY <2>5 DEF Fetch
    <3> HIDE DEF n, m
    <3>7. QED
      BY <2>5, <2>a, <3>3, <3>4, <3>5, <3>6 DEF Fetch
  <2>6. CASE AdvanceWatermark(r)
    <3> DEFINE n == [run[r] EXCEPT !.pc = "commit", !.draft = OkRow(run[r].runAt)]
    <3>0. OkRow(run[r].runAt) \in Row
      BY <2>0, RowTypes, RunFields
    <3>1. n \in Run /\ n.tenant = run[r].tenant
      BY <2>0, <3>0 DEF Run, PCs
    <3>2. QED
      BY <2>6, <2>a, <3>1 DEF AdvanceWatermark
  <2>7. ASSUME NEW e \in Errors, Fail(r, e) PROVE TypeOK'
    <3> DEFINE n == [run[r] EXCEPT !.pc = "record", !.err = e, !.todo = {},
                                   !.staged = Nothing]
    <3>1. n \in Run /\ n.tenant = run[r].tenant
      BY <2>0, IdleType DEF Run, PCs
    <3>2. lock' \in [LockKeys -> Runs \cup {NoRun}]
      BY <2>7 DEF Fail, EndTransaction
    <3>3. QED
      BY <2>7, <2>a, <3>1, <3>2 DEF Fail
  <2>8. CASE RecordHeld(r)
    <3> DEFINE d == FailedRow(state[run[r].tenant], run[r].seen.wm, run[r].runAt, run[r].err)
               n == [run[r] EXCEPT !.pc = "commit", !.seen = state[run[r].tenant],
                                   !.draft = d]
    <3>s. state[run[r].tenant] \in Row
      BY <2>8 DEF RecordHeld
    <3>0. d \in Row
      <4>1. state[run[r].tenant] \in Row
        BY <2>8 DEF RecordHeld
      <4>2. run[r].seen.wm \in Nat /\ run[r].runAt \in Nat /\ run[r].err \in Errors \cup {"none"}
        BY <2>0, RunFields DEF Row
      <4>3. QED
        BY <4>1, <4>2, RowTypes
    <3> HIDE DEF d
    <3>1. n \in Run /\ n.tenant = run[r].tenant
      BY <2>0, <3>0, <3>s DEF Run, PCs
    <3>2. QED
      BY <2>8, <2>a, <3>1 DEF RecordHeld, d
  <2>9. CASE RecordOwn(r)
    <3>0. FailedRow(state[run[r].tenant], run[r].seen.wm, run[r].runAt, run[r].err) \in Row
      <4>1. state[run[r].tenant] \in Row
        BY <2>9 DEF RecordOwn
      <4>2. run[r].seen.wm \in Nat /\ run[r].runAt \in Nat /\ run[r].err \in Errors \cup {"none"}
        BY <2>0, RunFields DEF Row
      <4>3. QED
        BY <4>1, <4>2, RowTypes
    <3>1. state' \in [Tenants -> Row]
      BY <2>9, <3>0 DEF RecordOwn
    <3>2. QED
      BY <2>9, <2>a, <3>1, IdleType DEF RecordOwn, Idle
  <2>10. CASE RecordLost(r)
    BY <2>10, <2>a, IdleType, EndTransactionType DEF RecordLost, Idle
  <2>11. CASE Commit(r)
    <3>1. Flush(run[r].seen, state[run[r].tenant], run[r].draft) \in Row
      BY <2>0, <2>11, RunFields, RowTypes DEF Commit
    <3>2. state' \in [Tenants -> Row]
      BY <2>11, <3>1 DEF Commit
    <3>3. rows' \in [Tenants -> [Items -> Nat]]
      <4>1. run[r].staged \in [Items -> Nat] /\ run[r].tenant \in Tenants
        BY <2>0, <2>11, RunFields DEF Commit
      <4>2. QED
        BY <2>11, <4>1 DEF Commit
    <3>4. QED
      BY <2>11, <2>a, <3>2, <3>3, IdleType, EndTransactionType DEF Commit, Idle
  <2>12. CASE CommitFails(r)
    <3> DEFINE n == [run[r] EXCEPT !.pc = "record", !.err = "unexpected",
                                   !.staged = Nothing, !.draft = NoRow]
    <3>1. n \in Run /\ n.tenant = run[r].tenant
      BY <2>0, IdleType, RowTypes DEF Run, PCs
    <3> HIDE DEF n
    <3>2. QED
      BY <2>12, <2>a, <3>1, IdleType, EndTransactionType DEF CommitFails, Idle, n
  <2>13. QED
    BY <1>3, <2>1, <2>2, <2>3, <2>4, <2>5, <2>6, <2>7, <2>8, <2>9, <2>10,
       <2>11, <2>12 DEF Progress
<1>4. ASSUME NEW r \in Runs, Crash(r) PROVE TypeOK'
  BY <1>4, IdleType, EndTransactionType DEF Crash, Idle
<1>5. CASE UNCHANGED vars
  BY <1>5 DEF vars
<1>6. QED
  BY <1>1, <1>2, <1>3, <1>4, <1>5 DEF Next

\* Every reachable state is well typed.
THEOREM TypeCorrect == Spec => []TypeOK
  BY TypeInit, TypeNext, PTL DEF Spec

-----------------------------------------------------------------------------
(* What each step does to the record of its run.                           *)

Others(r) == \A q \in Runs : q # r => run'[q] = run[q]

LEMMA GoesIdle ==
    ASSUME TypeOK, NEW r \in Runs, run' = [run EXCEPT ![r] = Idle]
    PROVE  /\ Others(r)
           /\ run'[r].pc = "idle" /\ run'[r].tenant = NoTenant
           /\ run'[r].mode = "none" /\ run'[r].runAt = 0 /\ run'[r].seen = NoRow
           /\ run'[r].todo = {} /\ run'[r].staged = Nothing
           /\ run'[r].draft = NoRow /\ run'[r].err = "none"
  BY RunUpdate, IdleType DEF TypeOK, Idle, Others

LEMMA StartEffect ==
    ASSUME TypeOK, NEW r \in Runs, NEW t \in Tenants, NEW m \in Modes, Start(r, t, m)
    PROVE  /\ Others(r)
           /\ run'[r].pc = (IF m = "ownLock" THEN "enter" ELSE "acquire")
           /\ run'[r].tenant = t /\ run'[r].mode = m
           /\ run'[r].runAt = 0 /\ run'[r].seen = NoRow
           /\ run'[r].todo = Courses /\ run'[r].staged = Nothing
           /\ run'[r].draft = NoRow
  <1> DEFINE n == [Idle EXCEPT !.pc = IF m = "ownLock" THEN "enter" ELSE "acquire",
                               !.tenant = t, !.mode = m, !.todo = Courses]
  <1>1. /\ run'[r] = n
        /\ Others(r)
    BY DEF Start, TypeOK, Others
  <1>2. /\ n.pc = (IF m = "ownLock" THEN "enter" ELSE "acquire")
        /\ n.tenant = t /\ n.mode = m /\ n.runAt = 0 /\ n.seen = NoRow
        /\ n.todo = Courses /\ n.staged = Nothing /\ n.draft = NoRow
    BY DEF Idle
  <1>3. QED
    BY <1>1, <1>2

LEMMA AcquireEffect ==
    ASSUME TypeOK, NEW r \in Runs, Acquire(r)
    PROVE  /\ Others(r)
           /\ run'[r].pc = (IF run[r].mode = "ownLock" THEN "fetch" ELSE "enter")
           /\ run'[r].tenant = run[r].tenant /\ run'[r].mode = run[r].mode
           /\ run'[r].runAt = run[r].runAt /\ run'[r].seen = run[r].seen
           /\ run'[r].todo = run[r].todo /\ run'[r].staged = run[r].staged
           /\ run'[r].draft = run[r].draft
  BY DEF TypeOK, Acquire, Run, Others

LEMMA EnterEffect ==
    ASSUME TypeOK, NEW r \in Runs, Enter(r)
    PROVE  /\ Others(r)
           /\ run'[r].pc = "read"
           /\ run'[r].tenant = run[r].tenant /\ run'[r].mode = run[r].mode
           /\ run'[r].runAt = clock /\ run'[r].seen = run[r].seen
           /\ run'[r].todo = run[r].todo /\ run'[r].staged = run[r].staged
           /\ run'[r].draft = run[r].draft
  BY DEF TypeOK, Enter, Run, Others

LEMMA ReadStateEffect ==
    ASSUME TypeOK, NEW r \in Runs, ReadState(r)
    PROVE  /\ Others(r)
           /\ run'[r].pc = (IF run[r].mode = "ownLock" THEN "acquire" ELSE "fetch")
           /\ run'[r].tenant = run[r].tenant /\ run'[r].mode = run[r].mode
           /\ run'[r].runAt = run[r].runAt
           /\ run'[r].seen = state[run[r].tenant]
           /\ run'[r].todo = run[r].todo /\ run'[r].staged = run[r].staged
           /\ run'[r].draft = run[r].draft
  BY DEF TypeOK, ReadState, Run, Others

LEMMA FetchEffect ==
    ASSUME TypeOK, NEW r \in Runs, NEW i \in Items, Fetch(r, i)
    PROVE  /\ Others(r)
           /\ run'[r].pc = "fetch"
           /\ run'[r].tenant = run[r].tenant /\ run'[r].mode = run[r].mode
           /\ run'[r].runAt = run[r].runAt /\ run'[r].seen = run[r].seen
           /\ run'[r].draft = run[r].draft
           /\ Listed(r, i) =>
                /\ run'[r].todo = (run[r].todo \ {i})
                                    \cup {a \in Assignments : CourseOf[a] = i}
                /\ run'[r].staged = [run[r].staged EXCEPT
                                       ![i] = canvas[run[r].tenant][i]]
           /\ ~Listed(r, i) =>
                /\ run'[r].todo = run[r].todo \ {i}
                /\ run'[r].staged = run[r].staged
  <1>1. CASE Listed(r, i)
    <2> DEFINE todo == (run[r].todo \ {i}) \cup {a \in Assignments : CourseOf[a] = i}
               staged == [run[r].staged EXCEPT ![i] = canvas[run[r].tenant][i]]
    <2>1. run' = [run EXCEPT ![r] = [run[r] EXCEPT !.todo = todo, !.staged = staged]]
      BY <1>1 DEF Fetch
    <2> HIDE DEF todo, staged
    <2>2. /\ run'[r].pc = run[r].pc /\ Others(r)
          /\ run'[r].tenant = run[r].tenant /\ run'[r].mode = run[r].mode
          /\ run'[r].runAt = run[r].runAt /\ run'[r].seen = run[r].seen
          /\ run'[r].draft = run[r].draft
          /\ run'[r].todo = todo /\ run'[r].staged = staged
      BY <2>1 DEF TypeOK, Run, Others
    <2>3. QED
      BY <1>1, <2>2 DEF Fetch, todo, staged
  <1>2. CASE ~Listed(r, i)
    BY <1>2 DEF TypeOK, Fetch, Run, Others
  <1>3. QED
    BY <1>1, <1>2

LEMMA AdvanceEffect ==
    ASSUME TypeOK, NEW r \in Runs, AdvanceWatermark(r)
    PROVE  /\ Others(r)
           /\ run'[r].pc = "commit"
           /\ run'[r].tenant = run[r].tenant /\ run'[r].mode = run[r].mode
           /\ run'[r].runAt = run[r].runAt /\ run'[r].seen = run[r].seen
           /\ run'[r].todo = run[r].todo /\ run'[r].staged = run[r].staged
           /\ run'[r].draft = OkRow(run[r].runAt)
  BY DEF TypeOK, AdvanceWatermark, Run, Others

LEMMA FailEffect ==
    ASSUME TypeOK, NEW r \in Runs, NEW e \in Errors, Fail(r, e)
    PROVE  /\ Others(r)
           /\ run'[r].pc = "record"
           /\ run'[r].tenant = run[r].tenant /\ run'[r].mode = run[r].mode
           /\ run'[r].runAt = run[r].runAt /\ run'[r].seen = run[r].seen
           /\ run'[r].staged = Nothing /\ run'[r].draft = run[r].draft
  BY DEF TypeOK, Fail, Run, Others

LEMMA RecordHeldEffect ==
    ASSUME TypeOK, NEW r \in Runs, RecordHeld(r)
    PROVE  /\ Others(r)
           /\ run'[r].pc = "commit"
           /\ run'[r].tenant = run[r].tenant /\ run'[r].mode = run[r].mode
           /\ run'[r].runAt = run[r].runAt /\ run'[r].seen = state[run[r].tenant]
           /\ run'[r].staged = run[r].staged
           /\ run'[r].draft = FailedRow(state[run[r].tenant], run[r].seen.wm,
                                        run[r].runAt, run[r].err)
  BY DEF TypeOK, RecordHeld, Run, Others

LEMMA CommitFailsEffect ==
    ASSUME TypeOK, NEW r \in Runs, CommitFails(r), run[r].mode = "ownLock"
    PROVE  /\ Others(r)
           /\ run'[r].pc = "record"
           /\ run'[r].tenant = run[r].tenant /\ run'[r].mode = run[r].mode
           /\ run'[r].runAt = run[r].runAt /\ run'[r].seen = run[r].seen
           /\ run'[r].staged = Nothing /\ run'[r].draft = NoRow
  BY DEF TypeOK, CommitFails, Run, Others

-----------------------------------------------------------------------------
(* The inductive invariant.                                                *)

\* The records that every run asks for are records.
LEMMA ReachedItems == Reached \subseteq Items
  BY DEF Reached, Items

LEMMA InvInit == Init => SyncInv
<1> SUFFICES ASSUME Init PROVE SyncInv
  OBVIOUS
<1>1. TypeOK
  BY TypeInit
<1>2. \A r \in Runs : /\ run[r].pc = "idle" /\ run[r].mode = "none"
                      /\ run[r].tenant = NoTenant /\ run[r].seen = NoRow
                      /\ run[r].staged = Nothing /\ run[r].runAt = 0
  BY DEF Init, Idle
<1>3. /\ clock = 1
      /\ \A t \in Tenants : state[t] = NoRow
      /\ \A t \in Tenants, i \in Items : canvas[t][i] = 1 /\ rows[t][i] = 0
  BY DEF Init, Nothing
<1>4. NoRow.wm = 0 /\ \A i \in Items : Nothing[i] = 0
  BY DEF NoRow, Nothing
<1>5. LockInv
  BY <1>2 DEF LockInv, Holding
<1>6. TimeInv
  BY <1>2, <1>3, <1>4 DEF TimeInv
<1>7. PhaseInv
  BY <1>2 DEF PhaseInv, Phase
<1>8. StagedInv /\ FetchInv
  BY <1>2, <1>4 DEF StagedInv, FetchInv, Fetched
<1>9. KnownComplete
  BY ReachedItems, <1>2, <1>3, <1>4, SetsAssumption DEF KnownComplete, ReachedComplete, CompleteTo
<1>10. QED
  BY <1>1, <1>5, <1>6, <1>7, <1>8, <1>9 DEF SyncInv

\* A step that only discards the work of a run, releasing its locks.
LEMMA DiscardPreserves ==
    ASSUME SyncInv, TypeOK', NEW r \in Runs, run' = [run EXCEPT ![r] = Idle],
           UNCHANGED <<clock, canvas, rows, state>>,
           \A k \in LockKeys : lock'[k] = lock[k] \/ lock[k] = r
    PROVE  SyncInv'
<1>1. /\ Others(r) /\ run'[r].pc = "idle" /\ run'[r].mode = "none"
      /\ run'[r].tenant = NoTenant /\ run'[r].seen = NoRow
      /\ run'[r].staged = Nothing /\ run'[r].runAt = 0
  BY GoesIdle DEF SyncInv
<1>2. NoRow.wm = 0 /\ \A i \in Items : Nothing[i] = 0
  BY DEF NoRow, Nothing
<1> USE DEF SyncInv, Others
<1>3. LockInv'
  BY <1>1, SetsAssumption DEF LockInv, Holding, Key, TypeOK
<1>4. TimeInv'
  BY <1>1, <1>2 DEF TimeInv, TypeOK
<1>5. PhaseInv'
  BY <1>1 DEF PhaseInv, Phase
<1>6. StagedInv'
  BY <1>1, <1>2, SetsAssumption DEF StagedInv, NewerThanKnown
<1>7. FetchInv'
  BY <1>1 DEF FetchInv, Fetched, Pending
<1>8. KnownComplete'
  BY <1>1, SetsAssumption DEF KnownComplete, ReachedComplete, CompleteTo
<1>9. QED
  BY <1>3, <1>4, <1>5, <1>6, <1>7, <1>8

\* Canvas changes a record: it is now later than anything anybody knows.
LEMMA EditPreserves ==
    ASSUME SyncInv, TypeOK', NEW t \in Tenants, NEW i \in Items, Edit(t, i)
    PROVE  SyncInv'
<1> USE DEF SyncInv
<1>1. /\ clock \in Nat /\ clock' = clock + 1
      /\ canvas'[t][i] = clock + 1
      /\ \A u \in Tenants, j \in Items :
           u # t \/ j # i => canvas'[u][j] = canvas[u][j]
      /\ UNCHANGED <<rows, state, lock, run>>
  BY DEF Edit, TypeOK
<1>2. /\ \A u \in Tenants : state[u].wm \in Nat
      /\ \A q \in Runs : run[q].seen.wm \in Nat /\ run[q].runAt \in Nat
      /\ \A u \in Tenants, j \in Items : canvas[u][j] \in Nat /\ rows[u][j] \in Nat
      /\ \A q \in Runs, j \in Items : run[q].staged[j] \in Nat
  BY DEF TypeOK, Run, Row
<1>3. LockInv'
  BY <1>1 DEF LockInv, Holding, Key
<1>4. TimeInv'
  BY <1>1, <1>2 DEF TimeInv
<1>5. PhaseInv'
  BY <1>1 DEF PhaseInv, Phase
<1>6. StagedInv'
  BY <1>1, <1>2 DEF StagedInv, NewerThanKnown, TimeInv
<1>7. FetchInv'
  <2>1. \A r \in Runs : run[r].pc # "idle" => run[r].tenant \in Tenants
    BY DEF TypeOK
  <2>2. QED
    BY ReachedItems, <1>1, <1>2, <2>1 DEF FetchInv, Fetched, Pending, TimeInv
<1>8. KnownComplete'
  BY ReachedItems, <1>1, <1>2 DEF KnownComplete, ReachedComplete, CompleteTo, TimeInv
<1>9. QED
  BY <1>3, <1>4, <1>5, <1>6, <1>7, <1>8

\* A step of run r that touches neither the database nor Canvas.
LEMMA LocalPreserves ==
    ASSUME SyncInv, TypeOK', NEW r \in Runs, Others(r),
           UNCHANGED <<clock, canvas, rows, state>>,
           run'[r].tenant \in Tenants,
           run'[r].runAt <= clock,
           \/ run'[r].seen = NoRow
           \/ run'[r].seen = state[run'[r].tenant]
           \/ run'[r].seen = run[r].seen /\ run'[r].tenant = run[r].tenant,
           \A i \in Items :
             \/ run'[r].staged[i] = 0
             \/ run'[r].staged[i] = canvas[run'[r].tenant][i]
             \/ /\ run'[r].staged[i] = run[r].staged[i]
                /\ run'[r].tenant = run[r].tenant
                /\ run'[r].runAt = run[r].runAt,
           \A k \in LockKeys : lock'[k] = lock[k] \/ lock[k] \in {NoRun, r},
           Holding(r)' => lock'[Key(r)'] = r,
           Phase(r)', Fetched(r)'
    PROVE  SyncInv'
<1> USE DEF SyncInv, Others
<1>1. NoRow.wm = 0
  BY DEF NoRow
<1>2. \A u \in Tenants : state[u].wm \in Nat
  BY DEF TypeOK, Row
<1>3. LockInv'
  BY SetsAssumption DEF LockInv, Holding, Key, TypeOK
<1>4. TimeInv'
  <2>1. clock \in Nat
    BY DEF TypeOK
  <2>2. run'[r].seen.wm <= clock
    BY <1>1, <2>1 DEF TimeInv
  <2>3. ASSUME NEW t \in Tenants, state[t] = NoRow, run'[r].tenant = t
        PROVE  run'[r].seen = NoRow
    BY <2>3 DEF TimeInv
  <2>4. QED
    BY <2>2, <2>3 DEF TimeInv
<1>5. PhaseInv'
  BY DEF PhaseInv, Phase
<1>6. StagedInv'
  <2>1. ASSUME NEW t \in Tenants, NEW i \in Items, NewerThanKnown(t, i)
        PROVE  NewerThanKnown(t, i)'
    BY <1>1, <2>1, <1>2 DEF NewerThanKnown, TypeOK
  <2>2. ASSUME NEW i \in Items, run'[r].staged[i] # 0,
               run'[r].staged[i] = canvas[run'[r].tenant][i]
        PROVE  LET t == run'[r].tenant IN
               /\ rows[t][i] <= run'[r].staged[i]
               /\ run'[r].staged[i] <= canvas[t][i]
    BY <2>2 DEF TimeInv, TypeOK
  <2>3. QED
    BY <2>1, <2>2 DEF StagedInv
<1>7. FetchInv'
  BY DEF FetchInv, Fetched, Pending
<1>8. KnownComplete'
  <2>1. \A t \in Tenants : CompleteTo(t, state[t].wm) /\ CompleteTo(t, 0)
    BY ReachedItems DEF KnownComplete, ReachedComplete, CompleteTo, TimeInv, TypeOK
  <2>2. \A q \in Runs : run[q].tenant \in Tenants => CompleteTo(run[q].tenant, run[q].seen.wm)
    BY DEF KnownComplete
  <2>3. \A t \in Tenants : \A w : CompleteTo(t, w)' <=> CompleteTo(t, w)
    BY DEF CompleteTo
  <2>4. \A q \in Runs : run'[q].tenant \in Tenants
          => CompleteTo(run'[q].tenant, run'[q].seen.wm)
    BY <1>1, <2>1, <2>2
  <2>5. QED
    BY <2>1, <2>3, <2>4 DEF KnownComplete, ReachedComplete, CompleteTo
<1>9. QED
  BY <1>3, <1>4, <1>5, <1>6, <1>7, <1>8

\* The steps that only move one run on.
LEMMA StepsPreserve ==
    ASSUME SyncInv, TypeOK', NEW r \in Runs,
           \/ \E t \in Tenants, m \in Modes : Start(r, t, m)
           \/ Acquire(r)
           \/ Enter(r)
           \/ ReadState(r)
           \/ \E i \in Items : Fetch(r, i)
           \/ AdvanceWatermark(r)
           \/ \E e \in Errors : Fail(r, e)
           \/ RecordHeld(r)
           \/ CommitFails(r) /\ run[r].mode = "ownLock"
    PROVE  SyncInv'
<1> USE DEF SyncInv
<1>n. NoRow.wm = 0 /\ NoRow.status = "absent" /\ \A i \in Items : Nothing[i] = 0
  BY DEF NoRow, Nothing
<1>k. clock \in Nat
  BY DEF TypeOK
<1>t. run[r].pc # "idle" => run[r].tenant \in Tenants
  BY DEF TypeOK
<1>r. run[r].runAt <= clock
  BY DEF TimeInv
<1>s. run[r].pc \notin {"fetch", "commit"} => run[r].staged = Nothing
  BY DEF PhaseInv, Phase
<1>m. run[r].pc # "idle"
        => run[r].mode \in Modes /\ run[r].mode \in {"callerLock", "ownLock"}
  BY ChoicesAssumption DEF PhaseInv, Phase
<1>l. Holding(r) => lock[Key(r)] = r
  BY DEF LockInv
<1>1. ASSUME NEW t \in Tenants, NEW m \in Modes, Start(r, t, m) PROVE SyncInv'
  <2>1. UNCHANGED <<clock, canvas, rows, state, lock>>
    BY <1>1 DEF Start
  <2>2. ~Holding(r)' /\ Phase(r)' /\ Fetched(r)'
    BY <1>1, StartEffect DEF Holding, Phase, Fetched
  <2>3. QED
    BY <1>1, <1>n, <1>k, <2>1, <2>2, StartEffect, LocalPreserves
<1>2. CASE Acquire(r)
  <2>1. UNCHANGED <<clock, canvas, rows, state>> /\ run[r].pc = "acquire"
    BY <1>2 DEF Acquire
  <2>2. /\ \A k \in LockKeys : lock'[k] = lock[k] \/ lock[k] \in {NoRun, r}
        /\ lock'[Key(r)'] = r
    BY <1>2, <1>t, <2>1, AcquireEffect, SetsAssumption DEF Acquire, Key, TypeOK
  <2>3. Phase(r)'
    BY <1>2, <2>1, AcquireEffect DEF Phase, PhaseInv
  <2>4. Fetched(r)'
    <3>1. \A i \in Items : i \in Pending(r)'
      BY <2>1, AcquireEffect, <1>2, SetsAssumption DEF Pending, PhaseInv, Phase, Items
    <3>2. QED
      BY <3>1, ReachedItems DEF Fetched
  <2>5. QED
    BY <1>2, <1>t, <1>r, <2>1, <2>2, <2>3, <2>4, AcquireEffect, LocalPreserves
<1>3. CASE Enter(r)
  <2>1. UNCHANGED <<clock, canvas, rows, state, lock>> /\ run[r].pc = "enter"
    BY <1>3 DEF Enter
  <2>2. Holding(r)' => lock'[Key(r)'] = r
    BY <1>3, <1>l, <2>1, EnterEffect DEF Holding, Key
  <2>3. Phase(r)' /\ Fetched(r)'
    BY <1>3, <1>s, <2>1, EnterEffect DEF Phase, PhaseInv, Fetched
  <2>4. \A i \in Items : run'[r].staged[i] = 0
    BY <1>3, <1>s, <1>n, <2>1, EnterEffect
  <2>5. QED
    BY <1>3, <1>t, <1>k, <2>1, <2>2, <2>3, <2>4, EnterEffect, LocalPreserves
<1>4. CASE ReadState(r)
  <2>1. UNCHANGED <<clock, canvas, rows, state, lock>> /\ run[r].pc = "read"
    BY <1>4 DEF ReadState
  <2>2. Holding(r)' => lock'[Key(r)'] = r
    BY <1>4, <1>l, <1>m, <2>1, ReadStateEffect DEF Holding, Key
  <2>3. Phase(r)'
    BY <1>4, <1>s, <2>1, ReadStateEffect DEF Phase, PhaseInv
  <2>4. Fetched(r)'
    <3>1. \A i \in Items : i \in Pending(r)'
      BY <2>1, ReadStateEffect, <1>4, SetsAssumption DEF Pending, PhaseInv, Phase, Items
    <3>2. QED
      BY <3>1, ReachedItems DEF Fetched
  <2>5. QED
    BY <1>4, <1>t, <1>r, <2>1, <2>2, <2>3, <2>4, ReadStateEffect, LocalPreserves
<1>5. ASSUME NEW i \in Items, Fetch(r, i) PROVE SyncInv'
  <2>1. UNCHANGED <<clock, canvas, rows, state, lock>> /\ run[r].pc = "fetch"
    BY <1>5 DEF Fetch
  <2>f. Listed(r, i) =>
          /\ run'[r].todo = (run[r].todo \ {i}) \cup {a \in Assignments : CourseOf[a] = i}
          /\ run'[r].staged = [run[r].staged EXCEPT ![i] = canvas[run[r].tenant][i]]
    BY <1>5, FetchEffect
  <2>g. ~Listed(r, i) =>
          run'[r].todo = run[r].todo \ {i} /\ run'[r].staged = run[r].staged
    BY <1>5, FetchEffect
  <2>2. Holding(r)' => lock'[Key(r)'] = r
    BY <1>5, <1>l, <2>1, FetchEffect DEF Holding, Key
  <2>3. Phase(r)'
    BY <1>5, <1>m, <2>1, FetchEffect DEF Phase
  <2>4. /\ run[r].staged \in [Items -> Nat]
        /\ run'[r].staged \in [Items -> Nat]
        /\ \A j \in Items : j # i => run'[r].staged[j] = run[r].staged[j]
        /\ run'[r].staged[i] \in {run[r].staged[i], canvas[run[r].tenant][i]}
        /\ Listed(r, i) => run'[r].staged[i] = canvas[run[r].tenant][i]
    <3>1. run[r].staged \in [Items -> Nat] /\ run'[r].staged \in [Items -> Nat]
      BY RunFields DEF TypeOK
    <3>2. CASE Listed(r, i)
      BY <3>1, <3>2, <2>f
    <3>3. CASE ~Listed(r, i)
      BY <3>1, <3>3, <2>g
    <3>4. QED
      BY <3>2, <3>3
  <2>5. Fetched(r)'
    <3> SUFFICES ASSUME NEW j \in Reached, j \notin Pending(r)', run'[r].staged[j] = 0,
                        canvas[run[r].tenant][j] <= run[r].runAt
                 PROVE  rows[run[r].tenant][j] = canvas[run[r].tenant][j]
      BY <1>5, <2>1, FetchEffect DEF Fetched
    <3>0. j \in Items
      BY ReachedItems
    <3>1. canvas[run[r].tenant][i] >= 1 /\ canvas[run[r].tenant][j] \in Nat
      BY <1>t, <2>1, <3>0 DEF TimeInv, TypeOK
    <3>2. CASE j \notin Pending(r) /\ j # i
      BY <2>1, <2>4, <3>0, <3>2 DEF FetchInv, Fetched
    <3>3. CASE j = i
      <4>1. ~Listed(r, i)
        BY <2>4, <3>0, <3>1, <3>3
      <4>2. canvas[run[r].tenant][i] <= run[r].seen.wm
        <5>1. run[r].seen.wm \in Nat /\ canvas[run[r].tenant][i] \in Nat
          BY <3>1, <3>3 DEF TypeOK, Run, Row
        <5>2. QED
          BY <4>1, <5>1 DEF Listed
      <4>3. QED
        BY <1>t, <2>1, <3>3, <4>2 DEF KnownComplete, CompleteTo
    <3>4. CASE j \in Pending(r) /\ j # i
      \* A pending record stops being pending only with its listing or when
      \* its course is left out; then no run is sure to ask for it.
      <4>1. i \in Courses /\ j \in Assignments /\ CourseOf[j] = i /\ ~Listed(r, i)
        <5>1. j \notin run'[r].todo
              /\ (j \in Assignments => CourseOf[j] \notin run'[r].todo)
          BY DEF Pending
        <5>2. j \in run[r].todo \/ (j \in Assignments /\ CourseOf[j] \in run[r].todo)
          BY <3>4 DEF Pending
        <5>3. run[r].todo \ {i} \subseteq run'[r].todo
              /\ (Listed(r, i) => {a \in Assignments : CourseOf[a] = i} \subseteq run'[r].todo)
          BY <2>f, <2>g
        <5>4. j \in Assignments /\ CourseOf[j] = i
          BY <3>4, <5>1, <5>2, <5>3
        <5>5. QED
          BY <5>1, <5>3, <5>4, SetsAssumption
      <4>2. Listed(r, i)
        BY <4>1, SetsAssumption DEF Listed, Listing, Reached
      <4>3. QED
        BY <4>1, <4>2
    <3>5. QED
      BY <3>2, <3>3, <3>4
  <2>6. QED
    BY <1>5, <1>t, <1>r, <2>1, <2>2, <2>3, <2>4, <2>5, FetchEffect, LocalPreserves
<1>6. CASE AdvanceWatermark(r)
  <2>1. UNCHANGED <<clock, canvas, rows, state, lock>>
        /\ run[r].pc = "fetch" /\ run[r].todo = {}
    BY <1>6 DEF AdvanceWatermark
  <2>2. Holding(r)' => lock'[Key(r)'] = r
    BY <1>6, <1>l, <2>1, AdvanceEffect DEF Holding, Key
  <2>3. Phase(r)'
    BY <1>6, <1>m, <2>1, AdvanceEffect DEF Phase
  <2>4. Fetched(r)'
    BY <1>6, <2>1, AdvanceEffect DEF Fetched, FetchInv, Pending
  <2>5. QED
    BY <1>6, <1>t, <1>r, <2>1, <2>2, <2>3, <2>4, AdvanceEffect, LocalPreserves
<1>7. ASSUME NEW e \in Errors, Fail(r, e) PROVE SyncInv'
  <2>1. UNCHANGED <<clock, canvas, rows, state>> /\ run[r].pc # "idle"
    BY <1>7 DEF Fail
  <2>2. /\ \A k \in LockKeys : lock'[k] = lock[k] \/ lock[k] \in {NoRun, r}
        /\ Holding(r)' => lock'[Key(r)'] = r
    <3>1. CASE run[r].mode = "ownLock"
      BY <1>7, <3>1, FailEffect DEF Fail, EndTransaction, Holding
    <3>2. CASE run[r].mode # "ownLock"
      BY <1>7, <1>l, <1>m, <2>1, <3>2, FailEffect DEF Fail, Holding, Key
    <3>3. QED
      BY <3>1, <3>2
  <2>3. Phase(r)' /\ Fetched(r)'
    BY <1>7, <1>m, <2>1, FailEffect DEF Phase, Fetched
  <2>4. QED
    BY <1>7, <1>t, <1>r, <1>n, <2>1, <2>2, <2>3, FailEffect, LocalPreserves
<1>8. CASE RecordHeld(r)
  <2>1. UNCHANGED <<clock, canvas, rows, state, lock>>
        /\ run[r].pc = "record" /\ run[r].mode = "callerLock"
    BY <1>8 DEF RecordHeld
  <2>2. Holding(r)' => lock'[Key(r)'] = r
    BY <1>8, <1>l, <2>1, RecordHeldEffect DEF Holding, Key
  <2>3. run'[r].draft.status = "failed" /\ run'[r].draft.wm = state[run[r].tenant].wm
    <3>1. state[run[r].tenant] = NoRow => run[r].seen = NoRow
      BY <1>t, <2>1 DEF TimeInv
    <3>2. QED
      <4> DEFINE d == FailedRow(state[run[r].tenant], run[r].seen.wm,
                                run[r].runAt, run[r].err)
      <4>1. d.status = "failed" /\ d.wm = state[run[r].tenant].wm
        BY <3>1 DEF FailedRow
      <4> HIDE DEF d
      <4>2. run'[r].draft = d
        BY <1>8, RecordHeldEffect DEF d
      <4>3. QED
        BY <4>1, <4>2
  <2>4. Phase(r)' /\ Fetched(r)'
    BY <1>8, <1>m, <1>s, <2>1, <2>3, RecordHeldEffect DEF Phase, Fetched
  <2>5. QED
    BY <1>8, <1>t, <1>r, <2>1, <2>2, <2>4, RecordHeldEffect, LocalPreserves
<1>9. CASE CommitFails(r) /\ run[r].mode = "ownLock"
  <2>1. UNCHANGED <<clock, canvas, rows, state>> /\ run[r].pc = "commit"
    BY <1>9 DEF CommitFails
  <2>2. /\ \A k \in LockKeys : lock'[k] = lock[k] \/ lock[k] \in {NoRun, r}
        /\ ~Holding(r)'
    BY <1>9, CommitFailsEffect DEF CommitFails, EndTransaction, Holding
  <2>3. Phase(r)' /\ Fetched(r)'
    BY <1>9, <1>m, <2>1, CommitFailsEffect DEF Phase, Fetched
  <2>4. QED
    BY <1>9, <1>t, <1>r, <1>n, <2>1, <2>2, <2>3, CommitFailsEffect, LocalPreserves
<1>10. QED
  BY <1>1, <1>2, <1>3, <1>4, <1>5, <1>6, <1>7, <1>8, <1>9

\* A failure recorded without the lock leaves the watermark alone.
LEMMA RecordOwnPreserves ==
    ASSUME SyncInv, TypeOK', NEW r \in Runs, RecordOwn(r)
    PROVE  SyncInv'
<1> DEFINE t == run[r].tenant
           d == FailedRow(state[t], run[r].seen.wm, run[r].runAt, run[r].err)
<1> USE DEF SyncInv, Others
<1>0. t \in Tenants
  BY DEF RecordOwn, TypeOK
<1>1. /\ Others(r) /\ run'[r].pc = "idle" /\ run'[r].mode = "none"
      /\ run'[r].tenant = NoTenant /\ run'[r].seen = NoRow
      /\ run'[r].staged = Nothing /\ run'[r].runAt = 0
      /\ UNCHANGED <<clock, canvas, rows, lock>>
  BY GoesIdle DEF RecordOwn
<1>2. NoRow.wm = 0 /\ NoRow.status = "absent" /\ \A i \in Items : Nothing[i] = 0
  BY DEF NoRow, Nothing
<1>3. d.wm = state[t].wm /\ d.status = "failed"
  <2>1. state[t] = NoRow => run[r].seen = NoRow
    BY <1>0 DEF TimeInv
  <2>2. QED
    BY <2>1 DEF FailedRow
<1>4. /\ \A u \in Tenants : state'[u].wm = state[u].wm
      /\ \A u \in Tenants : u # t => state'[u] = state[u]
      /\ state'[t].status = "failed"
  <2>1. state' = [state EXCEPT ![t] = d]
    BY DEF RecordOwn
  <2> HIDE DEF d
  <2>2. QED
    BY <1>0, <1>3, <2>1 DEF TypeOK
<1> HIDE DEF t, d
<1>5. LockInv'
  BY <1>1 DEF LockInv, Holding, Key
<1>6. TimeInv'
  <2>1. clock \in Nat
    BY DEF TypeOK
  <2>2. \A u \in Tenants : /\ state'[u].wm <= clock
                           /\ state'[u].status = "absent" => state'[u] = NoRow
                           /\ state'[u] = NoRow => u # t /\ state[u] = NoRow
    BY <1>2, <1>4 DEF TimeInv
  <2>3. \A q \in Runs : /\ run'[q].runAt <= clock /\ run'[q].seen.wm <= clock
                        /\ run'[q].seen = NoRow \/ run'[q] = run[q]
    BY <1>1, <1>2, <2>1 DEF TimeInv
  <2>4. QED
    BY <1>1, <2>2, <2>3 DEF TimeInv
<1>7. PhaseInv'
  <2>1. \A q \in Runs : run[q].pc # "idle" => run[q].tenant \in Tenants
    BY DEF TypeOK
  <2>2. QED
    BY <1>1, <1>4, <2>1 DEF PhaseInv, Phase
<1>8. StagedInv'
  BY <1>1, <1>2, <1>4, SetsAssumption DEF StagedInv, NewerThanKnown
<1>9. FetchInv'
  BY <1>1 DEF FetchInv, Fetched, Pending
<1>10. KnownComplete'
  BY <1>1, <1>4, SetsAssumption DEF KnownComplete, ReachedComplete, CompleteTo
<1>11. QED
  BY <1>5, <1>6, <1>7, <1>8, <1>9, <1>10

\* While a run commits, no other run of its tenant holds anything.
LEMMA Alone ==
    ASSUME SyncInv, NEW r \in Runs, NEW q \in Runs, q # r,
           Holding(r), Holding(q)
    PROVE  run[q].tenant # run[r].tenant
  BY DEF SyncInv, LockInv, Key

LEMMA FlushEffect ==
    ASSUME NEW s \in Row, NEW c \in Row, NEW n \in Row
    PROVE  /\ \/ Flush(s, c, n).status = n.status
              \/ s # NoRow /\ Flush(s, c, n).status = c.status
           /\ Flush(s, c, n).wm = n.wm \/ Flush(s, c, n).wm = c.wm
  BY DEF Flush, Row

\* What a commit does to the database.
LEMMA CommitEffect ==
    ASSUME SyncInv, NEW r \in Runs, Commit(r), NEW t \in Tenants, t = run[r].tenant
    PROVE  /\ \A u \in Tenants : u # t => rows'[u] = rows[u] /\ state'[u] = state[u]
           /\ \A i \in Items : rows[t][i] <= rows'[t][i] /\ rows'[t][i] <= canvas[t][i]
           /\ state'[t].status # "absent"
           /\ \/ state'[t].wm = state[t].wm
              \/ /\ state'[t].wm = run[r].runAt
                 /\ run[r].draft = OkRow(run[r].runAt)
                 /\ run[r].todo = {}
           /\ \A i \in Items :
                IF run[r].staged[i] # 0 THEN rows'[t][i] = run[r].staged[i]
                                        ELSE rows'[t][i] = rows[t][i]
<1> USE DEF SyncInv
<1>1. run[r].pc = "commit"
  BY DEF Commit
<1>2. state' = [state EXCEPT ![t] = Flush(run[r].seen, state[t], run[r].draft)]
  BY DEF Commit
<1>3. rows' = [rows EXCEPT ![t] = [i \in Items |-> IF run[r].staged[i] # 0
                                                   THEN run[r].staged[i] ELSE rows[t][i]]]
  BY DEF Commit
<1>4. \A i \in Items : IF run[r].staged[i] # 0 THEN rows'[t][i] = run[r].staged[i]
                                               ELSE rows'[t][i] = rows[t][i]
  BY <1>1, <1>3 DEF TypeOK
<1>5. \A i \in Items : rows[t][i] <= rows'[t][i] /\ rows'[t][i] <= canvas[t][i]
  <2>1. \A i \in Items : rows[t][i] \in Nat /\ rows[t][i] <= canvas[t][i]
    BY <1>1 DEF TypeOK, TimeInv
  <2>2. QED
    BY <1>4, <2>1 DEF StagedInv
<1>6. \A u \in Tenants : u # t => rows'[u] = rows[u] /\ state'[u] = state[u]
  BY <1>2, <1>3 DEF TypeOK
<1> DEFINE f == Flush(run[r].seen, state[t], run[r].draft)
<1>7. state'[t] = f
  BY <1>1, <1>2 DEF TypeOK
<1>8. /\ \/ f.status = run[r].draft.status
         \/ run[r].seen # NoRow /\ f.status = state[t].status
      /\ f.wm = run[r].draft.wm \/ f.wm = state[t].wm
  <2>1. run[r].seen \in Row /\ state[t] \in Row /\ run[r].draft \in Row
    BY RunFields DEF TypeOK
  <2>2. QED
    BY <2>1, FlushEffect
<1>9. \/ run[r].todo = {} /\ run[r].draft = OkRow(run[r].runAt)
      \/ run[r].draft.status = "failed" /\ run[r].draft.wm = state[t].wm
  BY <1>1 DEF PhaseInv, Phase
<1>10. OkRow(run[r].runAt).wm = run[r].runAt /\ OkRow(run[r].runAt).status = "ok"
  BY DEF OkRow
<1>11. run[r].seen # NoRow => state[t].status # "absent"
  BY <1>1 DEF TimeInv
<1> HIDE DEF f
<1>12. state'[t].status # "absent"
  BY <1>7, <1>8, <1>9, <1>10, <1>11
<1>13. \/ state'[t].wm = state[t].wm
       \/ /\ state'[t].wm = run[r].runAt
          /\ run[r].draft = OkRow(run[r].runAt)
          /\ run[r].todo = {}
  BY <1>7, <1>8, <1>9, <1>10
<1>14. QED
  BY <1>1, <1>4, <1>5, <1>6, <1>12, <1>13

\* A commit publishes rows and watermark together.
LEMMA CommitPreserves ==
    ASSUME SyncInv, TypeOK', NEW r \in Runs, Commit(r)
    PROVE  SyncInv'
<1>t. PICK t \in Tenants : t = run[r].tenant
  BY DEF Commit, SyncInv, TypeOK
<1> USE DEF SyncInv, Others
<1>1. /\ Others(r) /\ run'[r].pc = "idle" /\ run'[r].mode = "none"
      /\ run'[r].tenant = NoTenant /\ run'[r].seen = NoRow
      /\ run'[r].staged = Nothing /\ run'[r].runAt = 0
      /\ UNCHANGED <<clock, canvas>>
  BY GoesIdle DEF Commit
<1>2. NoRow.wm = 0 /\ NoRow.status = "absent" /\ \A i \in Items : Nothing[i] = 0
  BY DEF NoRow, Nothing
<1>3. Holding(r) /\ run[r].pc = "commit"
  BY DEF Commit, Holding
<1>4. \A q \in Runs : q # r /\ run[q].tenant = t => ~Holding(q)
  BY <1>t, <1>3, Alone
<1>5. \A q \in Runs : run[q].pc \in {"fetch", "commit"} => Holding(q)
  BY DEF Holding
<1>6. /\ \A u \in Tenants : u # t => rows'[u] = rows[u] /\ state'[u] = state[u]
      /\ \A i \in Items : rows[t][i] <= rows'[t][i] /\ rows'[t][i] <= canvas[t][i]
      /\ state'[t].status # "absent"
      /\ \/ state'[t].wm = state[t].wm
         \/ /\ state'[t].wm = run[r].runAt
            /\ run[r].draft = OkRow(run[r].runAt)
            /\ run[r].todo = {}
      /\ \A i \in Items :
           IF run[r].staged[i] # 0 THEN rows'[t][i] = run[r].staged[i]
                                   ELSE rows'[t][i] = rows[t][i]
  BY <1>t, CommitEffect
<1>7. clock \in Nat
  BY DEF TypeOK
<1>8. LockInv'
  <2>1. \A k \in LockKeys : lock[k] # r => lock'[k] = lock[k]
    BY DEF Commit, EndTransaction
  <2>2. ASSUME NEW q \in Runs, Holding(q)' PROVE lock'[Key(q)'] = q
    <3>1. q # r /\ Holding(q) /\ Key(q)' = Key(q)
      BY <1>1, <2>2 DEF Holding, Key
    <3>2. lock[Key(q)] = q /\ Key(q) \in LockKeys
      BY <3>1, SetsAssumption DEF LockInv, Holding, Key, TypeOK, PhaseInv, Phase
    <3>3. QED
      BY <2>1, <3>1, <3>2
  <2>3. QED
    BY <2>2 DEF LockInv
<1>9. TimeInv'
  <2>1. state'[t].wm <= clock
    BY <1>6 DEF TimeInv
  <2>2. \A u \in Tenants, i \in Items : rows'[u][i] <= canvas[u][i]
    BY <1>6 DEF TimeInv
  <2>3. \A u \in Tenants : /\ state'[u].wm <= clock
                           /\ state'[u].status = "absent" => state'[u] = NoRow
                           /\ state'[u] = NoRow => \A q \in Runs : run[q].tenant = u => run[q].seen = NoRow
    BY <1>2, <1>6, <2>1 DEF TimeInv
  <2>4. \A q \in Runs : run'[q].runAt <= clock /\ run'[q].seen.wm <= clock
    BY <1>1, <1>2, <1>7 DEF TimeInv
  <2>5. QED
    BY <1>1, <2>2, <2>3, <2>4, SetsAssumption DEF TimeInv
<1>10. PhaseInv'
  <2>1. ASSUME NEW q \in Runs, run[q].pc = "commit", q # r
        PROVE  state'[run[q].tenant] = state[run[q].tenant]
    <3>1. run[q].tenant # t /\ run[q].tenant \in Tenants
      BY <1>4, <1>5, <2>1 DEF TypeOK
    <3>2. QED
      BY <1>6, <3>1
  <2>2. QED
    BY <1>1, <2>1 DEF PhaseInv, Phase
<1>11. StagedInv'
  <2> SUFFICES ASSUME NEW q \in Runs, NEW i \in Items, run'[q].staged[i] # 0
               PROVE  /\ run'[q].tenant \in Tenants
                      /\ rows'[run'[q].tenant][i] <= run'[q].staged[i]
                      /\ run'[q].staged[i] <= canvas'[run'[q].tenant][i]
                      /\ \/ run'[q].staged[i] = canvas'[run'[q].tenant][i]
                         \/ /\ canvas'[run'[q].tenant][i] > run'[q].runAt
                            /\ NewerThanKnown(run[q].tenant, i)'
    BY <1>1, <1>2 DEF StagedInv
  <2>1. q # r /\ run'[q] = run[q]
    BY <1>1, <1>2
  <2>2. run[q].pc \in {"fetch", "commit"}
    BY <1>2, <2>1 DEF PhaseInv, Phase
  <2>3. run[q].tenant # t /\ run[q].tenant \in Tenants
    BY <1>4, <1>5, <2>1, <2>2 DEF TypeOK
  <2>4. ASSUME NewerThanKnown(run[q].tenant, i) PROVE NewerThanKnown(run[q].tenant, i)'
    <3>1. state'[run[q].tenant].wm = state[run[q].tenant].wm
      BY <1>6, <2>3
    <3>2. \A p \in Runs : run'[p].tenant = run[q].tenant => run'[p] = run[p]
      BY <1>1, <2>3, SetsAssumption
    <3>3. QED
      BY <1>1, <2>1, <2>4, <3>1, <3>2 DEF NewerThanKnown
  <2>5. QED
    BY <1>1, <1>6, <2>1, <2>3, <2>4 DEF StagedInv
<1>12. FetchInv'
  <2>1. ASSUME NEW q \in Runs, run'[q].pc \in {"fetch", "commit"} PROVE Fetched(q)'
    <3>1. q # r /\ run'[q] = run[q] /\ Fetched(q)
      BY <1>1, <2>1 DEF FetchInv
    <3>2. run[q].tenant # t /\ run[q].tenant \in Tenants
      BY <1>4, <1>5, <2>1, <3>1 DEF TypeOK
    <3>3. QED
      BY ReachedItems, <1>1, <1>6, <3>1, <3>2 DEF Fetched, Pending
  <2>2. QED
    BY <2>1 DEF FetchInv, Fetched
<1>13. KnownComplete'
  <2>1. ASSUME NEW w, CompleteTo(t, w),
               \A i \in Items : NewerThanKnown(t, i) => ~(canvas[t][i] <= w)
        PROVE  CompleteTo(t, w)'
    <3> SUFFICES ASSUME NEW i \in Items, i \in Reached, canvas[t][i] <= w
                 PROVE  rows'[t][i] = canvas[t][i]
      BY ReachedItems, <1>1 DEF CompleteTo
    <3>1. rows[t][i] = canvas[t][i]
      BY <2>1 DEF CompleteTo
    <3>2. run[r].staged[i] # 0 => run[r].staged[i] = canvas[t][i]
      BY <1>t, <2>1 DEF StagedInv
    <3>3. QED
      BY <1>6, <3>1, <3>2
  <2>2. ASSUME run[r].draft = OkRow(run[r].runAt), run[r].todo = {},
               NEW w, w = run[r].runAt
        PROVE  CompleteTo(t, w)'
    <3>1. OkRow(run[r].runAt).status = "ok" /\ Pending(r) = {}
      BY <2>2 DEF OkRow, Pending
    <3>2. Fetched(r)
      BY DEF FetchInv
    <3>3. \A i \in Items : canvas[t][i] \in Nat
      BY <1>6 DEF TypeOK
    <3>4. run[r].runAt \in Nat
      BY RunFields DEF TypeOK
    <3>5. ASSUME NEW i \in Items, i \in Reached, canvas[t][i] <= run[r].runAt PROVE rows'[t][i] = canvas[t][i]
      <4>1. CASE run[r].staged[i] = 0
        BY <1>t, <1>3, <1>6, <2>2, <3>1, <3>2, <3>5, <4>1 DEF Fetched
      <4>2. CASE run[r].staged[i] # 0
        BY <1>t, <1>6, <3>3, <3>4, <3>5, <4>2 DEF StagedInv
      <4>3. QED
        BY <4>1, <4>2
    <3>6. QED
      BY ReachedItems, <1>1, <2>2, <3>5 DEF CompleteTo
  <2>3. CompleteTo(t, state[t].wm)'
    <3>1. CompleteTo(t, state[t].wm)
      BY DEF KnownComplete, ReachedComplete
    <3>2. \A i \in Items : NewerThanKnown(t, i) => ~(canvas[t][i] <= state[t].wm)
      BY <1>6 DEF NewerThanKnown, TypeOK, Row
    <3>w. ASSUME NEW w, w = state[t].wm PROVE CompleteTo(t, w)'
      BY <2>1, <3>1, <3>2, <3>w
    <3>3. CASE state'[t].wm = state[t].wm
      BY <3>w, <3>3 DEF CompleteTo
    <3>4. CASE state'[t].wm # state[t].wm
      BY <1>6, <2>2, <3>4 DEF CompleteTo
    <3>5. QED
      BY <3>3, <3>4
  <2>4. \A u \in Tenants : CompleteTo(u, state[u].wm)'
    BY ReachedItems, <1>1, <1>6, <2>3 DEF KnownComplete, ReachedComplete, CompleteTo
  <2>5. ASSUME NEW q \in Runs, run'[q].tenant \in Tenants
        PROVE  CompleteTo(run[q].tenant, run[q].seen.wm)'
    <3>1. q # r /\ run'[q] = run[q]
      BY <1>1, <2>5, SetsAssumption
    <3>2. CompleteTo(run[q].tenant, run[q].seen.wm)
      BY <2>5, <3>1 DEF KnownComplete
    <3>3. CASE run[q].tenant # t
      BY ReachedItems, <1>1, <1>6, <2>5, <3>1, <3>2, <3>3 DEF CompleteTo
    <3>4. CASE run[q].tenant = t
      <4>1. \A i \in Items : NewerThanKnown(t, i) => ~(canvas[t][i] <= run[q].seen.wm)
        BY <1>6, <3>4 DEF NewerThanKnown, TypeOK, Row, Run
      <4>w. ASSUME NEW w, w = run[q].seen.wm PROVE CompleteTo(t, w)'
        BY <2>1, <3>2, <3>4, <4>1, <4>w
      <4>2. QED
        BY <3>1, <3>4, <4>w DEF CompleteTo
    <3>5. QED
      BY <3>3, <3>4
  <2>6. QED
    BY <1>1, <2>4, <2>5, SetsAssumption DEF KnownComplete, ReachedComplete, CompleteTo
<1>14. QED
  BY <1>8, <1>9, <1>10, <1>11, <1>12, <1>13

LEMMA InvNext == SyncInv /\ [Next]_vars => SyncInv'
<1> SUFFICES ASSUME SyncInv, [Next]_vars PROVE SyncInv'
  OBVIOUS
<1>1. TypeOK'
  BY TypeNext DEF SyncInv
<1>2. ASSUME NEW t \in Tenants, NEW i \in Items, Edit(t, i) PROVE SyncInv'
  BY <1>1, <1>2, EditPreserves
<1>3. ASSUME NEW r \in Runs, NEW t \in Tenants, NEW m \in Modes, Start(r, t, m)
      PROVE  SyncInv'
  BY <1>1, <1>3, StepsPreserve
<1>4. ASSUME NEW r \in Runs, Progress(r) PROVE SyncInv'
  <2>1. CASE \/ Acquire(r) \/ Enter(r) \/ ReadState(r)
             \/ \E i \in Items : Fetch(r, i)
             \/ AdvanceWatermark(r)
             \/ \E e \in Errors : Fail(r, e)
             \/ RecordHeld(r)
    BY <1>1, <2>1, StepsPreserve
  <2>2. CASE Busy(r)
    BY <1>1, <2>2, DiscardPreserves DEF Busy
  <2>3. CASE RecordLost(r)
    BY <1>1, <2>3, DiscardPreserves DEF RecordLost, EndTransaction
  <2>4. CASE CommitFails(r)
    <3>1. CASE run[r].mode = "ownLock"
      BY <1>1, <2>4, <3>1, StepsPreserve
    <3>2. CASE run[r].mode # "ownLock"
      BY <1>1, <2>4, <3>2, DiscardPreserves DEF CommitFails, EndTransaction
    <3>3. QED
      BY <3>1, <3>2
  <2>5. CASE RecordOwn(r)
    BY <1>1, <2>5, RecordOwnPreserves
  <2>6. CASE Commit(r)
    BY <1>1, <2>6, CommitPreserves
  <2>7. QED
    BY <1>4, <2>1, <2>2, <2>3, <2>4, <2>5, <2>6 DEF Progress
<1>5. ASSUME NEW r \in Runs, Crash(r) PROVE SyncInv'
  BY <1>1, <1>5, DiscardPreserves DEF Crash, EndTransaction
<1>6. CASE UNCHANGED vars
  BY <1>1, <1>6 DEF vars, SyncInv, LockInv, Holding, Key, TimeInv, PhaseInv, Phase,
                    StagedInv, NewerThanKnown, FetchInv, Fetched, Pending,
                    KnownComplete, ReachedComplete, CompleteTo
<1>7. QED
  BY <1>2, <1>3, <1>4, <1>5, <1>6 DEF Next

\* The inductive invariant holds in every reachable state.
THEOREM Invariant == Spec => []SyncInv
  BY InvInit, InvNext, PTL DEF Spec

-----------------------------------------------------------------------------
(* The theorems.                                                           *)

\* The advisory lock serialises the runs of a tenant, whichever way
\* sync_tenant is called and however many runs, failures and crashes there
\* are.
THEOREM RunsDoNotOverlap == Spec => []NoOverlap
<1>1. SyncInv => NoOverlap
  BY Alone DEF NoOverlap
<1>2. QED
  BY <1>1, Invariant, PTL

\* The stored watermark is never ahead of the committed rows that every run
\* asks for, in both ways of calling sync_tenant and whichever listings Canvas
\* filters: nothing that the filter of such a listing excludes is missing.
THEOREM WatermarkIsComplete == Spec => []ReachedComplete
<1>1. SyncInv => ReachedComplete
  BY DEF SyncInv, KnownComplete
<1>2. QED
  BY <1>1, Invariant, PTL

\* No commit of any run replaces a row by an older version of the record.
THEOREM RowsNeverRegress == Spec => RowsOnlyAdvance
<1>1. ASSUME SyncInv, [Next]_vars
      PROVE  \A t \in Tenants, i \in Items : rows[t][i] <= rows'[t][i]
  <2>1. \A t \in Tenants, i \in Items : rows[t][i] \in Nat
    BY <1>1 DEF SyncInv, TypeOK
  <2>2. ASSUME NEW r \in Runs, Commit(r)
        PROVE  \A t \in Tenants, i \in Items : rows[t][i] <= rows'[t][i]
    <3>1. run[r].tenant \in Tenants
      BY <1>1, <2>2 DEF SyncInv, TypeOK, Commit
    <3>2. QED
      BY <1>1, <2>1, <2>2, <3>1, CommitEffect
  <2>3. CASE UNCHANGED rows
    BY <2>1, <2>3
  <2>4. UNCHANGED rows \/ \E r \in Runs : Commit(r)
    BY <1>1 DEF Next, vars, Edit, Start, Progress, Acquire, Busy, Enter, ReadState,
                Fetch, AdvanceWatermark, Fail, RecordHeld, RecordOwn, RecordLost,
                CommitFails, Crash
  <2>5. QED
    BY <2>2, <2>3, <2>4
<1>2. QED
  BY <1>1, Invariant, PTL DEF Spec, RowsOnlyAdvance
-----------------------------------------------------------------------------
(* The ends of runs.                                                       *)

\* A step of r that leaves all locks alone keeps LocksAreHeld if r still works,
\* or did not hold a lock, under the same key.
LEMMA HeldLocal ==
    ASSUME LocksAreHeld, NEW r \in Runs, Others(r), lock' = lock,
           Holding(r) => Holding(r)' /\ run'[r].tenant = run[r].tenant
    PROVE  LocksAreHeld'
<1>1. SUFFICES ASSUME NEW k \in LockKeys, NEW q \in Runs, lock[k] = q
               PROVE  Holding(q)' /\ Key(q)' = k
  BY DEF LocksAreHeld
<1>2. Holding(q) /\ Key(q) = k
  BY <1>1 DEF LocksAreHeld
<1>3. CASE q = r
  BY <1>2, <1>3 DEF Key
<1>4. CASE q # r
  BY <1>2, <1>4 DEF Key, Holding, Others
<1>. QED
  BY <1>3, <1>4

\* A run whose transaction ends leaves no lock.
LEMMA HeldReleased ==
    ASSUME LocksAreHeld, NEW r \in Runs, Others(r), EndTransaction(r)
    PROVE  LocksAreHeld'
<1>1. SUFFICES ASSUME NEW k \in LockKeys, NEW q \in Runs, lock'[k] = q
               PROVE  Holding(q)' /\ Key(q)' = k
  BY DEF LocksAreHeld
<1>2. lock'[k] = IF lock[k] = r THEN NoRun ELSE lock[k]
  BY DEF EndTransaction
<1>3. q # r /\ lock[k] = q
  BY <1>1, <1>2, SetsAssumption
<1>. QED
  BY <1>3 DEF LocksAreHeld, Key, Holding, Others

\* Every step keeps LocksAreHeld.
LEMMA HeldNext == SyncInv /\ LocksAreHeld /\ [Next]_vars => LocksAreHeld'
<1> SUFFICES ASSUME SyncInv, LocksAreHeld, [Next]_vars PROVE LocksAreHeld'
  OBVIOUS
<1>0. TypeOK
  BY DEF SyncInv
<1>1. ASSUME UNCHANGED <<lock, run>> PROVE LocksAreHeld'
  BY <1>1 DEF LocksAreHeld, Holding, Key
<1>2. ASSUME NEW t \in Tenants, NEW i \in Items, Edit(t, i) PROVE LocksAreHeld'
  BY <1>1, <1>2 DEF Edit
<1>3. ASSUME NEW r \in Runs, NEW t \in Tenants, NEW m \in Modes, Start(r, t, m)
      PROVE  LocksAreHeld'
  <2>1. ~Holding(r) /\ lock' = lock
    BY <1>3 DEF Start, Holding
  <2>. QED
    BY <1>0, <1>3, <2>1, StartEffect, HeldLocal
<1>4. ASSUME NEW r \in Runs, Acquire(r) PROVE LocksAreHeld'
  <2>0. run[r].mode = "ownLock" \/ run[r].mode = "callerLock"
    BY <1>4, ChoicesAssumption DEF SyncInv, PhaseInv, Phase, Acquire
  <2>1. Others(r) /\ run'[r].tenant = run[r].tenant /\ Holding(r)'
    BY <1>0, <1>4, <2>0, AcquireEffect DEF Holding
  <2>2. run[r].tenant \in Tenants /\ Key(r) \in LockKeys
    BY <1>0, <1>4, SetsAssumption DEF TypeOK, Acquire, Key
  <2>3. \A k \in LockKeys : lock'[k] = IF k = Key(r) THEN r ELSE lock[k]
    BY <1>0, <1>4 DEF Acquire, TypeOK
  <2>4. ~Holding(r)
    BY <1>4 DEF Acquire, Holding
  <2>5. SUFFICES ASSUME NEW k \in LockKeys, NEW q \in Runs, lock'[k] = q
                 PROVE  Holding(q)' /\ Key(q)' = k
    BY DEF LocksAreHeld
  <2>6. CASE q = r
    <3>1. k = Key(r)
      BY <2>3, <2>4, <2>5, <2>6 DEF LocksAreHeld
    <3>. QED
      BY <2>1, <2>6, <3>1 DEF Key
  <2>7. CASE q # r
    <3>1. lock[k] = q
      BY <2>3, <2>5, <2>7
    <3>. QED
      BY <2>1, <2>7, <3>1 DEF LocksAreHeld, Key, Holding, Others
  <2>. QED
    BY <2>6, <2>7
<1>5. ASSUME NEW r \in Runs, Busy(r) PROVE LocksAreHeld'
  <2>1. ~Holding(r) /\ lock' = lock /\ run' = [run EXCEPT ![r] = Idle]
    BY <1>5 DEF Busy, Holding
  <2>. QED
    BY <1>0, <2>1, GoesIdle, HeldLocal
<1>6. ASSUME NEW r \in Runs, Enter(r) PROVE LocksAreHeld'
  <2>1. lock' = lock
    BY <1>6 DEF Enter
  <2>2. Holding(r) => Holding(r)'
    BY <1>0, <1>6, EnterEffect DEF Enter, Holding
  <2>. QED
    BY <1>0, <1>6, <2>1, <2>2, EnterEffect, HeldLocal
<1>7. ASSUME NEW r \in Runs, ReadState(r) PROVE LocksAreHeld'
  <2>1. lock' = lock
    BY <1>7 DEF ReadState
  <2>2. Holding(r) => Holding(r)'
    BY <1>0, <1>7, ReadStateEffect DEF ReadState, Holding
  <2>. QED
    BY <1>0, <1>7, <2>1, <2>2, ReadStateEffect, HeldLocal
<1>8. ASSUME NEW r \in Runs, NEW i \in Items, Fetch(r, i) PROVE LocksAreHeld'
  <2>1. lock' = lock
    BY <1>8 DEF Fetch
  <2>2. Holding(r)'
    BY <1>0, <1>8, FetchEffect DEF Holding
  <2>. QED
    BY <1>0, <1>8, <2>1, <2>2, FetchEffect, HeldLocal
<1>9. ASSUME NEW r \in Runs, AdvanceWatermark(r) PROVE LocksAreHeld'
  <2>1. lock' = lock
    BY <1>9 DEF AdvanceWatermark
  <2>2. Holding(r)'
    BY <1>0, <1>9, AdvanceEffect DEF Holding
  <2>. QED
    BY <1>0, <1>9, <2>1, <2>2, AdvanceEffect, HeldLocal
<1>10. ASSUME NEW r \in Runs, NEW e \in Errors, Fail(r, e) PROVE LocksAreHeld'
  <2>1. CASE run[r].mode = "ownLock"
    <3>1. EndTransaction(r)
      BY <1>10, <2>1 DEF Fail
    <3>. QED
      BY <1>0, <1>10, <3>1, FailEffect, HeldReleased
  <2>2. CASE run[r].mode # "ownLock"
    <3>1. lock' = lock
      BY <1>10, <2>2 DEF Fail
    <3>2. run[r].mode = "callerLock"
      BY <1>10, <2>2, ChoicesAssumption DEF Fail, SyncInv, PhaseInv, Phase
    <3>3. Holding(r)'
      BY <1>0, <1>10, <3>2, FailEffect DEF Holding
    <3>. QED
      BY <1>0, <1>10, <3>1, <3>3, FailEffect, HeldLocal
  <2>. QED
    BY <2>1, <2>2
<1>11. ASSUME NEW r \in Runs, RecordHeld(r) PROVE LocksAreHeld'
  <2>1. lock' = lock
    BY <1>11 DEF RecordHeld
  <2>2. Holding(r)'
    BY <1>0, <1>11, RecordHeldEffect DEF Holding
  <2>. QED
    BY <1>0, <1>11, <2>1, <2>2, RecordHeldEffect, HeldLocal
<1>12. ASSUME NEW r \in Runs, RecordOwn(r) PROVE LocksAreHeld'
  <2>1. ~Holding(r) /\ lock' = lock /\ run' = [run EXCEPT ![r] = Idle]
    BY <1>12 DEF RecordOwn, Holding
  <2>. QED
    BY <1>0, <2>1, GoesIdle, HeldLocal
<1>13. ASSUME NEW r \in Runs, RecordLost(r) \/ Commit(r) \/ Crash(r) PROVE LocksAreHeld'
  <2>1. EndTransaction(r) /\ run' = [run EXCEPT ![r] = Idle]
    BY <1>13 DEF RecordLost, Commit, Crash
  <2>. QED
    BY <1>0, <2>1, GoesIdle, HeldReleased
<1>14. ASSUME NEW r \in Runs, CommitFails(r) PROVE LocksAreHeld'
  <2>1. EndTransaction(r)
    BY <1>14 DEF CommitFails
  <2>2. CASE run[r].mode = "ownLock"
    BY <1>0, <1>14, <2>1, <2>2, CommitFailsEffect, HeldReleased
  <2>3. CASE run[r].mode # "ownLock"
    <3>1. run' = [run EXCEPT ![r] = Idle]
      BY <1>14, <2>3 DEF CommitFails
    <3>. QED
      BY <1>0, <2>1, <3>1, GoesIdle, HeldReleased
  <2>. QED
    BY <2>2, <2>3
<1>. QED
  BY <1>1, <1>2, <1>3, <1>4, <1>5, <1>6, <1>7, <1>8, <1>9, <1>10, <1>11, <1>12, <1>13, <1>14
     DEF Next, Progress, vars

\* No run leaves a lock behind, in either mode, whether it succeeds, fails, cannot
\* commit or dies.
THEOREM NoLockIsLeftBehind == Spec => []LocksAreHeld
<1>1. Init => LocksAreHeld
  BY SetsAssumption DEF Init, LocksAreHeld
<1>. QED
  BY <1>1, HeldNext, Invariant, PTL DEF Spec

\* Fetching a record takes it off what the run has still to fetch.
LEMMA FetchShrinks ==
    ASSUME TypeOK, NEW r \in Runs, NEW i \in Items, Fetch(r, i)
    PROVE  Pending(r)' \subseteq Pending(r) /\ Pending(r)' # Pending(r)
<1>1. i \in run[r].todo /\ run[r].todo \subseteq Items
  BY DEF Fetch, TypeOK, Run
<1>2. i \in Pending(r)
  BY <1>1 DEF Pending
<1>3. i \in Courses => \A a \in Assignments : a # i
  BY SetsAssumption
<1>4. i \in Assignments => run[r].todo \cap Courses = {}
  BY DEF Fetch
<1>5. \A a \in Assignments : CourseOf[a] \in Courses
  BY SetsAssumption
<1>6. PICK todo : /\ todo = run'[r].todo
                  /\ i \in Courses =>
                       todo \subseteq (run[r].todo \ {i})
                                         \cup {a \in Assignments : CourseOf[a] = i}
                  /\ i \in Assignments => todo = run[r].todo \ {i}
  <2>1. i \in Assignments => \A a \in Assignments : CourseOf[a] # i
    BY <1>5, SetsAssumption
  <2>2. \/ run'[r].todo = run[r].todo \ {i}
        \/ run'[r].todo = (run[r].todo \ {i}) \cup {a \in Assignments : CourseOf[a] = i}
    BY FetchEffect
  <2>3. {a \in Assignments : CourseOf[a] = i} = {} \/ i \notin Assignments
    BY <2>1
  <2>. QED
    BY <2>2, <2>3
<1>7. i \in Courses \/ i \in Assignments
  BY DEF Items
<1>8. /\ i \notin todo
      /\ i \in Assignments => CourseOf[i] \notin todo
      /\ \A a \in Assignments : CourseOf[a] \in todo => CourseOf[a] \in run[r].todo
  <2>1. CASE i \in Courses
    <3>1. i \notin Assignments
      BY <1>3, <2>1
    <3>2. i \notin todo
      BY <1>6, <2>1, <3>1
    <3>3. \A a \in Assignments : CourseOf[a] \in todo => CourseOf[a] \in run[r].todo
      BY <1>5, <1>6, <2>1, SetsAssumption
    <3>. QED
      BY <3>1, <3>2, <3>3
  <2>2. CASE i \in Assignments
    <3>1. todo = run[r].todo \ {i}
      BY <1>6, <2>2
    <3>2. CourseOf[i] \notin todo
      BY <1>4, <1>5, <2>2, <3>1
    <3>. QED
      BY <3>1, <3>2
  <2>. QED
    BY <1>7, <2>1, <2>2
<1>9. Pending(r)' = run'[r].todo \cup {a \in Assignments : CourseOf[a] \in run'[r].todo}
  BY DEF Pending
<1>10. i \notin Pending(r)'
  BY <1>6, <1>8, <1>9
<1>11. ASSUME NEW j \in todo PROVE j \in Pending(r)
  <2>1. j \in run[r].todo \/ (j \in Assignments /\ i \in run[r].todo /\ CourseOf[j] = i)
    BY <1>1, <1>6, <1>7
  <2>. QED
    BY <2>1 DEF Pending
<1>12. ASSUME NEW j \in Assignments, CourseOf[j] \in todo PROVE j \in Pending(r)
  BY <1>8, <1>12 DEF Pending
<1>13. Pending(r)' \subseteq Pending(r)
  BY <1>6, <1>9, <1>11, <1>12
<1>. QED
  BY <1>2, <1>10, <1>13

\* The stages come in the order of the steps, in each mode.
LEMMA StagesFollow ==
    ASSUME NEW x, NEW y, y.mode = x.mode,
           \/ x.mode = "ownLock" /\ <<x.pc, y.pc>> \in
                {<<"enter", "read">>, <<"read", "acquire">>, <<"acquire", "fetch">>,
                 <<"fetch", "commit">>, <<"read", "record">>, <<"acquire", "record">>,
                 <<"fetch", "record">>, <<"commit", "record">>}
           \/ x.mode # "ownLock" /\ <<x.pc, y.pc>> \in
                {<<"acquire", "enter">>, <<"enter", "read">>, <<"read", "fetch">>,
                 <<"fetch", "commit">>, <<"read", "record">>, <<"fetch", "record">>,
                 <<"record", "commit">>}
    PROVE  Stage(y) > Stage(x)
  BY DEF Stage

\* Every step of a run brings it nearer to its end: with the fairness of FairSpec
\* this is why runs end.
THEOREM RunsOnlyAdvance == Spec => RunsAdvance
<1> DEFINE Advances(r) ==
      run[r].pc # "idle" /\ run'[r] # run[r] =>
        \/ run'[r].pc = "idle"
        \/ Stage(run'[r]) > Stage(run[r])
        \/ /\ run[r].pc = "fetch" /\ run'[r].pc = "fetch"
           /\ Pending(r)' \subseteq Pending(r) /\ Pending(r)' # Pending(r)
<1>1. ASSUME SyncInv, Next, NEW r \in Runs PROVE Advances(r)
  <2>0. SUFFICES ASSUME run[r].pc # "idle", run'[r] # run[r], run'[r].pc # "idle"
                 PROVE  \/ Stage(run'[r]) > Stage(run[r])
                        \/ /\ run[r].pc = "fetch" /\ run'[r].pc = "fetch"
                           /\ Pending(r)' \subseteq Pending(r) /\ Pending(r)' # Pending(r)
    OBVIOUS
  <2>1. TypeOK
    BY <1>1 DEF SyncInv
  <2>2. CASE Acquire(r)
    <3>1. /\ run'[r].mode = run[r].mode
          /\ <<run[r].pc, run'[r].pc>> = <<"acquire", IF run[r].mode = "ownLock" THEN "fetch" ELSE "enter">>
      BY <2>1, <2>2, AcquireEffect DEF Acquire
    <3>. QED
      BY <3>1, StagesFollow
  <2>3. CASE Enter(r)
    <3>1. /\ run'[r].mode = run[r].mode
          /\ run[r].pc = "enter" /\ run'[r].pc = "read"
      BY <2>1, <2>3, EnterEffect DEF Enter
    <3>. QED
      BY <3>1, StagesFollow
  <2>4. CASE ReadState(r)
    <3>1. /\ run'[r].mode = run[r].mode
          /\ <<run[r].pc, run'[r].pc>> = <<"read", IF run[r].mode = "ownLock" THEN "acquire" ELSE "fetch">>
      BY <2>1, <2>4, ReadStateEffect DEF ReadState
    <3>. QED
      BY <3>1, StagesFollow
  <2>5. CASE \E i \in Items : Fetch(r, i)
    BY <2>1, <2>5, FetchShrinks, FetchEffect DEF Fetch
  <2>6. CASE AdvanceWatermark(r)
    <3>1. /\ run'[r].mode = run[r].mode
          /\ run[r].pc = "fetch" /\ run'[r].pc = "commit"
      BY <2>1, <2>6, AdvanceEffect DEF AdvanceWatermark
    <3>. QED
      BY <3>1, StagesFollow
  <2>7. CASE \E e \in Errors : Fail(r, e)
    <3>1. /\ run'[r].mode = run[r].mode
          /\ run'[r].pc = "record"
          /\ \/ run[r].pc \in {"read", "fetch"}
             \/ run[r].pc = "acquire" /\ run[r].mode = "ownLock"
      <4>1. PICK e \in Errors : Fail(r, e)
        BY <2>7
      <4>. QED
        BY <2>1, <4>1, FailEffect DEF Fail
    <3>. QED
      BY <3>1, StagesFollow
  <2>8. CASE RecordHeld(r)
    <3>1. /\ run'[r].mode = run[r].mode
          /\ run[r].pc = "record" /\ run'[r].pc = "commit" /\ run[r].mode # "ownLock"
      BY <2>1, <2>8, RecordHeldEffect DEF RecordHeld
    <3>. QED
      BY <3>1, StagesFollow
  <2>9. CASE CommitFails(r)
    <3>1. CASE run[r].mode = "ownLock"
      <4>1. run[r].pc = "commit" /\ run'[r].pc = "record" /\ run'[r].mode = run[r].mode
        BY <2>1, <2>9, <3>1, CommitFailsEffect DEF CommitFails
      <4>. QED
        BY <3>1, <4>1, StagesFollow
    <3>2. CASE run[r].mode # "ownLock"
      <4>1. run' = [run EXCEPT ![r] = Idle]
        BY <2>9, <3>2 DEF CommitFails
      <4>. QED
        BY <2>0, <2>1, <4>1, GoesIdle
    <3>. QED
      BY <3>1, <3>2
  <2>10. CASE Busy(r) \/ RecordOwn(r) \/ RecordLost(r) \/ Commit(r) \/ Crash(r)
    <3>1. run' = [run EXCEPT ![r] = Idle]
      BY <2>10 DEF Busy, RecordOwn, RecordLost, Commit, Crash
    <3>. QED
      BY <2>0, <2>1, <3>1, GoesIdle
  <2>11. ASSUME NEW q \in Runs, q # r,
                Progress(q) \/ Crash(q) \/ \E t \in Tenants, m \in Modes : Start(q, t, m)
         PROVE  FALSE
    BY <2>0, <2>1, <2>11 DEF TypeOK, Progress, Crash, Start, Acquire, Busy, Enter, ReadState, Fetch,
       AdvanceWatermark, Fail, RecordHeld, RecordOwn, RecordLost, Commit, CommitFails
  <2>12. ~\E t \in Tenants, m \in Modes : Start(r, t, m)
    BY <2>0 DEF Start
  <2>13. ~\E t \in Tenants, i \in Items : Edit(t, i)
    BY <2>0 DEF Edit
  <2>. QED
    BY <1>1, <2>2, <2>3, <2>4, <2>5, <2>6, <2>7, <2>8, <2>9, <2>10, <2>11, <2>12, <2>13
       DEF Next, Progress
<1>2. SyncInv /\ [Next]_vars => [\A r \in Runs : Advances(r)]_vars
  BY <1>1
<1>. QED
  BY <1>2, Invariant, PTL DEF Spec, RunsAdvance
-----------------------------------------------------------------------------
(* Convergence, step by step.                                              *)

\* A successful run that began after the last change brings the rows that every
\* run asks for level with Canvas: what it staged is current (StagedInv) and what
\* it left out was current already (FetchInv).
LEMMA SuccessIsCurrent ==
    ASSUME SyncInv, NEW r \in Runs, Commit(r),
           NEW t \in Tenants, t = run[r].tenant, run[r].draft.status = "ok",
           \A i \in Reached : canvas[t][i] <= run[r].runAt
    PROVE  \A i \in Reached : rows'[t][i] = canvas[t][i]
<1> USE DEF SyncInv
<1>1. run[r].pc = "commit"
  BY DEF Commit
<1>2. run[r].todo = {}
  BY <1>1 DEF PhaseInv, Phase
<1>3. Fetched(r) /\ Pending(r) = {}
  BY <1>2 DEF FetchInv, Pending
<1>4. TAKE i \in Reached
<1>i. i \in Items
  BY ReachedItems
<1>5. canvas[t][i] \in Nat /\ canvas[t][i] <= run[r].runAt /\ run[r].runAt \in Nat
  BY <1>i, RunFields DEF TypeOK
<1>6. CASE run[r].staged[i] # 0
  <2>1. run[r].staged[i] = canvas[t][i]
    BY <1>i, <1>5, <1>6 DEF StagedInv
  <2>. QED
    BY <1>i, <1>6, <2>1, CommitEffect
<1>7. CASE run[r].staged[i] = 0
  <2>1. rows[t][i] = canvas[t][i]
    BY <1>1, <1>3, <1>5, <1>7 DEF Fetched
  <2>. QED
    BY <1>i, <1>7, <2>1, CommitEffect
<1>. QED
  BY <1>6, <1>7

\* Only commits touch the rows, and none takes a row beyond Canvas or back.
LEMMA RowStaysCurrent ==
    ASSUME SyncInv, Next, NEW t \in Tenants, NEW i \in Items, rows[t][i] = canvas[t][i]
    PROVE  rows'[t][i] = canvas[t][i]
<1>1. TypeOK
  BY DEF SyncInv
<1>2. ASSUME NEW r \in Runs, Commit(r) PROVE rows'[t][i] = canvas[t][i]
  <2>1. PICK u \in Tenants : u = run[r].tenant
    BY <1>1, <1>2 DEF Commit, TypeOK
  <2>2. CASE u = t
    <3>1. rows[t][i] <= rows'[t][i] /\ rows'[t][i] <= canvas[t][i]
      BY <1>2, <2>1, <2>2, CommitEffect
    <3>2. rows'[t][i] = IF run[r].staged[i] # 0 THEN run[r].staged[i] ELSE rows[t][i]
      BY <1>1, <1>2, <2>1, <2>2 DEF Commit, TypeOK
    <3>3. canvas[t][i] \in Nat /\ run[r].staged[i] \in Nat
      BY <1>1, RunFields DEF TypeOK
    <3>. QED
      BY <3>1, <3>2, <3>3
  <2>3. CASE u # t
    BY <1>2, <2>1, <2>3, CommitEffect
  <2>. QED
    BY <2>2, <2>3
<1>3. CASE UNCHANGED rows
  BY <1>3
<1>4. UNCHANGED rows \/ \E r \in Runs : Commit(r)
  BY DEF Next, Edit, Start, Progress, Acquire, Busy, Enter, ReadState, Fetch,
         AdvanceWatermark, Fail, RecordHeld, RecordOwn, RecordLost, CommitFails, Crash
<1>. QED
  BY <1>2, <1>3, <1>4

\* A success that began after the last change of the records every run asks for
\* makes their rows equal to Canvas, and they stay so until the next change.
THEOREM SuccessCatchesUp == Spec => CatchesUp
<1> DEFINE Step ==
      \A t \in Tenants :
         /\ UpToDate(t) /\ canvas'[t] = canvas[t] => UpToDate(t)'
         /\ \A r \in Runs :
              /\ Commit(r) /\ run[r].tenant = t /\ run[r].draft.status = "ok"
              /\ \A i \in Reached : canvas[t][i] <= run[r].runAt
              => UpToDate(t)'
<1>1. SyncInv /\ [Next]_vars => [Step]_vars
  <2>1. SUFFICES ASSUME SyncInv, Next, NEW t \in Tenants
                 PROVE  /\ UpToDate(t) /\ canvas'[t] = canvas[t] => UpToDate(t)'
                        /\ \A r \in Runs :
                             /\ Commit(r) /\ run[r].tenant = t /\ run[r].draft.status = "ok"
                             /\ \A i \in Reached : canvas[t][i] <= run[r].runAt
                             => UpToDate(t)'
    OBVIOUS
  <2>2. UpToDate(t)' <=> \A i \in Reached : rows'[t][i] = canvas'[t][i]
    BY DEF UpToDate
  <2>3. UpToDate(t) /\ canvas'[t] = canvas[t] => UpToDate(t)'
    BY <2>1, <2>2, RowStaysCurrent, ReachedItems DEF UpToDate
  <2>4. ASSUME NEW r \in Runs
        PROVE  /\ Commit(r) /\ run[r].tenant = t /\ run[r].draft.status = "ok"
               /\ \A i \in Reached : canvas[t][i] <= run[r].runAt
               => UpToDate(t)'
    <3>1. Commit(r) => canvas' = canvas
      BY DEF Commit
    <3>. QED
      BY <2>1, <2>2, <3>1, SuccessIsCurrent
  <2>. QED
    BY <2>3, <2>4
<1>2. QED
  BY <1>1, Invariant, PTL DEF Spec, CatchesUp
=============================================================================
