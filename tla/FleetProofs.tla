---------------------------- MODULE FleetProofs ----------------------------
(***************************************************************************)
(* Theorems about Fleet, for every finite set of tenants, both stores and  *)
(* every size of the worker pool.                                          *)
(***************************************************************************)
EXTENDS Fleet, FiniteSetTheorems, TLAPS

\* The tenants in a slot are finitely many.
LEMMA HoldersFinite == IsFiniteSet(Holders) /\ Cardinality(Holders) \in Nat
BY FleetAssumption, FS_Subset, FS_CardinalityType DEF Holders

\* A task that ends its slot leaves one holder less and one free slot more.
LEMMA LeaveBalances ==
    ASSUME FleetInv, NEW t \in Tenants, task[t] \in InSlot, Leave(t)
    PROVE  SlotsBalanced' /\ free' \in 0..Slots
<1>1. Holders' = Holders \ {t} /\ t \in Holders
  BY DEF FleetInv, TypeOK, Holders, Leave, InSlot
<1>2. Cardinality(Holders') = Cardinality(Holders) - 1
  BY <1>1, HoldersFinite, FS_RemoveElement
<1>3. IsFiniteSet(Holders') /\ Cardinality(Holders') \in Nat
  BY <1>1, <1>2, HoldersFinite, FS_RemoveElement, FS_CardinalityType
<1>. QED
  BY <1>2, <1>3, HoldersFinite, FleetAssumption DEF FleetInv, SlotsBalanced, TypeOK, Leave

\* A step that moves no task in or out of a slot keeps the balance.
LEMMA SameHolders ==
    ASSUME FleetInv, free' = free, Holders' = Holders
    PROVE  SlotsBalanced'
BY DEF FleetInv, SlotsBalanced

\* Without tasks nobody is in a slot.
LEMMA NoHolders ==
    ASSUME \A t \in Tenants : task[t] \notin InSlot
    PROVE  Cardinality(Holders) = 0
BY FS_EmptySet DEF Holders

\* Initially all slots are free and nothing is locked.
LEMMA InitFleet == Init => FleetInv
<1> SUFFICES ASSUME Init PROVE FleetInv
  OBVIOUS
<1>1. \A t \in Tenants : task[t] \notin InSlot
  BY DEF Init, NoTasks, InSlot
<1>2. SlotsBalanced
  BY <1>1, NoHolders, FleetAssumption DEF Init, SlotsBalanced
<1>3. TypeOK
  <2>1. free \in 0..Slots
    BY FleetAssumption DEF Init
  <2>2. task \in [Tenants -> {"none", "asleep", "queued", "done"} \cup InSlot]
    BY DEF Init, NoTasks
  <2>3. lock \in [Tenants -> {"free", "scheduled", "manual"}]
    BY DEF Init
  <2>4. rows \in [Tenants -> Keys \cup {NoKey}]
    BY DEF Init
  <2>. QED
    BY <2>1, <2>2, <2>3, <2>4 DEF Init, TypeOK
<1>. QED
  BY <1>2, <1>3 DEF Init, FleetInv, TickInv, LocksMatchTasks, NoTasks

\* Every step keeps the invariant.
LEMMA FleetStep == FleetInv /\ [Next]_vars => FleetInv'
<1> SUFFICES ASSUME FleetInv, [Next]_vars PROVE FleetInv'
  OBVIOUS
<1> USE FleetAssumption DEF credentials
<1>0. TypeOK /\ TickInv /\ SlotsBalanced /\ LocksMatchTasks
  BY DEF FleetInv
<1>1. ASSUME UNCHANGED <<task, free, lock>>, TypeOK', TickInv' PROVE FleetInv'
  BY <1>0, <1>1 DEF FleetInv, SlotsBalanced, LocksMatchTasks, Holders
<1>2. ASSUME NEW t \in Tenants, Connect(t) PROVE FleetInv'
  <2>1. /\ UNCHANGED <<job, tick, task, free, lock, key>>
        /\ memory' \subseteq Tenants /\ bound' \in BOOLEAN
        /\ rows' \in [Tenants -> Keys \cup {NoKey}]
    BY <1>0, <1>2 DEF Connect, TypeOK
  <2>. QED
    BY <1>0, <1>1, <2>1 DEF TypeOK, TickInv
<1>3. ASSUME Start \/ Fire \/ ListFails PROVE FleetInv'
  BY <1>0, <1>1, <1>3 DEF Start, Fire, ListFails, TypeOK, TickInv
<1>4. ASSUME Shutdown PROVE FleetInv'
  BY <1>0, <1>1, <1>4 DEF Shutdown, TypeOK, TickInv
<1>5. ASSUME List PROVE FleetInv'
  <2>1. \A t \in Tenants : task[t] = "none" /\ task'[t] \in {"none", "asleep"}
    BY <1>0, <1>5 DEF List, TickInv, NoTasks
  <2>2. Holders' = Holders
    BY <2>1 DEF Holders, InSlot
  <2>3. TypeOK' /\ LocksMatchTasks'
    BY <1>0, <1>5, <2>1 DEF List, TypeOK, LocksMatchTasks
  <2>4. TickInv'
    BY <1>0, <1>5 DEF List, TickInv, NoTasks
  <2>. QED
    BY <1>5, <2>2, <2>3, <2>4, SameHolders DEF List, FleetInv
<1>6. ASSUME TickEnds PROVE FleetInv'
  <2>1. \A t \in Tenants : task[t] \in {"none", "done"} /\ task'[t] = "none"
    BY <1>6 DEF TickEnds, NoTasks
  <2>2. Holders' = Holders
    BY <2>1 DEF Holders, InSlot
  <2>3. TypeOK' /\ LocksMatchTasks' /\ TickInv'
    BY <1>0, <1>6, <2>1 DEF TickEnds, TypeOK, LocksMatchTasks, TickInv, NoTasks
  <2>. QED
    BY <1>6, <2>2, <2>3, SameHolders DEF TickEnds, FleetInv
<1>7. ASSUME NEW t \in Tenants, Wake(t) PROVE FleetInv'
  <2>1. Holders' = Holders
    BY <1>0, <1>7 DEF Wake, Holders, InSlot, TypeOK
  <2>2. TypeOK' /\ LocksMatchTasks' /\ TickInv'
    BY <1>0, <1>7 DEF Wake, TypeOK, LocksMatchTasks, TickInv
  <2>. QED
    BY <1>7, <2>1, <2>2, SameHolders DEF Wake, FleetInv
<1>8. ASSUME NEW t \in Tenants, TakeSlot(t) PROVE FleetInv'
  <2>1. Holders' = Holders \cup {t} /\ t \notin Holders
    BY <1>0, <1>8 DEF TakeSlot, Holders, InSlot, TypeOK
  <2>2. Cardinality(Holders') = Cardinality(Holders) + 1
    BY <2>1, HoldersFinite, FS_AddElement
  <2>3. SlotsBalanced'
    BY <1>0, <1>8, <2>2, HoldersFinite DEF TakeSlot, SlotsBalanced, TypeOK
  <2>4. TypeOK' /\ LocksMatchTasks' /\ TickInv'
    BY <1>0, <1>8 DEF TakeSlot, TypeOK, LocksMatchTasks, TickInv, InSlot
  <2>. QED
    BY <2>3, <2>4 DEF FleetInv
<1>9. ASSUME NEW t \in Tenants, tick \in {"running", "cancelled"}, tick' = tick,
             task[t] \in InSlot, Leave(t),
             lock' = (IF task[t] = "working" THEN [lock EXCEPT ![t] = "free"] ELSE lock),
             UNCHANGED <<job, credentials>>
      PROVE  FleetInv'
  <2>1. SlotsBalanced' /\ free' \in 0..Slots
    BY <1>9, LeaveBalances
  <2>2. TypeOK' /\ LocksMatchTasks' /\ TickInv'
    BY <1>0, <1>9, <2>1 DEF Leave, TypeOK, LocksMatchTasks, TickInv, InSlot
  <2>. QED
    BY <2>1, <2>2 DEF FleetInv
<1>10. ASSUME NEW t \in Tenants, NEW next \in {"open", "working"}, task[t] \in InSlot,
              tick = "running", tick' = tick, task' = [task EXCEPT ![t] = next],
              next = "open" => task[t] = "token" /\ lock' = lock,
              next = "working" => lock' = [lock EXCEPT ![t] = "scheduled"],
              UNCHANGED <<job, free, credentials>>
       PROVE  FleetInv'
  <2>1. Holders' = Holders
    BY <1>0, <1>10 DEF Holders, InSlot, TypeOK
  <2>2. TypeOK' /\ LocksMatchTasks' /\ TickInv'
    BY <1>0, <1>10 DEF TypeOK, LocksMatchTasks, TickInv, InSlot
  <2>. QED
    BY <1>10, <2>1, <2>2, SameHolders DEF FleetInv
<1>11. ASSUME NEW t \in Tenants, ReadToken(t) PROVE FleetInv'
  <2>1. CASE t \in Readable
    BY <1>10, <1>11, <2>1 DEF ReadToken, InSlot
  <2>2. CASE t \notin Readable
    BY <1>9, <1>11, <2>2 DEF ReadToken, InSlot
  <2>. QED
    BY <2>1, <2>2
<1>12. ASSUME NEW t \in Tenants, Open(t) PROVE FleetInv'
  <2>1. CASE lock[t] = "free"
    BY <1>10, <1>12, <2>1 DEF Open, InSlot
  <2>2. CASE lock[t] # "free"
    BY <1>9, <1>12, <2>2 DEF Open, InSlot
  <2>. QED
    BY <2>1, <2>2
<1>13. ASSUME NEW t \in Tenants, OpenFails(t) \/ Finish(t) PROVE FleetInv'
  BY <1>9, <1>13 DEF OpenFails, Finish, InSlot
<1>14. ASSUME NEW t \in Tenants, Cancel(t) PROVE FleetInv'
  <2>1. CASE task[t] \in InSlot
    BY <1>9, <1>14, <2>1 DEF Cancel
  <2>2. CASE task[t] \notin InSlot
    <3>1. task[t] \in {"asleep", "queued"} /\ task' = [task EXCEPT ![t] = "done"]
          /\ free' = free /\ lock' = lock /\ tick = "cancelled" /\ tick' = tick
          /\ UNCHANGED <<job, credentials>>
      BY <1>14, <2>2 DEF Cancel, InSlot
    <3>2. Holders' = Holders
      BY <1>0, <3>1 DEF Holders, InSlot, TypeOK
    <3>3. TypeOK' /\ LocksMatchTasks' /\ TickInv'
      BY <1>0, <3>1 DEF TypeOK, LocksMatchTasks, TickInv, InSlot
    <3>. QED
      BY <3>1, <3>2, <3>3, SameHolders DEF FleetInv
  <2>. QED
    BY <2>1, <2>2
<1>15. ASSUME NEW t \in Tenants, ManualBegin(t) \/ ManualEnd(t) PROVE FleetInv'
  <2>1. Holders' = Holders
    BY <1>15 DEF ManualBegin, ManualEnd, Holders
  <2>2. TypeOK' /\ LocksMatchTasks' /\ TickInv'
    BY <1>0, <1>15 DEF ManualBegin, ManualEnd, TypeOK, LocksMatchTasks, TickInv
  <2>. QED
    BY <1>15, <2>1, <2>2, SameHolders DEF ManualBegin, ManualEnd, FleetInv
<1>16. ASSUME Exit PROVE FleetInv'
  <2>1. \A t \in Tenants : task'[t] = "none" /\ lock'[t] = "free"
    BY <1>16 DEF Exit, NoTasks
  <2>2. Holders' = {}
    BY <2>1 DEF Holders, InSlot
  <2>3. SlotsBalanced'
    BY <1>16, <2>2, FS_EmptySet DEF Exit, SlotsBalanced
  <2>4. TypeOK'
    <3>1. free' \in 0..Slots
      BY <1>16 DEF Exit
    <3>2. task' \in [Tenants -> {"none", "asleep", "queued", "done"} \cup InSlot]
      BY <1>16 DEF Exit, NoTasks
    <3>3. lock' \in [Tenants -> {"free", "scheduled", "manual"}]
      BY <1>16 DEF Exit
    <3>. QED
      BY <1>0, <1>16, <3>1, <3>2, <3>3 DEF Exit, TypeOK
  <2>5. LocksMatchTasks' /\ TickInv'
    BY <1>16, <2>1 DEF Exit, LocksMatchTasks, TickInv, NoTasks
  <2>. QED
    BY <2>3, <2>4, <2>5 DEF FleetInv
<1>17. CASE UNCHANGED vars
  BY <1>0, <1>1, <1>17 DEF vars, TypeOK, TickInv, NoTasks, InSlot
<1>. QED
  BY <1>2, <1>3, <1>4, <1>5, <1>6, <1>7, <1>8, <1>11, <1>12, <1>13, <1>14, <1>15,
     <1>16, <1>17 DEF Next, Run

\* The inductive invariant of the scheduler.
THEOREM FleetInvariant == Spec => []FleetInv
BY InitFleet, FleetStep, PTL DEF Spec

\* Every variable keeps its type; in particular there are never more free slots
\* than workers.
THEOREM TypeCorrect == Spec => []TypeOK
BY FleetInvariant, PTL DEF FleetInv

\* Slots are neither lost nor duplicated, for any pool and any cancellations.
THEOREM SlotsAreBalanced == Spec => []SlotsBalanced
BY FleetInvariant, PTL DEF FleetInv

\* The scheduler holds exactly the locks of the tenants it is working on.
THEOREM LocksMatch == Spec => []LocksMatchTasks
BY FleetInvariant, PTL DEF FleetInv

\* A manual run keeps its lock against the scheduler.
THEOREM ManualRunsKeepTheirLock == Spec => NoTakeover
<1>1. FleetInv /\ [Next]_vars =>
        [\A t \in Tenants : lock[t] = "manual" => lock'[t] # "scheduled"]_vars
  <2> SUFFICES ASSUME FleetInv, Next, NEW t \in Tenants, lock[t] = "manual"
               PROVE  lock'[t] # "scheduled"
    OBVIOUS
  <2>1. FleetInv'
    BY FleetStep
  <2>2. task[t] # "working"
    BY DEF FleetInv, LocksMatchTasks
  <2>3. ASSUME task'[t] = "working" PROVE FALSE
    BY <2>2, <2>3 DEF Next, Start, Fire, List, ListFails, TickEnds, Shutdown, Exit, NoTasks,
       Connect, Run, Wake, TakeSlot, ReadToken, Open, OpenFails, Finish,
       Cancel, Leave, ManualBegin, ManualEnd, FleetInv, TypeOK
  <2>. QED
    BY <2>1, <2>3 DEF FleetInv, LocksMatchTasks
<1>. QED
  BY <1>1, FleetInvariant, PTL DEF Spec, NoTakeover

\* A tick that has not been cancelled belongs to an installed job.
UpWhileRunning == tick \in {"listing", "running"} => job

\* After the shutdown tasks only leave their slots.
THEOREM NothingBeginsAfterShutdown == Spec => NothingBegunAfterShutdown
<1>1. Init => UpWhileRunning
  BY DEF Init, UpWhileRunning
<1>2. UpWhileRunning /\ [Next]_vars => UpWhileRunning'
  BY DEF UpWhileRunning, vars, Next, Start, Fire, List, ListFails, TickEnds, Shutdown, Exit,
     Connect, Run, Wake, TakeSlot, ReadToken, Open, OpenFails, Finish,
     Cancel, ManualBegin, ManualEnd
<1>3. FleetInv /\ UpWhileRunning /\ [Next]_vars =>
        [~job => Cardinality(Holders') <= Cardinality(Holders)]_vars
  <2>. SUFFICES ASSUME FleetInv, UpWhileRunning, Next, ~job
                PROVE  Cardinality(Holders') <= Cardinality(Holders)
    OBVIOUS
  <2>1. tick \in {"none", "cancelled"} /\ task \in [Tenants -> {"none", "asleep", "queued", "done"} \cup InSlot]
    BY DEF UpWhileRunning, FleetInv, TypeOK
  <2>2. ASSUME NEW t \in Tenants, task'[t] \in InSlot PROVE task[t] \in InSlot
    BY <2>1, <2>2 DEF Next, Start, Fire, List, ListFails, TickEnds, Shutdown, Exit, NoTasks,
       Connect, Run, Wake, TakeSlot, ReadToken, Open, OpenFails, Finish,
       Cancel, Leave, ManualBegin, ManualEnd, InSlot
  <2>3. Holders' \subseteq Holders
    BY <2>2 DEF Holders, InSlot
  <2>. QED
    BY <2>3, HoldersFinite, FS_Subset
<1>. QED
  BY <1>1, <1>2, <1>3, FleetInvariant, PTL DEF Spec, NothingBegunAfterShutdown
-----------------------------------------------------------------------------
(* The fleet as a whole.                                                   *)

\* At most four tenants are synchronised by the scheduler at a time.
THEOREM FourAtOnce == Spec => []AtMostFourAtOnce
<1>1. FleetInv => AtMostFourAtOnce
  <2> SUFFICES ASSUME FleetInv PROVE AtMostFourAtOnce
    OBVIOUS
  <2> DEFINE L == {t \in Tenants : lock[t] = "scheduled"}
  <2>1. L \subseteq Holders
    BY DEF FleetInv, LocksMatchTasks, Holders, InSlot
  <2>2. Cardinality(L) <= Cardinality(Holders) /\ Cardinality(L) \in Nat
    BY <2>1, HoldersFinite, FS_Subset, FS_CardinalityType
  <2>3. Cardinality(Holders) <= 4
    BY HoldersFinite, FleetAssumption DEF FleetInv, TypeOK, SlotsBalanced
  <2>. QED
    BY <2>2, <2>3, HoldersFinite DEF AtMostFourAtOnce
<1>. QED
  BY <1>1, FleetInvariant, PTL

\* Between two ticks every slot is free and the scheduler holds no lock, whatever
\* was skipped, failed or was cancelled before.
THEOREM TicksLeaveNothing == Spec => []NothingLeftBehind
<1>1. FleetInv => NothingLeftBehind
  <2> SUFFICES ASSUME FleetInv, tick \in {"none", "listing"}
               PROVE  free = Slots /\ \A t \in Tenants : lock[t] # "scheduled"
    BY DEF NothingLeftBehind
  <2>1. \A t \in Tenants : task[t] = "none"
    BY DEF FleetInv, TickInv, NoTasks
  <2>2. Cardinality(Holders) = 0
    BY <2>1, NoHolders DEF InSlot
  <2>3. free = Slots
    BY <2>2, FleetAssumption DEF FleetInv, TypeOK, SlotsBalanced
  <2>. QED
    BY <2>1, <2>3 DEF FleetInv, LocksMatchTasks
<1>. QED
  BY <1>1, FleetInvariant, PTL

\* A queued task without a free slot waits for a task of its own tick.
THEOREM QueuedWaitForHolders == Spec => []SlotsAreComing
<1>1. FleetInv => SlotsAreComing
  <2> SUFFICES ASSUME FleetInv, NEW t \in Tenants, task[t] = "queued", free = 0
               PROVE  /\ tick \in {"running", "cancelled"}
                      /\ \E h \in Tenants \ {t} : task[h] \in InSlot
    BY DEF SlotsAreComing
  <2>1. tick \in {"running", "cancelled"}
    BY DEF FleetInv, TypeOK, TickInv, NoTasks
  <2>2. Cardinality(Holders) # 0
    BY HoldersFinite, FleetAssumption DEF FleetInv, SlotsBalanced
  <2>3. PICK h \in Tenants : task[h] \in InSlot
    BY <2>2, NoHolders
  <2>4. h # t
    BY <2>3 DEF InSlot
  <2>. QED
    BY <2>1, <2>3, <2>4
<1>. QED
  BY <1>1, FleetInvariant, PTL

\* Within a tick the tasks only go forward.
THEOREM TasksGoForward == Spec => TasksOnlyAdvance
<1>1. FleetInv /\ [Next]_vars =>
        [\A t \in Tenants : task'[t] # task[t] =>
            tick' = "none" \/ Stage(task'[t]) > Stage(task[t])]_vars
  <2> SUFFICES ASSUME FleetInv, Next, NEW t \in Tenants, task'[t] # task[t], tick' # "none"
               PROVE  Stage(task'[t]) > Stage(task[t])
    OBVIOUS
  <2>1. /\ task \in [Tenants -> {"none", "asleep", "queued", "done"} \cup InSlot]
        /\ tick = "listing" => \A u \in Tenants : task[u] = "none"
    BY DEF FleetInv, TypeOK, TickInv, NoTasks
  <2>2. ASSUME NEW u \in Tenants, u # t, Run(u) \/ OpenFails(u) PROVE FALSE
    BY <2>1, <2>2 DEF Run, Wake, TakeSlot, ReadToken, Open, OpenFails, Finish, Cancel, Leave
  <2>3. CASE Run(t) \/ OpenFails(t)
    BY <2>1, <2>3 DEF Run, Wake, TakeSlot, ReadToken, Open, OpenFails, Finish, Cancel, Leave,
       Stage, InSlot
  <2>4. CASE List
    BY <2>1, <2>4 DEF List, Stage
  <2>5. UNCHANGED task \/ List \/ (\E u \in Tenants : Run(u) \/ OpenFails(u))
    BY DEF Next, Start, Fire, ListFails, TickEnds, Shutdown, Exit, Connect,
       ManualBegin, ManualEnd
  <2>. QED
    BY <2>2, <2>3, <2>4, <2>5
<1>. QED
  BY <1>1, FleetInvariant, PTL DEF Spec, TasksOnlyAdvance
=============================================================================
