-------------------------- MODULE ManualSyncProofs --------------------------
(***************************************************************************)
(* Theorems about ManualSync, for every number of requests and tenants and *)
(* every interval.  The rate limit is proved for one process: with several *)
(* it does not hold.                                                       *)
(***************************************************************************)
EXTENDS ManualSync, TLAPS

\* All requests are served by one event loop.
OneLoop == \A p, q \in Requests : ProcessOf[p] = ProcessOf[q]

\* What Retry-After promises is a number of whole seconds, at least one.
LEMMA SecondsLeftType ==
    ASSUME NEW last \in Nat, NEW now \in Nat
    PROVE  SecondsLeft(last, now) * Second \in Nat
<1> DEFINE left == (Interval - (now - last) + Round) \div Second
<1>1. left \in Int
  BY TimesAssumption
<1>2. SecondsLeft(last, now) \in Nat
  BY <1>1, SMT DEF SecondsLeft
<1>. QED
  BY <1>2, TimesAssumption

\* An answered request is a request.
LEMMA AnsweredType ==
    ASSUME NEW r \in Request, NEW a \in Answers, NEW w \in Nat, clock \in Nat
    PROVE  /\ Answered(r, a, w) \in Request
           /\ Answered(r, a, w).pc = "idle"
           /\ Answered(r, a, w).now = 0
  BY DEF Request, Answered

\* Initially everything has its type and nobody has passed the check.
LEMMA InitRate == Init => RateInv
BY SetsAssumption DEF Init, RateInv, TypeOK, StampInv, PassedInv, Request, Answers, LoopBusy

\* Every step keeps the types.
LEMMA TypeStep == TypeOK /\ [Next]_vars => TypeOK'
<1> SUFFICES ASSUME TypeOK, [Next]_vars PROVE TypeOK'
  OBVIOUS
<1> USE DEF TypeOK
<1>1. ASSUME Tick PROVE TypeOK'
  BY <1>1 DEF Tick
<1>2. ASSUME NEW q \in Requests, NEW t \in Tenants, Receive(q, t) PROVE TypeOK'
  BY <1>2 DEF Receive, Request, Answers
<1>3. ASSUME NEW q \in Requests, Check(q) PROVE TypeOK'
  <2>1. stamp[req[q].tenant] \in Nat
    BY <1>3 DEF Check
  <2>2. CASE stamp[req[q].tenant] # 0 /\ clock - stamp[req[q].tenant] < Interval
    <3> DEFINE new == Answered(req[q], "throttled",
                        SecondsLeft(stamp[req[q].tenant], clock) * Second)
    <3>1. new \in Request /\ new.pc = "idle"
      BY <2>1, SecondsLeftType, AnsweredType DEF Answers
    <3>2. req' = [req EXCEPT ![q] = new]
      BY <1>3, <2>2 DEF Check
    <3>. QED
      BY <1>3, <3>1, <3>2 DEF Check
  <2>3. CASE ~(stamp[req[q].tenant] # 0 /\ clock - stamp[req[q].tenant] < Interval)
    <3> DEFINE new == [req[q] EXCEPT !.pc = "lookup", !.now = clock]
    <3>1. req[q] \in Request /\ req[q].tenant \in Tenants
      BY <1>3 DEF Check
    <3>2. new \in Request /\ new.tenant \in Tenants
      BY <3>1 DEF Request
    <3>3. req' = [req EXCEPT ![q] = new]
      BY <1>3, <2>3 DEF Check
    <3>. QED
      BY <1>3, <3>2, <3>3 DEF Check
  <2>. QED
    BY <2>2, <2>3
<1>4. ASSUME NEW q \in Requests, Lookup(q) PROVE TypeOK'
  <2> DEFINE new == [req[q] EXCEPT !.pc = "write", !.insert = (stamp[req[q].tenant] = 0)]
  <2>1. req[q] \in Request /\ req[q].tenant \in Tenants
    BY <1>4 DEF Lookup
  <2>2. new \in Request /\ new.tenant \in Tenants
    BY <2>1 DEF Request
  <2>. QED
    BY <1>4, <2>2 DEF Lookup
<1>5. ASSUME NEW q \in Requests, Write(q) PROVE TypeOK'
  <2>1. CASE req[q].insert /\ stamp[req[q].tenant] # 0
    <3>1. Answered(req[q], "error", 0) \in Request /\ Answered(req[q], "error", 0).pc = "idle"
      BY AnsweredType DEF Answers
    <3>. QED
      BY <1>5, <2>1, <3>1 DEF Write
  <2>2. CASE ~(req[q].insert /\ stamp[req[q].tenant] # 0)
    BY <1>5, <2>2 DEF Write, Request
  <2>. QED
    BY <2>1, <2>2
<1>6. ASSUME NEW q \in Requests, NoCredentials(q) PROVE TypeOK'
  <2>1. Answered(req[q], "forbidden", 0) \in Request /\ Answered(req[q], "forbidden", 0).pc = "idle"
    BY AnsweredType DEF Answers
  <2>. QED
    BY <1>6, <2>1 DEF NoCredentials
<1>7. ASSUME NEW q \in Requests, TryLock(q) PROVE TypeOK'
  <2>1. Answered(req[q], "locked", Interval) \in Request
        /\ Answered(req[q], "locked", Interval).pc = "idle"
    BY AnsweredType, TimesAssumption DEF Answers
  <2>2. CASE lock[req[q].tenant] = Free
    BY <1>7, <2>2 DEF TryLock, Request
  <2>3. CASE lock[req[q].tenant] # Free
    BY <1>7, <2>1, <2>3 DEF TryLock
  <2>. QED
    BY <2>2, <2>3
<1>8. ASSUME NEW q \in Requests, Finish(q) \/ DatabaseError(q) PROVE TypeOK'
  <2>1. PICK a \in Answers : req' = [req EXCEPT ![q] = Answered(req[q], a, 0)]
    BY <1>8 DEF Finish, DatabaseError, Answers
  <2>2. Answered(req[q], a, 0) \in Request /\ Answered(req[q], a, 0).pc = "idle"
    BY AnsweredType
  <2>. QED
    BY <1>8, <2>1, <2>2 DEF Finish, DatabaseError, Unlock
<1>9. ASSUME NEW p \in Processes, NEW t \in Tenants,
             ScheduledBegin(p, t) \/ ScheduledEnd(p, t)
      PROVE TypeOK'
  BY <1>9 DEF ScheduledBegin, ScheduledEnd
<1>10. ASSUME NEW p \in Processes, Crash(p) PROVE TypeOK'
  <2>1. \A q \in Requests :
          /\ Answered(req[q], "none", 0) \in Request
          /\ Answered(req[q], "none", 0).pc = "idle"
    BY AnsweredType DEF Answers
  <2>2. \A q \in Requests :
          /\ [Answered(req[q], "none", 0) EXCEPT !.retryAt = 0] \in Request
          /\ [Answered(req[q], "none", 0) EXCEPT !.retryAt = 0].pc = "idle"
    BY <2>1 DEF Request
  <2>. QED
    BY <1>10, <2>2 DEF Crash
<1>11. CASE UNCHANGED vars
  BY <1>11 DEF vars
<1>. QED
  BY <1>1, <1>2, <1>3, <1>4, <1>5, <1>6, <1>7, <1>8, <1>9, <1>10, <1>11 DEF Next, Serve

\* Type correctness holds for any number of processes.
THEOREM TypeCorrect == Spec => []TypeOK
<1>1. Init => TypeOK
  BY InitRate DEF RateInv
<1>. QED
  BY <1>1, TypeStep, PTL DEF Spec
-----------------------------------------------------------------------------
(* Retry-After, with any number of processes.                              *)

\* Initially nothing is later than the clock.
LEMMA InitTime == Init => StampInv /\ NowInv
BY DEF Init, StampInv, NowInv

\* Stamps are taken from the clock and the clock does not go back.
LEMMA TimeStep ==
    TypeOK /\ StampInv /\ NowInv /\ [Next]_vars => StampInv' /\ NowInv'
<1> SUFFICES ASSUME TypeOK, StampInv, NowInv, [Next]_vars PROVE StampInv' /\ NowInv'
  OBVIOUS
<1> USE DEF StampInv, NowInv
<1>1. clock \in Nat /\ clock' \in Nat /\ clock <= clock'
  <2>1. CASE Tick
    BY <2>1 DEF Tick, TypeOK
  <2>2. ASSUME NEW q \in Requests,
               Serve(q) \/ NoCredentials(q) \/ DatabaseError(q) \/ \E t \in Tenants : Receive(q, t)
        PROVE  clock' = clock
    BY <2>2 DEF Serve, Receive, Check, Lookup, Write, NoCredentials, TryLock, Finish,
       DatabaseError
  <2>3. ASSUME NEW p \in Processes,
               Crash(p) \/ \E t \in Tenants : ScheduledBegin(p, t) \/ ScheduledEnd(p, t)
        PROVE  clock' = clock
    BY <2>3 DEF Crash, ScheduledBegin, ScheduledEnd
  <2>. QED
    BY <2>1, <2>2, <2>3 DEF Next, vars, TypeOK
<1>2. \A q \in Requests : req[q].now \in Nat
  BY DEF TypeOK, Request
<1>3. \A t \in Tenants : stamp[t] \in Nat
  BY DEF TypeOK
<1>4. ASSUME NEW q \in Requests, NEW n \in Request, req' = [req EXCEPT ![q] = n],
             n.now <= clock, UNCHANGED <<clock, stamp>>
      PROVE  StampInv' /\ NowInv'
  BY <1>4 DEF TypeOK
<1>5. ASSUME NEW q \in Requests, NEW a \in Answers, NEW w \in Nat,
             req' = [req EXCEPT ![q] = Answered(req[q], a, w)], UNCHANGED <<clock, stamp>>
      PROVE  StampInv' /\ NowInv'
  <2>1. Answered(req[q], a, w) \in Request /\ Answered(req[q], a, w).now = 0
    BY <1>1, AnsweredType DEF TypeOK
  <2>. QED
    BY <1>1, <1>4, <1>5, <2>1
<1>6. ASSUME NEW q \in Requests, NEW t \in Tenants, Receive(q, t)
      PROVE  StampInv' /\ NowInv'
  <2> DEFINE n == [req[q] EXCEPT !.pc = "check", !.tenant = t,
                                 !.answer = "none", !.retryAt = 0]
  <2>0. req[q] \in Request
    BY DEF TypeOK
  <2>1. n \in Request /\ n.now = req[q].now
    BY <2>0 DEF Request, Answers
  <2>2. req' = [req EXCEPT ![q] = n] /\ UNCHANGED <<clock, stamp>>
    BY <1>6 DEF Receive
  <2> HIDE DEF n
  <2>. QED
    BY <2>1, <2>2, <1>4
<1>7. ASSUME NEW q \in Requests, Check(q) PROVE StampInv' /\ NowInv'
  <2> DEFINE last == stamp[req[q].tenant]
             n == [req[q] EXCEPT !.pc = "lookup", !.now = clock]
  <2>1. last \in Nat
    BY <1>7 DEF Check, TypeOK
  <2>2. CASE last # 0 /\ clock - last < Interval
    BY <1>1, <1>5, <1>7, <2>1, <2>2, SecondsLeftType DEF Check, Answers
  <2>3. n \in Request /\ n.now = clock
    BY DEF TypeOK, Request
  <2>4. CASE ~(last # 0 /\ clock - last < Interval)
    <3>1. req' = [req EXCEPT ![q] = n] /\ UNCHANGED <<clock, stamp>>
      BY <1>7, <2>4 DEF Check
    <3> HIDE DEF n
    <3>. QED
      BY <1>1, <1>4, <2>3, <3>1
  <2>. QED
    BY <2>2, <2>4
<1>8. ASSUME NEW q \in Requests, Lookup(q) PROVE StampInv' /\ NowInv'
  <2> DEFINE n == [req[q] EXCEPT !.pc = "write", !.insert = (stamp[req[q].tenant] = 0)]
  <2>1. req[q] \in Request
    BY DEF TypeOK
  <2>2. n \in Request /\ n.now = req[q].now
    BY <2>1 DEF Request
  <2>3. req' = [req EXCEPT ![q] = n] /\ UNCHANGED <<clock, stamp>>
    BY <1>8 DEF Lookup
  <2> HIDE DEF n
  <2>. QED
    BY <1>4, <2>2, <2>3
<1>9. ASSUME NEW q \in Requests, Write(q) PROVE StampInv' /\ NowInv'
  <2>1. CASE req[q].insert /\ stamp[req[q].tenant] # 0
    BY <1>5, <1>9, <2>1 DEF Write, Answers
  <2>2. CASE ~(req[q].insert /\ stamp[req[q].tenant] # 0)
    <3>1. /\ req' = [req EXCEPT ![q] = [req[q] EXCEPT !.pc = "lock"]]
          /\ stamp' = [stamp EXCEPT ![req[q].tenant] = req[q].now]
          /\ clock' = clock
      BY <1>9, <2>2 DEF Write
    <3>. QED
      BY <1>1, <1>2, <3>1 DEF TypeOK, Request
  <2>. QED
    BY <2>1, <2>2
<1>10. ASSUME NEW q \in Requests, TryLock(q) PROVE StampInv' /\ NowInv'
  <2> DEFINE n == [req[q] EXCEPT !.pc = "running"]
  <2>1. n \in Request /\ n.now = req[q].now
    BY DEF TypeOK, Request
  <2>2. CASE lock[req[q].tenant] = Free
    <3>1. req' = [req EXCEPT ![q] = n] /\ UNCHANGED <<clock, stamp>>
      BY <1>10, <2>2 DEF TryLock
    <3> HIDE DEF n
    <3>. QED
      BY <1>4, <2>1, <3>1
  <2>3. CASE lock[req[q].tenant] # Free
    BY <1>5, <1>10, <2>3, TimesAssumption DEF TryLock, Answers
  <2>. QED
    BY <2>2, <2>3
<1>11. ASSUME NEW q \in Requests,
              NoCredentials(q) \/ Finish(q) \/ DatabaseError(q)
       PROVE  StampInv' /\ NowInv'
  BY <1>5, <1>11 DEF NoCredentials, Finish, DatabaseError, Answers
<1>12. ASSUME NEW p \in Processes, Crash(p) PROVE StampInv' /\ NowInv'
  <2>1. ASSUME NEW q \in Requests PROVE req'[q].now \in {0, req[q].now}
    BY <1>12 DEF Crash, Answered
  <2>. QED
    BY <1>1, <1>12, <2>1 DEF Crash
<1>13. ASSUME UNCHANGED <<stamp, req>> PROVE StampInv' /\ NowInv'
  BY <1>1, <1>2, <1>3, <1>13
<1>. QED
  BY <1>6, <1>7, <1>8, <1>9, <1>10, <1>11, <1>12, <1>13
     DEF Next, Serve, Tick, ScheduledBegin, ScheduledEnd, vars

\* The types and the times, in one invariant.
THEOREM TimesInvariant == Spec => [](TypeOK /\ StampInv /\ NowInv)
<1>1. Init => TypeOK /\ StampInv /\ NowInv
  BY InitRate, InitTime DEF RateInv
<1>2. TypeOK /\ StampInv /\ NowInv /\ [Next]_vars => (TypeOK /\ StampInv /\ NowInv)'
  BY TypeStep, TimeStep
<1>. QED
  BY <1>1, <1>2, PTL DEF Spec

\* The seconds of Retry-After cover the rest of the interval but for what the
\* rounding loses, and exceed it by less than a second.
LEMMA SecondsLeftCover ==
    ASSUME NEW last \in Nat, NEW now \in Nat, now - last < Interval
    PROVE  LET wait == SecondsLeft(last, now) * Second
           IN /\ now + wait + Second > last + Interval + Round
              /\ now + wait < last + Interval + Second
<1> DEFINE n == Interval - (now - last) + Round
           left == n \div Second
<1>1. /\ n \in Int /\ Second \in Nat /\ Second > 0 /\ left \in Int /\ Interval \in Nat
      /\ Round \in Nat /\ Round < Second /\ n > Round
  BY TimesAssumption
<1>2. left * Second <= n /\ n < left * Second + Second
  BY <1>1
<1>3. CASE left >= 1
  <2>1. SecondsLeft(last, now) = left
    BY <1>3 DEF SecondsLeft
  <2>. QED
    BY <1>1, <1>2, <2>1
<1>4. CASE left < 1
  <2>1. SecondsLeft(last, now) = 1
    BY <1>1, <1>4 DEF SecondsLeft
  <2>2. left * Second <= 0
    BY <1>1, <1>4
  <2>. QED
    BY <1>1, <1>2, <2>1, <2>2
<1>. QED
  BY <1>1, <1>3, <1>4

\* A client that waits as told is not refused for an earlier admission, but
\* for the millisecond that the rounding may lose.
THEOREM RetryAfterIsHonest == Spec => HonestRetry
<1> DEFINE Honest(q) ==
      LET free == stamp'[req[q].tenant] + Interval IN
      req[q].pc # "idle" /\ req'[q].pc = "idle" =>
        /\ req'[q].answer = "locked" => req'[q].retryAt >= free
        /\ req'[q].answer = "throttled" =>
             /\ req'[q].retryAt + Second > free + Round
             /\ req'[q].retryAt < free + Second
<1>1. ASSUME TypeOK, StampInv, [Next]_vars, NEW q \in Requests PROVE Honest(q)
  <2> SUFFICES ASSUME req[q].pc # "idle", req'[q].pc = "idle",
                      req'[q].answer \in {"throttled", "locked"}
               PROVE  LET free == stamp'[req[q].tenant] + Interval IN
                      /\ req'[q].answer = "locked" => req'[q].retryAt >= free
                      /\ req'[q].answer = "throttled" =>
                           /\ req'[q].retryAt + Second > free + Round
                           /\ req'[q].retryAt < free + Second
    OBVIOUS
  <2> DEFINE last == stamp[req[q].tenant]
  <2>1. last \in Nat /\ clock \in Nat /\ last <= clock
    BY <1>1 DEF TypeOK, StampInv
  <2>2. CASE Check(q)
    <3>1. last # 0 /\ clock - last < Interval
      BY <2>2, <1>1 DEF Check, TypeOK, Request
    <3>2. req'[q] = Answered(req[q], "throttled", SecondsLeft(last, clock) * Second)
      BY <2>2, <3>1, <1>1 DEF Check, TypeOK
    <3>3. /\ req'[q].retryAt = clock + SecondsLeft(last, clock) * Second
          /\ req'[q].answer = "throttled"
      BY <3>2 DEF Answered
    <3>. QED
      BY <2>1, <2>2, <3>1, <3>3, SecondsLeftCover DEF Check
  <2>3. CASE TryLock(q)
    <3>1. lock[req[q].tenant] # Free
      BY <2>3, <1>1 DEF TryLock, TypeOK, Request
    <3>2. req'[q] = Answered(req[q], "locked", Interval)
      BY <2>3, <3>1, <1>1 DEF TryLock, TypeOK
    <3>3. req'[q].retryAt = clock + Interval /\ req'[q].answer = "locked"
      BY <3>2 DEF Answered
    <3>. QED
      BY <2>1, <2>3, <3>3, TimesAssumption DEF TryLock
  <2>4. CASE ~Check(q) /\ ~TryLock(q)
    <3>1. ASSUME NEW a \in {"none", "accepted", "error", "forbidden"},
                 req' = [req EXCEPT ![q] = Answered(req[q], a, 0)]
          PROVE  FALSE
      BY <1>1, <3>1 DEF TypeOK, Answered
    <3>2. ~Write(q)
      BY <1>1, <3>1 DEF Write, TypeOK, Request
    <3>3. ~Lookup(q)
      BY <1>1 DEF Lookup, TypeOK, Request
    <3>4. ~NoCredentials(q) /\ ~Finish(q) /\ ~DatabaseError(q)
      BY <3>1 DEF NoCredentials, Finish, DatabaseError
    <3>5. \A p \in Processes : ~Crash(p)
      BY <1>1 DEF Crash, Answered
    <3>6. \A t \in Tenants : ~Receive(q, t)
      BY DEF Receive
    <3>7. req'[q] # req[q]
      OBVIOUS
    <3>8. \A p \in Requests \ {q}, t \in Tenants : ~Receive(p, t) /\ ~Serve(p)
            /\ ~NoCredentials(p) /\ ~DatabaseError(p)
      BY <1>1, <3>7 DEF Receive, Serve, Check, Lookup, Write, NoCredentials, TryLock,
         Finish, DatabaseError, TypeOK
    <3>9. req' # req
      BY <3>7
    <3>10. ~Tick /\ ~UNCHANGED vars
           /\ \A p \in Processes, t \in Tenants : ~ScheduledBegin(p, t) /\ ~ScheduledEnd(p, t)
      BY <3>9 DEF Tick, vars, ScheduledBegin, ScheduledEnd
    <3>11. ~Serve(q)
      BY <2>4, <3>2, <3>3, <3>4 DEF Serve
    <3>12. req[q].tenant \in Tenants
      BY <1>1 DEF TypeOK
    <3>. QED
      BY <1>1, <3>4, <3>5, <3>6, <3>8, <3>10, <3>11, <3>12 DEF Next
  <2>. QED
    BY <2>2, <2>3, <2>4
<1>2. TypeOK /\ StampInv /\ NowInv /\ [Next]_vars => [\A q \in Requests : Honest(q)]_vars
  BY <1>1
<1>. QED
  BY <1>2, TimesInvariant, PTL DEF Spec, HonestRetry

-----------------------------------------------------------------------------
(* The rate limit, with one event loop.                                    *)

\* Between two database calls of the check and the lock.
Between(r) == r.pc \in {"lookup", "write", "lock"}

\* A step that moves only q keeps the invariant if q was not between two calls
\* of another request and its new record agrees with the stamp.
LEMMA LocalStep ==
    ASSUME OneLoop, RateInv, TypeOK', NEW q \in Requests, NEW n \in Request,
           req' = [req EXCEPT ![q] = n], UNCHANGED <<clock, stamp>>,
           n.now <= clock,
           Between(n) => ~LoopBusy(q),
           n.pc \in {"lookup", "write"} =>
             stamp[n.tenant] = 0 \/ n.now >= stamp[n.tenant] + Interval,
           n.pc = "write" => n.insert = (stamp[n.tenant] = 0)
    PROVE  RateInv'
<1>1. StampInv'
  BY DEF RateInv, StampInv
<1>2. req'[q] = n /\ \A p \in Requests \ {q} : req'[p] = req[p]
  BY DEF RateInv, TypeOK
<1>3. ASSUME NEW p \in Requests, Between(req'[p]) PROVE ~LoopBusy(p)'
  <2>1. \A o \in Requests \ {p} : ~Between(req'[o])
    <3> SUFFICES ASSUME NEW o \in Requests \ {p}, Between(req'[o]) PROVE FALSE
      OBVIOUS
    <3>1. CASE p = q
      BY <1>2, <1>3, <3>1 DEF Between, LoopBusy, OneLoop
    <3>2. CASE o = q
      BY <1>2, <1>3, <3>2 DEF Between, LoopBusy, OneLoop
    <3>3. CASE p # q /\ o # q
      BY <1>2, <1>3, <3>3 DEF Between, LoopBusy, OneLoop, RateInv, PassedInv
    <3>. QED
      BY <3>1, <3>2, <3>3
  <2>. QED
    BY <2>1 DEF LoopBusy, Between
<1>4. PassedInv'
  BY <1>2, <1>3 DEF RateInv, PassedInv, Between
<1>. QED
  BY <1>1, <1>4 DEF RateInv

\* Answering q keeps the invariant.
LEMMA AnswerStep ==
    ASSUME OneLoop, RateInv, TypeOK', NEW q \in Requests, NEW n \in Request,
           req' = [req EXCEPT ![q] = n], UNCHANGED <<clock, stamp>>,
           n.pc = "idle", n.now = 0
    PROVE  RateInv'
<1>1. n.now <= clock
  BY DEF RateInv, TypeOK
<1>. QED
  BY <1>1, LocalStep DEF Between

\* Every step keeps the invariant.
LEMMA RateStep == OneLoop /\ RateInv /\ [Next]_vars => RateInv'
<1> SUFFICES ASSUME OneLoop, RateInv, [Next]_vars PROVE RateInv'
  OBVIOUS
<1>a. TypeOK /\ TypeOK' /\ StampInv /\ PassedInv
  BY TypeStep DEF RateInv
<1>1. ASSUME Tick PROVE RateInv'
  BY <1>1, <1>a DEF Tick, RateInv, TypeOK, StampInv, PassedInv, LoopBusy, Request
<1>2. ASSUME NEW q \in Requests, NEW t \in Tenants, Receive(q, t) PROVE RateInv'
  <2> DEFINE n == [req[q] EXCEPT !.pc = "check", !.tenant = t,
                                 !.answer = "none", !.retryAt = 0]
  <2>0. req[q] \in Request
    BY <1>a DEF TypeOK
  <2>1. n \in Request /\ n.pc = "check" /\ n.now = req[q].now
    BY <2>0 DEF Request, Answers
  <2>2. n.now <= clock
    BY <1>a, <2>1 DEF PassedInv
  <2>. QED
    BY <1>2, <1>a, <2>1, <2>2, LocalStep DEF Receive, Between
<1>3. ASSUME NEW q \in Requests, Check(q) PROVE RateInv'
  <2> DEFINE last == stamp[req[q].tenant]
  <2>1. last \in Nat /\ clock \in Nat /\ req[q] \in Request /\ req[q].tenant \in Tenants
    BY <1>3, <1>a DEF Check, TypeOK
  <2>2. CASE last # 0 /\ clock - last < Interval
    <3> DEFINE n == Answered(req[q], "throttled", SecondsLeft(last, clock) * Second)
    <3>1. n \in Request /\ n.pc = "idle" /\ n.now = 0
      BY <2>1, SecondsLeftType, AnsweredType DEF Answers
    <3>2. req' = [req EXCEPT ![q] = n]
      BY <1>3, <2>2 DEF Check
    <3>. QED
      BY <1>3, <1>a, <3>1, <3>2, AnswerStep DEF Check
  <2>3. CASE ~(last # 0 /\ clock - last < Interval)
    <3> DEFINE n == [req[q] EXCEPT !.pc = "lookup", !.now = clock]
    <3>1. n \in Request /\ n.pc = "lookup" /\ n.now = clock /\ n.tenant = req[q].tenant
      BY <2>1 DEF Request
    <3>2. req' = [req EXCEPT ![q] = n]
      BY <1>3, <2>3 DEF Check
    <3>3. last = 0 \/ n.now >= last + Interval
      BY <2>1, <2>3, <3>1, TimesAssumption
    <3>4. ~LoopBusy(q) /\ UNCHANGED <<clock, stamp>>
      BY <1>3 DEF Check
    <3>5. n.now <= clock
      BY <2>1, <3>1
    <3> HIDE DEF n
    <3>. QED
      BY <1>a, <3>1, <3>2, <3>3, <3>4, <3>5, LocalStep
  <2>. QED
    BY <2>2, <2>3
<1>4. ASSUME NEW q \in Requests, Lookup(q) PROVE RateInv'
  <2> DEFINE n == [req[q] EXCEPT !.pc = "write", !.insert = (stamp[req[q].tenant] = 0)]
  <2>1. req[q] \in Request
    BY <1>a DEF TypeOK
  <2>2. n \in Request /\ n.pc = "write" /\ n.now = req[q].now /\ n.tenant = req[q].tenant
        /\ n.insert = (stamp[req[q].tenant] = 0)
    BY <2>1 DEF Request
  <2>3. ~LoopBusy(q) /\ req[q].now <= clock
        /\ (stamp[req[q].tenant] = 0 \/ req[q].now >= stamp[req[q].tenant] + Interval)
    BY <1>4, <1>a DEF Lookup, PassedInv
  <2>4. req' = [req EXCEPT ![q] = n] /\ UNCHANGED <<clock, stamp>>
    BY <1>4 DEF Lookup
  <2> HIDE DEF n
  <2>. QED
    BY <1>a, <2>2, <2>3, <2>4, LocalStep
<1>5. ASSUME NEW q \in Requests, Write(q) PROVE RateInv'
  <2>1. CASE req[q].insert /\ stamp[req[q].tenant] # 0
    <3> DEFINE n == Answered(req[q], "error", 0)
    <3>1. n \in Request /\ n.pc = "idle" /\ n.now = 0
      BY <1>a, AnsweredType DEF Answers, TypeOK
    <3>2. req' = [req EXCEPT ![q] = n] /\ UNCHANGED <<clock, stamp>> /\ clock \in Nat
      BY <1>5, <1>a, <2>1 DEF Write, TypeOK
    <3> HIDE DEF n
    <3>. QED
      BY <1>a, <3>1, <3>2, AnswerStep
  <2>2. CASE ~(req[q].insert /\ stamp[req[q].tenant] # 0)
    <3>1. /\ req' = [req EXCEPT ![q] = [req[q] EXCEPT !.pc = "lock"]]
          /\ stamp' = [stamp EXCEPT ![req[q].tenant] = req[q].now]
          /\ clock' = clock
          /\ req[q].pc = "write"
      BY <1>5, <2>2 DEF Write
    <3>2. /\ req'[q].pc = "lock"
          /\ req'[q].now = req[q].now
          /\ \A p \in Requests \ {q} : req'[p] = req[p]
      BY <1>a, <3>1 DEF TypeOK, Request
    <3>3. \A p \in Requests \ {q} : ~Between(req[p])
      BY <1>a, <3>1 DEF PassedInv, LoopBusy, Between, OneLoop
    <3>4. req[q].now <= clock
      BY <1>a DEF PassedInv
    <3>5. StampInv'
      BY <1>a, <3>1, <3>4 DEF StampInv, TypeOK
    <3>6. PassedInv'
      BY <1>a, <3>1, <3>2, <3>3, <3>4 DEF PassedInv, LoopBusy, Between
    <3>. QED
      BY <1>a, <3>5, <3>6 DEF RateInv
  <2>. QED
    BY <2>1, <2>2
<1>6. ASSUME NEW q \in Requests,
             NoCredentials(q) \/ Finish(q) \/ DatabaseError(q)
      PROVE  RateInv'
  <2>1. PICK a \in Answers : req' = [req EXCEPT ![q] = Answered(req[q], a, 0)]
    BY <1>6 DEF NoCredentials, Finish, DatabaseError, Answers
  <2>2. /\ Answered(req[q], a, 0) \in Request
        /\ Answered(req[q], a, 0).pc = "idle"
        /\ Answered(req[q], a, 0).now = 0
    BY <1>a, AnsweredType DEF TypeOK
  <2>3. UNCHANGED <<clock, stamp>> /\ clock \in Nat
    BY <1>6, <1>a DEF NoCredentials, Finish, DatabaseError, TypeOK
  <2>. QED
    BY <1>a, <2>1, <2>2, <2>3, AnswerStep
<1>7. ASSUME NEW q \in Requests, TryLock(q) PROVE RateInv'
  <2>0. UNCHANGED <<clock, stamp>> /\ clock \in Nat
    BY <1>7, <1>a DEF TryLock, TypeOK
  <2>1. CASE lock[req[q].tenant] = Free
    <3> DEFINE n == [req[q] EXCEPT !.pc = "running"]
    <3>1. n \in Request /\ n.pc = "running" /\ n.now = req[q].now
      BY <1>a DEF TypeOK, Request
    <3>2. n.now <= clock
      BY <1>a, <3>1 DEF PassedInv
    <3>3. req' = [req EXCEPT ![q] = n]
      BY <1>7, <2>1 DEF TryLock
    <3> HIDE DEF n
    <3>. QED
      BY <1>a, <2>0, <3>1, <3>2, <3>3, LocalStep DEF Between
  <2>2. CASE lock[req[q].tenant] # Free
    <3> DEFINE n == Answered(req[q], "locked", Interval)
    <3>1. n \in Request /\ n.pc = "idle" /\ n.now = 0
      BY <1>a, AnsweredType, TimesAssumption DEF Answers, TypeOK
    <3>2. req' = [req EXCEPT ![q] = n]
      BY <1>7, <2>2 DEF TryLock
    <3> HIDE DEF n
    <3>. QED
      BY <1>a, <2>0, <3>1, <3>2, AnswerStep
  <2>. QED
    BY <2>1, <2>2
<1>8. ASSUME NEW p \in Processes, NEW t \in Tenants,
             ScheduledBegin(p, t) \/ ScheduledEnd(p, t)
      PROVE RateInv'
  BY <1>8, <1>a DEF ScheduledBegin, ScheduledEnd, RateInv, StampInv, PassedInv, LoopBusy
<1>9. ASSUME NEW p \in Processes, Crash(p) PROVE RateInv'
  <2>1. ASSUME NEW q \in Requests
        PROVE  \/ req'[q] = req[q]
               \/ /\ req'[q].pc = "idle"
                  /\ req'[q].now = 0
    BY <1>9, <1>a DEF Crash, Answered
  <2>2. \A q \in Requests : \/ req'[q] = req[q]
                           \/ /\ req'[q].pc = "idle"
                              /\ req'[q].now = 0
    BY <2>1
  <2>3. UNCHANGED <<clock, stamp>> /\ clock \in Nat
    BY <1>9, <1>a DEF Crash, TypeOK
  <2>4. PassedInv'
    BY <1>a, <2>2, <2>3 DEF PassedInv, LoopBusy
  <2>. QED
    BY <1>a, <2>3, <2>4 DEF RateInv, StampInv
<1>10. CASE UNCHANGED vars
  BY <1>10, <1>a DEF vars, RateInv, TypeOK, StampInv, PassedInv, LoopBusy
<1>. QED
  BY <1>1, <1>2, <1>3, <1>4, <1>5, <1>6, <1>7, <1>8, <1>9, <1>10 DEF Next, Serve

\* The inductive invariant of the rate limit.
THEOREM RateInvariant ==
    ASSUME OneLoop
    PROVE  Spec => []RateInv
<1>1. RateInv /\ [Next]_vars => RateInv'
  BY RateStep
<1>. QED
  BY <1>1, InitRate, PTL DEF Spec

\* In one process the insertion of a tenant's first stamp cannot collide.
THEOREM FirstStampsDoNotCollide ==
    ASSUME OneLoop
    PROVE  Spec => []NoInsertConflict
<1>1. RateInv => NoInsertConflict
  BY DEF RateInv, PassedInv, NoInsertConflict
<1>. QED
  BY <1>1, RateInvariant, PTL

\* In one process a tenant has at most one admission per interval.
THEOREM AtMostOnePerInterval ==
    ASSUME OneLoop
    PROVE  Spec => OnePerInterval
<1>1. ASSUME RateInv, [Next]_vars, NEW q \in Requests, Admitted(q)
      PROVE  LET last == stamp[req[q].tenant]
             IN last = 0 \/ req[q].now >= last + Interval
  BY <1>1 DEF RateInv, PassedInv, Admitted
<1>2. RateInv /\ [Next]_vars =>
        [\A q \in Requests :
           Admitted(q) => LET last == stamp[req[q].tenant]
                          IN last = 0 \/ req[q].now >= last + Interval]_vars
  BY <1>1
<1>. QED
  BY <1>2, RateInvariant, PTL DEF Spec, OnePerInterval
-----------------------------------------------------------------------------
(* The event loop and the lock, with any number of processes.              *)

\* Initially nobody is between two calls and nothing is locked.
LEMMA InitRuns == Init => LoopInv /\ LocksMatchRuns
BY SetsAssumption DEF Init, LoopInv, LocksMatchRuns

\* A step that moves only q respects the loop if q had it to itself.
LEMMA LoopLocal ==
    ASSUME TypeOK, LoopInv, NEW q \in Requests, NEW n \in Request,
           req' = [req EXCEPT ![q] = n], Between(n) => ~LoopBusy(q)
    PROVE  LoopInv'
<1>1. req'[q] = n /\ \A p \in Requests \ {q} : req'[p] = req[p]
  BY DEF TypeOK
<1>2. SUFFICES ASSUME NEW p \in Requests, NEW o \in Requests \ {p}, ProcessOf[o] = ProcessOf[p],
                      Between(req'[p]), Between(req'[o])
               PROVE  FALSE
  BY DEF LoopInv, LoopBusy, Between
<1>3. CASE p = q
  BY <1>1, <1>2, <1>3 DEF Between, LoopBusy
<1>4. CASE o = q
  BY <1>1, <1>2, <1>4 DEF Between, LoopBusy
<1>5. CASE p # q /\ o # q
  BY <1>1, <1>2, <1>5 DEF Between, LoopBusy, LoopInv
<1>. QED
  BY <1>3, <1>4, <1>5

\* A request that ends, and with it its transaction, gives its lock back.
LEMMA UnlockLocal ==
    ASSUME TypeOK, LocksMatchRuns, NEW q \in Requests, NEW n \in Request,
           req' = [req EXCEPT ![q] = n], n.pc # "running", Unlock(q)
    PROVE  LocksMatchRuns'
<1>1. req'[q] = n /\ \A p \in Requests \ {q} : req'[p] = req[p]
  BY DEF TypeOK
<1>2. \A t \in Tenants : lock'[t] = IF lock[t] = q THEN Free ELSE lock[t]
  BY DEF Unlock
<1>3. Free \notin Requests
  BY SetsAssumption
<1>. QED
  BY <1>1, <1>2, <1>3 DEF LocksMatchRuns

\* A request that is not running holds no lock before or after its step.
LEMMA IdleLocal ==
    ASSUME TypeOK, LocksMatchRuns, NEW q \in Requests, NEW n \in Request,
           req' = [req EXCEPT ![q] = n], req[q].pc # "running", n.pc # "running", lock' = lock
    PROVE  LocksMatchRuns'
<1>1. req'[q] = n /\ \A p \in Requests \ {q} : req'[p] = req[p]
  BY DEF TypeOK
<1>. QED
  BY <1>1 DEF LocksMatchRuns

\* Every step keeps both.
LEMMA RunsStep ==
    TypeOK /\ LoopInv /\ LocksMatchRuns /\ [Next]_vars => LoopInv' /\ LocksMatchRuns'
<1> SUFFICES ASSUME TypeOK, LoopInv, LocksMatchRuns, [Next]_vars
             PROVE  LoopInv' /\ LocksMatchRuns'
  OBVIOUS
<1>1. ASSUME UNCHANGED <<req, lock>> PROVE LoopInv' /\ LocksMatchRuns'
  BY <1>1 DEF LoopInv, LocksMatchRuns, LoopBusy
<1>2. ASSUME NEW q \in Requests, NEW t \in Tenants, Receive(q, t)
      PROVE  LoopInv' /\ LocksMatchRuns'
  <2> DEFINE n == [req[q] EXCEPT !.pc = "check", !.tenant = t,
                                 !.answer = "none", !.retryAt = 0]
  <2>0. req[q] \in Request
    BY DEF TypeOK
  <2>1. n \in Request /\ n.pc = "check"
    BY <2>0 DEF Request, Answers
  <2>2. req' = [req EXCEPT ![q] = n] /\ lock' = lock /\ req[q].pc = "idle"
    BY <1>2 DEF Receive
  <2> HIDE DEF n
  <2>. QED
    BY <2>1, <2>2, LoopLocal, IdleLocal DEF Between
<1>3. ASSUME NEW q \in Requests, Check(q) PROVE LoopInv' /\ LocksMatchRuns'
  <2> DEFINE last == stamp[req[q].tenant]
  <2>1. last \in Nat /\ clock \in Nat /\ req[q] \in Request
    BY <1>3 DEF Check, TypeOK
  <2>2. PICK n \in Request : /\ req' = [req EXCEPT ![q] = n]
                             /\ n.pc \in {"idle", "lookup"}
    <3>1. CASE last # 0 /\ clock - last < Interval
      <4>1. PICK w \in Nat : w = SecondsLeft(last, clock) * Second
        BY <2>1, SecondsLeftType
      <4>2. req' = [req EXCEPT ![q] = Answered(req[q], "throttled", w)]
        BY <1>3, <3>1, <4>1 DEF Check
      <4>3. Answered(req[q], "throttled", w) \in Request
            /\ Answered(req[q], "throttled", w).pc = "idle"
        BY <2>1, AnsweredType DEF Answers
      <4>. QED
        BY <4>2, <4>3
    <3>2. CASE ~(last # 0 /\ clock - last < Interval)
      <4>1. [req[q] EXCEPT !.pc = "lookup", !.now = clock] \in Request
            /\ [req[q] EXCEPT !.pc = "lookup", !.now = clock].pc = "lookup"
        BY <2>1 DEF Request
      <4>2. req' = [req EXCEPT ![q] = [req[q] EXCEPT !.pc = "lookup", !.now = clock]]
        BY <1>3, <3>2 DEF Check
      <4>. QED
        BY <4>1, <4>2
    <3>. QED
      BY <3>1, <3>2
  <2>3. ~LoopBusy(q) /\ lock' = lock /\ req[q].pc = "check"
    BY <1>3 DEF Check
  <2>. QED
    BY <2>2, <2>3, LoopLocal, IdleLocal DEF Between
<1>4. ASSUME NEW q \in Requests, Lookup(q) PROVE LoopInv' /\ LocksMatchRuns'
  <2> DEFINE n == [req[q] EXCEPT !.pc = "write", !.insert = (stamp[req[q].tenant] = 0)]
  <2>1. req[q] \in Request
    BY DEF TypeOK
  <2>2. n \in Request /\ n.pc = "write"
    BY <2>1 DEF Request
  <2>3. req' = [req EXCEPT ![q] = n] /\ ~LoopBusy(q) /\ lock' = lock /\ req[q].pc = "lookup"
    BY <1>4 DEF Lookup, LoopInv
  <2> HIDE DEF n
  <2>. QED
    BY <2>2, <2>3, LoopLocal, IdleLocal DEF Between
<1>5. ASSUME NEW q \in Requests, Write(q) PROVE LoopInv' /\ LocksMatchRuns'
  <2>1. req[q].pc = "write" /\ ~LoopBusy(q) /\ lock' = lock /\ req[q] \in Request
    BY <1>5 DEF Write, LoopInv, TypeOK
  <2>2. PICK n \in Request : /\ req' = [req EXCEPT ![q] = n]
                             /\ n.pc \in {"idle", "lock"}
    <3>1. CASE req[q].insert /\ stamp[req[q].tenant] # 0
      <4>1. Answered(req[q], "error", 0) \in Request /\ Answered(req[q], "error", 0).pc = "idle"
        BY <2>1, AnsweredType DEF Answers, TypeOK
      <4>. QED
        BY <1>5, <3>1, <4>1 DEF Write
    <3>2. CASE ~(req[q].insert /\ stamp[req[q].tenant] # 0)
      <4>1. [req[q] EXCEPT !.pc = "lock"] \in Request /\ [req[q] EXCEPT !.pc = "lock"].pc = "lock"
        BY <2>1 DEF Request
      <4>2. req' = [req EXCEPT ![q] = [req[q] EXCEPT !.pc = "lock"]]
        BY <1>5, <3>2 DEF Write
      <4>. QED
        BY <4>1, <4>2
    <3>. QED
      BY <3>1, <3>2
  <2>. QED
    BY <2>1, <2>2, LoopLocal, IdleLocal DEF Between
<1>6. ASSUME NEW q \in Requests, NoCredentials(q) PROVE LoopInv' /\ LocksMatchRuns'
  <2> DEFINE n == Answered(req[q], "forbidden", 0)
  <2>1. n \in Request /\ n.pc = "idle"
    BY AnsweredType DEF Answers, TypeOK
  <2>2. req' = [req EXCEPT ![q] = n] /\ lock' = lock /\ req[q].pc = "lock"
    BY <1>6 DEF NoCredentials
  <2> HIDE DEF n
  <2>. QED
    BY <2>1, <2>2, LoopLocal, IdleLocal DEF Between
<1>7. ASSUME NEW q \in Requests, TryLock(q) PROVE LoopInv' /\ LocksMatchRuns'
  <2>1. req[q].pc = "lock" /\ req[q] \in Request /\ req[q].tenant \in Tenants
    BY <1>7 DEF TryLock, TypeOK
  <2>2. CASE lock[req[q].tenant] = Free
    <3> DEFINE n == [req[q] EXCEPT !.pc = "running"]
    <3>1. n \in Request /\ n.pc = "running" /\ n.tenant = req[q].tenant
      BY <2>1 DEF Request
    <3>2. req' = [req EXCEPT ![q] = n] /\ lock' = [lock EXCEPT ![req[q].tenant] = q]
      BY <1>7, <2>2 DEF TryLock
    <3> HIDE DEF n
    <3>3. LoopInv'
      BY <3>1, <3>2, LoopLocal DEF Between
    <3>4. req'[q] = n /\ \A p \in Requests \ {q} : req'[p] = req[p]
      BY <3>2 DEF TypeOK
    <3>5. \A t \in Tenants : lock'[t] = IF t = req[q].tenant THEN q ELSE lock[t]
      BY <3>2 DEF TypeOK
    <3>6. \A p \in Requests : p # Free
      BY SetsAssumption
    <3>7. LocksMatchRuns'
      BY <2>1, <2>2, <3>1, <3>4, <3>5, <3>6 DEF LocksMatchRuns
    <3>. QED
      BY <3>3, <3>7
  <2>3. CASE lock[req[q].tenant] # Free
    <3> DEFINE n == Answered(req[q], "locked", Interval)
    <3>1. n \in Request /\ n.pc = "idle"
      BY AnsweredType, TimesAssumption DEF Answers, TypeOK
    <3>2. req' = [req EXCEPT ![q] = n] /\ lock' = lock
      BY <1>7, <2>3 DEF TryLock
    <3> HIDE DEF n
    <3>. QED
      BY <2>1, <3>1, <3>2, LoopLocal, IdleLocal DEF Between
  <2>. QED
    BY <2>2, <2>3
<1>8. ASSUME NEW q \in Requests, Finish(q) \/ DatabaseError(q)
      PROVE  LoopInv' /\ LocksMatchRuns'
  <2>1. PICK a \in Answers : req' = [req EXCEPT ![q] = Answered(req[q], a, 0)]
    BY <1>8 DEF Finish, DatabaseError, Answers
  <2>2. Answered(req[q], a, 0) \in Request /\ Answered(req[q], a, 0).pc = "idle"
    BY AnsweredType DEF TypeOK
  <2>3. Unlock(q)
    BY <1>8 DEF Finish, DatabaseError
  <2>. QED
    BY <2>1, <2>2, <2>3, LoopLocal, UnlockLocal DEF Between
<1>9. ASSUME NEW p \in Processes, NEW t \in Tenants,
             ScheduledBegin(p, t) \/ ScheduledEnd(p, t)
      PROVE  LoopInv' /\ LocksMatchRuns'
  <2>1. \A q \in Requests : q # p /\ q # Free
    BY SetsAssumption
  <2>2. LoopInv'
    BY <1>9 DEF ScheduledBegin, ScheduledEnd, LoopInv, LoopBusy
  <2>3. LocksMatchRuns'
    BY <1>9, <2>1 DEF ScheduledBegin, ScheduledEnd, LocksMatchRuns, TypeOK
  <2>. QED
    BY <2>2, <2>3
<1>10. ASSUME NEW p \in Processes, Crash(p) PROVE LoopInv' /\ LocksMatchRuns'
  <2>1. ASSUME NEW q \in Requests
        PROVE  IF ProcessOf[q] = p THEN req'[q].pc = "idle" ELSE req'[q] = req[q]
    BY <1>10 DEF Crash, Answered
  <2>2. LoopInv'
    BY <2>1 DEF LoopInv, LoopBusy
  <2>3. ASSUME NEW q \in Requests, NEW t \in Tenants
        PROVE  lock'[t] = q <=> lock[t] = q /\ ProcessOf[q] # p
    <3>1. q # Free /\ q # p
      BY SetsAssumption
    <3>2. lock'[t] = IF lock[t] = p \/ \E o \in Requests : lock[t] = o /\ ProcessOf[o] = p
                     THEN Free ELSE lock[t]
      BY <1>10 DEF Crash
    <3>. QED
      BY <3>1, <3>2
  <2>4. LocksMatchRuns'
    <3>1. SUFFICES ASSUME NEW q \in Requests, NEW t \in Tenants
                   PROVE  lock'[t] = q <=> req'[q].pc = "running" /\ req'[q].tenant = t
      BY DEF LocksMatchRuns
    <3>. QED
      BY <2>1, <2>3 DEF LocksMatchRuns
  <2>. QED
    BY <2>2, <2>4
<1>. QED
  BY <1>1, <1>2, <1>3, <1>4, <1>5, <1>6, <1>7, <1>8, <1>9, <1>10
     DEF Next, Serve, Tick, vars

\* With any number of processes, a request has its event loop to itself from the
\* check to the answer about the lock, and the locks held by requests are those
\* of the runs under way, whatever fails or crashes.
THEOREM LocksFollowRuns == Spec => [](LoopInv /\ LocksMatchRuns)
<1>1. Init => TypeOK
  BY InitRate DEF RateInv
<1>2. TypeOK /\ LoopInv /\ LocksMatchRuns /\ [Next]_vars =>
        (TypeOK /\ LoopInv /\ LocksMatchRuns)'
  BY TypeStep, RunsStep
<1>. QED
  BY <1>1, <1>2, InitRuns, PTL DEF Spec

\* A tenant is synchronised by one run at a time, manual or scheduled, across all
\* processes.
THEOREM RunsExcludeEachOther == Spec => []OneRunPerTenant
<1>1. TypeOK /\ LocksMatchRuns => OneRunPerTenant
  <2> SUFFICES ASSUME TypeOK, LocksMatchRuns, NEW q \in Requests, req[q].pc = "running"
               PROVE  /\ lock[req[q].tenant] = q
                      /\ q \notin Processes
    BY DEF OneRunPerTenant
  <2>1. req[q].tenant \in Tenants
    BY DEF TypeOK
  <2>. QED
    BY <2>1, SetsAssumption DEF LocksMatchRuns
<1>. QED
  BY <1>1, TypeCorrect, LocksFollowRuns, PTL
=============================================================================
