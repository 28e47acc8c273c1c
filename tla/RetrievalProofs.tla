-------------------------- MODULE RetrievalProofs --------------------------
(***************************************************************************)
(* Theorems about Retrieval, for all tenants, assignments, texts, numbers  *)
(* of questions under way and of restarts.                                 *)
(***************************************************************************)
EXTENDS Retrieval, TLAPS

\* What is remembered or was reported is stored, or failed to be.
IndexInv == hashes \cup reported \subseteq Stored \cup failed

\* The process has added what it remembers only.
CountInv ==
    \A k \in Keys : /\ added[k] <= 1
                    /\ k \notin hashes => added[k] = 0

\* Texts that are stored or can be stored were held by an assignment.
HadInv ==
    /\ Stored \subseteq had
    /\ \A a \in Assignments : Documents(a) \subseteq had

\* A question that took vectors finds the flag set, unless another request's
\* constructor cleared it.
AskInv ==
    \A q \in Askers :
        ask[q].phase \in {"searching", "found"} /\ ~ask[q].misled => health

RetrievalInv ==
    /\ TypeOK
    /\ IndexInv
    /\ CountInv
    /\ HadInv
    /\ AskInv
    /\ EvidenceIsOwn
    /\ ClaimsAreTrue

\* The documents of an assignment are documents of its tenant.
LEMMA DocumentsAreKeys ==
    ASSUME TypeOK, NEW a \in Assignments
    PROVE  Documents(a) \subseteq Keys
BY RetrievalAssumption DEF TypeOK, Documents, Keys

LEMMA IdleIsQuestion == Idle \in Question
BY DEF Idle, Question, Phases, Routes

LEMMA UnsearchedIsAnswer ==
    ASSUME NEW route \in Routes
    PROVE  Unsearched(route) \in Answer
<1>1. {} \in SUBSET Keys
  OBVIOUS
<1>. QED
  BY <1>1 DEF Unsearched, Answer

LEMMA InitEstablishes == Init => RetrievalInv
<1>. SUFFICES ASSUME Init PROVE RetrievalInv
  OBVIOUS
<1>1. TypeOK
  <2>1. content \in [Assignments -> SUBSET Texts]
    BY DEF Init
  <2>2. had \subseteq Keys
    BY <2>1, RetrievalAssumption DEF Init, Documents, Keys
  <2>3. vectors \in [Keys -> Nat] /\ added \in [Keys -> Nat]
    BY DEF Init
  <2>4. ask \in [Askers -> Question]
    BY IdleIsQuestion DEF Init
  <2>5. answer \in Answer
    BY UnsearchedIsAnswer DEF Init, Routes
  <2>6. restarts \in 0 .. MaxRestarts
    BY RetrievalAssumption DEF Init
  <2>7. /\ hashes \subseteq Keys /\ reported \subseteq Keys /\ failed \subseteq Keys
        /\ up \in BOOLEAN /\ health \in BOOLEAN
    BY DEF Init
  <2>. QED
    BY <2>1, <2>2, <2>3, <2>4, <2>5, <2>6, <2>7 DEF TypeOK
<1>2. Stored = {}
  BY DEF Init, Stored
<1>3. IndexInv /\ CountInv
  BY DEF Init, IndexInv, CountInv
<1>4. HadInv
  BY <1>2 DEF Init, HadInv
<1>5. AskInv /\ EvidenceIsOwn /\ ClaimsAreTrue
  BY DEF Init, AskInv, EvidenceIsOwn, ClaimsAreTrue, Idle, Unsearched
<1>. QED
  BY <1>1, <1>3, <1>4, <1>5 DEF RetrievalInv

\* An upsert leaves alone what concerns the question.
LEMMA AskingUntouched ==
    ASSUME RetrievalInv, asking' = asking, had' = had
    PROVE  AskInv' /\ EvidenceIsOwn' /\ ClaimsAreTrue'
BY DEF RetrievalInv, AskInv, EvidenceIsOwn, ClaimsAreTrue, asking

LEMMA EditPreserves ==
    ASSUME RetrievalInv, NEW a \in Assignments, Edit(a)
    PROVE  RetrievalInv'
<1>. USE DEF RetrievalInv
<1>1. PICK X \in Contents[a] :
        /\ content' = [content EXCEPT ![a] = X]
        /\ had' = had \cup ({TenantOf[a]} \X X)
        /\ UNCHANGED <<up, index, asking, restarts>>
  BY DEF Edit
<1>2. X \subseteq Texts /\ TenantOf[a] \in Tenants
  BY RetrievalAssumption
<1>3. TypeOK'
  <2>1. content' \in [Assignments -> SUBSET Texts]
    BY <1>1, <1>2 DEF TypeOK
  <2>2. had' \subseteq Keys
    BY <1>1, <1>2 DEF TypeOK, Keys
  <2>. QED
    BY <1>1, <2>1, <2>2 DEF TypeOK, index, asking
<1>4. IndexInv' /\ CountInv'
  BY <1>1 DEF IndexInv, CountInv, index, Stored
<1>5. HadInv'
  <2>1. (Stored \subseteq had)'
    BY <1>1 DEF HadInv, Stored, index
  <2>2. ASSUME NEW b \in Assignments PROVE (Documents(b) \subseteq had)'
    <3>1. CASE b = a
      BY <3>1, <1>1 DEF Documents, TypeOK
    <3>2. CASE b # a
      <4>1. Documents(b)' = Documents(b)
        BY <3>2, <1>1 DEF Documents, TypeOK
      <4>. QED
        BY <4>1, <1>1 DEF HadInv
    <3>. QED
      BY <3>1, <3>2
  <2>. QED
    BY <2>1, <2>2 DEF HadInv
<1>6. AskInv' /\ EvidenceIsOwn' /\ ClaimsAreTrue'
  BY <1>1 DEF AskInv, EvidenceIsOwn, ClaimsAreTrue, asking
<1>. QED
  BY <1>3, <1>4, <1>5, <1>6

LEMMA RestartPreserves ==
    ASSUME RetrievalInv, Restart
    PROVE  RetrievalInv'
<1>. USE DEF RetrievalInv
<1>1. restarts \in Nat /\ restarts' = restarts + 1 /\ restarts' \in 0 .. MaxRestarts
  BY RetrievalAssumption DEF Restart, TypeOK
<1>2. TypeOK'
  <2>1. ask' \in [Askers -> Question] /\ answer' \in Answer
    BY IdleIsQuestion, UnsearchedIsAnswer DEF Restart, Routes
  <2>2. added' \in [Keys -> Nat]
    BY DEF Restart
  <2>. QED
    BY <1>1, <2>1, <2>2 DEF Restart, TypeOK
<1>3. IndexInv'
  BY DEF Restart, IndexInv, Stored
<1>4. CountInv'
  BY DEF Restart, CountInv
<1>5. HadInv'
  BY DEF Restart, HadInv, Stored, Documents
<1>6. AskInv' /\ EvidenceIsOwn' /\ ClaimsAreTrue'
  BY DEF Restart, AskInv, EvidenceIsOwn, ClaimsAreTrue, Idle, Unsearched
<1>. QED
  BY <1>2, <1>3, <1>4, <1>5, <1>6

\* What all remembered documents satisfy, the documents of an upsert that
\* finds nothing new satisfy.
LEMMA IngestUnchangedPreserves ==
    ASSUME RetrievalInv, NEW a \in Assignments, IngestUnchanged(a)
    PROVE  RetrievalInv'
<1>. USE DEF RetrievalInv
<1>1. Documents(a) \subseteq Keys
  BY DocumentsAreKeys
<1>2. Documents(a) \subseteq hashes
  BY DEF IngestUnchanged, Changed, Known
<1>3. TypeOK'
  BY <1>1 DEF IngestUnchanged, TypeOK, asking
<1>4. IndexInv' /\ CountInv' /\ HadInv'
  BY <1>2 DEF IngestUnchanged, IndexInv, CountInv, HadInv, Stored, Documents
<1>5. AskInv' /\ EvidenceIsOwn' /\ ClaimsAreTrue'
  BY AskingUntouched DEF IngestUnchanged
<1>. QED
  BY <1>3, <1>4, <1>5

LEMMA IngestStoredPreserves ==
    ASSUME RetrievalInv, NEW a \in Assignments, IngestStored(a)
    PROVE  RetrievalInv'
<1>. USE DEF RetrievalInv
<1>. DEFINE new == Changed(Documents(a))
<1>1. Documents(a) \subseteq Keys /\ Documents(a) \subseteq had
  BY DocumentsAreKeys DEF HadInv
<1>2. new \subseteq Documents(a) /\ new \cap hashes = {} /\ Documents(a) \subseteq hashes \cup new
  BY DEF Changed, Known
<1>3. /\ hashes' = hashes \cup new
      /\ vectors' = [k \in Keys |-> IF k \in new THEN vectors[k] + 1 ELSE vectors[k]]
      /\ added' = [k \in Keys |-> IF k \in new THEN added[k] + 1 ELSE added[k]]
      /\ reported' = reported \cup Documents(a)
      /\ failed' = failed \ new
      /\ UNCHANGED <<content, up, asking, restarts, had>>
  BY DEF IngestStored, Remember, OneMore
<1>. HIDE DEF new
<1>4. TypeOK'
  <2>1. vectors' \in [Keys -> Nat] /\ added' \in [Keys -> Nat]
    BY <1>3 DEF TypeOK
  <2>. QED
    BY <1>1, <1>2, <1>3, <2>1 DEF TypeOK, asking
<1>5. Stored' = Stored \cup new
  <2>1. ASSUME NEW k \in Keys PROVE vectors'[k] > 0 <=> (vectors[k] > 0 \/ k \in new)
    BY <1>3 DEF TypeOK
  <2>. QED
    BY <2>1, <1>1, <1>2 DEF Stored
<1>6. IndexInv'
  BY <1>1, <1>2, <1>3, <1>5 DEF IndexInv
<1>7. CountInv'
  <2>. SUFFICES ASSUME NEW k \in Keys
                PROVE  /\ added'[k] <= 1
                       /\ k \notin hashes' => added'[k] = 0
    BY DEF CountInv
  <2>1. added[k] \in Nat
    BY DEF TypeOK
  <2>2. CASE k \in new
    BY <2>1, <2>2, <1>2, <1>3 DEF CountInv
  <2>3. CASE k \notin new
    BY <2>1, <2>3, <1>3 DEF CountInv
  <2>. QED
    BY <2>2, <2>3
<1>8. HadInv'
  BY <1>1, <1>2, <1>3, <1>5 DEF HadInv, Documents
<1>9. AskInv' /\ EvidenceIsOwn' /\ ClaimsAreTrue'
  BY <1>3, AskingUntouched
<1>. QED
  BY <1>4, <1>6, <1>7, <1>8, <1>9

LEMMA IngestFailsPreserves ==
    ASSUME RetrievalInv, NEW a \in Assignments, IngestFails(a)
    PROVE  RetrievalInv'
<1>. USE DEF RetrievalInv
<1>. DEFINE new == Changed(Documents(a))
<1>1. new \subseteq Keys
  BY DocumentsAreKeys DEF Changed
<1>2. /\ hashes' = hashes \cup new
      /\ failed' = failed \cup new
      /\ UNCHANGED <<content, up, vectors, added, reported, asking, restarts, had>>
  BY DEF IngestFails, Remember
<1>. HIDE DEF new
<1>3. TypeOK'
  BY <1>1, <1>2 DEF TypeOK, asking
<1>4. IndexInv' /\ CountInv' /\ HadInv'
  BY <1>2 DEF IndexInv, CountInv, HadInv, Stored, Documents
<1>5. AskInv' /\ EvidenceIsOwn' /\ ClaimsAreTrue'
  BY <1>2, AskingUntouched
<1>. QED
  BY <1>3, <1>4, <1>5

\* A step of the question leaves the index and the assignments alone.
LEMMA IndexUntouched ==
    ASSUME RetrievalInv, UNCHANGED <<content, index, restarts, had>>
    PROVE  IndexInv' /\ CountInv' /\ HadInv'
BY DEF RetrievalInv, IndexInv, CountInv, HadInv, Stored, Documents, index

\* A request that has not reached the loop sets the flag of all; those it
\* misleads are marked.
LEMMA ProbesPreserve ==
    ASSUME RetrievalInv, NEW q \in Askers,
           Ask(q) \/ Construct(q) \/ Refresh(q) \/ ProbeRaises(q)
    PROVE  RetrievalInv'
<1>. USE DEF RetrievalInv
<1>1. CASE Ask(q)
  <2>1. PICK r : /\ r = [Idle EXCEPT !.phase = "probing", !.probe = up]
                 /\ ask' = [ask EXCEPT ![q] = r]
    BY <1>1 DEF Ask
  <2>2. /\ r \in Question
        /\ r.phase = "probing"
    BY <2>1 DEF Idle, Question, Phases, Routes, TypeOK
  <2>3. TypeOK'
    BY <1>1, <2>1, <2>2 DEF Ask, TypeOK, index
  <2>4. IndexInv' /\ CountInv' /\ HadInv'
    BY <1>1, IndexUntouched DEF Ask
  <2>5. AskInv' /\ EvidenceIsOwn' /\ ClaimsAreTrue'
    BY <1>1, <2>1, <2>2 DEF Ask, AskInv, EvidenceIsOwn, ClaimsAreTrue, TypeOK
  <2>. QED
    BY <2>3, <2>4, <2>5
<1>2. CASE Construct(q)
  <2>. DEFINE misled(p) == ask[p].misled
                           \/ (~ask[q].probe /\ ask[p].phase \in {"searching", "found"})
              next(p) == IF p = q THEN [Idle EXCEPT !.phase = "constructed"]
                         ELSE [ask[p] EXCEPT !.misled = misled(p)]
  <2>1. /\ ask' = [p \in Askers |-> next(p)]
        /\ health' = ask[q].probe
        /\ UNCHANGED <<content, up, index, answer, restarts, had>>
    BY <1>2 DEF Construct
  <2>2. ASSUME NEW p \in Askers
        PROVE  /\ next(p) \in Question
               /\ next(p).phase \in {"searching", "found"} /\ ~next(p).misled
                    => ask[q].probe
    <3>1. CASE p = q
      BY <3>1 DEF Idle, Question, Phases, Routes
    <3>2. CASE p # q
      <4>1. ask[p] \in Question /\ ask[q].probe \in BOOLEAN
        BY DEF TypeOK, Question
      <4>2. PICK m \in BOOLEAN : m = misled(p)
        BY <4>1 DEF Question
      <4>3. next(p) = [ask[p] EXCEPT !.misled = m]
        BY <3>2, <4>2
      <4>4. /\ next(p) \in Question
            /\ next(p).phase = ask[p].phase
            /\ next(p).misled = m
        BY <4>1, <4>3 DEF Question
      <4>. HIDE DEF next
      <4>5. ask[p].phase \in {"searching", "found"} /\ ~m => ask[q].probe
        BY <4>2
      <4>. QED
        BY <4>4, <4>5
    <3>. QED
      BY <3>1, <3>2
  <2>. HIDE DEF next
  <2>3. TypeOK'
    <3>1. ask' \in [Askers -> Question]
      BY <2>1, <2>2
    <3>2. health' \in BOOLEAN
      BY <2>1 DEF TypeOK, Question
    <3>. QED
      BY <2>1, <3>1, <3>2 DEF TypeOK, index
  <2>4. IndexInv' /\ CountInv' /\ HadInv'
    BY <2>1, IndexUntouched
  <2>5. AskInv'
    BY <2>1, <2>2 DEF AskInv
  <2>6. EvidenceIsOwn' /\ ClaimsAreTrue'
    BY <2>1 DEF EvidenceIsOwn, ClaimsAreTrue
  <2>. QED
    BY <2>3, <2>4, <2>5, <2>6
<1>3. CASE Refresh(q)
  <2>1. PICK r : /\ r = [ask[q] EXCEPT !.phase = "refreshed"]
                 /\ ask' = [ask EXCEPT ![q] = r]
    BY <1>3 DEF Refresh
  <2>2. /\ r \in Question
        /\ r.phase = "refreshed"
    BY <2>1 DEF Question, Phases, TypeOK
  <2>3. answer' \in Answer
    BY <1>3, UnsearchedIsAnswer DEF Refresh, Routes
  <2>4. TypeOK'
    BY <1>3, <2>1, <2>2, <2>3 DEF Refresh, TypeOK, index
  <2>5. IndexInv' /\ CountInv' /\ HadInv'
    BY <1>3, IndexUntouched DEF Refresh
  <2>6. AskInv'
    <3>1. ASSUME NEW p \in Askers PROVE ask'[p].phase \notin {"searching", "found"}
      <4>1. ask[p].phase \notin {"searching", "found"}
        BY <1>3 DEF Refresh, LoopFree, OnLoop
      <4>. QED
        BY <4>1, <2>1, <2>2 DEF TypeOK
    <3>. QED
      BY <3>1 DEF AskInv
  <2>7. EvidenceIsOwn' /\ ClaimsAreTrue'
    BY <1>3 DEF Refresh, EvidenceIsOwn, ClaimsAreTrue, Unsearched
  <2>. QED
    BY <2>4, <2>5, <2>6, <2>7
<1>4. CASE ProbeRaises(q)
  <2>1. ask' = [ask EXCEPT ![q] = Idle] /\ Idle.phase = "idle"
    BY <1>4 DEF ProbeRaises, Idle
  <2>2. TypeOK'
    BY <1>4, <2>1, IdleIsQuestion DEF ProbeRaises, TypeOK, index
  <2>3. IndexInv' /\ CountInv' /\ HadInv'
    BY <1>4, IndexUntouched DEF ProbeRaises
  <2>4. AskInv' /\ EvidenceIsOwn' /\ ClaimsAreTrue'
    BY <1>4, <2>1 DEF ProbeRaises, AskInv, EvidenceIsOwn, ClaimsAreTrue, TypeOK
  <2>. QED
    BY <2>2, <2>3, <2>4
<1>. QED
  BY <1>1, <1>2, <1>3, <1>4

\* An answer without vectors claims none.
LEMMA AnswerFromTablesPreserves ==
    ASSUME RetrievalInv, NEW q \in Askers, AnswerFromTables(q)
    PROVE  RetrievalInv'
<1>. USE DEF RetrievalInv
<1>1. PICK route \in {"unsupported", "relational"} : answer' = Unsearched(route)
  BY DEF AnswerFromTables
<1>2. /\ ask' = [ask EXCEPT ![q] = Idle]
      /\ UNCHANGED <<content, up, index, health, restarts, had>>
      /\ Idle.phase = "idle"
  BY DEF AnswerFromTables, Idle
<1>3. TypeOK'
  <2>1. answer' \in Answer
    BY <1>1, UnsearchedIsAnswer DEF Routes
  <2>. QED
    BY <1>2, <2>1, IdleIsQuestion DEF TypeOK, index
<1>4. IndexInv' /\ CountInv' /\ HadInv'
  BY <1>2, IndexUntouched
<1>5. AskInv'
  BY <1>2 DEF AskInv, TypeOK
<1>6. EvidenceIsOwn' /\ ClaimsAreTrue'
  BY <1>1 DEF EvidenceIsOwn, ClaimsAreTrue, Unsearched
<1>. QED
  BY <1>3, <1>4, <1>5, <1>6

\* A route that needs vectors is only taken when the flag is set.
LEMMA TakeVectorsPreserves ==
    ASSUME RetrievalInv, NEW q \in Askers, TakeVectors(q)
    PROVE  RetrievalInv'
<1>. USE DEF RetrievalInv
<1>1. PICK asked \in Routes :
        /\ Route(asked) \in {"semantic", "hybrid"}
        /\ ask' = [ask EXCEPT ![q] =
                     [Idle EXCEPT !.phase = "searching", !.route = Route(asked)]]
  BY DEF TakeVectors
<1>2. UNCHANGED <<content, up, index, health, answer, restarts, had>>
  BY DEF TakeVectors
<1>3. health
  BY <1>1 DEF Route, Routes
<1>4. PICK route \in Routes : route = Route(asked)
  BY <1>1 DEF Routes
<1>5. PICK r : /\ r = [Idle EXCEPT !.phase = "searching", !.route = route]
               /\ ask' = [ask EXCEPT ![q] = r]
  BY <1>1, <1>4
<1>6. r \in Question
  BY <1>5 DEF Idle, Question, Phases
<1>7. TypeOK'
  BY <1>2, <1>5, <1>6 DEF TypeOK, index
<1>8. IndexInv' /\ CountInv' /\ HadInv'
  BY <1>2, IndexUntouched
<1>9. AskInv'
  BY <1>2, <1>3 DEF AskInv
<1>10. EvidenceIsOwn' /\ ClaimsAreTrue'
  BY <1>2 DEF EvidenceIsOwn, ClaimsAreTrue
<1>. QED
  BY <1>7, <1>8, <1>9, <1>10

\* Looking at the flag can only set it.
LEMMA LookPreserves ==
    ASSUME RetrievalInv, NEW q \in Askers, Look(q)
    PROVE  RetrievalInv'
<1>. USE DEF RetrievalInv
<1>1. PICK r : /\ r = [ask[q] EXCEPT !.phase = "found"]
               /\ ask' = [ask EXCEPT ![q] = r]
  BY DEF Look
<1>2. /\ ask[q].phase = "searching"
      /\ health' = (health \/ up)
      /\ UNCHANGED <<content, up, index, answer, restarts, had>>
  BY DEF Look
<1>3. r \in Question /\ r.misled = ask[q].misled
  BY <1>1 DEF Question, Phases, TypeOK
<1>4. TypeOK'
  <2>1. health' \in BOOLEAN
    BY <1>2
  <2>. QED
    BY <1>1, <1>2, <1>3, <2>1 DEF TypeOK, index
<1>5. IndexInv' /\ CountInv' /\ HadInv'
  BY <1>2, IndexUntouched
<1>6. AskInv'
  <2>. SUFFICES ASSUME NEW p \in Askers,
                       ask'[p].phase \in {"searching", "found"}, ~ask'[p].misled
                PROVE  health'
    BY DEF AskInv
  <2>1. ask[p].phase \in {"searching", "found"} /\ ~ask[p].misled
    BY <1>1, <1>2, <1>3 DEF TypeOK
  <2>2. health
    BY <2>1 DEF AskInv
  <2>. QED
    BY <2>2, <1>2
<1>7. EvidenceIsOwn' /\ ClaimsAreTrue'
  BY <1>2 DEF EvidenceIsOwn, ClaimsAreTrue
<1>. QED
  BY <1>4, <1>5, <1>6, <1>7

\* What a search that was not misled answers, it has found in the store.
LEMMA AnswerFromVectorsPreserves ==
    ASSUME RetrievalInv, NEW q \in Askers, AnswerFromVectors(q)
    PROVE  RetrievalInv'
<1>. USE DEF RetrievalInv
<1>0. PICK t \in Tenants : \E found \in SUBSET Matches(t) :
        answer' = [route    |-> ask[q].route,
                   tenant   |-> t,
                   evidence |-> IF health THEN found ELSE {},
                   searched |-> health,
                   misled   |-> ask[q].misled]
  BY DEF AnswerFromVectors
<1>1. PICK found \in SUBSET Matches(t) :
        answer' = [route    |-> ask[q].route,
                   tenant   |-> t,
                   evidence |-> IF health THEN found ELSE {},
                   searched |-> health,
                   misled   |-> ask[q].misled]
  BY <1>0
<1>2. /\ ask[q].phase = "found"
      /\ ask' = [ask EXCEPT ![q] = Idle]
      /\ UNCHANGED <<content, up, index, health, restarts, had>>
      /\ Idle.phase = "idle"
  BY DEF AnswerFromVectors, Idle
<1>3. PICK docs : docs = IF health THEN found ELSE {}
  OBVIOUS
<1>4. docs \subseteq Stored /\ \A k \in docs : k[1] = t
  BY <1>3 DEF Matches
<1>5. answer' = [route |-> ask[q].route, tenant |-> t, evidence |-> docs,
                 searched |-> health, misled |-> ask[q].misled]
  BY <1>1, <1>3
<1>6. TypeOK'
  <2>1. ask[q].route \in Routes /\ ask[q].misled \in BOOLEAN
    BY DEF TypeOK, Question
  <2>2. docs \in SUBSET Keys
    BY <1>4 DEF Stored
  <2>3. answer' \in Answer
    BY <1>5, <2>1, <2>2 DEF Answer, TypeOK
  <2>. QED
    BY <1>2, <2>3, IdleIsQuestion DEF TypeOK, index
<1>7. IndexInv' /\ CountInv' /\ HadInv'
  BY <1>2, IndexUntouched
<1>8. AskInv'
  BY <1>2 DEF AskInv, TypeOK
<1>9. EvidenceIsOwn'
  BY <1>2, <1>4, <1>5 DEF EvidenceIsOwn, HadInv
<1>10. ClaimsAreTrue'
  <2>1. ask[q].misled \/ health
    BY <1>2, Zenon DEF AskInv
  <2>2. answer'.searched = health /\ answer'.misled = ask[q].misled
    BY <1>5
  <2>. QED
    BY <2>1, <2>2 DEF ClaimsAreTrue
<1>. QED
  BY <1>6, <1>7, <1>8, <1>9, <1>10

LEMMA AnswerFailsPreserves ==
    ASSUME RetrievalInv, NEW q \in Askers, AnswerFails(q)
    PROVE  RetrievalInv'
<1>. USE DEF RetrievalInv
<1>1. /\ ask' = [ask EXCEPT ![q] = Idle]
      /\ UNCHANGED <<content, up, index, health, answer, restarts, had>>
      /\ Idle.phase = "idle"
  BY DEF AnswerFails, Idle
<1>2. TypeOK'
  BY <1>1, IdleIsQuestion DEF TypeOK, index
<1>3. IndexInv' /\ CountInv' /\ HadInv'
  BY <1>1, IndexUntouched
<1>4. AskInv' /\ EvidenceIsOwn' /\ ClaimsAreTrue'
  BY <1>1 DEF AskInv, EvidenceIsOwn, ClaimsAreTrue, TypeOK
<1>. QED
  BY <1>2, <1>3, <1>4

LEMMA NextPreserves == RetrievalInv /\ [Next]_vars => RetrievalInv'
<1>. SUFFICES ASSUME RetrievalInv, [Next]_vars PROVE RetrievalInv'
  OBVIOUS
<1>1. ASSUME NEW a \in Assignments, Edit(a) PROVE RetrievalInv'
  BY <1>1, EditPreserves
<1>2. ASSUME NEW a \in Assignments, Ingest(a) PROVE RetrievalInv'
  BY <1>2, IngestUnchangedPreserves, IngestStoredPreserves, IngestFailsPreserves
     DEF Ingest
<1>3. CASE ProviderChanges
  <2>1. TypeOK'
    BY <1>3 DEF ProviderChanges, RetrievalInv, TypeOK, index, asking
  <2>2. IndexInv' /\ CountInv' /\ HadInv'
    BY <1>3, IndexUntouched DEF ProviderChanges
  <2>3. AskInv' /\ EvidenceIsOwn' /\ ClaimsAreTrue'
    BY <1>3, AskingUntouched DEF ProviderChanges
  <2>. QED
    BY <2>1, <2>2, <2>3 DEF RetrievalInv
<1>4. CASE Restart
  BY <1>4, RestartPreserves
<1>5. ASSUME NEW q \in Askers, Ask(q) \/ Construct(q) \/ Refresh(q) \/ ProbeRaises(q)
      PROVE  RetrievalInv'
  BY <1>5, ProbesPreserve
<1>6. ASSUME NEW q \in Askers,
             \/ AnswerFromTables(q) \/ TakeVectors(q)
             \/ Look(q) \/ AnswerFromVectors(q) \/ AnswerFails(q)
      PROVE  RetrievalInv'
  BY <1>6, AnswerFromTablesPreserves, TakeVectorsPreserves, LookPreserves,
     AnswerFromVectorsPreserves, AnswerFailsPreserves
<1>7. CASE UNCHANGED vars
  <2>1. TypeOK'
    BY <1>7 DEF RetrievalInv, TypeOK, vars, index, asking
  <2>2. IndexInv' /\ CountInv' /\ HadInv'
    BY <1>7, IndexUntouched DEF vars
  <2>3. AskInv' /\ EvidenceIsOwn' /\ ClaimsAreTrue'
    BY <1>7, AskingUntouched DEF vars
  <2>. QED
    BY <2>1, <2>2, <2>3 DEF RetrievalInv
<1>. QED
  BY <1>1, <1>2, <1>3, <1>4, <1>5, <1>6, <1>7 DEF Next

THEOREM Invariant == Spec => []RetrievalInv
BY InitEstablishes, NextPreserves, PTL DEF Spec

\* Every variable keeps its type; in particular an answer names one of the four
\* routes of RAGRouter.
THEOREM TypeCorrect == Spec => []TypeOK
<1>1. RetrievalInv => TypeOK
  BY DEF RetrievalInv
<1>. QED
  BY <1>1, Invariant, PTL

\* What VectorStore.upsert returned for is in PGVector, unless an earlier
\* upsert of it raised.
THEOREM ReportedIsIndexed == Spec => []ContentIsIndexed
<1>1. RetrievalInv => ContentIsIndexed
  BY DEF RetrievalInv, IndexInv, ContentIsIndexed
<1>. QED
  BY <1>1, Invariant, PTL

\* In its life a process embeds and stores a tenant's text at most once.
THEOREM EmbeddedOnce == Spec => []EmbeddedOncePerProcess
<1>1. RetrievalInv => EmbeddedOncePerProcess
  BY DEF RetrievalInv, CountInv, EmbeddedOncePerProcess
<1>. QED
  BY <1>1, Invariant, PTL

\* The evidence of an answer was held by an assignment of the asking tenant.
THEOREM EvidenceStaysOwn == Spec => []EvidenceIsOwn
<1>1. RetrievalInv => EvidenceIsOwn
  BY DEF RetrievalInv
<1>. QED
  BY <1>1, Invariant, PTL

\* A semantic or hybrid answer was searched for in the store, unless another
\* request reported the provider down meanwhile.
THEOREM ClaimsStayTrue == Spec => []ClaimsAreTrue
<1>1. RetrievalInv => ClaimsAreTrue
  BY DEF RetrievalInv
<1>. QED
  BY <1>1, Invariant, PTL
=============================================================================
