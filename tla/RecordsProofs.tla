--------------------------- MODULE RecordsProofs ---------------------------
(***************************************************************************)
(* Theorems about Records, for all tenants, Canvas ids and items.          *)
(***************************************************************************)
EXTENDS RecordsAlone, SequenceTheorems, TLAPS

\* The tables are sound: the properties of Records about rows, for any rows.
OwnersIn(rs, t) == {r.canvas : r \in {s \in rs : s.tenant = t /\ s.kind = "user"}}

Leads(rs, link, t, kind) ==
    link # None => \E p \in rs : KeyOf(p) = link /\ p.tenant = t /\ p.kind = kind

Unique(rs) == \A r, s \in rs : KeyOf(r) = KeyOf(s) => r = s

Linked(rs) ==
    \A r \in rs : /\ Leads(rs, r.parent, r.tenant, ParentKind(r.kind))
                  /\ Leads(rs, r.user, r.tenant, "user")
                  /\ r.kind = "assignment" => r.parent # None

Private(rs) ==
    \A r \in rs : /\ r.about \subseteq OwnersIn(rs, r.tenant) \cup
                          (IF r.kind = "submission" THEN {None} ELSE {})
                  /\ r.text \subseteq OwnersIn(rs, r.tenant)

Sound(rs) == rs \subseteq Row /\ Unique(rs) /\ Linked(rs) /\ Private(rs)

\* new holds every record of old, and no link of it is lost.
Keeps(old, new) ==
    /\ \A s \in old : \E r \in new : KeyOf(r) = KeyOf(s) /\ r.tenant = s.tenant
                                     /\ r.kind = s.kind /\ r.canvas = s.canvas
    /\ \A s \in old, r \in new : KeyOf(s) = KeyOf(r) =>
            /\ s.parent # None => r.parent # None
            /\ s.user # None => r.user # None

\* A run knows its user and its courses, and has a course while it has
\* enrollments of one.
Known(rs, t, p) ==
    /\ p.phase # "idle" => p.user \in OwnersIn(rs, t)
    /\ \A k \in 1..Len(p.listed) : Find(rs, t, "course", p.listed[k]) # {}
    /\ p.pending # <<>> => p.listed # <<>> /\ p.phase = "courses"

RunsKnown == \A t \in Tenants : Known(rows, t, run[t])

RunsTyped ==
    run \in [Tenants -> [phase : Phases, user : Users \cup {None},
                         listed : Seq(Courses), pending : Seq(EnrollmentItem),
                         embedded : BOOLEAN]]

RecordsInv == Sound(rows) /\ RunsTyped /\ RunsKnown

\* The clause of NoOrphans on submissions, for any rows and for those stored.
PlacedRow(r) ==
    r.kind = "submission" /\ r.parent = None =>
        \E item \in AssignmentItems[r.tenant] :
            Misplaced(item) /\ item.submission.id = r.canvas

Placed(rs) == \A r \in rs : PlacedRow(r)

AllPlaced == \A r \in rows : PlacedRow(r)

-----------------------------------------------------------------------------
LEMMA MergedRow ==
    ASSUME NEW r \in Row, NEW change \in Change
    PROVE  /\ Merged(r, change) \in Row
           /\ Merged(r, change).tenant = r.tenant
           /\ Merged(r, change).kind = r.kind
           /\ Merged(r, change).canvas = r.canvas
           /\ Merged(r, change).parent = Given(change.parent, r.parent)
           /\ Merged(r, change).user = Given(change.user, r.user)
           /\ Merged(r, change).about = r.about \cup change.about
           /\ Merged(r, change).text \in {r.text, change.text}
           /\ KeyOf(Merged(r, change)) = KeyOf(r)
<1>1. /\ r.state \in States /\ r.deleted \in BOOLEAN
      /\ change.parent \in RowKey \cup {None} /\ change.user \in RowKey \cup {None}
      /\ r.parent \in RowKey \cup {None} /\ r.user \in RowKey \cup {None}
      /\ change.state \in States
  BY DEF Row, Change
<1>2. /\ Given(change.parent, r.parent) \in RowKey \cup {None}
      /\ Given(change.user, r.user) \in RowKey \cup {None}
      /\ Given(change.state, r.state) \in States
  BY <1>1 DEF Given
<1>3. r.about \cup change.about \in SUBSET (Users \cup {None})
  BY DEF Row, Change
<1>4. (IF change.text = {} THEN r.text ELSE change.text) \in SUBSET (Users \cup {None})
  BY DEF Row, Change
<1>5. Merged(r, change) \in Row
  BY <1>2, <1>3, <1>4 DEF Merged, Row
<1>6. /\ Merged(r, change).tenant = r.tenant
      /\ Merged(r, change).kind = r.kind
      /\ Merged(r, change).canvas = r.canvas
      /\ Merged(r, change).parent = Given(change.parent, r.parent)
      /\ Merged(r, change).user = Given(change.user, r.user)
      /\ Merged(r, change).about = r.about \cup change.about
      /\ Merged(r, change).text = IF change.text = {} THEN r.text ELSE change.text
  BY DEF Merged, Row
<1>. QED
  BY <1>5, <1>6 DEF KeyOf

\* What an upsert may write for a record of the table kind.
Allowed(rs, t, kind, c, change) ==
    /\ change \in Change
    /\ Leads(rs, change.parent, t, ParentKind(kind))
    /\ Leads(rs, change.user, t, "user")
    /\ kind = "assignment" => change.parent # None
    /\ change.about \subseteq OwnersIn(rs, t) \cup
            (IF kind = "submission" THEN {None} ELSE {}) \cup
            (IF kind = "user" THEN {c} ELSE {})
    /\ change.text \subseteq OwnersIn(rs, t)

LEMMA UpsertSound ==
    ASSUME NEW rs, Sound(rs), NEW t \in Tenants, NEW kind \in Kinds,
           NEW c \in CanvasIds, NEW change, Allowed(rs, t, kind, c, change)
    PROVE  /\ Sound(Upsert(rs, t, kind, c, change))
           /\ Keeps(rs, Upsert(rs, t, kind, c, change))
           /\ Find(Upsert(rs, t, kind, c, change), t, kind, c) # {}
<1>. DEFINE new == Upsert(rs, t, kind, c, change)
            old == Find(rs, t, kind, c)
            f(r) == IF r \in old THEN Merged(r, change) ELSE r
            i == Inserted(t, kind, c, change)
<1>1. change \in Change /\ rs \subseteq Row /\ old \subseteq rs
  BY DEF Allowed, Sound, Find
<1>2. /\ i \in Row /\ i.tenant = t /\ i.kind = kind /\ i.canvas = c
      /\ i.parent = change.parent /\ i.user = change.user
      /\ i.about = change.about /\ i.text = change.text
      /\ KeyOf(i) = <<t, kind, c>>
  BY <1>1 DEF Inserted, Row, Change, KeyOf
<1>3. ASSUME NEW r \in rs
      PROVE  /\ f(r) \in Row
             /\ f(r).tenant = r.tenant /\ f(r).kind = r.kind
             /\ f(r).canvas = r.canvas /\ KeyOf(f(r)) = KeyOf(r)
             /\ f(r).parent = r.parent \/ (r \in old /\ change.parent # None /\ f(r).parent = change.parent)
             /\ f(r).user = r.user \/ (r \in old /\ change.user # None /\ f(r).user = change.user)
             /\ f(r).about = r.about \/ (r \in old /\ f(r).about = r.about \cup change.about)
             /\ f(r).text = r.text \/ (r \in old /\ f(r).text = change.text)
  <2>1. CASE r \notin old
    BY <2>1, <1>1
  <2>2. CASE r \in old
    BY <2>2, <1>1, MergedRow DEF Given
  <2>. QED
    BY <2>1, <2>2
<1>4. \A r \in old : r.tenant = t /\ r.kind = kind /\ r.canvas = c
  BY DEF Find
<1>5. \A r \in rs : KeyOf(r) = <<t, kind, c>> => r \in old
  BY DEF Find, KeyOf
<1>6. CASE old = {}
  <2>1. new = rs \cup {i}
    BY <1>6 DEF Upsert
  <2>2. OwnersIn(new, t) = OwnersIn(rs, t) \cup (IF kind = "user" THEN {c} ELSE {})
    BY <2>1, <1>2 DEF OwnersIn
  <2>3. \A x : OwnersIn(rs, x) \subseteq OwnersIn(new, x)
    BY <2>1 DEF OwnersIn
  <2>4. \A link, x, k : Leads(rs, link, x, k) => Leads(new, link, x, k)
    BY <2>1 DEF Leads
  <2>5. Unique(new)
    BY <2>1, <1>2, <1>5, <1>6 DEF Unique, Sound
  <2>6. Linked(new)
    BY <2>1, <2>4, <1>2 DEF Linked, Sound, Allowed
  <2>7. Private(new)
    <3>1. ASSUME NEW r \in rs
          PROVE  /\ r.about \subseteq OwnersIn(new, r.tenant) \cup
                        (IF r.kind = "submission" THEN {None} ELSE {})
                 /\ r.text \subseteq OwnersIn(new, r.tenant)
      BY <2>3 DEF Sound, Private
    <3>2. /\ i.about \subseteq OwnersIn(new, i.tenant) \cup
                (IF i.kind = "submission" THEN {None} ELSE {})
          /\ i.text \subseteq OwnersIn(new, i.tenant)
      BY <2>2, <1>2 DEF Allowed
    <3>. QED
      BY <3>1, <3>2, <2>1 DEF Private
  <2>8. Sound(new)
    BY <1>1, <1>2, <2>1, <2>5, <2>6, <2>7 DEF Sound
  <2>9. Keeps(rs, new)
    BY <2>1, <1>2, <1>5, <1>6 DEF Keeps, Sound, Unique
  <2>10. i \in Find(new, t, kind, c)
    BY <2>1, <1>2 DEF Find
  <2>. QED
    BY <2>8, <2>9, <2>10
<1>7. CASE old # {}
  <2>1. new = {f(r) : r \in rs}
    BY <1>7 DEF Upsert
  <2>. HIDE DEF new, f
  <2>2. \A x : OwnersIn(new, x) = OwnersIn(rs, x)
    <3>1. ASSUME NEW x, NEW y \in OwnersIn(rs, x) PROVE y \in OwnersIn(new, x)
      <4>1. PICK r \in rs : r.tenant = x /\ r.kind = "user" /\ r.canvas = y
        BY <3>1 DEF OwnersIn
      <4>2. f(r) \in new /\ f(r).tenant = x /\ f(r).kind = "user" /\ f(r).canvas = y
        BY <4>1, <2>1, <1>3
      <4>. QED
        BY <4>2 DEF OwnersIn
    <3>2. ASSUME NEW x, NEW y \in OwnersIn(new, x) PROVE y \in OwnersIn(rs, x)
      <4>1. PICK q \in new : q.tenant = x /\ q.kind = "user" /\ q.canvas = y
        BY <3>2 DEF OwnersIn
      <4>2. PICK r \in rs : q = f(r)
        BY <2>1
      <4>. QED
        BY <4>1, <4>2, <1>3 DEF OwnersIn
    <3>. QED
      BY <3>1, <3>2
  <2>3. ASSUME NEW link, NEW x, NEW k, Leads(rs, link, x, k)
        PROVE  Leads(new, link, x, k)
    <3>1. SUFFICES ASSUME link # None
                   PROVE  \E p \in new : KeyOf(p) = link /\ p.tenant = x /\ p.kind = k
      BY DEF Leads
    <3>2. PICK p \in rs : KeyOf(p) = link /\ p.tenant = x /\ p.kind = k
      BY <2>3, <3>1 DEF Leads
    <3>3. f(p) \in new /\ KeyOf(f(p)) = link /\ f(p).tenant = x /\ f(p).kind = k
      BY <3>2, <2>1, <1>3
    <3>. QED
      BY <3>3
  <2>4. Unique(new)
    <3>1. ASSUME NEW p \in new, NEW q \in new, KeyOf(p) = KeyOf(q) PROVE p = q
      <4>1. PICK r \in rs, s \in rs : p = f(r) /\ q = f(s)
        BY <2>1
      <4>2. KeyOf(r) = KeyOf(s)
        BY <4>1, <3>1, <1>3
      <4>3. r = s
        BY <4>2 DEF Sound, Unique
      <4>. QED
        BY <4>1, <4>3
    <3>. QED
      BY <3>1 DEF Unique
  <2>5. Linked(new)
    <3>1. ASSUME NEW q \in new
          PROVE  /\ Leads(new, q.parent, q.tenant, ParentKind(q.kind))
                 /\ Leads(new, q.user, q.tenant, "user")
                 /\ q.kind = "assignment" => q.parent # None
      <4>1. PICK r \in rs : q = f(r)
        BY <2>1
      <4>2. /\ Leads(rs, r.parent, r.tenant, ParentKind(r.kind))
            /\ Leads(rs, r.user, r.tenant, "user")
            /\ r.kind = "assignment" => r.parent # None
        BY DEF Sound, Linked
      <4>3. /\ Leads(rs, q.parent, r.tenant, ParentKind(r.kind))
            /\ Leads(rs, q.user, r.tenant, "user")
            /\ r.kind = "assignment" => q.parent # None
        BY <4>1, <4>2, <1>3, <1>4 DEF Allowed
      <4>. QED
        BY <4>1, <4>3, <2>3, <1>3
    <3>. QED
      BY <3>1 DEF Linked
  <2>6. Private(new)
    <3>1. ASSUME NEW q \in new
          PROVE  /\ q.about \subseteq OwnersIn(new, q.tenant) \cup
                        (IF q.kind = "submission" THEN {None} ELSE {})
                 /\ q.text \subseteq OwnersIn(new, q.tenant)
      <4>1. PICK r \in rs : q = f(r)
        BY <2>1
      <4>2. /\ r.about \subseteq OwnersIn(rs, r.tenant) \cup
                  (IF r.kind = "submission" THEN {None} ELSE {})
            /\ r.text \subseteq OwnersIn(rs, r.tenant)
        BY DEF Sound, Private
      <4>3. r \in old /\ kind = "user" => c \in OwnersIn(rs, t)
        BY <1>4 DEF OwnersIn
      <4>4. r \in old =>
              /\ change.about \subseteq OwnersIn(rs, r.tenant) \cup
                    (IF r.kind = "submission" THEN {None} ELSE {})
              /\ change.text \subseteq OwnersIn(rs, r.tenant)
        BY <4>3, <1>4 DEF Allowed
      <4>5. /\ q.about \subseteq OwnersIn(rs, r.tenant) \cup
                  (IF r.kind = "submission" THEN {None} ELSE {})
            /\ q.text \subseteq OwnersIn(rs, r.tenant)
        BY <4>1, <4>2, <4>4, <1>3
      <4>. QED
        BY <4>1, <4>5, <2>2, <1>3
    <3>. QED
      BY <3>1 DEF Private
  <2>7. new \subseteq Row
    BY <2>1, <1>3
  <2>8. Keeps(rs, new)
    <3>1. ASSUME NEW s \in rs
          PROVE  \E r \in new : KeyOf(r) = KeyOf(s) /\ r.tenant = s.tenant
                                /\ r.kind = s.kind /\ r.canvas = s.canvas
      <4>1. f(s) \in new
        BY <2>1
      <4>. QED
        BY <4>1, <1>3
    <3>2. ASSUME NEW s \in rs, NEW q \in new, KeyOf(s) = KeyOf(q)
          PROVE  /\ s.parent # None => q.parent # None
                 /\ s.user # None => q.user # None
      <4>1. PICK r \in rs : q = f(r)
        BY <2>1
      <4>2. r = s
        BY <4>1, <3>2, <1>3 DEF Sound, Unique
      <4>. QED
        BY <4>1, <4>2, <1>3
    <3>. QED
      BY <3>1, <3>2 DEF Keeps
  <2>9. Find(new, t, kind, c) # {}
    <3>1. PICK r \in old : TRUE
      BY <1>7
    <3>2. f(r) \in new /\ f(r).tenant = t /\ f(r).kind = kind /\ f(r).canvas = c
      BY <3>1, <1>1, <1>3, <1>4, <2>1
    <3>. QED
      BY <3>2 DEF Find
  <2>10. Sound(new)
    BY <2>4, <2>5, <2>6, <2>7 DEF Sound
  <2>. QED
    BY <2>8, <2>9, <2>10 DEF new
<1>. QED
  BY <1>6, <1>7

-----------------------------------------------------------------------------
LEMMA KeepsReflexive ==
    ASSUME NEW rs, Sound(rs)
    PROVE  Keeps(rs, rs)
BY DEF Keeps, Sound, Unique

LEMMA KeepsTransitive ==
    ASSUME NEW A, NEW B, NEW C, Keeps(A, B), Keeps(B, C)
    PROVE  Keeps(A, C)
<1>1. ASSUME NEW s \in A
      PROVE  \E r \in C : KeyOf(r) = KeyOf(s) /\ r.tenant = s.tenant
                          /\ r.kind = s.kind /\ r.canvas = s.canvas
  <2>1. PICK q \in B : KeyOf(q) = KeyOf(s) /\ q.tenant = s.tenant
                       /\ q.kind = s.kind /\ q.canvas = s.canvas
    BY DEF Keeps
  <2>2. PICK r \in C : KeyOf(r) = KeyOf(q) /\ r.tenant = q.tenant
                       /\ r.kind = q.kind /\ r.canvas = q.canvas
    BY DEF Keeps
  <2>. QED
    BY <2>1, <2>2
<1>2. ASSUME NEW s \in A, NEW r \in C, KeyOf(s) = KeyOf(r)
      PROVE  /\ s.parent # None => r.parent # None
             /\ s.user # None => r.user # None
  <2>1. PICK q \in B : KeyOf(q) = KeyOf(s)
    BY DEF Keeps
  <2>2. /\ s.parent # None => q.parent # None
        /\ s.user # None => q.user # None
    BY <2>1 DEF Keeps
  <2>3. /\ q.parent # None => r.parent # None
        /\ q.user # None => r.user # None
    BY <2>1, <1>2 DEF Keeps
  <2>. QED
    BY <2>2, <2>3
<1>. QED
  BY <1>1, <1>2 DEF Keeps

\* What a table holds stays in it.
LEMMA KeepsFound ==
    ASSUME NEW A, NEW B, Keeps(A, B), NEW t
    PROVE  /\ OwnersIn(A, t) \subseteq OwnersIn(B, t)
           /\ \A kind, c : Find(A, t, kind, c) # {} => Find(B, t, kind, c) # {}
<1>1. ASSUME NEW y \in OwnersIn(A, t) PROVE y \in OwnersIn(B, t)
  BY DEF OwnersIn, Keeps
<1>2. ASSUME NEW kind, NEW c, Find(A, t, kind, c) # {} PROVE Find(B, t, kind, c) # {}
  <2>1. PICK s \in A : s.tenant = t /\ s.kind = kind /\ s.canvas = c
    BY <1>2 DEF Find
  <2>2. PICK r \in B : r.tenant = t /\ r.kind = kind /\ r.canvas = c
    BY <2>1 DEF Keeps
  <2>. QED
    BY <2>2 DEF Find
<1>. QED
  BY <1>1, <1>2

\* _resolve_local_uuid finds rows of the tenant only.
LEMMA ResolveLeads ==
    ASSUME NEW rs, rs \subseteq Row, NEW t, NEW kind, NEW c
    PROVE  /\ Resolve(rs, t, kind, c) \in RowKey \cup {None}
           /\ Leads(rs, Resolve(rs, t, kind, c), t, kind)
           /\ Find(rs, t, kind, c) # {} => Resolve(rs, t, kind, c) \in RowKey
<1>1. CASE Find(rs, t, kind, c) = {}
  BY <1>1 DEF Resolve, Leads
<1>2. CASE Find(rs, t, kind, c) # {}
  <2>. DEFINE p == CHOOSE r \in Find(rs, t, kind, c) : TRUE
  <2>1. p \in Find(rs, t, kind, c)
    BY <1>2
  <2>. HIDE DEF p
  <2>2. p \in rs /\ p \in Row /\ p.tenant = t /\ p.kind = kind
    BY <2>1 DEF Find
  <2>3. Resolve(rs, t, kind, c) = KeyOf(p)
    BY <1>2 DEF Resolve, p
  <2>4. KeyOf(p) \in RowKey
    BY <2>2 DEF KeyOf, Row, RowKey
  <2>. QED
    BY <2>2, <2>3, <2>4 DEF Leads
<1>. QED
  BY <1>1, <1>2

-----------------------------------------------------------------------------
LEMMA StoreCourseSound ==
    ASSUME NEW rs, Sound(rs), NEW t \in Tenants, NEW item \in CourseItem
    PROVE  /\ Sound(StoreCourse(rs, t, item))
           /\ Keeps(rs, StoreCourse(rs, t, item))
           /\ Find(StoreCourse(rs, t, item), t, "course", item.id) # {}
<1>. DEFINE change == [NoChange EXCEPT !.state = item.state]
<1>1. change = [parent |-> None, user |-> None, state |-> item.state,
                about |-> {}, text |-> {}]
  BY DEF NoChange
<1>2. Allowed(rs, t, "course", item.id, change)
  BY <1>1 DEF Allowed, Change, Leads, CourseItem
<1>3. "course" \in Kinds /\ item.id \in CanvasIds
  BY DEF Kinds, CanvasIds, CourseItem
<1>. HIDE DEF change
<1>. QED
  BY <1>2, <1>3, UpsertSound DEF StoreCourse, change

\* Only enrollments of the tenant's own user are stored.
LEMMA StoreEnrollmentSound ==
    ASSUME NEW rs, Sound(rs), NEW t \in Tenants, NEW u \in Users,
           u \in OwnersIn(rs, t), NEW e \in EnrollmentItem, Kept(e, u), NEW course
    PROVE  /\ Sound(StoreEnrollment(rs, t, e, course))
           /\ Keeps(rs, StoreEnrollment(rs, t, e, course))
<1>. DEFINE parent == Resolve(rs, t, "course", Given(e.course_id, course))
            user == Resolve(rs, t, "user", e.user_id)
            change == [parent |-> parent, user |-> user, state |-> e.state,
                       about |-> {EnrolledUser(e)}, text |-> {}]
<1>1. /\ parent \in RowKey \cup {None} /\ Leads(rs, parent, t, "course")
      /\ user \in RowKey \cup {None} /\ Leads(rs, user, t, "user")
  BY ResolveLeads DEF Sound
<1>. HIDE DEF parent, user
<1>2. Allowed(rs, t, "enrollment", e.id, change)
  BY <1>1 DEF Allowed, Change, EnrollmentItem, Kept, ParentKind
<1>3. "enrollment" \in Kinds /\ e.id \in CanvasIds
  BY DEF Kinds, CanvasIds, EnrollmentItem, Kept
<1>. HIDE DEF change
<1>4. StoreEnrollment(rs, t, e, course) = Upsert(rs, t, "enrollment", e.id, change)
  BY DEF StoreEnrollment, change, parent, user
<1>. QED
  BY <1>2, <1>3, <1>4, UpsertSound

\* No submission that names a peer is stored, and no body of another one.
LEMMA StoreSubmissionSound ==
    ASSUME NEW rs, Sound(rs), NEW t \in Tenants, NEW u \in OwnersIn(rs, t),
           NEW s \in SubmissionItem \cup {None},
           None \notin SubmissionItem, NEW assignment
    PROVE  /\ Sound(StoreSubmission(rs, t, u, s, assignment))
           /\ Keeps(rs, StoreSubmission(rs, t, u, s, assignment))
<1>1. CASE s = None \/ (s # None /\ s.user_id \notin {u, None})
  BY <1>1, KeepsReflexive DEF StoreSubmission
<1>2. CASE s # None /\ s.user_id \in {u, None}
  <2>. DEFINE parent == Resolve(rs, t, "assignment", Given(s.assignment_id, assignment))
              user == Resolve(rs, t, "user", s.user_id)
              text == IF s.body /\ s.user_id = u THEN {u} ELSE {}
              change == [parent |-> parent, user |-> user, state |-> s.state,
                         about |-> {s.user_id}, text |-> text]
  <2>1. /\ parent \in RowKey \cup {None} /\ Leads(rs, parent, t, "assignment")
        /\ user \in RowKey \cup {None} /\ Leads(rs, user, t, "user")
    BY ResolveLeads DEF Sound
  <2>2. text \subseteq {u} /\ text \subseteq Users
    <3>1. OwnersIn(rs, t) \subseteq CanvasIds
      BY DEF OwnersIn, Sound, Row
    <3>2. u # None
      BY <3>1, RecordsAssumption
    <3>3. s.user_id \in Users \cup {None}
      BY <1>2 DEF SubmissionItem
    <3>. QED
      BY <3>2, <3>3
  <2>. HIDE DEF parent, user, text
  <2>3. Allowed(rs, t, "submission", s.id, change)
    BY <1>2, <2>1, <2>2 DEF Allowed, Change, SubmissionItem, ParentKind
  <2>4. "submission" \in Kinds /\ s.id \in CanvasIds
    BY <1>2 DEF Kinds, CanvasIds, SubmissionItem
  <2>. HIDE DEF change
  <2>5. StoreSubmission(rs, t, u, s, assignment) = Upsert(rs, t, "submission", s.id, change)
    BY <1>2 DEF StoreSubmission, change, parent, user, text
  <2>. QED
    BY <2>3, <2>4, <2>5, UpsertSound
<1>. QED
  BY <1>1, <1>2

LEMMA StoreAssignmentSound ==
    ASSUME NEW rs, Sound(rs), NEW t \in Tenants, NEW u \in OwnersIn(rs, t),
           NEW course, Find(rs, t, "course", course) # {},
           NEW item \in AssignmentItem
    PROVE  /\ Sound(StoreAssignment(rs, t, u, course, item))
           /\ Keeps(rs, StoreAssignment(rs, t, u, course, item))
<1>. DEFINE parent == Resolve(rs, t, "course", course)
            change == [parent |-> parent, user |-> None, state |-> item.state,
                       about |-> {}, text |-> {}]
            stored == Upsert(rs, t, "assignment", item.id, change)
<1>1. parent \in RowKey /\ parent # None /\ Leads(rs, parent, t, "course")
  BY ResolveLeads, RecordsAssumption DEF Sound
<1>. HIDE DEF parent
<1>2. Allowed(rs, t, "assignment", item.id, change)
  BY <1>1 DEF Allowed, Change, Leads, AssignmentItem, ParentKind
<1>3. "assignment" \in Kinds /\ item.id \in CanvasIds
  BY DEF Kinds, CanvasIds, AssignmentItem
<1>. HIDE DEF change
<1>4. Sound(stored) /\ Keeps(rs, stored)
  BY <1>2, <1>3, UpsertSound
<1>. HIDE DEF stored
<1>5. u \in OwnersIn(stored, t)
  BY <1>4, KeepsFound
<1>6. StoreAssignment(rs, t, u, course, item)
        = StoreSubmission(stored, t, u, item.submission, item.id)
  BY DEF StoreAssignment, stored, change, parent
<1>7. item.submission \in SubmissionItem \cup {None} /\ None \notin SubmissionItem
  BY RecordsAssumption DEF AssignmentItem
<1>8. /\ Sound(StoreSubmission(stored, t, u, item.submission, item.id))
      /\ Keeps(stored, StoreSubmission(stored, t, u, item.submission, item.id))
  BY <1>4, <1>5, <1>7, StoreSubmissionSound
<1>. QED
  BY <1>4, <1>6, <1>8, KeepsTransitive

-----------------------------------------------------------------------------
(* Replays.  A change is settled once a row holds it; an upsert settles its  *)
(* own change, unsettles none of another record, and does nothing when its   *)
(* change is settled.                                                        *)

Settled(rs, t, kind, c, change) ==
    \E r \in Find(rs, t, kind, c) : Merged(r, change) = r

\* Rows are told apart by their columns.
LEMMA SameRow ==
    ASSUME NEW r \in Row, NEW s \in Row,
           r.tenant = s.tenant, r.kind = s.kind, r.canvas = s.canvas,
           r.parent = s.parent, r.user = s.user, r.state = s.state,
           r.deleted = s.deleted, r.about = s.about, r.text = s.text
    PROVE  r = s
BY DEF Row

\* The columns of a row after an update.
LEMMA MergedColumns ==
    ASSUME NEW r \in Row, NEW change \in Change
    PROVE  /\ Merged(r, change).state = Given(change.state, r.state)
           /\ Merged(r, change).deleted = (r.deleted \/ change.state = "inactive")
           /\ Merged(r, change).text = IF change.text = {} THEN r.text ELSE change.text
BY DEF Merged, Row

\* An update leaves nothing to do for the same update.
LEMMA MergedTwice ==
    ASSUME NEW r \in Row, NEW change \in Change
    PROVE  Merged(Merged(r, change), change) = Merged(r, change)
<1>. PICK q \in Row : q = Merged(r, change)
  BY MergedRow
<1>1. /\ q.parent = Given(change.parent, r.parent)
      /\ q.user = Given(change.user, r.user)
      /\ q.about = r.about \cup change.about
      /\ q.state = Given(change.state, r.state)
      /\ q.deleted = (r.deleted \/ change.state = "inactive")
      /\ q.text = IF change.text = {} THEN r.text ELSE change.text
  BY MergedRow, MergedColumns
<1>2. PICK p \in Row : p = Merged(q, change)
  BY MergedRow
<1>3. /\ p.tenant = q.tenant /\ p.kind = q.kind /\ p.canvas = q.canvas
      /\ p.parent = Given(change.parent, q.parent)
      /\ p.user = Given(change.user, q.user)
      /\ p.about = q.about \cup change.about
      /\ p.state = Given(change.state, q.state)
      /\ p.deleted = (q.deleted \/ change.state = "inactive")
      /\ p.text = IF change.text = {} THEN q.text ELSE change.text
  BY <1>2, MergedRow, MergedColumns
<1>4. p.parent = q.parent /\ p.user = q.user /\ p.state = q.state
  BY <1>1, <1>3 DEF Given
<1>5. p.about = q.about /\ p.text = q.text
  BY <1>1, <1>3
<1>6. p.deleted = q.deleted
  <2>1. q.deleted \in BOOLEAN /\ p.deleted \in BOOLEAN
    BY <1>2 DEF Row
  <2>. QED
    BY <1>1, <1>3, <2>1, Zenon
<1>7. p = q
  BY <1>3, <1>4, <1>5, <1>6, SameRow
<1>. QED
  BY <1>2, <1>7

\* Nor does an insertion.
LEMMA InsertedSettled ==
    ASSUME NEW t \in Tenants, NEW kind \in Kinds, NEW c \in CanvasIds, NEW change \in Change
    PROVE  /\ Inserted(t, kind, c, change) \in Row
           /\ Merged(Inserted(t, kind, c, change), change) = Inserted(t, kind, c, change)
<1>1. Inserted(t, kind, c, change) \in Row
  BY DEF Inserted, Row, Change
<1>. PICK q \in Row : q = Inserted(t, kind, c, change)
  BY <1>1
<1>2. /\ q.parent = change.parent /\ q.user = change.user /\ q.state = change.state
      /\ q.deleted = (change.state = "inactive")
      /\ q.about = change.about /\ q.text = change.text
  BY DEF Inserted
<1>3. PICK p \in Row : p = Merged(q, change)
  BY MergedRow
<1>4. /\ p.tenant = q.tenant /\ p.kind = q.kind /\ p.canvas = q.canvas
      /\ p.parent = Given(change.parent, q.parent)
      /\ p.user = Given(change.user, q.user)
      /\ p.about = q.about \cup change.about
      /\ p.state = Given(change.state, q.state)
      /\ p.deleted = (q.deleted \/ change.state = "inactive")
      /\ p.text = IF change.text = {} THEN q.text ELSE change.text
  BY <1>3, MergedRow, MergedColumns
<1>5. /\ p.parent = q.parent /\ p.user = q.user /\ p.state = q.state
      /\ p.about = q.about /\ p.text = q.text
  BY <1>2, <1>4 DEF Given
<1>6. p.deleted = q.deleted
  <2>1. q.deleted \in BOOLEAN /\ p.deleted \in BOOLEAN
    BY <1>3 DEF Row
  <2>. QED
    BY <1>2, <1>4, <2>1, Zenon
<1>7. p = q
  BY <1>4, <1>5, <1>6, SameRow
<1>. QED
  BY <1>1, <1>3, <1>7

LEMMA UpsertSettles ==
    ASSUME NEW rs, rs \subseteq Row, NEW t \in Tenants, NEW kind \in Kinds,
           NEW c \in CanvasIds, NEW change \in Change
    PROVE  Settled(Upsert(rs, t, kind, c, change), t, kind, c, change)
<1>. DEFINE new == Upsert(rs, t, kind, c, change)
            old == Find(rs, t, kind, c)
            i == Inserted(t, kind, c, change)
<1>1. CASE old = {}
  <2>1. i \in new
    BY <1>1 DEF Upsert
  <2>2. i.tenant = t /\ i.kind = kind /\ i.canvas = c
    BY DEF Inserted
  <2>3. i \in Find(new, t, kind, c)
    BY <2>1, <2>2 DEF Find
  <2>4. Merged(i, change) = i
    BY InsertedSettled
  <2>. QED
    BY <2>3, <2>4 DEF Settled
<1>2. CASE old # {}
  <2>1. PICK r \in old : TRUE
    BY <1>2
  <2>2. r \in rs /\ r \in Row /\ r.tenant = t /\ r.kind = kind /\ r.canvas = c
    BY <2>1 DEF Find
  <2>3. PICK q \in Row : q = Merged(r, change)
    BY <2>2, MergedRow
  <2>4. q \in new
    BY <1>2, <2>1, <2>2, <2>3 DEF Upsert
  <2>5. q.tenant = t /\ q.kind = kind /\ q.canvas = c
    BY <2>2, <2>3, MergedRow
  <2>6. Merged(q, change) = q
    BY <2>2, <2>3, MergedTwice
  <2>7. q \in Find(new, t, kind, c)
    BY <2>4, <2>5 DEF Find
  <2>. QED
    BY <2>6, <2>7 DEF Settled
<1>. QED
  BY <1>1, <1>2

LEMMA SettledIsNothing ==
    ASSUME NEW rs, Unique(rs), NEW t, NEW kind, NEW c, NEW change,
           Settled(rs, t, kind, c, change)
    PROVE  Upsert(rs, t, kind, c, change) = rs
<1>. DEFINE old == Find(rs, t, kind, c)
<1>1. PICK r \in old : Merged(r, change) = r
  BY DEF Settled
<1>2. \A s \in old : s = r
  BY <1>1 DEF Find, Unique, KeyOf
<1>3. \A s \in rs : (IF s \in old THEN Merged(s, change) ELSE s) = s
  BY <1>1, <1>2
<1>4. Upsert(rs, t, kind, c, change) = {IF s \in old THEN Merged(s, change) ELSE s : s \in rs}
  BY <1>1 DEF Upsert
<1>. HIDE DEF old
<1>. QED
  BY <1>3, <1>4

\* An upsert of another record.
LEMMA SettledStays ==
    ASSUME NEW rs, NEW t, NEW kind, NEW c, NEW change, Settled(rs, t, kind, c, change),
           NEW k, NEW d, k # kind, NEW other
    PROVE  Settled(Upsert(rs, t, k, d, other), t, kind, c, change)
<1>1. PICK r \in Find(rs, t, kind, c) : Merged(r, change) = r
  BY DEF Settled
<1>2. r \in rs /\ r.kind = kind /\ r \notin Find(rs, t, k, d)
  BY DEF Find
<1>3. r \in Upsert(rs, t, k, d, other)
  BY <1>2 DEF Upsert
<1>4. r \in Find(Upsert(rs, t, k, d, other), t, kind, c)
  BY <1>3 DEF Find
<1>. QED
  BY <1>1, <1>4 DEF Settled

\* What is found in a table depends on the upserts into this table only.
LEMMA ResolveStays ==
    ASSUME NEW rs, rs \subseteq Row, NEW t \in Tenants, NEW kind \in Kinds,
           NEW c \in CanvasIds, NEW change \in Change, NEW k, NEW d, k # kind
    PROVE  Resolve(Upsert(rs, t, kind, c, change), t, k, d) = Resolve(rs, t, k, d)
<1>. DEFINE new == Upsert(rs, t, kind, c, change)
            old == Find(rs, t, kind, c)
<1>1. ASSUME NEW r \in Find(rs, t, k, d) PROVE r \in Find(new, t, k, d)
  <2>1. r \in rs /\ r.tenant = t /\ r.kind = k /\ r.canvas = d /\ r \notin old
    BY DEF Find
  <2>2. r \in new
    BY <2>1 DEF Upsert
  <2>. QED
    BY <2>1, <2>2 DEF Find
<1>2. ASSUME NEW q \in Find(new, t, k, d) PROVE q \in Find(rs, t, k, d)
  <2>1. q \in new /\ q.tenant = t /\ q.kind = k /\ q.canvas = d
    BY DEF Find
  <2>2. Inserted(t, kind, c, change).kind = kind
    BY DEF Inserted
  <2>3. \A r \in old : Merged(r, change).kind = kind
    BY MergedRow DEF Find
  <2>4. q \in rs
    BY <2>1, <2>2, <2>3 DEF Upsert
  <2>. QED
    BY <2>1, <2>4 DEF Find
<1>3. Find(new, t, k, d) = Find(rs, t, k, d)
  BY <1>1, <1>2
<1>. HIDE DEF new
<1>4. Resolve(new, t, k, d) = Resolve(rs, t, k, d)
  BY <1>3 DEF Resolve
<1>. QED
  BY <1>4 DEF new

\* A submission that is delivered again changes nothing.
LEMMA SubmissionReplayed ==
    ASSUME NEW rs, Sound(rs), NEW t \in Tenants, NEW u \in OwnersIn(rs, t),
           NEW s \in SubmissionItem \cup {None}, NEW assignment,
           NEW new, new = StoreSubmission(rs, t, u, s, assignment)
    PROVE  /\ Sound(new)
           /\ StoreSubmission(new, t, u, s, assignment) = new
           /\ \A kind, c, change : kind # "submission" /\ Settled(rs, t, kind, c, change)
                => Settled(new, t, kind, c, change)
           /\ \A kind, c : kind # "submission"
                => Resolve(new, t, kind, c) = Resolve(rs, t, kind, c)
<1>1. Sound(new)
  BY StoreSubmissionSound, RecordsAssumption
<1>2. CASE s = None \/ (s # None /\ s.user_id \notin {u, None})
  <2>1. \A x : StoreSubmission(x, t, u, s, assignment) = x
    BY <1>2 DEF StoreSubmission
  <2>. QED
    BY <1>1, <2>1
<1>3. CASE s # None /\ s.user_id \in {u, None}
  <2>. DEFINE parent(x) == Resolve(x, t, "assignment", Given(s.assignment_id, assignment))
              user(x) == Resolve(x, t, "user", s.user_id)
              text == IF s.body /\ s.user_id = u THEN {u} ELSE {}
              change(x) == [parent |-> parent(x), user |-> user(x), state |-> s.state,
                            about |-> {s.user_id}, text |-> text]
  <2>1. s \in SubmissionItem /\ s.id \in CanvasIds /\ "submission" \in Kinds
    BY <1>3 DEF CanvasIds, SubmissionItem, Kinds
  <2>2. text \subseteq Users
    <3>1. OwnersIn(rs, t) \subseteq CanvasIds
      BY DEF OwnersIn, Sound, Row
    <3>2. u # None
      BY <3>1, RecordsAssumption
    <3>3. s.user_id \in Users \cup {None}
      BY <2>1 DEF SubmissionItem
    <3>. QED
      BY <3>2, <3>3
  <2>3. parent(rs) \in RowKey \cup {None} /\ user(rs) \in RowKey \cup {None}
    BY ResolveLeads DEF Sound
  <2>. HIDE DEF parent, user, text
  <2>4. change(rs) \in Change
    BY <2>1, <2>2, <2>3 DEF Change, SubmissionItem
  <2>. HIDE DEF change
  <2>5. \A x : StoreSubmission(x, t, u, s, assignment)
                = Upsert(x, t, "submission", s.id, change(x))
    BY <1>3 DEF StoreSubmission, change, parent, user, text
  <2>6. PICK d \in Change : d = change(rs)
    BY <2>4
  <2>7. new = Upsert(rs, t, "submission", s.id, d)
    BY <2>5, <2>6
  <2>8. rs \subseteq Row
    BY DEF Sound
  <2>9. \A kind, c : kind # "submission" => Resolve(new, t, kind, c) = Resolve(rs, t, kind, c)
    BY <2>1, <2>7, <2>8, ResolveStays
  <2>10. change(new) = d
    BY <2>6, <2>9 DEF change, parent, user
  <2>11. Settled(new, t, "submission", s.id, d)
    BY <2>1, <2>7, <2>8, UpsertSettles
  <2>12. Upsert(new, t, "submission", s.id, d) = new
    BY <1>1, <2>11, SettledIsNothing DEF Sound
  <2>13. StoreSubmission(new, t, u, s, assignment) = new
    BY <2>5, <2>10, <2>12
  <2>14. ASSUME NEW kind, NEW c, NEW other, kind # "submission", Settled(rs, t, kind, c, other)
         PROVE  Settled(new, t, kind, c, other)
    BY <2>7, <2>14, SettledStays
  <2>. QED
    BY <1>1, <2>9, <2>13, <2>14
<1>. QED
  BY <1>2, <1>3

\* A course and one of its assignments that are delivered again change nothing.
LEMMA Replayed ==
    ASSUME NEW rs, Sound(rs), NEW t \in Tenants, NEW u \in OwnersIn(rs, t),
           NEW c \in CourseItem, NEW a \in AssignmentItem,
           NEW new, new = StoreAssignment(StoreCourse(rs, t, c), t, u, c.id, a)
    PROVE  StoreAssignment(StoreCourse(new, t, c), t, u, c.id, a) = new
<1>. DEFINE cc == [NoChange EXCEPT !.state = c.state]
            ac(x) == [parent |-> Resolve(x, t, "course", c.id), user |-> None,
                      state |-> a.state, about |-> {}, text |-> {}]
<1>1. /\ c.id \in CanvasIds /\ a.id \in CanvasIds /\ c.state \in States /\ a.state \in States
      /\ "course" \in Kinds /\ "assignment" \in Kinds
      /\ a.submission \in SubmissionItem \cup {None}
  BY DEF CourseItem, AssignmentItem, CanvasIds, Kinds
<1>2. cc \in Change
  BY <1>1 DEF NoChange, Change
<1>. HIDE DEF cc
<1>3. \A x : StoreCourse(x, t, c) = Upsert(x, t, "course", c.id, cc)
  BY DEF StoreCourse, cc
<1>4. PICK r1 : r1 = Upsert(rs, t, "course", c.id, cc)
  OBVIOUS
<1>5. /\ Sound(r1) /\ Keeps(rs, r1) /\ Find(r1, t, "course", c.id) # {}
  BY <1>3, <1>4, StoreCourseSound
<1>6. u \in OwnersIn(r1, t)
  BY <1>5, KeepsFound
<1>7. Settled(r1, t, "course", c.id, cc)
  BY <1>1, <1>2, <1>4, UpsertSettles DEF Sound
<1>8. ac(r1) \in Change /\ Allowed(r1, t, "assignment", a.id, ac(r1))
  <2>1. PICK p : p = Resolve(r1, t, "course", c.id)
    OBVIOUS
  <2>2. p \in RowKey /\ p # None /\ Leads(r1, p, t, "course")
    BY <1>5, <2>1, ResolveLeads, RecordsAssumption DEF Sound
  <2>. QED
    BY <1>1, <2>1, <2>2 DEF Allowed, Change, Leads, ParentKind
<1>9. PICK d \in Change : d = ac(r1)
  BY <1>8
<1>10. PICK r2 : r2 = Upsert(r1, t, "assignment", a.id, d)
  OBVIOUS
<1>11. Sound(r2) /\ Keeps(r1, r2)
  BY <1>1, <1>5, <1>8, <1>9, <1>10, UpsertSound
<1>12. u \in OwnersIn(r2, t)
  BY <1>6, <1>11, KeepsFound
<1>13. /\ Settled(r2, t, "assignment", a.id, d)
       /\ Settled(r2, t, "course", c.id, cc)
       /\ Resolve(r2, t, "course", c.id) = Resolve(r1, t, "course", c.id)
  <2>1. r1 \subseteq Row /\ "assignment" # "course"
    BY <1>5 DEF Sound
  <2>2. Settled(r2, t, "assignment", a.id, d)
    BY <1>1, <1>10, <2>1, UpsertSettles
  <2>3. Settled(r2, t, "course", c.id, cc)
    BY <1>7, <1>10, <2>1, SettledStays
  <2>4. Resolve(r2, t, "course", c.id) = Resolve(r1, t, "course", c.id)
    BY <1>1, <1>10, <2>1, ResolveStays
  <2>. QED
    BY <2>2, <2>3, <2>4
<1>14. \A x : StoreAssignment(x, t, u, c.id, a)
            = StoreSubmission(Upsert(x, t, "assignment", a.id, ac(x)), t, u, a.submission, a.id)
  BY DEF StoreAssignment
<1>15. new = StoreSubmission(r2, t, u, a.submission, a.id)
  BY <1>3, <1>4, <1>9, <1>10, <1>14
<1>16. /\ Sound(new)
       /\ StoreSubmission(new, t, u, a.submission, a.id) = new
       /\ \A kind, x, change : kind # "submission" /\ Settled(r2, t, kind, x, change)
            => Settled(new, t, kind, x, change)
       /\ \A kind, x : kind # "submission"
            => Resolve(new, t, kind, x) = Resolve(r2, t, kind, x)
  BY <1>1, <1>11, <1>12, <1>15, SubmissionReplayed
<1>17. StoreCourse(new, t, c) = new
  BY <1>3, <1>13, <1>16, SettledIsNothing DEF Sound
<1>18. ac(new) = d
  BY <1>9, <1>13, <1>16
<1>19. Upsert(new, t, "assignment", a.id, d) = new
  BY <1>13, <1>16, SettledIsNothing DEF Sound
<1>. QED
  BY <1>14, <1>16, <1>17, <1>18, <1>19

-----------------------------------------------------------------------------
\* A step of one tenant that keeps the tables sound and loses no record
\* preserves the invariant.
LEMMA StepSound ==
    ASSUME RecordsInv, NEW t \in Tenants, NEW rs, Sound(rs), Keeps(rows, rs),
           rows' = rs, RunsTyped', \A x \in Tenants \ {t} : run'[x] = run[x],
           Known(rs, t, run'[t])
    PROVE  RecordsInv' /\ Keeps(rows, rows')
<1>1. ASSUME NEW x \in Tenants PROVE Known(rs, x, run'[x])
  <2>1. CASE x = t
    BY <2>1
  <2>2. CASE x # t
    <3>1. run'[x] = run[x] /\ Known(rows, x, run[x])
      BY <2>2 DEF RecordsInv, RunsKnown
    <3>2. /\ OwnersIn(rows, x) \subseteq OwnersIn(rs, x)
          /\ \A c : Find(rows, x, "course", c) # {} => Find(rs, x, "course", c) # {}
      BY KeepsFound
    <3>. QED
      BY <3>1, <3>2 DEF Known
  <2>. QED
    BY <2>1, <2>2
<1>2. RunsKnown'
  BY <1>1 DEF RunsKnown, Known, OwnersIn, Find
<1>3. Sound(rows)'
  BY DEF Sound, Unique, Linked, Private, Leads, OwnersIn, KeyOf, ParentKind
<1>. QED
  BY <1>2, <1>3 DEF RecordsInv, RunsTyped

\* The user of a run is a user of Canvas.
LEMMA OwnersAreUsers ==
    ASSUME RecordsInv, NEW t \in Tenants, run[t].phase # "idle"
    PROVE  run[t].user \in Users /\ run[t].user \in OwnersIn(rows, t)
<1>1. run[t].user \in OwnersIn(rows, t) /\ run[t].user \in Users \cup {None}
  BY DEF RecordsInv, RunsKnown, Known, RunsTyped
<1>2. OwnersIn(rows, t) \subseteq CanvasIds
  BY DEF OwnersIn, RecordsInv, Sound, Row
<1>. QED
  BY <1>1, <1>2, RecordsAssumption

LEMMA InitSound == Init => RecordsInv
<1>. SUFFICES ASSUME Init PROVE RecordsInv
  OBVIOUS
<1>1. Sound(rows)
  BY DEF Init, Sound, Unique, Linked, Private
<1>2. RunsTyped
  BY DEF Init, RunsTyped, Idle, Phases
<1>3. RunsKnown
  <2>1. Idle.phase = "idle" /\ Len(Idle.listed) = 0 /\ Idle.pending = <<>>
    BY DEF Idle
  <2>2. \A t \in Tenants : run[t] = Idle
    BY DEF Init
  <2>3. \A t \in Tenants : Known(rows, t, Idle)
    BY <2>1 DEF Known
  <2>. QED
    BY <2>2, <2>3 DEF RunsKnown
<1>. QED
  BY <1>1, <1>2, <1>3 DEF RecordsInv

LEMMA SelfUserSound ==
    ASSUME RecordsInv, NEW t \in Tenants, SelfUser(t)
    PROVE  RecordsInv' /\ Keeps(rows, rows')
<1>. PICK u \in Accounts[t] :
        /\ rows' = Upsert(rows, t, "user", u, [NoChange EXCEPT !.about = {u}])
        /\ run' = [run EXCEPT ![t] = Begun(u)]
  BY DEF SelfUser
<1>. DEFINE change == [NoChange EXCEPT !.about = {u}]
            p == Begun(u)
            rs == Upsert(rows, t, "user", u, change)
<1>1. u \in Users /\ u \in CanvasIds /\ "user" \in Kinds
  BY RecordsAssumption DEF CanvasIds, Kinds
<1>2. change = [parent |-> None, user |-> None, state |-> None,
                about |-> {u}, text |-> {}]
  BY DEF NoChange
<1>3. Allowed(rows, t, "user", u, change)
  BY <1>1, <1>2 DEF Allowed, Change, Leads, States
<1>4. p = [phase |-> "courses", user |-> u, listed |-> <<>>, pending |-> <<>>,
           embedded |-> FALSE]
  BY DEF Begun
<1>5. rows' = rs /\ run' = [run EXCEPT ![t] = p]
  OBVIOUS
<1>. HIDE DEF change, p
<1>6. Sound(rs) /\ Keeps(rows, rs) /\ Find(rs, t, "user", u) # {}
  BY <1>1, <1>3, UpsertSound DEF RecordsInv
<1>. HIDE DEF rs
<1>7. RunsTyped'
  <2>1. <<>> \in Seq(Courses) /\ <<>> \in Seq(EnrollmentItem)
    BY EmptySeq
  <2>2. p \in [phase : Phases, user : Users \cup {None}, listed : Seq(Courses),
               pending : Seq(EnrollmentItem), embedded : BOOLEAN]
    BY <1>1, <1>4, <2>1 DEF Phases
  <2>. QED
    BY <1>5, <2>2 DEF RecordsInv, RunsTyped
<1>8. run'[t] = p /\ \A x \in Tenants \ {t} : run'[x] = run[x]
  BY <1>5 DEF RecordsInv, RunsTyped
<1>9. u \in OwnersIn(rs, t)
  BY <1>6 DEF Find, OwnersIn
<1>10. Known(rs, t, run'[t])
  <2>1. p.user = u /\ Len(p.listed) = 0 /\ p.pending = <<>>
    BY <1>4
  <2>. QED
    BY <1>8, <1>9, <2>1 DEF Known
<1>. QED
  BY <1>5, <1>6, <1>7, <1>8, <1>10, StepSound

\* The parts of the run of a tenant.
LEMMA RunParts ==
    ASSUME RecordsInv, NEW t \in Tenants
    PROVE  /\ run[t].listed \in Seq(Courses)
           /\ run[t].pending \in Seq(EnrollmentItem)
           /\ Known(rows, t, run[t])
           /\ DOMAIN run = Tenants
BY DEF RecordsInv, RunsTyped, RunsKnown

LEMMA FavouriteCourseSound ==
    ASSUME RecordsInv, NEW t \in Tenants, FavouriteCourse(t)
    PROVE  RecordsInv' /\ Keeps(rows, rows')
<1>1. PICK item \in CourseItems[t] :
        /\ rows' = StoreCourse(rows, t, item)
        /\ run' = [run EXCEPT ![t].listed = Append(@, item.id),
                              ![t].pending = item.enrollments]
  BY DEF FavouriteCourse
<1>. DEFINE rs == StoreCourse(rows, t, item)
            listed == Append(run[t].listed, item.id)
<1>2. item \in CourseItem /\ run[t].phase = "courses"
  BY RecordsAssumption DEF FavouriteCourse
<1>3. Sound(rs) /\ Keeps(rows, rs) /\ Find(rs, t, "course", item.id) # {}
  BY <1>2, StoreCourseSound DEF RecordsInv
<1>. HIDE DEF rs
<1>4. item.id \in Courses /\ item.enrollments \in Seq(EnrollmentItem)
  BY <1>2 DEF CourseItem
<1>5. /\ listed \in Seq(Courses) /\ listed # <<>>
      /\ Len(listed) = Len(run[t].listed) + 1
      /\ \A k \in 1..Len(run[t].listed) : listed[k] = run[t].listed[k]
      /\ listed[Len(run[t].listed) + 1] = item.id
  BY <1>4, RunParts, AppendProperties
<1>. HIDE DEF listed
<1>6. /\ run'[t].phase = "courses" /\ run'[t].user = run[t].user
      /\ run'[t].listed = listed /\ run'[t].pending = item.enrollments
      /\ \A x \in Tenants \ {t} : run'[x] = run[x]
  BY <1>1, <1>2, RunParts DEF RecordsInv, RunsTyped, listed
<1>7. RunsTyped'
  BY <1>1, <1>4, <1>5 DEF RecordsInv, RunsTyped, listed
<1>8. /\ \A c : Find(rows, t, "course", c) # {} => Find(rs, t, "course", c) # {}
      /\ run[t].user \in OwnersIn(rs, t)
  BY <1>2, <1>3, KeepsFound, RunParts DEF Known
<1>9. ASSUME NEW k \in 1..Len(listed) PROVE Find(rs, t, "course", listed[k]) # {}
  <2>1. CASE k = Len(run[t].listed) + 1
    BY <2>1, <1>3, <1>5
  <2>2. CASE k \in 1..Len(run[t].listed)
    BY <2>2, <1>5, <1>8, RunParts DEF Known
  <2>3. Len(run[t].listed) \in Nat
    BY RunParts
  <2>. QED
    BY <2>1, <2>2, <2>3, <1>5
<1>10. Known(rs, t, run'[t])
  BY <1>5, <1>6, <1>8, <1>9 DEF Known
<1>. QED
  BY <1>1, <1>3, <1>6, <1>7, <1>10, StepSound DEF rs

LEMMA EmbeddedEnrollmentSound ==
    ASSUME RecordsInv, NEW t \in Tenants, EmbeddedEnrollment(t)
    PROVE  RecordsInv' /\ Keeps(rows, rows')
<1>. DEFINE e == Head(run[t].pending)
            course == run[t].listed[Len(run[t].listed)]
            u == run[t].user
<1>1. run[t].phase = "courses" /\ run[t].pending # <<>>
  BY DEF EmbeddedEnrollment
<1>2. /\ e \in EnrollmentItem /\ Tail(run[t].pending) \in Seq(EnrollmentItem)
  BY <1>1, RunParts, HeadTailProperties
<1>3. u \in Users /\ u \in OwnersIn(rows, t)
  BY <1>1, OwnersAreUsers
<1>4. /\ run'[t].phase = "courses" /\ run'[t].user = run[t].user
      /\ run'[t].listed = run[t].listed
      /\ \A x \in Tenants \ {t} : run'[x] = run[x]
      /\ RunsTyped'
  <2>1. CASE Kept(e, u)
    <3>1. run' = [run EXCEPT ![t].pending = Tail(@), ![t].embedded = TRUE]
      BY <2>1 DEF EmbeddedEnrollment
    <3>. QED
      BY <3>1, <1>1, <1>2 DEF RecordsInv, RunsTyped
  <2>2. CASE ~Kept(e, u)
    BY <2>2, <1>1, <1>2 DEF EmbeddedEnrollment, RecordsInv, RunsTyped
  <2>. QED
    BY <2>1, <2>2
<1>5. PICK rs : rows' = rs /\ Sound(rs) /\ Keeps(rows, rs)
  <2>1. CASE Kept(e, u)
    <3>1. rows' = StoreEnrollment(rows, t, e, course)
      BY <2>1 DEF EmbeddedEnrollment
    <3>. HIDE DEF e, u, course
    <3>2. /\ Sound(StoreEnrollment(rows, t, e, course))
          /\ Keeps(rows, StoreEnrollment(rows, t, e, course))
      BY <2>1, <1>2, <1>3, StoreEnrollmentSound DEF RecordsInv
    <3>. QED
      BY <3>1, <3>2
  <2>2. CASE ~Kept(e, u)
    <3>1. rows' = rows /\ Sound(rows)
      BY <2>2 DEF EmbeddedEnrollment, RecordsInv
    <3>. QED
      BY <3>1, KeepsReflexive
  <2>. QED
    BY <2>1, <2>2
<1>6. /\ \A c : Find(rows, t, "course", c) # {} => Find(rs, t, "course", c) # {}
      /\ u \in OwnersIn(rs, t)
  BY <1>3, <1>5, KeepsFound
<1>7. Known(rs, t, run'[t])
  BY <1>1, <1>4, <1>6, RunParts DEF Known
<1>. QED
  BY <1>4, <1>5, <1>7, StepSound

LEMMA FallbackEnrollmentSound ==
    ASSUME RecordsInv, NEW t \in Tenants, FallbackEnrollment(t)
    PROVE  RecordsInv' /\ Keeps(rows, rows')
<1>1. PICK e \in EnrollmentItems[t] :
        /\ Kept(e, run[t].user)
        /\ rows' = StoreEnrollment(rows, t, e, e.course_id)
  BY DEF FallbackEnrollment
<1>2. e \in EnrollmentItem /\ run[t].phase = "enrollments" /\ run' = run
  BY RecordsAssumption DEF FallbackEnrollment
<1>. DEFINE rs == StoreEnrollment(rows, t, e, e.course_id)
<1>3. run[t].user \in Users /\ run[t].user \in OwnersIn(rows, t)
  BY <1>2, OwnersAreUsers
<1>4. Sound(rs) /\ Keeps(rows, rs)
  BY <1>1, <1>2, <1>3, StoreEnrollmentSound DEF RecordsInv
<1>. HIDE DEF rs
<1>5. /\ \A c : Find(rows, t, "course", c) # {} => Find(rs, t, "course", c) # {}
      /\ run[t].user \in OwnersIn(rs, t)
  BY <1>3, <1>4, KeepsFound
<1>6. Known(rs, t, run'[t])
  BY <1>2, <1>5, RunParts DEF Known
<1>7. RunsTyped'
  BY <1>2 DEF RecordsInv, RunsTyped
<1>. QED
  BY <1>1, <1>2, <1>4, <1>6, <1>7, StepSound DEF rs

LEMMA AssignmentSound ==
    ASSUME RecordsInv, NEW t \in Tenants, Assignment(t)
    PROVE  RecordsInv' /\ Keeps(rows, rows')
<1>1. PICK item \in AssignmentItems[t] :
        rows' = StoreAssignment(rows, t, run[t].user, Head(run[t].listed), item)
  BY DEF Assignment
<1>2. /\ item \in AssignmentItem /\ run[t].phase = "assignments" /\ run' = run
      /\ run[t].listed # <<>>
  BY RecordsAssumption DEF Assignment
<1>. DEFINE rs == StoreAssignment(rows, t, run[t].user, Head(run[t].listed), item)
<1>3. run[t].user \in Users /\ run[t].user \in OwnersIn(rows, t)
  BY <1>2, OwnersAreUsers
<1>4. Find(rows, t, "course", Head(run[t].listed)) # {}
  <2>1. Head(run[t].listed) = run[t].listed[1] /\ 1 \in 1..Len(run[t].listed)
    BY <1>2, RunParts
  <2>. QED
    BY <2>1, RunParts DEF Known
<1>5. Sound(rs) /\ Keeps(rows, rs)
  BY <1>2, <1>3, <1>4, StoreAssignmentSound DEF RecordsInv
<1>. HIDE DEF rs
<1>6. /\ \A c : Find(rows, t, "course", c) # {} => Find(rs, t, "course", c) # {}
      /\ run[t].user \in OwnersIn(rs, t)
  BY <1>3, <1>5, KeepsFound
<1>7. Known(rs, t, run'[t])
  BY <1>2, <1>6, RunParts DEF Known
<1>8. RunsTyped'
  BY <1>2 DEF RecordsInv, RunsTyped
<1>. QED
  BY <1>1, <1>2, <1>5, <1>7, <1>8, StepSound DEF rs

\* The ends of the listings and of the run change no row.
LEMMA EndsSound ==
    ASSUME RecordsInv, NEW t \in Tenants,
           \/ EndOfCourses(t) \/ EndOfEnrollments(t)
           \/ EndOfAssignments(t) \/ EndOfRun(t)
    PROVE  RecordsInv' /\ Keeps(rows, rows')
<1>1. rows' = rows /\ Sound(rows) /\ Keeps(rows, rows)
  BY KeepsReflexive
  DEF EndOfCourses, EndOfEnrollments, EndOfAssignments, EndOfRun, RecordsInv
<1>2. CASE EndOfCourses(t) \/ EndOfEnrollments(t)
  <2>. DEFINE phase == IF EndOfCourses(t)
                       THEN IF run[t].embedded THEN "assignments" ELSE "enrollments"
                       ELSE "assignments"
  <2>3. /\ run[t].phase \in {"courses", "enrollments"}
        /\ run[t].phase = "courses" => run[t].pending = <<>>
        /\ run' = [run EXCEPT ![t].phase = phase]
    BY <1>2 DEF EndOfCourses, EndOfEnrollments
  <2>4. phase \in Phases
    BY DEF Phases
  <2>. HIDE DEF phase
  <2>1. /\ run'[t].user = run[t].user
        /\ run'[t].listed = run[t].listed /\ run'[t].pending = run[t].pending
        /\ \A x \in Tenants \ {t} : run'[x] = run[x]
        /\ RunsTyped'
    BY <2>3, <2>4 DEF RecordsInv, RunsTyped
  <2>2. Known(rows, t, run'[t])
    BY <2>1, <2>3, RunParts DEF Known
  <2>. QED
    BY <1>1, <2>1, <2>2, StepSound
<1>3. CASE EndOfAssignments(t)
  <2>1. /\ run[t].phase = "assignments" /\ run[t].listed # <<>>
        /\ run' = [run EXCEPT ![t].listed = Tail(@)]
    BY <1>3 DEF EndOfAssignments
  <2>2. /\ Tail(run[t].listed) \in Seq(Courses)
        /\ Len(Tail(run[t].listed)) = Len(run[t].listed) - 1
        /\ \A k \in 1..Len(Tail(run[t].listed)) :
                Tail(run[t].listed)[k] = run[t].listed[k + 1]
    BY <2>1, RunParts, HeadTailProperties
  <2>3. /\ run'[t].phase = "assignments" /\ run'[t].user = run[t].user
        /\ run'[t].listed = Tail(run[t].listed) /\ run'[t].pending = run[t].pending
        /\ \A x \in Tenants \ {t} : run'[x] = run[x]
        /\ RunsTyped'
    BY <2>1, <2>2 DEF RecordsInv, RunsTyped
  <2>4. run'[t].pending = <<>>
    BY <2>1, <2>3, RunParts DEF Known
  <2>5. ASSUME NEW k \in 1..Len(Tail(run[t].listed))
        PROVE  Find(rows, t, "course", Tail(run[t].listed)[k]) # {}
    <3>1. k + 1 \in 1..Len(run[t].listed)
      BY <2>2, RunParts
    <3>. QED
      BY <3>1, <2>2, RunParts DEF Known
  <2>6. Known(rows, t, run'[t])
    BY <2>1, <2>3, <2>4, <2>5, RunParts DEF Known
  <2>. QED
    BY <1>1, <2>3, <2>6, StepSound
<1>4. CASE EndOfRun(t)
  <2>1. run' = [run EXCEPT ![t] = Idle]
    BY <1>4 DEF EndOfRun
  <2>2. /\ Idle.phase = "idle" /\ Len(Idle.listed) = 0 /\ Idle.pending = <<>>
    BY DEF Idle
  <2>3. Idle \in [phase : Phases, user : Users \cup {None}, listed : Seq(Courses),
                  pending : Seq(EnrollmentItem), embedded : BOOLEAN]
    <3>1. <<>> \in Seq(Courses) /\ <<>> \in Seq(EnrollmentItem)
      BY EmptySeq
    <3>. QED
      BY <3>1 DEF Idle, Phases
  <2>4. run'[t] = Idle /\ RunsTyped' /\ \A x \in Tenants \ {t} : run'[x] = run[x]
    BY <2>1, <2>3 DEF RecordsInv, RunsTyped
  <2>5. Known(rows, t, run'[t])
    BY <2>2, <2>4 DEF Known
  <2>. QED
    BY <1>1, <2>4, <2>5, StepSound
<1>. QED
  BY <1>2, <1>3, <1>4

LEMMA StepPreserves ==
    ASSUME RecordsInv, [Next]_vars
    PROVE  RecordsInv' /\ Keeps(rows, rows')
<1>1. ASSUME NEW t \in Tenants, Step(t) PROVE RecordsInv' /\ Keeps(rows, rows')
  BY <1>1, SelfUserSound, FavouriteCourseSound, EmbeddedEnrollmentSound,
     FallbackEnrollmentSound, AssignmentSound, EndsSound DEF Step
<1>2. CASE UNCHANGED vars
  <2>1. rows' = rows /\ run' = run
    BY <1>2 DEF vars
  <2>2. Sound(rows)' /\ RunsTyped' /\ RunsKnown'
    BY <2>1 DEF RecordsInv, Sound, Unique, Linked, Private, Leads, OwnersIn, KeyOf,
                ParentKind, RunsTyped, RunsKnown, Known, Find
  <2>3. Keeps(rows, rows)
    BY KeepsReflexive DEF RecordsInv
  <2>. QED
    BY <2>1, <2>2, <2>3 DEF RecordsInv
<1>. QED
  BY <1>1, <1>2 DEF Next

LEMMA Invariant == Spec => []RecordsInv
BY InitSound, StepPreserves, PTL DEF Spec

\* Every variable keeps its type, for all items Canvas may send.
THEOREM TypeCorrect == Spec => []TypeOK
<1>1. RecordsInv => TypeOK
  BY DEF RecordsInv, RunsTyped, Sound, TypeOK
<1>. QED
  BY <1>1, Invariant, PTL

\* Records of one Canvas id share one row per tenant (upsert_by_canvas_id).
THEOREM RecordsHaveOneRow == Spec => []OneRowPerRecord
<1>1. RecordsInv => OneRowPerRecord
  BY DEF RecordsInv, Sound, Unique, OneRowPerRecord
<1>. QED
  BY <1>1, Invariant, PTL

\* Links stay within a tenant, whatever Canvas ids tenants share
\* (_resolve_local_uuid).
THEOREM LinksStayWithinTenant == Spec => []LinksWithinTenant
<1>1. RecordsInv => LinksWithinTenant
  BY DEF RecordsInv, Sound, Linked, Leads, LinksWithinTenant
<1>. QED
  BY <1>1, Invariant, PTL

\* No record of another student is stored (strip_peer_data and the checks of
\* the pipeline).
THEOREM PeersStayOut == Spec => []PeersKeptOut
<1>1. RecordsInv => PeersKeptOut
  BY DEF RecordsInv, Sound, Private, OwnersIn, PeersKeptOut, OwnUsers
<1>. QED
  BY <1>1, Invariant, PTL

\* What the run before delivered, delivered again, changes nothing: an upsert
\* that has been done leaves nothing to do, and no other undoes it.
THEOREM ReplaysChangeNothing == Spec => []Replayable
<1>1. RecordsInv => Replayable
  <2>. SUFFICES ASSUME RecordsInv, NEW t \in Tenants, NEW u \in OwnUsers(t),
                       NEW c \in CourseItems[t], NEW a \in AssignmentItems[t]
                PROVE  LET Replay(rs) == StoreAssignment(StoreCourse(rs, t, c), t, u, c.id, a)
                       IN  Replay(Replay(rows)) = Replay(rows)
    BY DEF Replayable
  <2>1. /\ Sound(rows) /\ u \in OwnersIn(rows, t)
        /\ c \in CourseItem /\ a \in AssignmentItem
    BY RecordsAssumption DEF RecordsInv, OwnersIn, OwnUsers
  <2>2. PICK new : new = StoreAssignment(StoreCourse(rows, t, c), t, u, c.id, a)
    OBVIOUS
  <2>3. StoreAssignment(StoreCourse(new, t, c), t, u, c.id, a) = new
    BY <2>1, <2>2, Replayed
  <2>. QED
    BY <2>2, <2>3
<1>. QED
  BY <1>1, Invariant, PTL

-----------------------------------------------------------------------------
(* Submissions without a link.                                              *)

\* An upsert of another table, or one that links or is excused, leaves none.
LEMMA UpsertPlaced ==
    ASSUME NEW rs, rs \subseteq Row, Placed(rs), NEW t, NEW kind, NEW c,
           NEW change \in Change,
           \/ kind # "submission"
           \/ change.parent # None
           \/ \E item \in AssignmentItems[t] : Misplaced(item) /\ item.submission.id = c
    PROVE  Placed(Upsert(rs, t, kind, c, change))
<1>. DEFINE i == Inserted(t, kind, c, change)
            old == Find(rs, t, kind, c)
<1>1. PlacedRow(i)
  BY DEF PlacedRow, Inserted
<1>2. ASSUME NEW r \in old PROVE PlacedRow(Merged(r, change))
  <2>1. r \in rs /\ r \in Row /\ r.tenant = t /\ r.kind = kind /\ r.canvas = c
    BY DEF Find
  <2>2. PICK m : m = Merged(r, change)
    OBVIOUS
  <2>3. /\ m.tenant = t /\ m.kind = kind /\ m.canvas = c
        /\ m.parent = Given(change.parent, r.parent)
    BY <2>1, <2>2, MergedRow
  <2>4. change.parent # None => m.parent # None
    BY <2>3 DEF Given
  <2>5. m.parent = None => r.parent = None
    BY <2>3 DEF Given
  <2>6. PlacedRow(r)
    BY <2>1 DEF Placed
  <2>. QED
    BY <2>1, <2>2, <2>3, <2>4, <2>5, <2>6 DEF PlacedRow
<1>3. CASE old = {}
  <2>1. Upsert(rs, t, kind, c, change) = rs \cup {i}
    BY <1>3 DEF Upsert
  <2>. HIDE DEF i
  <2>. QED
    BY <1>1, <2>1 DEF Placed
<1>4. CASE old # {}
  <2>1. Upsert(rs, t, kind, c, change)
          = {IF r \in old THEN Merged(r, change) ELSE r : r \in rs}
    BY <1>4 DEF Upsert
  <2>. QED
    BY <1>2, <2>1 DEF Placed
<1>. QED
  BY <1>3, <1>4

\* The assignment is stored before its submission, so that it is found.
LEMMA AssignmentPlaced ==
    ASSUME NEW rs, Sound(rs), Placed(rs), NEW t \in Tenants, NEW u \in OwnersIn(rs, t),
           NEW course, Find(rs, t, "course", course) # {},
           NEW item \in AssignmentItems[t]
    PROVE  Placed(StoreAssignment(rs, t, u, course, item))
<1>. DEFINE parent == Resolve(rs, t, "course", course)
            change == [parent |-> parent, user |-> None, state |-> item.state,
                       about |-> {}, text |-> {}]
            stored == Upsert(rs, t, "assignment", item.id, change)
<1>1. parent \in RowKey /\ parent # None /\ Leads(rs, parent, t, "course")
  BY ResolveLeads, RecordsAssumption DEF Sound
<1>. HIDE DEF parent
<1>2. item \in AssignmentItem /\ rs \subseteq Row
  BY RecordsAssumption DEF Sound
<1>3. Allowed(rs, t, "assignment", item.id, change)
  BY <1>1, <1>2 DEF Allowed, Change, Leads, AssignmentItem, ParentKind
<1>4. "assignment" \in Kinds /\ item.id \in CanvasIds /\ change \in Change
  BY <1>2, <1>3 DEF Kinds, CanvasIds, AssignmentItem, Allowed
<1>. HIDE DEF change
<1>5. Sound(stored) /\ Find(stored, t, "assignment", item.id) # {}
  BY <1>3, <1>4, UpsertSound
<1>6. Placed(stored)
  BY <1>2, <1>4, UpsertPlaced
<1>. HIDE DEF stored
<1>7. StoreAssignment(rs, t, u, course, item)
        = StoreSubmission(stored, t, u, item.submission, item.id)
  BY DEF StoreAssignment, stored, change, parent
<1>8. PICK s : s = item.submission
  OBVIOUS
<1>9. CASE s = None \/ (s # None /\ s.user_id \notin {u, None})
  BY <1>6, <1>7, <1>8, <1>9 DEF StoreSubmission
<1>10. CASE s # None /\ s.user_id \in {u, None}
  <2>. DEFINE link == Resolve(stored, t, "assignment", Given(s.assignment_id, item.id))
              user == Resolve(stored, t, "user", s.user_id)
              text == IF s.body /\ s.user_id = u THEN {u} ELSE {}
              new == [parent |-> link, user |-> user, state |-> s.state,
                      about |-> {s.user_id}, text |-> text]
  <2>1. s \in SubmissionItem /\ stored \subseteq Row
    BY <1>2, <1>5, <1>8, <1>10 DEF AssignmentItem, Sound
  <2>2. link \in RowKey \cup {None} /\ user \in RowKey \cup {None}
    BY <2>1, ResolveLeads
  <2>3. text \subseteq Users \cup {None}
    BY <2>1 DEF SubmissionItem
  <2>4. s.assignment_id \in {None, item.id} => link # None
    <3>1. SUFFICES ASSUME s.assignment_id \in {None, item.id} PROVE link # None
      OBVIOUS
    <3>2. Given(s.assignment_id, item.id) = item.id
      BY <3>1 DEF Given
    <3>3. Resolve(stored, t, "assignment", item.id) \in RowKey
      BY <1>5, <2>1, ResolveLeads
    <3>. QED
      BY <3>2, <3>3, RecordsAssumption
  <2>. HIDE DEF link, user, text
  <2>5. new \in Change
    BY <2>1, <2>2, <2>3 DEF Change, SubmissionItem
  <2>6. new.parent = link
    OBVIOUS
  <2>. HIDE DEF new
  <2>7. \/ new.parent # None
        \/ \E x \in AssignmentItems[t] : Misplaced(x) /\ x.submission.id = s.id
    BY <1>8, <1>10, <2>4, <2>6 DEF Misplaced
  <2>8. StoreSubmission(stored, t, u, s, item.id) = Upsert(stored, t, "submission", s.id, new)
    BY <1>10 DEF StoreSubmission, new, link, user, text
  <2>9. Placed(Upsert(stored, t, "submission", s.id, new))
    BY <1>6, <2>1, <2>5, <2>7, UpsertPlaced
  <2>. QED
    BY <1>7, <1>8, <2>8, <2>9
<1>. QED
  BY <1>9, <1>10

\* The other stores write other tables.
LEMMA OthersPlaced ==
    ASSUME NEW rs, Sound(rs), Placed(rs), NEW t \in Tenants
    PROVE  /\ \A u \in Users :
                Placed(Upsert(rs, t, "user", u, [NoChange EXCEPT !.about = {u}]))
           /\ \A item \in CourseItem : Placed(StoreCourse(rs, t, item))
           /\ \A e, course : e \in EnrollmentItem =>
                Placed(StoreEnrollment(rs, t, e, course))
<1>1. rs \subseteq Row
  BY DEF Sound
<1>2. ASSUME NEW u \in Users
      PROVE  Placed(Upsert(rs, t, "user", u, [NoChange EXCEPT !.about = {u}]))
  <2>1. [NoChange EXCEPT !.about = {u}] \in Change
    BY DEF NoChange, Change, States
  <2>. QED
    BY <1>1, <2>1, UpsertPlaced
<1>3. ASSUME NEW item \in CourseItem PROVE Placed(StoreCourse(rs, t, item))
  <2>1. [NoChange EXCEPT !.state = item.state] \in Change
    BY DEF NoChange, Change, CourseItem
  <2>. QED
    BY <1>1, <2>1, UpsertPlaced DEF StoreCourse
<1>4. ASSUME NEW e \in EnrollmentItem, NEW course
      PROVE  Placed(StoreEnrollment(rs, t, e, course))
  <2>. DEFINE parent == Resolve(rs, t, "course", Given(e.course_id, course))
              user == Resolve(rs, t, "user", e.user_id)
              change == [parent |-> parent, user |-> user, state |-> e.state,
                         about |-> {EnrolledUser(e)}, text |-> {}]
  <2>1. parent \in RowKey \cup {None} /\ user \in RowKey \cup {None}
    BY <1>1, ResolveLeads
  <2>2. EnrolledUser(e) \in Users \cup {None} /\ e.state \in States
    BY DEF EnrolledUser, Given, EnrollmentItem
  <2>. HIDE DEF parent, user
  <2>3. change \in Change
    BY <2>1, <2>2 DEF Change
  <2>. HIDE DEF change
  <2>4. Placed(Upsert(rs, t, "enrollment", e.id, change))
    BY <1>1, <2>3, UpsertPlaced
  <2>. QED
    BY <2>4 DEF StoreEnrollment, change, parent, user
<1>. QED
  BY <1>2, <1>3, <1>4

LEMMA StepPlaced ==
    ASSUME RecordsInv, AllPlaced, [Next]_vars
    PROVE  AllPlaced'
<1>1. Sound(rows) /\ Placed(rows)
  BY DEF RecordsInv, AllPlaced, Placed
<1>2. ASSUME NEW rs, rows' = rs, Placed(rs) PROVE AllPlaced'
  BY <1>2 DEF AllPlaced, Placed, PlacedRow
<1>3. CASE rows' = rows
  BY <1>1, <1>2, <1>3
<1>4. ASSUME NEW t \in Tenants, Step(t), rows' # rows PROVE AllPlaced'
  <2>1. CASE SelfUser(t)
    <3>1. PICK u \in Accounts[t] :
            rows' = Upsert(rows, t, "user", u, [NoChange EXCEPT !.about = {u}])
      BY <2>1 DEF SelfUser
    <3>2. u \in Users
      BY RecordsAssumption
    <3>. QED
      BY <1>1, <1>2, <3>1, <3>2, OthersPlaced
  <2>2. CASE FavouriteCourse(t)
    <3>1. PICK item \in CourseItems[t] : rows' = StoreCourse(rows, t, item)
      BY <2>2 DEF FavouriteCourse
    <3>2. item \in CourseItem
      BY RecordsAssumption
    <3>. QED
      BY <1>1, <1>2, <3>1, <3>2, OthersPlaced
  <2>3. CASE EmbeddedEnrollment(t)
    <3>1. PICK e, course : /\ run[t].pending # <<>> /\ e = Head(run[t].pending)
                           /\ rows' = StoreEnrollment(rows, t, e, course)
      BY <1>4, <2>3 DEF EmbeddedEnrollment
    <3>2. e \in EnrollmentItem
      BY <3>1, RunParts, HeadTailProperties
    <3>. QED
      BY <1>1, <1>2, <3>1, <3>2, OthersPlaced
  <2>4. CASE FallbackEnrollment(t)
    <3>1. PICK e \in EnrollmentItems[t] : rows' = StoreEnrollment(rows, t, e, e.course_id)
      BY <2>4 DEF FallbackEnrollment
    <3>2. e \in EnrollmentItem
      BY RecordsAssumption
    <3>. QED
      BY <1>1, <1>2, <3>1, <3>2, OthersPlaced
  <2>5. CASE Assignment(t)
    <3>1. PICK item \in AssignmentItems[t] :
            rows' = StoreAssignment(rows, t, run[t].user, Head(run[t].listed), item)
      BY <2>5 DEF Assignment
    <3>2. run[t].phase = "assignments" /\ run[t].listed # <<>>
      BY <2>5 DEF Assignment
    <3>3. run[t].user \in OwnersIn(rows, t)
      BY <3>2, OwnersAreUsers
    <3>4. Find(rows, t, "course", Head(run[t].listed)) # {}
      <4>1. Head(run[t].listed) = run[t].listed[1] /\ 1 \in 1..Len(run[t].listed)
        BY <3>2, RunParts
      <4>. QED
        BY <4>1, RunParts DEF Known
    <3>. QED
      BY <1>1, <1>2, <3>1, <3>3, <3>4, AssignmentPlaced
  <2>6. ~(EndOfCourses(t) \/ EndOfEnrollments(t) \/ EndOfAssignments(t) \/ EndOfRun(t))
    BY <1>4 DEF EndOfCourses, EndOfEnrollments, EndOfAssignments, EndOfRun
  <2>. QED
    BY <1>4, <2>1, <2>2, <2>3, <2>4, <2>5, <2>6 DEF Step
<1>. QED
  BY <1>3, <1>4 DEF Next, vars

\* Assignments are linked, submissions are unless they name another assignment
\* than the one they came with, and no link is lost.
THEOREM LinksAreKept == Spec => NoOrphans
<1>1. RecordsInv /\ AllPlaced /\ [Next]_vars =>
        [\A r \in rows' :
            /\ r.kind = "assignment" => r.parent # None
            /\ r.kind = "submission" /\ r.parent = None =>
                \E item \in AssignmentItems[r.tenant] :
                    Misplaced(item) /\ item.submission.id = r.canvas
            /\ \A s \in rows : KeyOf(s) = KeyOf(r) =>
                /\ s.parent # None => r.parent # None
                /\ s.user # None => r.user # None]_vars
  <2>. SUFFICES ASSUME RecordsInv, AllPlaced, [Next]_vars, NEW r \in rows'
                PROVE  /\ r.kind = "assignment" => r.parent # None
                       /\ r.kind = "submission" /\ r.parent = None =>
                            \E item \in AssignmentItems[r.tenant] :
                                Misplaced(item) /\ item.submission.id = r.canvas
                       /\ \A s \in rows : KeyOf(s) = KeyOf(r) =>
                            /\ s.parent # None => r.parent # None
                            /\ s.user # None => r.user # None
    OBVIOUS
  <2>1. RecordsInv' /\ Keeps(rows, rows')
    BY StepPreserves
  <2>2. r.kind = "assignment" => r.parent # None
    BY <2>1 DEF RecordsInv, Sound, Linked
  <2>3. \A s \in rows : KeyOf(s) = KeyOf(r) =>
            /\ s.parent # None => r.parent # None
            /\ s.user # None => r.user # None
    BY <2>1 DEF Keeps
  <2>4. r.kind = "submission" /\ r.parent = None =>
            \E item \in AssignmentItems[r.tenant] :
                Misplaced(item) /\ item.submission.id = r.canvas
    BY StepPlaced DEF AllPlaced, PlacedRow
  <2>. QED
    BY <2>2, <2>3, <2>4
<1>2. Init => AllPlaced
  BY DEF Init, AllPlaced
<1>3. RecordsInv /\ AllPlaced /\ [Next]_vars => AllPlaced'
  BY StepPlaced
<1>. QED
  BY <1>1, <1>2, <1>3, Invariant, PTL DEF Spec, NoOrphans

-----------------------------------------------------------------------------
(* The view of one tenant (RecordsAlone).                                   *)

View(rs) == {r \in rs : r.tenant = Self}

\* The operators on the tables do not depend on which tenants there are.
LEMMA SameUpsert ==
    /\ \A rs, t, kind, c, change :
        Alone!Upsert(rs, t, kind, c, change) = Upsert(rs, t, kind, c, change)
    /\ \A rs, t, kind, c : Alone!Resolve(rs, t, kind, c) = Resolve(rs, t, kind, c)
    /\ \A new, old : Alone!Given(new, old) = Given(new, old)
    /\ Alone!NoChange = NoChange
BY DEF Alone!Upsert, Upsert, Alone!Find, Find, Alone!Merged, Merged, Alone!Given, Given,
       Alone!Inserted, Inserted, Alone!Resolve, Resolve, Alone!KeyOf, KeyOf,
       Alone!NoChange, NoChange

LEMMA SameStores ==
    /\ \A rs, t, e, course :
        Alone!StoreEnrollment(rs, t, e, course) = StoreEnrollment(rs, t, e, course)
    /\ \A rs, t, item : Alone!StoreCourse(rs, t, item) = StoreCourse(rs, t, item)
    /\ \A rs, t, u, course, item :
        Alone!StoreAssignment(rs, t, u, course, item) = StoreAssignment(rs, t, u, course, item)
    /\ \A e, u : Alone!Kept(e, u) <=> Kept(e, u)
<1>1. \A e : Alone!EnrolledUser(e) = EnrolledUser(e)
  BY SameUpsert DEF Alone!EnrolledUser, EnrolledUser
<1>2. \A e, u : Alone!Kept(e, u) <=> Kept(e, u)
  BY <1>1 DEF Alone!Kept, Kept
<1>3. \A rs, t, e, course :
        Alone!StoreEnrollment(rs, t, e, course) = StoreEnrollment(rs, t, e, course)
  BY <1>1, SameUpsert DEF Alone!StoreEnrollment, StoreEnrollment
<1>4. \A rs, t, item : Alone!StoreCourse(rs, t, item) = StoreCourse(rs, t, item)
  BY SameUpsert DEF Alone!StoreCourse, StoreCourse
<1>5. \A rs, t, u, s, a :
        Alone!StoreSubmission(rs, t, u, s, a) = StoreSubmission(rs, t, u, s, a)
  BY SameUpsert DEF Alone!StoreSubmission, StoreSubmission
<1>6. \A rs, t, u, course, item :
        Alone!StoreAssignment(rs, t, u, course, item) = StoreAssignment(rs, t, u, course, item)
  BY <1>5, SameUpsert DEF Alone!StoreAssignment, StoreAssignment
<1>. QED
  BY <1>2, <1>3, <1>4, <1>6

\* What a tenant finds is in its view.
LEMMA ViewResolve ==
    ASSUME NEW rs, NEW kind, NEW c
    PROVE  /\ Find(View(rs), Self, kind, c) = Find(rs, Self, kind, c)
           /\ Resolve(View(rs), Self, kind, c) = Resolve(rs, Self, kind, c)
<1>1. Find(View(rs), Self, kind, c) = Find(rs, Self, kind, c)
  BY DEF Find, View
<1>. QED
  BY <1>1 DEF Resolve

\* An update moves no row to another tenant.
LEMMA MergedTenant ==
    ASSUME NEW r \in Row, NEW change
    PROVE  Merged(r, change).tenant = r.tenant
BY DEF Merged, Row

\* A tenant's upsert is the same upsert on its view.
LEMMA ViewUpsert ==
    ASSUME NEW rs, rs \subseteq Row, NEW kind, NEW c, NEW change
    PROVE  View(Upsert(rs, Self, kind, c, change)) = Upsert(View(rs), Self, kind, c, change)
<1>. DEFINE old == Find(rs, Self, kind, c)
            i == Inserted(Self, kind, c, change)
            f(r) == IF r \in old THEN Merged(r, change) ELSE r
<1>1. Find(View(rs), Self, kind, c) = old
  BY ViewResolve
<1>2. \A r \in rs : f(r).tenant = r.tenant
  BY MergedTenant
<1>3. i.tenant = Self
  BY DEF Inserted
<1>4. CASE old = {}
  <2>1. /\ Upsert(rs, Self, kind, c, change) = rs \cup {i}
        /\ Upsert(View(rs), Self, kind, c, change) = View(rs) \cup {i}
    BY <1>1, <1>4 DEF Upsert
  <2>. HIDE DEF i
  <2>. QED
    BY <1>3, <2>1 DEF View
<1>5. CASE old # {}
  <2>1. /\ Upsert(rs, Self, kind, c, change) = {f(r) : r \in rs}
        /\ Upsert(View(rs), Self, kind, c, change) = {f(r) : r \in View(rs)}
    BY <1>1, <1>5 DEF Upsert
  <2>. HIDE DEF f
  <2>2. View({f(r) : r \in rs}) = {f(r) : r \in View(rs)}
    BY <1>2 DEF View
  <2>. QED
    BY <2>1, <2>2
<1>. QED
  BY <1>4, <1>5

\* The upsert of another tenant does not show.
LEMMA ViewOfOthers ==
    ASSUME NEW rs, rs \subseteq Row, NEW t, t # Self, NEW kind, NEW c, NEW change
    PROVE  View(Upsert(rs, t, kind, c, change)) = View(rs)
<1>. DEFINE old == Find(rs, t, kind, c)
            i == Inserted(t, kind, c, change)
            f(r) == IF r \in old THEN Merged(r, change) ELSE r
<1>1. \A r \in rs : f(r).tenant = r.tenant
  BY MergedTenant
<1>2. \A r \in rs : r.tenant = Self => f(r) = r
  BY DEF Find
<1>3. i.tenant = t
  BY DEF Inserted
<1>4. CASE old = {}
  <2>1. Upsert(rs, t, kind, c, change) = rs \cup {i}
    BY <1>4 DEF Upsert
  <2>. HIDE DEF i
  <2>. QED
    BY <1>3, <2>1 DEF View
<1>5. CASE old # {}
  <2>1. Upsert(rs, t, kind, c, change) = {f(r) : r \in rs}
    BY <1>5 DEF Upsert
  <2>. HIDE DEF f
  <2>2. View({f(r) : r \in rs}) = View(rs)
    BY <1>1, <1>2 DEF View
  <2>. QED
    BY <2>1, <2>2
<1>. QED
  BY <1>4, <1>5

LEMMA UpsertRows ==
    ASSUME NEW rs, rs \subseteq Row, NEW t \in Tenants, NEW kind \in Kinds,
           NEW c \in CanvasIds, NEW change \in Change
    PROVE  Upsert(rs, t, kind, c, change) \subseteq Row
<1>1. Inserted(t, kind, c, change) \in Row
  BY InsertedSettled
<1>2. \A r \in rs : Merged(r, change) \in Row
  BY MergedRow
<1>. QED
  BY <1>1, <1>2 DEF Upsert

\* The same for what is stored of a submission, and of an assignment.
LEMMA ViewSubmission ==
    ASSUME NEW rs, rs \subseteq Row, NEW t, NEW u, NEW s, NEW assignment
    PROVE  View(StoreSubmission(rs, t, u, s, assignment))
             = IF t = Self THEN StoreSubmission(View(rs), Self, u, s, assignment)
               ELSE View(rs)
<1>1. CASE s = None \/ (s # None /\ s.user_id \notin {u, None})
  BY <1>1 DEF StoreSubmission
<1>2. CASE s # None /\ s.user_id \in {u, None}
  <2>. DEFINE change(x) ==
                [parent |-> Resolve(x, t, "assignment", Given(s.assignment_id, assignment)),
                 user |-> Resolve(x, t, "user", s.user_id),
                 state |-> s.state, about |-> {s.user_id},
                 text |-> IF s.body /\ s.user_id = u THEN {u} ELSE {}]
  <2>1. \A x : StoreSubmission(x, t, u, s, assignment)
                 = Upsert(x, t, "submission", s.id, change(x))
    BY <1>2 DEF StoreSubmission
  <2>2. t = Self => change(View(rs)) = change(rs)
    BY ViewResolve
  <2>. HIDE DEF change
  <2>. QED
    BY <2>1, <2>2, ViewUpsert, ViewOfOthers
<1>. QED
  BY <1>1, <1>2

LEMMA ViewAssignment ==
    ASSUME NEW rs, rs \subseteq Row, NEW t \in Tenants, NEW u, NEW course,
           NEW item \in AssignmentItem
    PROVE  View(StoreAssignment(rs, t, u, course, item))
             = IF t = Self THEN StoreAssignment(View(rs), Self, u, course, item)
               ELSE View(rs)
<1>. DEFINE change(x) == [parent |-> Resolve(x, t, "course", course), user |-> None,
                          state |-> item.state, about |-> {}, text |-> {}]
            stored(x) == Upsert(x, t, "assignment", item.id, change(x))
<1>1. \A x : StoreAssignment(x, t, u, course, item)
               = StoreSubmission(stored(x), t, u, item.submission, item.id)
  BY DEF StoreAssignment
<1>2. change(rs) \in Change
  <2>1. Resolve(rs, t, "course", course) \in RowKey \cup {None}
    BY ResolveLeads
  <2>. QED
    BY <2>1 DEF Change, AssignmentItem
<1>3. t = Self => change(View(rs)) = change(rs)
  BY ViewResolve
<1>4. "assignment" \in Kinds /\ item.id \in CanvasIds
  BY DEF Kinds, CanvasIds, AssignmentItem
<1>. HIDE DEF change
<1>5. stored(rs) \subseteq Row
  BY <1>2, <1>4, UpsertRows
<1>6. View(stored(rs)) = IF t = Self THEN stored(View(rs)) ELSE View(rs)
  BY <1>3, ViewUpsert, ViewOfOthers
<1>. HIDE DEF stored
<1>7. View(StoreSubmission(stored(rs), t, u, item.submission, item.id))
        = IF t = Self THEN StoreSubmission(View(stored(rs)), Self, u, item.submission, item.id)
          ELSE View(stored(rs))
  <2>1. PICK x, s : x = stored(rs) /\ x \subseteq Row /\ s = item.submission
    BY <1>5
  <2>2. View(StoreSubmission(x, t, u, s, item.id))
          = IF t = Self THEN StoreSubmission(View(x), Self, u, s, item.id) ELSE View(x)
    BY <2>1, ViewSubmission
  <2>. QED
    BY <2>1, <2>2
<1>. QED
  BY <1>1, <1>6, <1>7

LEMMA ViewEnrollment ==
    ASSUME NEW rs, rs \subseteq Row, NEW t, NEW e, NEW course
    PROVE  View(StoreEnrollment(rs, t, e, course))
             = IF t = Self THEN StoreEnrollment(View(rs), Self, e, course) ELSE View(rs)
<1>. DEFINE change(x) == [parent |-> Resolve(x, t, "course", Given(e.course_id, course)),
                          user |-> Resolve(x, t, "user", e.user_id),
                          state |-> e.state, about |-> {EnrolledUser(e)}, text |-> {}]
<1>1. \A x : StoreEnrollment(x, t, e, course) = Upsert(x, t, "enrollment", e.id, change(x))
  BY DEF StoreEnrollment
<1>2. t = Self => change(View(rs)) = change(rs)
  BY ViewResolve
<1>. HIDE DEF change
<1>. QED
  BY <1>1, <1>2, ViewUpsert, ViewOfOthers

LEMMA ViewCourse ==
    ASSUME NEW rs, rs \subseteq Row, NEW t, NEW item
    PROVE  View(StoreCourse(rs, t, item))
             = IF t = Self THEN StoreCourse(View(rs), Self, item) ELSE View(rs)
BY ViewUpsert, ViewOfOthers DEF StoreCourse

\* The steps of the others are no steps for the tenant.
LEMMA OthersStutter ==
    ASSUME RecordsInv, NEW t \in Tenants, t # Self, Step(t)
    PROVE  UNCHANGED Alone!vars
<1>1. rows \subseteq Row
  BY DEF RecordsInv, Sound
<1>2. run' = run \/ \E p : run' = [run EXCEPT ![t] = p]
  <2>1. CASE SelfUser(t)
    BY <2>1 DEF SelfUser
  <2>2. CASE FavouriteCourse(t)
    BY <2>2 DEF FavouriteCourse
  <2>3. CASE EmbeddedEnrollment(t)
    BY <2>3 DEF EmbeddedEnrollment
  <2>4. CASE \/ EndOfCourses(t) \/ EndOfEnrollments(t)
             \/ EndOfAssignments(t) \/ EndOfRun(t)
    BY <2>4 DEF EndOfCourses, EndOfEnrollments, EndOfAssignments, EndOfRun
  <2>. QED
    BY <2>1, <2>2, <2>3, <2>4 DEF Step, FallbackEnrollment, Assignment
<1>3. run'[Self] = run[Self]
  BY <1>2, SelfAssumption DEF RecordsInv, RunsTyped
<1>4. PICK rs : rows' = rs /\ View(rs) = View(rows)
  <2>1. CASE SelfUser(t)
    BY <1>1, <2>1, ViewOfOthers DEF SelfUser
  <2>2. CASE FavouriteCourse(t)
    BY <1>1, <2>2, ViewCourse DEF FavouriteCourse
  <2>3. CASE EmbeddedEnrollment(t)
    BY <1>1, <2>3, ViewEnrollment DEF EmbeddedEnrollment
  <2>4. CASE FallbackEnrollment(t)
    BY <1>1, <2>4, ViewEnrollment DEF FallbackEnrollment
  <2>5. CASE Assignment(t)
    <3>1. PICK item \in AssignmentItems[t] :
            rows' = StoreAssignment(rows, t, run[t].user, Head(run[t].listed), item)
      BY <2>5 DEF Assignment
    <3>2. item \in AssignmentItem
      BY RecordsAssumption
    <3>. QED
      BY <1>1, <3>1, <3>2, ViewAssignment
  <2>6. CASE \/ EndOfCourses(t) \/ EndOfEnrollments(t)
             \/ EndOfAssignments(t) \/ EndOfRun(t)
    BY <2>6 DEF EndOfCourses, EndOfEnrollments, EndOfAssignments, EndOfRun
  <2>. QED
    BY <2>1, <2>2, <2>3, <2>4, <2>5, <2>6 DEF Step
<1>5. Mine' = Mine
  BY <1>4 DEF Mine, View
<1>6. MyRun' = MyRun
  BY <1>3 DEF MyRun
<1>. QED
  BY <1>5, <1>6 DEF Alone!vars

\* What the tenant's own steps do to its view.
LEMMA OwnView ==
    /\ Mine = View(rows)
    /\ MyRun[Self] = run[Self] /\ DOMAIN MyRun = {Self}
    /\ \A rs : rows' = rs => Mine' = View(rs)
    /\ run' = run => MyRun' = MyRun
    /\ \A p : RunsTyped /\ run' = [run EXCEPT ![Self] = p] => MyRun' = [MyRun EXCEPT ![Self] = p]
<1>1. /\ Mine = View(rows)
      /\ MyRun[Self] = run[Self] /\ DOMAIN MyRun = {Self}
      /\ \A rs : rows' = rs => Mine' = View(rs)
      /\ run' = run => MyRun' = MyRun
  BY DEF Mine, View, MyRun
<1>2. ASSUME NEW p, RunsTyped, run' = [run EXCEPT ![Self] = p]
      PROVE  MyRun' = [MyRun EXCEPT ![Self] = p]
  <2>1. run'[Self] = p
    BY <1>2, SelfAssumption DEF RunsTyped
  <2>. QED
    BY <2>1 DEF MyRun
<1>. QED
  BY <1>1, <1>2

\* The steps that end something touch no row.
LEMMA OwnEnds ==
    ASSUME RecordsInv, \/ EndOfCourses(Self) \/ EndOfEnrollments(Self)
                       \/ EndOfAssignments(Self) \/ EndOfRun(Self)
    PROVE  Alone!Step(Self)
<1>1. Mine' = Mine /\ RunsTyped
  BY DEF EndOfCourses, EndOfEnrollments, EndOfAssignments, EndOfRun, Mine, RecordsInv
<1>2. CASE EndOfCourses(Self)
  <2>1. PICK p : p = [run[Self] EXCEPT !.phase =
                        IF run[Self].embedded THEN "assignments" ELSE "enrollments"]
    OBVIOUS
  <2>2. run' = [run EXCEPT ![Self] = p]
    BY <1>2, <2>1 DEF EndOfCourses
  <2>3. MyRun' = [MyRun EXCEPT ![Self] = p]
    BY <1>1, <2>2, OwnView
  <2>4. Alone!EndOfCourses(Self)
    BY <1>1, <1>2, <2>1, <2>3, OwnView DEF EndOfCourses, Alone!EndOfCourses
  <2>. QED
    BY <2>4 DEF Alone!Step
<1>3. CASE EndOfEnrollments(Self)
  <2>1. PICK p : p = [run[Self] EXCEPT !.phase = "assignments"]
    OBVIOUS
  <2>2. run' = [run EXCEPT ![Self] = p]
    BY <1>3, <2>1 DEF EndOfEnrollments
  <2>3. MyRun' = [MyRun EXCEPT ![Self] = p]
    BY <1>1, <2>2, OwnView
  <2>4. Alone!EndOfEnrollments(Self)
    BY <1>1, <1>3, <2>1, <2>3, OwnView DEF EndOfEnrollments, Alone!EndOfEnrollments
  <2>. QED
    BY <2>4 DEF Alone!Step
<1>4. CASE EndOfAssignments(Self)
  <2>1. PICK p : p = [run[Self] EXCEPT !.listed = Tail(run[Self].listed)]
    OBVIOUS
  <2>2. run' = [run EXCEPT ![Self] = p]
    BY <1>4, <2>1 DEF EndOfAssignments
  <2>3. MyRun' = [MyRun EXCEPT ![Self] = p]
    BY <1>1, <2>2, OwnView
  <2>4. Alone!EndOfAssignments(Self)
    BY <1>1, <1>4, <2>1, <2>3, OwnView DEF EndOfAssignments, Alone!EndOfAssignments
  <2>. QED
    BY <2>4 DEF Alone!Step
<1>5. CASE EndOfRun(Self)
  <2>1. MyRun' = [MyRun EXCEPT ![Self] = Idle]
    BY <1>1, <1>5, OwnView DEF EndOfRun
  <2>2. Alone!EndOfRun(Self)
    BY <1>1, <1>5, <2>1, OwnView DEF EndOfRun, Alone!EndOfRun, Alone!Idle, Idle
  <2>. QED
    BY <2>2 DEF Alone!Step
<1>. QED
  BY <1>2, <1>3, <1>4, <1>5

LEMMA OwnSteps ==
    ASSUME RecordsInv, Step(Self)
    PROVE  Alone!Step(Self)
<1>1. rows \subseteq Row /\ RunsTyped
  BY DEF RecordsInv, Sound
<1>2. CASE SelfUser(Self)
  <2>1. PICK u \in Accounts[Self] :
          /\ rows' = Upsert(rows, Self, "user", u, [NoChange EXCEPT !.about = {u}])
          /\ run' = [run EXCEPT ![Self] = Begun(u)]
    BY <1>2 DEF SelfUser
  <2>2. Mine' = Alone!Upsert(Mine, Self, "user", u, [Alone!NoChange EXCEPT !.about = {u}])
    BY <1>1, <2>1, OwnView, ViewUpsert, SameUpsert
  <2>3. MyRun' = [MyRun EXCEPT ![Self] = Alone!Begun(u)]
    <3>1. Alone!Begun(u) = Begun(u)
      BY DEF Alone!Begun, Begun
    <3>. QED
      BY <1>1, <2>1, <3>1, OwnView
  <2>4. Alone!SelfUser(Self)
    BY <1>2, <2>2, <2>3, OwnView DEF SelfUser, Alone!SelfUser
  <2>. QED
    BY <2>4 DEF Alone!Step
<1>3. CASE FavouriteCourse(Self)
  <2>1. PICK item \in CourseItems[Self] :
          /\ rows' = StoreCourse(rows, Self, item)
          /\ run' = [run EXCEPT ![Self].listed = Append(@, item.id),
                                ![Self].pending = item.enrollments]
    BY <1>3 DEF FavouriteCourse
  <2>2. Mine' = Alone!StoreCourse(Mine, Self, item)
    BY <1>1, <2>1, OwnView, ViewCourse, SameStores
  <2>3. PICK p : p = [[run[Self] EXCEPT !.listed = Append(run[Self].listed, item.id)]
                        EXCEPT !.pending = item.enrollments]
    OBVIOUS
  <2>4. run' = [run EXCEPT ![Self] = p]
    BY <1>1, <2>1, <2>3, SelfAssumption DEF RunsTyped
  <2>5. MyRun' = [MyRun EXCEPT ![Self] = p]
    BY <1>1, <2>4, OwnView
  <2>6. MyRun' = [MyRun EXCEPT ![Self].listed = Append(@, item.id),
                               ![Self].pending = item.enrollments]
    BY <2>3, <2>5, OwnView DEF MyRun
  <2>7. Alone!FavouriteCourse(Self)
    BY <1>3, <2>1, <2>2, <2>6, OwnView DEF FavouriteCourse, Alone!FavouriteCourse
  <2>. QED
    BY <2>7 DEF Alone!Step
<1>4. CASE EmbeddedEnrollment(Self)
  <2>1. PICK e, course : /\ e = Head(run[Self].pending)
                         /\ course = run[Self].listed[Len(run[Self].listed)]
    OBVIOUS
  <2>2. CASE Kept(e, run[Self].user)
    <3>1. /\ rows' = StoreEnrollment(rows, Self, e, course)
          /\ run' = [run EXCEPT ![Self].pending = Tail(@), ![Self].embedded = TRUE]
      BY <1>4, <2>1, <2>2 DEF EmbeddedEnrollment
    <3>2. Mine' = Alone!StoreEnrollment(Mine, Self, e, course)
      BY <1>1, <3>1, OwnView, ViewEnrollment, SameStores
    <3>3. PICK p : p = [[run[Self] EXCEPT !.pending = Tail(run[Self].pending)]
                          EXCEPT !.embedded = TRUE]
      OBVIOUS
    <3>4. run' = [run EXCEPT ![Self] = p]
      BY <1>1, <3>1, <3>3, SelfAssumption DEF RunsTyped
    <3>5. MyRun' = [MyRun EXCEPT ![Self] = p]
      BY <1>1, <3>4, OwnView
    <3>6. MyRun' = [MyRun EXCEPT ![Self].pending = Tail(@), ![Self].embedded = TRUE]
      BY <3>3, <3>5, OwnView DEF MyRun
    <3>7. Alone!EmbeddedEnrollment(Self)
      BY <1>4, <2>1, <2>2, <3>2, <3>6, OwnView, SameStores
      DEF EmbeddedEnrollment, Alone!EmbeddedEnrollment
    <3>. QED
      BY <3>7 DEF Alone!Step
  <2>3. CASE ~Kept(e, run[Self].user)
    <3>1. rows' = rows /\ run' = [run EXCEPT ![Self].pending = Tail(@)]
      BY <1>4, <2>1, <2>3 DEF EmbeddedEnrollment
    <3>2. PICK p : p = [run[Self] EXCEPT !.pending = Tail(run[Self].pending)]
      OBVIOUS
    <3>3. run' = [run EXCEPT ![Self] = p]
      BY <3>1, <3>2
    <3>4. MyRun' = [MyRun EXCEPT ![Self] = p] /\ Mine' = Mine
      BY <1>1, <3>1, <3>3, OwnView
    <3>5. MyRun' = [MyRun EXCEPT ![Self].pending = Tail(@)]
      BY <3>2, <3>4, OwnView
    <3>6. Alone!EmbeddedEnrollment(Self)
      BY <1>4, <2>1, <2>3, <3>4, <3>5, OwnView, SameStores
      DEF EmbeddedEnrollment, Alone!EmbeddedEnrollment
    <3>. QED
      BY <3>6 DEF Alone!Step
  <2>. QED
    BY <2>2, <2>3
<1>5. CASE FallbackEnrollment(Self)
  <2>1. PICK e \in EnrollmentItems[Self] :
          /\ Kept(e, run[Self].user)
          /\ rows' = StoreEnrollment(rows, Self, e, e.course_id)
    BY <1>5 DEF FallbackEnrollment
  <2>2. Mine' = Alone!StoreEnrollment(Mine, Self, e, e.course_id)
    BY <1>1, <2>1, OwnView, ViewEnrollment, SameStores
  <2>3. Alone!FallbackEnrollment(Self)
    BY <1>5, <2>1, <2>2, OwnView, SameStores
    DEF FallbackEnrollment, Alone!FallbackEnrollment
  <2>. QED
    BY <2>3 DEF Alone!Step
<1>6. CASE Assignment(Self)
  <2>1. PICK item \in AssignmentItems[Self] :
          rows' = StoreAssignment(rows, Self, run[Self].user, Head(run[Self].listed), item)
    BY <1>6 DEF Assignment
  <2>2. item \in AssignmentItem
    BY SelfAssumption, RecordsAssumption
  <2>3. Mine' = Alone!StoreAssignment(Mine, Self, run[Self].user, Head(run[Self].listed), item)
    BY <1>1, <2>1, <2>2, OwnView, ViewAssignment, SameStores, SelfAssumption
  <2>4. Alone!Assignment(Self)
    BY <1>6, <2>1, <2>3, OwnView DEF Assignment, Alone!Assignment
  <2>. QED
    BY <2>4 DEF Alone!Step
<1>. QED
  BY <1>2, <1>3, <1>4, <1>5, <1>6, OwnEnds DEF Step

\* No tenant can tell that there are others: its rows and its run are those of a
\* database of its own (the tenant_id filters of upsert_by_canvas_id and of
\* _resolve_local_uuid), for any number of tenants and any shared Canvas ids.
THEOREM TenantsDoNotInterfere == Spec => AsIfAlone
<1>1. Init => Alone!Init
  <2>. SUFFICES ASSUME Init PROVE Alone!Init
    OBVIOUS
  <2>1. Mine = {}
    BY DEF Init, Mine
  <2>2. MyRun = [t \in {Self} |-> Alone!Idle]
    BY SelfAssumption DEF Init, MyRun, Alone!Idle, Idle
  <2>. QED
    BY <2>1, <2>2 DEF Alone!Init
<1>2. RecordsInv /\ [Next]_vars => [Alone!Next]_(Alone!vars)
  <2>. SUFFICES ASSUME RecordsInv, [Next]_vars PROVE [Alone!Next]_(Alone!vars)
    OBVIOUS
  <2>1. CASE UNCHANGED vars
    BY <2>1 DEF vars, Alone!vars, Mine, MyRun
  <2>2. ASSUME NEW t \in Tenants, Step(t), t # Self PROVE UNCHANGED Alone!vars
    BY <2>2, OthersStutter
  <2>3. ASSUME Step(Self) PROVE Alone!Next
    BY <2>3, OwnSteps DEF Alone!Next
  <2>. QED
    BY <2>1, <2>2, <2>3 DEF Next
<1>. QED
  BY <1>1, <1>2, Invariant, PTL DEF Spec, AsIfAlone, Alone!Spec
=============================================================================
