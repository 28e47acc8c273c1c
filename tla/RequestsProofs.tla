--------------------------- MODULE RequestsProofs ---------------------------
(***************************************************************************)
(* Theorems about Requests, for any number of users, requests, tenants,    *)
(* tokens and keys.                                                        *)
(***************************************************************************)
EXTENDS Requests, TLAPS

InFlight(q) == req[q].stage \notin {"idle", "answered"}

Connecting(q) == InFlight(q) /\ req[q].route = "connect"

\* What a handler holds at each stage.
ShapeInv ==
    \A q \in Reqs :
        /\ ~InFlight(q) => /\ req[q].token = None /\ req[q].tenant = None
                           /\ ~req[q].adding
                           /\ req[q].before = {} /\ req[q].old = {}
        /\ InFlight(q) => req[q].user \in Users
        /\ req[q].stage \in {"received", "known", "missing"} =>
                req[q].tenant = None /\ ~req[q].adding
        /\ req[q].stage \in {"resolved", "inserting", "stored", "served"} =>
                req[q].tenant \in TenantIds
        /\ req[q].stage \in {"inserting", "stored"} => req[q].route = "connect"
        /\ req[q].adding \/ req[q].stage \in {"missing", "inserting", "stored"} =>
                store = "tables"

\* Tenants are told apart, those not committed included, and only committed
\* ones have credentials.
TenantsInv ==
    /\ \A u, v \in Users : tenants[u] = tenants[v] /\ tenants[u] # None => u = v
    /\ \A q \in Reqs : req[q].tenant # None =>
            \/ tenants[req[q].user] = req[q].tenant
            \/ tenants[req[q].user] = None /\ req[q].adding
    /\ \A q \in Reqs : req[q].adding =>
            req[q].tenant # None /\ \A v \in Users : tenants[v] # req[q].tenant
    /\ \A p, q \in Reqs : p # q /\ req[p].adding /\ req[q].adding =>
            req[p].user # req[q].user /\ req[p].tenant # req[q].tenant
    /\ \A i \in TenantIds : creds[i] # None => \E u \in Users : tenants[u] = i

\* Superseded tokens are done, and done ones were accepted.
HistoryInv ==
    /\ \A u \in Users : stale[u] \subseteq done[u] /\ done[u] \subseteq accepted[u]
    /\ \A q \in Reqs : InFlight(q) => /\ req[q].before \subseteq done[req[q].user]
                                     /\ req[q].old \subseteq stale[req[q].user]

\* The token of a connect under way is its own and not yet done.
TokensInv ==
    /\ \A q \in Reqs : Connecting(q) =>
            /\ req[q].token \in Tokens
            /\ \A v \in Users : req[q].token \notin done[v]
    /\ \A p, q \in Reqs : Connecting(p) /\ Connecting(q) /\ p # q =>
            req[p].token # req[q].token
    /\ \A q \in Reqs : req[q].stage \in {"inserting", "stored"} =>
            req[q].token \in accepted[req[q].user]

\* The credential of a user is a token of that user's that is not superseded.
OwnInv ==
    \A u \in Users :
        tenants[u] # None /\ creds[tenants[u]] # None =>
            /\ creds[tenants[u]].token \in accepted[u]
            /\ creds[tenants[u]].token \notin stale[u]

\* So is the token a request is served with, as far as it could know.
ServedInv ==
    \A q \in Reqs : req[q].stage = "served" =>
        /\ req[q].token \in accepted[req[q].user]
        /\ req[q].token \notin req[q].old

RequestsInv ==
    /\ TypeOK
    /\ ShapeInv
    /\ TenantsInv
    /\ HistoryInv
    /\ TokensInv
    /\ OwnInv
    /\ ServedInv

-----------------------------------------------------------------------------
(* Operators.                                                              *)

LEMMA EndedType ==
    ASSUME NEW status \in Statuses, NEW body \in Ids \cup {None},
           NEW header \in Ids \cup {None}
    PROVE  /\ Ended(status, body, header) \in Request
           /\ Ended(status, body, header).stage \in {"idle", "answered"}
           /\ Ended(status, body, header).token = None
           /\ Ended(status, body, header).tenant = None
           /\ ~Ended(status, body, header).adding
           /\ Ended(status, body, header).before = {}
           /\ Ended(status, body, header).old = {}
           /\ Ended(status, body, header).status = status
<1>1. (CHOOSE v \in Keys : TRUE) \in Keys
  BY RequestsAssumption
<1>. QED
  BY <1>1 DEF Ended, Request, Stages, Routes, Statuses

\* A request that is over holds nothing.
LEMMA EndedFields ==
    ASSUME TypeOK, NEW q \in Reqs, NEW status \in Statuses,
           NEW body \in Ids \cup {None}, NEW header \in Ids \cup {None},
           req' = [req EXCEPT ![q] = Ended(status, body, header)]
    PROVE  /\ req' \in [Reqs -> Request]
           /\ \A p \in Reqs \ {q} : req'[p] = req[p]
           /\ req'[q].stage \in {"idle", "answered"}
           /\ req'[q].token = None /\ req'[q].tenant = None /\ ~req'[q].adding
           /\ req'[q].before = {} /\ req'[q].old = {}
           /\ req'[q].status = status
<1>1. req' \in [Reqs -> Request] /\ req'[q] = Ended(status, body, header)
  BY EndedType DEF TypeOK
<1>2. \A p \in Reqs \ {q} : req'[p] = req[p]
  BY DEF TypeOK
<1>. QED
  BY <1>1, <1>2, EndedType

\* Answering, whoever answers.
Over(q) ==
    \E status \in Statuses, body \in Ids \cup {None}, header \in Ids \cup {None} :
        req' = [req EXCEPT ![q] = Ended(status, body, header)]

LEMMA AnswersAreOver ==
    ASSUME NEW q \in Reqs, NEW status \in Statuses, NEW body \in Ids \cup {None}
    PROVE  /\ Answer(q, status, body) => Over(q)
           /\ Raise(q, status) => Over(q)
           /\ Unhandled(q) => Over(q)
BY DEF Answer, Raise, Unhandled, Over, Ids, Statuses

\* What Over means for the invariants.
LEMMA OverFields ==
    ASSUME TypeOK, NEW q \in Reqs, Over(q)
    PROVE  /\ req' \in [Reqs -> Request]
           /\ \A p \in Reqs \ {q} : req'[p] = req[p]
           /\ req'[q].stage \in {"idle", "answered"}
           /\ req'[q].token = None /\ req'[q].tenant = None /\ ~req'[q].adding
           /\ req'[q].before = {} /\ req'[q].old = {}
<1>1. PICK status \in Statuses, body \in Ids \cup {None}, header \in Ids \cup {None} :
        req' = [req EXCEPT ![q] = Ended(status, body, header)]
  BY DEF Over
<1>. QED
  BY <1>1, EndedFields

LEMMA ResolvedFields ==
    ASSUME TypeOK, NEW q \in Reqs, NEW i \in TenantIds, NEW own \in BOOLEAN,
           Resolved(q, i, own)
    PROVE  /\ req' \in [Reqs -> Request]
           /\ \A p \in Reqs \ {q} : req'[p] = req[p]
           /\ req'[q].stage = "resolved"
           /\ req'[q].tenant = i /\ req'[q].adding = own
           /\ req'[q].route = req[q].route /\ req'[q].user = req[q].user
           /\ req'[q].key = req[q].key /\ req'[q].token = req[q].token
           /\ req'[q].seen = req[q].seen /\ req'[q].status = req[q].status
           /\ req'[q].before = req[q].before /\ req'[q].old = req[q].old
<1>1. req[q] \in Request
  BY DEF TypeOK
<1>2. PICK r : r = [req[q] EXCEPT !.stage = "resolved", !.tenant = i, !.adding = own]
  OBVIOUS
<1>3. req' = [req EXCEPT ![q] = r]
  BY <1>2 DEF Resolved
<1>4. r \in Request
  BY <1>1, <1>2 DEF Request, Stages
<1>. QED
  BY <1>1, <1>2, <1>3, <1>4 DEF TypeOK, Request

\* A stage that changes nothing else.
LEMMA StageFields ==
    ASSUME TypeOK, NEW q \in Reqs, NEW stage \in Stages,
           req' = [req EXCEPT ![q].stage = stage]
    PROVE  /\ req' \in [Reqs -> Request]
           /\ \A p \in Reqs \ {q} : req'[p] = req[p]
           /\ req'[q].stage = stage
           /\ req'[q].tenant = req[q].tenant /\ req'[q].adding = req[q].adding
           /\ req'[q].route = req[q].route /\ req'[q].user = req[q].user
           /\ req'[q].key = req[q].key /\ req'[q].token = req[q].token
           /\ req'[q].seen = req[q].seen /\ req'[q].status = req[q].status
           /\ req'[q].before = req[q].before /\ req'[q].old = req[q].old
BY DEF TypeOK, Request

LEMMA EncryptedType ==
    ASSUME TypeOK, NEW q \in Reqs, req[q].token \in Tokens
    PROVE  /\ Encrypted(q) \in Credential /\ Encrypted(q).token = req[q].token
           /\ Encrypted(q).by = req[q].key /\ req[q].key \in Keys
BY DEF Encrypted, Credential, TypeOK, Request

LEMMA FirstOfMember ==
    ASSUME NEW S, NEW x \in FirstOf(S)
    PROVE  x \in S
BY DEF FirstOf

LEMMA FreshTenantsAreFree ==
    ASSUME NEW i \in FreshTenants
    PROVE  /\ i \in TenantIds
           /\ \A u \in Users : tenants[u] # i
           /\ \A p \in Reqs : req[p].tenant # i
BY DEF FreshTenants, FirstOf

LEMMA FreshTokensAreFree ==
    ASSUME NEW k \in FreshTokens
    PROVE  /\ k \in Tokens
           /\ \A u \in Users : k \notin accepted[u]
           /\ \A p \in Reqs : req[p].token # k
<1>. DEFINE sent == UNION {accepted[u] : u \in Users}
<1>. DEFINE held == {req[p].token : p \in Reqs}
<1>1. k \in Tokens \ (sent \cup held)
  <2>1. FreshTokens = FirstOf(Tokens \ (sent \cup held))
    BY DEF FreshTokens
  <2>. HIDE DEF sent, held
  <2>. QED
    BY <2>1, FirstOfMember
<1>2. ASSUME NEW u \in Users PROVE accepted[u] \subseteq sent
  <2>1. accepted[u] \in {accepted[v] : v \in Users}
    OBVIOUS
  <2>. QED
    BY <2>1
<1>3. ASSUME NEW p \in Reqs PROVE req[p].token \in held
  OBVIOUS
<1>. HIDE DEF sent, held
<1>. QED
  BY <1>1, <1>2, <1>3

-----------------------------------------------------------------------------
(* Steps that end a request, and steps that only change the handler.       *)

\* Ending a request that leaves everything else alone disturbs nothing.
LEMMA OverPreserves ==
    ASSUME RequestsInv, NEW q \in Reqs, Over(q),
           UNCHANGED <<store, current, data, history>>
    PROVE  RequestsInv'
<1>. USE DEF RequestsInv
<1>1. /\ req' \in [Reqs -> Request]
      /\ \A p \in Reqs \ {q} : req'[p] = req[p]
      /\ req'[q].stage \in {"idle", "answered"}
      /\ req'[q].token = None /\ req'[q].tenant = None /\ ~req'[q].adding
      /\ req'[q].before = {} /\ req'[q].old = {}
  BY OverFields
<1>. USE <1>1 DEF data, history
<1>2. TypeOK'
  BY DEF TypeOK
<1>3. ShapeInv'
  BY DEF ShapeInv, InFlight
<1>4. TenantsInv'
  BY DEF TenantsInv
<1>5. HistoryInv'
  BY DEF HistoryInv, InFlight
<1>6. TokensInv'
  BY DEF TokensInv, Connecting, InFlight
<1>7. OwnInv' /\ ServedInv'
  BY DEF OwnInv, ServedInv
<1>. QED
  BY <1>2, <1>3, <1>4, <1>5, <1>6, <1>7

\* Ending it with its tenant committed.
LEMMA OverKeepPreserves ==
    ASSUME RequestsInv, NEW q \in Reqs, Over(q), Keep(q), InFlight(q),
           UNCHANGED <<store, current, creds, bound, history>>
    PROVE  RequestsInv'
<1>. USE DEF RequestsInv
<1>1. /\ req' \in [Reqs -> Request]
      /\ \A p \in Reqs \ {q} : req'[p] = req[p]
      /\ req'[q].stage \in {"idle", "answered"}
      /\ req'[q].token = None /\ req'[q].tenant = None /\ ~req'[q].adding
      /\ req'[q].before = {} /\ req'[q].old = {}
  BY OverFields
<1>2. CASE ~req[q].adding
  BY <1>2, OverPreserves DEF Keep, data
<1>3. CASE req[q].adding
  <2>1. PICK u \in Users, i \in TenantIds :
           /\ u = req[q].user /\ i = req[q].tenant
           /\ tenants' = [tenants EXCEPT ![u] = i]
    BY <1>3 DEF Keep, ShapeInv, TenantsInv, TypeOK, Request
  <2>2. \A v \in Users : tenants'[v] = IF v = u THEN i ELSE tenants[v]
    BY <2>1 DEF TypeOK
  <2>3. tenants[u] = None /\ creds[i] = None /\ \A v \in Users : tenants[v] # i
    BY <1>3, <2>1 DEF TenantsInv
  <2>4. i # None
    BY RequestsAssumption
  <2>5. TypeOK'
    BY <1>1, <2>1 DEF TypeOK, history
  <2>6. ShapeInv'
    BY <1>1 DEF ShapeInv, InFlight
  <2>7. TenantsInv'
    <3>1. \A v, w \in Users : tenants'[v] = tenants'[w] /\ tenants'[v] # None => v = w
      BY <2>2, <2>3 DEF TenantsInv
    <3>2. ASSUME NEW p \in Reqs
          PROVE  /\ req'[p].tenant # None =>
                        \/ tenants'[req'[p].user] = req'[p].tenant
                        \/ tenants'[req'[p].user] = None /\ req'[p].adding
                 /\ req'[p].adding =>
                        req'[p].tenant # None /\ \A v \in Users : tenants'[v] # req'[p].tenant
      <4>1. CASE p = q
        BY <4>1, <1>1
      <4>2. CASE p # q
        <5>1. req'[p] = req[p]
          BY <4>2, <1>1
        <5>2. req[p].tenant # None => req[p].user \in Users
          BY DEF ShapeInv
        <5>3. req[p].adding => req[p].user # u /\ req[p].tenant # i
          BY <4>2, <1>3, <2>1 DEF TenantsInv
        <5>. QED
          BY <5>1, <5>2, <5>3, <2>2, <2>3 DEF TenantsInv
      <4>. QED
        BY <4>1, <4>2
    <3>3. \A p, r \in Reqs : p # r /\ req'[p].adding /\ req'[r].adding =>
              req'[p].user # req'[r].user /\ req'[p].tenant # req'[r].tenant
      BY <1>1 DEF TenantsInv
    <3>4. ASSUME NEW j \in TenantIds, creds'[j] # None
          PROVE  \E v \in Users : tenants'[v] = j
      <4>1. PICK v \in Users : tenants[v] = j
        BY <3>4 DEF TenantsInv
      <4>2. v # u
        BY <4>1, <2>3, RequestsAssumption
      <4>. QED
        BY <4>1, <4>2, <2>2
    <3>. QED
      BY <3>1, <3>2, <3>3, <3>4 DEF TenantsInv
  <2>8. HistoryInv'
    BY <1>1 DEF HistoryInv, InFlight, history
  <2>9. TokensInv'
    BY <1>1 DEF TokensInv, Connecting, InFlight, history
  <2>10. OwnInv'
    BY <2>2, <2>3 DEF OwnInv, history
  <2>11. ServedInv'
    BY <1>1 DEF ServedInv, history
  <2>. QED
    BY <2>5, <2>6, <2>7, <2>8, <2>9, <2>10, <2>11
<1>. QED
  BY <1>2, <1>3

-----------------------------------------------------------------------------
(* The other steps.                                                        *)

\* What Receive puts into the handler.
LEMMA ReceiveFields ==
    ASSUME TypeOK, NEW q \in Reqs, Receive(q)
    PROVE  \E u \in Users, k \in Tokens \cup {None} :
               /\ req' \in [Reqs -> Request]
               /\ \A p \in Reqs \ {q} : req'[p] = req[p]
               /\ req'[q].stage = "received" /\ req'[q].user = u
               /\ req'[q].key = current /\ req'[q].token = k
               /\ req'[q].tenant = None /\ ~req'[q].adding
               /\ req'[q].before = done[u] /\ req'[q].old \subseteq stale[u]
               /\ req'[q].status = "none"
               /\ req'[q].route # "connect" => k = None
               /\ req'[q].route = "connect" =>
                      /\ k \in Tokens
                      /\ \A v \in Users : k \notin accepted[v]
                      /\ \A p \in Reqs : req[p].token # k
<1>1. PICK route \in Routes, u \in Users :
       \E k \in IF route = "connect" THEN FreshTokens ELSE {None} :
        req' = [req EXCEPT ![q] =
            [Idle EXCEPT !.stage = "received", !.route = route, !.user = u,
                         !.key = current, !.token = k, !.before = done[u],
                         !.old = IF route = "connect" THEN {} ELSE stale[u]]]
  BY DEF Receive
<1>2. PICK k \in IF route = "connect" THEN FreshTokens ELSE {None} : \E r :
        /\ r = [Idle EXCEPT !.stage = "received", !.route = route, !.user = u,
                            !.key = current, !.token = k, !.before = done[u],
                            !.old = IF route = "connect" THEN {} ELSE stale[u]]
        /\ req' = [req EXCEPT ![q] = r]
  BY <1>1
<1>3. PICK r :
        /\ r = [Idle EXCEPT !.stage = "received", !.route = route, !.user = u,
                            !.key = current, !.token = k, !.before = done[u],
                            !.old = IF route = "connect" THEN {} ELSE stale[u]]
        /\ req' = [req EXCEPT ![q] = r]
  BY <1>2
<1>4. /\ k \in Tokens \cup {None} /\ route # "connect" => k = None
      /\ route = "connect" => /\ k \in Tokens
                              /\ \A v \in Users : k \notin accepted[v]
                              /\ \A p \in Reqs : req[p].token # k
  BY FreshTokensAreFree
<1>5. r \in Request
  <2>1. Idle \in Request
    BY EndedType DEF Idle, Statuses, Ids
  <2>2. done[u] \subseteq Tokens /\ stale[u] \subseteq Tokens /\ current \in Keys
    BY DEF TypeOK
  <2>. QED
    BY <1>3, <1>4, <2>1, <2>2 DEF Request, Stages
<1>6. /\ r.stage = "received" /\ r.route = route /\ r.user = u /\ r.token = k
      /\ r.key = current /\ r.before = done[u] /\ r.old \subseteq stale[u]
      /\ r.tenant = None /\ ~r.adding /\ r.status = "none"
  BY <1>3 DEF Idle, Ended
<1>7. /\ req' \in [Reqs -> Request] /\ req'[q] = r
      /\ \A p \in Reqs \ {q} : req'[p] = req[p]
  BY <1>3, <1>5 DEF TypeOK
<1>. QED
  BY <1>4, <1>6, <1>7

LEMMA ReceivePreserves ==
    ASSUME RequestsInv, NEW q \in Reqs, Receive(q)
    PROVE  RequestsInv'
<1>. USE DEF RequestsInv
<1>1. PICK u \in Users, k \in Tokens \cup {None} :
        /\ req' \in [Reqs -> Request]
        /\ \A p \in Reqs \ {q} : req'[p] = req[p]
        /\ req'[q].stage = "received" /\ req'[q].user = u /\ req'[q].token = k
        /\ req'[q].tenant = None /\ ~req'[q].adding
        /\ req'[q].before = done[u] /\ req'[q].old \subseteq stale[u]
        /\ req'[q].route = "connect" =>
                /\ k \in Tokens
                /\ \A v \in Users : k \notin accepted[v]
                /\ \A p \in Reqs : req[p].token # k
  BY ReceiveFields
<1>2. UNCHANGED <<store, current, data, history>>
  BY DEF Receive
<1>. USE <1>1, <1>2 DEF data, history
<1>3. TypeOK'
  BY DEF TypeOK
<1>4. ShapeInv'
  BY DEF ShapeInv, InFlight
<1>5. TenantsInv'
  BY DEF TenantsInv
<1>6. HistoryInv'
  BY DEF HistoryInv, InFlight
<1>7. TokensInv'
  <2>1. ASSUME NEW p \in Reqs, Connecting(p)'
        PROVE  req'[p].token \in Tokens /\ \A v \in Users : req'[p].token \notin done'[v]
    BY <2>1 DEF TokensInv, HistoryInv, Connecting, InFlight
  <2>2. ASSUME NEW p \in Reqs, NEW p2 \in Reqs, Connecting(p)', Connecting(p2)', p # p2
        PROVE  req'[p].token # req'[p2].token
    BY <2>2 DEF TokensInv, Connecting, InFlight
  <2>. QED
    BY <2>1, <2>2 DEF TokensInv
<1>8. OwnInv' /\ ServedInv'
  BY DEF OwnInv, ServedInv
<1>. QED
  BY <1>3, <1>4, <1>5, <1>6, <1>7, <1>8

\* A handler that goes on, with the tenant and the tokens it had.
LEMMA StagePreserves ==
    ASSUME RequestsInv, NEW q \in Reqs,
           \/ req[q].stage = "received" /\ req' = [req EXCEPT ![q].stage = "known"]
           \/ /\ req[q].stage = "known" /\ store = "tables"
              /\ req' = [req EXCEPT ![q].stage = "missing"]
           \/ req[q].stage = "inserting" /\ req' = [req EXCEPT ![q].stage = "stored"],
           bound' \in Keys \cup {None}, UNCHANGED <<store, current, tenants, creds, history>>
    PROVE  RequestsInv'
<1>. USE DEF RequestsInv
<1>1. PICK stage \in Stages :
        /\ req' = [req EXCEPT ![q].stage = stage]
        /\ \/ req[q].stage = "received" /\ stage = "known"
           \/ req[q].stage = "known" /\ stage = "missing" /\ store = "tables"
           \/ req[q].stage = "inserting" /\ stage = "stored"
  BY DEF Stages
<1>2. /\ req' \in [Reqs -> Request]
      /\ \A p \in Reqs \ {q} : req'[p] = req[p]
      /\ req'[q].stage = stage
      /\ req'[q].tenant = req[q].tenant /\ req'[q].adding = req[q].adding
      /\ req'[q].route = req[q].route /\ req'[q].user = req[q].user
      /\ req'[q].token = req[q].token
      /\ req'[q].before = req[q].before /\ req'[q].old = req[q].old
  BY <1>1, StageFields
<1>3. /\ bound' \in Keys \cup {None}
      /\ UNCHANGED <<store, current, tenants, creds, history>>
  OBVIOUS
<1>. USE <1>2, <1>3 DEF history
<1>4. TypeOK'
  BY DEF TypeOK
<1>5. ShapeInv'
  BY <1>1 DEF ShapeInv, InFlight
<1>6. TenantsInv'
  BY DEF TenantsInv
<1>7. HistoryInv'
  BY <1>1 DEF HistoryInv, InFlight
<1>8. TokensInv'
  BY <1>1 DEF TokensInv, Connecting, InFlight
<1>9. OwnInv' /\ ServedInv'
  BY <1>1 DEF OwnInv, ServedInv
<1>. QED
  BY <1>4, <1>5, <1>6, <1>7, <1>8, <1>9

LEMMA AuthenticatePreserves ==
    ASSUME RequestsInv, NEW q \in Reqs, Authenticate(q)
    PROVE  RequestsInv'
<1>1. CASE req' = [req EXCEPT ![q].stage = "known"]
  BY <1>1, StagePreserves DEF Authenticate, data, RequestsInv, TypeOK
<1>2. CASE Raise(q, "failed")
  <2>1. Over(q)
    BY <1>2, AnswersAreOver DEF Statuses, Ids
  <2>. QED
    BY <2>1, OverPreserves DEF Authenticate
<1>. QED
  BY <1>1, <1>2 DEF Authenticate

\* A handler that gets the tenant of its user, or one it has inserted.
LEMMA ResolvedPreserves ==
    ASSUME RequestsInv, NEW q \in Reqs, NEW i \in TenantIds, NEW own \in BOOLEAN,
           Resolved(q, i, own), req[q].stage \in {"known", "missing"},
           \/ tenants[req[q].user] = i /\ ~own
           \/ /\ own /\ store = "tables" /\ tenants[req[q].user] = None
              /\ i \in FreshTenants
              /\ \A p \in Reqs : ~(req[p].adding /\ req[p].user = req[q].user),
           UNCHANGED <<store, current, data, history>>
    PROVE  RequestsInv'
<1>. USE DEF RequestsInv
<1>1. /\ req' \in [Reqs -> Request]
      /\ \A p \in Reqs \ {q} : req'[p] = req[p]
      /\ req'[q].stage = "resolved"
      /\ req'[q].tenant = i /\ req'[q].adding = own
      /\ req'[q].route = req[q].route /\ req'[q].user = req[q].user
      /\ req'[q].token = req[q].token
      /\ req'[q].before = req[q].before /\ req'[q].old = req[q].old
  BY ResolvedFields
<1>2. UNCHANGED <<store, current, data, history>>
  OBVIOUS
<1>3. i # None /\ req[q].user \in Users
  BY RequestsAssumption DEF ShapeInv, InFlight
<1>4. own => /\ \A u \in Users : tenants[u] # i
             /\ \A p \in Reqs : req[p].tenant # i
  BY FreshTenantsAreFree
<1>. USE <1>1, <1>2 DEF data, history
<1>5. TypeOK'
  BY DEF TypeOK
<1>6. ShapeInv'
  BY DEF ShapeInv, InFlight
<1>7. TenantsInv'
  BY <1>3, <1>4 DEF TenantsInv
<1>8. HistoryInv'
  BY DEF HistoryInv, InFlight
<1>9. TokensInv'
  BY DEF TokensInv, Connecting, InFlight
<1>10. OwnInv' /\ ServedInv'
  BY DEF OwnInv, ServedInv
<1>. QED
  BY <1>5, <1>6, <1>7, <1>8, <1>9, <1>10

LEMMA LookupPreserves ==
    ASSUME RequestsInv, NEW q \in Reqs, Lookup(q)
    PROVE  RequestsInv'
<1>. USE DEF RequestsInv
<1>1. CASE tenants[req[q].user] # None
  <2>1. tenants[req[q].user] \in TenantIds
    BY <1>1 DEF TypeOK, ShapeInv, InFlight, Lookup
  <2>. QED
    BY <1>1, <2>1, ResolvedPreserves DEF Lookup
<1>2. CASE tenants[req[q].user] = None
  BY <1>2, StagePreserves DEF Lookup, data, TypeOK
<1>. QED
  BY <1>1, <1>2

LEMMA InsertTenantPreserves ==
    ASSUME RequestsInv, NEW q \in Reqs, InsertTenant(q)
    PROVE  RequestsInv'
<1>1. CASE Unhandled(q)
  BY <1>1, OverPreserves, AnswersAreOver DEF InsertTenant, Statuses, Ids
<1>2. CASE /\ tenants[req[q].user] = None
           /\ \E i \in FreshTenants : Resolved(q, i, TRUE)
  <2>1. PICK i \in FreshTenants : Resolved(q, i, TRUE)
    BY <1>2
  <2>2. i \in TenantIds /\ store = "tables"
    BY FreshTenantsAreFree DEF InsertTenant, RequestsInv, ShapeInv
  <2>. QED
    BY <1>2, <2>1, <2>2, ResolvedPreserves DEF InsertTenant, Waits
<1>. QED
  BY <1>1, <1>2 DEF InsertTenant

LEMMA ResolveInMemoryPreserves ==
    ASSUME RequestsInv, NEW q \in Reqs, ResolveInMemory(q)
    PROVE  RequestsInv'
<1>. USE DEF RequestsInv
<1>1. CASE tenants[req[q].user] # None
  <2>1. tenants[req[q].user] \in TenantIds
    BY <1>1 DEF TypeOK, ShapeInv, InFlight, ResolveInMemory
  <2>. QED
    BY <1>1, <2>1, ResolvedPreserves DEF ResolveInMemory, data
<1>2. CASE tenants[req[q].user] = None
  <2>1. PICK i \in FreshTenants :
          /\ tenants' = [tenants EXCEPT ![req[q].user] = i]
          /\ Resolved(q, i, FALSE)
    BY <1>2 DEF ResolveInMemory
  <2>2. PICK u \in Users : u = req[q].user /\ tenants[u] = None
    BY <1>2 DEF ShapeInv, InFlight, ResolveInMemory
  <2>3. /\ i \in TenantIds /\ i # None
        /\ \A v \in Users : tenants[v] # i
        /\ \A p \in Reqs : req[p].tenant # i
    BY FreshTenantsAreFree, RequestsAssumption
  <2>4. /\ \A v \in Users : tenants'[v] = IF v = u THEN i ELSE tenants[v]
        /\ tenants' \in [Users -> TenantIds \cup {None}]
    BY <2>1, <2>2, <2>3 DEF TypeOK
  <2>5. /\ req' \in [Reqs -> Request]
        /\ \A p \in Reqs \ {q} : req'[p] = req[p]
        /\ req'[q].stage = "resolved"
        /\ req'[q].tenant = i /\ ~req'[q].adding
        /\ req'[q].route = req[q].route /\ req'[q].user = req[q].user
        /\ req'[q].token = req[q].token
        /\ req'[q].before = req[q].before /\ req'[q].old = req[q].old
    BY <2>1, <2>3, ResolvedFields
  <2>6. UNCHANGED <<store, current, creds, bound, history>> /\ store = "memory"
        /\ req[q].stage = "known"
    BY DEF ResolveInMemory
  <2>7. \A p \in Reqs : ~req[p].adding /\ (req[p].tenant # None => req[p].user \in Users)
    BY <2>6 DEF ShapeInv
  <2>8. TypeOK'
    BY <2>4, <2>5, <2>6 DEF TypeOK, history
  <2>9. ShapeInv'
    BY <2>2, <2>3, <2>5, <2>6 DEF ShapeInv, InFlight
  <2>10. TenantsInv'
    <3>1. \A v, w \in Users : tenants'[v] = tenants'[w] /\ tenants'[v] # None => v = w
      BY <2>3, <2>4 DEF TenantsInv
    <3>2. \A p \in Reqs : ~req'[p].adding
      BY <2>5, <2>7
    <3>3. ASSUME NEW p \in Reqs, req'[p].tenant # None
          PROVE  tenants'[req'[p].user] = req'[p].tenant
      <4>1. CASE p = q
        BY <4>1, <2>2, <2>4, <2>5
      <4>2. CASE p # q
        BY <4>2, <3>3, <2>2, <2>4, <2>5, <2>7 DEF TenantsInv
      <4>. QED
        BY <4>1, <4>2
    <3>4. ASSUME NEW j \in TenantIds, creds'[j] # None
          PROVE  \E v \in Users : tenants'[v] = j
      <4>1. PICK v \in Users : tenants[v] = j
        BY <3>4, <2>6 DEF TenantsInv
      <4>2. v # u
        BY <4>1, <2>2, RequestsAssumption
      <4>. QED
        BY <4>1, <4>2, <2>4
    <3>. QED
      BY <3>1, <3>2, <3>3, <3>4 DEF TenantsInv
  <2>11. HistoryInv'
    BY <2>5, <2>6 DEF HistoryInv, InFlight, history
  <2>12. TokensInv'
    BY <2>5, <2>6 DEF TokensInv, Connecting, InFlight, history
  <2>13. OwnInv'
    <3>1. creds[i] = None
      BY <2>3 DEF TenantsInv
    <3>. QED
      BY <3>1, <2>4, <2>6 DEF OwnInv, history
  <2>14. ServedInv'
    BY <2>5, <2>6 DEF ServedInv, history
  <2>. QED
    BY <2>8, <2>9, <2>10, <2>11, <2>12, <2>13, <2>14
<1>. QED
  BY <1>1, <1>2

LEMMA RefusedPreserves ==
    ASSUME RequestsInv, NEW q \in Reqs, Refused(q)
    PROVE  RequestsInv'
<1>1. CASE Answer(q, "failed", "minted") /\ Keep(q)
  <2>1. Over(q) /\ InFlight(q)
    BY <1>1, AnswersAreOver DEF Statuses, Ids, Refused, InFlight
  <2>. QED
    BY <1>1, <2>1, OverKeepPreserves DEF Refused
<1>2. CASE Raise(q, "failed") /\ UNCHANGED tenants
  <2>1. Over(q)
    BY <1>2, AnswersAreOver DEF Statuses, Ids
  <2>. QED
    BY <1>2, <2>1, OverPreserves DEF Refused, data
<1>. QED
  BY <1>1, <1>2 DEF Refused

LEMMA ServePreserves ==
    ASSUME RequestsInv, NEW q \in Reqs, Serve(q)
    PROVE  RequestsInv'
<1>1. CASE (\E id \in {"bound", "minted"} : Answer(q, "ok", id)) /\ Keep(q)
  <2>1. Over(q) /\ InFlight(q)
    BY <1>1, AnswersAreOver DEF Statuses, Ids, Serve, InFlight
  <2>. QED
    BY <1>1, <2>1, OverKeepPreserves DEF Serve
<1>2. CASE (Raise(q, "failed") \/ Unhandled(q)) /\ UNCHANGED tenants
  <2>1. Over(q)
    BY <1>2, AnswersAreOver DEF Statuses, Ids
  <2>. QED
    BY <1>2, <2>1, OverPreserves DEF Serve, data
<1>. QED
  BY <1>1, <1>2 DEF Serve

LEMMA DatabaseErrorPreserves ==
    ASSUME RequestsInv, NEW q \in Reqs, DatabaseError(q)
    PROVE  RequestsInv'
BY AnswersAreOver, OverPreserves DEF DatabaseError, Statuses, Ids

LEMMA InsertCredentialPreserves ==
    ASSUME RequestsInv, NEW q \in Reqs, InsertCredential(q)
    PROVE  RequestsInv'
<1>1. CASE creds[req[q].tenant] # None
  BY <1>1, AnswersAreOver, OverPreserves DEF InsertCredential, data, Statuses, Ids
<1>2. CASE creds[req[q].tenant] = None
  <2>1. req[q].key \in Keys
    BY DEF RequestsInv, TypeOK, Request
  <2>. QED
    BY <1>2, <2>1, StagePreserves DEF InsertCredential
<1>. QED
  BY <1>1, <1>2

\* What StoreInTables and ReadToken leave in the handler.
LEMMA StoredFields ==
    ASSUME TypeOK, NEW q \in Reqs, NEW stage \in Stages,
           NEW seen \in Credential \cup {None},
           req' = [req EXCEPT ![q] = [@ EXCEPT !.stage = stage, !.seen = seen]]
    PROVE  /\ req' \in [Reqs -> Request]
           /\ \A p \in Reqs \ {q} : req'[p] = req[p]
           /\ req'[q].stage = stage /\ req'[q].seen = seen
           /\ req'[q].tenant = req[q].tenant /\ req'[q].adding = req[q].adding
           /\ req'[q].route = req[q].route /\ req'[q].user = req[q].user
           /\ req'[q].key = req[q].key /\ req'[q].token = req[q].token
           /\ req'[q].status = req[q].status
           /\ req'[q].before = req[q].before /\ req'[q].old = req[q].old
<1>1. PICK r : r = [req[q] EXCEPT !.stage = stage, !.seen = seen]
  OBVIOUS
<1>2. req' = [req EXCEPT ![q] = r]
  BY <1>1
<1>3. req[q] \in Request
  BY DEF TypeOK
<1>4. r \in Request
  BY <1>1, <1>3 DEF Request
<1>. QED
  BY <1>1, <1>2, <1>3, <1>4 DEF TypeOK, Request

LEMMA ServedFields ==
    ASSUME TypeOK, NEW q \in Reqs, NEW k \in Tokens,
           req' = [req EXCEPT ![q] = [@ EXCEPT !.stage = "served", !.token = k]]
    PROVE  /\ req' \in [Reqs -> Request]
           /\ \A p \in Reqs \ {q} : req'[p] = req[p]
           /\ req'[q].stage = "served" /\ req'[q].token = k
           /\ req'[q].tenant = req[q].tenant /\ req'[q].adding = req[q].adding
           /\ req'[q].route = req[q].route /\ req'[q].user = req[q].user
           /\ req'[q].key = req[q].key /\ req'[q].seen = req[q].seen
           /\ req'[q].status = req[q].status
           /\ req'[q].before = req[q].before /\ req'[q].old = req[q].old
<1>1. PICK r : r = [req[q] EXCEPT !.stage = "served", !.token = k]
  OBVIOUS
<1>2. req' = [req EXCEPT ![q] = r]
  BY <1>1
<1>3. req[q] \in Request
  BY DEF TypeOK
<1>4. r \in Request
  BY <1>1, <1>3 DEF Request, Stages
<1>. QED
  BY <1>1, <1>2, <1>3, <1>4 DEF TypeOK, Request

\* Canvas accepted the token of q.
LEMMA AcceptedGrows ==
    ASSUME RequestsInv, NEW q \in Reqs, Accept(q)
    PROVE  /\ req[q].user \in Users /\ req[q].tenant \in TenantIds
           /\ req[q].token \in Tokens
           /\ accepted' \in [Users -> SUBSET Tokens]
           /\ \A u \in Users : accepted[u] \subseteq accepted'[u]
           /\ req[q].token \in accepted'[req[q].user]
BY DEF RequestsInv, Accept, TypeOK, ShapeInv, TokensInv, Connecting, InFlight

LEMMA StoreInTablesPreserves ==
    ASSUME RequestsInv, NEW q \in Reqs, StoreInTables(q)
    PROVE  RequestsInv'
<1>. USE DEF RequestsInv
<1>1. /\ req[q].user \in Users /\ req[q].tenant \in TenantIds
      /\ accepted' \in [Users -> SUBSET Tokens]
      /\ \A u \in Users : accepted[u] \subseteq accepted'[u]
      /\ req[q].token \in accepted'[req[q].user]
  BY AcceptedGrows DEF StoreInTables
<1>2. PICK stage \in {"inserting", "stored"}, seen \in Credential \cup {None} :
        req' = [req EXCEPT ![q] = [@ EXCEPT !.stage = stage, !.seen = seen]]
  BY <1>1 DEF StoreInTables, TypeOK
<1>3. /\ req' \in [Reqs -> Request]
      /\ \A p \in Reqs \ {q} : req'[p] = req[p]
      /\ req'[q].stage \in {"inserting", "stored"}
      /\ req'[q].tenant = req[q].tenant /\ req'[q].adding = req[q].adding
      /\ req'[q].route = req[q].route /\ req'[q].user = req[q].user
      /\ req'[q].token = req[q].token
      /\ req'[q].before = req[q].before /\ req'[q].old = req[q].old
  BY <1>2, StoredFields DEF Stages
<1>4. /\ UNCHANGED <<store, current, tenants, creds, done, stale, live>>
      /\ req[q].stage = "resolved" /\ req[q].route = "connect" /\ store = "tables"
      /\ bound' \in Keys \cup {None}
  BY DEF StoreInTables, Accept, TypeOK, Request
<1>. USE <1>1, <1>3, <1>4
<1>5. TypeOK'
  BY DEF TypeOK
<1>6. ShapeInv'
  BY DEF ShapeInv, InFlight
<1>7. TenantsInv'
  BY DEF TenantsInv
<1>8. HistoryInv'
  BY DEF HistoryInv, InFlight
<1>9. TokensInv'
  <2>1. ASSUME NEW p \in Reqs, req'[p].stage \in {"inserting", "stored"}
        PROVE  req'[p].token \in accepted'[req'[p].user]
    BY <2>1 DEF TokensInv, ShapeInv, InFlight
  <2>2. ASSUME NEW p \in Reqs, Connecting(p)'
        PROVE  req'[p].token \in Tokens /\ \A v \in Users : req'[p].token \notin done'[v]
    BY <2>2 DEF TokensInv, Connecting, InFlight
  <2>3. ASSUME NEW p \in Reqs, NEW p2 \in Reqs, Connecting(p)', Connecting(p2)', p # p2
        PROVE  req'[p].token # req'[p2].token
    BY <2>3 DEF TokensInv, Connecting, InFlight
  <2>. QED
    BY <2>1, <2>2, <2>3 DEF TokensInv
<1>10. OwnInv'
  BY DEF OwnInv
<1>11. ServedInv'
  BY DEF ServedInv, ShapeInv, InFlight
<1>. QED
  BY <1>5, <1>6, <1>7, <1>8, <1>9, <1>10, <1>11

\* A token that is read belongs to the tenant of the user.
LEMMA ReadableIsOwn ==
    ASSUME RequestsInv, NEW q \in Reqs, req[q].stage = "resolved", Readable(q)
    PROVE  /\ creds[req[q].tenant].token \in Tokens
           /\ creds[req[q].tenant].token \in accepted[req[q].user]
           /\ creds[req[q].tenant].token \notin stale[req[q].user]
<1>. USE DEF RequestsInv
<1>1. /\ req[q].user \in Users /\ req[q].tenant \in TenantIds
      /\ creds[req[q].tenant] # None /\ req[q].tenant # None
  BY RequestsAssumption DEF ShapeInv, InFlight, Readable
<1>2. creds[req[q].tenant] \in Credential
  BY <1>1 DEF TypeOK
<1>3. tenants[req[q].user] = req[q].tenant
  <2>1. PICK v \in Users : tenants[v] = req[q].tenant
    BY <1>1 DEF TenantsInv
  <2>2. ~req[q].adding
    BY <2>1 DEF TenantsInv
  <2>. QED
    BY <1>1, <2>2 DEF TenantsInv
<1>. QED
  BY <1>1, <1>2, <1>3 DEF OwnInv, Credential

LEMMA ReadTokenPreserves ==
    ASSUME RequestsInv, NEW q \in Reqs, ReadToken(q)
    PROVE  RequestsInv'
<1>. USE DEF RequestsInv
<1>1. CASE ~Readable(q)
  <2>1. Over(q)
    BY <1>1, AnswersAreOver DEF ReadToken, Statuses, Ids
  <2>. QED
    BY <2>1, OverPreserves DEF ReadToken
<1>2. CASE Readable(q)
  <2>1. PICK k \in Tokens :
          /\ req' = [req EXCEPT ![q] = [@ EXCEPT !.stage = "served", !.token = k]]
          /\ k \in accepted[req[q].user] /\ k \notin stale[req[q].user]
    BY <1>2, ReadableIsOwn DEF ReadToken
  <2>2. /\ req' \in [Reqs -> Request]
        /\ \A p \in Reqs \ {q} : req'[p] = req[p]
        /\ req'[q].stage = "served" /\ req'[q].token = k
        /\ req'[q].tenant = req[q].tenant /\ req'[q].adding = req[q].adding
        /\ req'[q].route = req[q].route /\ req'[q].user = req[q].user
        /\ req'[q].before = req[q].before /\ req'[q].old = req[q].old
    BY <2>1, ServedFields
  <2>3. /\ UNCHANGED <<store, current, data, history>>
        /\ req[q].stage = "resolved" /\ req[q].route # "connect"
    BY DEF ReadToken
  <2>. USE <2>2, <2>3 DEF data, history
  <2>4. TypeOK'
    BY DEF TypeOK
  <2>5. ShapeInv'
    BY DEF ShapeInv, InFlight
  <2>6. TenantsInv'
    BY DEF TenantsInv
  <2>7. HistoryInv'
    BY DEF HistoryInv, InFlight
  <2>8. TokensInv'
    BY DEF TokensInv, Connecting, InFlight
  <2>9. OwnInv'
    BY DEF OwnInv
  <2>10. ServedInv'
    BY <2>1 DEF ServedInv, HistoryInv, InFlight
  <2>. QED
    BY <2>4, <2>5, <2>6, <2>7, <2>8, <2>9, <2>10
<1>. QED
  BY <1>1, <1>2

\* A connect that is answered with 204, in either store.
LEMMA ConnectedPreserves ==
    ASSUME RequestsInv, NEW q \in Reqs, NEW c \in Credential, c.token = req[q].token,
           req[q].stage \in {"resolved", "stored"}, req[q].route = "connect",
           accepted' \in [Users -> SUBSET Tokens],
           \A v \in Users : accepted[v] \subseteq accepted'[v],
           req[q].token \in accepted'[req[q].user],
           creds' = [creds EXCEPT ![req[q].tenant] = c],
           bound' \in Keys \cup {None}, Keep(q), Connected(q), UNCHANGED <<store, current>>
    PROVE  RequestsInv'
<1>. USE DEF RequestsInv
<1>1. PICK u \in Users, i \in TenantIds, k \in Tokens :
        u = req[q].user /\ i = req[q].tenant /\ k = req[q].token
  BY DEF ShapeInv, TokensInv, Connecting, InFlight
<1>2. /\ i # None /\ c # None
      /\ tenants[u] = i \/ (tenants[u] = None /\ req[q].adding)
      /\ \A v \in Users \ {u} : tenants[v] # i
  BY <1>1, RequestsAssumption DEF TenantsInv
<1>3. \A p \in Reqs \ {q} : req[p].adding => req[p].user # u /\ req[p].tenant # i
  <2>1. CASE req[q].adding
    BY <1>1, <2>1 DEF TenantsInv
  <2>2. CASE ~req[q].adding
    BY <1>1, <1>2, <2>2 DEF TenantsInv
  <2>. QED
    BY <2>1, <2>2
<1>4. /\ tenants' \in [Users -> TenantIds \cup {None}]
      /\ \A v \in Users : tenants'[v] = IF v = u THEN i ELSE tenants[v]
  <2>1. tenants' = IF req[q].adding THEN [tenants EXCEPT ![u] = i] ELSE tenants
    BY <1>1 DEF Keep
  <2>. QED
    BY <1>1, <1>2, <2>1 DEF TypeOK
<1>5. /\ creds' \in [TenantIds -> Credential \cup {None}]
      /\ \A j \in TenantIds : creds'[j] = IF j = i THEN c ELSE creds[j]
  BY <1>1 DEF TypeOK
<1>6. /\ req' \in [Reqs -> Request]
      /\ \A p \in Reqs \ {q} : req'[p] = req[p]
      /\ req'[q].stage \in {"idle", "answered"}
      /\ req'[q].token = None /\ req'[q].tenant = None /\ ~req'[q].adding
      /\ req'[q].before = {} /\ req'[q].old = {}
  <2>1. Over(q)
    BY AnswersAreOver DEF Connected, Statuses
  <2>. QED
    BY <2>1, OverFields
<1>A. live' = live \cup {u} /\ live \subseteq Users
  BY <1>1 DEF Connected, TypeOK
<1>7. PICK b \in SUBSET Tokens : b = req[q].before /\ b \subseteq done[u] /\ k \notin b
  BY <1>1 DEF HistoryInv, TokensInv, Connecting, InFlight, TypeOK
<1>8. /\ done' \in [Users -> SUBSET Tokens] /\ stale' \in [Users -> SUBSET Tokens]
      /\ \A v \in Users : /\ done'[v] = IF v = u THEN done[v] \cup {k} ELSE done[v]
                          /\ stale'[v] = IF v = u THEN stale[v] \cup b ELSE stale[v]
  <2>1. /\ done' = [done EXCEPT ![u] = @ \cup {k}]
        /\ stale' = [stale EXCEPT ![u] = @ \cup b]
    BY <1>1, <1>7 DEF Connected
  <2>. QED
    BY <1>1, <1>7, <2>1 DEF TypeOK
<1>9. \A v \in Users : k \notin done[v] /\ k \notin stale[v]
  BY <1>1 DEF TokensInv, HistoryInv, Connecting, InFlight
<1>10. \A p \in Reqs \ {q} : Connecting(p) => req[p].token # k
  BY <1>1 DEF TokensInv, Connecting, InFlight
<1>. HIDE DEF Keep, Connected
<1>11. TypeOK'
  BY <1>4, <1>5, <1>6, <1>8, <1>A DEF TypeOK
<1>12. ShapeInv'
  BY <1>6 DEF ShapeInv, InFlight
<1>13. TenantsInv'
  <2>1. \A v, w \in Users : tenants'[v] = tenants'[w] /\ tenants'[v] # None => v = w
    BY <1>2, <1>4 DEF TenantsInv
  <2>2. ASSUME NEW p \in Reqs
        PROVE  /\ req'[p].tenant # None =>
                      \/ tenants'[req'[p].user] = req'[p].tenant
                      \/ tenants'[req'[p].user] = None /\ req'[p].adding
               /\ req'[p].adding =>
                      req'[p].tenant # None /\ \A v \in Users : tenants'[v] # req'[p].tenant
    <3>1. CASE p = q
      BY <3>1, <1>6
    <3>2. CASE p # q
      <4>1. req'[p] = req[p] /\ (req[p].tenant # None => req[p].user \in Users)
        BY <3>2, <1>6 DEF ShapeInv
      <4>2. req[p].adding => req[p].user # u /\ req[p].tenant # i
        BY <3>2, <1>3
      <4>. QED
        BY <4>1, <4>2, <1>2, <1>4 DEF TenantsInv
    <3>. QED
      BY <3>1, <3>2
  <2>3. \A p, r \in Reqs : p # r /\ req'[p].adding /\ req'[r].adding =>
            req'[p].user # req'[r].user /\ req'[p].tenant # req'[r].tenant
    BY <1>6 DEF TenantsInv
  <2>4. ASSUME NEW j \in TenantIds, creds'[j] # None
        PROVE  \E v \in Users : tenants'[v] = j
    <3>1. CASE j = i
      BY <3>1, <1>1, <1>4
    <3>2. CASE j # i
      <4>1. PICK v \in Users : tenants[v] = j
        BY <2>4, <3>2, <1>5 DEF TenantsInv
      <4>2. v # u
        BY <4>1, <3>2, <1>2, RequestsAssumption
      <4>. QED
        BY <4>1, <4>2, <1>4
    <3>. QED
      BY <3>1, <3>2
  <2>. QED
    BY <2>1, <2>2, <2>3, <2>4 DEF TenantsInv
<1>14. HistoryInv'
  <2>1. ASSUME NEW v \in Users
        PROVE  stale'[v] \subseteq done'[v] /\ done'[v] \subseteq accepted'[v]
    BY <1>1, <1>7, <1>8 DEF HistoryInv
  <2>2. ASSUME NEW p \in Reqs, InFlight(p)'
        PROVE  /\ req'[p].before \subseteq done'[req'[p].user]
               /\ req'[p].old \subseteq stale'[req'[p].user]
    <3>1. p # q /\ req'[p] = req[p] /\ InFlight(p) /\ req[p].user \in Users
      BY <2>2, <1>6 DEF InFlight, ShapeInv
    <3>. QED
      BY <3>1, <1>8 DEF HistoryInv
  <2>. QED
    BY <2>1, <2>2 DEF HistoryInv
<1>15. TokensInv'
  <2>1. ASSUME NEW p \in Reqs, Connecting(p)'
        PROVE  req'[p].token \in Tokens /\ \A v \in Users : req'[p].token \notin done'[v]
    BY <2>1, <1>6, <1>8, <1>10 DEF TokensInv, Connecting, InFlight
  <2>2. ASSUME NEW p \in Reqs, NEW p2 \in Reqs, Connecting(p)', Connecting(p2)', p # p2
        PROVE  req'[p].token # req'[p2].token
    BY <2>2, <1>6 DEF TokensInv, Connecting, InFlight
  <2>3. ASSUME NEW p \in Reqs, req'[p].stage \in {"inserting", "stored"}
        PROVE  req'[p].token \in accepted'[req'[p].user]
    BY <2>3, <1>6 DEF TokensInv, ShapeInv, InFlight
  <2>. QED
    BY <2>1, <2>2, <2>3 DEF TokensInv
<1>16. OwnInv'
  <2>. SUFFICES ASSUME NEW v \in Users, tenants'[v] # None, creds'[tenants'[v]] # None
                PROVE  /\ creds'[tenants'[v]].token \in accepted'[v]
                       /\ creds'[tenants'[v]].token \notin stale'[v]
    BY DEF OwnInv
  <2>1. CASE v = u
    BY <2>1, <1>1, <1>4, <1>5, <1>7, <1>8, <1>9
  <2>2. CASE v # u
    <3>1. /\ tenants'[v] = tenants[v] /\ tenants[v] \in TenantIds /\ tenants[v] # i
          /\ stale'[v] = stale[v]
      BY <2>2, <1>2, <1>4, <1>8
    <3>2. creds'[tenants'[v]] = creds[tenants[v]]
      BY <3>1, <1>5
    <3>. QED
      BY <3>1, <3>2 DEF OwnInv
  <2>. QED
    BY <2>1, <2>2
<1>17. ServedInv'
  BY <1>6 DEF ServedInv, ShapeInv, InFlight
<1>. QED
  BY <1>11, <1>12, <1>13, <1>14, <1>15, <1>16, <1>17

LEMMA StoreInMemoryPreserves ==
    ASSUME RequestsInv, NEW q \in Reqs, StoreInMemory(q)
    PROVE  RequestsInv'
<1>. USE DEF RequestsInv
<1>1. req[q].token \in Tokens
  BY AcceptedGrows DEF StoreInMemory
<1>2. /\ Encrypted(q) \in Credential /\ Encrypted(q).token = req[q].token
      /\ bound' \in Keys \cup {None}
  BY <1>1, EncryptedType DEF StoreInMemory
<1>3. Keep(q)
  BY DEF StoreInMemory, Keep, ShapeInv
<1>. QED
  BY <1>2, <1>3, AcceptedGrows, ConnectedPreserves DEF StoreInMemory, Accept

LEMMA CommitPreserves ==
    ASSUME RequestsInv, NEW q \in Reqs, Commit(q)
    PROVE  RequestsInv'
<1>. USE DEF RequestsInv
<1>1. /\ req[q] \in Request /\ req[q].token \in Tokens /\ req[q].route = "connect"
      /\ req[q].user \in Users /\ req[q].tenant \in TenantIds
      /\ req[q].token \in accepted[req[q].user]
  BY DEF Commit, TypeOK, ShapeInv, TokensInv, Connecting, InFlight
<1>2. bound' \in Keys \cup {None}
  BY DEF Commit, TypeOK
<1>. QED
  BY <1>1, <1>2, EncryptedType, ConnectedPreserves DEF Commit, TypeOK

LEMMA RestartPreserves ==
    ASSUME RequestsInv, Restart
    PROVE  RequestsInv'
<1>. USE DEF RequestsInv
<1>1. /\ Idle \in Request /\ Idle.stage \in {"idle", "answered"}
      /\ Idle.token = None /\ Idle.tenant = None /\ ~Idle.adding
      /\ Idle.before = {} /\ Idle.old = {}
  BY EndedType DEF Idle, Statuses, Ids
<1>2. /\ current' \in Keys /\ UNCHANGED store
      /\ req' = [q \in Reqs |-> Idle]
      /\ bound' = None /\ live' = {}
  BY DEF Restart
<1>3. /\ req' \in [Reqs -> Request]
      /\ \A q \in Reqs : req'[q] = Idle
  BY <1>1, <1>2
<1>4. ShapeInv' /\ TokensInv' /\ ServedInv'
  BY <1>1, <1>3 DEF ShapeInv, TokensInv, ServedInv, Connecting, InFlight
<1>5. CASE store = "memory"
  <2>1. /\ tenants' = [u \in Users |-> None] /\ creds' = [i \in TenantIds |-> None]
        /\ accepted' = [u \in Users |-> {}] /\ done' = [u \in Users |-> {}]
        /\ stale' = [u \in Users |-> {}]
    BY <1>5 DEF Restart
  <2>2. TypeOK'
    BY <1>2, <1>3, <2>1 DEF TypeOK
  <2>3. TenantsInv' /\ HistoryInv' /\ OwnInv'
    BY <1>1, <1>3, <2>1 DEF TenantsInv, HistoryInv, OwnInv, InFlight
  <2>. QED
    BY <1>4, <2>2, <2>3
<1>6. CASE store # "memory"
  <2>1. UNCHANGED <<tenants, creds, accepted, done, stale>>
    BY <1>6 DEF Restart
  <2>2. TypeOK'
    BY <1>2, <1>3, <2>1 DEF TypeOK
  <2>3. TenantsInv' /\ HistoryInv' /\ OwnInv'
    BY <1>1, <1>3, <2>1 DEF TenantsInv, HistoryInv, OwnInv, InFlight
  <2>. QED
    BY <1>4, <2>2, <2>3
<1>. QED
  BY <1>5, <1>6

-----------------------------------------------------------------------------
(* The invariant.                                                          *)

LEMMA InitEstablishes == Init => RequestsInv
<1>. SUFFICES ASSUME Init PROVE RequestsInv
  OBVIOUS
<1>1. /\ Idle \in Request /\ Idle.stage \in {"idle", "answered"}
      /\ Idle.token = None /\ Idle.tenant = None /\ ~Idle.adding
      /\ Idle.before = {} /\ Idle.old = {}
  BY EndedType DEF Idle, Statuses, Ids
<1>2. req \in [Reqs -> Request] /\ \A q \in Reqs : req[q] = Idle
  BY <1>1 DEF Init
<1>3. TypeOK
  <2>1. bound \in Keys \cup {None} /\ live \subseteq Users
    BY DEF Init
  <2>2. /\ tenants \in [Users -> TenantIds \cup {None}]
        /\ creds \in [TenantIds -> Credential \cup {None}]
    BY DEF Init
  <2>3. /\ accepted \in [Users -> SUBSET Tokens] /\ done \in [Users -> SUBSET Tokens]
        /\ stale \in [Users -> SUBSET Tokens]
    BY DEF Init
  <2>. QED
    BY <1>2, <2>1, <2>2, <2>3 DEF TypeOK, Init
<1>4. ShapeInv /\ TokensInv /\ ServedInv
  BY <1>1, <1>2 DEF ShapeInv, TokensInv, ServedInv, Connecting, InFlight
<1>5. TenantsInv
  BY <1>1, <1>2 DEF Init, TenantsInv
<1>6. HistoryInv /\ OwnInv
  BY <1>1, <1>2 DEF Init, HistoryInv, OwnInv, InFlight
<1>. QED
  BY <1>3, <1>4, <1>5, <1>6 DEF RequestsInv

LEMMA NextPreserves ==
    ASSUME RequestsInv, [Next]_vars
    PROVE  RequestsInv'
<1>1. CASE UNCHANGED vars
  <2>. USE <1>1 DEF vars, data, history, RequestsInv
  <2>1. TypeOK' /\ ShapeInv' /\ TenantsInv'
    BY DEF TypeOK, ShapeInv, TenantsInv, InFlight
  <2>2. HistoryInv' /\ TokensInv' /\ OwnInv' /\ ServedInv'
    BY DEF HistoryInv, TokensInv, OwnInv, ServedInv, Connecting, InFlight
  <2>. QED
    BY <2>1, <2>2
<1>2. CASE Restart
  BY <1>2, RestartPreserves
<1>3. ASSUME NEW q \in Reqs, Receive(q) \/ Step(q) \/ DatabaseError(q)
      PROVE  RequestsInv'
  <2>1. ASSUME Step(q) PROVE RequestsInv'
    BY <2>1, AuthenticatePreserves, ResolveInMemoryPreserves, LookupPreserves,
       InsertTenantPreserves, RefusedPreserves, StoreInMemoryPreserves,
       StoreInTablesPreserves, InsertCredentialPreserves, CommitPreserves,
       ReadTokenPreserves, ServePreserves
    DEF Step
  <2>. QED
    BY <1>3, <2>1, ReceivePreserves, DatabaseErrorPreserves
<1>. QED
  BY <1>1, <1>2, <1>3 DEF Next

LEMMA Invariance == Spec => []RequestsInv
<1>1. Init => RequestsInv
  BY InitEstablishes
<1>2. RequestsInv /\ [Next]_vars => RequestsInv'
  BY NextPreserves
<1>. QED
  BY <1>1, <1>2, PTL DEF Spec

\* Every variable keeps its type, through errors and restarts.
THEOREM TypesKept == Spec => []TypeOK
<1>1. RequestsInv => TypeOK
  BY DEF RequestsInv
<1>. QED
  BY <1>1, Invariance, PTL

\* POST /query and POST /sync work with a token of the user who asks.
THEOREM TokensAreOwn == Spec => []TokenIsOwn
<1>1. RequestsInv => TokenIsOwn
  BY DEF RequestsInv, ServedInv, TokenIsOwn
<1>. QED
  BY <1>1, Invariance, PTL

\* A superseded token is neither stored nor used by later requests.
THEOREM SupersededStayOut == Spec => []SupersededStaysOut
<1>1. RequestsInv => SupersededStaysOut
  BY DEF RequestsInv, ServedInv, OwnInv, SupersededStaysOut
<1>. QED
  BY <1>1, Invariance, PTL

\* Threads and transactions that create tenants at once give every user one.
THEOREM TenantsAreOwn == Spec => []OneTenantPerUser
<1>1. RequestsInv => OneTenantPerUser
  BY DEF RequestsInv, TenantsInv, OneTenantPerUser
<1>. QED
  BY <1>1, Invariance, PTL

\* The id in the body of an answer is the one in its header, whoever answers,
\* unless the controller mints one (correlation_id.py, errors.py).
THEOREM IdsOfAnswersAgree == Spec => []IdsAgree
<1>1. Init => IdsAgree
  BY DEF Init, IdsAgree, Idle, Ended
<1>2. RequestsInv /\ IdsAgree /\ [Next]_vars => IdsAgree'
  <2>. SUFFICES ASSUME TypeOK, RequestsInv, IdsAgree, [Next]_vars PROVE IdsAgree'
    BY DEF RequestsInv
  <2>1. ASSUME NEW q \in Reqs, req'[q].body \in {None, "minted", req'[q].header},
               \A p \in Reqs \ {q} : req'[p] = req[p]
        PROVE  IdsAgree'
    BY <2>1 DEF IdsAgree
  <2>2. ASSUME NEW q \in Reqs, NEW status, NEW body \in {None, "minted", "bound"},
               Answer(q, status, body)
        PROVE  IdsAgree'
    <3>1. req' = [req EXCEPT ![q] = Ended(status, body, "bound")]
      BY <2>2 DEF Answer
    <3>2. /\ req'[q].body \in {None, "minted", req'[q].header}
          /\ \A p \in Reqs \ {q} : req'[p] = req[p]
      BY <3>1 DEF TypeOK, Ended
    <3>. QED
      BY <2>1, <3>2
  <2>3. ASSUME NEW q \in Reqs, NEW status, Raise(q, status) PROVE IdsAgree'
    BY <2>2, <2>3 DEF Raise
  <2>4. ASSUME NEW q \in Reqs, Unhandled(q) PROVE IdsAgree'
    <3>1. req' = [req EXCEPT ![q] = Ended("failed", "late", "late")]
      BY <2>4 DEF Unhandled
    <3>2. /\ req'[q].body \in {None, "minted", req'[q].header}
          /\ \A p \in Reqs \ {q} : req'[p] = req[p]
      BY <3>1 DEF TypeOK, Ended
    <3>. QED
      BY <2>1, <3>2
  <2>5. ASSUME NEW q \in Reqs, \A p \in Reqs \ {q} : req'[p] = req[p],
               req'[q].body = req[q].body, req'[q].header = req[q].header
        PROVE  IdsAgree'
    BY <2>5 DEF IdsAgree
  <2>6. ASSUME NEW q \in Reqs, NEW stage, req' = [req EXCEPT ![q].stage = stage]
        PROVE  IdsAgree'
    BY <2>5, <2>6 DEF TypeOK, Request
  <2>7. ASSUME NEW q \in Reqs, NEW i, NEW own, Resolved(q, i, own) PROVE IdsAgree'
    <3>1. PICK r : r = [req[q] EXCEPT !.stage = "resolved", !.tenant = i, !.adding = own]
      OBVIOUS
    <3>2. r.body = req[q].body /\ r.header = req[q].header
      BY <3>1 DEF TypeOK, Request
    <3>3. req' = [req EXCEPT ![q] = r]
      BY <2>7, <3>1 DEF Resolved
    <3>. QED
      BY <2>5, <3>2, <3>3 DEF TypeOK
  <2>8. ASSUME NEW q \in Reqs, Receive(q) PROVE IdsAgree'
    <3>1. PICK route \in Routes, u \in Users, k \in FreshTokens \cup {None} :
            req' = [req EXCEPT ![q] =
                [Idle EXCEPT !.stage = "received", !.route = route, !.user = u,
                             !.key = current, !.token = k, !.before = done[u],
                             !.old = IF route = "connect" THEN {} ELSE stale[u]]]
      BY <2>8 DEF Receive
    <3>2. PICK r : /\ r = [Idle EXCEPT !.stage = "received", !.route = route, !.user = u,
                             !.key = current, !.token = k, !.before = done[u],
                             !.old = IF route = "connect" THEN {} ELSE stale[u]]
                   /\ req' = [req EXCEPT ![q] = r]
      BY <3>1
    <3>3. r.body = None
      BY <3>2 DEF Idle, Ended
    <3>. QED
      BY <2>1, <3>2, <3>3 DEF TypeOK
  <2>9. ASSUME NEW q \in Reqs, Authenticate(q) PROVE IdsAgree'
    BY <2>3, <2>6, <2>9 DEF Authenticate
  <2>10. ASSUME NEW q \in Reqs, ResolveInMemory(q) \/ Lookup(q) \/ InsertTenant(q)
         PROVE  IdsAgree'
    BY <2>4, <2>6, <2>7, <2>10 DEF ResolveInMemory, Lookup, InsertTenant
  <2>11. ASSUME NEW q \in Reqs, Refused(q) PROVE IdsAgree'
    BY <2>2, <2>3, <2>11 DEF Refused
  <2>12. ASSUME NEW q \in Reqs, StoreInMemory(q) \/ Commit(q) PROVE IdsAgree'
    BY <2>2, <2>12 DEF StoreInMemory, Commit, Connected
  <2>13. ASSUME NEW q \in Reqs, StoreInTables(q) PROVE IdsAgree'
    <3>1. PICK r : /\ r = [req[q] EXCEPT
                            !.stage = IF creds[req[q].tenant] = None THEN "inserting" ELSE "stored",
                            !.seen = creds[req[q].tenant]]
                   /\ req' = [req EXCEPT ![q] = r]
      BY <2>13 DEF StoreInTables
    <3>2. r.body = req[q].body /\ r.header = req[q].header
      BY <3>1 DEF TypeOK, Request
    <3>. QED
      BY <2>5, <3>1, <3>2 DEF TypeOK
  <2>14. ASSUME NEW q \in Reqs, InsertCredential(q) PROVE IdsAgree'
    BY <2>4, <2>6, <2>14 DEF InsertCredential
  <2>15. ASSUME NEW q \in Reqs, ReadToken(q) PROVE IdsAgree'
    <3>1. CASE Raise(q, "forbidden") \/ Answer(q, "forbidden", "minted")
      BY <2>2, <2>3, <3>1
    <3>2. CASE Readable(q)
      <4>1. PICK r : /\ r = [req[q] EXCEPT !.stage = "served",
                                           !.token = creds[req[q].tenant].token]
                     /\ req' = [req EXCEPT ![q] = r]
        BY <2>15, <3>2 DEF ReadToken
      <4>2. r.body = req[q].body /\ r.header = req[q].header
        BY <4>1 DEF TypeOK, Request
      <4>. QED
        BY <2>5, <4>1, <4>2 DEF TypeOK
    <3>. QED
      BY <2>15, <3>1, <3>2 DEF ReadToken
  <2>16. ASSUME NEW q \in Reqs, Serve(q) PROVE IdsAgree'
    BY <2>2, <2>3, <2>4, <2>16 DEF Serve
  <2>17. ASSUME NEW q \in Reqs, DatabaseError(q) PROVE IdsAgree'
    BY <2>4, <2>17 DEF DatabaseError
  <2>18. CASE Restart
    <3>1. req' = [q \in Reqs |-> Idle]
      BY <2>18 DEF Restart
    <3>. QED
      BY <3>1 DEF IdsAgree, Idle, Ended
  <2>19. CASE UNCHANGED vars
    BY <2>19 DEF vars, IdsAgree
  <2>. QED
    BY <2>8, <2>9, <2>10, <2>11, <2>12, <2>13, <2>14, <2>15, <2>16, <2>17, <2>18, <2>19
    DEF Next, Step
<1>. QED
  BY <1>1, <1>2, Invariance, PTL DEF Spec

-----------------------------------------------------------------------------
(* The event loop.                                                         *)

\* A request touches no other.
LEMMA OthersUntouched ==
    ASSUME RequestsInv, NEW p \in Reqs, Receive(p) \/ Step(p) \/ DatabaseError(p),
           NEW q \in Reqs, q # p
    PROVE  req'[q] = req[q]
BY DEF Receive, Step, DatabaseError, Authenticate, ResolveInMemory, Lookup, InsertTenant,
       Refused, StoreInMemory, StoreInTables, InsertCredential, Commit, ReadToken, Serve,
       Resolved, Connected, Answer, Raise, Unhandled, RequestsInv, TypeOK

\* One connect at a time is between a SELECT and its INSERT: a database call of
\* connect_canvas does not give up the loop.
LoopInv == \A q, p \in Reqs : HoldsLoop(q) /\ HoldsLoop(p) => q = p

\* Only a connect that has the loop takes it.
LEMMA LoopTaken ==
    ASSUME RequestsInv, NEW q \in Reqs, Receive(q) \/ Step(q) \/ DatabaseError(q),
           req'[q].route = "connect", req'[q].stage \in {"missing", "inserting"}
    PROVE  ~LoopBusy(q)
<1>. USE DEF RequestsInv
<1>1. ~Over(q)
  BY OverFields
<1>2. ASSUME NEW stage \in {"known", "stored"}, req' = [req EXCEPT ![q].stage = stage]
      PROVE  FALSE
  BY <1>2, StageFields DEF Stages
<1>3. ASSUME NEW i \in TenantIds, NEW own \in BOOLEAN, Resolved(q, i, own)
      PROVE  FALSE
  BY <1>3, ResolvedFields
<1>4. CASE Receive(q) \/ StoreInTables(q)
  BY <1>4 DEF Receive, StoreInTables
<1>5. CASE Lookup(q)
  <2>1. req[q].user \in Users
    BY <1>5 DEF Lookup, ShapeInv, InFlight
  <2>2. CASE tenants[req[q].user] # None
    BY <1>3, <1>5, <2>1, <2>2 DEF Lookup, TypeOK
  <2>3. CASE req' = [req EXCEPT ![q].stage = "missing"]
    <3>1. req[q].route = "connect"
      BY <2>3, StageFields DEF Stages
    <3>. QED
      BY <1>5, <3>1 DEF Lookup
  <2>. QED
    BY <1>5, <2>2, <2>3 DEF Lookup
<1>6. ~(\/ Refused(q) \/ StoreInMemory(q) \/ Commit(q) \/ Serve(q) \/ DatabaseError(q)
        \/ Authenticate(q) \/ InsertCredential(q))
  BY <1>1, <1>2, AnswersAreOver
  DEF Refused, StoreInMemory, Commit, Connected, Serve, DatabaseError, Authenticate,
      InsertCredential, Statuses, Ids
<1>7. ~ResolveInMemory(q)
  <2>1. ResolveInMemory(q) => tenants[req[q].user] \in TenantIds \cup {None}
    BY DEF ResolveInMemory, ShapeInv, InFlight, TypeOK
  <2>. QED
    BY <1>3, <2>1, FreshTenantsAreFree DEF ResolveInMemory
<1>8. ~InsertTenant(q)
  BY <1>1, <1>3, FreshTenantsAreFree, AnswersAreOver DEF InsertTenant, Statuses, Ids
<1>9. ~ReadToken(q)
  BY <1>1, ReadableIsOwn, ServedFields, AnswersAreOver DEF ReadToken, Statuses, Ids
<1>. QED
  BY <1>4, <1>5, <1>6, <1>7, <1>8, <1>9 DEF Step

LEMMA LoopPreserves ==
    ASSUME RequestsInv, LoopInv, [Next]_vars
    PROVE  LoopInv'
<1>1. CASE UNCHANGED vars
  BY <1>1 DEF vars, LoopInv, HoldsLoop
<1>2. CASE Restart
  <2>1. Idle.stage \in {"idle", "answered"}
    BY EndedType DEF Idle, Statuses, Ids
  <2>2. \A q \in Reqs : req'[q].stage \notin {"missing", "inserting"}
    BY <1>2, <2>1 DEF Restart
  <2>. QED
    BY <2>2 DEF LoopInv, HoldsLoop
<1>3. ASSUME NEW q \in Reqs, Receive(q) \/ Step(q) \/ DatabaseError(q)
      PROVE  LoopInv'
  <2>1. \A p \in Reqs \ {q} : req'[p] = req[p]
    BY <1>3, OthersUntouched
  <2>2. req'[q].route = "connect" /\ req'[q].stage \in {"missing", "inserting"} =>
            \A p \in Reqs \ {q} : ~HoldsLoop(p)
    BY <1>3, LoopTaken DEF LoopBusy
  <2>. QED
    BY <2>1, <2>2 DEF LoopInv, HoldsLoop
<1>. QED
  BY <1>1, <1>2, <1>3 DEF Next

\* A transaction that others wait for has nothing to wait for.
LEMMA BlockersGoOn ==
    ASSUME RequestsInv, NEW q \in Reqs, NEW p \in Reqs, NEW r \in Reqs,
           Waits(q, p), Waits(p, r)
    PROVE  FALSE
<1>1. req[p].stage # "stored" /\ req[p].adding
  BY DEF Waits
<1>2. req[p].stage = "inserting" /\ p # r
  BY <1>1 DEF Waits, RequestsInv, ShapeInv
<1>3. req[r].tenant = req[p].tenant /\ req[r].stage = "stored"
  BY <1>2 DEF Waits
<1>4. /\ req[p].tenant # None /\ req[p].tenant \in TenantIds
      /\ \A v \in Users : tenants[v] # req[p].tenant
  BY <1>1, <1>2 DEF RequestsInv, TenantsInv, ShapeInv
<1>5. req[r].user \in Users
  BY <1>3 DEF RequestsInv, ShapeInv, InFlight
<1>6. req[r].adding
  BY <1>3, <1>4, <1>5 DEF RequestsInv, TenantsInv
<1>. QED
  BY <1>1, <1>2, <1>3, <1>6 DEF RequestsInv, TenantsInv

\* The unique constraints of tenants and canvas_credentials let an INSERT wait,
\* and a connect whose INSERT waits keeps the event loop. There is no other way
\* to a circle, for any number of requests and users: while no connect waits for
\* a row that the loop itself must give back, some request can go on.
THEOREM OnlyTheLoopDeadlocks == Spec => []OnlyTheLoopStalls
<1>1. Init => LoopInv
  <2>. SUFFICES ASSUME Init PROVE LoopInv
    OBVIOUS
  <2>1. Idle.stage \in {"idle", "answered"}
    BY EndedType DEF Idle, Statuses, Ids
  <2>. QED
    BY <2>1 DEF Init, LoopInv, HoldsLoop
<1>2. RequestsInv /\ LoopInv /\ [Next]_vars => LoopInv'
  BY LoopPreserves
<1>3. RequestsInv /\ LoopInv => OnlyTheLoopStalls
  <2>. SUFFICES ASSUME RequestsInv, LoopInv PROVE OnlyTheLoopStalls
    OBVIOUS
  <2>1. \A q, p, r \in Reqs : Waits(q, p) => ~Waits(p, r)
    BY BlockersGoOn
  <2>2. ASSUME ~LoopStalled, NEW q \in Reqs, NEW p \in Reqs, NEW r \in Reqs, NEW s \in Reqs,
               NeedsEndOf(q, p), NeedsEndOf(p, r), NeedsEndOf(r, s)
        PROVE  FALSE
    <3>1. ASSUME NEW x \in Reqs, NEW y \in Reqs, HoldsLoop(x) PROVE ~NeedsEndOf(x, y)
      BY <2>2, <3>1 DEF LoopStalled, NeedsEndOf, LoopInv
    <3>2. Waits(q, p) /\ Waits(p, r)
      BY <2>2, <3>1 DEF NeedsEndOf
    <3>. QED
      BY <2>1, <3>2
  <2>3. LoopStalled => store = "tables"
    BY DEF LoopStalled, HoldsLoop, RequestsInv, ShapeInv
  <2>. QED
    BY <2>1, <2>2, <2>3 DEF OnlyTheLoopStalls, LoopInv
<1>. QED
  BY <1>1, <1>2, <1>3, Invariance, PTL DEF Spec

-----------------------------------------------------------------------------
(* Keys and the cipher that is bound.                                      *)

\* One key is in use at a time, nothing is answered early, the cipher that is
\* bound is the key's as soon as a connect has stored anything, and so is the
\* credential of a user who connected.
KeysInv ==
    /\ \A q \in Reqs : InFlight(q) => req[q].key = current /\ req[q].status = "none"
    /\ bound \in {None, current}
    /\ \A q \in Reqs : req[q].stage = "stored" => bound = current
    /\ \A u \in live : /\ tenants[u] # None /\ creds[tenants[u]] # None
                       /\ creds[tenants[u]].by = current
                       /\ bound = current

\* Steps that store nothing for good.
LEMMA KeysUntouched ==
    ASSUME RequestsInv, KeysInv, NEW q \in Reqs, UNCHANGED <<store, current, creds, live>>,
           bound' \in {bound, current},
           \A u \in Users : tenants[u] # None => tenants'[u] = tenants[u],
           \A p \in Reqs \ {q} : req'[p] = req[p],
           InFlight(q)' => req'[q].key = current /\ req'[q].status = "none",
           req'[q].stage = "stored" => bound' = current
    PROVE  KeysInv'
<1>1. \A p \in Reqs : InFlight(p)' => req'[p].key = current' /\ req'[p].status = "none"
  BY DEF KeysInv, InFlight
<1>2. /\ bound' \in {None, current'}
      /\ \A p \in Reqs : req'[p].stage = "stored" => bound' = current'
  BY DEF KeysInv
<1>3. ASSUME NEW u \in live
      PROVE  /\ tenants'[u] # None /\ creds'[tenants'[u]] # None
             /\ creds'[tenants'[u]].by = current'
             /\ bound' = current'
  <2>1. u \in Users
    BY DEF RequestsInv, TypeOK
  <2>2. /\ tenants[u] # None /\ creds[tenants[u]] # None
        /\ creds[tenants[u]].by = current /\ bound = current
    BY DEF KeysInv
  <2>. QED
    BY <2>1, <2>2
<1>. QED
  BY <1>1, <1>2, <1>3 DEF KeysInv

\* An answer, whether or not a tenant is committed with it.
LEMMA KeysOver ==
    ASSUME RequestsInv, KeysInv, NEW q \in Reqs, Over(q),
           UNCHANGED <<store, current, creds, bound, live>>, UNCHANGED tenants \/ Keep(q)
    PROVE  KeysInv'
<1>1. \A u \in Users : tenants[u] # None => tenants'[u] = tenants[u]
  BY DEF Keep, RequestsInv, TenantsInv, TypeOK
<1>2. /\ \A p \in Reqs \ {q} : req'[p] = req[p]
      /\ req'[q].stage \in {"idle", "answered"}
  BY OverFields DEF RequestsInv
<1>. QED
  BY <1>1, <1>2, KeysUntouched DEF InFlight

\* A connect that is answered with 204 leaves a credential of the key that is bound.
LEMMA KeysConnected ==
    ASSUME RequestsInv, KeysInv, NEW q \in Reqs, NEW c \in Credential,
           InFlight(q), req[q].tenant \in TenantIds, c.by = req[q].key,
           creds' = [creds EXCEPT ![req[q].tenant] = c], bound' = current,
           Keep(q), Connected(q), UNCHANGED <<store, current>>
    PROVE  KeysInv'
<1>. USE DEF RequestsInv
<1>1. PICK u \in Users, i \in TenantIds :
        u = req[q].user /\ i = req[q].tenant
  BY DEF ShapeInv
<1>2. /\ i # None /\ c # None /\ c.by = current
      /\ tenants[u] = i \/ (tenants[u] = None /\ req[q].adding)
  BY <1>1, RequestsAssumption DEF TenantsInv, KeysInv
<1>3. \A v \in Users : tenants'[v] = IF v = u THEN i ELSE tenants[v]
  BY <1>1, <1>2 DEF Keep, TypeOK
<1>4. \A j \in TenantIds : creds'[j] = IF j = i THEN c ELSE creds[j]
  BY <1>1 DEF TypeOK
<1>5. /\ \A p \in Reqs \ {q} : req'[p] = req[p]
      /\ req'[q].stage \in {"idle", "answered"}
  BY AnswersAreOver, OverFields DEF Connected, Statuses
<1>6. live' = live \cup {u} /\ live \subseteq Users
  BY <1>1 DEF Connected, TypeOK
<1>. HIDE DEF Keep, Connected
<1>7. \A p \in Reqs : InFlight(p)' => req'[p].key = current' /\ req'[p].status = "none"
  BY <1>5 DEF KeysInv, InFlight
<1>8. ASSUME NEW v \in live'
      PROVE  /\ tenants'[v] # None /\ creds'[tenants'[v]] # None
             /\ creds'[tenants'[v]].by = current'
  <2>1. CASE v = u
    BY <2>1, <1>2, <1>3, <1>4
  <2>2. CASE v # u
    <3>1. /\ v \in Users /\ tenants'[v] = tenants[v] /\ tenants[v] # None
          /\ creds[tenants[v]] # None /\ creds[tenants[v]].by = current
          /\ tenants[v] \in TenantIds
      BY <2>2, <1>3, <1>6 DEF KeysInv, TypeOK
    <3>. QED
      BY <3>1, <1>2, <1>4
  <2>. QED
    BY <2>1, <2>2
<1>. QED
  BY <1>7, <1>8 DEF KeysInv

LEMMA KeysPreserves ==
    ASSUME RequestsInv, KeysInv, [Next]_vars
    PROVE  KeysInv'
<1>. USE DEF RequestsInv
<1>1. ASSUME NEW q \in Reqs, Receive(q) PROVE KeysInv'
  <2>1. /\ \A p \in Reqs \ {q} : req'[p] = req[p]
        /\ req'[q].key = current /\ req'[q].status = "none" /\ req'[q].stage = "received"
    BY <1>1, ReceiveFields
  <2>. QED
    BY <1>1, <2>1, KeysUntouched DEF Receive, data, history
<1>2. ASSUME NEW q \in Reqs, NEW i \in TenantIds, NEW own \in BOOLEAN,
             Resolved(q, i, own), InFlight(q), UNCHANGED <<store, current, creds, bound, live>>,
             \A u \in Users : tenants[u] # None => tenants'[u] = tenants[u]
      PROVE  KeysInv'
  <2>1. /\ \A p \in Reqs \ {q} : req'[p] = req[p]
        /\ req'[q].key = current /\ req'[q].status = "none" /\ req'[q].stage = "resolved"
    BY <1>2, ResolvedFields DEF KeysInv
  <2>. QED
    BY <1>2, <2>1, KeysUntouched
<1>3. ASSUME NEW q \in Reqs, NEW stage \in {"known", "missing", "stored"},
             req' = [req EXCEPT ![q].stage = stage], InFlight(q),
             UNCHANGED <<store, current, tenants, creds, live>>,
             bound' \in {bound, current}, stage = "stored" => bound' = current
      PROVE  KeysInv'
  <2>1. /\ \A p \in Reqs \ {q} : req'[p] = req[p]
        /\ req'[q].key = req[q].key /\ req'[q].status = req[q].status
        /\ req'[q].stage = stage
    BY <1>3, StageFields DEF Stages
  <2>2. req[q].key = current /\ req[q].status = "none"
    BY <1>3 DEF KeysInv
  <2>. QED
    BY <1>3, <2>1, <2>2, KeysUntouched
<1>4. ASSUME NEW q \in Reqs, Authenticate(q) PROVE KeysInv'
  <2>1. CASE Raise(q, "failed")
    BY <1>4, <2>1, KeysOver, AnswersAreOver DEF Authenticate, data, history, Statuses, Ids
  <2>2. CASE req' = [req EXCEPT ![q].stage = "known"]
    BY <1>3, <1>4, <2>2 DEF Authenticate, data, history, InFlight
  <2>. QED
    BY <1>4, <2>1, <2>2 DEF Authenticate
<1>5. ASSUME NEW q \in Reqs, ResolveInMemory(q) PROVE KeysInv'
  <2>1. tenants[req[q].user] \in TenantIds \cup {None} /\ req[q].user \in Users
    BY <1>5 DEF ResolveInMemory, ShapeInv, InFlight, TypeOK
  <2>2. PICK i \in TenantIds : Resolved(q, i, FALSE)
    BY <1>5, <2>1, FreshTenantsAreFree DEF ResolveInMemory
  <2>3. \A u \in Users : tenants[u] # None => tenants'[u] = tenants[u]
    BY <1>5, <2>1 DEF ResolveInMemory, TypeOK
  <2>. QED
    BY <1>2, <1>5, <2>2, <2>3 DEF ResolveInMemory, InFlight, history
<1>6. ASSUME NEW q \in Reqs, Lookup(q) PROVE KeysInv'
  <2>1. CASE tenants[req[q].user] # None
    <3>1. tenants[req[q].user] \in TenantIds
      BY <1>6, <2>1 DEF Lookup, ShapeInv, InFlight, TypeOK
    <3>. QED
      BY <1>2, <1>6, <2>1, <3>1 DEF Lookup, data, history, InFlight
  <2>2. CASE tenants[req[q].user] = None
    BY <1>3, <1>6, <2>2 DEF Lookup, data, history, InFlight
  <2>. QED
    BY <2>1, <2>2
<1>7. ASSUME NEW q \in Reqs, InsertTenant(q) PROVE KeysInv'
  <2>1. CASE Unhandled(q)
    BY <1>7, <2>1, KeysOver, AnswersAreOver DEF InsertTenant, data, history, Statuses, Ids
  <2>2. CASE \E i \in FreshTenants : Resolved(q, i, TRUE)
    BY <1>2, <1>7, <2>2, FreshTenantsAreFree DEF InsertTenant, data, history, InFlight
  <2>. QED
    BY <1>7, <2>1, <2>2 DEF InsertTenant
<1>8. ASSUME NEW q \in Reqs, Refused(q) \/ Serve(q) \/ DatabaseError(q) PROVE KeysInv'
  <2>1. Over(q) /\ (UNCHANGED tenants \/ Keep(q))
    BY <1>8, AnswersAreOver DEF Refused, Serve, DatabaseError, data, Statuses, Ids
  <2>2. UNCHANGED <<store, current, creds, bound, live>>
    BY <1>8 DEF Refused, Serve, DatabaseError, data, history
  <2>. QED
    BY <2>1, <2>2, KeysOver
<1>9. ASSUME NEW q \in Reqs, StoreInMemory(q) PROVE KeysInv'
  <2>1. /\ req[q].tenant \in TenantIds /\ InFlight(q) /\ req[q].token \in Tokens
    BY <1>9, AcceptedGrows DEF StoreInMemory, Accept, InFlight
  <2>2. Keep(q) /\ bound' = current
    BY <1>9, <2>1 DEF StoreInMemory, Keep, ShapeInv, KeysInv
  <2>. QED
    BY <1>9, <2>1, <2>2, EncryptedType, KeysConnected DEF StoreInMemory
<1>10. ASSUME NEW q \in Reqs, StoreInTables(q) PROVE KeysInv'
  <2>1. PICK seen \in Credential \cup {None} : seen = creds[req[q].tenant]
    BY <1>10, AcceptedGrows DEF StoreInTables, TypeOK
  <2>2. PICK stage \in {"inserting", "stored"} :
          /\ stage = "inserting" <=> seen = None
          /\ req' = [req EXCEPT ![q] = [@ EXCEPT !.stage = stage, !.seen = seen]]
    BY <1>10, <2>1 DEF StoreInTables
  <2>3. InFlight(q) /\ req[q].key = current /\ req[q].status = "none"
    BY <1>10 DEF StoreInTables, Accept, InFlight, KeysInv
  <2>4. /\ \A p \in Reqs \ {q} : req'[p] = req[p]
        /\ req'[q].stage = stage
        /\ req'[q].key = current /\ req'[q].status = "none"
    BY <2>2, <2>3, StoredFields DEF Stages
  <2>5. /\ UNCHANGED <<store, current, tenants, creds, live>>
        /\ bound' = IF seen = None THEN bound ELSE current
    BY <1>10, <2>1, <2>3 DEF StoreInTables
  <2>. QED
    BY <2>2, <2>4, <2>5, KeysUntouched
<1>11. ASSUME NEW q \in Reqs, InsertCredential(q) PROVE KeysInv'
  <2>1. CASE creds[req[q].tenant] # None
    BY <1>11, <2>1, KeysOver, AnswersAreOver
    DEF InsertCredential, data, history, Statuses, Ids
  <2>2. CASE creds[req[q].tenant] = None
    <3>1. InFlight(q) /\ bound' = current
      BY <1>11, <2>2 DEF InsertCredential, InFlight, KeysInv
    <3>. QED
      BY <1>3, <1>11, <2>2, <3>1 DEF InsertCredential, history
  <2>. QED
    BY <1>11, <2>1, <2>2 DEF InsertCredential
<1>12. ASSUME NEW q \in Reqs, Commit(q) PROVE KeysInv'
  <2>1. /\ req[q].tenant \in TenantIds /\ InFlight(q) /\ req[q].token \in Tokens
    BY <1>12 DEF Commit, ShapeInv, TokensInv, Connecting, InFlight
  <2>2. bound' = current
    BY <1>12 DEF Commit, KeysInv
  <2>. QED
    BY <1>12, <2>1, <2>2, EncryptedType, KeysConnected DEF Commit
<1>13. ASSUME NEW q \in Reqs, ReadToken(q) PROVE KeysInv'
  <2>1. CASE ~Readable(q)
    BY <1>13, <2>1, KeysOver, AnswersAreOver DEF ReadToken, data, history, Statuses, Ids
  <2>2. CASE Readable(q)
    <3>1. InFlight(q) /\ req[q].key = current /\ req[q].status = "none"
      BY <1>13 DEF ReadToken, KeysInv, InFlight
    <3>2. /\ \A p \in Reqs \ {q} : req'[p] = req[p]
          /\ req'[q].stage = "served"
          /\ req'[q].key = current /\ req'[q].status = "none"
      BY <1>13, <2>2, <3>1, ReadableIsOwn, ServedFields DEF ReadToken
    <3>. QED
      BY <1>13, <3>2, KeysUntouched DEF ReadToken, data, history
  <2>. QED
    BY <2>1, <2>2
<1>14. ASSUME Restart PROVE KeysInv'
  <2>1. Idle.stage \in {"idle", "answered"}
    BY EndedType DEF Idle, Statuses, Ids
  <2>2. \A q \in Reqs : req'[q].stage \in {"idle", "answered"}
    BY <1>14, <2>1 DEF Restart
  <2>. QED
    BY <1>14, <2>2 DEF Restart, KeysInv, InFlight
<1>15. CASE UNCHANGED vars
  BY <1>15 DEF vars, data, history, KeysInv, InFlight
<1>. QED
  BY <1>1, <1>4, <1>5, <1>6, <1>7, <1>8, <1>9, <1>10, <1>11, <1>12, <1>13, <1>14, <1>15
  DEF Next, Step

\* Of an action of q, only ReadToken answers 403, and not to a user who connected.
LEMMA ForbiddenOnlyBefore ==
    ASSUME RequestsInv, KeysInv, NEW q \in Reqs, Receive(q) \/ Step(q) \/ DatabaseError(q),
           req'[q].status = "forbidden"
    PROVE  req[q].user \notin live
<1>. USE DEF RequestsInv
<1>1. ASSUME NEW status \in {"ok", "failed"}, NEW body \in Ids \cup {None},
             NEW header \in Ids \cup {None},
             req' = [req EXCEPT ![q] = Ended(status, body, header)]
      PROVE  FALSE
  BY <1>1, EndedFields DEF Statuses
<1>2. CASE Refused(q) \/ Serve(q) \/ DatabaseError(q) \/ StoreInMemory(q) \/ Commit(q)
  BY <1>1, <1>2
  DEF Refused, Serve, DatabaseError, StoreInMemory, Commit, Connected, Answer, Raise,
      Unhandled, Ids
<1>3. CASE Receive(q)
  BY <1>3, ReceiveFields
<1>4. ASSUME InFlight(q), req'[q].status = req[q].status PROVE FALSE
  BY <1>4 DEF KeysInv
<1>5. CASE Authenticate(q)
  <2>1. CASE Raise(q, "failed")
    BY <1>1, <2>1 DEF Raise, Answer, Ids
  <2>2. CASE req' = [req EXCEPT ![q].stage = "known"]
    BY <1>4, <1>5, <2>2, StageFields DEF Authenticate, InFlight, Stages
  <2>. QED
    BY <1>5, <2>1, <2>2 DEF Authenticate
<1>6. ASSUME NEW i \in TenantIds, NEW own \in BOOLEAN, Resolved(q, i, own), InFlight(q)
      PROVE  FALSE
  BY <1>4, <1>6, ResolvedFields
<1>7. CASE ResolveInMemory(q)
  <2>1. tenants[req[q].user] \in TenantIds \cup {None} /\ InFlight(q)
    BY <1>7 DEF ResolveInMemory, ShapeInv, InFlight, TypeOK
  <2>. QED
    BY <1>6, <1>7, <2>1, FreshTenantsAreFree DEF ResolveInMemory
<1>8. CASE Lookup(q)
  <2>1. tenants[req[q].user] \in TenantIds \cup {None} /\ InFlight(q)
    BY <1>8 DEF Lookup, ShapeInv, InFlight, TypeOK
  <2>2. CASE req' = [req EXCEPT ![q].stage = "missing"]
    BY <1>4, <2>1, <2>2, StageFields DEF Stages
  <2>. QED
    BY <1>6, <1>8, <2>1, <2>2 DEF Lookup
<1>9. CASE InsertTenant(q)
  <2>1. CASE Unhandled(q)
    BY <1>1, <2>1 DEF Unhandled, Ids
  <2>2. CASE \E i \in FreshTenants : Resolved(q, i, TRUE)
    BY <1>6, <1>9, <2>2, FreshTenantsAreFree DEF InsertTenant, InFlight
  <2>. QED
    BY <1>9, <2>1, <2>2 DEF InsertTenant
<1>10. CASE StoreInTables(q)
  <2>1. PICK seen \in Credential \cup {None} : seen = creds[req[q].tenant]
    BY <1>10, AcceptedGrows DEF StoreInTables, TypeOK
  <2>2. PICK stage \in {"inserting", "stored"} :
          req' = [req EXCEPT ![q] = [@ EXCEPT !.stage = stage, !.seen = seen]]
    BY <1>10, <2>1 DEF StoreInTables
  <2>3. req'[q].status = req[q].status
    BY <2>2, StoredFields DEF Stages
  <2>. QED
    BY <1>4, <1>10, <2>3 DEF StoreInTables, Accept, InFlight
<1>11. CASE InsertCredential(q)
  <2>1. CASE Unhandled(q)
    BY <1>1, <2>1 DEF Unhandled, Ids
  <2>2. CASE req' = [req EXCEPT ![q].stage = "stored"]
    BY <1>4, <1>11, <2>2, StageFields DEF InsertCredential, InFlight, Stages
  <2>. QED
    BY <1>11, <2>1, <2>2 DEF InsertCredential
<1>12. CASE ReadToken(q)
  <2>1. CASE Readable(q)
    BY <1>4, <1>12, <2>1, ReadableIsOwn, ServedFields DEF ReadToken, InFlight
  <2>2. ASSUME ~Readable(q), req[q].user \in live PROVE FALSE
    <3>1. PICK u \in live, i \in TenantIds : u = req[q].user /\ i = req[q].tenant
      BY <1>12, <2>2 DEF ReadToken, ShapeInv, InFlight
    <3>2. /\ u \in Users
          /\ tenants[u] # None /\ creds[tenants[u]] # None
          /\ creds[tenants[u]].by = current /\ bound = current
      BY <3>1 DEF KeysInv, TypeOK
    <3>3. tenants[u] = i
      BY <3>1, <3>2, RequestsAssumption DEF TenantsInv
    <3>. QED
      BY <2>2, <3>1, <3>2, <3>3 DEF Readable
  <2>. QED
    BY <2>1, <2>2
<1>. QED
  BY <1>2, <1>3, <1>5, <1>7, <1>8, <1>9, <1>10, <1>11, <1>12 DEF Step

\* A user who has connected is not told that there are no credentials while the
\* process lives: the credential row, the tenant row and the cipher that is bound
\* keep together, in memory and in the tables, whoever connects meanwhile.
THEOREM ConnectedAreNotForbidden == Spec => ConnectedIsNotForbidden
<1>1. Init => KeysInv
  <2>. SUFFICES ASSUME Init PROVE KeysInv
    OBVIOUS
  <2>1. Idle.stage \in {"idle", "answered"}
    BY EndedType DEF Idle, Statuses, Ids
  <2>. QED
    BY <2>1 DEF Init, KeysInv, InFlight
<1>2. RequestsInv /\ KeysInv /\ [Next]_vars => KeysInv'
  BY KeysPreserves
<1>3. RequestsInv /\ KeysInv /\ [Next]_vars =>
        [\A q \in Reqs :
            req'[q].status = "forbidden" /\ req'[q] # req[q] => req[q].user \notin live]_vars
  <2>. SUFFICES ASSUME RequestsInv, KeysInv, Next, NEW q \in Reqs,
                       req'[q].status = "forbidden", req'[q] # req[q]
                PROVE  req[q].user \notin live
    OBVIOUS
  <2>1. CASE Restart
    <3>1. Idle.status = "none"
      BY EndedType DEF Idle, Statuses, Ids
    <3>. QED
      BY <2>1, <3>1 DEF Restart
  <2>2. CASE \E p \in Reqs : Receive(p) \/ Step(p) \/ DatabaseError(p)
    BY <2>2, ForbiddenOnlyBefore, OthersUntouched
  <2>. QED
    BY <2>1, <2>2 DEF Next
<1>. QED
  BY <1>1, <1>2, <1>3, Invariance, PTL DEF Spec, ConnectedIsNotForbidden

-----------------------------------------------------------------------------
(* To users the whole is one register each: Directory.                     *)

\* The handlers' calls, when only that of q has changed.
LEMMA CallsAfter ==
    ASSUME NEW q \in Reqs, NEW c, CallOf(q)' = c,
           \A p \in Reqs \ {q} : CallOf(p)' = CallOf(p)
    PROVE  [p \in Reqs |-> CallOf(p)]' = [[p \in Reqs |-> CallOf(p)] EXCEPT ![q] = c]
OBVIOUS

LEMMA CallKept ==
    ASSUME NEW p \in Reqs, req'[p] = req[p]
    PROVE  CallOf(p)' = CallOf(p)
BY DEF CallOf

\* A handler that goes on between receipt and the token is the call it was.
LEMMA CallGoesOn ==
    ASSUME NEW q \in Reqs, InFlight(q), req[q].stage # "served", InFlight(q)',
           req'[q].stage # "served", req'[q].route = req[q].route,
           req'[q].user = req[q].user, req'[q].token = req[q].token
    PROVE  CallOf(q)' = CallOf(q)
BY DEF CallOf, InFlight

LEMMA CallIsOver ==
    ASSUME TypeOK, NEW q \in Reqs, Over(q)
    PROVE  /\ CallOf(q)' = D!NoCall
           /\ \A p \in Reqs \ {q} : CallOf(p)' = CallOf(p)
<1>1. /\ \A p \in Reqs \ {q} : req'[p] = req[p]
      /\ req'[q].stage \in {"idle", "answered"} /\ req'[q].token = None
  BY OverFields
<1>. QED
  BY <1>1, CallKept DEF CallOf, D!NoCall

\* What is on file depends on tenants and credentials alone.
LEMMA OnFileUnchanged ==
    ASSUME UNCHANGED <<tenants, creds>>
    PROVE  \A u \in Users : OnFile(u)' = OnFile(u)
BY DEF OnFile

\* The row of a new tenant, inserted or committed, puts nothing on file.
LEMMA OnFileWithTenant ==
    ASSUME TypeOK, NEW u \in Users, NEW i \in TenantIds, tenants[u] = None, creds[i] = None,
           tenants' = [tenants EXCEPT ![u] = i], UNCHANGED creds
    PROVE  \A v \in Users : OnFile(v)' = OnFile(v)
BY DEF OnFile, TypeOK

LEMMA OnFileKept ==
    ASSUME RequestsInv, NEW q \in Reqs, InFlight(q), Keep(q), UNCHANGED creds
    PROVE  \A u \in Users : OnFile(u)' = OnFile(u)
<1>. USE DEF RequestsInv
<1>1. CASE ~req[q].adding
  BY <1>1, OnFileUnchanged DEF Keep
<1>2. CASE req[q].adding
  <2>1. PICK u \in Users, i \in TenantIds :
          /\ u = req[q].user /\ i = req[q].tenant
          /\ tenants' = [tenants EXCEPT ![u] = i]
    BY <1>2 DEF Keep, ShapeInv, TenantsInv, TypeOK, Request
  <2>2. tenants[u] = None /\ creds[i] = None
    BY <1>2, <2>1 DEF TenantsInv
  <2>. QED
    BY <2>1, <2>2, OnFileWithTenant
<1>. QED
  BY <1>1, <1>2

LEMMA MapsToStutter ==
    ASSUME \A u \in Users : OnFile(u)' = OnFile(u), UNCHANGED accepted,
           \A q \in Reqs : CallOf(q)' = CallOf(q)
    PROVE  UNCHANGED D!vars
BY DEF D!vars

LEMMA MapsToEnd ==
    ASSUME TypeOK, NEW q \in Reqs, InFlight(q), Over(q),
           \A u \in Users : OnFile(u)' = OnFile(u), UNCHANGED accepted,
           req[q].route \in Routes
    PROVE  D!End(q)
<1>1. CallOf(q)' = D!NoCall /\ \A p \in Reqs \ {q} : CallOf(p)' = CallOf(p)
  BY CallIsOver
<1>2. D!Over(q)
  BY <1>1, CallsAfter DEF D!Over
<1>3. CallOf(q).op # "none"
  BY DEF CallOf, InFlight, Routes
<1>4. UNCHANGED <<[u \in Users |-> OnFile(u)], accepted>>
  OBVIOUS
<1>. QED
  BY <1>2, <1>3, <1>4 DEF D!End

\* A handler that goes on without touching what is on file.
LEMMA MapsToNothing ==
    ASSUME NEW q \in Reqs, InFlight(q), req[q].stage # "served", InFlight(q)',
           req'[q].stage # "served", req'[q].route = req[q].route,
           req'[q].user = req[q].user, req'[q].token = req[q].token,
           \A p \in Reqs \ {q} : req'[p] = req[p],
           \A u \in Users : OnFile(u)' = OnFile(u), UNCHANGED accepted
    PROVE  UNCHANGED D!vars
<1>1. CallOf(q)' = CallOf(q)
  BY CallGoesOn
<1>2. \A p \in Reqs \ {q} : CallOf(p)' = CallOf(p)
  BY CallKept
<1>. QED
  BY <1>1, <1>2, MapsToStutter

\* Receipt begins a call, with a token that nobody has sent before.
LEMMA MapsToBegin ==
    ASSUME RequestsInv, NEW q \in Reqs, Receive(q)
    PROVE  \E u \in Users : D!BeginUse(q, u) \/ \E k \in Tokens : D!BeginConnect(q, u, k)
<1>. USE DEF RequestsInv
<1>1. PICK u \in Users, k \in Tokens \cup {None} :
        /\ req' \in [Reqs -> Request]
        /\ \A p \in Reqs \ {q} : req'[p] = req[p]
        /\ req'[q].stage = "received" /\ req'[q].user = u /\ req'[q].token = k
        /\ req'[q].route # "connect" => k = None
        /\ req'[q].route = "connect" =>
                /\ k \in Tokens
                /\ \A v \in Users : k \notin accepted[v]
                /\ \A p \in Reqs : req[p].token # k
  BY ReceiveFields
<1>3. CallOf(q).op = "none"
  BY DEF Receive, CallOf
<1>4. UNCHANGED <<[v \in Users |-> OnFile(v)], accepted>>
  BY OnFileUnchanged DEF Receive, data, history
<1>5. \A p \in Reqs \ {q} : CallOf(p)' = CallOf(p)
  BY <1>1, CallKept
<1>6. CASE req'[q].route = "connect"
  <2>1. CallOf(q)' = [op |-> "connect", user |-> u, token |-> k]
    BY <1>1, <1>6 DEF CallOf
  <2>2. D!Call(q, "connect", u, k)
    BY <1>5, <2>1, CallsAfter DEF D!Call
  <2>3. \A p \in Reqs : CallOf(p).token # k
    BY <1>1, <1>6 DEF CallOf
  <2>4. D!BeginConnect(q, u, k)
    BY <1>1, <1>3, <1>4, <1>6, <2>2, <2>3 DEF D!BeginConnect
  <2>. QED
    BY <1>1, <1>6, <2>4
<1>7. CASE req'[q].route # "connect"
  <2>1. req'[q].route = "use"
    BY <1>1, <1>7 DEF Request, Routes
  <2>2. CallOf(q)' = [op |-> "use", user |-> u, token |-> None]
    BY <1>1, <1>7, <2>1 DEF CallOf
  <2>3. D!Call(q, "use", u, None)
    BY <1>5, <2>2, CallsAfter DEF D!Call
  <2>. QED
    BY <1>3, <1>4, <2>3 DEF D!BeginUse
<1>. QED
  BY <1>6, <1>7

\* A connect that is answered with 204 has stored its token, for its user only.
LEMMA MapsToStore ==
    ASSUME RequestsInv, NEW q \in Reqs, NEW c \in Credential, c.token = req[q].token,
           req[q].stage \in {"resolved", "stored"}, req[q].route = "connect",
           creds' = [creds EXCEPT ![req[q].tenant] = c], Keep(q), Connected(q),
           accepted' = [accepted EXCEPT ![req[q].user] = @ \cup {req[q].token}]
    PROVE  D!Store(q)
<1>. USE DEF RequestsInv
<1>1. PICK u \in Users, i \in TenantIds, k \in Tokens :
        u = req[q].user /\ i = req[q].tenant /\ k = req[q].token
  BY DEF ShapeInv, TokensInv, Connecting, InFlight
<1>2. /\ i # None /\ c # None
      /\ tenants[u] = i \/ (tenants[u] = None /\ req[q].adding)
      /\ \A v \in Users \ {u} : tenants[v] # i
  BY <1>1, RequestsAssumption DEF TenantsInv
<1>3. \A v \in Users : tenants'[v] = IF v = u THEN i ELSE tenants[v]
  <2>1. tenants' = IF req[q].adding THEN [tenants EXCEPT ![u] = i] ELSE tenants
    BY <1>1 DEF Keep
  <2>. QED
    BY <1>1, <1>2, <2>1 DEF TypeOK
<1>4. \A j \in TenantIds : creds'[j] = IF j = i THEN c ELSE creds[j]
  BY <1>1 DEF TypeOK
<1>5. OnFile(u)' = k
  BY <1>1, <1>2, <1>3, <1>4 DEF OnFile
<1>6. ASSUME NEW v \in Users, v # u PROVE OnFile(v)' = OnFile(v)
  <2>1. tenants'[v] = tenants[v] /\ tenants[v] # i
    BY <1>2, <1>3, <1>6
  <2>2. tenants[v] # None => creds'[tenants[v]] = creds[tenants[v]]
    BY <1>4, <2>1 DEF TypeOK
  <2>. QED
    BY <2>1, <2>2 DEF OnFile
<1>7. CallOf(q) = [op |-> "connect", user |-> u, token |-> k]
  BY <1>1 DEF CallOf
<1>8. Over(q)
  BY AnswersAreOver DEF Connected, Statuses
<1>9. D!Over(q)
  BY <1>8, CallIsOver, CallsAfter DEF D!Over
<1>10. D!AcceptedBy(q)
  <2>1. CallOf(q).user = u /\ CallOf(q).token = k
    BY <1>7
  <2>2. accepted' = [accepted EXCEPT ![u] = accepted[u] \cup {k}]
    BY <1>1
  <2>. QED
    BY <2>1, <2>2 DEF D!AcceptedBy
<1>11. [v \in Users |-> OnFile(v)]' = [[v \in Users |-> OnFile(v)] EXCEPT ![u] = k]
  BY <1>5, <1>6
<1>12. CallOf(q).op = "connect" /\ CallOf(q).user = u /\ CallOf(q).token = k
  BY <1>7
<1>. QED
  BY <1>9, <1>10, <1>11, <1>12 DEF D!Store

\* Canvas accepts a token that the tables do not hold yet.
LEMMA MapsToAccept ==
    ASSUME RequestsInv, NEW q \in Reqs, StoreInTables(q)
    PROVE  D!Accept(q)
<1>. USE DEF RequestsInv
<1>1. PICK seen \in Credential \cup {None}, stage \in {"inserting", "stored"} :
        req' = [req EXCEPT ![q] = [@ EXCEPT !.stage = stage, !.seen = seen]]
  <2>1. creds[req[q].tenant] \in Credential \cup {None}
    BY AcceptedGrows DEF StoreInTables, TypeOK
  <2>. QED
    BY <2>1 DEF StoreInTables
<1>2. /\ \A p \in Reqs \ {q} : req'[p] = req[p]
      /\ req'[q].stage = stage /\ req'[q].route = req[q].route
      /\ req'[q].user = req[q].user /\ req'[q].token = req[q].token
  BY <1>1, StoredFields DEF Stages
<1>3. req[q].stage = "resolved" /\ req[q].route = "connect"
  BY DEF StoreInTables, Accept
<1>4. \A p \in Reqs : CallOf(p)' = CallOf(p)
  <2>1. CallOf(q)' = CallOf(q)
    BY <1>2, <1>3, CallGoesOn DEF InFlight
  <2>. QED
    BY <1>2, <2>1, CallKept
<1>5. UNCHANGED [v \in Users |-> OnFile(v)]
  BY OnFileUnchanged DEF StoreInTables
<1>6. CallOf(q).op = "connect" /\ CallOf(q).user = req[q].user
      /\ CallOf(q).token = req[q].token
  BY <1>3 DEF CallOf
<1>7. D!AcceptedBy(q)
  BY <1>6 DEF D!AcceptedBy, StoreInTables, Accept
<1>. QED
  BY <1>4, <1>5, <1>6, <1>7 DEF D!Accept

\* A request is served with what is on file at that moment.
LEMMA MapsToRead ==
    ASSUME RequestsInv, NEW q \in Reqs, ReadToken(q), Readable(q)
    PROVE  D!Read(q)
<1>. USE DEF RequestsInv
<1>1. PICK u \in Users, i \in TenantIds : u = req[q].user /\ i = req[q].tenant
  BY DEF ReadToken, ShapeInv, InFlight
<1>2. i # None /\ creds[i] # None /\ tenants[u] = i
  <2>1. i # None /\ creds[i] # None
    BY <1>1, RequestsAssumption DEF Readable
  <2>2. PICK v \in Users : tenants[v] = i
    BY <2>1 DEF TenantsInv
  <2>. QED
    BY <1>1, <2>1, <2>2 DEF TenantsInv
<1>3. PICK k \in Tokens : k = creds[i].token
  BY <1>1, ReadableIsOwn DEF ReadToken
<1>4. OnFile(u) = k /\ k # None
  BY <1>2, <1>3, RequestsAssumption DEF OnFile
<1>5. req' = [req EXCEPT ![q] = [@ EXCEPT !.stage = "served", !.token = k]]
  BY <1>1, <1>3 DEF ReadToken
<1>6. /\ \A p \in Reqs \ {q} : req'[p] = req[p]
      /\ req'[q].stage = "served" /\ req'[q].token = k /\ req'[q].user = u
  BY <1>1, <1>5, ServedFields
<1>7. req[q].route = "use"
  BY DEF ReadToken, TypeOK, Request, Routes
<1>8. CallOf(q).op = "use" /\ CallOf(q).user = u
  BY <1>1, <1>7 DEF CallOf, ReadToken
<1>9. CallOf(q)' = [op |-> "served", user |-> u, token |-> k]
  BY <1>6 DEF CallOf
<1>10. D!Call(q, "served", u, k)
  BY <1>6, <1>9, CallKept, CallsAfter DEF D!Call
<1>11. UNCHANGED <<[v \in Users |-> OnFile(v)], accepted>>
  BY OnFileUnchanged DEF ReadToken, data, history
<1>. QED
  BY <1>4, <1>8, <1>10, <1>11 DEF D!Read

\* Nothing happens for the users while a tenant is looked up or inserted, or the
\* credential row is; or the call ends.
LEMMA QuietSteps ==
    ASSUME RequestsInv, NEW q \in Reqs,
           \/ Authenticate(q) \/ ResolveInMemory(q) \/ Lookup(q)
           \/ InsertTenant(q) \/ InsertCredential(q)
    PROVE  D!End(q) \/ UNCHANGED D!vars
<1>. USE DEF RequestsInv
<1>0. req[q].route \in Routes /\ InFlight(q) /\ req[q].stage # "served" /\ UNCHANGED accepted
  BY DEF Authenticate, ResolveInMemory, Lookup, InsertTenant, InsertCredential, InFlight,
         TypeOK, Request, history
<1>1. \A u \in Users : OnFile(u)' = OnFile(u)
  <2>1. CASE UNCHANGED <<tenants, creds>>
    BY <2>1, OnFileUnchanged
  <2>2. CASE ResolveInMemory(q) /\ tenants[req[q].user] = None
    <3>1. PICK u \in Users, i \in FreshTenants :
            u = req[q].user /\ tenants' = [tenants EXCEPT ![u] = i]
      BY <2>2 DEF ResolveInMemory, ShapeInv, InFlight
    <3>2. i \in TenantIds /\ creds[i] = None
      BY <3>1, FreshTenantsAreFree DEF TenantsInv
    <3>. QED
      BY <2>2, <3>1, <3>2, OnFileWithTenant DEF ResolveInMemory
  <2>. QED
    BY <2>1, <2>2
    DEF Authenticate, ResolveInMemory, Lookup, InsertTenant, InsertCredential, data
<1>2. CASE Over(q)
  BY <1>0, <1>1, <1>2, MapsToEnd
<1>3. ASSUME NEW stage \in {"known", "missing", "stored"},
             req' = [req EXCEPT ![q].stage = stage]
      PROVE  UNCHANGED D!vars
  <2>1. /\ \A p \in Reqs \ {q} : req'[p] = req[p]
        /\ req'[q].stage = stage /\ req'[q].route = req[q].route
        /\ req'[q].user = req[q].user /\ req'[q].token = req[q].token
    BY <1>3, StageFields DEF Stages
  <2>. QED
    BY <1>0, <1>1, <2>1, MapsToNothing DEF InFlight
<1>4. ASSUME NEW i \in TenantIds, NEW own \in BOOLEAN, Resolved(q, i, own)
      PROVE  UNCHANGED D!vars
  <2>1. /\ \A p \in Reqs \ {q} : req'[p] = req[p]
        /\ req'[q].stage = "resolved" /\ req'[q].route = req[q].route
        /\ req'[q].user = req[q].user /\ req'[q].token = req[q].token
    BY <1>4, ResolvedFields
  <2>. QED
    BY <1>0, <1>1, <2>1, MapsToNothing DEF InFlight
<1>5. CASE Authenticate(q)
  BY <1>2, <1>3, <1>5, AnswersAreOver DEF Authenticate, Statuses, Ids
<1>6. tenants[req[q].user] \in TenantIds \cup {None}
  BY <1>0 DEF ShapeInv, TypeOK
<1>7. CASE ResolveInMemory(q)
  BY <1>4, <1>6, <1>7, FreshTenantsAreFree DEF ResolveInMemory
<1>8. CASE Lookup(q)
  BY <1>3, <1>4, <1>6, <1>8 DEF Lookup
<1>9. CASE InsertTenant(q)
  BY <1>2, <1>4, <1>9, FreshTenantsAreFree, AnswersAreOver DEF InsertTenant, Statuses, Ids
<1>10. CASE InsertCredential(q)
  BY <1>2, <1>3, <1>10, AnswersAreOver DEF InsertCredential, Statuses, Ids
<1>. QED
  BY <1>5, <1>7, <1>8, <1>9, <1>10

\* An answer without a store, or a failure.
LEMMA EndingSteps ==
    ASSUME RequestsInv, NEW q \in Reqs,
           \/ Refused(q) \/ Serve(q) \/ DatabaseError(q)
           \/ ReadToken(q) /\ ~Readable(q)
    PROVE  D!End(q)
<1>. USE DEF RequestsInv
<1>0. req[q].route \in Routes /\ InFlight(q) /\ UNCHANGED accepted
  BY DEF Refused, Serve, DatabaseError, ReadToken, InFlight, TypeOK, Request, history
<1>1. Over(q)
  BY AnswersAreOver DEF Refused, Serve, DatabaseError, ReadToken, Statuses, Ids
<1>2. \A u \in Users : OnFile(u)' = OnFile(u)
  <2>1. (Keep(q) \/ UNCHANGED tenants) /\ UNCHANGED creds
    BY DEF Refused, Serve, DatabaseError, ReadToken, data
  <2>. QED
    BY <1>0, <2>1, OnFileKept, OnFileUnchanged
<1>. QED
  BY <1>0, <1>1, <1>2, MapsToEnd

\* A restart drops the calls, and what was in memory.
LEMMA MapsToRestart ==
    ASSUME RequestsInv, Restart
    PROVE  D!Restart
<1>1. Idle.stage \in {"idle", "answered"} /\ Idle.token = None
  BY EndedType DEF Idle, Statuses, Ids
<1>2. \/ UNCHANGED <<tenants, creds, accepted>>
      \/ /\ tenants' = [u \in Users |-> None]
         /\ accepted' = [u \in Users |-> {}]
  BY DEF Restart
<1>3. \/ /\ [u \in Users |-> OnFile(u)]' = [u \in Users |-> OnFile(u)]
         /\ UNCHANGED accepted
      \/ /\ [u \in Users |-> OnFile(u)]' = [u \in Users |-> None]
         /\ accepted' = [u \in Users |-> {}]
  BY <1>2, OnFileUnchanged DEF OnFile
<1>4. \A q \in Reqs : CallOf(q)' = D!NoCall
  BY <1>1 DEF Restart, CallOf, D!NoCall
<1>. QED
  BY <1>3, <1>4 DEF D!Restart

LEMMA StepMapsToDirectory ==
    ASSUME RequestsInv, [Next]_vars
    PROVE  [D!Next]_(D!vars)
<1>1. CASE UNCHANGED vars
  BY <1>1, OnFileUnchanged, CallKept, MapsToStutter DEF vars, data, history
<1>2. CASE Restart
  BY <1>2, MapsToRestart DEF D!Next
<1>3. ASSUME NEW q \in Reqs, Receive(q) PROVE D!Next
  BY <1>3, MapsToBegin DEF D!Next
<1>4. ASSUME NEW q \in Reqs, StoreInMemory(q) PROVE D!Next
  <2>1. /\ Encrypted(q) \in Credential /\ Encrypted(q).token = req[q].token
    BY <1>4, AcceptedGrows, EncryptedType DEF StoreInMemory, RequestsInv
  <2>2. Keep(q)
    BY <1>4 DEF StoreInMemory, Keep, RequestsInv, ShapeInv
  <2>. QED
    BY <1>4, <2>1, <2>2, MapsToStore DEF StoreInMemory, Accept, D!Next
<1>5. ASSUME NEW q \in Reqs, Commit(q) PROVE D!Next
  <2>2. req[q].route = "connect" /\ req[q].token \in accepted[req[q].user]
        /\ req[q].user \in Users /\ req[q].token \in Tokens
    BY <1>5 DEF Commit, RequestsInv, ShapeInv, TokensInv, InFlight, Connecting
  <2>1. Encrypted(q) \in Credential /\ Encrypted(q).token = req[q].token
    BY <2>2, EncryptedType DEF RequestsInv
  <2>3. accepted' = [accepted EXCEPT ![req[q].user] = @ \cup {req[q].token}]
    <3>1. PICK u \in Users, k \in Tokens :
          u = req[q].user /\ k = req[q].token /\ k \in accepted[u]
      BY <2>2 DEF RequestsInv, TypeOK
    <3>. QED
      BY <1>5, <3>1 DEF Commit, RequestsInv, TypeOK
  <2>. QED
    BY <1>5, <2>1, <2>2, <2>3, MapsToStore DEF Commit, D!Next
<1>6. ASSUME NEW q \in Reqs, StoreInTables(q) PROVE D!Next
  BY <1>6, MapsToAccept DEF D!Next
<1>7. ASSUME NEW q \in Reqs, ReadToken(q) PROVE D!Next
  BY <1>7, MapsToRead, EndingSteps DEF D!Next
<1>8. ASSUME NEW q \in Reqs, Refused(q) \/ Serve(q) \/ DatabaseError(q) PROVE D!Next
  BY <1>8, EndingSteps DEF D!Next
<1>9. ASSUME NEW q \in Reqs, \/ Authenticate(q) \/ ResolveInMemory(q) \/ Lookup(q)
                             \/ InsertTenant(q) \/ InsertCredential(q)
      PROVE  [D!Next]_(D!vars)
  BY <1>9, QuietSteps DEF D!Next
<1>. QED
  BY <1>1, <1>2, <1>3, <1>4, <1>5, <1>6, <1>7, <1>8, <1>9 DEF Next, Step

\* Whatever overlaps, fails or restarts, in memory and in the tables, the
\* credential store is one register per user: a connect takes effect at once, when
\* it is answered, or not at all, and a request gets the token of that moment.
THEOREM RequestsImplementDirectory == Spec => ImplementsDirectory
<1>1. Init => D!Init
  <2>1. Idle.stage \in {"idle", "answered"} /\ Idle.token = None
    BY EndedType DEF Idle, Statuses, Ids
  <2>. QED
    BY <2>1 DEF Init, D!Init, OnFile, CallOf, D!NoCall
<1>2. RequestsInv /\ [Next]_vars => [D!Next]_(D!vars)
  BY StepMapsToDirectory
<1>. QED
  BY <1>1, <1>2, Invariance, PTL DEF Spec, ImplementsDirectory, D!Spec
-----------------------------------------------------------------------------
(* Progress.                                                               *)

\* A request that goes from stage a to stage b of the list has advanced.
LEMMA RanksFollow ==
    ASSUME NEW a, NEW b,
           <<a, b>> \in {<<"received", "known">>, <<"known", "missing">>, <<"known", "resolved">>,
                        <<"missing", "resolved">>, <<"resolved", "inserting">>,
                        <<"resolved", "stored">>, <<"resolved", "served">>,
                        <<"inserting", "stored">>}
    PROVE  Rank(b) > Rank(a)
BY DEF Rank

\* A request under way goes on to a later stage for the same user, or is over:
\* with OnlyTheLoopDeadlocks and the fairness of FairSpec this is why every
\* request is answered unless the loop stalls.
THEOREM RequestsOnlyAdvance == Spec => RequestsAdvance
<1>. DEFINE Same(q) == /\ req'[q].user = req[q].user /\ req'[q].key = req[q].key
                       /\ req[q].tenant \in {None, req'[q].tenant}
            Advances(q) ==
              req[q].stage \notin {"idle", "answered"} /\ req'[q] # req[q] =>
                \/ req'[q].stage \in {"idle", "answered"}
                \/ /\ Rank(req'[q].stage) > Rank(req[q].stage)
                   /\ req'[q].user = req[q].user /\ req'[q].key = req[q].key
                   /\ req[q].tenant \in {None, req'[q].tenant}
<1>1. ASSUME RequestsInv, Next, NEW q \in Reqs, InFlight(q), req'[q] # req[q],
             req'[q].stage \notin {"idle", "answered"}
      PROVE  Rank(req'[q].stage) > Rank(req[q].stage) /\ Same(q)
  <2>1. TypeOK /\ req[q] \in Request
    BY <1>1 DEF RequestsInv, TypeOK
  <2>2. ~Over(q)
    BY <1>1, <2>1, OverFields
  <2>3. ASSUME NEW stage \in Stages, req' = [req EXCEPT ![q].stage = stage]
        PROVE  req'[q].stage = stage /\ Same(q)
    BY <2>1, <2>3 DEF TypeOK, Request
  <2>4. CASE Authenticate(q)
    <3>1. req' = [req EXCEPT ![q].stage = "known"] /\ req[q].stage = "received"
      BY <2>2, <2>4, AnswersAreOver DEF Authenticate, Statuses, Ids
    <3>. QED
      BY <2>3, <3>1, RanksFollow DEF Stages
  <2>5. ASSUME NEW i \in TenantIds, NEW own \in BOOLEAN, Resolved(q, i, own),
               req[q].stage \in {"known", "missing"}
        PROVE  Rank(req'[q].stage) > Rank(req[q].stage) /\ Same(q)
    <3>1. req[q].tenant = None
      BY <1>1, <2>5 DEF RequestsInv, ShapeInv, InFlight
    <3>2. req'[q].stage = "resolved" /\ req'[q].user = req[q].user /\ req'[q].key = req[q].key
      BY <2>1, <2>5 DEF Resolved, TypeOK, Request
    <3>. QED
      BY <2>5, <3>1, <3>2, RanksFollow
  <2>6. CASE ResolveInMemory(q) \/ Lookup(q) \/ InsertTenant(q)
    <3>1. CASE req' = [req EXCEPT ![q].stage = "missing"] /\ req[q].stage = "known"
      BY <2>3, <3>1, RanksFollow DEF Stages
    <3>2. req[q].user \in Users /\ req[q].stage \in {"known", "missing"}
      BY <1>1, <2>6 DEF RequestsInv, ShapeInv, InFlight, ResolveInMemory, Lookup, InsertTenant
    <3>3. CASE \E i \in FreshTenants, own \in BOOLEAN : Resolved(q, i, own)
      BY <2>5, <3>2, <3>3, FreshTenantsAreFree
    <3>4. CASE tenants[req[q].user] # None /\ Resolved(q, tenants[req[q].user], FALSE)
      <4>1. tenants[req[q].user] \in TenantIds
        BY <2>1, <3>2, <3>4 DEF TypeOK
      <4>. QED
        BY <2>5, <3>2, <3>4, <4>1
    <3>5. \/ ResolveInMemory(q) \/ Lookup(q)
          \/ \E i \in FreshTenants : Resolved(q, i, TRUE)
      BY <2>2, <2>6, AnswersAreOver DEF InsertTenant, Statuses, Ids
    <3>. QED
      BY <3>1, <3>3, <3>4, <3>5 DEF ResolveInMemory, Lookup
  <2>7. CASE StoreInTables(q)
    <3>1. PICK stage \in {"inserting", "stored"}, seen \in Credential \cup {None} :
            req' = [req EXCEPT ![q] = [@ EXCEPT !.stage = stage, !.seen = seen]]
      <4>1. creds[req[q].tenant] \in Credential \cup {None}
        BY <1>1, <2>7 DEF StoreInTables, Accept, RequestsInv, ShapeInv, InFlight, TypeOK
      <4>. QED
        BY <2>7, <4>1 DEF StoreInTables
    <3>2. req'[q].stage = stage /\ Same(q)
      BY <2>1, <3>1 DEF TypeOK, Request
    <3>. QED
      BY <2>7, <3>2, RanksFollow DEF StoreInTables, Accept
  <2>8. CASE InsertCredential(q)
    <3>1. req' = [req EXCEPT ![q].stage = "stored"] /\ req[q].stage = "inserting"
      BY <2>2, <2>8, AnswersAreOver DEF InsertCredential, Statuses, Ids
    <3>. QED
      BY <2>3, <3>1, RanksFollow DEF Stages
  <2>9. CASE ReadToken(q)
    <3>1. PICK k : req' = [req EXCEPT ![q] = [@ EXCEPT !.stage = "served", !.token = k]]
      BY <2>2, <2>9, AnswersAreOver DEF ReadToken, Statuses, Ids
    <3>2. req'[q].stage = "served" /\ Same(q)
      BY <2>1, <3>1 DEF TypeOK, Request
    <3>. QED
      BY <2>9, <3>2, RanksFollow DEF ReadToken
  <2>10. ~(Refused(q) \/ StoreInMemory(q) \/ Commit(q) \/ Serve(q) \/ DatabaseError(q))
    BY <2>2, AnswersAreOver DEF Refused, StoreInMemory, Commit, Connected, Serve, DatabaseError,
       Statuses, Ids
  <2>11. ~Receive(q)
    BY <1>1 DEF Receive, InFlight
  <2>12. ~Restart
    <3>1. Idle.stage \in {"idle", "answered"}
      BY EndedType DEF Idle, Statuses, Ids
    <3>. QED
      BY <1>1, <3>1 DEF Restart
  <2>13. ASSUME NEW p \in Reqs \ {q}, Receive(p) \/ Step(p) \/ DatabaseError(p)
         PROVE  FALSE
    <3>1. \E n : req' = [req EXCEPT ![p] = n]
      BY <2>13 DEF Receive, Step, DatabaseError, Authenticate, ResolveInMemory, Lookup, InsertTenant,
         Resolved, Refused, StoreInMemory, StoreInTables, InsertCredential, Commit, Connected,
         ReadToken, Serve, Answer, Raise, Unhandled
    <3>. QED
      BY <1>1, <2>1, <3>1 DEF TypeOK
  <2>. QED
    BY <1>1, <2>4, <2>6, <2>7, <2>8, <2>9, <2>10, <2>11, <2>12, <2>13 DEF Next, Step
<1>2. RequestsInv /\ [Next]_vars => [\A q \in Reqs : Advances(q)]_vars
  BY <1>1 DEF InFlight
<1>. QED
  BY <1>2, Invariance, PTL DEF Spec, RequestsAdvance
=============================================================================
