------------------------------ MODULE Requests ------------------------------
(***************************************************************************)
(* Authenticated requests from receipt to answer: the correlation id of    *)
(* app/middleware/correlation_id.py, the dependency chain of               *)
(* app/core/deps.py, connect_canvas of app/controllers/auth.py and the     *)
(* error handlers of app/core/errors.py, over app/services/                *)
(* tenant_service.py.  What POST /query and POST /sync do with the token   *)
(* is Retrieval and ManualSync.                                            *)
(*                                                                         *)
(* One process, replaced by Restart.  Its event loop receives, runs        *)
(* connect_canvas and answers; the dependencies of the other routes run in *)
(* worker threads.  A database call of connect_canvas blocks the loop, so  *)
(* while its INSERT waits nobody is received or answered.                  *)
(***************************************************************************)
EXTENDS Naturals

CONSTANTS
    Users,      \* sub claims
    Reqs,       \* requests under way at once
    TenantIds,  \* the UUIDs that may be generated
    Tokens,     \* Canvas tokens, told apart by the connect that sends them
    Keys,       \* keys for Canvas tokens (TENANT_TOKEN_KEY, over time)
    None

\* A token and the key it is encrypted with. Its key_version is 1, whatever the
\* key: connect_canvas names none.
Credential == [token : Tokens, by : Keys]

ASSUME RequestsAssumption ==
    /\ None \notin TenantIds \cup Tokens \cup Credential \cup Keys
    /\ Keys # {}

VARIABLES
    store,     \* "memory": TenantService(); "tables": one with a session
    current,   \* the key of the current process
    tenants,   \* tenants[u]: the tenant of user u, None if there is none
    creds,     \* creds[i]: the credential of tenant i, None if there is none
    bound,     \* the key of the cipher in _ciphers, None if there is none
    req,       \* req[q]: the handler of request q
    accepted,  \* accepted[u]: tokens of u that Canvas accepted
    done,      \* done[u]: tokens of u whose connect was answered with 204
    stale,     \* stale[u]: tokens done before a later one of u was received
    live       \* the users connected by the current process

data == <<tenants, creds, bound>>

history == <<accepted, done, stale, live>>

vars == <<store, current, tenants, creds, bound, req, history>>

\* POST /auth/connect-canvas; POST /query or POST /sync.
Routes == {"connect", "use"}

\* Which id an answer carries: the one the middleware bound, one minted by
\* the controller, or one minted after the middleware was left.
Ids == {"bound", "minted", "late"}

\* 2xx; 403; any other.
Statuses == {"none", "ok", "forbidden", "failed"}

Stages == {"idle", "received", "known", "missing", "resolved", "inserting",
           "stored", "served", "answered"}

\* tenant: what require_tenant returned; adding: its row is inserted and not
\* committed; seen: the credential row loaded; token: the one sent or decrypted;
\* before, old: done and stale of the user on receipt.
Request ==
    [stage : Stages, route : Routes, user : Users \cup {None}, key : Keys,
     token : Tokens \cup {None}, tenant : TenantIds \cup {None}, adding : BOOLEAN,
     seen : Credential \cup {None}, before : SUBSET Tokens, old : SUBSET Tokens,
     status : Statuses,
     body : Ids \cup {None}, header : Ids \cup {None}]

Ended(status, body, header) ==
    [stage |-> IF status = "none" THEN "idle" ELSE "answered", route |-> "use",
     user |-> None, key |-> CHOOSE k \in Keys : TRUE, token |-> None,
     tenant |-> None, adding |-> FALSE, seen |-> None, before |-> {}, old |-> {},
     status |-> status, body |-> body, header |-> header]

Idle == Ended("none", None, None)

FirstOf(S) == IF S = {} THEN {} ELSE {CHOOSE x \in S : TRUE}

\* A UUID that is nobody's tenant: one rolled back or lost is as good as new.
FreshTenants ==
    FirstOf(TenantIds \ ({tenants[u] : u \in Users} \cup {req[p].tenant : p \in Reqs}))

FreshTokens ==
    FirstOf(Tokens \ ((UNION {accepted[u] : u \in Users}) \cup {req[p].token : p \in Reqs}))

Init ==
    /\ store \in {"memory", "tables"}
    /\ current \in Keys
    /\ tenants = [u \in Users |-> None]
    /\ creds = [i \in TenantIds |-> None]
    /\ bound = None
    /\ req = [q \in Reqs |-> Idle]
    /\ accepted = [u \in Users |-> {}]
    /\ done = [u \in Users |-> {}]
    /\ stale = [u \in Users |-> {}]
    /\ live = {}

-----------------------------------------------------------------------------
(* Waiting.                                                                *)

\* The INSERT of q waits for the transaction of p, which has inserted a row with
\* the same key (uq_tenants_backend_user_id, uq_canvas_credentials_tenant_id) and
\* is not over.
Waits(q, p) ==
    \/ /\ req[q].stage = "missing"
       /\ req[p].adding /\ req[p].user = req[q].user
    \/ /\ req[q].stage = "inserting"
       /\ req[p].stage = "stored" /\ req[p].seen = None
       /\ req[p].tenant = req[q].tenant

\* connect_canvas is between a SELECT and the return of the INSERT after it.
HoldsLoop(q) ==
    req[q].route = "connect" /\ req[q].stage \in {"missing", "inserting"}

\* Another request has the event loop.
LoopBusy(q) == \E p \in Reqs \ {q} : HoldsLoop(p)

-----------------------------------------------------------------------------
(* Receipt and answers.                                                    *)

\* The middleware binds an id of the request's own: the client's, if it is a
\* UUID v4, or a new one. A client that connects sends a token.
Receive(q) ==
    /\ req[q].stage \in {"idle", "answered"}
    /\ ~LoopBusy(q)
    /\ \E route \in Routes, u \in Users :
       \E k \in IF route = "connect" THEN FreshTokens ELSE {None} :
          req' = [req EXCEPT ![q] =
              [Idle EXCEPT !.stage = "received", !.route = route, !.user = u,
                           !.key = current, !.token = k,
                           !.before = done[u],
                           !.old = IF route = "connect" THEN {} ELSE stale[u]]]
    /\ UNCHANGED <<store, current, data, history>>

\* The middleware echoes the id it bound, whatever header the controller set.
Answer(q, status, body) ==
    /\ ~LoopBusy(q)
    /\ req' = [req EXCEPT ![q] = Ended(status, body, "bound")]

\* An HTTPException: http_exception_handler takes the id that is bound. The
\* session rolls back.
Raise(q, status) == Answer(q, status, "bound")

\* Any other exception: it leaves the middleware, which unbinds the id, before
\* unhandled_exception_handler answers with a new one in body and header.
Unhandled(q) ==
    /\ ~LoopBusy(q)
    /\ req' = [req EXCEPT ![q] = Ended("failed", "late", "late")]

\* A response is returned: the caller commits a tenant row of the session.
Keep(q) ==
    tenants' = IF req[q].adding THEN [tenants EXCEPT ![req[q].user] = req[q].tenant]
               ELSE tenants

-----------------------------------------------------------------------------
(* verify_backend_jwt and require_tenant.                                  *)

\* verify_backend_jwt_dependency: a sound token names the user; a missing,
\* forged or expired one is refused, as is a connect without a Canvas token.
Authenticate(q) ==
    /\ req[q].stage = "received"
    /\ \/ req' = [req EXCEPT ![q].stage = "known"]
       \/ Raise(q, "failed")
    /\ UNCHANGED <<store, current, data, history>>

Resolved(q, i, own) ==
    req' = [req EXCEPT ![q] = [@ EXCEPT !.stage = "resolved", !.tenant = i, !.adding = own]]

\* TenantService.get_or_create_tenant without a session, under its lock.
ResolveInMemory(q) ==
    /\ store = "memory"
    /\ req[q].stage = "known"
    /\ \/ /\ tenants[req[q].user] # None
          /\ Resolved(q, tenants[req[q].user], FALSE)
          /\ UNCHANGED tenants
       \/ /\ tenants[req[q].user] = None
          /\ \E i \in FreshTenants :
              /\ tenants' = [tenants EXCEPT ![req[q].user] = i]
              /\ Resolved(q, i, FALSE)
    /\ UNCHANGED <<store, current, creds, bound, history>>

\* TenantRepository.get_or_create_tenant: the SELECT, which does not see what
\* other transactions have not committed,
Lookup(q) ==
    /\ store = "tables"
    /\ req[q].stage = "known"
    /\ req[q].route = "connect" => ~LoopBusy(q)
    /\ IF tenants[req[q].user] # None
       THEN Resolved(q, tenants[req[q].user], FALSE)
       ELSE req' = [req EXCEPT ![q].stage = "missing"]
    /\ UNCHANGED <<store, current, data, history>>

\* Mutant: no unique constraint on backend_user_id.
InsertTenantUnchecked(q) ==
    /\ req[q].stage = "missing"
    /\ \E i \in FreshTenants : Resolved(q, i, TRUE)
    /\ UNCHANGED <<store, current, data, history>>

\* Mutant: an insertion waits for every request that is about to insert.
InsertTenantQueued(q) ==
    /\ req[q].stage = "missing"
    /\ \A p \in Reqs \ {q} :
        ~(req[p].user = req[q].user /\ (req[p].adding \/ req[p].stage = "missing"))
    /\ IF tenants[req[q].user] # None THEN Unhandled(q)
       ELSE \E i \in FreshTenants : Resolved(q, i, TRUE)
    /\ UNCHANGED <<store, current, data, history>>

\* and the INSERT, which waits for another transaction that inserts the user
\* and fails if that one has committed (uq_tenants_backend_user_id).
InsertTenant(q) ==
    /\ req[q].stage = "missing"
    /\ \A p \in Reqs : ~Waits(q, p)
    /\ \/ /\ tenants[req[q].user] # None
          /\ Unhandled(q)
       \/ /\ tenants[req[q].user] = None
          /\ \E i \in FreshTenants : Resolved(q, i, TRUE)
    /\ UNCHANGED <<store, current, data, history>>

-----------------------------------------------------------------------------
(* connect_canvas, after the tenant is known: it awaits Canvas.            *)

\* Canvas refuses the token or cannot be reached: a response of the
\* controller's own. A server error of Canvas is an HTTPException.
Refused(q) ==
    /\ req[q].stage = "resolved" /\ req[q].route = "connect"
    /\ \/ Answer(q, "failed", "minted") /\ Keep(q)
       \/ Raise(q, "failed") /\ UNCHANGED tenants
    /\ UNCHANGED <<store, current, creds, bound, history>>

Encrypted(q) == [token |-> req[q].token, by |-> req[q].key]

\* The connect of q is answered: what was done when it was received is
\* superseded.
Connected(q) ==
    LET u == req[q].user IN
    /\ Answer(q, "ok", None)
    /\ done' = [done EXCEPT ![u] = @ \cup {req[q].token}]
    /\ stale' = [stale EXCEPT ![u] = @ \cup req[q].before]
    /\ live' = live \cup {u}

Accept(q) ==
    /\ req[q].stage = "resolved" /\ req[q].route = "connect"
    /\ accepted' = [accepted EXCEPT ![req[q].user] = @ \cup {req[q].token}]

\* Mutant: the token is stored before Canvas is asked.
StoreInMemoryFirst(q) ==
    /\ store = "memory"
    /\ req[q].stage = "resolved" /\ req[q].route = "connect"
    /\ creds' = [creds EXCEPT ![req[q].tenant] = Encrypted(q)]
    /\ bound' = req[q].key
    /\ \/ Connected(q) /\ accepted' = [accepted EXCEPT ![req[q].user] = @ \cup {req[q].token}]
       \/ Answer(q, "failed", "minted") /\ UNCHANGED history
    /\ UNCHANGED <<store, current, tenants>>

\* Mutant: a credential that is there is left alone.
StoreInMemoryOnce(q) ==
    /\ store = "memory"
    /\ Accept(q)
    /\ creds' = IF creds[req[q].tenant] # None THEN creds
                ELSE [creds EXCEPT ![req[q].tenant] = Encrypted(q)]
    /\ bound' = req[q].key
    /\ Connected(q)
    /\ UNCHANGED <<store, current, tenants>>

\* Canvas accepts the token: TenantService.store_canvas_token without a session.
StoreInMemory(q) ==
    /\ store = "memory"
    /\ Accept(q)
    /\ creds' = [creds EXCEPT ![req[q].tenant] = Encrypted(q)]
    /\ bound' = req[q].key
    /\ Connected(q)
    /\ UNCHANGED <<store, current, tenants>>

\* Mutant: a cipher is entered for a new row only.
StoreInTablesUnbound(q) ==
    /\ store = "tables"
    /\ ~LoopBusy(q)
    /\ Accept(q)
    /\ req' = [req EXCEPT ![q] = [@ EXCEPT
          !.stage = IF creds[req[q].tenant] = None THEN "inserting" ELSE "stored",
          !.seen = creds[req[q].tenant]]]
    /\ UNCHANGED <<store, current, data, done, stale, live>>

\* TenantRepository.upsert_canvas_credential: the SELECT; a row that is there
\* is changed in the session only.
StoreInTables(q) ==
    /\ store = "tables"
    /\ ~LoopBusy(q)
    /\ Accept(q)
    /\ req' = [req EXCEPT ![q] = [@ EXCEPT
          !.stage = IF creds[req[q].tenant] = None THEN "inserting" ELSE "stored",
          !.seen = creds[req[q].tenant]]]
    /\ bound' = IF creds[req[q].tenant] = None THEN bound ELSE req[q].key
    /\ UNCHANGED <<store, current, tenants, creds, done, stale, live>>

\* The INSERT of the first credential, against uq_canvas_credentials_tenant_id.
InsertCredential(q) ==
    /\ req[q].stage = "inserting"
    /\ \A p \in Reqs : ~Waits(q, p)
    /\ \/ /\ creds[req[q].tenant] # None
          /\ Unhandled(q)
          /\ UNCHANGED bound
       \/ /\ creds[req[q].tenant] = None
          /\ req' = [req EXCEPT ![q].stage = "stored"]
          /\ bound' = req[q].key
    /\ UNCHANGED <<store, current, tenants, creds, history>>

\* The caller commits and answers.
Commit(q) ==
    /\ req[q].stage = "stored"
    /\ creds' = [creds EXCEPT ![req[q].tenant] = Encrypted(q)]
    /\ Keep(q)
    /\ Connected(q)
    /\ UNCHANGED <<store, current, bound, accepted>>

-----------------------------------------------------------------------------
(* require_tenant_token and the routes behind it.                          *)

\* TenantService.get_decrypted_canvas_token: there is a credential, and the
\* cipher that is bound decrypts it.
Readable(q) ==
    LET c == creds[req[q].tenant] IN c # None /\ c.by = bound

\* Without a token the request is forbidden; for POST /sync, _SyncRoute rewrites
\* the answer, with an id of its own.
ReadToken(q) ==
    /\ req[q].stage = "resolved" /\ req[q].route # "connect"
    /\ IF Readable(q)
       THEN req' = [req EXCEPT ![q] = [@ EXCEPT
                !.stage = "served", !.token = creds[req[q].tenant].token]]
       ELSE Raise(q, "forbidden") \/ Answer(q, "forbidden", "minted")
    /\ UNCHANGED <<store, current, data, history>>

\* post_query answers with the id that is bound, post_sync with one of its own.
Serve(q) ==
    /\ req[q].stage = "served"
    /\ \/ (\E id \in {"bound", "minted"} : Answer(q, "ok", id)) /\ Keep(q)
       \/ (Raise(q, "failed") \/ Unhandled(q)) /\ UNCHANGED tenants
    /\ UNCHANGED <<store, current, creds, bound, history>>

-----------------------------------------------------------------------------
(* Failures.                                                               *)

\* The database fails a statement or the commit; the session rolls back.
DatabaseError(q) ==
    /\ store = "tables"
    /\ req[q].stage \in {"known", "missing", "resolved", "inserting", "stored"}
    /\ Unhandled(q)
    /\ UNCHANGED <<store, current, data, history>>

\* The process is replaced by one that may encrypt with another key. What was
\* in memory is gone, the ciphers are, and the database rolls back.
Restart ==
    /\ current' \in Keys
    /\ req' = [q \in Reqs |-> Idle]
    /\ IF store = "memory"
       THEN /\ tenants' = [u \in Users |-> None]
            /\ creds' = [i \in TenantIds |-> None]
            /\ accepted' = [u \in Users |-> {}]
            /\ done' = [u \in Users |-> {}]
            /\ stale' = [u \in Users |-> {}]
       ELSE UNCHANGED <<tenants, creds, accepted, done, stale>>
    /\ bound' = None /\ live' = {}
    /\ UNCHANGED <<store>>

\* The steps of a request after its receipt.
Step(q) ==
    \/ Authenticate(q)
    \/ ResolveInMemory(q)
    \/ Lookup(q)
    \/ InsertTenant(q)
    \/ Refused(q)
    \/ StoreInMemory(q)
    \/ StoreInTables(q)
    \/ InsertCredential(q)
    \/ Commit(q)
    \/ ReadToken(q)
    \/ Serve(q)

Next ==
    \/ Restart
    \/ \E q \in Reqs : Receive(q) \/ Step(q) \/ DatabaseError(q)

Spec == Init /\ [][Next]_vars

\* Threads and tasks are resumed, Canvas answers or the probe times out after
\* eight seconds, and an INSERT that waits is woken when the other transaction
\* ends.
FairSpec == Spec /\ \A q \in Reqs : SF_vars(Step(q))
-----------------------------------------------------------------------------
(* Properties.                                                             *)

\* Every variable keeps its type.
TypeOK ==
    /\ store \in {"memory", "tables"}
    /\ current \in Keys
    /\ tenants \in [Users -> TenantIds \cup {None}]
    /\ creds \in [TenantIds -> Credential \cup {None}]
    /\ bound \in Keys \cup {None}
    /\ req \in [Reqs -> Request]
    /\ accepted \in [Users -> SUBSET Tokens]
    /\ done \in [Users -> SUBSET Tokens]
    /\ stale \in [Users -> SUBSET Tokens]
    /\ live \subseteq Users

\* A request is served with a token that its own user sent and Canvas
\* accepted, however connects of several users overlap.
TokenIsOwn ==
    \A q \in Reqs :
        req[q].stage = "served" => req[q].token \in accepted[req[q].user]

\* A token is superseded once a connect that was received after it had been
\* answered is itself answered: it is not stored any more, and no request
\* received later is served with it. (Of connects that overlap, either may win.)
SupersededStaysOut ==
    /\ \A u \in Users :
        tenants[u] # None => \/ creds[tenants[u]] = None
                            \/ creds[tenants[u]].token \notin stale[u]
    /\ \A q \in Reqs : req[q].stage = "served" => req[q].token \notin req[q].old

\* Once a connect of a user was answered with 204, no request of the user is
\* told that there are no credentials until the process is replaced, whoever
\* connects meanwhile and whatever key the rows are left from: the row is there,
\* with its tenant, and the one cipher that is bound reads it.
ConnectedIsNotForbidden ==
    [][\A q \in Reqs :
        req'[q].status = "forbidden" /\ req'[q] # req[q] => req[q].user \notin live]_vars

\* Two users never have one tenant, and the tenant a request works for is the one
\* its user has, or will have if its transaction commits, although threads and
\* transactions create tenants at once.
OneTenantPerUser ==
    /\ \A u, v \in Users : tenants[u] = tenants[v] /\ tenants[u] # None => u = v
    /\ \A q \in Reqs : req[q].tenant # None =>
            \/ tenants[req[q].user] = req[q].tenant
            \/ tenants[req[q].user] = None /\ req[q].adding

\* The id in the body of an answer is the one in its header, unless the
\* controller minted one.
IdsAgree ==
    \A q \in Reqs : req[q].body \in {None, "minted", req[q].header}

\* The token on file for a user, and the call that request q is to the directory.
OnFile(u) ==
    IF tenants[u] = None \/ creds[tenants[u]] = None THEN None
    ELSE creds[tenants[u]].token

CallOf(q) ==
    [op |-> IF req[q].stage \in {"idle", "answered"} THEN "none"
            ELSE IF req[q].stage = "served" THEN "served" ELSE req[q].route,
     user |-> IF req[q].stage \in {"idle", "answered"} THEN None ELSE req[q].user,
     token |-> req[q].token]

D == INSTANCE Directory WITH Clients <- Reqs,
                             token <- [u \in Users |-> OnFile(u)],
                             call <- [q \in Reqs |-> CallOf(q)]

\* To their users, tenants and credentials in two stores, with transactions that
\* fail, rows inserted at once, keys and restarts, are one register per user.
ImplementsDirectory == D!Spec

\* A connect has the event loop while its INSERT waits for a row: of a request
\* that this loop would have to answer first.
LoopStalled == \E q, p \in Reqs : HoldsLoop(q) /\ Waits(q, p)

\* q goes on only after p: it waits for a row of p, or p has the event loop.
NeedsEndOf(q, p) == Waits(q, p) \/ (p # q /\ HoldsLoop(p))

\* A transaction that others wait for waits for no row, and one connect at a
\* time has the loop. So unless the loop is stalled nobody waits in a circle:
\* whoever waits, waits for a request that waits for the loop at most, and who
\* has the loop waits for nobody. In memory it is never stalled.
OnlyTheLoopStalls ==
    /\ \A q, p, r \in Reqs : Waits(q, p) => ~Waits(p, r)
    /\ \A q, p \in Reqs : HoldsLoop(q) /\ HoldsLoop(p) => q = p
    /\ ~LoopStalled => \A q, p, r, s \in Reqs :
            NeedsEndOf(q, p) /\ NeedsEndOf(p, r) => ~NeedsEndOf(r, s)
    /\ LoopStalled => store = "tables"

\* The order of the stages of a request under way.
Rank(stage) ==
    CASE stage = "received" -> 1 [] stage = "known" -> 2 [] stage = "missing" -> 3
      [] stage = "resolved" -> 4 [] stage = "inserting" -> 5 [] stage = "stored" -> 6
      [] stage = "served" -> 7

\* The variant behind EveryRequestAnswered: a request under way is answered, is
\* dropped by a restart, or goes on to a later stage, for the user and with the
\* key it began with; none is retried from an earlier stage or for another user.
RequestsAdvance ==
    [][\A q \in Reqs :
         req[q].stage \notin {"idle", "answered"} /\ req'[q] # req[q] =>
           \/ req'[q].stage \in {"idle", "answered"}
           \/ /\ Rank(req'[q].stage) > Rank(req[q].stage)
              /\ req'[q].user = req[q].user /\ req'[q].key = req[q].key
              /\ req[q].tenant \in {None, req'[q].tenant}]_vars

\* Every request is answered, or dropped by a restart, although an INSERT may
\* wait for another request, or a connect has stalled the loop: its INSERT waits
\* for a first request of the same user, which waits for Canvas or its answer.
EveryRequestAnswered ==
    \A q \in Reqs :
        req[q].stage \notin {"idle", "answered"} ~>
            req[q].stage \in {"idle", "answered"} \/ LoopStalled
=============================================================================
