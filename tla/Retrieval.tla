----------------------------- MODULE Retrieval -----------------------------
(***************************************************************************)
(* The vector store (app/rag/vector_store.py), the documents it is fed     *)
(* (app/services/ingest_service.py) and the question that searches it      *)
(* (app/controllers/query.py, app/services/rag_service.py,                 *)
(* app/rag/router.py).                                                     *)
(*                                                                         *)
(* One process serves documents and questions. post_query and upsert never *)
(* give up the event loop, but the RAGService of a question is constructed *)
(* in a worker thread, and its probe of the provider sets a flag that all  *)
(* questions share. The provider can go down or come back between any two  *)
(* calls of it. A text stands for all HTML that sanitize_html turns into   *)
(* it.                                                                     *)
(***************************************************************************)
EXTENDS Naturals

CONSTANTS Tenants,      \* the tenants
          Assignments,  \* rows of assignments that are prepared for retrieval
          TenantOf,     \* the tenant_id of each of them
          Texts,        \* sanitised texts that are not blank
          Contents,     \* per assignment, the sets of texts it may hold
          Askers,       \* questions under way at once
          MaxRestarts,  \* bound: restarts of the process
          None

ASSUME RetrievalAssumption ==
    /\ TenantOf \in [Assignments -> Tenants]
    /\ Contents \in [Assignments -> SUBSET SUBSET Texts]
    /\ MaxRestarts \in Nat

\* A document is known by the tenant it is stored for and its content hash.
Keys == Tenants \X Texts

\* The four labels of ROUTES.
Routes == {"relational", "semantic", "hybrid", "unsupported"}

\* "probing": the provider answered the constructor's probe; "refreshed": the flag
\* is set again; "searching", "found": similarity_search before and after it looked
\* at the flag.
Phases == {"idle", "probing", "constructed", "refreshed", "searching", "found"}

\* probe: what the provider said in the worker thread; misled: history, another
\* request's probe has found the provider down since the route was chosen.
Question == [phase: Phases, probe: BOOLEAN, route: Routes, misled: BOOLEAN]

Idle == [phase |-> "idle", probe |-> FALSE, route |-> "unsupported", misled |-> FALSE]

\* Whose the answer is, its documents and whether the store was searched for it.
Answer ==
    [route: Routes, tenant: Tenants \cup {None}, evidence: SUBSET Keys,
     searched: BOOLEAN, misled: BOOLEAN]

\* A refusal, or an answer from the tables.
Unsearched(route) ==
    [route |-> route, tenant |-> None, evidence |-> {}, searched |-> FALSE, misled |-> FALSE]

VARIABLES
    content,    \* per assignment, the distinct texts of description and body
    up,         \* the embedding provider answers
    hashes,     \* _hashes, in process memory
    vectors,    \* how many rows PGVector holds of each document
    added,      \* how many of them this process has added
    health,     \* _last_health
    ask,        \* ask[q]: the handler of a question
    answer,     \* the last one given, until the next question is on the loop
    restarts,   \* restarts so far
    had,        \* history: texts each tenant's assignments ever held
    reported,   \* history: documents of upserts that returned to their caller
    failed      \* history: documents whose add_documents raised, not stored since

index  == <<hashes, vectors, added, reported, failed>>
asking == <<health, ask, answer>>
vars   == <<content, up, index, asking, restarts, had>>

Stored == {k \in Keys : vectors[k] > 0}

TypeOK ==
    /\ content \in [Assignments -> SUBSET Texts]
    /\ up \in BOOLEAN
    /\ hashes \subseteq Keys
    /\ vectors \in [Keys -> Nat]
    /\ added \in [Keys -> Nat]
    /\ health \in BOOLEAN
    /\ ask \in [Askers -> Question]
    /\ answer \in Answer
    /\ restarts \in 0 .. MaxRestarts
    /\ had \subseteq Keys
    /\ reported \subseteq Keys
    /\ failed \subseteq Keys

\* The documents of an assignment: one per source that is not blank.
Documents(a) == {TenantOf[a]} \X content[a]

Init ==
    /\ content \in {c \in [Assignments -> SUBSET Texts] :
                      \A a \in Assignments : c[a] \in Contents[a]}
    /\ up \in BOOLEAN
    /\ hashes = {}
    /\ vectors = [k \in Keys |-> 0]
    /\ added = [k \in Keys |-> 0]
    /\ health = FALSE
    /\ ask = [q \in Askers |-> Idle]
    /\ answer = Unsearched("unsupported")
    /\ restarts = 0
    /\ had = UNION {Documents(a) : a \in Assignments}
    /\ reported = {}
    /\ failed = {}

-----------------------------------------------------------------------------
(* The surroundings                                                        *)

\* A synchronisation changes the description or the submission of a.
Edit(a) ==
    \E X \in Contents[a] :
      /\ content' = [content EXCEPT ![a] = X]
      /\ had' = had \cup ({TenantOf[a]} \X X)
      /\ UNCHANGED <<up, index, asking, restarts>>

\* Ollama stops answering, or answers again.
ProviderChanges ==
    /\ up' = ~up
    /\ UNCHANGED <<content, index, asking, restarts, had>>

\* The process ends and starts again: PGVector keeps its rows, the hashes and
\* the health flag are gone and questions under way are not answered.
Restart ==
    /\ restarts < MaxRestarts
    /\ restarts' = restarts + 1
    /\ hashes' = {}
    /\ added' = [k \in Keys |-> 0]
    /\ health' = FALSE
    /\ ask' = [q \in Askers |-> Idle]
    /\ answer' = Unsearched("unsupported")
    /\ UNCHANGED <<content, up, vectors, had, reported, failed>>

-----------------------------------------------------------------------------
(* VectorStore.upsert                                                      *)

\* Mutant: the hash alone is looked up, without the tenant.
KnownToAnyone(k) == \E t \in Tenants : <<t, k[2]>> \in hashes

Known(k) == k \in hashes

\* The documents of the call that are not known yet.
Changed(docs) == {k \in docs : ~Known(k)}

\* Mutant: the hashes are not recorded.
RememberNothing(new) == hashes' = hashes

\* Their hashes are recorded while the list is walked, before it is stored.
Remember(new) == hashes' = hashes \cup new

\* Nothing changed: the store is not called.
IngestUnchanged(a) ==
    /\ Changed(Documents(a)) = {}
    /\ reported' = reported \cup Documents(a)
    /\ UNCHANGED <<content, up, hashes, vectors, added, failed, asking, restarts, had>>

\* One more of each new document.
OneMore(new, count) == [k \in Keys |-> IF k \in new THEN count[k] + 1 ELSE count[k]]

\* add_documents embeds and stores all of them.
IngestStored(a) ==
    LET new == Changed(Documents(a)) IN
    /\ new # {}
    /\ up
    /\ Remember(new)
    /\ vectors' = OneMore(new, vectors)
    /\ added' = OneMore(new, added)
    /\ reported' = reported \cup Documents(a)
    /\ failed' = failed \ new
    /\ UNCHANGED <<content, up, asking, restarts, had>>

\* add_documents raises, because the provider is down or the database fails;
\* it has stored none of them, and the caller sees the exception.
IngestFails(a) ==
    LET new == Changed(Documents(a)) IN
    /\ new # {}
    /\ Remember(new)
    /\ failed' = failed \cup new
    /\ UNCHANGED <<content, up, vectors, added, reported, asking, restarts, had>>

Ingest(a) == IngestUnchanged(a) \/ IngestStored(a) \/ IngestFails(a)

-----------------------------------------------------------------------------
(* POST /query                                                             *)

\* A question is on the event loop from its refresh to its answer: one at a time.
OnLoop(q) == ask[q].phase \in {"refreshed", "searching", "found"}

LoopFree == \A q \in Askers : ~OnLoop(q)

\* get_rag_service, in a worker thread: RAGService.__init__ asks the provider,
Ask(q) ==
    /\ ask[q].phase = "idle"
    /\ ask' = [ask EXCEPT ![q] = [Idle EXCEPT !.phase = "probing", !.probe = up]]
    /\ UNCHANGED <<content, up, index, health, answer, restarts, had>>

\* and sets the flag of the store, whoever is being answered meanwhile.
Construct(q) ==
    /\ ask[q].phase = "probing"
    /\ health' = ask[q].probe
    /\ ask' = [p \in Askers |->
          IF p = q THEN [Idle EXCEPT !.phase = "constructed"]
          ELSE [ask[p] EXCEPT !.misled =
                  @ \/ (~ask[q].probe /\ ask[p].phase \in {"searching", "found"})]]
    /\ UNCHANGED <<content, up, index, answer, restarts, had>>

\* post_query refreshes the flag: provider_health on the event loop.
Refresh(q) ==
    /\ ask[q].phase = "constructed"
    /\ LoopFree
    /\ health' = up
    /\ ask' = [ask EXCEPT ![q].phase = "refreshed"]
    /\ answer' = Unsearched("unsupported")
    /\ UNCHANGED <<content, up, index, restarts, had>>

\* A probe of a provider that is down can also raise what provider_health does
\* not catch; the request ends there with an error and no flag is set.
ProbeRaises(q) ==
    /\ \/ ask[q].phase = "probing" /\ ~ask[q].probe
       \/ ask[q].phase = "constructed" /\ LoopFree /\ ~up
    /\ ask' = [ask EXCEPT ![q] = Idle]
    /\ UNCHANGED <<content, up, index, health, answer, restarts, had>>

\* Mutant: the route is kept although there are no embeddings.
RouteUngated(asked) == asked

\* RAGRouter.route: the rules, or else the classifier, name the route asked
\* for; without embeddings a semantic question is not supported and a hybrid
\* one is answered from the tables alone. embedding_available is the flag as
\* provider_health reads it back, which is when the route is settled.
Route(asked) ==
    IF health THEN asked
    ELSE CASE asked = "semantic" -> "unsupported"
           [] asked = "hybrid"   -> "relational"
           [] OTHER              -> asked

\* Mutant: the filter has no tenant.
MatchesUnfiltered(t) == Stored

\* similarity_search adds the tenant to whatever filter it is given.
Matches(t) == {k \in Stored : k[1] = t}

\* Without vectors: a refusal, or rows of the tenant's tables.
AnswerFromTables(q) ==
    /\ ask[q].phase = "refreshed"
    /\ \E asked \in Routes :
        /\ Route(asked) \in {"unsupported", "relational"}
        /\ answer' = Unsearched(Route(asked))
    /\ ask' = [ask EXCEPT ![q] = Idle]
    /\ UNCHANGED <<content, up, index, health, restarts, had>>

\* With vectors: similarity_search is called.
TakeVectors(q) ==
    /\ ask[q].phase = "refreshed"
    /\ \E asked \in Routes :
        /\ Route(asked) \in {"semantic", "hybrid"}
        /\ ask' = [ask EXCEPT ![q] = [Idle EXCEPT !.phase = "searching", !.route = Route(asked)]]
    /\ UNCHANGED <<content, up, index, health, answer, restarts, had>>

\* A store that believes the provider down probes it again,
Look(q) ==
    /\ ask[q].phase = "searching"
    /\ health' = (health \/ up)
    /\ ask' = [ask EXCEPT ![q].phase = "found"]
    /\ UNCHANGED <<content, up, index, answer, restarts, had>>

\* and returns nothing if it is; otherwise it embeds the question and searches.
AnswerFromVectors(q) ==
    /\ ask[q].phase = "found"
    /\ health => up
    /\ \E t \in Tenants : \E found \in SUBSET Matches(t) :
        answer' = [route    |-> ask[q].route,
                   tenant   |-> t,
                   evidence |-> IF health THEN found ELSE {},
                   searched |-> health,
                   misled   |-> ask[q].misled]
    /\ ask' = [ask EXCEPT ![q] = Idle]
    /\ UNCHANGED <<content, up, index, health, restarts, had>>

\* The search raises, because the provider went down after the probe or the
\* database fails: rag_answer_failed.
AnswerFails(q) ==
    /\ ask[q].phase = "found"
    /\ health
    /\ ask' = [ask EXCEPT ![q] = Idle]
    /\ UNCHANGED <<content, up, index, health, answer, restarts, had>>

-----------------------------------------------------------------------------
Next ==
    \/ \E a \in Assignments : Edit(a) \/ Ingest(a)
    \/ ProviderChanges
    \/ Restart
    \/ \E q \in Askers :
        \/ Ask(q) \/ Construct(q) \/ Refresh(q) \/ ProbeRaises(q)
        \/ AnswerFromTables(q) \/ TakeVectors(q)
        \/ Look(q) \/ AnswerFromVectors(q) \/ AnswerFails(q)

Spec == Init /\ [][Next]_vars

-----------------------------------------------------------------------------
(* Properties                                                              *)

\* A document whose upsert returned is in PGVector, unless an earlier upsert
\* of the same text raised. In particular a text two tenants share is stored
\* for each of them, and an edit that is undone finds its old row.
ContentIsIndexed == reported \subseteq Stored \cup failed

\* A document whose indexing failed stays eligible for a retry: whenever upsert
\* returns for it, it is in PGVector.
FailedIsRetried == reported \subseteq Stored

\* In its life a process embeds and stores a tenant's text at most once, whatever
\* the order of edits, failures and repeated ingests. (A process that has replaced
\* another knows none of its hashes and adds a row to the one that is there.)
EmbeddedOncePerProcess == \A k \in Keys : added[k] <= 1

\* The evidence of an answer was in an assignment of the tenant that asked.
EvidenceIsOwn == \A k \in answer.evidence : k[1] = answer.tenant /\ k \in had

\* An answer that names a semantic or hybrid route was searched for in the store,
\* even when the provider fails between the probes and the search, unless another
\* request's constructor reported the provider down after the route was chosen:
\* the flag is the store's, and an empty result is then answered under that route.
ClaimsAreTrue ==
    answer.route \in {"semantic", "hybrid"} => answer.searched \/ answer.misled
=============================================================================
