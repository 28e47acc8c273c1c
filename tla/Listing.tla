------------------------------ MODULE Listing ------------------------------
(***************************************************************************)
(* One listing of Canvas: paginate of app/canvas/pagination.py on top of   *)
(* the retries of app/canvas/client.py.  Canvas serves a list in pages and *)
(* links each page to the next; it may answer with errors, with links that *)
(* lead anywhere, and with pages of a list that has changed meanwhile.     *)
(***************************************************************************)
EXTENDS Naturals, Sequences, FiniteSets, SequencesExt

CONSTANTS
    Items,        \* what lists are made of
    Contents,     \* the lists Canvas may hold when a listing begins
    PageSize,     \* per_page
    MaxAttempts,  \* attempts per request
    MaxPages,     \* passes of the loop of paginate before it gives up
    MaxChanges    \* bound: changes of the list during one listing

ASSUME ListingAssumption ==
    /\ Contents \subseteq Seq(Items)
    /\ PageSize \in Nat \ {0}
    /\ MaxAttempts \in Nat \ {0}
    /\ MaxPages \in Nat \ {0}
    /\ MaxChanges \in Nat

VARIABLES
    list,      \* what Canvas holds
    atStart,   \* history: what it held when the listing began
    changes,   \* history: changes since then
    removed,   \* history: whether something was removed
    wild,      \* whether its next links may lead to any page
    url,       \* next_url: the page the client asks for
    visited,   \* keys of the pages received so far
    passes,    \* iterations
    attempts,  \* failed attempts of the current request
    yielded,   \* the items handed to the pipeline
    outcome    \* "running", "complete", or why the listing was abandoned

canvas == <<list, atStart, changes, removed, wild>>

vars == <<canvas, url, visited, passes, attempts, yielded, outcome>>

\* A URL is its page parameter, 0 if it has none, and whether it carries the
\* per_page parameter of the first request.
Pages == 0..(MaxPages + 1)
Urls == [page : Pages, sized : BOOLEAN]

FirstUrl == [page |-> 0, sized |-> TRUE]

NoLink == [page |-> 0, sized |-> FALSE]

\* Mutant: the legacy key, which ignores the page parameter.
KeyWithoutPage(u) == [u EXCEPT !.page = 0]

\* _visited_key: the first page has the same key with and without page=1.
Key(u) == IF u.page = 1 THEN [u EXCEPT !.page = 0] ELSE u

Number(u) == IF u.page = 0 THEN 1 ELSE u.page

\* The items on the page that u names.
PageOf(u) ==
    LET first == (Number(u) - 1) * PageSize + 1
        last == Number(u) * PageSize
    IN SubSeq(list, first, IF last <= Len(list) THEN last ELSE Len(list))

\* The links Canvas may give with the page that u names: the next page if
\* there is one, keeping per_page; or, if it misbehaves, any.
LinksOf(u) ==
    IF wild THEN Urls
    ELSE IF Number(u) * PageSize < Len(list)
         THEN {[page |-> Number(u) + 1, sized |-> u.sized]}
         ELSE {NoLink}

Init ==
    /\ list \in Contents
    /\ atStart = list
    /\ changes = 0
    /\ removed = FALSE
    /\ wild \in BOOLEAN
    /\ url = FirstUrl
    /\ visited = {}
    /\ passes = 1
    /\ attempts = 0
    /\ yielded = <<>>
    /\ outcome = "running"

\* Mutant: the listing goes on from a page it has seen.
AdvanceRevisiting(link) ==
    IF link = NoLink
    THEN outcome' = "complete" /\ UNCHANGED <<url, passes, attempts>>
    ELSE IF passes = MaxPages
    THEN outcome' = "endless" /\ UNCHANGED <<url, passes, attempts>>
    ELSE url' = link /\ passes' = passes + 1 /\ attempts' = 0 /\ UNCHANGED outcome

\* Mutant: a page with an item that was seen before ends the listing.
AdvanceUntilSeen(link) ==
    IF link \in {NoLink, url} \/ Key(link) \in visited'
          \/ ToSet(PageOf(url)) \cap ToSet(yielded) # {}
    THEN outcome' = "complete" /\ UNCHANGED <<url, passes, attempts>>
    ELSE IF passes = MaxPages
    THEN outcome' = "endless" /\ UNCHANGED <<url, passes, attempts>>
    ELSE url' = link /\ passes' = passes + 1 /\ attempts' = 0 /\ UNCHANGED outcome

\* The head of the loop: without a link the listing is complete, the limit of
\* passes is an error, and a page already received ends it without one.
Advance(link) ==
    IF link \in {NoLink, url}
    THEN outcome' = "complete" /\ UNCHANGED <<url, passes, attempts>>
    ELSE IF passes = MaxPages
    THEN outcome' = "endless" /\ UNCHANGED <<url, passes, attempts>>
    ELSE IF Key(link) \in visited'
    THEN outcome' = "complete" /\ UNCHANGED <<url, passes, attempts>>
    ELSE url' = link /\ passes' = passes + 1 /\ attempts' = 0 /\ UNCHANGED outcome

\* The page arrives: its items are yielded and its link is followed.
Receive ==
    /\ outcome = "running"
    /\ yielded' = yielded \o PageOf(url)
    /\ visited' = visited \cup {Key(url)}
    /\ \E link \in LinksOf(url) : Advance(link)
    /\ UNCHANGED canvas

\* Mutant: the last attempt starts the count again.
UnavailableForEver ==
    /\ outcome = "running"
    /\ attempts' = (attempts + 1) % MaxAttempts
    /\ UNCHANGED <<canvas, url, visited, passes, yielded, outcome>>

\* A server error, a timeout or a broken connection: the request is retried,
\* the last attempt raises.
Unavailable ==
    /\ outcome = "running"
    /\ IF attempts + 1 < MaxAttempts
       THEN attempts' = attempts + 1 /\ UNCHANGED outcome
       ELSE outcome' = "canvas_unavailable" /\ UNCHANGED attempts
    /\ UNCHANGED <<canvas, url, visited, passes, yielded>>

\* A 4xx answer is not retried; neither is a body that is not a JSON list.
Rejected ==
    /\ outcome = "running"
    /\ outcome' \in {"rejected", "malformed"}
    /\ UNCHANGED <<canvas, url, visited, passes, attempts, yielded>>

Step == Receive \/ Unavailable \/ Rejected

\* The list at Canvas changes between two requests.
Changed == outcome = "running" /\ changes < MaxChanges /\ changes' = changes + 1

\* The items that are not there; one is as good as another.
Fresh == Items \ ToSet(list)

\* An item is added, anywhere in the list.
Added ==
    /\ Changed
    /\ Fresh # {}
    /\ \E i \in 1..(Len(list) + 1) : list' = InsertAt(list, i, CHOOSE x \in Fresh : TRUE)
    /\ UNCHANGED <<atStart, removed, wild, url, visited, passes, attempts, yielded, outcome>>

\* An item is removed.
Removed ==
    /\ Changed
    /\ \E i \in 1..Len(list) : list' = RemoveAt(list, i)
    /\ removed' = TRUE
    /\ UNCHANGED <<atStart, wild, url, visited, passes, attempts, yielded, outcome>>

Done == outcome # "running" /\ UNCHANGED vars

Next == Step \/ Added \/ Removed \/ Done

Spec == Init /\ [][Next]_vars

\* Every request is answered or times out.
FairSpec == Spec /\ WF_vars(Step)
-----------------------------------------------------------------------------
(* Properties.                                                             *)

\* Every variable keeps its type; no request is tried more than MaxAttempts
\* times.
TypeOK ==
    /\ list \in Seq(Items)
    /\ atStart \in Seq(Items)
    /\ changes \in 0..MaxChanges
    /\ removed \in BOOLEAN
    /\ wild \in BOOLEAN
    /\ url \in Urls
    /\ visited \subseteq Urls
    /\ passes \in 1..MaxPages
    /\ attempts \in 0..(MaxAttempts - 1)
    /\ yielded \in Seq(Items)
    /\ outcome \in {"running", "complete", "endless", "canvas_unavailable",
                    "rejected", "malformed"}

\* With sound links and a list that does not change, a listing that ends without
\* an error has yielded every item exactly once, in order; and until then a
\* prefix of the list, whatever was retried.
EveryItemOnce ==
    ~wild /\ changes = 0 => /\ IsPrefix(yielded, list)
                            /\ outcome = "complete" => yielded = list

\* While items are added during the listing, anywhere, but none is removed, a
\* listing that ends without an error has missed no item that was there from the
\* beginning, although pages shift under it. (It may see one twice.)
NothingSkipped ==
    ~wild /\ ~removed /\ outcome = "complete" => ToSet(atStart) \subseteq ToSet(yielded)

\* No page is received twice, wherever the links lead.
NoPageTwice ==
    outcome = "running" => Cardinality(visited) = passes - 1 /\ Key(url) \notin visited

\* Every listing ends, even if the links go round in circles and Canvas keeps
\* failing.
ListingEnds == <>(outcome # "running")

\* The attempts that are left: this page's, and those of the pages to come.
Left == (MaxPages - passes) * MaxAttempts + (MaxAttempts - attempts)

\* The variant behind ListingEnds: every answer of Canvas, or its absence, ends
\* the listing or uses up one of MaxPages * MaxAttempts attempts at the least,
\* and nothing gives an attempt back, whatever happens to the list.
AttemptsRunOut ==
    [][/\ Step => outcome' # "running" \/ Left' < Left
       /\ 0 < Left' /\ Left' <= Left]_vars
=============================================================================
