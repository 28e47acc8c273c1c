-------------------------------- MODULE Mirror --------------------------------
(***************************************************************************)
(* What synchronisation promises to the readers of the relational store    *)
(* (/query, the RAG routes): for each tenant a copy of the Canvas records  *)
(* that every run asks for.  It changes only in atomic refreshes, and it   *)
(* has a watermark below which it is complete and the status of the last   *)
(* run.  Nothing here speaks of transactions, locks, pages or requests.    *)
(***************************************************************************)
EXTENDS Naturals

CONSTANTS Tenants, Items, MaxClock

VARIABLES clock, canvas, rows, status, watermark, lastRun

vars == <<clock, canvas, rows, status, watermark, lastRun>>

Init ==
    /\ clock = 1
    /\ canvas = [t \in Tenants |-> [i \in Items |-> 1]]
    /\ rows = [t \in Tenants |-> [i \in Items |-> 0]]
    /\ status = [t \in Tenants |-> "absent"]
    /\ watermark = [t \in Tenants |-> 0]
    /\ lastRun = [t \in Tenants |-> 0]

\* A record changes in Canvas.
Edit(t, i) ==
    /\ clock < MaxClock
    /\ clock' = clock + 1
    /\ canvas' = [canvas EXCEPT ![t][i] = clock + 1]
    /\ UNCHANGED <<rows, status, watermark, lastRun>>

\* Time passes: what changes in Canvas is a record that is not copied reliably.
Tick ==
    /\ clock < MaxClock
    /\ clock' = clock + 1
    /\ UNCHANGED <<canvas, rows, status, watermark, lastRun>>

\* The copy becomes complete up to time w.  A record may come out newer than
\* w, but never older than it was.
Refresh(t, w) ==
    /\ w \in watermark[t] .. clock
    /\ \A i \in Items :
         /\ rows[t][i] <= rows'[t][i]
         /\ rows'[t][i] <= canvas[t][i]
         /\ canvas[t][i] <= w => rows'[t][i] = canvas[t][i]
    /\ \A u \in Tenants \ {t} : rows'[u] = rows[u]
    /\ status' = [status EXCEPT ![t] = "ok"]
    /\ watermark' = [watermark EXCEPT ![t] = w]
    /\ lastRun' = [lastRun EXCEPT ![t] = w]
    /\ UNCHANGED <<clock, canvas>>

\* A failed attempt is noted; the copy and the watermark stay.
NoteFailure(t, at) ==
    /\ at \in lastRun[t] .. clock
    /\ status' = [status EXCEPT ![t] = "failed"]
    /\ lastRun' = [lastRun EXCEPT ![t] = at]
    /\ UNCHANGED <<clock, canvas, rows, watermark>>

Next ==
    \/ Tick
    \/ \E t \in Tenants :
           \/ \E i \in Items : Edit(t, i)
           \/ \E w \in 0 .. clock : Refresh(t, w) \/ NoteFailure(t, w)

Spec == Init /\ [][Next]_vars
=============================================================================
