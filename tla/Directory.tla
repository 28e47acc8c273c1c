------------------------------ MODULE Directory ------------------------------
(***************************************************************************)
(* What the credential store promises to those who call it: it behaves     *)
(* like one register per user.  A connect takes effect at one instant, the *)
(* one at which it is answered, or not at all, and a use is served with    *)
(* the token that is on file at one instant of its own.  Nothing here      *)
(* speaks of tenants, rows, transactions, keys or processes.               *)
(***************************************************************************)
CONSTANTS Users, Tokens, Clients, None

VARIABLES
    token,     \* token[u]: the token on file for u, None if there is none
    accepted,  \* accepted[u]: the tokens of u that Canvas has accepted
    call       \* call[c]: the call that client c waits for

vars == <<token, accepted, call>>

NoCall == [op |-> "none", user |-> None, token |-> None]

Init ==
    /\ token = [u \in Users |-> None]
    /\ accepted = [u \in Users |-> {}]
    /\ call = [c \in Clients |-> NoCall]

Call(c, op, u, k) == call' = [call EXCEPT ![c] = [op |-> op, user |-> u, token |-> k]]

Over(c) == call' = [call EXCEPT ![c] = NoCall]

\* A user asks for something that needs the token.
BeginUse(c, u) ==
    /\ call[c].op = "none"
    /\ Call(c, "use", u, None)
    /\ UNCHANGED <<token, accepted>>

\* A user connects with a token that nobody has used before.
BeginConnect(c, u, k) ==
    /\ call[c].op = "none"
    /\ \A v \in Users : k \notin accepted[v]
    /\ \A d \in Clients : call[d].token # k
    /\ Call(c, "connect", u, k)
    /\ UNCHANGED <<token, accepted>>

AcceptedBy(c) ==
    accepted' = [accepted EXCEPT ![call[c].user] = @ \cup {call[c].token}]

\* Canvas accepts the token of a connect; it is not on file yet.
Accept(c) ==
    /\ call[c].op = "connect"
    /\ AcceptedBy(c)
    /\ UNCHANGED <<token, call>>

\* A connect whose token is accepted takes effect and is answered.
Store(c) ==
    /\ call[c].op = "connect"
    /\ AcceptedBy(c)
    /\ token' = [token EXCEPT ![call[c].user] = call[c].token]
    /\ Over(c)

\* A use gets the token on file; from here on the caller works with it.
Read(c) ==
    /\ call[c].op = "use"
    /\ token[call[c].user] # None
    /\ Call(c, "served", call[c].user, token[call[c].user])
    /\ UNCHANGED <<token, accepted>>

\* A call is answered, or fails: it leaves no trace.
End(c) ==
    /\ call[c].op # "none"
    /\ Over(c)
    /\ UNCHANGED <<token, accepted>>

\* All calls are dropped. A store in memory forgets everything as well.
Restart ==
    /\ call' = [c \in Clients |-> NoCall]
    /\ \/ UNCHANGED <<token, accepted>>
       \/ /\ token' = [u \in Users |-> None]
          /\ accepted' = [u \in Users |-> {}]

Next ==
    \/ Restart
    \/ \E c \in Clients :
        \/ \E u \in Users : BeginUse(c, u) \/ \E k \in Tokens : BeginConnect(c, u, k)
        \/ Accept(c) \/ Store(c) \/ Read(c) \/ End(c)

Spec == Init /\ [][Next]_vars
=============================================================================
