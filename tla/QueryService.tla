----------------------------- MODULE QueryService -----------------------------
(***************************************************************************)
(* What the edge server promises its clients, whatever its threads do: a   *)
(* query asks a number of places, results come in, and the client gets one *)
(* reply, which is made of results that this query received.  Some of them *)
(* may be missing from the reply.  The server may break down for good;     *)
(* while it runs, every query is replied to in the end.                    *)
(***************************************************************************)
EXTENDS Integers

CONSTANTS
    Queries,
    MaxPlaces

VARIABLES
    asked,      \* the number of places a query asks, 0 before it is made
    results,    \* the places whose result the query has received
    reply,      \* the replies to a query, each the set of results it carries
    down        \* the server has broken down

vars == <<asked, results, reply, down>>

Places == 1 .. MaxPlaces

Init ==
    /\ asked   = [q \in Queries |-> 0]
    /\ results = [q \in Queries |-> {}]
    /\ reply   = [q \in Queries |-> {}]
    /\ down = FALSE

Ask(q, n) ==
    /\ asked[q] = 0
    /\ asked' = [asked EXCEPT ![q] = n]
    /\ UNCHANGED <<results, reply>>

Collect(q, p) ==
    /\ p \in 1 .. asked[q]
    /\ p \notin results[q]
    /\ results' = [results EXCEPT ![q] = @ \cup {p}]
    /\ UNCHANGED <<asked, reply>>

Reply(q) ==
    /\ asked[q] > 0
    /\ reply[q] = {}
    /\ \E r \in SUBSET results[q] : reply' = [reply EXCEPT ![q] = {r}]
    /\ UNCHANGED <<asked, results>>

\* Work the client does not see.
Inner == UNCHANGED <<asked, results, reply>>

\* A server that breaks down does so in the middle of a step.
Next ==
    /\ ~down
    /\ down' \in BOOLEAN
    /\ \/ \E q \in Queries :
             \/ \E n \in Places : Ask(q, n)
             \/ \E p \in Places : Collect(q, p)
             \/ Reply(q)
       \/ Inner

Spec == Init /\ [][Next]_vars

\* Liveness: every query is replied to, unless the server breaks down.
Replies == \A q \in Queries : asked[q] > 0 ~> (reply[q] # {} \/ down)
=============================================================================
