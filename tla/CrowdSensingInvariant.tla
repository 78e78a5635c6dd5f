------------------------- MODULE CrowdSensingInvariant -------------------------
(***************************************************************************)
(* Why the properties of CrowdSensing hold: the invariants that its steps  *)
(* preserve.  TLC checks them on small instances and CrowdSensingProofs    *)
(* proves them.                                                            *)
(***************************************************************************)
EXTENDS CrowdSensing

\* A page that waits for an Interest waits for one, and does not ask again.
OneWaiting ==
    \A c \in Clients : waiting[c] # {} =>
        isFinding[c] /\ \E r \in Requests : waiting[c] = {r}

\* The sessions of the server that were not answered yet.
Unanswered == {r \in m_hash_table : ~Edge!Answered(r)}

\* A session that is not answered is one whose Interest was delivered.
OnlyDelivered == \A r \in Unanswered : stage[r] = "open"

\* A request that is under way is one that its page waits for.
Awaited ==
    \A r \in Requests : stage[r] \in {"sent", "open"} =>
        \E c \in Clients : r \in waiting[c]

\* An Interest that was expressed is of a request that a page has made.
Expressed ==
    /\ stage \in [Requests -> Stages]
    /\ \A r \in Requests : stage[r] # "none" => asks[r] # NoTarget

\* The pages that wait are as many as the sessions at least.  A server that
\* undefined behaviour ended opens no session, whatever the pages go on to do.
SessionsInv ==
    /\ Edge!TypeOK
    /\ stage \in [Requests -> Stages]
    /\ OnlyDelivered
    /\ fault = "none" => Awaited
    /\ OpenSessionsBounded

\* With one page a session is opened when all those before it were answered.
\* In edge mode the server's counters then are those of one session.
EdgeInvariant == INSTANCE ProducerInvariant WITH Sessions <- Requests

OnePageInv ==
    m_edge_mode = "e" => EdgeInvariant!CountersOfOne /\ EdgeInvariant!EarlyHasAll
=============================================================================
