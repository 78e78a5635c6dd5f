----------------------------- MODULE CrowdSensing -----------------------------
(***************************************************************************)
(* The pages and the edge server together.  A request of a page (Client)   *)
(* is one Interest, which opens the session of the same identity at the    *)
(* edge server (Producer); the first Data packet put for the session       *)
(* answers the request.                                                    *)
(*                                                                         *)
(* The forwarder between them may lose an Interest or a Data packet.  It   *)
(* delivers or loses a packet well within the 30 s that a page's Interest  *)
(* lives, and a session is answered after 10 s at the latest, so a page    *)
(* only sees a timeout when a packet was lost or the server is down.  The  *)
(* pages ask different names: the forwarder merges none of their Interests.*)
(***************************************************************************)
EXTENDS Client, SequencesExt

CONSTANTS
    NoSession, MaxNames, Modes,     \* see Producer
    UsersReload                     \* whether users leave or reload a page

ASSUME SystemAssumption ==
    /\ IsFiniteSet(Clients)
    /\ MaxNames \in Nat \ {0}
    /\ Modes \subseteq {"e", "c"}
    /\ NoSession \notin Requests
    /\ UsersReload \in BOOLEAN

VARIABLES
    m_edge_mode, m_hash_table, buffer, content, timer,
    m_number_of_arrival_interest, m_issued_interest, asked, pending, call,
    sent, fault,                    \* see Producer
    stage                           \* how far each request has come

Edge == INSTANCE Producer WITH Sessions <- Requests

clientVars == vars
edgeVars == <<m_edge_mode, m_hash_table, buffer, content, timer,
              m_number_of_arrival_interest, m_issued_interest, asked, pending,
              call, sent, fault>>
allVars == <<clientVars, edgeVars, stage>>

\* "none": not expressed, "sent": Interest on its way, "lost": one of the two
\* packets is lost, "open": Interest delivered, "over": Data delivered.
Stages == {"none", "sent", "lost", "open", "over"}

-----------------------------------------------------------------------------
SystemInit ==
    /\ Init
    /\ Edge!Init
    /\ stage = [r \in Requests |-> "none"]

Move(r, from, to) == stage[r] = from /\ stage' = [stage EXCEPT ![r] = to]

UserActs(c) ==
    /\ \/ \E input \in Inputs : RegisterTarget(c, input[1], input[2])
       \/ UsersReload /\ Reload(c)
    /\ UNCHANGED <<edgeVars, stage>>

PageAsks(c, r) ==
    /\ SendRequest(c, r)
    /\ Move(r, "none", "sent")
    /\ UNCHANGED edgeVars

InterestArrives(r) ==
    /\ Move(r, "sent", "open")
    /\ \E n \in Edge!Names : Edge!OnInterest(r, n)
    /\ UNCHANGED <<clientVars, m_edge_mode>>

InterestLost(r) ==
    /\ Move(r, "sent", "lost")
    /\ UNCHANGED <<clientVars, edgeVars>>

EdgeWorks == Edge!Work /\ UNCHANGED <<clientVars, m_edge_mode, stage>>

\* What a page may get to parse: the results in the packet, in the order in which
\* they came.  All name the target of the request, and place j is where the j-th
\* re-invoked Interest asks.
Payloads(r) ==
    {[i \in DOMAIN places |->
         [target |-> asks[r], location |-> places[i], isFound |-> TRUE]] :
        places \in SetToSeqs(sent[r][1].content)}

DataArrives(c, r) ==
    /\ Move(r, "open", "over")
    /\ Edge!Answered(r)
    /\ \E payload \in Payloads(r) : OnData(c, r, payload)
    /\ UNCHANGED edgeVars

DataLost(r) ==
    /\ Move(r, "open", "lost")
    /\ Edge!Answered(r)
    /\ UNCHANGED <<clientVars, edgeVars>>

NothingComes(r) ==
    \/ stage[r] = "lost"
    \/ fault # "none" /\ stage[r] \in {"sent", "open"}

PageTimesOut(c, r) ==
    /\ NothingComes(r)
    /\ OnTimeout(c, r)
    /\ UNCHANGED <<edgeVars, stage>>

RequestMoves(r) ==
    \/ InterestArrives(r)
    \/ InterestLost(r)
    \/ \E c \in Clients : DataArrives(c, r)
    \/ DataLost(r)
    \/ \E c \in Clients : PageTimesOut(c, r)

SystemNext ==
    \/ \E c \in Clients : UserActs(c)
    \/ \E c \in Clients, r \in Requests : PageAsks(c, r)
    \/ \E r \in Requests : RequestMoves(r)
    \/ EdgeWorks

System == SystemInit /\ [][SystemNext]_allVars

\* Packets are delivered or lost, Interests expire, and the server runs.  No
\* user has to do anything.
SystemFairness ==
    /\ \A r \in Requests : WF_allVars(RequestMoves(r))
    /\ \A t \in Edge!Threads : WF_allVars(Edge!SendData(t) /\ EdgeWorks)
    /\ \A r \in Requests :
          /\ WF_allVars(Edge!OnResponse(r) /\ EdgeWorks)
          /\ WF_allVars(Edge!TimerExpires(r) /\ EdgeWorks)
          /\ WF_allVars(Edge!TimerCallback(r) /\ EdgeWorks)

FairSystem == System /\ SystemFairness

-----------------------------------------------------------------------------
(* Properties.                                                             *)

\* The edge server has at most one session per page that waits for results: a
\* page does not ask again while its session is open, since its 30 s are longer
\* than the server's 10 s.  This is all that bounds SessionManager's table.
OpenSessionsBounded ==
    Cardinality({r \in m_hash_table : ~Edge!Answered(r)}) <= Cardinality(Clients)

\* In edge mode, with one page that is not reloaded, an answer that does not wait
\* for the timer is complete: no other session resets or advances the counters.
EarlyAnswerComplete ==
    m_edge_mode = "e" => \A r \in Requests : \A i \in DOMAIN sent[r] :
        sent[r][i].by = "ndn" => sent[r][i].content = 1 .. asked[r]

\* A page is only jammed by an answer: one that the timer sent without any result,
\* that names a target the page does not list, or that has a place in no row of the
\* map.  Loss, a timeout, another session or the user never do it.
OnlyAnswersJam ==
    [][\A c \in Clients : ~Jammed(c) /\ Jammed(c)' =>
          \E r \in waiting[c] :
              /\ Edge!Answered(r)
              /\ \/ sent[r][1] = [by |-> "timer", content |-> {}]
                 \/ asks[r] \notin targetList[c]
                 \/ ~(sent[r][1].content \subseteq RowPlaces)]_allVars

\* The pages as their users see them.
Made == {r \in Requests : asks[r] # NoTarget}
MarkedCells == [c \in Clients |-> {p \in Cells : cellsArray[c][p] # 0}]
JammedPages == {c \in Clients : Jammed(c)}

Users == INSTANCE PageService WITH
    Pages <- Clients, Searches <- Requests, MaxPlaces <- MaxNames,
    made <- Made, underway <- waiting, marked <- MarkedCells, jammed <- JammedPages

\* Pages, network and server together implement PageService: a map only shows places
\* that the page's own search has asked for, although a page that was left or that
\* timed out leaves its session behind, the sessions share a thread and the counters,
\* and the timer answers while results come in.
ImplementsPages == Users!Spec

\* What a page asks for ends: with an answer, a timeout or a page that jams.
SearchEnds ==
    \A c \in Clients : waiting[c] # {} ~> waiting[c] = {}
=============================================================================
