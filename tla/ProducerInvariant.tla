-------------------------- MODULE ProducerInvariant --------------------------
(***************************************************************************)
(* Why the properties of Producer hold: the invariants that its steps      *)
(* preserve, in the order in which they rest on each other.  TLC checks    *)
(* them on small instances and ProducerProofs proves them.                 *)
(***************************************************************************)
EXTENDS Producer, FiniteSets

\* Thread t is at one of these steps of send_data for session s.
InCall(t, s, steps) == call[t].session = s /\ call[t].step \in steps

AnsweredBy(t, s) == \E i \in DOMAIN sent[s] : sent[s][i].by = t

Sending == {"packet", "copy", "put"}   \* found the session, sent nothing yet
Leaving == {"dump", "erase"}           \* sent, but did not erase

\* Nothing happens to a session that was not opened.
OnlyOpened == \A s \in Sessions :
    /\ pending[s] \subseteq 1 .. asked[s]
    /\ timer[s] # "none" => asked[s] > 0
    /\ Answered(s) => asked[s] > 0
    /\ \A t \in Threads : call[t].session = s => asked[s] > 0

\* Results only move from the Interests to the buffer, to the packet and out.
ResultsBelong ==
    /\ \A s \in Sessions :
          /\ buffer[s] \subseteq (1 .. asked[s]) \ pending[s]
          /\ content[s] \subseteq buffer[s]
    /\ AnswersBelong

\* Who erases a session has answered it.
ErasedIsAnswered ==
    /\ \A s \in Sessions : \A t \in Threads : InCall(t, s, Leaving) => Answered(s)
    /\ NoSilentDrop

\* The ndn thread works for a session that has a result, or that is gone.
EarlyHasResult ==
    /\ \A s \in Sessions :
          /\ InCall("ndn", s, {"buffer"}) => buffer[s] # {} \/ s \notin m_hash_table
          /\ InCall("ndn", s, Sending) => buffer[s] # {}
          /\ InCall("ndn", s, {"put"}) => content[s] # {}
    /\ EarlyAnswerNotEmpty

\* The timer's handler runs once; the ndn thread erases what it answered.
OneAnswerEach ==
    /\ \A s \in Sessions :
          /\ AnsweredBy("timer", s) \/ call["timer"].session = s => timer[s] = "done"
          /\ AnsweredBy("ndn", s) => s \notin m_hash_table \/ InCall("ndn", s, Leaving)
          /\ InCall("timer", s, {"buffer"}) => ~AnsweredBy("timer", s)
          /\ \A t \in Threads : InCall(t, s, Sending) => ~AnsweredBy(t, s)
    /\ OncePerThread

\* In edge mode a timer handler that did not find its session erased has it to
\* itself: the invariant behind AnsweredOnce and OnlyDumpRaces.
EdgeExclusion == m_edge_mode = "e" =>
    /\ \A s \in Sessions :
          /\ timer[s] \in {"queued", "done"} => Settled(s) \/ s \notin m_hash_table
          /\ \A t \in Threads : InCall(t, s, Sending \cup Leaving) => s \in m_hash_table
          /\ \A t \in Threads : InCall(t, s, Sending) => ~Answered(s)
          /\ Answered(s) /\ s \in m_hash_table =>
                \E t \in Threads : InCall(t, s, Leaving)
    /\ AnsweredOnce
    /\ OnlyDumpRaces

\* Clients that open a session only when there is none that was not answered.
OpensAlone ==
    \A s \in Sessions : asked'[s] # asked[s] =>
        \A q \in Sessions : asked[q] > 0 => Answered(q)

\* With such clients the counters are those of the one session that awaits
\* results: what they have counted is what it has collected.
CountersOfOne ==
    \A s \in Sessions : pending[s] # {} =>
        /\ \A q \in Sessions \ {s} : pending[q] = {}
        /\ ~Answered(s)
        /\ call["ndn"] = Idle
        /\ m_issued_interest = asked[s]
        /\ m_number_of_arrival_interest = Cardinality(buffer[s])

\* The ndn thread works for a session that has collected all its results.
EarlyHasAll ==
    \A s \in Sessions :
        /\ call["ndn"].session = s => buffer[s] = 1 .. asked[s]
        /\ InCall("ndn", s, {"put"}) => content[s] = 1 .. asked[s]
        /\ \A i \in DOMAIN sent[s] :
              sent[s][i].by = "ndn" => sent[s][i].content = 1 .. asked[s]
=============================================================================
