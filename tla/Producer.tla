------------------------------- MODULE Producer -------------------------------
(***************************************************************************)
(* The edge server: class Producer (edge/src/producer.cpp), the table of   *)
(* sessions it shares between its threads (edge/src/session-manager.cpp)   *)
(* and the Executor that brings a fetched frame back to it                 *)
(* (edge/src/execute.cpp).                                                 *)
(*                                                                         *)
(* A client's Interest opens a session.  The session asks one re-invoked   *)
(* Interest per location name, collects the results in a buffer and is     *)
(* answered with one Data packet: by the "ndn" thread as soon as as many   *)
(* results arrived as Interests were issued, or by the "timer" thread when *)
(* its 10 s timer fires.  Both threads run send_data, which takes the      *)
(* table's lock several times but never holds it from one access to the    *)
(* next, so send_data is one action per access.  Every other handler       *)
(* touches what it shares with the other thread once and is one action.    *)
(*                                                                         *)
(* Results are numbered by the re-invoked Interest they answer; what they  *)
(* say is left out.  Undefined behaviour is a choice: the step does what   *)
(* the code says, or the program is lost and "fault" tells why.            *)
(***************************************************************************)
EXTENDS Integers, Sequences

CONSTANTS
    Sessions,   \* the session ids that m_id_generator draws, all different
    NoSession,  \* stands for "no session"
    MaxNames,   \* the most location names one Interest is converted to
    Modes       \* the modes the server may be started in

ASSUME ProducerAssumption ==
    /\ MaxNames \in Nat \ {0}
    /\ Modes \subseteq {"e", "c"}
    /\ NoSession \notin Sessions

VARIABLES
    m_edge_mode,    \* "e": workers detect, "c": workers send frames; never changes
    m_hash_table,   \* the sessions in SessionManager's table
    buffer,         \* Session::buffer: the results collected by a session
    content,        \* the content of Session::data_ptr
    timer,          \* Session::timer_ptr and its handler in m_timer_service
    m_number_of_arrival_interest,
    m_issued_interest,
    asked,          \* how many Interests a session re-invoked, 0 before it exists
    pending,        \* the re-invoked Interests that may still bring a result
    call,           \* where each thread is inside send_data
    sent,           \* the Data packets put on the face for each session, in order
    fault           \* the undefined behaviour that ended the program, if any

counters == <<m_number_of_arrival_interest, m_issued_interest>>
vars == <<m_edge_mode, m_hash_table, buffer, content, timer, counters, asked,
          pending, call, sent, fault>>

Names   == 1 .. MaxNames
Threads == {"ndn", "timer"}
Steps   == {"idle", "buffer", "packet", "copy", "put", "dump", "erase"}
Timers  == {"none", "armed", "queued", "done"}
Faults  == {"none", "null_packet", "freed_buffer", "buffer_race",
            "packet_race", "table_race"}
Answers == [by : Threads, content : SUBSET Names]

Idle == [step |-> "idle", session |-> NoSession]

-----------------------------------------------------------------------------
Init ==
    /\ m_edge_mode \in Modes
    /\ m_hash_table = {}
    /\ buffer  = [s \in Sessions |-> {}]
    /\ content = [s \in Sessions |-> {}]
    /\ timer   = [s \in Sessions |-> "none"]
    /\ m_number_of_arrival_interest = 0
    /\ m_issued_interest = 0
    /\ asked   = [s \in Sessions |-> 0]
    /\ pending = [s \in Sessions |-> {}]
    /\ call    = [t \in Threads |-> Idle]
    /\ sent    = [s \in Sessions |-> <<>>]
    /\ fault   = "none"

At(t, step)   == fault = "none" /\ call[t].step = step
Goto(t, step) == call' = [call EXCEPT ![t].step = step]

\* What may become of the program when thread t makes an access that no lock
\* orders with the steps of another thread working on one of the sessions S.
MayRace(t, steps, S, kind) ==
    {"none"} \cup
    {kind : u \in {v \in Threads \ {t} : /\ call[v].step \in steps
                                         /\ call[v].session \in S}}

\* dump walks the table without the lock while the other thread changes it.
TableChange(t) == MayRace(t, {"dump"}, Sessions, "table_race")

\* Both threads work on one Data object, which has no lock.
PacketAccess(t, s) == MayRace(t, {"copy", "put"}, {s}, "packet_race")

-----------------------------------------------------------------------------
(* Handlers of the ndn thread.                                             *)

\* Mutant: the count of the session before is carried over.
CountersNotReset(n) ==
    /\ UNCHANGED m_number_of_arrival_interest
    /\ m_issued_interest' = n

\* The counters belong to the Producer, not to the session that is opened.
ResetCounters(n) ==
    /\ m_number_of_arrival_interest' = 0
    /\ m_issued_interest' = n

\* onInterest and onInterest_Cloud: open session s with n location names.
\* The timer cannot fire before the handler returns: it has 10 s to go.
OnInterest(s, n) ==
    /\ At("ndn", "idle")
    /\ asked[s] = 0
    /\ ResetCounters(n)
    /\ asked' = [asked EXCEPT ![s] = n]
    /\ pending' = [pending EXCEPT ![s] = 1 .. n]
    /\ timer' = [timer EXCEPT ![s] = "armed"]
    /\ m_hash_table' = m_hash_table \cup {s}
    /\ fault' \in TableChange("ndn")
    /\ UNCHANGED <<buffer, content, call, sent>>

\* Mutant: the session id in the result is ignored.
AppendToEverySession(s, j) ==
    /\ buffer' = [r \in Sessions |->
                    buffer[r] \cup IF r \in m_hash_table THEN {j} ELSE {}]
    /\ UNCHANGED fault

\* Mutant: a result replaces the buffer.
OverwritePayload(s, j) ==
    IF s \in m_hash_table
    THEN buffer' = [buffer EXCEPT ![s] = {j}] /\ UNCHANGED fault
    ELSE UNCHANGED <<buffer, fault>>

\* SessionManager::append_payload, under the table's lock; send_data copies
\* the same buffer without it.
AppendPayload(s, j) ==
    IF s \in m_hash_table
    THEN /\ buffer' = [buffer EXCEPT ![s] = @ \cup {j}]
         /\ fault' \in MayRace("ndn", {"copy"}, {s}, "buffer_race")
    ELSE UNCHANGED <<buffer, fault>>

\* Mutant: the results still to come are counted down.
CountDown == m_number_of_arrival_interest - 1

Arrivals == m_number_of_arrival_interest + 1

\* Every result counts, whichever session it belongs to, and the one that
\* makes the counters equal has its own session answered.
CountArrival(s) ==
    /\ m_number_of_arrival_interest' = Arrivals
    /\ IF Arrivals = m_issued_interest
       THEN call' = [call EXCEPT !["ndn"] = [step |-> "buffer", session |-> s]]
       ELSE UNCHANGED call

\* onData, and adddata called by Executor::afterFetchComplete: the j-th
\* re-invoked Interest of session s brings its result.
OnData(s, j) ==
    /\ At("ndn", "idle")
    /\ j \in pending[s]
    /\ pending' = [pending EXCEPT ![s] = @ \ {j}]
    /\ AppendPayload(s, j)
    /\ CountArrival(s)
    /\ UNCHANGED <<m_hash_table, content, timer, m_issued_interest, asked, sent>>

\* Mutant: a Nack or a timeout counts as an answer.
OnNoResultCounted(s, j) ==
    /\ At("ndn", "idle")
    /\ j \in pending[s]
    /\ pending' = [pending EXCEPT ![s] = @ \ {j}]
    /\ CountArrival(s)
    /\ UNCHANGED <<m_hash_table, buffer, content, timer, m_issued_interest,
                   asked, sent, fault>>

\* A Nack, a timeout, a failed fetch, or a result without a session id: the
\* handler writes a log line and nothing else.
OnNoResult(s, j) ==
    /\ At("ndn", "idle")
    /\ j \in pending[s]
    /\ pending' = [pending EXCEPT ![s] = @ \ {j}]
    /\ UNCHANGED <<m_hash_table, buffer, content, timer, counters, asked, call,
                   sent, fault>>

-----------------------------------------------------------------------------
(* The timer thread.                                                       *)

\* Mutant: the Interests live longer than the timer.
LongLifetime(s) == TRUE

\* In edge mode a re-invoked Interest lives 1 s and the timer 10 s, so all
\* that the Interests of s can bring is done when its timer expires.  A
\* SegmentFetcher (cloud mode) retries for longer than that.
Settled(s) == pending[s] = {} /\ call["ndn"].session # s

TimerExpires(s) ==
    /\ fault = "none"
    /\ timer[s] = "armed"
    /\ m_edge_mode = "e" => Settled(s)
    /\ timer' = [timer EXCEPT ![s] = "queued"]
    /\ UNCHANGED <<m_hash_table, buffer, content, counters, asked, pending,
                   call, sent, fault>>

\* Mutant: the handler gives up instead of sending what there is.
TimerCallbackIgnored(s) ==
    /\ At("timer", "idle")
    /\ timer[s] = "queued"
    /\ timer' = [timer EXCEPT ![s] = "done"]
    /\ UNCHANGED <<m_hash_table, buffer, content, counters, asked, pending,
                   call, sent, fault>>

\* The handler is send_data itself; it does not look at its error argument,
\* so an aborted wait runs it like an expired one.
TimerCallback(s) ==
    /\ At("timer", "idle")
    /\ timer[s] = "queued"
    /\ timer' = [timer EXCEPT ![s] = "done"]
    /\ call' = [call EXCEPT !["timer"] = [step |-> "buffer", session |-> s]]
    /\ UNCHANGED <<m_hash_table, buffer, content, counters, asked, pending,
                   sent, fault>>

-----------------------------------------------------------------------------
(* send_data, run by thread t.                                             *)

\* On its return the ndn thread is back in onData (or adddata), which resets
\* both counters.
Return(t) ==
    /\ call' = [call EXCEPT ![t] = Idle]
    /\ IF t = "ndn"
       THEN m_number_of_arrival_interest' = 0 /\ m_issued_interest' = 0
       ELSE UNCHANGED counters

\* SessionManager::buffer finds the session: t keeps a reference to its buffer.
BufferFound(t) ==
    /\ At(t, "buffer")
    /\ call[t].session \in m_hash_table
    /\ Goto(t, "packet")
    /\ UNCHANGED <<m_hash_table, buffer, content, timer, counters, asked,
                   pending, sent, fault>>

\* SessionManager::buffer throws out_of_range, which send_data catches.
BufferMissing(t) ==
    /\ At(t, "buffer")
    /\ call[t].session \notin m_hash_table
    /\ Return(t)
    /\ UNCHANGED <<m_hash_table, buffer, content, timer, asked, pending, sent,
                   fault>>

\* Mutant: nothing is sent for a session without results.
EmptyNotSent(t) ==
    /\ At(t, "packet")
    /\ call[t].session \in m_hash_table
    /\ Goto(t, IF buffer[call[t].session] = {} THEN "dump" ELSE "copy")
    /\ UNCHANGED <<m_hash_table, buffer, content, timer, counters, asked,
                   pending, sent, fault>>

PacketFound(t) ==
    /\ At(t, "packet")
    /\ call[t].session \in m_hash_table
    /\ Goto(t, "copy")
    /\ UNCHANGED <<m_hash_table, buffer, content, timer, counters, asked,
                   pending, sent, fault>>

\* SessionManager::data_packet returns a null pointer, which is dereferenced.
PacketMissing(t) ==
    /\ At(t, "packet")
    /\ call[t].session \notin m_hash_table
    /\ fault' = "null_packet"
    /\ UNCHANGED <<m_hash_table, buffer, content, timer, counters, asked,
                   pending, call, sent>>

\* The reference is to a vector that is freed with the erased session.
BufferLifetime(s) ==
    {"none"} \cup IF s \in m_hash_table THEN {} ELSE {"freed_buffer"}

SetContent(t) ==
    LET s == call[t].session
    IN  /\ At(t, "copy")
        /\ content' = [content EXCEPT ![s] = buffer[s]]
        /\ fault' \in BufferLifetime(s) \cup PacketAccess(t, s)
        /\ Goto(t, "put")
        /\ UNCHANGED <<m_hash_table, buffer, timer, counters, asked, pending, sent>>

\* Face::put copies the packet here and sends the copy from the ndn thread.
PutData(t) ==
    LET s == call[t].session
    IN  /\ At(t, "put")
        /\ sent' = [sent EXCEPT ![s] = Append(@, [by |-> t, content |-> content[s]])]
        /\ fault' \in PacketAccess(t, s)
        /\ Goto(t, "dump")
        /\ UNCHANGED <<m_hash_table, buffer, content, timer, counters, asked, pending>>

Dump(t) ==
    /\ At(t, "dump")
    /\ Goto(t, "erase")
    /\ UNCHANGED <<m_hash_table, buffer, content, timer, counters, asked,
                   pending, sent, fault>>

\* The table held the last pointer to the session and the session the last
\* pointer to its timer: destroying it queues the handler as aborted.
CancelTimer(s) == IF timer[s] = "armed" THEN "queued" ELSE timer[s]

\* Mutant: the session stays in the table.
SessionKept(t) ==
    /\ At(t, "erase")
    /\ timer' = [timer EXCEPT ![call[t].session] = CancelTimer(call[t].session)]
    /\ Return(t)
    /\ UNCHANGED <<m_hash_table, buffer, content, asked, pending, sent, fault>>

EraseSession(t) ==
    LET s == call[t].session
    IN  /\ At(t, "erase")
        /\ m_hash_table' = m_hash_table \ {s}
        /\ timer' = [timer EXCEPT ![s] = CancelTimer(s)]
        /\ fault' \in IF s \in m_hash_table THEN TableChange(t) ELSE {"none"}
        /\ Return(t)
        /\ UNCHANGED <<buffer, content, asked, pending, sent>>

SendData(t) ==
    \/ BufferFound(t)
    \/ BufferMissing(t)
    \/ PacketFound(t)
    \/ PacketMissing(t)
    \/ SetContent(t)
    \/ PutData(t)
    \/ Dump(t)
    \/ EraseSession(t)

-----------------------------------------------------------------------------
OnResponse(s) == \E j \in Names : OnData(s, j) \/ OnNoResult(s, j)

\* Everything that happens without a new Interest from a client.
Work ==
    \/ \E s \in Sessions : OnResponse(s) \/ TimerExpires(s) \/ TimerCallback(s)
    \/ \E t \in Threads : SendData(t)

Next ==
    /\ UNCHANGED m_edge_mode
    /\ \/ \E s \in Sessions, n \in Names : OnInterest(s, n)
       \/ Work

Spec == Init /\ [][Next]_vars

\* Both io_services keep running the handlers that are ready, timers expire,
\* and a re-invoked Interest is answered or expires.  Clients need not ask.
Fairness ==
    /\ \A t \in Threads : WF_vars(SendData(t) /\ UNCHANGED m_edge_mode)
    /\ \A s \in Sessions :
          /\ WF_vars(OnResponse(s) /\ UNCHANGED m_edge_mode)
          /\ WF_vars(TimerExpires(s) /\ UNCHANGED m_edge_mode)
          /\ WF_vars(TimerCallback(s) /\ UNCHANGED m_edge_mode)

FairSpec == Spec /\ Fairness

-----------------------------------------------------------------------------
(* Properties.                                                             *)

\* Every variable has its type.
TypeOK ==
    /\ m_edge_mode \in Modes
    /\ m_hash_table \subseteq Sessions
    /\ buffer  \in [Sessions -> SUBSET Names]
    /\ content \in [Sessions -> SUBSET Names]
    /\ timer   \in [Sessions -> Timers]
    /\ m_number_of_arrival_interest \in Nat
    /\ m_issued_interest \in 0 .. MaxNames
    /\ asked   \in [Sessions -> 0 .. MaxNames]
    /\ pending \in [Sessions -> SUBSET Names]
    /\ call \in [Threads -> {Idle} \cup
                            [step : Steps \ {"idle"}, session : Sessions]]
    /\ sent \in [Sessions -> Seq(Answers)]
    /\ fault \in Faults

Answered(s) == sent[s] # <<>>

\* What a session is answered with are results of its own Interests, and ones
\* that had arrived: two sessions never mix, although they share the counters
\* and send_data reads the buffer while results are being appended.
AnswersBelong ==
    \A s \in Sessions : \A i \in DOMAIN sent[s] :
        sent[s][i].content \subseteq (1 .. asked[s]) \ pending[s]

\* A session leaves the table only when a Data packet was put for it: no order
\* of the two threads erases a session whose client was not answered.
NoSilentDrop ==
    \A s \in Sessions : asked[s] > 0 /\ s \notin m_hash_table => Answered(s)

\* The answer that the ndn thread sends carries a result, even if the result
\* that triggered it came for a session that was being answered by the timer.
EarlyAnswerNotEmpty ==
    \A s \in Sessions : \A i \in DOMAIN sent[s] :
        sent[s][i].by = "ndn" => sent[s][i].content # {}

\* A session gets at most one answer from each thread: neither the aborted
\* timer handler nor a late result has a thread answer the same session again.
OncePerThread ==
    \A s \in Sessions : \A i, j \in DOMAIN sent[s] :
        sent[s][i].by = sent[s][j].by => i = j

\* The test for equality in onData is never stepped over: outside send_data
\* fewer results were counted than Interests were issued, or none are awaited.
CountNeverPassed ==
    call["ndn"] = Idle /\ m_issued_interest > 0 =>
        m_number_of_arrival_interest < m_issued_interest

\* In edge mode a session is answered once, by one of the two threads: the
\* other one finds it erased, although nothing but the lifetime of an Interest
\* keeps the two threads apart.
AnsweredOnce ==
    m_edge_mode = "e" => \A s \in Sessions : Len(sent[s]) <= 1

\* In edge mode the only undefined behaviour in reach is that dump walks the
\* table, without its lock, while the other thread changes it.
OnlyDumpRaces == m_edge_mode = "e" => fault \in {"none", "table_race"}

\* The server as its clients see it: QueryService, with the first Data packet
\* of a session as the reply to the query.
Service == INSTANCE QueryService WITH
    Queries <- Sessions, MaxPlaces <- MaxNames, results <- buffer,
    reply <- [s \in Sessions |->
                IF Answered(s) THEN {sent[s][1].content} ELSE {}],
    down <- fault # "none"

\* Producer implements QueryService: results only come in for a query that was
\* made, and the first answer is made of results that the buffer holds, although
\* it is read from a packet that the other thread may be filling.
ImplementsService == Service!Spec

\* Every session that was opened is answered, by the last result or by the
\* timer, unless undefined behaviour ends the program first.
EverySessionAnswered == Service!Replies

\* "this packet is discarded because the corresponding session does not exist"
\* (producer.cpp:315): a result whose session is gone changes nothing.
DiscardedPacketIsIgnored ==
    [][\A s \in Sessions : \A j \in Names :
          OnData(s, j) /\ s \notin m_hash_table => UNCHANGED counters]_vars

\* "ERROR: Session does not exist." (producer.cpp:353): a session that another
\* thread erased while send_data works on it is reported, nothing worse.
MissingSessionIsReported == fault \notin {"null_packet", "freed_buffer"}
=============================================================================
