---------------------------- MODULE ProducerProofs ----------------------------
(***************************************************************************)
(* Theorems about Producer, for every set of sessions, every number of     *)
(* location names and both modes.                                          *)
(***************************************************************************)
EXTENDS ProducerInvariant, FiniteSetTheorems, TLAPS

-----------------------------------------------------------------------------
(* Type correctness.                                                       *)

\* Whatever the undefined behaviour of an access, its kind is one of Faults.
LEMMA RaceOutcomes ==
    ASSUME NEW t, NEW steps, NEW S, NEW kind \in Faults
    PROVE  MayRace(t, steps, S, kind) \subseteq Faults
  BY DEF MayRace, Faults

\* The handlers of the ndn thread keep the types.
LEMMA HandlerTypes ==
    ASSUME TypeOK, NEW s \in Sessions, NEW j \in Names,
           OnInterest(s, j) \/ OnData(s, j) \/ OnNoResult(s, j),
           UNCHANGED m_edge_mode
    PROVE  TypeOK'
<1>1. CASE OnInterest(s, j)
  <2>1. fault' \in Faults
    BY <1>1, RaceOutcomes DEF OnInterest, TableChange, Faults
  <2> QED
    BY <1>1, <2>1, ProducerAssumption DEF OnInterest, ResetCounters, TypeOK, Names, Timers
<1>2. CASE OnData(s, j)
  <2>1. fault' \in Faults
    BY <1>2, RaceOutcomes DEF OnData, AppendPayload, TypeOK, Faults
  <2>2. buffer' \in [Sessions -> SUBSET Names]
    <3>1. CASE s \in m_hash_table
      <4>1. buffer' = [buffer EXCEPT ![s] = @ \cup {j}]
        BY <1>2, <3>1 DEF OnData, AppendPayload
      <4> QED
        BY <4>1 DEF TypeOK
    <3>2. CASE s \notin m_hash_table
      BY <1>2, <3>2 DEF OnData, AppendPayload, TypeOK
    <3> QED
      BY <3>1, <3>2
  <2>3. /\ m_number_of_arrival_interest' \in Nat
        /\ call' \in [Threads -> {Idle} \cup
                                 [step : Steps \ {"idle"}, session : Sessions]]
    BY <1>2 DEF OnData, CountArrival, Arrivals, TypeOK, Threads, Steps
  <2>4. pending' \in [Sessions -> SUBSET Names]
    BY <1>2 DEF OnData, TypeOK
  <2> QED
    BY <1>2, <2>1, <2>2, <2>3, <2>4 DEF OnData, TypeOK
<1>3. CASE OnNoResult(s, j)
  BY <1>3 DEF OnNoResult, TypeOK, counters
<1> QED
  BY <1>1, <1>2, <1>3

\* The timer thread's own actions keep the types.
LEMMA TimerTypes ==
    ASSUME TypeOK, NEW s \in Sessions, TimerExpires(s) \/ TimerCallback(s),
           UNCHANGED m_edge_mode
    PROVE  TypeOK'
<1>1. CASE TimerExpires(s)
  BY <1>1 DEF TimerExpires, TypeOK, Timers, counters
<1>2. CASE TimerCallback(s)
  BY <1>2 DEF TimerCallback, TypeOK, Timers, Threads, Steps, counters
<1> QED
  BY <1>1, <1>2

\* A thread inside send_data works on one of the sessions.
LEMMA SessionOfCall ==
    ASSUME TypeOK, NEW t \in Threads, call[t].step # "idle"
    PROVE  call[t].session \in Sessions
  BY DEF TypeOK, Idle

\* Advancing or leaving send_data keeps the type of call.
LEMMA CallTypes ==
    ASSUME TypeOK, NEW t \in Threads, call[t].step # "idle",
           \/ \E step \in Steps \ {"idle"} : Goto(t, step)
           \/ call' = [call EXCEPT ![t] = Idle]
    PROVE  call' \in [Threads -> {Idle} \cup
                                 [step : Steps \ {"idle"}, session : Sessions]]
<1> DEFINE Records == [step : Steps \ {"idle"}, session : Sessions]
<1>1. call \in [Threads -> {Idle} \cup Records] /\ call[t] \in Records
  BY DEF TypeOK, Idle
<1>2. CASE \E step \in Steps \ {"idle"} : Goto(t, step)
  <2>1. PICK step \in Steps \ {"idle"} : Goto(t, step)
    BY <1>2
  <2>2. [call[t] EXCEPT !.step = step] \in Records
    BY <1>1
  <2>3. call' = [call EXCEPT ![t] = [call[t] EXCEPT !.step = step]]
    BY <1>1, <2>1 DEF Goto
  <2> QED
    BY <1>1, <2>2, <2>3
<1>3. CASE call' = [call EXCEPT ![t] = Idle]
  BY <1>1, <1>3
<1> QED
  BY <1>2, <1>3

\* So does what happens to the counters when send_data returns.
LEMMA ReturnTypes ==
    ASSUME TypeOK, NEW t \in Threads, call[t].step # "idle", Return(t)
    PROVE  /\ call' \in [Threads -> {Idle} \cup
                                    [step : Steps \ {"idle"}, session : Sessions]]
           /\ m_number_of_arrival_interest' \in Nat
           /\ m_issued_interest' \in 0 .. MaxNames
<1>1. call' = [call EXCEPT ![t] = Idle]
  BY DEF Return
<1>2. /\ m_number_of_arrival_interest' \in {0, m_number_of_arrival_interest}
      /\ m_issued_interest' \in {0, m_issued_interest}
  BY DEF Return, counters
<1>3. MaxNames \in Nat
  BY ProducerAssumption
<1> QED
  BY <1>1, <1>2, <1>3, CallTypes DEF TypeOK

\* Every access of send_data keeps the types.
LEMMA SendDataTypes ==
    ASSUME TypeOK, NEW t \in Threads, SendData(t), UNCHANGED m_edge_mode
    PROVE  TypeOK'
<1>0. call[t].step # "idle" /\ call[t].session \in Sessions
  BY SessionOfCall DEF SendData, BufferFound, BufferMissing, PacketFound,
     PacketMissing, SetContent, PutData, Dump, EraseSession, At
<1>1. CASE BufferFound(t) \/ PacketFound(t) \/ Dump(t)
  BY <1>0, <1>1, CallTypes
     DEF BufferFound, PacketFound, Dump, TypeOK, counters, Steps
<1>2. CASE BufferMissing(t)
  <2>1. Return(t)
    BY <1>2 DEF BufferMissing
  <2> QED
    BY <1>0, <1>2, <2>1, ReturnTypes DEF BufferMissing, TypeOK
<1>3. CASE PacketMissing(t)
  BY <1>3 DEF PacketMissing, TypeOK, counters, Faults
<1>4. CASE SetContent(t)
  <2>1. fault' \in Faults
    BY <1>4, RaceOutcomes DEF SetContent, BufferLifetime, PacketAccess, Faults
  <2> QED
    BY <1>0, <1>4, <2>1, CallTypes DEF SetContent, TypeOK, counters, Steps
<1>5. CASE PutData(t)
  <2>1. fault' \in Faults
    BY <1>5, RaceOutcomes DEF PutData, PacketAccess, Faults
  <2>2. sent' \in [Sessions -> Seq(Answers)]
    <3> DEFINE s == call[t].session
               a == [by |-> t, content |-> content[s]]
    <3>1. a \in Answers
      BY <1>0 DEF TypeOK, Answers
    <3>2. Append(sent[s], a) \in Seq(Answers)
      BY <1>0, <3>1 DEF TypeOK
    <3> QED
      BY <1>5, <3>2 DEF PutData, TypeOK
  <2> QED
    BY <1>0, <1>5, <2>1, <2>2, CallTypes DEF PutData, TypeOK, counters, Steps
<1>6. CASE EraseSession(t)
  <2>1. fault' \in Faults
    BY <1>6, RaceOutcomes DEF EraseSession, TableChange, Faults
  <2>2. Return(t)
    BY <1>6 DEF EraseSession
  <2> QED
    BY <1>0, <1>6, <2>1, <2>2, ReturnTypes
       DEF EraseSession, CancelTimer, TypeOK, Timers
<1> QED
  BY <1>1, <1>2, <1>3, <1>4, <1>5, <1>6 DEF SendData

LEMMA TypeStep == TypeOK /\ [Next]_vars => TypeOK'
<1> SUFFICES ASSUME TypeOK, [Next]_vars PROVE TypeOK'
  OBVIOUS
<1>1. CASE UNCHANGED vars
  BY <1>1 DEF vars, counters, TypeOK
<1> QED
  BY <1>1, HandlerTypes, TimerTypes, SendDataTypes DEF Next, Work, OnResponse

\* Every variable keeps its type in every behaviour of the edge server.
THEOREM TypeCorrect == Spec => []TypeOK
<1>1. Init => TypeOK
  BY ProducerAssumption DEF Init, TypeOK, Threads, Timers, Faults
<1> QED
  BY <1>1, TypeStep, PTL DEF Spec

-----------------------------------------------------------------------------
(* What a step of send_data does to the calls and to the answers.          *)

\* Going to a step of send_data keeps the session and leaves the other thread
\* where it is.
LEMMA GotoMoves ==
    ASSUME TypeOK, NEW t \in Threads, NEW step, call[t].step # "idle", Goto(t, step)
    PROVE  /\ call'[t].step = step /\ call'[t].session = call[t].session
           /\ \A u \in Threads \ {t} : call'[u] = call[u]
  BY DEF TypeOK, Goto, Idle

\* Returning from send_data leaves the other thread where it is.
LEMMA ReturnMoves ==
    ASSUME TypeOK, NEW t \in Threads, Return(t)
    PROVE  /\ call'[t].step = "idle" /\ call'[t].session \notin Sessions
           /\ \A u \in Threads \ {t} : call'[u] = call[u]
  BY ProducerAssumption DEF TypeOK, Return, Idle

\* A result that is counted leaves the timer thread where it is and has the ndn
\* thread enter send_data for its session, or not.
LEMMA ArrivalMoves ==
    ASSUME TypeOK, NEW s \in Sessions, CountArrival(s)
    PROVE  /\ call'["timer"] = call["timer"]
           /\ \/ call'["ndn"] = call["ndn"]
              \/ call'["ndn"].step = "buffer" /\ call'["ndn"].session = s
           /\ \A t \in Threads : call'[t] # call[t] => t = "ndn"
  BY DEF TypeOK, CountArrival, Threads

\* A result goes to the buffer of its session, if the table still has it.
LEMMA PayloadMoves ==
    ASSUME TypeOK, NEW s \in Sessions, NEW j, AppendPayload(s, j)
    PROVE  /\ \A r \in Sessions \ {s} : buffer'[r] = buffer[r]
           /\ s \in m_hash_table => buffer'[s] = buffer[s] \cup {j}
           /\ s \notin m_hash_table => buffer'[s] = buffer[s]
  BY DEF TypeOK, AppendPayload

\* Putting a Data packet adds one answer at the end of one session's answers.
LEMMA PutAppends ==
    ASSUME TypeOK, NEW t \in Threads, PutData(t)
    PROVE  /\ call[t].session \in Sessions
           /\ \A r \in Sessions :
                 r = call[t].session \/ sent[r] # <<>> <=> sent'[r] # <<>>
           /\ \A r \in Sessions : \A i \in DOMAIN sent'[r] :
                 \/ i \in DOMAIN sent[r] /\ sent'[r][i] = sent[r][i]
                 \/ /\ r = call[t].session
                    /\ i = Len(sent[r]) + 1
                    /\ sent'[r][i].by = t
                    /\ sent'[r][i].content = content[r]
<1> DEFINE s == call[t].session
           a == [by |-> t, content |-> content[s]]
<1>1. s \in Sessions
  BY SessionOfCall DEF PutData, At
<1>2. sent[s] \in Seq(Answers) /\ a \in Answers
  BY <1>1 DEF TypeOK, Answers
<1>3. /\ sent'[s] = Append(sent[s], a)
      /\ \A r \in Sessions \ {s} : sent'[r] = sent[r]
  BY <1>1 DEF PutData, TypeOK
<1>4. /\ DOMAIN sent[s] = 1 .. Len(sent[s])
      /\ Len(sent[s]) \in Nat
      /\ DOMAIN sent'[s] = 1 .. (Len(sent[s]) + 1)
      /\ \A i \in 1 .. Len(sent[s]) : sent'[s][i] = sent[s][i]
      /\ sent'[s][Len(sent[s]) + 1] = a
      /\ sent'[s] # <<>>
  BY <1>2, <1>3
<1>5. \A i \in DOMAIN sent'[s] :
         i \in DOMAIN sent[s] \/ i = Len(sent[s]) + 1
  BY <1>4
<1>6. a.by = t /\ a.content = content[s]
  OBVIOUS
<1> HIDE DEF a
<1> QED
  BY <1>1, <1>3, <1>4, <1>5, <1>6

-----------------------------------------------------------------------------
(* OnlyOpened.                                                             *)

LEMMA OnlyOpenedStep == TypeOK /\ OnlyOpened /\ [Next]_vars => OnlyOpened'
<1> SUFFICES ASSUME TypeOK, OnlyOpened, [Next]_vars PROVE OnlyOpened'
  OBVIOUS
<1>1. ASSUME NEW s \in Sessions, NEW n \in Names, OnInterest(s, n)
      PROVE  OnlyOpened'
  BY <1>1 DEF OnInterest, OnlyOpened, TypeOK, Names, Answered
<1>2. ASSUME NEW s \in Sessions, NEW j \in Names, OnData(s, j)
      PROVE  OnlyOpened'
  <2>1. asked[s] > 0
    BY <1>2 DEF OnData, OnlyOpened, TypeOK
  <2>2. \A r \in Sessions : \A t \in Threads :
           call'[t].session = r => r = s \/ call[t].session = r
    BY <1>2, ArrivalMoves DEF OnData, Threads
  <2>3. \A r \in Sessions : pending'[r] \subseteq pending[r]
    BY <1>2 DEF OnData, TypeOK
  <2> QED
    BY <1>2, <2>1, <2>2, <2>3 DEF OnData, OnlyOpened, Answered
<1>3. ASSUME NEW s \in Sessions, NEW j \in Names, OnNoResult(s, j)
      PROVE  OnlyOpened'
  BY <1>3 DEF OnNoResult, OnlyOpened, TypeOK, Answered
<1>4. ASSUME NEW s \in Sessions, TimerExpires(s) \/ TimerCallback(s)
      PROVE  OnlyOpened'
  <2>1. CASE TimerExpires(s)
    BY <2>1 DEF TimerExpires, OnlyOpened, TypeOK, Answered
  <2>2. CASE TimerCallback(s)
    BY <2>2 DEF TimerCallback, OnlyOpened, TypeOK, Answered
  <2> QED
    BY <1>4, <2>1, <2>2
<1>5. ASSUME NEW t \in Threads, SendData(t)
      PROVE  OnlyOpened'
  <2>1. CASE BufferFound(t) \/ PacketFound(t) \/ SetContent(t) \/ Dump(t)
    BY <1>5, <2>1, GotoMoves DEF BufferFound, PacketFound, SetContent, Dump, At, OnlyOpened, Answered
  <2>2. CASE BufferMissing(t)
    BY <1>5, <2>2, ReturnMoves DEF BufferMissing, OnlyOpened, Answered
  <2>5. CASE EraseSession(t)
    <3> DEFINE r0 == call[t].session
    <3>1. r0 \in Sessions
      BY <2>5, SessionOfCall DEF EraseSession, At
    <3>2. asked[r0] > 0
      BY <3>1 DEF OnlyOpened
    <3>3. asked' = asked /\ pending' = pending /\ sent' = sent
      BY <2>5 DEF EraseSession
    <3>4. \A r \in Sessions \ {r0} : timer'[r] = timer[r]
      BY <2>5 DEF EraseSession, CancelTimer, TypeOK
    <3>5. \A u \in Threads : call'[u].session \in Sessions => call'[u].session = call[u].session
      BY <2>5, ReturnMoves DEF EraseSession
    <3>6. \A r \in Sessions : Answered(r)' <=> Answered(r)
      BY <3>3 DEF Answered
    <3> HIDE DEF Answered, r0
    <3> QED
      BY <3>2, <3>3, <3>4, <3>5, <3>6 DEF OnlyOpened
  <2>3. CASE PacketMissing(t)
    BY <2>3 DEF PacketMissing, OnlyOpened, Answered
  <2>4. CASE PutData(t)
    <3>1. asked' = asked /\ pending' = pending /\ timer' = timer
      BY <2>4 DEF PutData
    <3>2. \A u \in Threads : call'[u].session = call[u].session
      BY <2>4, GotoMoves DEF PutData, At
    <3>3. \A r \in Sessions : Answered(r)' => r = call[t].session \/ Answered(r)
      BY <2>4, PutAppends DEF Answered
    <3> HIDE DEF Answered
    <3> QED
      BY <3>1, <3>2, <3>3 DEF OnlyOpened
  <2> QED
    BY <1>5, <2>1, <2>2, <2>3, <2>4, <2>5 DEF SendData
<1>6. CASE UNCHANGED vars
  BY <1>6 DEF vars, OnlyOpened, Answered
<1> QED
  BY <1>1, <1>2, <1>3, <1>4, <1>5, <1>6 DEF Next, Work, OnResponse

-----------------------------------------------------------------------------
(* ResultsBelong: what is sent for a session are its own results.          *)

LEMMA ResultsBelongStep ==
    TypeOK /\ OnlyOpened /\ ResultsBelong /\ [Next]_vars => ResultsBelong'
<1> SUFFICES ASSUME TypeOK, OnlyOpened, ResultsBelong, [Next]_vars
             PROVE  ResultsBelong'
  OBVIOUS
<1>1. ASSUME NEW s \in Sessions, NEW n \in Names, OnInterest(s, n)
      PROVE  ResultsBelong'
  <2>1. /\ UNCHANGED <<buffer, content, sent>>
        /\ asked[s] = 0
        /\ \A r \in Sessions \ {s} : asked'[r] = asked[r] /\ pending'[r] = pending[r]
    BY <1>1 DEF OnInterest, TypeOK
  <2>2. 1 .. asked[s] = {}
    BY <2>1
  <2> QED
    BY <2>1, <2>2 DEF ResultsBelong, AnswersBelong
<1>2. ASSUME NEW s \in Sessions, NEW j \in Names, OnData(s, j)
      PROVE  ResultsBelong'
  <2>1. /\ UNCHANGED <<content, sent, asked>>
        /\ j \in pending[s] /\ j \in 1 .. asked[s]
        /\ pending'[s] = pending[s] \ {j}
        /\ \A r \in Sessions \ {s} : pending'[r] = pending[r]
    BY <1>2 DEF OnData, TypeOK, OnlyOpened
  <2>2. /\ buffer[s] \subseteq buffer'[s] /\ buffer'[s] \subseteq buffer[s] \cup {j}
        /\ \A r \in Sessions \ {s} : buffer'[r] = buffer[r]
    BY <1>2, PayloadMoves DEF OnData
  <2>3. ASSUME NEW r \in Sessions
        PROVE  /\ buffer'[r] \subseteq (1 .. asked'[r]) \ pending'[r]
               /\ content'[r] \subseteq buffer'[r]
    BY <2>1, <2>2 DEF ResultsBelong
  <2>4. AnswersBelong'
    BY <2>1 DEF ResultsBelong, AnswersBelong
  <2> QED
    BY <2>3, <2>4 DEF ResultsBelong
<1>3. ASSUME NEW s \in Sessions, NEW j \in Names, OnNoResult(s, j)
      PROVE  ResultsBelong'
  <2>1. /\ UNCHANGED <<buffer, content, sent, asked>>
        /\ \A r \in Sessions : pending'[r] \subseteq pending[r]
    BY <1>3 DEF OnNoResult, TypeOK
  <2> QED
    BY <2>1 DEF ResultsBelong, AnswersBelong
<1>4. ASSUME NEW s \in Sessions, TimerExpires(s) \/ TimerCallback(s)
      PROVE  ResultsBelong'
  BY <1>4 DEF TimerExpires, TimerCallback, ResultsBelong, AnswersBelong
<1>5. ASSUME NEW t \in Threads, SendData(t)
      PROVE  ResultsBelong'
  <2>1. CASE BufferFound(t) \/ PacketFound(t) \/ Dump(t) \/ PacketMissing(t)
    BY <2>1 DEF BufferFound, PacketFound, Dump, PacketMissing, ResultsBelong, AnswersBelong
  <2>2. CASE BufferMissing(t) \/ EraseSession(t)
    BY <2>2 DEF BufferMissing, EraseSession, ResultsBelong, AnswersBelong
  <2>3. CASE SetContent(t)
    <3>1. /\ UNCHANGED <<buffer, sent, asked, pending>>
          /\ \A r \in Sessions : content'[r] \in {content[r], buffer[r]}
      BY <2>3 DEF SetContent, TypeOK
    <3> QED
      BY <3>1 DEF ResultsBelong, AnswersBelong
  <2>4. CASE PutData(t)
    <3>1. UNCHANGED <<buffer, content, asked, pending>>
      BY <2>4 DEF PutData
    <3> QED
      BY <2>4, <3>1, PutAppends DEF ResultsBelong, AnswersBelong
  <2> QED
    BY <1>5, <2>1, <2>2, <2>3, <2>4 DEF SendData
<1>6. CASE UNCHANGED vars
  BY <1>6 DEF vars, ResultsBelong, AnswersBelong
<1> QED
  BY <1>1, <1>2, <1>3, <1>4, <1>5, <1>6 DEF Next, Work, OnResponse

-----------------------------------------------------------------------------
(* ErasedIsAnswered: only an answered session leaves the table.            *)

LEMMA ErasedIsAnsweredStep ==
    TypeOK /\ ErasedIsAnswered /\ [Next]_vars => ErasedIsAnswered'
<1> SUFFICES ASSUME TypeOK, ErasedIsAnswered, [Next]_vars
             PROVE  ErasedIsAnswered'
  OBVIOUS
<1> USE DEF InCall, Leaving, Answered
<1>1. ASSUME NEW s \in Sessions, NEW n \in Names, OnInterest(s, n)
      PROVE  ErasedIsAnswered'
  BY <1>1 DEF OnInterest, TypeOK, ErasedIsAnswered, NoSilentDrop
<1>2. ASSUME NEW s \in Sessions, NEW j \in Names, OnData(s, j)
      PROVE  ErasedIsAnswered'
  BY <1>2, ArrivalMoves DEF OnData, ErasedIsAnswered, NoSilentDrop
<1>3. ASSUME NEW s \in Sessions, NEW j \in Names, OnNoResult(s, j)
      PROVE  ErasedIsAnswered'
  BY <1>3 DEF OnNoResult, ErasedIsAnswered, NoSilentDrop
<1>4. ASSUME NEW s \in Sessions, TimerExpires(s)
      PROVE  ErasedIsAnswered'
  BY <1>4 DEF TimerExpires, ErasedIsAnswered, NoSilentDrop
<1>5. ASSUME NEW s \in Sessions, TimerCallback(s)
      PROVE  ErasedIsAnswered'
  BY <1>5 DEF TimerCallback, TypeOK, ErasedIsAnswered, NoSilentDrop
<1>6. ASSUME NEW t \in Threads, SendData(t)
      PROVE  ErasedIsAnswered'
  <2>1. CASE BufferFound(t) \/ PacketFound(t) \/ SetContent(t)
    BY <2>1, GotoMoves
       DEF BufferFound, PacketFound, SetContent, At, ErasedIsAnswered, NoSilentDrop
  <2>2. CASE Dump(t)
    BY <2>2, GotoMoves DEF Dump, At, ErasedIsAnswered, NoSilentDrop
  <2>3. CASE BufferMissing(t) \/ PacketMissing(t)
    BY <2>3, ReturnMoves
       DEF BufferMissing, PacketMissing, ErasedIsAnswered, NoSilentDrop
  <2>4. CASE PutData(t)
    <3>1. /\ UNCHANGED <<m_hash_table, asked>>
          /\ call'[t].session = call[t].session
          /\ \A u \in Threads \ {t} : call'[u] = call[u]
      BY <2>4, GotoMoves DEF PutData, At
    <3>2. \A r \in Sessions :
             r = call[t].session \/ sent[r] # <<>> <=> sent'[r] # <<>>
      BY <2>4, PutAppends
    <3> QED
      BY <3>1, <3>2 DEF ErasedIsAnswered, NoSilentDrop
  <2>5. CASE EraseSession(t)
    BY <2>5, ReturnMoves, SessionOfCall
       DEF EraseSession, At, ErasedIsAnswered, NoSilentDrop
  <2> QED
    BY <1>6, <2>1, <2>2, <2>3, <2>4, <2>5 DEF SendData
<1>7. CASE UNCHANGED vars
  BY <1>7 DEF vars, ErasedIsAnswered, NoSilentDrop
<1> QED
  BY <1>1, <1>2, <1>3, <1>4, <1>5, <1>6, <1>7 DEF Next, Work, OnResponse

-----------------------------------------------------------------------------
(* CountNeverPassed: the test for equality meets every count on its way.   *)

LEMMA CountStep == TypeOK /\ CountNeverPassed /\ [Next]_vars => CountNeverPassed'
<1> SUFFICES ASSUME TypeOK, CountNeverPassed, [Next]_vars PROVE CountNeverPassed'
  OBVIOUS
<1> USE DEF CountNeverPassed, counters
<1>1. ASSUME NEW s \in Sessions, NEW n \in Names, OnInterest(s, n)
      PROVE  CountNeverPassed'
  BY <1>1 DEF OnInterest, ResetCounters, Names
<1>2. ASSUME NEW s \in Sessions, NEW j \in Names, OnData(s, j)
      PROVE  CountNeverPassed'
  <2>1. CASE m_number_of_arrival_interest + 1 = m_issued_interest
    <3>1. call'["ndn"] = [step |-> "buffer", session |-> s]
      BY <1>2, <2>1 DEF OnData, CountArrival, Arrivals, TypeOK, Threads
    <3> QED
      BY <3>1 DEF Idle
  <2>2. CASE m_number_of_arrival_interest + 1 # m_issued_interest
    <3>1. call["ndn"] = Idle
      BY <1>2 DEF OnData, At, TypeOK, Threads, Idle
    <3> QED
      BY <1>2, <2>2, <3>1 DEF OnData, CountArrival, Arrivals, TypeOK
  <2> QED
    BY <2>1, <2>2
<1>3. ASSUME NEW s \in Sessions, NEW j \in Names, OnNoResult(s, j)
      PROVE  CountNeverPassed'
  BY <1>3 DEF OnNoResult
<1>4. ASSUME NEW s \in Sessions, TimerExpires(s) \/ TimerCallback(s)
      PROVE  CountNeverPassed'
  <2>1. UNCHANGED counters /\ call'["ndn"] = call["ndn"]
    BY <1>4 DEF TimerExpires, TimerCallback, TypeOK, Threads
  <2> QED
    BY <2>1
<1>5. ASSUME NEW t \in Threads, SendData(t)
      PROVE  CountNeverPassed'
  <2>1. CASE \/ BufferFound(t) \/ PacketFound(t) \/ SetContent(t)
             \/ PutData(t) \/ Dump(t)
    BY <2>1, GotoMoves
       DEF BufferFound, PacketFound, SetContent, PutData, Dump, At, Idle, Threads
  <2>2. CASE PacketMissing(t)
    BY <2>2 DEF PacketMissing
  <2>3. CASE BufferMissing(t) \/ EraseSession(t)
    <3>1. Return(t)
      BY <2>3 DEF BufferMissing, EraseSession
    <3> QED
      BY <3>1, ReturnMoves DEF Return, Threads
  <2> QED
    BY <1>5, <2>1, <2>2, <2>3 DEF SendData
<1>6. CASE UNCHANGED vars
  BY <1>6 DEF vars
<1> QED
  BY <1>1, <1>2, <1>3, <1>4, <1>5, <1>6 DEF Next, Work, OnResponse

-----------------------------------------------------------------------------
(* EarlyHasResult: the ndn thread never sends an empty answer.             *)

LEMMA EarlyHasResultStep ==
    TypeOK /\ EarlyHasResult /\ [Next]_vars => EarlyHasResult'
<1> SUFFICES ASSUME TypeOK, EarlyHasResult, [Next]_vars PROVE EarlyHasResult'
  OBVIOUS
<1> USE DEF EarlyHasResult, EarlyAnswerNotEmpty, InCall, Sending
<1>1. ASSUME NEW s \in Sessions, NEW n \in Names, OnInterest(s, n)
      PROVE  EarlyHasResult'
  BY <1>1 DEF OnInterest, At
<1>2. ASSUME NEW s \in Sessions, NEW j \in Names, OnData(s, j)
      PROVE  EarlyHasResult'
  <2>1. /\ UNCHANGED <<m_hash_table, content, sent>>
        /\ call["ndn"].step = "idle"
        /\ \/ call'["ndn"] = call["ndn"]
           \/ call'["ndn"].step = "buffer" /\ call'["ndn"].session = s
    BY <1>2, ArrivalMoves DEF OnData, At
  <2>2. buffer'[s] # {} \/ s \notin m_hash_table
    BY <1>2, PayloadMoves DEF OnData
  <2> QED
    BY <2>1, <2>2
<1>3. ASSUME NEW s \in Sessions, NEW j \in Names, OnNoResult(s, j)
      PROVE  EarlyHasResult'
  BY <1>3 DEF OnNoResult
<1>4. ASSUME NEW s \in Sessions, TimerExpires(s)
      PROVE  EarlyHasResult'
  BY <1>4 DEF TimerExpires
<1>5. ASSUME NEW s \in Sessions, TimerCallback(s)
      PROVE  EarlyHasResult'
  <2>1. /\ UNCHANGED <<m_hash_table, buffer, content, sent>>
        /\ call'["ndn"] = call["ndn"]
    BY <1>5 DEF TimerCallback, TypeOK, Threads
  <2> QED
    BY <2>1
<1>6. ASSUME NEW t \in Threads, SendData(t)
      PROVE  EarlyHasResult'
  <2>0. t = "ndn" \/ t = "timer"
    BY DEF Threads
  <2>1. CASE BufferFound(t) \/ PacketFound(t) \/ Dump(t)
    <3>1. /\ UNCHANGED <<m_hash_table, buffer, content, sent>>
          /\ call'[t].session = call[t].session
          /\ \/ /\ call[t].step = "buffer" /\ call'[t].step = "packet"
                /\ call[t].session \in m_hash_table
             \/ call[t].step = "packet" /\ call'[t].step = "copy"
             \/ call[t].step = "dump" /\ call'[t].step = "erase"
          /\ \A u \in Threads \ {t} : call'[u] = call[u]
      BY <2>1, GotoMoves DEF BufferFound, PacketFound, Dump, At
    <3> QED
      BY <2>0, <3>1 DEF Threads
  <2>2. CASE PacketMissing(t)
    BY <2>2 DEF PacketMissing
  <2>3. CASE BufferMissing(t) \/ EraseSession(t)
    <3>1. /\ UNCHANGED <<buffer, content, sent>>
          /\ m_hash_table' \subseteq m_hash_table
          /\ call'[t].session \notin Sessions
          /\ \A u \in Threads \ {t} : call'[u] = call[u]
      BY <2>3, ReturnMoves DEF BufferMissing, EraseSession
    <3> QED
      BY <2>0, <3>1 DEF Threads
  <2>4. CASE SetContent(t)
    <3>1. /\ UNCHANGED <<m_hash_table, buffer, sent>>
          /\ call[t].step = "copy" /\ call'[t].step = "put"
          /\ call'[t].session = call[t].session
          /\ \A u \in Threads \ {t} : call'[u] = call[u]
      BY <2>4, GotoMoves DEF SetContent, At
    <3>2. \A r \in Sessions :
             content'[r] = IF r = call[t].session THEN buffer[r] ELSE content[r]
      BY <2>4 DEF SetContent, TypeOK
    <3> QED
      BY <2>0, <3>1, <3>2 DEF Threads
  <2>5. CASE PutData(t)
    <3>1. /\ UNCHANGED <<m_hash_table, buffer, content>>
          /\ call[t].step = "put" /\ call'[t].step = "dump"
          /\ call'[t].session = call[t].session
          /\ \A u \in Threads \ {t} : call'[u] = call[u]
      BY <2>5, GotoMoves DEF PutData, At
    <3> QED
      BY <2>0, <2>5, <3>1, PutAppends DEF Threads
  <2> QED
    BY <1>6, <2>1, <2>2, <2>3, <2>4, <2>5 DEF SendData
<1>7. CASE UNCHANGED vars
  BY <1>7 DEF vars
<1> QED
  BY <1>1, <1>2, <1>3, <1>4, <1>5, <1>6, <1>7 DEF Next, Work, OnResponse

-----------------------------------------------------------------------------
(* OneAnswerEach: no thread answers a session twice.                       *)

\* Only the thread that puts a Data packet answers, and only its session.
LEMMA PutAnswers ==
    ASSUME TypeOK, NEW t \in Threads, PutData(t), NEW u, NEW r \in Sessions
    PROVE  AnsweredBy(u, r)' =>
              AnsweredBy(u, r) \/ (u = t /\ r = call[t].session)
  BY PutAppends DEF AnsweredBy

\* A thread that had not answered a session leaves it with one answer of its own.
LEMMA PutKeepsOnce ==
    ASSUME TypeOK, NEW t \in Threads, PutData(t), OncePerThread,
           ~AnsweredBy(t, call[t].session)
    PROVE  OncePerThread'
  BY PutAppends DEF OncePerThread, AnsweredBy

LEMMA OneAnswerEachStep ==
    TypeOK /\ OnlyOpened /\ OneAnswerEach /\ [Next]_vars => OneAnswerEach'
<1> SUFFICES ASSUME TypeOK, OnlyOpened, OneAnswerEach, [Next]_vars
             PROVE  OneAnswerEach'
  OBVIOUS
<1> USE DEF OneAnswerEach, InCall, Sending, Leaving
<1>0. UNCHANGED sent => /\ OncePerThread'
                        /\ \A u \in Threads, r \in Sessions :
                              AnsweredBy(u, r)' = AnsweredBy(u, r)
  BY DEF OncePerThread, AnsweredBy
<1>1. ASSUME NEW s \in Sessions, NEW n \in Names, OnInterest(s, n)
      PROVE  OneAnswerEach'
  <2>1. ~AnsweredBy("ndn", s) /\ ~AnsweredBy("timer", s) /\ call["timer"].session # s
    BY <1>1 DEF OnInterest, OnlyOpened, Answered, AnsweredBy, Threads
  <2>2. /\ UNCHANGED <<call, sent>>
        /\ m_hash_table' = m_hash_table \cup {s}
        /\ \A r \in Sessions \ {s} : timer'[r] = timer[r]
    BY <1>1 DEF OnInterest, TypeOK
  <2> QED
    BY <1>0, <2>1, <2>2 DEF Threads
<1>2. ASSUME NEW s \in Sessions, NEW j \in Names, OnData(s, j)
      PROVE  OneAnswerEach'
  <2>1. /\ UNCHANGED <<m_hash_table, timer, sent>>
        /\ call'["timer"] = call["timer"]
        /\ call["ndn"].step = "idle"
        /\ call'["ndn"] = call["ndn"] \/ call'["ndn"].step = "buffer"
    BY <1>2, ArrivalMoves DEF OnData, At
  <2> QED
    BY <1>0, <2>1 DEF Threads
<1>3. ASSUME NEW s \in Sessions, NEW j \in Names, OnNoResult(s, j)
      PROVE  OneAnswerEach'
  BY <1>0, <1>3 DEF OnNoResult, Threads
<1>4. ASSUME NEW s \in Sessions, TimerExpires(s)
      PROVE  OneAnswerEach'
  <2>1. /\ UNCHANGED <<m_hash_table, call, sent>>
        /\ timer[s] = "armed"
        /\ \A r \in Sessions \ {s} : timer'[r] = timer[r]
    BY <1>4 DEF TimerExpires, TypeOK
  <2> QED
    BY <1>0, <2>1 DEF Threads
<1>5. ASSUME NEW s \in Sessions, TimerCallback(s)
      PROVE  OneAnswerEach'
  <2>1. /\ UNCHANGED <<m_hash_table, sent>>
        /\ timer[s] = "queued" /\ timer'[s] = "done"
        /\ \A r \in Sessions \ {s} : timer'[r] = timer[r]
        /\ call'["ndn"] = call["ndn"]
        /\ call'["timer"].step = "buffer" /\ call'["timer"].session = s
    BY <1>5 DEF TimerCallback, TypeOK, Threads
  <2> QED
    BY <1>0, <2>1 DEF Threads
<1>6. ASSUME NEW t \in Threads, SendData(t)
      PROVE  OneAnswerEach'
  <2>0. t = "ndn" \/ t = "timer"
    BY DEF Threads
  <2>1. CASE BufferFound(t) \/ PacketFound(t) \/ SetContent(t) \/ Dump(t)
    <3>1. /\ UNCHANGED <<m_hash_table, timer, sent>>
          /\ call'[t].session = call[t].session
          /\ \/ /\ call[t].step = "buffer" /\ call'[t].step = "packet"
                /\ call[t].session \in m_hash_table
             \/ call[t].step = "packet" /\ call'[t].step = "copy"
             \/ call[t].step = "copy" /\ call'[t].step = "put"
             \/ call[t].step = "dump" /\ call'[t].step = "erase"
          /\ \A u \in Threads \ {t} : call'[u] = call[u]
      BY <2>1, GotoMoves DEF BufferFound, PacketFound, SetContent, Dump, At
    <3> QED
      BY <1>0, <2>0, <3>1 DEF Threads
  <2>2. CASE PacketMissing(t)
    BY <1>0, <2>2 DEF PacketMissing, Threads
  <2>3. CASE BufferMissing(t)
    <3>1. /\ UNCHANGED <<m_hash_table, timer, sent>>
          /\ call[t].step = "buffer"
          /\ call'[t].step = "idle" /\ call'[t].session \notin Sessions
          /\ \A u \in Threads \ {t} : call'[u] = call[u]
      BY <2>3, ReturnMoves DEF BufferMissing, At
    <3> QED
      BY <1>0, <2>0, <3>1 DEF Threads
  <2>4. CASE EraseSession(t)
    <3>1. /\ UNCHANGED sent
          /\ m_hash_table' = m_hash_table \ {call[t].session}
          /\ \A r \in Sessions : timer[r] = "done" => timer'[r] = "done"
          /\ call'[t].step = "idle" /\ call'[t].session \notin Sessions
          /\ \A u \in Threads \ {t} : call'[u] = call[u]
      BY <2>4, ReturnMoves DEF EraseSession, CancelTimer, TypeOK
    <3> QED
      BY <1>0, <2>0, <3>1 DEF Threads
  <2>5. CASE PutData(t)
    <3>1. /\ UNCHANGED <<m_hash_table, timer>>
          /\ call[t].step = "put" /\ call'[t].step = "dump"
          /\ call'[t].session = call[t].session
          /\ \A u \in Threads \ {t} : call'[u] = call[u]
      BY <2>5, GotoMoves DEF PutData, At
    <3>2. \A u \in Threads, r \in Sessions : AnsweredBy(u, r)' =>
             AnsweredBy(u, r) \/ (u = t /\ r = call[t].session)
      BY <2>5, PutAnswers
    <3>3. OncePerThread'
      BY <2>5, <3>1, PutKeepsOnce, PutAppends
    <3> QED
      BY <2>0, <3>1, <3>2, <3>3 DEF Threads
  <2> QED
    BY <1>6, <2>1, <2>2, <2>3, <2>4, <2>5 DEF SendData
<1>7. CASE UNCHANGED vars
  BY <1>0, <1>7 DEF vars, Threads
<1> QED
  BY <1>1, <1>2, <1>3, <1>4, <1>5, <1>6, <1>7 DEF Next, Work, OnResponse

-----------------------------------------------------------------------------
(* EdgeExclusion: in edge mode the threads never meet in one session.      *)

\* Without two threads in one session, no session is missing where the code
\* does not look for it and nothing but the table is accessed by both.
LEMMA EdgeExclusionStep ==
    TypeOK /\ OnlyOpened /\ OneAnswerEach /\ EdgeExclusion /\ [Next]_vars
       => EdgeExclusion'
<1> SUFFICES ASSUME TypeOK, OnlyOpened, OneAnswerEach, EdgeExclusion, [Next]_vars,
                    m_edge_mode = "e", m_edge_mode' = "e"
             PROVE  EdgeExclusion'
  BY DEF EdgeExclusion, Next, vars
<1> USE DEF EdgeExclusion, AnsweredOnce, OnlyDumpRaces, InCall, Sending, Leaving,
            Settled, Answered
<1>0. ASSUME NEW s \in Sessions, NEW t \in Threads, NEW u \in Threads \ {t},
             call[t].session = s, call[u].session = s
      PROVE  s \notin m_hash_table
  BY <1>0 DEF OneAnswerEach, Threads
<1>1. ASSUME NEW s \in Sessions, NEW n \in Names, OnInterest(s, n)
      PROVE  EdgeExclusion'
  <2>1. /\ UNCHANGED <<call, sent>>
        /\ m_hash_table' = m_hash_table \cup {s}
        /\ timer'[s] = "armed"
        /\ \A r \in Sessions \ {s} : timer'[r] = timer[r] /\ pending'[r] = pending[r]
    BY <1>1 DEF OnInterest, TypeOK
  <2>2. sent[s] = <<>>
    BY <1>1 DEF OnInterest, OnlyOpened
  <2>3. fault' \in {"none", "table_race"}
    BY <1>1 DEF OnInterest, TableChange, MayRace
  <2> QED
    BY <2>1, <2>2, <2>3
<1>2. ASSUME NEW s \in Sessions, NEW j \in Names, OnData(s, j)
      PROVE  EdgeExclusion'
  <2>1. /\ UNCHANGED <<m_hash_table, timer, sent>>
        /\ pending[s] # {}
        /\ \A r \in Sessions : pending'[r] \subseteq pending[r]
        /\ call["ndn"].step = "idle"
        /\ call'["timer"] = call["timer"]
        /\ \/ call'["ndn"] = call["ndn"]
           \/ call'["ndn"].step = "buffer" /\ call'["ndn"].session = s
    BY <1>2, ArrivalMoves DEF OnData, At, TypeOK
  <2>2. ~(s \in m_hash_table /\ InCall("timer", s, {"copy"}))
    BY <2>1 DEF OneAnswerEach
  <2>3. fault' = "none"
    BY <1>2, <2>2 DEF OnData, At, AppendPayload, MayRace, Threads
  <2> QED
    BY <2>1, <2>3 DEF Threads
<1>3. ASSUME NEW s \in Sessions, NEW j \in Names, OnNoResult(s, j)
      PROVE  EdgeExclusion'
  <2>1. /\ UNCHANGED <<m_hash_table, timer, sent, call, fault>>
        /\ \A r \in Sessions : pending'[r] \subseteq pending[r]
    BY <1>3 DEF OnNoResult, TypeOK
  <2> QED
    BY <2>1
<1>4. ASSUME NEW s \in Sessions, TimerExpires(s)
      PROVE  EdgeExclusion'
  <2>1. /\ UNCHANGED <<m_hash_table, pending, sent, call, fault>>
        /\ Settled(s)
        /\ \A r \in Sessions \ {s} : timer'[r] = timer[r]
    BY <1>4 DEF TimerExpires, TypeOK
  <2> QED
    BY <2>1
<1>5. ASSUME NEW s \in Sessions, TimerCallback(s)
      PROVE  EdgeExclusion'
  <2>1. /\ UNCHANGED <<m_hash_table, pending, sent, fault>>
        /\ timer[s] = "queued" /\ call["timer"].step = "idle"
        /\ \A r \in Sessions \ {s} : timer'[r] = timer[r]
        /\ call'["ndn"] = call["ndn"]
        /\ call'["timer"].step = "buffer"
    BY <1>5 DEF TimerCallback, TypeOK, At, Threads
  <2> QED
    BY <2>1 DEF Threads
<1>6. ASSUME NEW t \in Threads, SendData(t)
      PROVE  EdgeExclusion'
  <2>0. /\ t = "ndn" \/ t = "timer"
        /\ fault = "none" /\ call[t].step # "idle" /\ call[t].session \in Sessions
    BY <1>6, SessionOfCall DEF SendData, BufferFound, BufferMissing, PacketFound,
       PacketMissing, SetContent, PutData, Dump, EraseSession, At, Threads
  <2>1. CASE BufferFound(t) \/ PacketFound(t) \/ Dump(t)
    <3>1. /\ UNCHANGED <<m_hash_table, timer, pending, sent, fault>>
          /\ call'[t].session = call[t].session
          /\ \/ /\ call[t].step = "buffer" /\ call'[t].step = "packet"
                /\ call[t].session \in m_hash_table
             \/ call[t].step = "packet" /\ call'[t].step = "copy"
             \/ call[t].step = "dump" /\ call'[t].step = "erase"
          /\ \A u \in Threads \ {t} : call'[u] = call[u]
      BY <2>1, GotoMoves DEF BufferFound, PacketFound, Dump, At
    <3>2. call[t].step = "buffer" => ~Answered(call[t].session)
      BY <1>0, <2>0, <3>1
    <3> QED
      BY <2>0, <3>1, <3>2 DEF Threads
  <2>2. CASE BufferMissing(t)
    <3>1. /\ UNCHANGED <<m_hash_table, timer, pending, sent, fault>>
          /\ call[t].step = "buffer"
          /\ call'[t].step = "idle" /\ call'[t].session \notin Sessions
          /\ \A u \in Threads \ {t} : call'[u] = call[u]
      BY <2>2, ReturnMoves DEF BufferMissing, At
    <3> QED
      BY <2>0, <3>1 DEF Threads
  <2>3. CASE PacketMissing(t)
    BY <2>0, <2>3 DEF PacketMissing, At
  <2>4. CASE SetContent(t)
    <3>1. /\ UNCHANGED <<m_hash_table, timer, pending, sent>>
          /\ call[t].step = "copy" /\ call'[t].step = "put"
          /\ call'[t].session = call[t].session
          /\ \A u \in Threads \ {t} : call'[u] = call[u]
      BY <2>4, GotoMoves DEF SetContent, At
    <3>2. fault' = "none"
      BY <1>0, <2>0, <2>4, <3>1
         DEF SetContent, BufferLifetime, PacketAccess, MayRace
    <3> QED
      BY <2>0, <3>1, <3>2 DEF Threads
  <2>5. CASE PutData(t)
    <3>1. /\ UNCHANGED <<m_hash_table, timer, pending>>
          /\ call[t].step = "put" /\ call'[t].step = "dump"
          /\ call'[t].session = call[t].session
          /\ \A u \in Threads \ {t} : call'[u] = call[u]
      BY <2>5, GotoMoves DEF PutData, At
    <3>2. fault' = "none"
      BY <1>0, <2>0, <2>5, <3>1 DEF PutData, PacketAccess, MayRace
    <3>3. AnsweredOnce'
      BY <2>0, <2>5, <3>1 DEF PutData, TypeOK
    <3> QED
      BY <1>0, <2>0, <2>5, <3>1, <3>2, <3>3, PutAppends DEF Threads
  <2>6. CASE EraseSession(t)
    <3>1. /\ UNCHANGED <<pending, sent>>
          /\ call[t].step = "erase"
          /\ m_hash_table' = m_hash_table \ {call[t].session}
          /\ \A r \in Sessions \ {call[t].session} : timer'[r] = timer[r]
          /\ call'[t].step = "idle" /\ call'[t].session \notin Sessions
          /\ \A u \in Threads \ {t} : call'[u] = call[u]
      BY <2>6, ReturnMoves DEF EraseSession, At, TypeOK
    <3>2. fault' \in {"none", "table_race"}
      BY <2>6 DEF EraseSession, TableChange, MayRace
    <3> QED
      BY <1>0, <2>0, <3>1, <3>2 DEF Threads
  <2> QED
    BY <1>6, <2>1, <2>2, <2>3, <2>4, <2>5, <2>6 DEF SendData
<1>7. CASE UNCHANGED vars
  BY <1>7 DEF vars
<1> QED
  BY <1>1, <1>2, <1>3, <1>4, <1>5, <1>6, <1>7 DEF Next, Work, OnResponse

-----------------------------------------------------------------------------
(* CountersOfOne and EarlyHasAll, while sessions are opened one at a time. *)

\* Numbers from 1 to n, as many as n, are all of them.
LEMMA AllNumbers ==
    ASSUME NEW n \in Nat, NEW S \in SUBSET (1 .. n), Cardinality(S) = n
    PROVE  S = 1 .. n
<1>1. IsFiniteSet(1 .. n) /\ Cardinality(1 .. n) = n
  BY FS_Interval
<1> QED
  BY <1>1, FS_Subset

\* One more result that was not there yet is one more to count.
LEMMA OneMore ==
    ASSUME NEW n \in Nat, NEW S \in SUBSET (1 .. n), NEW j, j \notin S
    PROVE  Cardinality(S \cup {j}) = Cardinality(S) + 1
<1>1. IsFiniteSet(1 .. n)
  BY FS_Interval
<1>2. IsFiniteSet(S)
  BY <1>1, FS_Subset
<1> QED
  BY <1>2, FS_AddElement

\* A result comes for the session that awaits results: it is counted, and if it
\* is the last one the ndn thread has all of them.
LEMMA OneAtATimeData ==
    ASSUME TypeOK, OnlyOpened, ResultsBelong, ErasedIsAnswered,
           CountersOfOne, EarlyHasAll,
           NEW s \in Sessions, NEW j \in Names, OnData(s, j)
    PROVE  CountersOfOne' /\ EarlyHasAll'
<1> USE DEF CountersOfOne, EarlyHasAll, InCall, Answered
<1>1. /\ UNCHANGED <<sent, asked, content, m_issued_interest>>
      /\ j \in pending[s] /\ pending'[s] = pending[s] \ {j}
      /\ \A q \in Sessions \ {s} : pending'[q] = {} /\ pending[q] = {}
      /\ call["ndn"] = Idle /\ sent[s] = <<>>
      /\ m_issued_interest = asked[s]
      /\ m_number_of_arrival_interest = Cardinality(buffer[s])
  BY DEF OnData, TypeOK
<1>2. s \in m_hash_table /\ asked[s] \in Nat
  BY <1>1 DEF OnlyOpened, ErasedIsAnswered, NoSilentDrop, TypeOK
<1>3. buffer'[s] = buffer[s] \cup {j} /\ \A q \in Sessions \ {s} : buffer'[q] = buffer[q]
  BY <1>2, PayloadMoves DEF OnData
<1>4. /\ buffer[s] \in SUBSET (1 .. asked[s]) /\ j \notin buffer[s]
      /\ buffer'[s] \in SUBSET (1 .. asked[s])
      /\ pending'[s] \subseteq (1 .. asked[s]) \ buffer'[s]
  BY <1>1, <1>3 DEF ResultsBelong, OnlyOpened
<1>5. Cardinality(buffer'[s]) = Cardinality(buffer[s]) + 1
  BY <1>2, <1>3, <1>4, OneMore
<1>6. /\ m_number_of_arrival_interest' = Cardinality(buffer'[s])
      /\ IF Cardinality(buffer'[s]) = asked[s]
         THEN call' = [call EXCEPT !["ndn"] = [step |-> "buffer", session |-> s]]
         ELSE UNCHANGED call
  BY <1>1, <1>5 DEF OnData, CountArrival, Arrivals
<1>7. \A q \in Sessions : call["ndn"].session # q
  BY <1>1, ProducerAssumption DEF Idle
<1>8. CASE Cardinality(buffer'[s]) = asked[s]
  <2>1. buffer'[s] = 1 .. asked[s]
    BY <1>2, <1>4, <1>8, AllNumbers
  <2>2. call'["ndn"] = [step |-> "buffer", session |-> s]
    BY <1>6, <1>8 DEF TypeOK, Threads
  <2> QED
    BY <1>1, <1>4, <2>1, <2>2
<1>9. CASE Cardinality(buffer'[s]) # asked[s]
  <2>1. call' = call
    BY <1>6, <1>9
  <2> QED
    BY <1>1, <1>6, <1>7, <2>1
<1> QED
  BY <1>8, <1>9

\* The timer thread puts no packet for a session that awaits results, and the
\* ndn thread puts what it has collected.
LEMMA OneAtATimePut ==
    ASSUME TypeOK, OnlyOpened, OneAnswerEach, EdgeExclusion, m_edge_mode = "e",
           CountersOfOne, EarlyHasAll, NEW t \in Threads, PutData(t)
    PROVE  CountersOfOne' /\ EarlyHasAll'
<1> USE DEF InCall
<1> DEFINE s == call[t].session
<1>1. /\ UNCHANGED <<m_hash_table, buffer, content, timer, counters, asked, pending>>
      /\ call[t].step = "put" /\ call'[t].step = "dump" /\ call'[t].session = s
      /\ \A u \in Threads \ {t} : call'[u] = call[u]
      /\ s \in Sessions
  BY GotoMoves, SessionOfCall DEF PutData, At
<1>2. pending[s] = {}
  <2>1. CASE t = "ndn"
    BY <1>1, <2>1 DEF CountersOfOne, Idle
  <2>2. CASE t = "timer"
    <3>1. timer[s] = "done"
      BY <1>1, <2>2 DEF OneAnswerEach
    <3>2. s \in m_hash_table
      BY <1>1 DEF EdgeExclusion, Sending
    <3> QED
      BY <1>1, <3>1, <3>2 DEF EdgeExclusion, Settled
  <2> QED
    BY <2>1, <2>2 DEF Threads
<1>3. CountersOfOne'
  <2> SUFFICES ASSUME NEW r \in Sessions, pending[r] # {}
               PROVE  ~Answered(r)' /\ call'["ndn"] = Idle
    BY <1>1 DEF CountersOfOne, counters
  <2>1. ~Answered(r) /\ call["ndn"] = Idle /\ r # s
    BY <1>2 DEF CountersOfOne
  <2>2. t # "ndn"
    BY <1>1, <2>1 DEF Idle
  <2> QED
    BY <1>1, <2>1, <2>2, PutAppends DEF Answered, Threads
<1>4. EarlyHasAll'
  <2> SUFFICES ASSUME NEW r \in Sessions
               PROVE  /\ call'["ndn"].session = r => buffer[r] = 1 .. asked[r]
                      /\ InCall("ndn", r, {"put"})' => content[r] = 1 .. asked[r]
                      /\ \A i \in DOMAIN sent'[r] :
                            sent'[r][i].by = "ndn" => sent'[r][i].content = 1 .. asked[r]
    BY <1>1 DEF EarlyHasAll
  <2>1. /\ call'["ndn"].session = r => buffer[r] = 1 .. asked[r]
        /\ InCall("ndn", r, {"put"})' => content[r] = 1 .. asked[r]
    BY <1>1 DEF EarlyHasAll, Threads
  <2>2. ASSUME NEW i \in DOMAIN sent'[r], sent'[r][i].by = "ndn"
        PROVE  sent'[r][i].content = 1 .. asked[r]
    <3>1. CASE i \in DOMAIN sent[r] /\ sent'[r][i] = sent[r][i]
      BY <2>2, <3>1 DEF EarlyHasAll
    <3>2. CASE r = s /\ sent'[r][i].by = t /\ sent'[r][i].content = content[r]
      BY <1>1, <2>2, <3>2 DEF EarlyHasAll
    <3> QED
      BY <3>1, <3>2, PutAppends
  <2> QED
    BY <2>1, <2>2
<1> QED
  BY <1>3, <1>4

LEMMA OneAtATimeStep ==
    ASSUME TypeOK, OnlyOpened, ResultsBelong, ErasedIsAnswered, OneAnswerEach,
           EdgeExclusion, m_edge_mode = "e", CountersOfOne, EarlyHasAll,
           [Next]_vars, OpensAlone
    PROVE  CountersOfOne' /\ EarlyHasAll'
<1> USE DEF CountersOfOne, EarlyHasAll, InCall, Answered, counters
<1>1. ASSUME NEW s \in Sessions, NEW n \in Names, OnInterest(s, n)
      PROVE  CountersOfOne' /\ EarlyHasAll'
  <2>1. /\ asked[s] = 0 /\ asked' = [asked EXCEPT ![s] = n] /\ n \in Nat /\ n # 0
        /\ pending' = [pending EXCEPT ![s] = 1 .. n]
        /\ m_number_of_arrival_interest' = 0 /\ m_issued_interest' = n
        /\ UNCHANGED <<buffer, content, call, sent>>
    BY <1>1 DEF OnInterest, ResetCounters, Names
  <2>2. call["ndn"] = Idle /\ \A q \in Sessions : call["ndn"].session # q
    BY <1>1, ProducerAssumption DEF OnInterest, At, TypeOK, Threads, Idle
  <2>3. \A q \in Sessions : asked[q] > 0 => sent[q] # <<>>
    BY <2>1 DEF OpensAlone, TypeOK
  <2>4. \A q \in Sessions : pending[q] = {}
    BY <2>3 DEF OnlyOpened, TypeOK
  <2>5. sent[s] = <<>>
    BY <2>1 DEF OnlyOpened
  <2>6. buffer[s] = {}
    BY <2>1 DEF ResultsBelong
  <2>7. Cardinality(buffer[s]) = 0
    BY <2>6, FS_EmptySet
  <2>8. asked'[s] = n /\ pending'[s] = 1 .. n
        /\ \A q \in Sessions \ {s} : asked'[q] = asked[q] /\ pending'[q] = {}
    BY <2>1, <2>4 DEF TypeOK
  <2>9. CountersOfOne'
    BY <2>1, <2>2, <2>5, <2>7, <2>8
  <2>10. EarlyHasAll'
    BY <2>1, <2>2, <2>5, <2>8
  <2> QED
    BY <2>9, <2>10
<1>2. ASSUME NEW s \in Sessions, NEW j \in Names, OnData(s, j)
      PROVE  CountersOfOne' /\ EarlyHasAll'
  BY <1>2, OneAtATimeData
<1>3. ASSUME NEW s \in Sessions, NEW j \in Names, OnNoResult(s, j)
      PROVE  CountersOfOne' /\ EarlyHasAll'
  <2>1. /\ UNCHANGED <<buffer, content, counters, asked, call, sent>>
        /\ \A r \in Sessions : pending'[r] \subseteq pending[r]
    BY <1>3 DEF OnNoResult, TypeOK
  <2> QED
    BY <2>1
<1>4. ASSUME NEW s \in Sessions, TimerExpires(s) \/ TimerCallback(s)
      PROVE  CountersOfOne' /\ EarlyHasAll'
  <2>1. /\ UNCHANGED <<buffer, content, counters, asked, pending, sent>>
        /\ call'["ndn"] = call["ndn"]
    BY <1>4 DEF TimerExpires, TimerCallback, TypeOK, Threads
  <2> QED
    BY <2>1
<1>5. ASSUME NEW t \in Threads, SendData(t)
      PROVE  CountersOfOne' /\ EarlyHasAll'
  <2>0. /\ t = "ndn" \/ t = "timer"
        /\ call[t].step # "idle" /\ call[t].session \in Sessions
    BY <1>5, SessionOfCall DEF SendData, BufferFound, BufferMissing, PacketFound,
       PacketMissing, SetContent, PutData, Dump, EraseSession, At, Threads
  <2>1. CASE BufferFound(t) \/ PacketFound(t) \/ Dump(t)
    <3>1. /\ UNCHANGED <<buffer, content, counters, asked, pending, sent>>
          /\ call'[t].session = call[t].session /\ call'[t].step # "put"
          /\ \A u \in Threads \ {t} : call'[u] = call[u]
      BY <2>1, GotoMoves DEF BufferFound, PacketFound, Dump, At
    <3> QED
      BY <2>0, <3>1 DEF Threads, Idle
  <2>2. CASE BufferMissing(t) \/ EraseSession(t)
    <3>1. /\ UNCHANGED <<buffer, content, asked, pending, sent>>
          /\ call'[t].session \notin Sessions
          /\ \A u \in Threads \ {t} : call'[u] = call[u]
          /\ t = "timer" => UNCHANGED counters
      BY <2>2, ReturnMoves DEF BufferMissing, EraseSession, Return
    <3>2. CASE t = "ndn"
      BY <2>0, <3>1, <3>2 DEF Threads, Idle
    <3>3. CASE t = "timer"
      BY <3>1, <3>3 DEF Threads
    <3> QED
      BY <2>0, <3>2, <3>3
  <2>3. CASE PacketMissing(t)
    BY <2>3 DEF PacketMissing
  <2>4. CASE SetContent(t)
    <3>1. /\ UNCHANGED <<buffer, counters, asked, pending, sent>>
          /\ call'[t].step = "put" /\ call'[t].session = call[t].session
          /\ \A u \in Threads \ {t} : call'[u] = call[u]
          /\ content'[call[t].session] = buffer[call[t].session]
          /\ \A q \in Sessions \ {call[t].session} : content'[q] = content[q]
      BY <2>0, <2>4, GotoMoves DEF SetContent, At, TypeOK
    <3>2. CountersOfOne'
      BY <2>0, <3>1 DEF Threads, Idle
    <3>3. EarlyHasAll'
      BY <2>0, <3>1 DEF Threads
    <3> QED
      BY <3>2, <3>3
  <2> QED
    BY <1>5, <2>1, <2>2, <2>3, <2>4, OneAtATimePut DEF SendData
<1>6. CASE UNCHANGED vars
  BY <1>6 DEF vars
<1> QED
  BY <1>1, <1>2, <1>3, <1>4, <1>5, <1>6 DEF Next, Work, OnResponse

-----------------------------------------------------------------------------
(* The theorems.                                                           *)

\* The invariants hold in every behaviour of the edge server, in both modes.
THEOREM Invariance ==
    Spec => [](/\ TypeOK /\ OnlyOpened /\ ResultsBelong /\ ErasedIsAnswered
               /\ CountNeverPassed /\ EarlyHasResult /\ OneAnswerEach)
<1>1. Init => OnlyOpened
  <2>1. Init => \A t \in Threads : call[t].session \notin Sessions
    BY ProducerAssumption DEF Init, Idle
  <2> QED
    BY <2>1 DEF Init, OnlyOpened, Answered
<1>2. Init => ResultsBelong
  BY DEF Init, ResultsBelong, AnswersBelong
<1>3. Init => ErasedIsAnswered
  BY DEF Init, ErasedIsAnswered, NoSilentDrop, InCall, Leaving, Threads, Idle
<1>4. Init => CountNeverPassed
  BY DEF Init, CountNeverPassed
<1>5. Init => EarlyHasResult
  BY DEF Init, EarlyHasResult, EarlyAnswerNotEmpty, InCall, Sending, Threads, Idle
<1>6. Init => OneAnswerEach
  BY ProducerAssumption
     DEF Init, OneAnswerEach, OncePerThread, AnsweredBy, InCall, Sending, Threads, Idle
<1> QED
  BY <1>1, <1>2, <1>3, <1>4, <1>5, <1>6, TypeCorrect, OnlyOpenedStep,
     ResultsBelongStep, ErasedIsAnsweredStep, CountStep, EarlyHasResultStep,
     OneAnswerEachStep, PTL DEF Spec

\* A session is only answered with results of its own that had arrived.
THEOREM NoMixedAnswers == Spec => []AnswersBelong
<1>1. ResultsBelong => AnswersBelong
  BY DEF ResultsBelong
<1> QED
  BY <1>1, Invariance, PTL

\* A session is never erased before a Data packet was put for it.
THEOREM NoSessionDropped == Spec => []NoSilentDrop
<1>1. ErasedIsAnswered => NoSilentDrop
  BY DEF ErasedIsAnswered
<1> QED
  BY <1>1, Invariance, PTL

\* The answer of the ndn thread is never empty.
THEOREM NoEmptyEarlyAnswer == Spec => []EarlyAnswerNotEmpty
<1>1. EarlyHasResult => EarlyAnswerNotEmpty
  BY DEF EarlyHasResult
<1> QED
  BY <1>1, Invariance, PTL

\* A session is answered at most once by each of the two threads.
THEOREM NoThreadAnswersTwice == Spec => []OncePerThread
<1>1. OneAnswerEach => OncePerThread
  BY DEF OneAnswerEach
<1> QED
  BY <1>1, Invariance, PTL

\* No count steps over the number of Interests that were issued.
THEOREM NoCountPassed == Spec => []CountNeverPassed
  BY Invariance, PTL

\* The invariant of edge mode holds in every behaviour.
LEMMA EdgeInvariance == Spec => []EdgeExclusion
<1>1. Init => EdgeExclusion
  BY DEF Init, EdgeExclusion, AnsweredOnce, OnlyDumpRaces, InCall, Sending,
     Leaving, Settled, Answered, Threads, Idle
<1> QED
  BY <1>1, EdgeExclusionStep, Invariance, PTL DEF Spec

\* In edge mode a session is answered at most once: the lifetime of an Interest
\* keeps the two threads out of each other's session.
THEOREM EdgeModeAnswersOnce == Spec => []AnsweredOnce
<1>1. EdgeExclusion => AnsweredOnce
  BY DEF EdgeExclusion, AnsweredOnce
<1> QED
  BY <1>1, EdgeInvariance, PTL

\* In edge mode the unlocked walk of dump is the only undefined behaviour in reach.
THEOREM EdgeModeOnlyDumpRaces == Spec => []OnlyDumpRaces
<1>1. EdgeExclusion => OnlyDumpRaces
  BY DEF EdgeExclusion, OnlyDumpRaces
<1> QED
  BY <1>1, EdgeInvariance, PTL

-----------------------------------------------------------------------------
(* The edge server implements QueryService.                                *)

\* A step that leaves the sessions, the buffers and the answers alone is inner
\* work of the service, or the breakdown.
LEMMA InnerStep ==
    ASSUME TypeOK, TypeOK', fault = "none", UNCHANGED <<asked, buffer, sent>>
    PROVE  Service!Next
  BY DEF Service!Next, Service!Inner, Answered

\* Every step of the edge server is a step of the service.
LEMMA ServiceStep ==
    TypeOK /\ TypeOK' /\ OnlyOpened /\ ResultsBelong /\ [Next]_vars
        => [Service!Next]_Service!vars
<1> SUFFICES ASSUME TypeOK, TypeOK', OnlyOpened, ResultsBelong, [Next]_vars
             PROVE  [Service!Next]_Service!vars
  OBVIOUS
<1>1. ASSUME NEW s \in Sessions, NEW n \in Names, OnInterest(s, n)
      PROVE  Service!Next
  <2>1. n \in Service!Places /\ Service!Ask(s, n)
    BY <1>1 DEF OnInterest, Service!Places, Service!Ask, Names, Answered
  <2> QED
    BY <1>1, <2>1 DEF Service!Next, OnInterest, At
<1>2. ASSUME NEW s \in Sessions, NEW j \in Names, OnData(s, j)
      PROVE  Service!Next
  <2>1. fault = "none" /\ UNCHANGED <<asked, sent>>
    BY <1>2 DEF OnData, At
  <2>2. CASE s \in m_hash_table
    <3>1. buffer' = [buffer EXCEPT ![s] = @ \cup {j}]
      BY <1>2, <2>2 DEF OnData, AppendPayload
    <3>2. j \in 1 .. asked[s] /\ j \notin buffer[s]
      BY <1>2 DEF OnData, OnlyOpened, ResultsBelong
    <3>3. j \in Service!Places /\ Service!Collect(s, j)
      BY <2>1, <3>1, <3>2 DEF Service!Places, Service!Collect, Names, Answered
    <3> QED
      BY <2>1, <3>3 DEF Service!Next
  <2>3. CASE s \notin m_hash_table
    BY <1>2, <2>1, <2>3, InnerStep DEF OnData, AppendPayload
  <2> QED
    BY <2>2, <2>3
<1>3. ASSUME NEW s \in Sessions,
             \/ \E j \in Names : OnNoResult(s, j)
             \/ TimerExpires(s) \/ TimerCallback(s)
      PROVE  Service!Next
  BY <1>3, InnerStep DEF OnNoResult, TimerExpires, TimerCallback, At
<1>4. ASSUME NEW t \in Threads, SendData(t)
      PROVE  Service!Next
  <2>1. CASE PutData(t)
    <3>0. PICK s \in Sessions : s = call[t].session
      BY <2>1, PutAppends
    <3> DEFINE a == [by |-> t, content |-> content[s]]
    <3>1. fault = "none" /\ UNCHANGED <<asked, buffer>>
      BY <2>1 DEF PutData, At
    <3>2. sent' = [sent EXCEPT ![s] = Append(@, a)]
      BY <2>1, <3>0 DEF PutData
    <3>3. sent[s] \in Seq(Answers) /\ a \in Answers
      BY <3>1 DEF TypeOK, Answers
    <3>4. asked[s] > 0
      BY <3>0 DEF OnlyOpened
    <3>5. CASE sent[s] = <<>>
      <4>1. sent'[s] # <<>> /\ sent'[s][1].content = content[s]
        BY <3>1, <3>2, <3>3, <3>5 DEF TypeOK
      <4>2. content[s] \in SUBSET buffer[s]
        BY <3>1 DEF ResultsBelong
      <4>3. Service!Reply(s)
        BY <3>1, <3>2, <3>4, <3>5, <4>1, <4>2, ZenonT(60) DEF Service!Reply, Answered, TypeOK
      <4> QED
        BY <3>1, <4>3 DEF Service!Next
    <3>6. CASE sent[s] # <<>>
      <4>1. sent'[s] # <<>> /\ sent'[s][1] = sent[s][1]
        <5>1. sent'[s] = Append(sent[s], a)
          BY <3>1, <3>2 DEF TypeOK
        <5>2. Len(sent[s]) >= 1
          BY <3>3, <3>6
        <5> QED
          BY <3>3, <5>1, <5>2
      <4>2. \A r \in Sessions : /\ Answered(r)' <=> Answered(r)
                                /\ Answered(r) => sent'[r][1] = sent[r][1]
        BY <3>1, <3>2, <3>6, <4>1 DEF TypeOK, Answered
      <4> QED
        BY <3>1, <4>2 DEF Service!Next, Service!Inner
    <3> QED
      BY <3>5, <3>6
  <2>2. CASE \/ BufferFound(t) \/ BufferMissing(t) \/ PacketFound(t)
             \/ PacketMissing(t) \/ SetContent(t) \/ Dump(t) \/ EraseSession(t)
    BY <2>2, InnerStep DEF BufferFound, BufferMissing, PacketFound, PacketMissing,
       SetContent, Dump, EraseSession, At
  <2> QED
    BY <1>4, <2>1, <2>2 DEF SendData
<1>5. CASE UNCHANGED vars
  BY <1>5 DEF vars, Service!vars, Answered
<1> QED
  BY <1>1, <1>2, <1>3, <1>4, <1>5 DEF Next, Work, OnResponse

\* The edge server implements the abstract service: its first answer to a
\* session is the service's one reply to the query.
THEOREM Implementation == Spec => ImplementsService
<1>1. Init => Service!Init
  BY DEF Init, Service!Init, Answered
<1> QED
  BY <1>1, ServiceStep, Invariance, PTL DEF Spec, ImplementsService, Service!Spec
=============================================================================
