-------------------------- MODULE CrowdSensingProofs --------------------------
(***************************************************************************)
(* Theorems about CrowdSensing, for every number of pages, requests and    *)
(* location names.  The theorems about Producer carry over to the server   *)
(* that works together with the pages.                                     *)
(***************************************************************************)
EXTENDS CrowdSensingInvariant, FiniteSetTheorems, WellFoundedInduction, TLAPS

EdgeProofs == INSTANCE ProducerProofs WITH Sessions <- Requests

-----------------------------------------------------------------------------
(* The edge server in the system is the Producer of ProducerProofs.        *)

LEMMA SameTypes == EdgeProofs!TypeOK <=> Edge!TypeOK
  BY DEF EdgeProofs!TypeOK, EdgeProofs!Names, EdgeProofs!Threads, EdgeProofs!Steps,
         EdgeProofs!Timers, EdgeProofs!Faults, EdgeProofs!Answers, EdgeProofs!Idle,
         Edge!TypeOK, Edge!Names, Edge!Threads, Edge!Steps,
         Edge!Timers, Edge!Faults, Edge!Answers, Edge!Idle

LEMMA SameInit == EdgeProofs!Init <=> Edge!Init
  BY DEF EdgeProofs!Init, EdgeProofs!Threads, EdgeProofs!Idle,
         Edge!Init, Edge!Threads, Edge!Idle

LEMMA SameInterest ==
    ASSUME NEW r, NEW n
    PROVE  EdgeProofs!OnInterest(r, n) <=> Edge!OnInterest(r, n)
  BY DEF EdgeProofs!OnInterest, EdgeProofs!At, EdgeProofs!ResetCounters,
         EdgeProofs!TableChange, EdgeProofs!MayRace, EdgeProofs!Threads,
         Edge!OnInterest, Edge!At, Edge!ResetCounters, Edge!TableChange,
         Edge!MayRace, Edge!Threads

LEMMA SameWork == EdgeProofs!Work <=> Edge!Work
  BY DEF EdgeProofs!Work, EdgeProofs!OnResponse, EdgeProofs!OnData,
         EdgeProofs!OnNoResult, EdgeProofs!AppendPayload, EdgeProofs!CountArrival,
         EdgeProofs!Arrivals, EdgeProofs!TimerExpires, EdgeProofs!Settled,
         EdgeProofs!TimerCallback, EdgeProofs!SendData, EdgeProofs!BufferFound,
         EdgeProofs!BufferMissing, EdgeProofs!PacketFound, EdgeProofs!PacketMissing,
         EdgeProofs!SetContent, EdgeProofs!PutData, EdgeProofs!Dump,
         EdgeProofs!EraseSession, EdgeProofs!BufferLifetime, EdgeProofs!CancelTimer,
         EdgeProofs!PacketAccess, EdgeProofs!TableChange, EdgeProofs!MayRace,
         EdgeProofs!Return, EdgeProofs!Goto, EdgeProofs!At, EdgeProofs!Names,
         EdgeProofs!Threads, EdgeProofs!Idle, EdgeProofs!counters,
         Edge!Work, Edge!OnResponse, Edge!OnData,
         Edge!OnNoResult, Edge!AppendPayload, Edge!CountArrival,
         Edge!Arrivals, Edge!TimerExpires, Edge!Settled,
         Edge!TimerCallback, Edge!SendData, Edge!BufferFound,
         Edge!BufferMissing, Edge!PacketFound, Edge!PacketMissing,
         Edge!SetContent, Edge!PutData, Edge!Dump,
         Edge!EraseSession, Edge!BufferLifetime, Edge!CancelTimer,
         Edge!PacketAccess, Edge!TableChange, Edge!MayRace,
         Edge!Return, Edge!Goto, Edge!At, Edge!Names,
         Edge!Threads, Edge!Idle, Edge!counters

\* What a step of the system is for the edge server.
LEMMA EdgeStep ==
    ASSUME [SystemNext]_allVars
    PROVE  [EdgeProofs!Next]_(EdgeProofs!vars)
<1>1. ASSUME NEW r \in Requests, InterestArrives(r) PROVE EdgeProofs!Next
  <2>1. PICK n \in Edge!Names : Edge!OnInterest(r, n)
    BY <1>1 DEF InterestArrives
  <2>2. EdgeProofs!OnInterest(r, n) /\ n \in EdgeProofs!Names
    BY <2>1, SameInterest DEF Edge!Names, EdgeProofs!Names
  <2> QED
    BY <1>1, <2>2 DEF InterestArrives, EdgeProofs!Next
<1>2. CASE EdgeWorks
  BY <1>2, SameWork DEF EdgeWorks, EdgeProofs!Next
<1>3. ASSUME UNCHANGED edgeVars PROVE UNCHANGED EdgeProofs!vars
  BY <1>3 DEF edgeVars, EdgeProofs!vars, EdgeProofs!counters
<1>4. \/ \E r \in Requests : InterestArrives(r)
      \/ EdgeWorks
      \/ UNCHANGED edgeVars
  BY DEF SystemNext, UserActs, PageAsks, RequestMoves, InterestLost, DataArrives,
         DataLost, PageTimesOut, allVars
<1> QED
  BY <1>1, <1>2, <1>3, <1>4

LEMMA EdgeTypesStep ==
    ASSUME Edge!TypeOK, [SystemNext]_allVars
    PROVE  Edge!TypeOK'
<1>1. EdgeProofs!TypeOK /\ [EdgeProofs!Next]_(EdgeProofs!vars)
  BY EdgeStep, SameTypes
<1>2. EdgeProofs!TypeOK'
  BY <1>1, SystemAssumption, EdgeProofs!TypeStep DEF EdgeProofs!ProducerAssumption
<1>3. EdgeProofs!TypeOK' <=> Edge!TypeOK'
  BY DEF EdgeProofs!TypeOK, EdgeProofs!Names, EdgeProofs!Threads, EdgeProofs!Steps,
         EdgeProofs!Timers, EdgeProofs!Faults, EdgeProofs!Answers, EdgeProofs!Idle,
         Edge!TypeOK, Edge!Names, Edge!Threads, Edge!Steps,
         Edge!Timers, Edge!Faults, Edge!Answers, Edge!Idle
<1> QED
  BY <1>2, <1>3

\* In edge mode the server puts at most one Data packet for a request, whatever
\* the pages do and whatever is lost between them.
THEOREM RequestAnsweredOnce == System => []Edge!AnsweredOnce
<1>1. SystemInit => EdgeProofs!Init
  BY SameInit DEF SystemInit
<1>2. [SystemNext]_allVars => [EdgeProofs!Next]_(EdgeProofs!vars)
  BY EdgeStep
<1>3. EdgeProofs!Spec => []EdgeProofs!AnsweredOnce
  BY SystemAssumption, EdgeProofs!EdgeModeAnswersOnce
  DEF EdgeProofs!ProducerAssumption
<1>4. EdgeProofs!AnsweredOnce <=> Edge!AnsweredOnce
  BY DEF EdgeProofs!AnsweredOnce, Edge!AnsweredOnce
<1> QED
  BY <1>1, <1>2, <1>3, <1>4, PTL DEF System, EdgeProofs!Spec

LEMMA SameServiceInit == EdgeProofs!Service!Init <=> Edge!Service!Init
  BY DEF EdgeProofs!Service!Init, EdgeProofs!Answered, Edge!Service!Init, Edge!Answered

LEMMA SameServiceNext ==
    [EdgeProofs!Service!Next]_(EdgeProofs!Service!vars) <=> [Edge!Service!Next]_(Edge!Service!vars)
  BY DEF EdgeProofs!Service!Next, EdgeProofs!Service!Ask, EdgeProofs!Service!Collect,
         EdgeProofs!Service!Reply, EdgeProofs!Service!Inner, EdgeProofs!Service!Places,
         EdgeProofs!Service!vars, EdgeProofs!Answered,
         Edge!Service!Next, Edge!Service!Ask, Edge!Service!Collect,
         Edge!Service!Reply, Edge!Service!Inner, Edge!Service!Places,
         Edge!Service!vars, Edge!Answered

\* The server that works with the pages implements the abstract query service.
THEOREM PagesAreServed == System => Edge!ImplementsService
<1>1. SystemInit => EdgeProofs!Init
  BY SameInit DEF SystemInit
<1>2. [SystemNext]_allVars => [EdgeProofs!Next]_(EdgeProofs!vars)
  BY EdgeStep
<1>3. EdgeProofs!Spec => EdgeProofs!ImplementsService
  BY SystemAssumption, EdgeProofs!Implementation DEF EdgeProofs!ProducerAssumption
<1> QED
  BY <1>1, <1>2, <1>3, SameServiceInit, SameServiceNext, PTL
  DEF System, EdgeProofs!Spec, EdgeProofs!ImplementsService, Edge!ImplementsService,
      EdgeProofs!Service!Spec, Edge!Service!Spec

-----------------------------------------------------------------------------
(* The pages.                                                              *)

\* What a step of the system is for the pages.
LEMMA PageStep ==
    ASSUME [SystemNext]_allVars
    PROVE  \/ \E c \in Clients, input \in Inputs : RegisterTarget(c, input[1], input[2])
           \/ \E c \in Clients : Reload(c)
           \/ \E c \in Clients, r \in Requests :
                 \/ SendRequest(c, r)
                 \/ \E payload \in Payloads(r) : OnData(c, r, payload)
                 \/ OnTimeout(c, r)
           \/ UNCHANGED clientVars
  BY DEF SystemNext, UserActs, PageAsks, RequestMoves, InterestArrives, InterestLost,
         DataArrives, DataLost, PageTimesOut, EdgeWorks, allVars

LEMMA PageTypesStep ==
    ASSUME TypeOK, [SystemNext]_allVars
    PROVE  TypeOK'
<1>1. ASSUME NEW c \in Clients, NEW input \in Inputs,
             RegisterTarget(c, input[1], input[2])
      PROVE  TypeOK'
  <2>1. input[1] \in Targets /\ input[2] \in Targets
    BY ClientAssumption
  <2> QED
    BY <1>1, <2>1 DEF RegisterTarget, TypeOK
<1>2. ASSUME NEW c \in Clients, Reload(c) PROVE TypeOK'
  BY <1>2, ClientAssumption DEF Reload, Blank, TypeOK
<1>3. ASSUME NEW c \in Clients, NEW r \in Requests, SendRequest(c, r) PROVE TypeOK'
  BY <1>3 DEF SendRequest, TypeOK
<1>4. ASSUME NEW c \in Clients, NEW r \in Requests, NEW payload \in Payloads(r),
             OnData(c, r, payload)
      PROVE  TypeOK'
  <2>1. Marked(c, payload) \in [Cells -> 0 .. 2]
    BY <1>4 DEF Marked, Mark, TypeOK
  <2>2. isFinding' \in [Clients -> BOOLEAN]
    <3>1. (isFinding[c] /\ ~Completes(c, payload)) \in BOOLEAN
      OBVIOUS
    <3> QED
      BY <1>4, <3>1, Zenon DEF OnData, TypeOK
  <2>3. UNCHANGED <<target, CD, targetList, asks>>
        /\ waiting' = [waiting EXCEPT ![c] = @ \ {r}]
        /\ cellsArray' = [cellsArray EXCEPT ![c] = Marked(c, payload)]
    BY <1>4 DEF OnData
  <2> QED
    BY <2>1, <2>2, <2>3 DEF TypeOK
<1>5. ASSUME NEW c \in Clients, NEW r \in Requests, OnTimeout(c, r) PROVE TypeOK'
  BY <1>5 DEF OnTimeout, TypeOK
<1>6. CASE UNCHANGED clientVars
  BY <1>6 DEF clientVars, vars, TypeOK
<1> QED
  BY <1>1, <1>2, <1>3, <1>4, <1>5, <1>6, PageStep

\* What a page keeps has its type.
THEOREM PagesTypeCorrect == System => []TypeOK
<1>1. SystemInit => TypeOK
  BY ClientAssumption DEF SystemInit, Init, Blank, TypeOK
<1> QED
  BY <1>1, PageTypesStep, PTL DEF System

LEMMA OneWaitingStep ==
    ASSUME TypeOK, OneWaiting, [SystemNext]_allVars
    PROVE  OneWaiting'
<1>1. ASSUME NEW c \in Clients, NEW input \in Inputs,
             RegisterTarget(c, input[1], input[2])
      PROVE  OneWaiting'
  BY <1>1 DEF RegisterTarget, OneWaiting
<1>2. ASSUME NEW c \in Clients, Reload(c) PROVE OneWaiting'
  BY <1>2 DEF Reload, OneWaiting, TypeOK
<1>3. ASSUME NEW c \in Clients, NEW r \in Requests, SendRequest(c, r)
      PROVE  OneWaiting'
  <2>1. waiting[c] = {}
    BY <1>3 DEF SendRequest, Ready, OneWaiting
  <2>2. waiting'[c] = {r} /\ isFinding'[c]
    BY <1>3, <2>1 DEF SendRequest, TypeOK
  <2> QED
    BY <1>3, <2>2 DEF SendRequest, OneWaiting, TypeOK
<1>4. ASSUME NEW c \in Clients, NEW r \in waiting[c],
             waiting' = [waiting EXCEPT ![c] = @ \ {r}],
             \A d \in Clients \ {c} : isFinding'[d] = isFinding[d]
      PROVE  OneWaiting'
  <2>1. waiting'[c] = {}
    BY <1>4 DEF OneWaiting, TypeOK
  <2> QED
    BY <1>4, <2>1 DEF OneWaiting, TypeOK
<1>5. ASSUME NEW c \in Clients, NEW r \in Requests,
             (\E payload \in Payloads(r) : OnData(c, r, payload)) \/ OnTimeout(c, r)
      PROVE  OneWaiting'
  <2>1. r \in waiting[c] /\ waiting' = [waiting EXCEPT ![c] = @ \ {r}]
    BY <1>5 DEF OnData, OnTimeout
  <2>2. \A d \in Clients \ {c} : isFinding'[d] = isFinding[d]
    BY <1>5 DEF OnData, OnTimeout, TypeOK
  <2> QED
    BY <1>4, <2>1, <2>2
<1>6. CASE UNCHANGED clientVars
  BY <1>6 DEF clientVars, vars, OneWaiting
<1> QED
  BY <1>1, <1>2, <1>3, <1>5, <1>6, PageStep

LEMMA OneWaitingInit ==
    ASSUME SystemInit
    PROVE  OneWaiting
  BY DEF SystemInit, Init, OneWaiting

\* No page has two Interests under way.
THEOREM OneRequestPerPage == System => []OneRequest
<1>1. ASSUME OneWaiting PROVE OneRequest
  <2> SUFFICES ASSUME NEW c \in Clients
               PROVE  /\ waiting[c] # {} => isFinding[c]
                      /\ Cardinality(waiting[c]) <= 1
    BY DEF OneRequest
  <2>1. CASE waiting[c] = {}
    BY <2>1, FS_EmptySet
  <2>2. CASE waiting[c] # {}
    <3>1. isFinding[c] /\ \E r \in Requests : waiting[c] = {r}
      BY <1>1, <2>2 DEF OneWaiting
    <3>2. PICK r \in Requests : waiting[c] = {r}
      BY <3>1
    <3>3. Cardinality({r}) = 1
      BY FS_Singleton
    <3> QED
      BY <3>1, <3>2, <3>3
  <2> QED
    BY <2>1, <2>2
<1> QED
  BY <1>1, OneWaitingInit, OneWaitingStep, PagesTypeCorrect, PTL DEF System

-----------------------------------------------------------------------------
(* The sessions of the server that were not answered yet.                  *)

LEMMA AwaitedBounds ==
    ASSUME OneWaiting, Edge!TypeOK, OnlyDelivered, Awaited
    PROVE  OpenSessionsBounded
<1> DEFINE f == [r \in Unanswered |-> CHOOSE c \in Clients : r \in waiting[c]]
<1>1. \A r \in Unanswered : f[r] \in Clients /\ r \in waiting[f[r]]
  <2> SUFFICES ASSUME NEW r \in Unanswered
               PROVE  f[r] \in Clients /\ r \in waiting[f[r]]
    OBVIOUS
  <2>1. \E c \in Clients : r \in waiting[c]
    BY DEF Unanswered, OnlyDelivered, Awaited, Edge!TypeOK
  <2> QED
    BY <2>1
<1>2. \A r, q \in Unanswered : f[r] = f[q] => r = q
  <2> HIDE DEF f
  <2> QED
    BY <1>1 DEF OneWaiting
<1>3. f \in Injection(Unanswered, Clients)
  BY <1>1, <1>2 DEF Injection, IsInjective
<1>4. Cardinality(Unanswered) <= Cardinality(Clients)
  BY <1>3, SystemAssumption, FS_Injection
<1> QED
  BY <1>4 DEF Unanswered, OpenSessionsBounded

\* The server's own steps open no session and take no answer back.
LEMMA WorkAnswers ==
    ASSUME Edge!TypeOK, Edge!Work
    PROVE  fault = "none" /\ Unanswered' \subseteq Unanswered
<1>1. ASSUME NEW t \in Edge!Threads, Edge!PutData(t)
      PROVE  fault = "none" /\ Unanswered' \subseteq Unanswered
  <2> DEFINE s == call[t].session
             packet == [by |-> t, content |-> content[s]]
  <2>1. fault = "none" /\ m_hash_table' = m_hash_table
        /\ sent' = [sent EXCEPT ![s] = Append(@, packet)]
    BY <1>1 DEF Edge!PutData, Edge!At
  <2>2. sent \in [Requests -> Seq(Edge!Answers)]
    BY DEF Edge!TypeOK
  <2>3. packet \in Edge!Answers
    <3>1. call[t] \in [step : Edge!Steps \ {"idle"}, session : Requests]
      BY <1>1 DEF Edge!PutData, Edge!At, Edge!Idle, Edge!TypeOK
    <3>2. content[s] \in SUBSET Edge!Names
      BY <3>1 DEF Edge!TypeOK
    <3> QED
      BY <3>2 DEF Edge!Answers
  <2>4. \A r \in Requests : sent[r] # <<>> => sent'[r] # <<>>
    <3> HIDE DEF s, packet
    <3>1. \A r \in Requests : sent'[r] = IF r = s THEN Append(sent[r], packet)
                                                ELSE sent[r]
      BY <2>1, <2>2
    <3>2. ASSUME NEW q \in Seq(Edge!Answers) PROVE Append(q, packet) # <<>>
      <4> DEFINE Packets == Edge!Answers
      <4> HIDE DEF Packets
      <4>1. q \in Seq(Packets) /\ packet \in Packets
        BY <2>3 DEF Packets
      <4>2. Len(Append(q, packet)) = Len(q) + 1 /\ Len(q) \in Nat
        BY <4>1
      <4> QED
        BY <4>2
    <3> QED
      BY <2>2, <3>1, <3>2
  <2> QED
    BY <2>1, <2>4 DEF Unanswered, Edge!Answered, Edge!TypeOK
<1>2. CASE \E t \in Edge!Threads : Edge!SendData(t)
  BY <1>1, <1>2 DEF Edge!SendData, Edge!BufferFound, Edge!BufferMissing,
     Edge!PacketFound, Edge!PacketMissing, Edge!SetContent, Edge!Dump,
     Edge!EraseSession, Edge!At, Unanswered, Edge!Answered
<1>3. CASE \E s \in Requests : \/ Edge!OnResponse(s) \/ Edge!TimerExpires(s)
                              \/ Edge!TimerCallback(s)
  BY <1>3 DEF Edge!OnResponse, Edge!OnData, Edge!OnNoResult, Edge!TimerExpires,
     Edge!TimerCallback, Edge!At, Unanswered, Edge!Answered
<1> QED
  BY <1>2, <1>3 DEF Edge!Work

LEMMA StageStep ==
    ASSUME stage \in [Requests -> Stages], [SystemNext]_allVars
    PROVE  stage' \in [Requests -> Stages]
  BY DEF SystemNext, UserActs, PageAsks, RequestMoves, InterestArrives, InterestLost,
     DataArrives, DataLost, PageTimesOut, EdgeWorks, allVars, Move, Stages

LEMMA DeliveredStep ==
    ASSUME SessionsInv, [SystemNext]_allVars
    PROVE  OnlyDelivered'
<1> USE DEF SessionsInv
<1>1. ASSUME NEW r \in Requests, InterestArrives(r) PROVE OnlyDelivered'
  <2>1. m_hash_table' = m_hash_table \cup {r} /\ sent' = sent
    BY <1>1 DEF InterestArrives, Edge!OnInterest
  <2>2. stage' = [stage EXCEPT ![r] = "open"]
    BY <1>1 DEF InterestArrives, Move
  <2> QED
    BY <2>1, <2>2 DEF OnlyDelivered, Unanswered, Edge!Answered
<1>2. CASE EdgeWorks
  BY <1>2, WorkAnswers DEF EdgeWorks, OnlyDelivered
<1>3. ASSUME NEW r \in Requests, UNCHANGED edgeVars,
             Edge!Answered(r) \/ stage[r] # "open",
             \A q \in Requests \ {r} : stage'[q] = stage[q]
      PROVE  OnlyDelivered'
  BY <1>3 DEF edgeVars, OnlyDelivered, Unanswered, Edge!Answered, Edge!TypeOK
<1>4. ASSUME NEW r \in Requests,
             \/ InterestLost(r) \/ DataLost(r)
             \/ \E c \in Clients : PageAsks(c, r) \/ DataArrives(c, r)
      PROVE  OnlyDelivered'
  <2>1. UNCHANGED edgeVars /\ (Edge!Answered(r) \/ stage[r] # "open")
    BY <1>4 DEF InterestLost, DataLost, PageAsks, DataArrives, Move
  <2>2. \A q \in Requests \ {r} : stage'[q] = stage[q]
    BY <1>4 DEF InterestLost, DataLost, PageAsks, DataArrives, Move
  <2> QED
    BY <1>3, <2>1, <2>2
<1>5. CASE UNCHANGED <<edgeVars, stage>>
  BY <1>5 DEF edgeVars, OnlyDelivered, Unanswered, Edge!Answered
<1> QED
  BY <1>1, <1>2, <1>4, <1>5
  DEF SystemNext, UserActs, RequestMoves, PageTimesOut, allVars

\* Without reloads a page waits until its request is answered or lost.
LEMMA AwaitedStep ==
    ASSUME ~UsersReload, TypeOK, SessionsInv, fault = "none", [SystemNext]_allVars
    PROVE  Awaited'
<1> USE DEF SessionsInv
<1>1. ASSUME NEW c \in Clients, NEW r \in Requests, PageAsks(c, r)
      PROVE  Awaited'
  <2>1. waiting' = [waiting EXCEPT ![c] = @ \cup {r}]
        /\ stage' = [stage EXCEPT ![r] = "sent"]
    BY <1>1 DEF PageAsks, SendRequest, Move
  <2> QED
    BY <2>1 DEF Awaited, TypeOK
<1>2. ASSUME NEW r \in Requests, NEW c \in Clients,
             DataArrives(c, r) \/ PageTimesOut(c, r)
      PROVE  Awaited'
  <2>1. waiting' = [waiting EXCEPT ![c] = @ \ {r}]
    BY <1>2 DEF DataArrives, PageTimesOut, OnData, OnTimeout
  <2>2. stage'[r] \in {"over", "lost"}
        /\ \A q \in Requests \ {r} : stage'[q] = stage[q]
    BY <1>2 DEF DataArrives, PageTimesOut, NothingComes, Move
  <2> QED
    BY <2>1, <2>2 DEF Awaited, TypeOK
<1>3. ASSUME NEW r \in Requests, InterestArrives(r) \/ InterestLost(r) \/ DataLost(r)
      PROVE  Awaited'
  <2>1. UNCHANGED waiting
    BY <1>3 DEF InterestArrives, InterestLost, DataLost, clientVars, vars
  <2>2. /\ stage[r] \in {"sent", "open"}
        /\ \A q \in Requests \ {r} : stage'[q] = stage[q]
    BY <1>3 DEF InterestArrives, InterestLost, DataLost, Move
  <2> QED
    BY <2>1, <2>2 DEF Awaited
<1>4. CASE EdgeWorks \/ (\E c \in Clients : UserActs(c)) \/ UNCHANGED allVars
  BY <1>4 DEF EdgeWorks, UserActs, RegisterTarget, clientVars, vars, allVars, Awaited
<1> QED
  BY <1>1, <1>2, <1>3, <1>4 DEF SystemNext, RequestMoves

LEMMA SessionsStep ==
    ASSUME ~UsersReload, TypeOK, OneWaiting, SessionsInv, [SystemNext]_allVars
    PROVE  SessionsInv'
<1>1. Edge!TypeOK' /\ stage' \in [Requests -> Stages] /\ OnlyDelivered'
  BY EdgeTypesStep, StageStep, DeliveredStep DEF SessionsInv
<1>2. OneWaiting'
  BY OneWaitingStep
<1>3. CASE fault = "none"
  <2>1. Awaited'
    BY <1>3, AwaitedStep
  <2>2. (OneWaiting /\ Edge!TypeOK /\ OnlyDelivered /\ Awaited => OpenSessionsBounded)'
    BY AwaitedBounds, PTL
  <2> QED
    BY <1>1, <1>2, <2>1, <2>2 DEF SessionsInv
<1>4. CASE fault # "none"
  <2>1. UNCHANGED edgeVars
    <3>1. ~EdgeWorks
      BY <1>4, WorkAnswers DEF EdgeWorks, SessionsInv
    <3>2. ~\E r \in Requests : InterestArrives(r)
      BY <1>4 DEF InterestArrives, Edge!OnInterest, Edge!At
    <3> QED
      BY <3>1, <3>2 DEF SystemNext, UserActs, PageAsks, RequestMoves, InterestLost,
         DataArrives, DataLost, PageTimesOut, allVars
  <2> QED
    BY <1>1, <1>4, <2>1 DEF edgeVars, SessionsInv, OpenSessionsBounded, Edge!Answered
<1> QED
  BY <1>3, <1>4

LEMMA SessionsInit ==
    ASSUME SystemInit
    PROVE  SessionsInv
<1>1. OneWaiting
  BY OneWaitingInit
<1>2. Edge!TypeOK
  BY SystemAssumption DEF SystemInit, Edge!Init, Edge!TypeOK, Edge!Threads,
     Edge!Timers, Edge!Faults
<1>3. /\ stage \in [Requests -> Stages]
      /\ OnlyDelivered
      /\ Awaited
  BY DEF SystemInit, Edge!Init, Stages, OnlyDelivered, Unanswered, Awaited
<1> QED
  BY <1>1, <1>2, <1>3, AwaitedBounds DEF SessionsInv

\* While no page is left or reloaded, the sessions that wait for results are no
\* more than the pages.
THEOREM SessionsBoundedByPages ==
    ASSUME ~UsersReload
    PROVE  System => []OpenSessionsBounded
<1>1. SystemInit => OneWaiting /\ SessionsInv
  BY OneWaitingInit, SessionsInit
<1>2. TypeOK /\ OneWaiting /\ SessionsInv /\ [SystemNext]_allVars
      => OneWaiting' /\ SessionsInv'
  BY OneWaitingStep, SessionsStep
<1>3. SessionsInv => OpenSessionsBounded
  BY DEF SessionsInv
<1> QED
  BY <1>1, <1>2, <1>3, PagesTypeCorrect, PTL DEF System
-----------------------------------------------------------------------------
(* A page that is jammed.                                                  *)

\* What holds of the server by itself holds of it in the system.
LEMMA ServerInvariance ==
    System => []/\ Edge!TypeOK
                /\ EdgeProofs!OnlyOpened
                /\ EdgeProofs!ResultsBelong
                /\ EdgeProofs!ErasedIsAnswered
                /\ EdgeProofs!EarlyHasResult
                /\ EdgeProofs!OneAnswerEach
                /\ EdgeProofs!EdgeExclusion
<1>1. SystemInit => EdgeProofs!Init
  BY SameInit DEF SystemInit
<1>2. [SystemNext]_allVars => [EdgeProofs!Next]_(EdgeProofs!vars)
  BY EdgeStep
<1>3. EdgeProofs!Spec =>
         [](/\ EdgeProofs!TypeOK /\ EdgeProofs!OnlyOpened /\ EdgeProofs!ResultsBelong
               /\ EdgeProofs!ErasedIsAnswered
            /\ EdgeProofs!CountNeverPassed /\ EdgeProofs!EarlyHasResult
               /\ EdgeProofs!OneAnswerEach)
  BY SystemAssumption, EdgeProofs!Invariance DEF EdgeProofs!ProducerAssumption
<1>4. EdgeProofs!Spec => []EdgeProofs!EdgeExclusion
  BY SystemAssumption, EdgeProofs!EdgeInvariance DEF EdgeProofs!ProducerAssumption
<1> QED
  BY <1>1, <1>2, <1>3, <1>4, SameTypes, PTL DEF System, EdgeProofs!Spec

\* What a page gets to parse holds each result of the packet, and no others.
LEMMA PayloadOfPacket ==
    ASSUME NEW r \in Requests, NEW payload \in Payloads(r),
           IsFiniteSet(sent[r][1].content)
    PROVE  /\ Len(payload) \in Nat /\ DOMAIN payload = 1 .. Len(payload)
           /\ payload = <<>> <=> Len(payload) = 0
           /\ {payload[i].location : i \in DOMAIN payload} = sent[r][1].content
           /\ \A i \in DOMAIN payload :
                 payload[i].target = asks[r] /\ payload[i].isFound = TRUE
<1> DEFINE S == sent[r][1].content
           n == Cardinality(S)
           result(f) == [i \in DOMAIN f |->
                            [target |-> asks[r], location |-> f[i], isFound |-> TRUE]]
<1>1. PICK f \in SetToSeqs(S) : payload = result(f)
  BY DEF Payloads
<1>2. f \in [1 .. n -> S] /\ \A i, j \in 1 .. n : i # j => f[i] # f[j]
  BY <1>1 DEF SetToSeqs
<1>3. n \in Nat /\ IsFiniteSet(1 .. n) /\ Cardinality(1 .. n) = n
  <2>1. n \in Nat
    BY FS_CardinalityType
  <2> HIDE DEF n
  <2> QED
    BY <2>1, FS_Interval
<1>4. f \in Surjection(1 .. n, S)
  <2> HIDE DEF n
  <2>1. f \in Injection(1 .. n, S)
    BY <1>2 DEF Injection, IsInjective
  <2> QED
    BY <1>3, <2>1, FS_Injection DEF n
<1> HIDE DEF n
<1>5. DOMAIN payload = 1 .. n /\ Len(payload) = n
  BY <1>1, <1>2, <1>3
<1>6. ASSUME NEW i \in 1 .. n
      PROVE  /\ payload[i].target = asks[r]
             /\ payload[i].location = f[i]
             /\ payload[i].isFound = TRUE
  <2>1. payload[i] = [target |-> asks[r], location |-> f[i], isFound |-> TRUE]
    BY <1>1, <1>2
  <2> QED
    BY <2>1
<1>7. payload = <<>> <=> n = 0
  BY <1>1, <1>3, <1>5
<1>8. {payload[i].location : i \in 1 .. n} = S
  <2>1. \A i \in 1 .. n : payload[i].location = f[i]
    BY <1>6
  <2>2. \A x \in S : \E i \in 1 .. n : f[i] = x
    BY <1>4 DEF Surjection
  <2> HIDE DEF S
  <2> QED
    BY <1>2, <2>1, <2>2
<1> QED
  BY <1>3, <1>5, <1>6, <1>7, <1>8

LEMMA LeastIndex ==
    ASSUME NEW n \in Nat, NEW T, T \subseteq 1 .. n, T # {}
    PROVE  Min(T) \in T /\ \A i \in T : Min(T) <= i
<1>1. T \subseteq Nat
  OBVIOUS
<1> DEFINE Less == {pair \in Nat \X Nat : pair[1] < pair[2]}
<1>2. IsWellFoundedOn(Less, Nat)
  BY NatLessThanWellFounded DEF OpToRel
<1>3. \A y, k \in Nat : y < k => <<y, k>> \in Less
  OBVIOUS
<1> HIDE DEF Less
<1>4. PICK k \in T : \A y \in T : <<y, k>> \notin Less
  BY <1>1, <1>2, WFMin
<1>5. \A y \in T : ~(y < k)
  BY <1>1, <1>3, <1>4
<1>6. \A y \in T : k <= y
  BY <1>1, <1>5
<1> QED
  BY <1>6 DEF Min

\* The places that onData shows of an answer: those before the first it throws on.
ShownPlaces(c, payload) == {payload[i].location : i \in 1 .. Shown(c, payload)}

\* An answer marks the places that are shown, which are in rows of the map.  Those of
\* an answer that completes the request are all its places, and there are some; for
\* one that does not there are none, if its places are all in rows of the map.
LEMMA ShownOfAnswer ==
    ASSUME NEW c \in Clients, NEW r \in Requests, NEW payload \in Payloads(r),
           IsFiniteSet(sent[r][1].content)
    PROVE  LET places == ShownPlaces(c, payload)
               S == sent[r][1].content
           IN  /\ places \subseteq S \cap RowPlaces
               /\ \A p \in Cells : Marked(c, payload)[p] # 0 <=>
                                       cellsArray[c][p] # 0 \/ p \in places
               /\ Completes(c, payload) => places = S /\ S # {}
               /\ ~Completes(c, payload) =>
                     /\ S = {} \/ asks[r] \notin targetList[c] \/ ~(S \subseteq RowPlaces)
                     /\ places = {} \/ ~(S \subseteq RowPlaces)
<1> DEFINE n == Len(payload)
           S == sent[r][1].content
           Thrown == {i \in DOMAIN payload : Throws(c, payload[i])}
           shown == Shown(c, payload)
           places == ShownPlaces(c, payload)
<1>1. /\ n \in Nat /\ DOMAIN payload = 1 .. n
      /\ payload = <<>> <=> n = 0
      /\ {payload[i].location : i \in 1 .. n} = S
      /\ \A i \in 1 .. n : payload[i].target = asks[r] /\ payload[i].isFound = TRUE
  BY PayloadOfPacket
<1>2. shown = IF Thrown = {} THEN n ELSE Min(Thrown) - 1
  BY DEF Shown
<1>3. Thrown # {} => Min(Thrown) \in Thrown /\ \A i \in Thrown : Min(Thrown) <= i
  BY <1>1, LeastIndex
<1>4. Thrown \subseteq 1 .. n
  BY <1>1
<1>5. \A i \in 1 .. n : i \in Thrown <=> \/ asks[r] \notin targetList[c]
                                        \/ payload[i].location \notin RowPlaces
  BY <1>1 DEF Throws
<1>6. Completes(c, payload) <=> n # 0 /\ shown = n
  BY <1>1 DEF Completes
<1> HIDE DEF n, Thrown, shown
<1>7. /\ shown \in 0 .. n /\ (1 .. shown) \cap Thrown = {}
      /\ shown = n <=> Thrown = {}
  <2>1. CASE Thrown = {}
    BY <1>1, <1>2, <2>1
  <2>2. CASE Thrown # {}
    <3> DEFINE least == Min(Thrown)
    <3>1. shown = least - 1 /\ least \in Thrown /\ \A i \in Thrown : least <= i
      BY <1>2, <1>3, <2>2
    <3>2. least \in 1 .. n
      BY <1>4, <3>1
    <3> HIDE DEF least
    <3>3. shown \in 0 .. n /\ shown # n
      BY <1>1, <3>1, <3>2
    <3>4. \A i \in 1 .. shown : i \notin Thrown
      BY <1>1, <1>4, <3>1, <3>2
    <3> QED
      BY <2>2, <3>3, <3>4
  <2> QED
    BY <2>1, <2>2
<1>8. places = {payload[i].location : i \in 1 .. shown}
  BY DEF ShownPlaces, shown
<1> HIDE DEF places
<1>9. places \subseteq S \cap RowPlaces
  BY <1>1, <1>5, <1>7, <1>8
<1>10. ASSUME NEW p \in Cells
       PROVE  Marked(c, payload)[p] # 0 <=> cellsArray[c][p] # 0 \/ p \in places
  <2> DEFINE here == {i \in 1 .. shown : payload[i].location = p}
  <2>1. here # {} <=> p \in places
    BY <1>8
  <2>2. Marked(c, payload)[p] = IF here = {} THEN cellsArray[c][p]
                                              ELSE Mark(payload[Max(here)].isFound)
    BY DEF Marked, shown
  <2>3. \A found : Mark(found) # 0
    BY DEF Mark
  <2> HIDE DEF here
  <2> QED
    BY <2>1, <2>2, <2>3
<1>11. ASSUME Completes(c, payload) PROVE places = S /\ S # {}
  <2>1. n \in Nat /\ n # 0 /\ shown = n
    BY <1>1, <1>6, <1>11
  <2>2. places = S
    BY <1>1, <1>8, <2>1
  <2>3. payload[1].location \in S
    BY <1>1, <2>1
  <2> QED
    BY <2>2, <2>3
<1>12. ASSUME ~Completes(c, payload), S \subseteq RowPlaces
       PROVE  /\ S = {} \/ asks[r] \notin targetList[c]
              /\ places = {}
  <2>1. CASE n = 0
    BY <1>1, <1>7, <1>8, <2>1
  <2>2. CASE n # 0
    <3>1. Thrown # {}
      BY <1>6, <1>7, <1>12, <2>2
    <3>2. asks[r] \notin targetList[c]
      BY <1>1, <1>4, <1>5, <1>12, <3>1
    <3>3. 1 \in Thrown
      BY <1>1, <1>5, <2>2, <3>2
    <3>4. shown = 0
      BY <1>7, <1>1, <3>3
    <3> QED
      BY <1>8, <3>2, <3>4
  <2> QED
    BY <2>1, <2>2
<1> QED
  BY <1>9, <1>10, <1>11, <1>12 DEF places

\* The step that jams a page brings it an answer.
LEMMA JammedByAnswer ==
    ASSUME TypeOK, [SystemNext]_allVars, NEW c \in Clients, ~Jammed(c), Jammed(c)'
    PROVE  \E r \in waiting[c] : /\ Edge!Answered(r)
                                 /\ \E payload \in Payloads(r) : ~Completes(c, payload)
                                 /\ r \in Requests
<1> USE DEF Jammed
<1>1. ASSUME NEW d \in Clients, UserActs(d) PROVE FALSE
  BY <1>1 DEF UserActs, RegisterTarget, Reload, TypeOK
<1>2. ASSUME NEW d \in Clients, NEW r \in Requests, PageAsks(d, r) PROVE FALSE
  BY <1>2 DEF PageAsks, SendRequest, TypeOK
<1>3. ASSUME NEW d \in Clients, NEW r \in Requests, PageTimesOut(d, r) PROVE FALSE
  BY <1>3 DEF PageTimesOut, OnTimeout, TypeOK
<1>4. ASSUME UNCHANGED clientVars PROVE FALSE
  BY <1>4 DEF clientVars, vars
<1>5. PICK d \in Clients, r \in Requests : DataArrives(d, r)
  BY <1>1, <1>2, <1>3, <1>4 DEF SystemNext, RequestMoves, InterestArrives,
     InterestLost, DataLost, EdgeWorks, allVars
<1>6. PICK payload \in Payloads(r) :
         /\ r \in waiting[d] /\ Edge!Answered(r)
         /\ waiting' = [waiting EXCEPT ![d] = @ \ {r}]
         /\ isFinding' = [isFinding EXCEPT ![d] = @ /\ ~Completes(d, payload)]
  BY <1>5 DEF DataArrives, OnData
<1>7. c = d /\ ~Completes(c, payload)
  BY <1>6 DEF TypeOK
<1> QED
  BY <1>6, <1>7

\* The first answer of a session is one of the packets there may be, and one of
\* the timer if it is empty.
LEMMA FirstAnswer ==
    ASSUME Edge!TypeOK, EdgeProofs!EarlyHasResult, NEW r \in Requests,
           Edge!Answered(r)
    PROVE  /\ IsFiniteSet(sent[r][1].content)
           /\ sent[r][1].content = {} => sent[r][1] = [by |-> "timer", content |-> {}]
<1>1. sent[r] \in Seq(Edge!Answers) /\ sent[r] # <<>>
  BY DEF Edge!TypeOK, Edge!Answered
<1>2. 1 \in DOMAIN sent[r] /\ sent[r][1] \in Edge!Answers
  <2> DEFINE Packets == Edge!Answers
  <2> HIDE DEF Packets
  <2>1. sent[r] \in Seq(Packets) /\ sent[r] # <<>>
    BY <1>1 DEF Packets
  <2>2. 1 \in DOMAIN sent[r] /\ sent[r][1] \in Packets
    BY <2>1
  <2> QED
    BY <2>2 DEF Packets
<1>3. IsFiniteSet(sent[r][1].content)
  <2>1. IsFiniteSet(Edge!Names)
    BY SystemAssumption, FS_Interval DEF Edge!Names
  <2>2. sent[r][1].content \subseteq Edge!Names
    BY <1>2 DEF Edge!Answers
  <2> QED
    BY <2>1, <2>2, FS_Subset
<1>4. sent[r][1].by = "ndn" => sent[r][1].content # {}
  BY <1>2 DEF EdgeProofs!EarlyHasResult, EdgeProofs!EarlyAnswerNotEmpty
<1> QED
  BY <1>2, <1>3, <1>4 DEF Edge!Answers, Edge!Threads

\* Neither a loss nor a timeout jams a page: only an answer that the timer sent
\* without any result, that has a target which the page does not list, or that has a
\* place in no row of the map.
THEOREM PagesJamOnAnswers == System => OnlyAnswersJam
<1> DEFINE Reason ==
      \A c \in Clients : ~Jammed(c) /\ Jammed(c)' =>
          \E r \in waiting[c] :
              /\ Edge!Answered(r)
              /\ \/ sent[r][1] = [by |-> "timer", content |-> {}]
                 \/ asks[r] \notin targetList[c]
                 \/ ~(sent[r][1].content \subseteq RowPlaces)
<1>1. ASSUME TypeOK, Edge!TypeOK, EdgeProofs!EarlyHasResult, [SystemNext]_allVars
      PROVE  Reason
  <2> SUFFICES ASSUME NEW c \in Clients, ~Jammed(c), Jammed(c)'
               PROVE  \E r \in waiting[c] :
                         /\ Edge!Answered(r)
                         /\ \/ sent[r][1] = [by |-> "timer", content |-> {}]
                            \/ asks[r] \notin targetList[c]
                            \/ ~(sent[r][1].content \subseteq RowPlaces)
    OBVIOUS
  <2>1. PICK r \in waiting[c] : /\ Edge!Answered(r)
                               /\ \E payload \in Payloads(r) : ~Completes(c, payload)
                               /\ r \in Requests
    BY <1>1, JammedByAnswer
  <2>2. /\ IsFiniteSet(sent[r][1].content)
        /\ sent[r][1].content = {} => sent[r][1] = [by |-> "timer", content |-> {}]
    BY <1>1, <2>1, FirstAnswer
  <2>3. \/ sent[r][1].content = {}
        \/ asks[r] \notin targetList[c]
        \/ ~(sent[r][1].content \subseteq RowPlaces)
    BY <2>1, <2>2, ShownOfAnswer
  <2> QED
    BY <2>1, <2>2, <2>3
<1> QED
  BY <1>1, PagesTypeCorrect, ServerInvariance, PTL DEF System, OnlyAnswersJam

-----------------------------------------------------------------------------
(* One page: the counters of the server.                                   *)

\* A page that does not ask again opens a session when the one before is answered.
LEMMA OnePageOpensAlone ==
    ASSUME NEW c, Clients = {c}, OneWaiting, SessionsInv,
           EdgeProofs!ErasedIsAnswered, [SystemNext]_allVars
    PROVE  EdgeProofs!OpensAlone
<1>1. ASSUME NEW r \in Requests, InterestArrives(r), NEW q \in Requests, asked[q] > 0
      PROVE  EdgeProofs!Answered(q)
  <2> SUFFICES ASSUME ~EdgeProofs!Answered(q) PROVE FALSE
    OBVIOUS
  <2>1. q \in m_hash_table
    BY <1>1 DEF EdgeProofs!ErasedIsAnswered, EdgeProofs!NoSilentDrop
  <2>2. stage[q] = "open"
    BY <2>1 DEF SessionsInv, OnlyDelivered, Unanswered, Edge!Answered,
       EdgeProofs!Answered
  <2>3. stage[r] = "sent" /\ fault = "none"
    BY <1>1 DEF InterestArrives, Move, Edge!OnInterest, Edge!At
  <2>4. q \in waiting[c] /\ r \in waiting[c]
    BY <2>2, <2>3 DEF SessionsInv, Awaited
  <2> QED
    BY <2>2, <2>3, <2>4 DEF OneWaiting
<1>2. CASE EdgeWorks
  <2>1. UNCHANGED asked
    BY <1>2 DEF EdgeWorks, Edge!Work, Edge!OnResponse, Edge!OnData, Edge!OnNoResult,
       Edge!TimerExpires, Edge!TimerCallback, Edge!SendData, Edge!BufferFound,
       Edge!BufferMissing, Edge!PacketFound, Edge!PacketMissing, Edge!SetContent,
       Edge!PutData, Edge!Dump, Edge!EraseSession
  <2> QED
    BY <2>1 DEF EdgeProofs!OpensAlone
<1>3. CASE UNCHANGED edgeVars
  BY <1>3 DEF edgeVars, EdgeProofs!OpensAlone
<1>4. \/ \E r \in Requests : InterestArrives(r)
      \/ EdgeWorks
      \/ UNCHANGED edgeVars
  BY DEF SystemNext, UserActs, PageAsks, RequestMoves, InterestLost, DataArrives,
         DataLost, PageTimesOut, allVars
<1> QED
  BY <1>1, <1>2, <1>3, <1>4 DEF EdgeProofs!OpensAlone

LEMMA SameOnePage ==
    OnePageInv <=>
       (m_edge_mode = "e" => EdgeProofs!CountersOfOne /\ EdgeProofs!EarlyHasAll)
<1>1. EdgeInvariant!CountersOfOne <=> EdgeProofs!CountersOfOne
  BY DEF EdgeInvariant!CountersOfOne, EdgeInvariant!Answered, EdgeInvariant!Idle,
         EdgeInvariant!Cardinality, EdgeProofs!CountersOfOne, EdgeProofs!Answered,
         EdgeProofs!Idle, EdgeProofs!Cardinality
<1>2. EdgeInvariant!EarlyHasAll <=> EdgeProofs!EarlyHasAll
  BY DEF EdgeInvariant!EarlyHasAll, EdgeInvariant!InCall,
         EdgeProofs!EarlyHasAll, EdgeProofs!InCall
<1> QED
  BY <1>1, <1>2 DEF OnePageInv

\* In edge mode, with one page that is not reloaded, the counters of the server are
\* those of the one session that is open, however its Interests and answers come.
THEOREM OnePageInvariance ==
    ASSUME ~UsersReload, NEW c, Clients = {c}
    PROVE  System => []OnePageInv
<1> DEFINE OneSession ==
      m_edge_mode = "e" => EdgeProofs!CountersOfOne /\ EdgeProofs!EarlyHasAll
<1>1. SystemInit => OneWaiting /\ SessionsInv /\ OneSession
  <2>1. SystemInit => OneSession
    BY SystemAssumption DEF SystemInit, Edge!Init, Edge!Idle, Edge!Threads,
       EdgeProofs!CountersOfOne, EdgeProofs!EarlyHasAll, EdgeProofs!InCall
  <2> QED
    BY <2>1, OneWaitingInit, SessionsInit
<1>2. TypeOK /\ OneWaiting /\ SessionsInv /\ [SystemNext]_allVars
      => OneWaiting' /\ SessionsInv'
  BY OneWaitingStep, SessionsStep
<1>3. ASSUME OneWaiting, SessionsInv, OneSession, [SystemNext]_allVars,
             EdgeProofs!OnlyOpened, EdgeProofs!ResultsBelong,
             EdgeProofs!ErasedIsAnswered, EdgeProofs!OneAnswerEach,
             EdgeProofs!EdgeExclusion
      PROVE  OneSession'
  <2> SUFFICES ASSUME m_edge_mode' = "e"
               PROVE  EdgeProofs!CountersOfOne' /\ EdgeProofs!EarlyHasAll'
    OBVIOUS
  <2>1. EdgeProofs!TypeOK
    BY <1>3, SameTypes DEF SessionsInv
  <2>2. [EdgeProofs!Next]_(EdgeProofs!vars) /\ EdgeProofs!OpensAlone
    BY <1>3, EdgeStep, OnePageOpensAlone
  <2>3. m_edge_mode = "e"
    BY <2>2 DEF EdgeProofs!Next, EdgeProofs!vars
  <2>4. EdgeProofs!CountersOfOne /\ EdgeProofs!EarlyHasAll
    BY <1>3, <2>3
  <2> QED
    BY <1>3, <2>1, <2>2, <2>3, <2>4, SystemAssumption, EdgeProofs!OneAtATimeStep
       DEF EdgeProofs!ProducerAssumption
<1>4. OnePageInv <=> OneSession
  BY SameOnePage
<1> HIDE DEF OneSession
<1> QED
  BY <1>1, <1>2, <1>3, <1>4, PagesTypeCorrect, ServerInvariance, PTL DEF System

\* In edge mode one page, which is not reloaded, gets its early answers complete.
THEOREM OnePageGetsAll ==
    ASSUME ~UsersReload, NEW c, Clients = {c}
    PROVE  System => []EarlyAnswerComplete
<1>1. OnePageInv => EarlyAnswerComplete
  BY SameOnePage DEF EdgeProofs!EarlyHasAll, EarlyAnswerComplete
<1>2. System => []OnePageInv
  BY OnePageInvariance
<1> QED
  BY <1>1, <1>2, PTL
-----------------------------------------------------------------------------
(* The pages, the network and the server implement PageService.            *)

\* An Interest is of a request that a page has made.
LEMMA ExpressedStep ==
    ASSUME TypeOK, Expressed, [SystemNext]_allVars
    PROVE  Expressed'
<1> stage' \in [Requests -> Stages]
  BY StageStep DEF Expressed
<1>1. ASSUME NEW c \in Clients, NEW r \in Requests, PageAsks(c, r) PROVE Expressed'
  <2>1. asks' = [asks EXCEPT ![r] = CD[c]] /\ CD[c] # NoTarget
    BY <1>1, ClientAssumption DEF PageAsks, SendRequest, TypeOK
  <2>2. \A q \in Requests \ {r} : stage'[q] = stage[q]
    BY <1>1 DEF PageAsks, Move, Expressed
  <2> QED
    BY <2>1, <2>2 DEF Expressed, TypeOK
<1>2. ASSUME asks' = asks, \A r \in Requests : stage[r] = "none" => stage'[r] = "none"
      PROVE  Expressed'
  BY <1>2 DEF Expressed
<1>3. ASSUME NEW r \in Requests, RequestMoves(r) PROVE Expressed'
  <2>1. asks' = asks
    BY <1>3 DEF RequestMoves, InterestArrives, InterestLost, DataArrives, DataLost,
       PageTimesOut, OnData, OnTimeout, clientVars, vars
  <2>2. \A q \in Requests : stage[q] = "none" => stage'[q] = "none"
    BY <1>3 DEF RequestMoves, InterestArrives, InterestLost, DataArrives, DataLost,
       PageTimesOut, Move, Expressed
  <2> QED
    BY <1>2, <2>1, <2>2
<1>4. CASE EdgeWorks \/ (\E c \in Clients : UserActs(c)) \/ UNCHANGED allVars
  BY <1>2, <1>4 DEF EdgeWorks, UserActs, RegisterTarget, Reload, clientVars, vars, allVars
<1> QED
  BY <1>1, <1>3, <1>4 DEF SystemNext
LEMMA UsersStep ==
    ASSUME TypeOK, OneWaiting, Expressed, Edge!TypeOK,
           EdgeProofs!OnlyOpened, EdgeProofs!ResultsBelong, EdgeProofs!EarlyHasResult,
           [SystemNext]_allVars
    PROVE  [Users!Next]_(Users!vars)
<1> USE DEF Users!Next, Users!vars
\* What the users see depends on these variables.
<1>1. ASSUME UNCHANGED <<waiting, asks, asked, cellsArray, isFinding>>
      PROVE  UNCHANGED Users!vars
  BY <1>1 DEF Made, MarkedCells, JammedPages, Jammed
<1>2. ASSUME NEW c \in Clients, UserActs(c) PROVE [Users!Next]_(Users!vars)
  <2>1. CASE \E input \in Inputs : RegisterTarget(c, input[1], input[2])
    BY <1>1, <1>2, <2>1 DEF UserActs, RegisterTarget, edgeVars
  <2>2. CASE Reload(c)
    <3>1. /\ asks' = asks /\ asked' = asked
          /\ waiting' = [waiting EXCEPT ![c] = {}]
          /\ isFinding' = [isFinding EXCEPT ![c] = FALSE]
          /\ cellsArray' = [cellsArray EXCEPT ![c] = Blank]
      BY <1>2, <2>2 DEF UserActs, Reload, edgeVars
    <3>2. Made' = Made
      BY <3>1 DEF Made
    <3>3. MarkedCells' = [MarkedCells EXCEPT ![c] = {}]
      BY <3>1 DEF MarkedCells, Blank, TypeOK
    <3>4. JammedPages' = JammedPages \ {c}
      BY <3>1 DEF JammedPages, Jammed, TypeOK
    <3> QED
      BY <3>1, <3>2, <3>3, <3>4 DEF Users!Load
  <2> QED
    BY <1>2, <2>1, <2>2 DEF UserActs
<1>3. ASSUME NEW c \in Clients, NEW r \in Requests, PageAsks(c, r)
      PROVE  [Users!Next]_(Users!vars)
  <2>1. /\ asks[r] = NoTarget /\ asks' = [asks EXCEPT ![r] = CD[c]] /\ CD[c] # NoTarget
        /\ isFinding[c] = FALSE /\ isFinding' = [isFinding EXCEPT ![c] = TRUE]
        /\ waiting' = [waiting EXCEPT ![c] = @ \cup {r}]
        /\ cellsArray' = cellsArray /\ asked' = asked
    BY <1>3, ClientAssumption DEF PageAsks, SendRequest, Ready, TypeOK, edgeVars
  <2>2. waiting[c] = {} /\ waiting' = [waiting EXCEPT ![c] = {r}]
    BY <2>1 DEF OneWaiting
  <2>3. r \notin Made /\ Made' = Made \cup {r}
    BY <2>1 DEF Made, TypeOK
  <2>4. c \notin JammedPages /\ JammedPages' = JammedPages
    BY <2>1, <2>2 DEF JammedPages, Jammed, TypeOK
  <2>5. MarkedCells' = MarkedCells
    BY <2>1 DEF MarkedCells
  <2> QED
    BY <2>1, <2>2, <2>3, <2>4, <2>5 DEF Users!Search
<1>4. ASSUME NEW r \in Requests, InterestArrives(r) PROVE [Users!Next]_(Users!vars)
  <2>1. PICK n \in Edge!Names : Edge!OnInterest(r, n)
    BY <1>4 DEF InterestArrives
  <2>2. /\ asked[r] = 0 /\ asked' = [asked EXCEPT ![r] = n]
        /\ UNCHANGED <<waiting, asks, cellsArray, isFinding>>
        /\ stage[r] = "sent"
    BY <1>4, <2>1 DEF InterestArrives, Move, Edge!OnInterest, clientVars, vars
  <2>3. r \in Made
    BY <2>2 DEF Expressed, Made
  <2>4. UNCHANGED <<Made, MarkedCells, JammedPages>>
    BY <2>2 DEF Made, MarkedCells, JammedPages, Jammed
  <2> QED
    BY <2>2, <2>3, <2>4 DEF Users!Receive, Edge!Names
<1>5. ASSUME NEW c \in Clients, NEW r \in Requests, DataArrives(c, r)
      PROVE  [Users!Next]_(Users!vars)
  <2> DEFINE S == sent[r][1].content
  <2>1. PICK payload \in Payloads(r) :
           /\ r \in waiting[c] /\ waiting' = [waiting EXCEPT ![c] = @ \ {r}]
           /\ cellsArray' = [cellsArray EXCEPT ![c] = Marked(c, payload)]
           /\ isFinding' = [isFinding EXCEPT ![c] = @ /\ ~Completes(c, payload)]
           /\ asks' = asks /\ asked' = asked
           /\ Edge!Answered(r)
    BY <1>5 DEF DataArrives, OnData, edgeVars
  <2>2. IsFiniteSet(S) /\ S \subseteq 1 .. asked[r] /\ asked[r] > 0
    <3>1. IsFiniteSet(S)
      BY <2>1, FirstAnswer
    <3>2. asked[r] > 0
      BY <2>1 DEF EdgeProofs!OnlyOpened, EdgeProofs!Answered, Edge!Answered
    <3>3. 1 \in DOMAIN sent[r]
      <4> DEFINE Packets == Edge!Answers
      <4>1. sent[r] \in Seq(Packets) /\ sent[r] # <<>>
        BY <2>1 DEF Edge!TypeOK, Edge!Answered
      <4> HIDE DEF Packets
      <4> QED
        BY <4>1
    <3>4. S \subseteq 1 .. asked[r]
      BY <3>3 DEF EdgeProofs!ResultsBelong, EdgeProofs!AnswersBelong
    <3> QED
      BY <3>1, <3>2, <3>4
  <2>3. waiting[c] = {r} /\ isFinding[c] = TRUE /\ waiting' = [waiting EXCEPT ![c] = {}]
    BY <2>1 DEF OneWaiting, TypeOK
  <2>4. Users!End(c, r)
    <3>1. Made' = Made
      BY <2>1 DEF Made
    <3> QED
      BY <2>1, <2>3, <3>1 DEF Users!End
  <2> DEFINE places == ShownPlaces(c, payload)
  <2>5. /\ places \subseteq S \cap RowPlaces
        /\ Completes(c, payload) => places = S /\ S # {}
        /\ ~Completes(c, payload) => places = {} \/ ~(S \subseteq RowPlaces)
        /\ \A p \in Cells : Marked(c, payload)[p] # 0 <=>
                                cellsArray[c][p] # 0 \/ p \in places
    BY <2>2, ShownOfAnswer
  <2> HIDE DEF S, places
  <2>6. places \in SUBSET ((1 .. asked[r]) \cap RowPlaces)
    BY <2>2, <2>5
  <2>7. Users!Shows(c, places)
    BY <2>1, <2>5 DEF MarkedCells, TypeOK, Users!Shows
  <2>8. CASE Completes(c, payload)
    <3>1. JammedPages' = JammedPages
      BY <2>1, <2>3, <2>8 DEF JammedPages, Jammed, TypeOK
    <3>2. places # {}
      BY <2>5, <2>8
    <3> QED
      BY <2>4, <2>6, <2>7, <3>1, <3>2 DEF Users!Answer
  <2>9. CASE ~Completes(c, payload)
    <3>1. JammedPages' = JammedPages \cup {c}
      BY <2>1, <2>3, <2>9 DEF JammedPages, Jammed, TypeOK
    <3>2. CASE places = {}
      <4>1. MarkedCells' = MarkedCells
        BY <2>1, <2>5, <3>2 DEF MarkedCells, TypeOK
      <4> QED
        BY <2>2, <2>4, <3>1, <4>1 DEF Users!Jam
    <3>3. CASE ~(S \subseteq RowPlaces)
      <4>1. ~(1 .. asked[r] \subseteq RowPlaces)
        BY <2>2, <3>3
      <4> QED
        BY <2>2, <2>4, <2>6, <2>7, <3>1, <4>1 DEF Users!Jam
    <3> QED
      BY <2>5, <2>9, <3>2, <3>3
  <2> QED
    BY <2>8, <2>9
<1>6. ASSUME NEW c \in Clients, NEW r \in Requests, PageTimesOut(c, r)
      PROVE  [Users!Next]_(Users!vars)
  <2>1. /\ r \in waiting[c] /\ waiting' = [waiting EXCEPT ![c] = @ \ {r}]
        /\ isFinding' = [isFinding EXCEPT ![c] = FALSE]
        /\ UNCHANGED <<asks, asked, cellsArray>>
    BY <1>6 DEF PageTimesOut, OnTimeout, edgeVars
  <2>2. waiting[c] = {r} /\ waiting' = [waiting EXCEPT ![c] = {}]
    BY <2>1 DEF OneWaiting
  <2>3. UNCHANGED <<Made, MarkedCells>>
    BY <2>1 DEF Made, MarkedCells
  <2>4. JammedPages' = JammedPages
    BY <2>1, <2>2 DEF JammedPages, Jammed, TypeOK
  <2> QED
    BY <2>1, <2>2, <2>3, <2>4 DEF Users!NoAnswer, Users!End
<1>7. ASSUME EdgeWorks PROVE UNCHANGED Users!vars
  <2>1. UNCHANGED asked
    BY <1>7 DEF EdgeWorks, Edge!Work, Edge!OnResponse, Edge!OnData, Edge!OnNoResult,
       Edge!TimerExpires, Edge!TimerCallback, Edge!SendData, Edge!BufferFound,
       Edge!BufferMissing, Edge!PacketFound, Edge!PacketMissing, Edge!SetContent,
       Edge!PutData, Edge!Dump, Edge!EraseSession
  <2> QED
    BY <1>1, <1>7, <2>1 DEF EdgeWorks, clientVars, vars
<1>8. ASSUME \/ \E r \in Requests : InterestLost(r) \/ DataLost(r)
             \/ UNCHANGED allVars
      PROVE  UNCHANGED Users!vars
  BY <1>1, <1>8 DEF InterestLost, DataLost, allVars, clientVars, vars, edgeVars
<1> QED
  BY <1>2, <1>3, <1>4, <1>5, <1>6, <1>7, <1>8 DEF SystemNext, RequestMoves

\* What the users of the pages are promised: a map shows places that the search of its
\* own page asked for and no others, one search at a time, with any number of pages,
\* losses, reloads, places off the map and orders of the server's threads.
THEOREM PagesImplementation == System => ImplementsPages
<1>1. SystemInit => OneWaiting /\ Expressed
  BY OneWaitingInit DEF SystemInit, Expressed, Stages
<1>2. SystemInit => Users!Init
  BY DEF SystemInit, Init, Edge!Init, Blank, Users!Init, Made, MarkedCells, JammedPages,
     Jammed
<1>3. System => [](OneWaiting /\ Expressed)
  BY <1>1, OneWaitingStep, ExpressedStep, PagesTypeCorrect, PTL DEF System
<1>4. TypeOK /\ OneWaiting /\ Expressed /\ Edge!TypeOK /\ EdgeProofs!OnlyOpened
      /\ EdgeProofs!ResultsBelong /\ EdgeProofs!EarlyHasResult /\ [SystemNext]_allVars
      => [Users!Next]_(Users!vars)
  BY UsersStep
<1> QED
  BY <1>2, <1>3, <1>4, PagesTypeCorrect, ServerInvariance, PTL
  DEF System, ImplementsPages, Users!Spec
=============================================================================
