---------------------------- MODULE ProcessProofs ----------------------------
(***************************************************************************)
(* Theorems about Process, for any number of workers and edge servers.     *)
(***************************************************************************)
EXTENDS Process, TLAPS

\* What is done for one process is not felt by another.
LEMMA TypeStep ==
    ASSUME TypeOK, [Next]_vars
    PROVE  TypeOK'
<1>1. ASSUME NEW p \in Programs, Parse(p) \/ GetMode(p) PROVE TypeOK'
  <2>1. step' \in [Programs -> Steps]
    BY <1>1 DEF Parse, GetMode, Goto, Exit, TypeOK, Steps
  <2>2. source' \in [Programs -> Sources] /\ result' \in [Programs -> Results]
    <3>1. CASE GetMode(p)
      BY <3>1 DEF GetMode, Exit, TypeOK, Results
    <3>2. CASE Parse(p)
      <4>1. ASSUME NEW s \in Sources, source' = [source EXCEPT ![p] = s]
            PROVE  source' \in [Programs -> Sources]
        BY <4>1 DEF TypeOK
      <4>2. source' \in [Programs -> Sources]
        BY <3>2, <4>1 DEF Parse, TypeOK
      <4>3. result' \in [Programs -> Results]
        BY <3>2 DEF Parse, Exit, TypeOK, Results
      <4> QED
        BY <4>2, <4>3
    <3> QED
      BY <1>1, <3>1, <3>2
  <2> QED
    BY <1>1, <2>1, <2>2 DEF Parse, GetMode, TypeOK
<1>2. ASSUME NEW p \in Programs,
             EmulateDetector(p) \/ CaptureDetector(p) \/ PlainDetector(p)
      PROVE  TypeOK'
  <2>1. step' \in [Programs -> Steps]
    BY <1>2 DEF EmulateDetector, CaptureDetector, PlainDetector, Goto, TypeOK, Steps
  <2>2. m_run' \in [Programs -> BOOLEAN]
    BY <1>2, Zenon DEF EmulateDetector, CaptureDetector, PlainDetector, TypeOK
  <2>3. threads' \in [Programs -> SUBSET Threads]
    BY <1>2 DEF EmulateDetector, CaptureDetector, PlainDetector, Starts, TypeOK, Threads
  <2> QED
    BY <1>2, <2>1, <2>2, <2>3 DEF EmulateDetector, CaptureDetector, PlainDetector, TypeOK
<1>3. ASSUME NEW p \in Programs, MakeWorker(p) \/ MakeProducer(p) \/ ServiceThrows(p)
      PROVE  TypeOK'
  BY <1>3 DEF MakeWorker, MakeProducer, ServiceThrows, Goto, Starts, TypeOK, Steps,
              Threads
<1>4. ASSUME NEW p \in Programs,
             DetectorThrows(p) \/ StopCapture(p) \/ StopNothing(p) \/ Caught(p)
      PROVE  TypeOK'
  BY <1>4 DEF DetectorThrows, StopCapture, StopNothing, Caught, Goto, Exit, Abort,
              TypeOK, Steps, Results
<1>5. ASSUME NEW p \in Programs, RunWorker(p) \/ RunProducer(p) PROVE TypeOK'
  BY <1>5 DEF RunWorker, RunProducer, Goto, Starts, TypeOK, Steps, Threads
<1>6. ASSUME NEW p \in Programs,
             ProcessEvents(p) \/ CaptureEnds(p) \/ HandlerThrows(p)
      PROVE  TypeOK'
  BY <1>6, ZenonT(60) DEF ProcessEvents, Connect, Register, OnRegisterFailed, Disconnected,
              CaptureEnds, HandlerThrows, Exit, Abort, TypeOK, Steps, Faces, Results
<1>7. ASSUME NEW p \in Programs, ForwarderChanges(p)
      PROVE  TypeOK'
  <2>1. face' \in [Programs -> Faces]
    BY <1>7 DEF ForwarderChanges, TypeOK, Faces
  <2>2. (~forwarder[p]) \in BOOLEAN
    OBVIOUS
  <2>3. forwarder' \in [Programs -> BOOLEAN]
    BY <1>7, <2>2, Zenon DEF ForwarderChanges, TypeOK
  <2> QED
    BY <1>7, <2>1, <2>3 DEF ForwarderChanges, TypeOK
<1>8. ASSUME NEW p \in Programs, StartAgain(p) PROVE TypeOK'
  BY <1>8 DEF StartAgain, Goto, TypeOK, Steps, Sources, Faces, Results
<1>9. CASE UNCHANGED vars
  BY <1>9 DEF vars, TypeOK
<1> QED
  BY <1>1, <1>2, <1>3, <1>4, <1>5, <1>6, <1>7, <1>8, <1>9 DEF Next, Main

\* Every variable of the programs keeps its type.
THEOREM TypeCorrect == Spec => []TypeOK
<1>1. Init => TypeOK
  BY DEF Init, TypeOK, Steps, Sources, Threads, Faces, Results
<1> QED
  BY <1>1, TypeStep, PTL DEF Spec

\* Which threads there are while main is at each step; in a worker m_run tells
\* whether there is a capture thread to stop.
Holds(p) ==
    /\ step[p] \in {"parse", "detector", "ended"} => threads[p] = {}
    /\ step[p] \in {"parse", "detector"} => ~m_run[p]
    /\ step[p] \in {"service", "unwind"} =>
          /\ threads[p] \subseteq {"capture"}
          /\ ~m_run[p] => threads[p] = {}
          /\ m_run[p] /\ p \in Workers => threads[p] # {}
    /\ step[p] = "join" => threads[p] \subseteq {"capture"}
    /\ step[p] = "run" => "ndn" \in threads[p]
    /\ "ndn" \in threads[p] => step[p] = "run"
    /\ result[p] # "none" => step[p] = "ended"

ThreadsInv == \A p \in Programs : Holds(p)

\* A step of one program is no step of another.
LEMMA OthersHold ==
    ASSUME ThreadsInv, TypeOK, NEW p \in Programs, Holds(p)',
           \A q \in Programs \ {p} :
              /\ step'[q] = step[q] /\ m_run'[q] = m_run[q]
              /\ threads'[q] = threads[q] /\ result'[q] = result[q]
    PROVE  ThreadsInv'
  BY DEF ThreadsInv, Holds

LEMMA ThreadsStep ==
    ASSUME ThreadsInv, TypeOK, [Next]_vars
    PROVE  ThreadsInv'
<1> USE DEF TypeOK
<1>1. ASSUME NEW p \in Programs, Holds(p), Parse(p) \/ GetMode(p)
      PROVE  ThreadsInv'
  BY <1>1, OthersHold, ZenonT(60) DEF Parse, GetMode, Goto, Exit, Holds
<1>2. ASSUME NEW p \in Programs, Holds(p), EmulateDetector(p) \/ DetectorThrows(p)
      PROVE  ThreadsInv'
  BY <1>2, OthersHold, ZenonT(60) DEF EmulateDetector, DetectorThrows, Goto, Exit, Holds
<1>3. ASSUME NEW p \in Programs, Holds(p), CaptureDetector(p)
      PROVE  ThreadsInv'
  BY <1>3, OthersHold DEF CaptureDetector, Goto, Starts, Holds
<1>4. ASSUME NEW p \in Programs, Holds(p), PlainDetector(p)
      PROVE  ThreadsInv'
  <2>1. p \notin Workers
    BY <1>4, ProcessAssumption DEF PlainDetector
  <2> QED
    BY <1>4, <2>1, OthersHold DEF PlainDetector, Goto, Holds
<1>5. ASSUME NEW p \in Programs, Holds(p),
             MakeWorker(p) \/ MakeProducer(p) \/ ServiceThrows(p)
      PROVE  ThreadsInv'
  BY <1>5, OthersHold DEF MakeWorker, MakeProducer, ServiceThrows, Goto, Starts, Holds
<1>6. ASSUME NEW p \in Programs, Holds(p), StopCapture(p) \/ StopNothing(p) \/ Caught(p)
      PROVE  ThreadsInv'
  <2>1. \A q \in Programs \ {p} :
           /\ step'[q] = step[q] /\ m_run'[q] = m_run[q]
           /\ threads'[q] = threads[q] /\ result'[q] = result[q]
    BY <1>6 DEF StopCapture, StopNothing, Caught, Goto, Exit, Abort
  <2>2. ASSUME StopCapture(p) PROVE Holds(p)'
    BY <1>6, <2>2 DEF StopCapture, Goto, Holds
  <2>3. ASSUME StopNothing(p) PROVE Holds(p)'
    BY <1>6, <2>3 DEF StopNothing, Exit, Abort, Holds
  <2>4. ASSUME Caught(p) PROVE Holds(p)'
    <3>1. threads[p] = {}
      BY <1>6, <2>4 DEF Caught, Holds
    <3> QED
      BY <1>6, <2>4, <3>1 DEF Caught, Exit, Holds
  <2> QED
    BY <1>6, <2>1, <2>2, <2>3, <2>4, OthersHold
<1>7. ASSUME NEW p \in Programs, Holds(p), RunWorker(p) \/ RunProducer(p)
      PROVE  ThreadsInv'
  BY <1>7, OthersHold DEF RunWorker, RunProducer, Goto, Starts, Holds
<1>8. ASSUME NEW p \in Programs, Holds(p), CaptureEnds(p)
      PROVE  ThreadsInv'
  BY <1>8, OthersHold DEF CaptureEnds, Holds
<1>9. ASSUME NEW p \in Programs, Holds(p),
             OnRegisterFailed(p) \/ Disconnected(p) \/ HandlerThrows(p)
      PROVE  ThreadsInv'
  BY <1>9, OthersHold, ZenonT(60) DEF OnRegisterFailed, Disconnected, HandlerThrows, Exit, Abort, Holds
<1>10. ASSUME NEW p \in Programs, Holds(p), StartAgain(p)
       PROVE  ThreadsInv'
  BY <1>10, OthersHold DEF StartAgain, Goto, Holds
<1>11. ASSUME UNCHANGED <<step, m_run, threads, result>>
       PROVE  ThreadsInv'
  BY <1>11 DEF ThreadsInv, Holds
<1>12. \A p \in Programs : Holds(p)
  BY DEF ThreadsInv
<1>13. ASSUME NEW p \in Programs, Connect(p) \/ Register(p) \/ ForwarderChanges(p)
       PROVE  ThreadsInv'
  BY <1>11, <1>13 DEF Connect, Register, ForwarderChanges
<1> QED
  BY <1>1, <1>2, <1>3, <1>4, <1>5, <1>6, <1>7, <1>8, <1>9, <1>10, <1>11, <1>12, <1>13
  DEF Next, Main, ProcessEvents, vars

LEMMA ThreadsInvariance == Spec => []ThreadsInv
<1>1. Init => ThreadsInv
  BY DEF Init, ThreadsInv, Holds
<1> QED
  BY <1>1, ThreadsStep, TypeCorrect, PTL DEF Spec

\* No process stays behind without its ndn thread.
THEOREM NobodyLingers == Spec => []NoZombie
<1>1. ThreadsInv => NoZombie
  BY DEF ThreadsInv, Holds, NoZombie
<1> QED
  BY <1>1, ThreadsInvariance, PTL

\* A process that ends in order has joined its threads.
THEOREM ThreadsAreJoined == Spec => []NoThreadLeft
<1>1. ThreadsInv => NoThreadLeft
  BY DEF ThreadsInv, Holds, NoThreadLeft
<1> QED
  BY <1>1, ThreadsInvariance, PTL

\* What is thrown while a worker starts does not abort it.
THEOREM StartsAreCaught == Spec => StartFailuresAreCaught
<1>1. ASSUME ThreadsInv, TypeOK, Next, NEW p \in Programs,
             result[p] = "none", result'[p] = "terminate", step[p] # "run"
      PROVE  p \in Edges /\ m_run[p]
  <2>1. ASSUME NEW q \in Programs, StopNothing(q) PROVE q \in Edges /\ m_run[q]
    BY <1>1, <2>1 DEF StopNothing, ThreadsInv, Holds, Programs
  <2>2. \A q \in Programs : "ndn" \in threads[q] => step[q] = "run"
    BY <1>1 DEF ThreadsInv, Holds
  <2>3. ASSUME NEW q \in Programs, Disconnected(q) \/ HandlerThrows(q) PROVE FALSE
    <3>1. result' = [result EXCEPT ![q] = "terminate"] /\ step[q] = "run"
      BY <2>2, <2>3 DEF Disconnected, HandlerThrows, Abort, Exit
    <3> QED
      BY <1>1, <3>1 DEF TypeOK
  <2>4. ASSUME NEW q \in Programs,
               \/ Parse(q) \/ GetMode(q) \/ DetectorThrows(q) \/ Caught(q)
               \/ OnRegisterFailed(q) \/ StartAgain(q)
        PROVE  FALSE
    BY <1>1, <2>4 DEF Parse, GetMode, DetectorThrows, Caught, OnRegisterFailed,
                      StartAgain, Exit, Abort, TypeOK
  <2>5. ASSUME NEW q \in Programs,
               \/ EmulateDetector(q) \/ CaptureDetector(q) \/ PlainDetector(q)
               \/ MakeWorker(q) \/ MakeProducer(q) \/ ServiceThrows(q)
               \/ StopCapture(q) \/ RunWorker(q) \/ RunProducer(q) \/ CaptureEnds(q)
               \/ Connect(q) \/ Register(q) \/ ForwarderChanges(q)
        PROVE  FALSE
    BY <1>1, <2>5 DEF EmulateDetector, CaptureDetector, PlainDetector, MakeWorker,
       MakeProducer, ServiceThrows, StopCapture, RunWorker, RunProducer, CaptureEnds,
       Connect, Register, ForwarderChanges
  <2>6. ASSUME NEW q \in Programs, StopNothing(q) PROVE p = q
    BY <1>1, <2>6 DEF StopNothing, Abort, Exit, TypeOK
  <2> QED
    BY <1>1, <2>1, <2>3, <2>4, <2>5, <2>6 DEF Next, Main, ProcessEvents
<1>2. ThreadsInv /\ TypeOK /\ [Next]_vars =>
         [\A p \in Programs :
             result[p] = "none" /\ result'[p] = "terminate" /\ step[p] # "run" =>
                 p \in Edges /\ m_run[p]]_vars
  BY <1>1
<1> QED
  BY <1>2, ThreadsInvariance, TypeCorrect, PTL DEF Spec, StartFailuresAreCaught
=============================================================================
