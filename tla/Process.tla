-------------------------------- MODULE Process --------------------------------
(***************************************************************************)
(* The two programs, from main to their end: what they are started with,   *)
(* the detector and the service they construct, the threads they run and   *)
(* how these end.  An exception ends an orderly main if it is thrown while *)
(* main constructs; one that leaves another thread ends the program, and   *)
(* so does a destructor that throws.                                       *)
(*                                                                         *)
(* The connection to the forwarder is an external library's (ndn-cxx):     *)
(* processEvents throws if there is no forwarder, or no longer, and does   *)
(* not return by itself.                                                   *)
(***************************************************************************)
EXTENDS FiniteSets

CONSTANTS
    Workers,    \* processes of worker/src/main.cpp
    Edges       \* processes of edge/src/main.cpp

ASSUME ProcessAssumption == Workers \cap Edges = {}

VARIABLES
    step,       \* where main is
    source,     \* where a worker's pictures come from
    m_run,      \* DnnObjectDetection::m_run
    threads,    \* the threads that run
    face,       \* the connection to the forwarder
    forwarder,  \* whether the forwarder of a process runs
    result      \* how a process ended

vars == <<step, source, m_run, threads, face, forwarder, result>>

Programs == Workers \cup Edges
Steps    == {"parse", "detector", "service", "threads", "run", "unwind", "join", "ended"}
Sources  == {"none", "camera", "dummy", "emulation"}
Threads  == {"capture", "pool", "timer", "ndn"}
Faces    == {"closed", "connected", "registered", "lost"}
Results  == {"none", "exit 0", "exit 1", "exit 2", "terminate", "segmentation fault"}

-----------------------------------------------------------------------------
Init ==
    /\ step = [p \in Programs |-> "parse"]
    /\ source = [p \in Programs |-> "none"]
    /\ m_run = [p \in Programs |-> FALSE]
    /\ threads = [p \in Programs |-> {}]
    /\ face = [p \in Programs |-> "closed"]
    /\ forwarder \in [Programs -> BOOLEAN]
    /\ result = [p \in Programs |-> "none"]

Goto(p, from, to) == step[p] = from /\ step' = [step EXCEPT ![p] = to]

Starts(p, ts) == threads' = [threads EXCEPT ![p] = @ \cup ts]

\* main returns or calls exit.
Exit(p, code) ==
    /\ step' = [step EXCEPT ![p] = "ended"]
    /\ result' = [result EXCEPT ![p] = code]

\* The system ends the process, with all its threads.
Abort(p, reason) ==
    /\ Exit(p, reason)
    /\ threads' = [threads EXCEPT ![p] = {}]

-----------------------------------------------------------------------------
(* The options.                                                            *)

\* Parameter::parse: emulation mode goes before a dummy file.
Parse(p) ==
    /\ p \in Workers
    /\ \/ \E s \in Sources \ {"none"} : /\ source' = [source EXCEPT ![p] = s]
                                        /\ Goto(p, "parse", "detector")
                                        /\ UNCHANGED result
       \/ \E code \in {"exit 0", "exit 1"} : /\ step[p] = "parse"
                                             /\ Exit(p, code)
                                             /\ UNCHANGED source
    /\ UNCHANGED <<m_run, threads, face, forwarder>>

\* Mutant: another option is returned as the exit code.
GetAnyMode(p) ==
    /\ p \in Edges
    /\ step[p] = "parse"
    /\ Exit(p, "exit 63")
    /\ UNCHANGED <<source, m_run, threads, face, forwarder>>

\* The mode of the edge server, -c or -e.
GetMode(p) ==
    /\ p \in Edges
    /\ \/ Goto(p, "parse", "detector") /\ UNCHANGED result
       \/ \E code \in {"exit 1", "exit 2"} : /\ step[p] = "parse"
                                             /\ Exit(p, code)
    /\ UNCHANGED <<source, m_run, threads, face, forwarder>>

-----------------------------------------------------------------------------
(* The detector.                                                           *)

EmulateDetector(p) ==
    /\ source[p] = "emulation"
    /\ Goto(p, "detector", "service")
    /\ UNCHANGED <<source, m_run, threads, face, forwarder, result>>

\* Mutant: the flag is set, but the thread is not started.
DetectorWithoutThread(p) ==
    /\ source[p] \in {"camera", "dummy"}
    /\ Goto(p, "detector", "service")
    /\ m_run' = [m_run EXCEPT ![p] = TRUE]
    /\ UNCHANGED <<source, threads, face, forwarder, result>>

\* The worker's DnnObjectDetection starts its capture thread last.
CaptureDetector(p) ==
    /\ source[p] \in {"camera", "dummy"}
    /\ Goto(p, "detector", "service")
    /\ m_run' = [m_run EXCEPT ![p] = TRUE]
    /\ Starts(p, {"capture"})
    /\ UNCHANGED <<source, face, forwarder, result>>

\* The edge server's starts none and leaves m_run as the memory was.
PlainDetector(p) ==
    /\ p \in Edges
    /\ Goto(p, "detector", "service")
    /\ \E garbage \in BOOLEAN : m_run' = [m_run EXCEPT ![p] = garbage]
    /\ UNCHANGED <<source, threads, face, forwarder, result>>

\* The network cannot be read, or the camera not opened: main catches it.
DetectorThrows(p) ==
    /\ step[p] = "detector"
    /\ source[p] # "emulation"
    /\ Exit(p, "exit 0")
    /\ UNCHANGED <<source, m_run, threads, face, forwarder>>

\* Mutant: the capture thread is not told to stop.
JoinOnly(p) ==
    /\ m_run[p]
    /\ threads[p] # {}
    /\ Goto(p, "unwind", "join")
    /\ UNCHANGED <<source, m_run, threads, face, forwarder, result>>

\* ~DnnObjectDetection with a thread to stop and wait for.
StopCapture(p) ==
    /\ m_run[p]
    /\ threads[p] # {}
    /\ Goto(p, "unwind", "join")
    /\ m_run' = [m_run EXCEPT ![p] = FALSE]
    /\ UNCHANGED <<source, threads, face, forwarder, result>>

\* ~DnnObjectDetection where there is no thread: join throws out of it.
StopNothing(p) ==
    /\ step[p] = "unwind"
    /\ m_run[p]
    /\ threads[p] = {}
    /\ Abort(p, "terminate")
    /\ UNCHANGED <<source, m_run, face, forwarder>>

\* capture leaves its loop after the round it is in.
CaptureEnds(p) ==
    /\ "capture" \in threads[p]
    /\ ~m_run[p]
    /\ threads' = [threads EXCEPT ![p] = @ \ {"capture"}]
    /\ UNCHANGED <<step, source, m_run, face, forwarder, result>>

-----------------------------------------------------------------------------
(* The service: Worker and Producer.                                       *)

\* The worker's constructor starts a thread for its pool, which has no tasks.
MakeWorker(p) ==
    /\ p \in Workers
    /\ Goto(p, "service", "threads")
    /\ Starts(p, {"pool"})
    /\ UNCHANGED <<source, m_run, face, forwarder, result>>

MakeProducer(p) ==
    /\ p \in Edges
    /\ Goto(p, "service", "threads")
    /\ UNCHANGED <<source, m_run, threads, face, forwarder, result>>

\* The key chain or the face throws, and the detector is destroyed.
ServiceThrows(p) ==
    /\ Goto(p, "service", "unwind")
    /\ UNCHANGED <<source, m_run, threads, face, forwarder, result>>

\* Mutant: the detector is not destroyed.
CaughtAtOnce(p) ==
    /\ step[p] = "unwind"
    /\ Exit(p, "exit 0")
    /\ UNCHANGED <<source, m_run, threads, face, forwarder>>

\* main has caught the exception, nothing is left to wait for, and it returns.
Caught(p) ==
    /\ \/ step[p] = "unwind" /\ ~m_run[p]
       \/ step[p] = "join" /\ "capture" \notin threads[p]
    /\ Exit(p, "exit 0")
    /\ UNCHANGED <<source, m_run, threads, face, forwarder>>

\* run: two threads, which main waits for.  The timer thread's io_service has a
\* work object that nothing releases, so that main waits for ever.
RunWorker(p) ==
    /\ p \in Workers
    /\ Goto(p, "threads", "run")
    /\ Starts(p, {"timer", "ndn"})
    /\ UNCHANGED <<source, m_run, face, forwarder, result>>

RunProducer(p) ==
    /\ p \in Edges
    /\ Goto(p, "threads", "run")
    /\ Starts(p, {"timer", "ndn"})
    /\ UNCHANGED <<source, m_run, face, forwarder, result>>

-----------------------------------------------------------------------------
(* The ndn thread.                                                         *)

Connect(p) ==
    /\ "ndn" \in threads[p]
    /\ face[p] = "closed"
    /\ forwarder[p]
    /\ face' = [face EXCEPT ![p] = "connected"]
    /\ UNCHANGED <<step, source, m_run, threads, forwarder, result>>

\* processEvents throws out of the thread.
Disconnected(p) ==
    /\ "ndn" \in threads[p]
    /\ \/ face[p] = "lost"
       \/ face[p] = "closed" /\ ~forwarder[p]
    /\ Abort(p, "terminate")
    /\ UNCHANGED <<source, m_run, face, forwarder>>

Register(p) ==
    /\ face[p] = "connected"
    /\ face' = [face EXCEPT ![p] = "registered"]
    /\ UNCHANGED <<step, source, m_run, threads, forwarder, result>>

\* Mutant: the face is shut down, so that processEvents returns.
FaceShutDown(p) ==
    /\ face[p] = "connected"
    /\ face' = [face EXCEPT ![p] = "lost"]
    /\ threads' = [threads EXCEPT ![p] = @ \ {"ndn"}]
    /\ UNCHANGED <<step, source, m_run, forwarder, result>>

\* onRegisterFailed follows m_ndn_face_ptr, which nothing sets.
OnRegisterFailed(p) ==
    /\ face[p] = "connected"
    /\ Abort(p, "segmentation fault")
    /\ face' = [face EXCEPT ![p] = "lost"]
    /\ UNCHANGED <<source, m_run, forwarder>>

\* A handler throws: an empty picture, bytes that do not fill 480 rows.
HandlerThrows(p) ==
    /\ "ndn" \in threads[p]
    /\ face[p] = "registered"
    /\ Abort(p, "terminate")
    /\ face' = [face EXCEPT ![p] = "lost"]
    /\ UNCHANGED <<source, m_run, forwarder>>

-----------------------------------------------------------------------------
\* The forwarder is stopped or started.
ForwarderChanges(p) ==
    /\ forwarder' = [forwarder EXCEPT ![p] = ~@]
    /\ face' = [face EXCEPT ![p] =
                    IF @ \in {"connected", "registered"} THEN "lost" ELSE @]
    /\ UNCHANGED <<step, source, m_run, threads, result>>

\* Somebody starts the program again.
StartAgain(p) ==
    /\ Goto(p, "ended", "parse")
    /\ source' = [source EXCEPT ![p] = "none"]
    /\ m_run' = [m_run EXCEPT ![p] = FALSE]
    /\ face' = [face EXCEPT ![p] = "closed"]
    /\ result' = [result EXCEPT ![p] = "none"]
    /\ UNCHANGED <<threads, forwarder>>

Main(p) ==
    \/ Parse(p) \/ GetMode(p)
    \/ EmulateDetector(p) \/ CaptureDetector(p) \/ PlainDetector(p) \/ DetectorThrows(p)
    \/ MakeWorker(p) \/ MakeProducer(p) \/ ServiceThrows(p)
    \/ StopCapture(p) \/ StopNothing(p) \/ Caught(p)
    \/ RunWorker(p) \/ RunProducer(p)

ProcessEvents(p) == Connect(p) \/ Register(p) \/ OnRegisterFailed(p) \/ Disconnected(p)

Next ==
    \E p \in Programs :
        \/ Main(p)
        \/ CaptureEnds(p)
        \/ ProcessEvents(p)
        \/ HandlerThrows(p)
        \/ ForwarderChanges(p)
        \/ StartAgain(p)

Spec == Init /\ [][Next]_vars

\* The system runs every thread that has something to do.
Fairness ==
    \A p \in Programs : /\ WF_vars(Main(p))
                        /\ WF_vars(CaptureEnds(p))
                        /\ WF_vars(ProcessEvents(p))

FairSpec == Spec /\ Fairness

-----------------------------------------------------------------------------
(* Properties.                                                             *)

\* Every variable has its type.
TypeOK ==
    /\ step \in [Programs -> Steps]
    /\ source \in [Programs -> Sources]
    /\ m_run \in [Programs -> BOOLEAN]
    /\ threads \in [Programs -> SUBSET Threads]
    /\ face \in [Programs -> Faces]
    /\ forwarder \in [Programs -> BOOLEAN]
    /\ result \in [Programs -> Results]

\* No process stays behind that nobody can reach: main would wait for the timer
\* thread for ever once the ndn thread has returned, but whatever ends the ndn
\* thread ends the process.
NoZombie ==
    \A p \in Programs : step[p] = "run" => "ndn" \in threads[p]

\* A process that ends by returning from main or by exit has no thread left.
NoThreadLeft ==
    \A p \in Programs :
        result[p] \in {"exit 0", "exit 1", "exit 2"} => threads[p] = {}

\* What is thrown while a program starts is caught by main, which says so and
\* returns: only the edge server may be aborted before its threads run, by a
\* detector that takes garbage for a running thread.
StartFailuresAreCaught ==
    [][\A p \in Programs :
          result[p] = "none" /\ result'[p] = "terminate" /\ step[p] # "run" =>
              p \in Edges /\ m_run[p]]_vars

\* A program that is started ends, or gets its prefix registered: no constructor,
\* destructor or join hangs.
EndsOrServes ==
    \A p \in Programs :
        step[p] = "parse" ~> step[p] = "ended" \/ face[p] = "registered"
=============================================================================
