------------------------------ MODULE FrameFetch ------------------------------
(***************************************************************************)
(* Cloud mode: the edge server fetches a frame for each session from one   *)
(* worker (Worker).  onInterest_Cloud starts a SegmentFetcher of ndn-cxx   *)
(* for it, an external library: it asks for the name without a version,    *)
(* takes the version from the Data that comes, asks for the segments one   *)
(* after the other (initCwnd = 1, useConstantCwnd), asks again for what    *)
(* does not come, and gives up after a minute without progress.  What it   *)
(* has in the end goes to an Executor.                                     *)
(*                                                                         *)
(* The forwarder drops Data that no Interest asked for, and may keep a     *)
(* copy of what it delivered, with which it answers a later Interest.  The *)
(* edge server may be restarted: it draws the ids of its sessions again.   *)
(***************************************************************************)
EXTENDS Worker

CONSTANTS
    Lossy,          \* whether packets get lost, are kept, and Interests expire too early
    MaxEdgeBoots    \* bound: how often the edge server is started

ASSUME FetchAssumption ==
    /\ Lossy \in BOOLEAN
    /\ MaxEdgeBoots \in Nat \ {0}

VARIABLES
    fetch,          \* what became of each session's fetch
    got,            \* the segments a fetcher has
    network,        \* the Data on its way to the edge server, or kept on the way
    edge,           \* whether the edge server runs
    edgeBoots,      \* how often it was started
    drawn,          \* in which of its runs it first drew the id of a session
    opened          \* how many frames there were when a session was opened

edgeVars == <<edge, edgeBoots, drawn, opened>>
vars == <<workerVars, fetch, got, network, edgeVars>>

Phases == {"none", "asking", "done", "failed"}

-----------------------------------------------------------------------------
Segments(s) == {d.segment : d \in got[s]}

\* The segment a fetcher asks for: the least one that it does not have.
Wanted(s) == {k \in 0 .. Cardinality(got[s]) :
                /\ k \notin Segments(s)
                /\ 0 .. k - 1 \subseteq Segments(s)}

Version(s) == (CHOOSE d \in got[s] : TRUE).version

\* Whether Data d answers the Interest of the fetcher of session s.
Matches(s, d) ==
    /\ d.session = s
    /\ got[s] # {} => d.version = Version(s) /\ d.segment \in Wanted(s)

Complete(segments) ==
    \E d \in segments : Cardinality(segments) = d.finalBlock + 1

\* The bytes that a fetcher has put together.
BytesOf(segments) == UNION {d.bytes : d \in segments}

Init ==
    /\ WorkerInit
    /\ fetch = [s \in Sessions |-> "none"]
    /\ got = [s \in Sessions |-> {}]
    /\ network = {}
    /\ edge = "up"
    /\ edgeBoots = 1
    /\ drawn = [s \in Sessions |-> 0]
    /\ opened = [s \in Sessions |-> 0]

\* Mutant: the generator starts over when a session is over.
AnyIdle(s) == fetch[s] # "asking"

\* The ids come in the order of the seed, each once.
NextId(s) ==
    /\ fetch[s] = "none"
    /\ \A r \in 1 .. s - 1 : fetch[r] # "none"

\* onInterest_Cloud: a session is opened and SegmentFetcher::start called.
Start(s) ==
    /\ edge = "up"
    /\ NextId(s)
    /\ fetch' = [fetch EXCEPT ![s] = "asking"]
    /\ got' = [got EXCEPT ![s] = {}]
    /\ drawn' = [drawn EXCEPT ![s] = IF @ = 0 THEN edgeBoots ELSE @]
    /\ opened' = [opened EXCEPT ![s] = Len(frames)]
    /\ UNCHANGED <<workerVars, network, edge, edgeBoots>>

\* An Interest may reach the worker although there is Data for it on the way.
Unanswered(s) == Lossy \/ ~\E d \in network : Matches(s, d)

\* The forwarder takes Data d, if it is what the Interest asked for.
Deliver(s, d) == network' = network \cup {x \in {d} : Matches(s, x)}

\* The fetcher's Interest reaches the worker, which handles it.
Ask(s) ==
    /\ edge = "up"
    /\ fetch[s] = "asking"
    /\ Unanswered(s)
    /\ IF got[s] = {}
       THEN \/ FirstInterest(s) /\ Deliver(s, Answer(0)')
            \/ InterestBeforeCapture /\ UNCHANGED network
       ELSE \E k \in Wanted(s) :
            \/ SegmentInterest(k) /\ Deliver(s, Answer(k))
            \/ SegmentOfEmptyStore /\ UNCHANGED network
            \/ SegmentMissing(k) /\ UNCHANGED network
    /\ UNCHANGED <<fetch, got, edgeVars>>

\* Executor::afterFetchComplete: reshape throws out of the fetcher's callback,
\* and so out of the ndn thread, if the bytes do not fill the rows.
AfterFetchComplete(bytes) ==
    edge' = IF Reshapes(Cardinality(bytes)) THEN edge ELSE "down"

\* The last segment that is missing completes the fetch.
Receive(s) ==
    /\ edge = "up"
    /\ fetch[s] = "asking"
    /\ \E d \in network :
          LET segments == got[s] \cup {d}
          IN  /\ Matches(s, d)
              /\ \/ network' = network \ {d}
                 \/ Lossy /\ UNCHANGED network
              /\ got' = [got EXCEPT ![s] = segments]
              /\ IF Complete(segments)
                 THEN /\ fetch' = [fetch EXCEPT ![s] = "done"]
                      /\ AfterFetchComplete(BytesOf(segments))
                 ELSE UNCHANGED <<fetch, edge>>
    /\ UNCHANGED <<workerVars, edgeBoots, drawn, opened>>

\* A packet is lost, or no longer kept.
Lose ==
    /\ Lossy
    /\ \E d \in network : network' = network \ {d}
    /\ UNCHANGED <<workerVars, fetch, got, edgeVars>>

\* The worker, or what is on its way, can answer the fetcher of session s.
Served(s) ==
    \/ \E d \in network : Matches(s, d)
    \/ crash = "none" /\ IF got[s] = {} THEN TRUE
                         ELSE \E i \in DOMAIN m_store : Matches(s, m_store[i])

\* A minute without progress: where no packet is lost, only for want of Data.
GiveUp(s) ==
    /\ edge = "up"
    /\ fetch[s] = "asking"
    /\ Lossy \/ ~Served(s)
    /\ fetch' = [fetch EXCEPT ![s] = "failed"]
    /\ UNCHANGED <<workerVars, got, network, edgeVars>>

Boot == Restart /\ UNCHANGED <<fetch, got, network, edgeVars>>
NextPicture == Capture /\ UNCHANGED <<fetch, got, network, edgeVars>>

\* The edge server starts over, with the generator at its seed.
EdgeBoot ==
    /\ edgeBoots < MaxEdgeBoots
    /\ edgeBoots' = edgeBoots + 1
    /\ edge' = "up"
    /\ fetch' = [s \in Sessions |-> "none"]
    /\ got' = [s \in Sessions |-> {}]
    /\ UNCHANGED <<workerVars, network, drawn, opened>>

Next ==
    \/ \E s \in Sessions : Start(s) \/ Ask(s) \/ Receive(s) \/ GiveUp(s)
    \/ Lose
    \/ Boot
    \/ NextPicture
    \/ EdgeBoot

Spec == Init /\ [][Next]_vars

\* A fetcher asks until it has all, what comes is delivered and its timer fires
\* in the end.
Fairness ==
    \A s \in Sessions : WF_vars(Ask(s)) /\ WF_vars(Receive(s)) /\ WF_vars(GiveUp(s))

FairSpec == Spec /\ Fairness

-----------------------------------------------------------------------------
(* Properties.                                                             *)

\* Every variable has its type.
TypeOK ==
    /\ m_frame \in BOOLEAN
    /\ m_store \in Seq(Data)
    /\ m_versionedPrefix \in [session : 0 .. MaxSessions, version : 0 .. MaxFrames]
    /\ size \in Sizes \cup {EmulatedSize}
    /\ frames \in Seq(Sizes \cup {EmulatedSize}) /\ Len(frames) <= MaxFrames
    /\ boots \in 1 .. MaxBoots
    /\ crash \in Crashes
    /\ fetch \in [Sessions -> Phases]
    /\ got \in [Sessions -> SUBSET Data]
    /\ network \in SUBSET Data
    /\ edge \in {"up", "down"}
    /\ edgeBoots \in 1 .. MaxEdgeBoots
    /\ drawn \in [Sessions -> 0 .. MaxEdgeBoots]
    /\ opened \in [Sessions -> 0 .. MaxFrames]

\* A picture that is complete is one frame, whole and in order: other sessions
\* overwrite the store while it is fetched, segments are asked for twice, get
\* lost or come from a copy, and both processes start again, but no two frames
\* are put together and no byte is missing.
OneFrame ==
    \A s \in Sessions : fetch[s] = "done" =>
        \E f \in DOMAIN frames :
            /\ \A d \in got[s] : d.frame = f
            /\ BytesOf(got[s]) = 0 .. frames[f] - 1
            /\ \A d, e \in got[s] : d.segment < e.segment =>
                    \A a \in d.bytes, b \in e.bytes : a < b

\* The id of session s was drawn in an earlier run of the edge server.
Redrawn(s) == drawn[s] < edgeBoots

\* The frame that a session fetches was stored after the session was opened: no
\* store and no copy on the way gives it an older one, unless the edge server was
\* restarted and drew an id again.
FreshFrame ==
    \A s \in Sessions : fetch[s] = "done" /\ ~Redrawn(s) =>
        \A d \in got[s] : d.frame > opened[s]

\* The edge server is only brought down by a picture whose bytes do not fill 480
\* rows: one that does is never put together so that reshape throws.
OnlyMisfitsThrow ==
    edge = "down" =>
        \E s \in Sessions : /\ fetch[s] = "done"
                            /\ \E d \in got[s] : ~Reshapes(frames[d.frame])

\* The bytes that a fetcher has put together, each with the frame that it is of.
Picture(s) == UNION {{d.frame} \X d.bytes : d \in got[s]}

\* Cloud mode as a session sees it.
Pictures == INSTANCE PictureService WITH
    Askers <- Sessions,
    PictureSizes <- Sizes \cup {EmulatedSize},
    Misfits <- {n \in Sizes \cup {EmulatedSize} : ~Reshapes(n)},
    taken <- frames, state <- fetch, since <- opened,
    reused <- {s \in Sessions : drawn[s] # 0 /\ Redrawn(s)},
    picture <- [s \in Sessions |-> IF fetch[s] = "done" THEN Picture(s) ELSE {}],
    down <- edge = "down"

\* The worker's one store, the fetchers and the packets between them implement
\* PictureService: each session gets a picture of its own in one piece, although
\* all segments go through a store that every session overwrites.
ImplementsPictures == Pictures!Spec

\* Of the sessions that fetch from one worker, not all fail: while they take
\* the store from each other, the last one to take it gets its frame, unless
\* a process crashed or a packet was lost.
SomeoneCompletes ==
    /\ crash = "none" /\ edge = "up"
    /\ \E s \in Sessions : fetch[s] # "none"
    /\ \A s \in Sessions : fetch[s] \in {"none", "done", "failed"}
    => \E s \in Sessions : fetch[s] = "done"

\* Every fetch ends, with a frame or without, as long as the edge server runs.
FetchEnds ==
    \A s \in Sessions :
        fetch[s] = "asking" ~> fetch[s] \in {"done", "failed"} \/ edge = "down"

\* BOOST_ASSERT(m_store.size() > 0) (worker.cpp:310): a segment is only asked
\* for of a worker that has stored a frame.
StoreNotEmpty == crash # "empty_store"

\* "Interest cannot be satisfied, sending Nack" (worker.cpp:334): an Interest for
\* a segment that the store does not have is answered with a Nack.
UnsatisfiedIsNacked == crash # "null_data"
=============================================================================
