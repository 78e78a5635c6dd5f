-------------------------- MODULE FrameFetchInvariant --------------------------
(***************************************************************************)
(* The inductive invariant of FrameFetch.                                  *)
(***************************************************************************)
EXTENDS FrameFetch

\* The Data there is: in the store, on its way, and with the fetchers.
Pieces ==
    {m_store[i] : i \in DOMAIN m_store} \cup network \cup UNION {got[s] : s \in Sessions}

\* Data d is a segment of a frame that was stored, and carries its version.
Genuine(d) ==
    /\ d.frame \in DOMAIN frames
    /\ d.version = d.frame
    /\ d.finalBlock = SegmentCount(frames[d.frame]) - 1
    /\ d.segment \in 0 .. d.finalBlock
    /\ d.bytes = Slice(frames[d.frame], d.segment)

\* Data d was stored after its session was opened, if that was the first time.
Timely(d) ==
    /\ drawn[d.session] # 0
    /\ ~Redrawn(d.session) => d.frame > opened[d.session]

PiecesGenuine == \A d \in Pieces : Genuine(d)
PiecesTimely == \A d \in Pieces : Timely(d)

\* What a fetcher has is for its session, and of one version.
OneVersion ==
    \A s \in Sessions : /\ \A d \in got[s] : d.session = s
                        /\ \A d, e \in got[s] : d.version = e.version

DoneComplete == \A s \in Sessions : fetch[s] = "done" => Complete(got[s])

\* An id is drawn when its session is opened, and opened once per run.
Drawing ==
    \A s \in Sessions : /\ drawn[s] <= edgeBoots
                        /\ opened[s] <= Len(frames)
                        /\ fetch[s] = "none" => drawn[s] # edgeBoots
                        /\ fetch[s] # "none" => drawn[s] # 0

FetchInv ==
    /\ TypeOK
    /\ PiecesGenuine
    /\ PiecesTimely
    /\ OneVersion
    /\ DoneComplete
    /\ Drawing
    /\ OnlyMisfitsThrow

\* A frame is stored for one session.
FramesOwned == \A d, e \in Pieces : d.frame = e.frame => d.session = e.session

\* The store was not taken yet: no session has come further than asking.
StoreFree ==
    /\ network = {}
    /\ \A s \in Sessions : got[s] = {} /\ fetch[s] \in {"none", "asking"}

\* Session s took the store, which has all segments of the version that it collects,
\* and the first one is on its way if it does not have it.
StoreTaken(s) ==
    LET version == m_versionedPrefix.version
    IN  /\ fetch[s] = "asking"
        /\ m_store # <<>>
        /\ \A i \in DOMAIN m_store : /\ m_store[i].session = s
                                     /\ m_store[i].version = version
                                     /\ m_store[i].segment = i - 1
                                     /\ m_store[i].finalBlock = Len(m_store) - 1
        /\ \A d \in network \cup got[s] : d.session = s => d.version = version
        /\ got[s] = {} => \E d \in network : d.session = s
        /\ ~Complete(got[s])

\* Where nothing is lost or restarted, the invariant behind SomeoneCompletes: until
\* a session is done, the last one to take the store is on its way to be.
LastTakerGoesOn ==
    crash = "none" /\ (\A s \in Sessions : fetch[s] # "done") =>
        IF m_versionedPrefix = NoPrefix THEN StoreFree
                                        ELSE StoreTaken(m_versionedPrefix.session)
=============================================================================
