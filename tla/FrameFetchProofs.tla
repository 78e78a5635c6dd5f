--------------------------- MODULE FrameFetchProofs ---------------------------
(***************************************************************************)
(* Theorems about FrameFetch, for every number of sessions, frames and     *)
(* restarts and every size of pictures and segments.                       *)
(***************************************************************************)
EXTENDS FrameFetchInvariant, SegmentationProofs

LEMMA SizesAreNumbers == Sizes \cup {EmulatedSize} \subseteq Nat
  BY WorkerAssumption

-----------------------------------------------------------------------------
(* What a complete fetch has put together.                                 *)

\* The segments of one frame, as many as it has, are all of its segments.
LEMMA AllSegments ==
    ASSUME NEW n \in Nat, NEW S,
           \A d \in S : d.segment \in 0 .. n - 1,
           \A d, e \in S : d.segment = e.segment => d = e,
           Cardinality(S) = n
    PROVE  {d.segment : d \in S} = 0 .. n - 1
<1> DEFINE f == [d \in S |-> d.segment]
           T == 0 .. n - 1
<1>1. f \in Injection(S, T)
  BY DEF Injection, IsInjective
<1>2. IsFiniteSet(T) /\ Cardinality(T) = n
  BY FS_Interval
<1>3. f \in Surjection(S, T)
  BY <1>1, <1>2, FS_Injection
<1>4. \A k \in T : \E d \in S : f[d] = k
  BY <1>3 DEF Surjection
<1>5. \A d \in S : f[d] = d.segment
  OBVIOUS
<1> QED
  BY <1>4, <1>5

\* Two segments of one frame with the same number are the same.
LEMMA SameSegment ==
    ASSUME NEW d \in Data, NEW e \in Data, Genuine(d), Genuine(e),
           d.session = e.session, d.version = e.version, d.segment = e.segment
    PROVE  d = e
<1>1. /\ d.frame = e.frame
      /\ d.finalBlock = e.finalBlock
      /\ d.bytes = e.bytes
  BY DEF Genuine
<1>2. \A x \in Data :
         x = [session |-> x.session, version |-> x.version, segment |-> x.segment,
              finalBlock |-> x.finalBlock, frame |-> x.frame, bytes |-> x.bytes]
  BY DEF Data
<1> QED
  BY <1>1, <1>2

\* A set of genuine segments of one version that is complete is that frame.
LEMMA WholeFrame ==
    ASSUME TypeOK, NEW S \in SUBSET Data, Complete(S),
           \A d \in S : Genuine(d),
           \A d, e \in S : d.session = e.session /\ d.version = e.version
    PROVE  \E f \in DOMAIN frames :
              /\ S # {} /\ \A d \in S : d.frame = f
              /\ BytesOf(S) = 0 .. frames[f] - 1
              /\ \A d, e \in S : d.segment < e.segment =>
                    \A a \in d.bytes, b \in e.bytes : a < b
<1>1. PICK d0 \in S : Cardinality(S) = d0.finalBlock + 1
  BY DEF Complete
<1> DEFINE f == d0.frame
           n == SegmentCount(frames[f])
<1>2. f \in DOMAIN frames /\ frames[f] \in Nat
  BY <1>1, SizesAreNumbers DEF Genuine, TypeOK
<1>3. n \in Nat \ {0}
  BY <1>2, SegmentNumbers
<1>4. \A d \in S : /\ d.frame = f
                   /\ d.segment \in 0 .. n - 1
                   /\ d.bytes = Slice(frames[f], d.segment)
  BY <1>1 DEF Genuine
<1>5. Cardinality(S) = n
  BY <1>1, <1>3 DEF Genuine
<1>6. {d.segment : d \in S} = 0 .. n - 1
  <2>1. \A d, e \in S : d.segment = e.segment => d = e
    BY SameSegment
  <2> HIDE DEF n
  <2> QED
    BY <1>3, <1>4, <1>5, <2>1, AllSegments
<1>7. BytesOf(S) = UNION {Slice(frames[f], i) : i \in 0 .. n - 1}
  <2>1. {d.bytes : d \in S} = {Slice(frames[f], i) : i \in {d.segment : d \in S}}
    BY <1>4
  <2> QED
    BY <1>6, <2>1 DEF BytesOf
<1>8. BytesOf(S) = 0 .. frames[f] - 1
  BY <1>2, <1>7, SlicesCover
<1>9. \A d, e \in S : d.segment < e.segment =>
          \A a \in d.bytes, b \in e.bytes : a < b
  BY <1>2, <1>4, SlicesInOrder
<1> QED
  BY <1>1, <1>2, <1>4, <1>8, <1>9

-----------------------------------------------------------------------------
(* Type correctness.                                                       *)

\* What populateStore makes are Data packets.
LEMMA StoreTypes ==
    ASSUME TypeOK, Len(frames) < MaxFrames, NEW s \in Sessions
    PROVE  PopulateStore(s) \in Seq(Data)
<1> DEFINE n == SegmentCount(size)
<1>1. size \in Nat /\ n \in Nat \ {0}
  BY SizesAreNumbers, SegmentNumbers DEF TypeOK
<1>2. Now \in 1 .. MaxFrames /\ Len(frames) + 1 \in 1 .. MaxFrames
  BY WorkerAssumption DEF TypeOK, Now
<1>3. \A k \in 1 .. n : Slice(size, k - 1) \in SUBSET Nat
  <2> SUFFICES ASSUME NEW k \in 1 .. n
               PROVE  Slice(size, k - 1) \in SUBSET Nat
    OBVIOUS
  <2>1. k - 1 \in Nat
    BY <1>1
  <2>2. maxSegmentSize * (k - 1) \in Nat
    BY <2>1, SegmentationAssumption, SMT
  <2> QED
    BY <2>2 DEF Slice
<1>4. \A k \in 1 .. n :
         [session |-> s, version |-> Now, segment |-> k - 1,
          finalBlock |-> n - 1, frame |-> Len(frames) + 1,
          bytes |-> Slice(size, k - 1)] \in Data
  <2> HIDE DEF n
  <2> QED
    BY <1>1, <1>2, <1>3 DEF Data
<1> HIDE DEF n
<1>5. PopulateStore(s) \in [1 .. n -> Data]
  BY <1>4 DEF PopulateStore, n
<1> QED
  BY <1>1, <1>5

\* The steps of the worker keep its types.
LEMMA WorkerTypes ==
    ASSUME TypeOK, NEW s \in Sessions, NEW k,
           \/ Capture \/ FirstInterest(s) \/ InterestBeforeCapture
           \/ SegmentInterest(k) \/ SegmentOfEmptyStore \/ SegmentMissing(k)
           \/ Restart \/ UNCHANGED workerVars
    PROVE  /\ m_frame' \in BOOLEAN
           /\ m_store' \in Seq(Data)
           /\ m_versionedPrefix' \in [session : 0 .. MaxSessions, version : 0 .. MaxFrames]
           /\ size' \in Sizes \cup {EmulatedSize}
           /\ frames' \in Seq(Sizes \cup {EmulatedSize}) /\ Len(frames') <= MaxFrames
           /\ boots' \in 1 .. MaxBoots
           /\ crash' \in Crashes
<1>1. CASE Capture
  BY <1>1 DEF Capture, TypeOK
<1>2. CASE FirstInterest(s)
  <2>1. m_store' \in Seq(Data)
    BY <1>2, StoreTypes DEF FirstInterest
  <2>2. m_versionedPrefix' \in [session : 0 .. MaxSessions, version : 0 .. MaxFrames]
    BY <1>2, WorkerAssumption, SMTT(30) DEF FirstInterest, Now, Sessions, TypeOK
  <2>3. frames' \in Seq(Sizes \cup {EmulatedSize}) /\ Len(frames') <= MaxFrames
    BY <1>2, WorkerAssumption DEF FirstInterest, TypeOK
  <2> QED
    BY <1>2, <2>1, <2>2, <2>3 DEF FirstInterest, TypeOK
<1>3. CASE InterestBeforeCapture \/ SegmentOfEmptyStore \/ SegmentMissing(k)
  BY <1>3 DEF InterestBeforeCapture, SegmentOfEmptyStore, SegmentMissing, Fail,
              TypeOK, Crashes
<1>4. CASE SegmentInterest(k) \/ UNCHANGED workerVars
  BY <1>4 DEF SegmentInterest, workerVars, TypeOK
<1>5. CASE Restart
  <2>1. PICK source \in Sources : m_frame' = source.picture /\ size' = source.size
    BY <1>5 DEF Restart
  <2>2. source.picture \in BOOLEAN /\ source.size \in Sizes \cup {EmulatedSize}
    BY DEF Sources
  <2>3. m_versionedPrefix' \in [session : 0 .. MaxSessions, version : 0 .. MaxFrames]
    BY <1>5, WorkerAssumption DEF Restart, NoPrefix
  <2> QED
    BY <1>5, <2>1, <2>2, <2>3, WorkerAssumption DEF Restart, TypeOK, Crashes
<1> QED
  BY <1>1, <1>2, <1>3, <1>4, <1>5

\* What the worker puts for segment k, and what the forwarder does with it.
LEMMA DeliverTypes ==
    ASSUME TypeOK, NEW s \in Sessions, NEW d \in Data, Deliver(s, d)
    PROVE  network' \in SUBSET Data
  BY DEF Deliver, TypeOK

\* Every action keeps the types.
LEMMA TypeStep ==
    ASSUME TypeOK, [Next]_vars
    PROVE  TypeOK'
<1>1. ASSUME NEW s \in Sessions, Start(s) PROVE TypeOK'
  <2>1. UNCHANGED workerVars
    BY <1>1 DEF Start
  <2> QED
    BY <1>1, <2>1 DEF Start, TypeOK, workerVars, Phases
<1>2. ASSUME NEW s \in Sessions, Ask(s) PROVE TypeOK'
  <2>1. UNCHANGED <<fetch, got, edge, edgeBoots, drawn, opened>>
    BY <1>2 DEF Ask, edgeVars
  <2>2. CASE FirstInterest(s) /\ Deliver(s, Answer(0)')
    <3>1. m_store' \in Seq(Data) /\ Len(m_store') > 0
      <4>1. size \in Nat /\ SegmentCount(size) \in Nat \ {0}
        BY SizesAreNumbers, SegmentNumbers DEF TypeOK
      <4>2. PopulateStore(s) \in Seq(Data)
        BY <2>2, StoreTypes DEF FirstInterest
      <4> QED
        BY <2>2, <4>1, <4>2 DEF FirstInterest, PopulateStore
    <3>2. Answer(0)' \in Data
      BY <3>1 DEF Answer
    <3>3. network' \in SUBSET Data
      BY <2>2, <3>2 DEF Deliver, TypeOK
    <3> QED
      BY <2>1, <2>2, <3>3, WorkerTypes DEF TypeOK
  <2>3. ASSUME NEW k \in Wanted(s), SegmentInterest(k), Deliver(s, Answer(k))
        PROVE  TypeOK'
    <3>1. Answer(k) \in Data
      BY <2>3 DEF Wanted, SegmentInterest, Answer, TypeOK
    <3>2. network' \in SUBSET Data
      BY <2>3, <3>1 DEF Deliver, TypeOK
    <3> QED
      BY <2>1, <2>3, <3>2, WorkerTypes DEF TypeOK
  <2>4. ASSUME NEW k, InterestBeforeCapture \/ SegmentOfEmptyStore \/ SegmentMissing(k),
               UNCHANGED network
        PROVE  TypeOK'
    BY <2>1, <2>4, WorkerTypes DEF TypeOK
  <2> QED
    BY <1>2, <2>2, <2>3, <2>4 DEF Ask
<1>3. ASSUME NEW s \in Sessions, Receive(s) PROVE TypeOK'
  <2>1. UNCHANGED <<workerVars, edgeBoots, drawn, opened>>
    BY <1>3 DEF Receive
  <2>2. got' \in [Sessions -> SUBSET Data] /\ network' \in SUBSET Data
    BY <1>3 DEF Receive, TypeOK
  <2>3. fetch' \in [Sessions -> Phases] /\ edge' \in {"up", "down"}
    BY <1>3 DEF Receive, AfterFetchComplete, TypeOK, Phases
  <2> QED
    BY <2>1, <2>2, <2>3 DEF TypeOK, workerVars
<1>4. ASSUME NEW s \in Sessions, GiveUp(s) PROVE TypeOK'
  BY <1>4 DEF GiveUp, TypeOK, workerVars, edgeVars, Phases
<1>5. CASE Lose
  BY <1>5 DEF Lose, TypeOK, workerVars, edgeVars
<1>6. CASE Boot \/ NextPicture
  <2>1. 1 \in Sessions
    BY WorkerAssumption DEF Sessions
  <2> QED
    BY <1>6, <2>1, WorkerTypes DEF Boot, NextPicture, edgeVars, TypeOK
<1>7. CASE EdgeBoot
  <2>1. edgeBoots' \in 1 .. MaxEdgeBoots
    BY <1>7, FetchAssumption DEF EdgeBoot, TypeOK
  <2> QED
    BY <1>7, <2>1 DEF EdgeBoot, TypeOK, workerVars, Phases
<1>8. CASE UNCHANGED vars
  BY <1>8 DEF vars, workerVars, edgeVars, TypeOK
<1> QED
  BY <1>1, <1>2, <1>3, <1>4, <1>5, <1>6, <1>7, <1>8 DEF Next

LEMMA TypeInit ==
    ASSUME Init
    PROVE  TypeOK
<1>1. PICK source \in Sources : m_frame = source.picture /\ size = source.size
  BY DEF Init, WorkerInit
<1>2. source.picture \in BOOLEAN /\ source.size \in Sizes \cup {EmulatedSize}
  BY DEF Sources
<1>3. m_versionedPrefix \in [session : 0 .. MaxSessions, version : 0 .. MaxFrames]
  BY WorkerAssumption DEF Init, WorkerInit, NoPrefix
<1>4. frames \in Seq(Sizes \cup {EmulatedSize}) /\ Len(frames) <= MaxFrames
  BY WorkerAssumption DEF Init, WorkerInit
<1> QED
  BY <1>1, <1>2, <1>3, <1>4, WorkerAssumption, FetchAssumption
  DEF Init, WorkerInit, TypeOK, Crashes, Phases

\* Every variable of the fetchers and of the worker keeps its type.
THEOREM TypeCorrect == Spec => []TypeOK
  BY TypeInit, TypeStep, PTL DEF Spec

-----------------------------------------------------------------------------
(* The inductive invariant.                                                *)

\* A step that stores no frame and makes no Data keeps what is said of Data.
LEMMA GenuineKept ==
    ASSUME PiecesGenuine, frames' = frames, Pieces' \subseteq Pieces
    PROVE  PiecesGenuine'
  BY DEF PiecesGenuine, Genuine

LEMMA TimelyKept ==
    ASSUME PiecesTimely, UNCHANGED <<edgeBoots, drawn, opened>>,
           Pieces' \subseteq Pieces
    PROVE  PiecesTimely'
  BY DEF PiecesTimely, Timely, Redrawn

\* The worker's steps that store nothing, and the loss of Data.
LEMMA QuietStep ==
    ASSUME FetchInv, TypeOK', UNCHANGED <<frames, got, edgeVars>>,
           m_store' \in {m_store, <<>>}, network' \subseteq network,
           \A s \in Sessions : \/ fetch'[s] = fetch[s]
                               \/ fetch[s] = "asking" /\ fetch'[s] = "failed"
    PROVE  FetchInv'
<1>1. Pieces' \subseteq Pieces
  BY DEF Pieces
<1>2. PiecesGenuine' /\ PiecesTimely'
  BY <1>1, GenuineKept, TimelyKept DEF FetchInv, edgeVars
<1>3. OneVersion' /\ DoneComplete'
  BY DEF FetchInv, OneVersion, DoneComplete, Complete
<1>4. Drawing'
  BY DEF FetchInv, Drawing, edgeVars
<1>5. OnlyMisfitsThrow'
  BY DEF FetchInv, OnlyMisfitsThrow, edgeVars
<1> QED
  BY <1>2, <1>3, <1>4, <1>5 DEF FetchInv

\* A session is opened: its id was not drawn before in this run.
LEMMA StartStep ==
    ASSUME FetchInv, TypeOK', NEW s \in Sessions, Start(s)
    PROVE  FetchInv'
<1> USE DEF FetchInv
<1>1. /\ edge = "up" /\ edge' = "up" /\ fetch[s] = "none"
      /\ fetch' = [fetch EXCEPT ![s] = "asking"]
      /\ got' = [got EXCEPT ![s] = {}]
      /\ drawn' = [drawn EXCEPT ![s] = IF @ = 0 THEN edgeBoots ELSE @]
      /\ opened' = [opened EXCEPT ![s] = Len(frames)]
      /\ UNCHANGED <<workerVars, network, edgeBoots>>
  BY DEF Start, NextId
<1>2. got \in [Sessions -> SUBSET Data] /\ drawn \in [Sessions -> 0 .. MaxEdgeBoots]
      /\ opened \in [Sessions -> 0 .. MaxFrames] /\ fetch \in [Sessions -> Phases]
      /\ edgeBoots \in 1 .. MaxEdgeBoots
  BY DEF TypeOK
<1>3. Pieces' \subseteq Pieces
  BY <1>1, <1>2 DEF Pieces, workerVars
<1>4. PiecesGenuine'
  BY <1>1, <1>3, GenuineKept DEF workerVars
<1>5. drawn[s] # edgeBoots /\ drawn[s] <= edgeBoots
  BY <1>1 DEF Drawing
<1>6. \A d \in Pieces : d \in Data
  BY DEF Pieces, TypeOK
<1>7. PiecesTimely'
  <2> SUFFICES ASSUME NEW d \in Pieces, Timely(d) PROVE Timely(d)'
    BY <1>3 DEF PiecesTimely
  <2>1. d.session \in Sessions
    BY <1>6 DEF Data
  <2>2. CASE d.session = s
    BY <1>1, <1>2, <1>5, <2>2 DEF Timely, Redrawn
  <2>3. CASE d.session # s
    BY <1>1, <1>2, <2>1, <2>3 DEF Timely, Redrawn
  <2> QED
    BY <2>2, <2>3
<1>8. OneVersion' /\ DoneComplete'
  BY <1>1, <1>2 DEF OneVersion, DoneComplete, Complete
<1>9. Drawing'
  BY <1>1, <1>2, <1>5, WorkerAssumption DEF Drawing, workerVars, TypeOK
<1> QED
  BY <1>1, <1>4, <1>7, <1>8, <1>9 DEF OnlyMisfitsThrow

\* A frame is stored: its number is its version, and greater than that of any
\* frame that there was when the session was opened.
LEMMA FirstInterestStep ==
    ASSUME FetchInv, TypeOK', NEW s \in Sessions, fetch[s] = "asking",
           FirstInterest(s), Deliver(s, Answer(0)'),
           UNCHANGED <<fetch, got, edgeVars>>
    PROVE  FetchInv'
<1> USE DEF FetchInv
<1> DEFINE n == SegmentCount(size)
           f == Len(frames) + 1
<1>1. /\ Len(frames) < MaxFrames
      /\ frames' = Append(frames, size)
      /\ m_store' = PopulateStore(s)
      /\ UNCHANGED <<fetch, got, edge, edgeBoots, drawn, opened>>
  BY DEF FirstInterest, edgeVars
<1>2. /\ size \in Nat /\ n \in Nat \ {0}
      /\ f \in DOMAIN frames' /\ frames'[f] = size
  <2>1. size \in Nat
    BY SizesAreNumbers DEF TypeOK
  <2>2. n \in Nat \ {0}
    BY <2>1, SegmentNumbers
  <2>3. frames \in Seq(Sizes \cup {EmulatedSize}) /\ size \in Sizes \cup {EmulatedSize}
    BY DEF TypeOK
  <2>4. f \in DOMAIN frames' /\ frames'[f] = size
    BY <1>1, <2>3
  <2> QED
    BY <2>1, <2>2, <2>4
<1>3. \A g \in DOMAIN frames : g \in DOMAIN frames' /\ frames'[g] = frames[g]
  BY <1>1 DEF TypeOK
<1> DEFINE Stored == {m_store[i] : i \in DOMAIN m_store}
<1>4. ASSUME NEW d \in Stored' PROVE Genuine(d)' /\ Timely(d)'
  <2>1. PICK i \in 1 .. n : d = m_store'[i]
    BY <1>1, <1>4 DEF PopulateStore
  <2>2. /\ d.session = s /\ d.version = f /\ d.segment = i - 1
        /\ d.finalBlock = n - 1 /\ d.frame = f /\ d.bytes = Slice(size, i - 1)
    BY <1>1, <2>1 DEF PopulateStore, Now
  <2>3. n = SegmentCount(frames'[f])
    BY <1>2
  <2> HIDE DEF n
  <2>4. Genuine(d)'
    BY <1>2, <2>1, <2>2, <2>3 DEF Genuine
  <2>5. f > opened[s] /\ drawn[s] # 0
    <3>1. TypeOK /\ Drawing /\ fetch[s] # "none"
      OBVIOUS
    <3> HIDE DEF FetchInv
    <3>2. frames \in Seq(Sizes \cup {EmulatedSize}) /\ opened \in [Sessions -> 0 .. MaxFrames]
      BY <3>1, Zenon DEF TypeOK
    <3>3. opened[s] \in 0 .. MaxFrames /\ Len(frames) \in Nat
      BY <3>2
    <3>4. opened[s] <= Len(frames) /\ drawn[s] # 0
      BY <3>1 DEF Drawing
    <3> QED
      BY <3>3, <3>4
  <2>6. Timely(d)'
    BY <1>1, <2>2, <2>5 DEF Timely, Redrawn
  <2> QED
    BY <2>4, <2>6
<1>5. \A d \in Pieces : Genuine(d)' /\ Timely(d)'
  BY <1>1, <1>3 DEF PiecesGenuine, PiecesTimely, Genuine, Timely, Redrawn
<1>6. Pieces' \subseteq Pieces \cup Stored'
  <2>1. DOMAIN m_store' = 1 .. n
    BY <1>1 DEF PopulateStore
  <2>2. Answer(0)' \in Stored'
    BY <1>2, <2>1 DEF Answer
  <2> QED
    BY <1>1, <2>2 DEF Pieces, Deliver
<1>7. PiecesGenuine' /\ PiecesTimely'
  <2> HIDE DEF Stored
  <2> QED
    BY <1>4, <1>5, <1>6 DEF PiecesGenuine, PiecesTimely
<1>8. OneVersion' /\ DoneComplete'
  BY <1>1 DEF OneVersion, DoneComplete, Complete
<1>9. Drawing'
  BY <1>1, <1>2, SMTT(30) DEF Drawing, TypeOK
<1>10. OnlyMisfitsThrow'
  <2> SUFFICES ASSUME edge = "down" PROVE OnlyMisfitsThrow'
    BY <1>1 DEF OnlyMisfitsThrow
  <2>0. PICK r \in Sessions :
           fetch[r] = "done" /\ \E d \in got[r] : ~Reshapes(frames[d.frame])
    BY DEF OnlyMisfitsThrow
  <2>1. PICK d \in got[r] : ~Reshapes(frames[d.frame])
    BY <2>0
  <2>2. d.frame \in DOMAIN frames
    BY <2>1 DEF PiecesGenuine, Pieces, Genuine
  <2> QED
    BY <1>1, <1>3, <2>0, <2>1, <2>2 DEF OnlyMisfitsThrow
<1> QED
  BY <1>7, <1>8, <1>9, <1>10

\* A segment of the store is put on its way.
LEMMA SegmentInterestStep ==
    ASSUME FetchInv, TypeOK', NEW s \in Sessions, NEW k \in Wanted(s),
           SegmentInterest(k), Deliver(s, Answer(k)), UNCHANGED <<fetch, got, edgeVars>>
    PROVE  FetchInv'
<1> USE DEF FetchInv
<1>1. Answer(k) \in {m_store[i] : i \in DOMAIN m_store}
  BY SMTT(30) DEF Wanted, SegmentInterest, Answer, TypeOK
<1>2. Pieces' \subseteq Pieces
  BY <1>1 DEF Pieces, Deliver, SegmentInterest, workerVars
<1>3. PiecesGenuine' /\ PiecesTimely'
  BY <1>2, GenuineKept, TimelyKept DEF SegmentInterest, workerVars, edgeVars
<1> QED
  BY <1>3 DEF SegmentInterest, workerVars, edgeVars, OneVersion, DoneComplete,
              Complete, Drawing, OnlyMisfitsThrow

\* A segment comes: it is of the version that the fetcher collects, and if it
\* was the last one, the frame is whole when it is reshaped.
LEMMA ReceiveStep ==
    ASSUME FetchInv, TypeOK', NEW s \in Sessions, Receive(s)
    PROVE  FetchInv'
<1> USE DEF FetchInv
<1>1. PICK d \in network :
         LET segments == got[s] \cup {d}
         IN  /\ Matches(s, d)
             /\ network' \subseteq network
             /\ got' = [got EXCEPT ![s] = segments]
             /\ IF Complete(segments)
                THEN /\ fetch' = [fetch EXCEPT ![s] = "done"]
                     /\ AfterFetchComplete(BytesOf(segments))
                ELSE UNCHANGED <<fetch, edge>>
  BY DEF Receive
<1> DEFINE S == got[s] \cup {d}
<1>2. /\ edge = "up" /\ fetch[s] = "asking"
      /\ UNCHANGED <<workerVars, edgeBoots, drawn, opened>>
      /\ UNCHANGED <<frames, m_store>>
  BY DEF Receive, workerVars
<1>3. /\ got \in [Sessions -> SUBSET Data] /\ network \in SUBSET Data
      /\ fetch \in [Sessions -> Phases]
  BY DEF TypeOK
<1>4. got'[s] = S /\ \A r \in Sessions \ {s} : got'[r] = got[r]
  BY <1>1, <1>3
<1>5. Pieces' \subseteq Pieces
  BY <1>1, <1>2, <1>4 DEF Pieces
<1>6. PiecesGenuine' /\ PiecesTimely'
  BY <1>2, <1>5, GenuineKept, TimelyKept
<1>7. \A a, b \in S : a.session = s /\ a.version = b.version
  <2>1. \A a \in got[s] : a.version = d.version
    BY <1>1 DEF Matches, Version, OneVersion
  <2> QED
    BY <1>1, <2>1 DEF Matches, OneVersion
<1>8. OneVersion'
  BY <1>4, <1>7 DEF OneVersion
<1>9. CASE Complete(S)
  <2>1. fetch' = [fetch EXCEPT ![s] = "done"] /\ AfterFetchComplete(BytesOf(S))
    BY <1>1, <1>9
  <2>2. S \in SUBSET Data /\ \A a \in S : Genuine(a)
    BY <1>3 DEF PiecesGenuine, Pieces
  <2>3. PICK f \in DOMAIN frames :
           /\ S # {} /\ \A a \in S : a.frame = f
           /\ BytesOf(S) = 0 .. frames[f] - 1
    BY <1>7, <1>9, <2>2, WholeFrame
  <2>4. frames[f] \in Nat
    <3>1. frames \in Seq(Sizes \cup {EmulatedSize})
      BY DEF TypeOK
    <3>2. frames[f] \in Sizes \cup {EmulatedSize}
      BY <2>3, <3>1
    <3> QED
      BY <3>2, SizesAreNumbers
  <2>5. Cardinality(BytesOf(S)) = frames[f]
    BY <2>3, <2>4, FS_Interval
  <2>6. OnlyMisfitsThrow'
    BY <1>2, <1>3, <1>4, <2>1, <2>3, <2>5 DEF AfterFetchComplete, OnlyMisfitsThrow
  <2>7. DoneComplete'
    BY <1>3, <1>4, <1>9, <2>1 DEF DoneComplete, Complete
  <2>8. Drawing'
    BY <1>2, <1>3, <2>1 DEF Drawing
  <2> QED
    BY <1>6, <1>8, <2>6, <2>7, <2>8
<1>10. CASE ~Complete(S)
  <2>1. UNCHANGED <<fetch, edge>>
    BY <1>1, <1>10
  <2>2. DoneComplete'
    BY <1>2, <1>4, <2>1 DEF DoneComplete, Complete
  <2> QED
    BY <1>2, <1>6, <1>8, <2>1, <2>2 DEF Drawing, OnlyMisfitsThrow
<1> QED
  BY <1>9, <1>10

\* The edge server starts over: all ids were drawn in an earlier run.
LEMMA EdgeBootStep ==
    ASSUME FetchInv, TypeOK', EdgeBoot
    PROVE  FetchInv'
<1> USE DEF FetchInv
<1>1. /\ edgeBoots' = edgeBoots + 1 /\ edge' = "up"
      /\ fetch' = [s \in Sessions |-> "none"]
      /\ got' = [s \in Sessions |-> {}]
      /\ UNCHANGED <<m_store, frames, network, drawn, opened>>
  BY DEF EdgeBoot, workerVars
<1>2. /\ edgeBoots \in Nat
      /\ \A s \in Sessions : drawn[s] \in Nat /\ drawn[s] <= edgeBoots
  BY DEF Drawing, TypeOK
<1>3. Pieces' \subseteq Pieces /\ \A d \in Pieces : d.session \in Sessions
  <2>1. Pieces' \subseteq Pieces
    BY <1>1 DEF Pieces
  <2>2. Pieces \subseteq Data
    BY DEF Pieces, TypeOK
  <2> QED
    BY <2>1, <2>2 DEF Data
<1>4. PiecesGenuine'
  BY <1>1, <1>3, GenuineKept
<1>5. PiecesTimely'
  BY <1>1, <1>2, <1>3 DEF PiecesTimely, Timely, Redrawn
<1>6. Drawing'
  BY <1>1, <1>2 DEF Drawing
<1> QED
  BY <1>1, <1>4, <1>5, <1>6 DEF OneVersion, DoneComplete, OnlyMisfitsThrow

LEMMA FetchInvStep ==
    ASSUME FetchInv, [Next]_vars
    PROVE  FetchInv'
<1>1. TypeOK'
  BY TypeStep DEF FetchInv
<1>2. ASSUME NEW s \in Sessions, Ask(s) PROVE FetchInv'
  <2>1. fetch[s] = "asking" /\ UNCHANGED <<fetch, got, edgeVars>>
    BY <1>2 DEF Ask
  <2>2. ASSUME NEW k, InterestBeforeCapture \/ SegmentOfEmptyStore \/ SegmentMissing(k),
               UNCHANGED network
        PROVE  FetchInv'
    <3>1. /\ UNCHANGED <<frames, got, edgeVars>>
          /\ m_store' \in {m_store, <<>>} /\ network' \subseteq network
      BY <2>1, <2>2 DEF InterestBeforeCapture, SegmentOfEmptyStore, SegmentMissing, Fail
    <3>2. \A r \in Sessions : \/ fetch'[r] = fetch[r]
                              \/ fetch[r] = "asking" /\ fetch'[r] = "failed"
      BY <2>1
    <3> QED
      BY <1>1, <3>1, <3>2, QuietStep
  <2> QED
    BY <1>1, <1>2, <2>1, <2>2, FirstInterestStep, SegmentInterestStep DEF Ask
<1>3. ASSUME NEW s \in Sessions, GiveUp(s) PROVE FetchInv'
  <2>1. /\ UNCHANGED <<frames, got, edgeVars>>
        /\ m_store' \in {m_store, <<>>} /\ network' \subseteq network
    BY <1>3 DEF GiveUp, workerVars
  <2>2. \A r \in Sessions : \/ fetch'[r] = fetch[r]
                            \/ fetch[r] = "asking" /\ fetch'[r] = "failed"
    BY <1>3 DEF GiveUp, FetchInv, TypeOK
  <2> QED
    BY <1>1, <2>1, <2>2, QuietStep
<1>4. CASE Lose \/ Boot \/ NextPicture \/ UNCHANGED vars
  <2>1. /\ UNCHANGED <<frames, got, edgeVars>>
        /\ m_store' \in {m_store, <<>>} /\ network' \subseteq network
    BY <1>4 DEF Lose, Boot, NextPicture, Restart, Capture, vars, workerVars
  <2>2. \A r \in Sessions : \/ fetch'[r] = fetch[r]
                            \/ fetch[r] = "asking" /\ fetch'[r] = "failed"
    BY <1>4 DEF Lose, Boot, NextPicture, vars
  <2> QED
    BY <1>1, <2>1, <2>2, QuietStep
<1> QED
  BY <1>1, <1>2, <1>3, <1>4, StartStep, ReceiveStep, EdgeBootStep DEF Next

LEMMA FetchInvInit ==
    ASSUME Init
    PROVE  FetchInv
<1>1. TypeOK
  BY TypeInit
<1>2. Pieces = {} /\ Len(frames) = 0
  BY DEF Init, WorkerInit, Pieces
<1>3. Drawing
  BY <1>2 DEF Init, Drawing
<1> QED
  BY <1>1, <1>2, <1>3 DEF Init, FetchInv, PiecesGenuine, PiecesTimely, OneVersion,
                          DoneComplete, OnlyMisfitsThrow

LEMMA FetchInvariance == Spec => []FetchInv
  BY FetchInvInit, FetchInvStep, PTL DEF Spec

-----------------------------------------------------------------------------
(* The properties.                                                         *)

\* What a session has fetched is one frame, whole and in order.
THEOREM FetchedFrameIsOne == Spec => []OneFrame
<1>1. FetchInv => OneFrame
  <2> SUFFICES ASSUME FetchInv, NEW s \in Sessions, fetch[s] = "done"
               PROVE  \E f \in DOMAIN frames :
                         /\ \A d \in got[s] : d.frame = f
                         /\ BytesOf(got[s]) = 0 .. frames[f] - 1
                         /\ \A d, e \in got[s] : d.segment < e.segment =>
                                 \A a \in d.bytes, b \in e.bytes : a < b
    BY DEF OneFrame
  <2>1. got[s] \in SUBSET Data /\ \A d \in got[s] : Genuine(d)
    BY DEF FetchInv, TypeOK, PiecesGenuine, Pieces
  <2>2. \A d, e \in got[s] : d.session = e.session /\ d.version = e.version
    BY DEF FetchInv, OneVersion
  <2>3. Complete(got[s]) /\ TypeOK
    BY DEF FetchInv, DoneComplete
  <2> QED
    BY <2>1, <2>2, <2>3, WholeFrame
<1> QED
  BY <1>1, FetchInvariance, PTL

\* What a session has fetched was stored after it was opened.
THEOREM FetchedFrameIsFresh == Spec => []FreshFrame
<1>1. FetchInv => FreshFrame
  BY DEF FetchInv, PiecesTimely, Pieces, Timely, OneVersion, FreshFrame
<1> QED
  BY <1>1, FetchInvariance, PTL

\* Only a picture that does not fill the rows brings the edge server down.
THEOREM ReshapeThrowsOnMisfits == Spec => []OnlyMisfitsThrow
<1>1. FetchInv => OnlyMisfitsThrow
  BY DEF FetchInv
<1> QED
  BY <1>1, FetchInvariance, PTL

-----------------------------------------------------------------------------
(* The last session to take the store.                                     *)

\* Of the numbers up to n that a set does not have, one is the least.
LEMMA LeastMissing ==
    ASSUME NEW n \in Nat, NEW S, NEW j \in 0 .. n - 1, j \notin S
    PROVE  \E k \in 0 .. n - 1 : k \notin S /\ 0 .. k - 1 \subseteq S
<1> DEFINE T == (0 .. n - 1) \ S
           Less == {pair \in Nat \X Nat : pair[1] < pair[2]}
<1>1. T \subseteq Nat /\ T # {}
  OBVIOUS
<1>2. IsWellFoundedOn(Less, Nat)
  BY NatLessThanWellFounded DEF OpToRel
<1>3. \A y, k \in Nat : y < k => <<y, k>> \in Less
  OBVIOUS
<1> HIDE DEF T, Less
<1>4. PICK k \in T : \A y \in T : <<y, k>> \notin Less
  BY <1>1, <1>2, WFMin
<1>5. \A y \in T : ~(y < k)
  BY <1>1, <1>3, <1>4
<1> QED
  BY <1>1, <1>4, <1>5 DEF T

\* A fetcher that has segments of one frame but not all asks for one of the others.
LEMMA WantedExists ==
    ASSUME NEW s \in Sessions, NEW n \in Nat,
           \A d \in got[s] : d.segment \in 0 .. n - 1,
           \A d, e \in got[s] : d.segment = e.segment => d = e,
           Cardinality(got[s]) # n
    PROVE  \E k \in 0 .. n - 1 : k \in Wanted(s)
<1> DEFINE f == [d \in got[s] |-> d.segment]
           T == 0 .. n - 1
<1>1. f \in Injection(got[s], T)
  BY DEF Injection, IsInjective
<1>2. IsFiniteSet(T) /\ Cardinality(T) = n
  BY FS_Interval
<1>3. IsFiniteSet(got[s]) /\ f \notin Surjection(got[s], T)
  BY <1>1, <1>2, FS_Injection
<1>4. Cardinality(got[s]) \in Nat
  BY <1>3, FS_CardinalityType
<1>5. \E j \in T : j \notin Segments(s)
  BY <1>1, <1>3 DEF Surjection, Injection, Segments
<1>6. PICK k \in T : k \notin Segments(s) /\ 0 .. k - 1 \subseteq Segments(s)
  BY <1>5, LeastMissing
<1>7. f \in Surjection(got[s], Segments(s))
  BY DEF Surjection, Segments
<1>8. IsFiniteSet(Segments(s)) /\ Cardinality(Segments(s)) <= Cardinality(got[s])
  BY <1>3, <1>7, FS_Surjection
<1>9. Cardinality(0 .. k - 1) = k
  BY <1>6, FS_Interval
<1>10. k <= Cardinality(Segments(s)) /\ Cardinality(Segments(s)) \in Nat
  BY <1>6, <1>8, <1>9, FS_Subset, FS_CardinalityType
<1>11. k \in 0 .. Cardinality(got[s])
  BY <1>4, <1>6, <1>8, <1>10
<1> QED
  BY <1>6, <1>11 DEF Wanted

\* The session that took the store last is served: it does not give up.
LEMMA TakerServed ==
    ASSUME FetchInv, crash = "none", NEW s \in Sessions, StoreTaken(s)
    PROVE  Served(s)
<1> DEFINE v == m_versionedPrefix.version
           n == Len(m_store)
<1>1. CASE got[s] = {}
  BY <1>1 DEF StoreTaken, Served, Matches
<1>2. CASE got[s] # {}
  <2>1. m_store \in Seq(Data) /\ n \in Nat \ {0} /\ DOMAIN m_store = 1 .. n
    BY DEF FetchInv, TypeOK, StoreTaken
  <2>2. /\ Genuine(m_store[1])
        /\ m_store[1].version = v /\ m_store[1].finalBlock = n - 1
    BY <2>1 DEF FetchInv, PiecesGenuine, Pieces, StoreTaken
  <2>3. got[s] \in SUBSET Data /\ \A d \in got[s] : Genuine(d)
    BY DEF FetchInv, TypeOK, PiecesGenuine, Pieces
  <2>4. \A d \in got[s] : d.session = s /\ d.version = v
    BY DEF FetchInv, OneVersion, StoreTaken
  <2>5. \A d \in got[s] : d.finalBlock = n - 1 /\ d.segment \in 0 .. n - 1
    BY <2>2, <2>3, <2>4 DEF Genuine
  <2>6. \A d, e \in got[s] : d.segment = e.segment => d = e
    BY <2>3, <2>4, SameSegment
  <2>7. Cardinality(got[s]) # n
    BY <1>2, <2>1, <2>5 DEF StoreTaken, Complete
  <2>8. PICK k \in 0 .. n - 1 : k \in Wanted(s)
    BY <2>1, <2>5, <2>6, <2>7, WantedExists
  <2>9. Version(s) = v
    BY <1>2, <2>4 DEF Version
  <2>10. /\ k + 1 \in DOMAIN m_store
         /\ m_store[k + 1].session = s
         /\ m_store[k + 1].version = v
         /\ m_store[k + 1].segment = k
    BY <2>1, <2>8 DEF StoreTaken
  <2> QED
    BY <1>2, <2>8, <2>9, <2>10 DEF Served, Matches
<1> QED
  BY <1>1, <1>2

\* A step that leaves the store and the fetch of its session alone, and what is on
\* its way for it.
LEMMA TakenKept ==
    ASSUME NEW s \in Sessions, StoreTaken(s),
           UNCHANGED <<m_store, m_versionedPrefix, fetch[s], got[s]>>,
           {d \in network' : d.session = s} = {d \in network : d.session = s}
    PROVE  StoreTaken(s)'
  BY DEF StoreTaken, Complete

\* A session that has nothing, and for which nothing is on its way, takes the store.
LEMMA TakenByFirst ==
    ASSUME FetchInv, NEW s \in Sessions, fetch[s] = "asking", got[s] = {},
           \A d \in network : d.session # s,
           FirstInterest(s), Deliver(s, Answer(0)'), UNCHANGED <<fetch, got>>
    PROVE  m_versionedPrefix' # NoPrefix /\ m_versionedPrefix'.session = s
           /\ StoreTaken(s)'
<1> DEFINE n == SegmentCount(size)
           v == Len(frames) + 1
<1>1. size \in Nat /\ n \in Nat \ {0} /\ v \in Nat \ {0}
  <2>1. size \in Nat
    BY SizesAreNumbers DEF FetchInv, TypeOK
  <2>2. n \in Nat \ {0}
    BY <2>1, SegmentNumbers
  <2>3. v \in Nat \ {0}
    BY DEF FetchInv, TypeOK
  <2> QED
    BY <2>1, <2>2, <2>3
<1>2. m_versionedPrefix' = [session |-> s, version |-> v]
  BY DEF FirstInterest, Now
<1>3. /\ DOMAIN m_store' = 1 .. n /\ Len(m_store') = n /\ m_store' # <<>>
      /\ \A i \in 1 .. n : /\ m_store'[i].session = s /\ m_store'[i].version = v
                           /\ m_store'[i].segment = i - 1
                           /\ m_store'[i].finalBlock = n - 1
  <2> HIDE DEF n, v
  <2>1. m_store' = [k \in 1 .. n |->
                       [session |-> s, version |-> v, segment |-> k - 1,
                        finalBlock |-> n - 1, frame |-> v,
                        bytes |-> Slice(size, k - 1)]]
    BY DEF FirstInterest, PopulateStore, Now, n, v
  <2>2. DOMAIN m_store' = 1 .. n /\ Len(m_store') = n
    BY <1>1, <2>1
  <2> QED
    BY <1>1, <2>1, <2>2
<1>4. Answer(0)' = m_store'[1]
  BY DEF Answer
<1> HIDE DEF n, v
<1>5. network' = network \cup {m_store'[1]} /\ m_store'[1].session = s
  BY <1>1, <1>3, <1>4 DEF Deliver, Matches
<1>6. \A d \in network' \cup got'[s] : d.session = s => d.version = v
  BY <1>1, <1>3, <1>5
<1>7. ~Complete(got'[s])
  BY DEF Complete
<1>8. m_versionedPrefix'.version = v /\ m_versionedPrefix'.session = s
  BY <1>2
<1>9. StoreTaken(s)'
  BY <1>1, <1>3, <1>5, <1>6, <1>7, <1>8 DEF StoreTaken
<1> QED
  BY <1>2, <1>8, <1>9, WorkerAssumption DEF NoPrefix, Sessions

\* Where nothing is lost and nothing restarted, these are the steps.
LEMMA QuietSteps ==
    ASSUME ~Lossy, MaxBoots = 1, MaxEdgeBoots = 1, TypeOK, [Next]_vars
    PROVE  \/ \E s \in Sessions : Start(s) \/ Ask(s) \/ Receive(s) \/ GiveUp(s)
           \/ NextPicture
           \/ UNCHANGED vars
  BY DEF Next, Lose, Boot, Restart, EdgeBoot, TypeOK

\* A crash is for good then, and so is a fetch that is done.
LEMMA StillUndone ==
    ASSUME ~Lossy, MaxBoots = 1, MaxEdgeBoots = 1, TypeOK, [Next]_vars,
           crash' = "none", \A s \in Sessions : fetch'[s] # "done"
    PROVE  crash = "none" /\ \A s \in Sessions : fetch[s] # "done"
<1>1. ASSUME NEW s \in Sessions, Start(s) \/ GiveUp(s)
      PROVE  crash = "none" /\ \A q \in Sessions : fetch[q] # "done"
  BY <1>1 DEF Start, GiveUp, NextId, workerVars, TypeOK
<1>2. ASSUME NEW s \in Sessions, Ask(s)
      PROVE  crash = "none" /\ \A q \in Sessions : fetch[q] # "done"
  BY <1>2 DEF Ask, FirstInterest, InterestBeforeCapture, SegmentInterest,
     SegmentOfEmptyStore, SegmentMissing
<1>3. ASSUME NEW s \in Sessions, Receive(s)
      PROVE  crash = "none" /\ \A q \in Sessions : fetch[q] # "done"
  BY <1>3 DEF Receive, workerVars, TypeOK
<1>4. CASE NextPicture \/ UNCHANGED vars
  BY <1>4 DEF NextPicture, Capture, vars, workerVars
<1> QED
  BY <1>1, <1>2, <1>3, <1>4, QuietSteps

\* Before a session took the store, sessions are opened and the first one takes it.
LEMMA FreeStep ==
    ASSUME ~Lossy, MaxBoots = 1, MaxEdgeBoots = 1, FetchInv, [Next]_vars,
           crash = "none", crash' = "none", m_versionedPrefix = NoPrefix, StoreFree
    PROVE  IF m_versionedPrefix' = NoPrefix
           THEN StoreFree' ELSE StoreTaken(m_versionedPrefix.session)'
<1>1. ASSUME NEW s \in Sessions, Start(s)
      PROVE  m_versionedPrefix' = NoPrefix /\ StoreFree'
  BY <1>1 DEF Start, workerVars, StoreFree, FetchInv, TypeOK
<1>2. ASSUME NEW s \in Sessions, Ask(s)
      PROVE  m_versionedPrefix' # NoPrefix /\ StoreTaken(m_versionedPrefix.session)'
  <2>1. got[s] = {} /\ network = {} /\ fetch[s] = "asking" /\ UNCHANGED <<fetch, got>>
    BY <1>2 DEF Ask, StoreFree
  <2>2. FirstInterest(s) /\ Deliver(s, Answer(0)')
    BY <1>2, <2>1 DEF Ask, InterestBeforeCapture, Fail
  <2>3. m_versionedPrefix' # NoPrefix /\ m_versionedPrefix'.session = s
        /\ StoreTaken(s)'
    BY <2>1, <2>2, TakenByFirst
  <2> QED
    BY <2>3 DEF StoreTaken
<1>3. ASSUME NEW s \in Sessions, Receive(s) PROVE FALSE
  BY <1>3 DEF Receive, StoreFree
<1>4. ASSUME NEW s \in Sessions, GiveUp(s) PROVE FALSE
  BY <1>4 DEF GiveUp, Served, StoreFree
<1>5. CASE NextPicture \/ UNCHANGED vars
  BY <1>5 DEF NextPicture, Capture, vars, workerVars, StoreFree
<1> QED
  BY <1>1, <1>2, <1>3, <1>4, <1>5, QuietSteps DEF FetchInv

\* A session that took the store keeps what it needs, or another one takes it.
LEMMA TakenStep ==
    ASSUME ~Lossy, MaxBoots = 1, MaxEdgeBoots = 1, FetchInv, [Next]_vars,
           crash = "none", crash' = "none", \A q \in Sessions : fetch'[q] # "done",
           m_versionedPrefix # NoPrefix, StoreTaken(m_versionedPrefix.session)
    PROVE  m_versionedPrefix' # NoPrefix /\ StoreTaken(m_versionedPrefix.session)'
<1> DEFINE o == m_versionedPrefix.session
<1>0. o \in Sessions /\ fetch[o] = "asking"
  <2>1. m_store[1] \in Data /\ m_store[1].session = o
    BY DEF FetchInv, TypeOK, StoreTaken
  <2> QED
    BY <2>1 DEF Data, StoreTaken
<1>1. ASSUME UNCHANGED <<m_store, m_versionedPrefix, fetch[o], got[o]>>,
             {d \in network' : d.session = o} = {d \in network : d.session = o}
      PROVE  m_versionedPrefix' # NoPrefix /\ StoreTaken(m_versionedPrefix.session)'
  <2>1. StoreTaken(o)'
    BY <1>0, <1>1, TakenKept
  <2>2. m_versionedPrefix' = m_versionedPrefix
    BY <1>1
  <2> QED
    BY <2>1, <2>2 DEF StoreTaken
<1>2. ASSUME NEW s \in Sessions, Start(s)
      PROVE  m_versionedPrefix' # NoPrefix /\ StoreTaken(m_versionedPrefix.session)'
  <2>1. fetch[s] = "none" /\ s # o
    BY <1>0, <1>2 DEF Start, NextId
  <2>2. UNCHANGED <<m_store, m_versionedPrefix, network, fetch[o], got[o]>>
    BY <1>0, <1>2, <2>1 DEF Start, workerVars, FetchInv, TypeOK
  <2> QED
    BY <1>1, <2>2
<1>3. ASSUME NEW s \in Sessions, Ask(s)
      PROVE  m_versionedPrefix' # NoPrefix /\ StoreTaken(m_versionedPrefix.session)'
  <2>1. fetch[s] = "asking" /\ UNCHANGED <<fetch, got>> /\ Unanswered(s)
    BY <1>3 DEF Ask
  <2>2. CASE got[s] = {} /\ FirstInterest(s) /\ Deliver(s, Answer(0)')
    <3>1. \A d \in network : d.session # s
      BY <2>1, <2>2 DEF Unanswered, Matches
    <3>2. m_versionedPrefix' # NoPrefix /\ m_versionedPrefix'.session = s
          /\ StoreTaken(s)'
      BY <2>1, <2>2, <3>1, TakenByFirst
    <3> QED
      BY <3>2 DEF StoreTaken
  <2>3. ASSUME got[s] # {}, NEW k \in Wanted(s), SegmentInterest(k),
               Deliver(s, Answer(k))
        PROVE  m_versionedPrefix' # NoPrefix /\ StoreTaken(m_versionedPrefix.session)'
    <3>1. k + 1 \in DOMAIN m_store
      BY <2>3 DEF Wanted, SegmentInterest, FetchInv, TypeOK
    <3>2. Answer(k).session = o /\ Answer(k).version = m_versionedPrefix.version
      BY <3>1 DEF Answer, StoreTaken
    <3>3. \A d \in network' : d \in network \/ d = Answer(k)
      BY <2>3 DEF Deliver
    <3>4. network \subseteq network'
      BY <2>3 DEF Deliver
    <3>5. UNCHANGED <<m_store, m_versionedPrefix, got, fetch>>
      BY <2>1, <2>3 DEF SegmentInterest, workerVars
    <3>6. StoreTaken(o)'
      BY <3>2, <3>3, <3>4, <3>5 DEF StoreTaken, Complete
    <3> QED
      BY <3>5, <3>6 DEF StoreTaken
  <2> QED
    BY <1>3, <2>2, <2>3 DEF Ask, InterestBeforeCapture, SegmentOfEmptyStore,
       SegmentMissing, Fail
<1>4. ASSUME NEW s \in Sessions, Receive(s)
      PROVE  m_versionedPrefix' # NoPrefix /\ StoreTaken(m_versionedPrefix.session)'
  <2>1. PICK d \in network :
           /\ d.session = s
           /\ network' = network \ {d}
           /\ got' = [got EXCEPT ![s] = @ \cup {d}]
           /\ IF Complete(got[s] \cup {d})
              THEN fetch' = [fetch EXCEPT ![s] = "done"]
              ELSE fetch' = fetch
    BY <1>4 DEF Receive, Matches
  <2>2. UNCHANGED <<m_store, m_versionedPrefix>>
    BY <1>4 DEF Receive, workerVars
  <2>3. fetch' = fetch /\ ~Complete(got[s] \cup {d})
    BY <2>1 DEF FetchInv, TypeOK
  <2>4. CASE s # o
    <3>1. got'[o] = got[o]
      BY <1>0, <2>1, <2>4 DEF FetchInv, TypeOK
    <3>2. {x \in network' : x.session = o} = {x \in network : x.session = o}
      BY <2>1, <2>4
    <3> QED
      BY <1>1, <2>2, <2>3, <3>1, <3>2
  <2>5. CASE s = o
    <3>1. got'[o] = got[o] \cup {d}
      BY <1>0, <2>1, <2>5 DEF FetchInv, TypeOK
    <3>2. StoreTaken(o)'
      BY <2>1, <2>2, <2>3, <2>5, <3>1 DEF StoreTaken, Complete
    <3> QED
      BY <2>2, <3>2 DEF StoreTaken
  <2> QED
    BY <2>4, <2>5
<1>5. ASSUME NEW s \in Sessions, GiveUp(s)
      PROVE  m_versionedPrefix' # NoPrefix /\ StoreTaken(m_versionedPrefix.session)'
  <2>1. s # o
    BY <1>0, <1>5, TakerServed DEF GiveUp
  <2>2. UNCHANGED <<m_store, m_versionedPrefix, network, fetch[o], got[o]>>
    BY <1>0, <1>5, <2>1 DEF GiveUp, workerVars, FetchInv, TypeOK
  <2> QED
    BY <1>1, <2>2
<1>6. CASE NextPicture \/ UNCHANGED vars
  <2>1. UNCHANGED <<m_store, m_versionedPrefix, network, fetch, got>>
    BY <1>6 DEF NextPicture, Capture, vars, workerVars
  <2> QED
    BY <1>1, <2>1
<1> QED
  BY <1>2, <1>3, <1>4, <1>5, <1>6, QuietSteps DEF FetchInv

\* Where no packet is lost and no process restarted, the last session to take the store
\* finds its picture there, or on its way, until a session is done: those that take the
\* store from each other do not empty it.
THEOREM LastTakerInvariance ==
    ASSUME ~Lossy, MaxBoots = 1, MaxEdgeBoots = 1
    PROVE  Spec => []LastTakerGoesOn
<1>1. Init => LastTakerGoesOn
  BY DEF Init, WorkerInit, LastTakerGoesOn, StoreFree
<1>2. ASSUME FetchInv, LastTakerGoesOn, [Next]_vars PROVE LastTakerGoesOn'
  <2> SUFFICES ASSUME crash' = "none", \A s \in Sessions : fetch'[s] # "done"
               PROVE  IF m_versionedPrefix' = NoPrefix
                      THEN StoreFree' ELSE StoreTaken(m_versionedPrefix.session)'
    BY DEF LastTakerGoesOn
  <2>1. crash = "none" /\ \A s \in Sessions : fetch[s] # "done"
    BY <1>2, StillUndone DEF FetchInv
  <2>2. CASE m_versionedPrefix = NoPrefix
    BY <1>2, <2>1, <2>2, FreeStep DEF LastTakerGoesOn
  <2>3. CASE m_versionedPrefix # NoPrefix
    BY <1>2, <2>1, <2>3, TakenStep DEF LastTakerGoesOn
  <2> QED
    BY <2>2, <2>3
<1> QED
  BY <1>1, <1>2, FetchInvariance, PTL DEF Spec

\* Where no packet is lost and no process restarted, the sessions that fetch from one
\* worker do not all fail, however they take the store from each other.
THEOREM NotAllFail ==
    ASSUME ~Lossy, MaxBoots = 1, MaxEdgeBoots = 1
    PROVE  Spec => []SomeoneCompletes
<1>1. ASSUME FetchInv, LastTakerGoesOn PROVE SomeoneCompletes
  <2> SUFFICES ASSUME crash = "none",
                      \E s \in Sessions : fetch[s] # "none",
                      \A s \in Sessions : fetch[s] \in {"none", "done", "failed"},
                      \A s \in Sessions : fetch[s] # "done"
               PROVE  FALSE
    BY DEF SomeoneCompletes
  <2>1. CASE m_versionedPrefix = NoPrefix
    BY <1>1, <2>1 DEF LastTakerGoesOn, StoreFree
  <2>2. CASE m_versionedPrefix # NoPrefix
    <3>1. StoreTaken(m_versionedPrefix.session)
      BY <1>1, <2>2 DEF LastTakerGoesOn
    <3>2. m_store[1] \in Data /\ m_store[1].session = m_versionedPrefix.session
      BY <1>1, <3>1 DEF FetchInv, TypeOK, StoreTaken
    <3> QED
      BY <3>1, <3>2 DEF StoreTaken, Data
  <2> QED
    BY <2>1, <2>2
<1>2. Spec => []LastTakerGoesOn
  BY LastTakerInvariance
<1> QED
  BY <1>1, <1>2, FetchInvariance, PTL

-----------------------------------------------------------------------------
(* The fetchers, the store and the packets implement PictureService.       *)

\* No segment is ever stored of a frame that was stored for another session.
LEMMA FramesOwnedStep ==
    ASSUME FetchInv, FramesOwned, [Next]_vars
    PROVE  FramesOwned'
<1> DEFINE Stored == {m_store[i] : i \in DOMAIN m_store}
<1>1. ASSUME Pieces' \subseteq Pieces PROVE FramesOwned'
  BY <1>1 DEF FramesOwned
<1>2. ASSUME NEW s \in Sessions, FirstInterest(s), Deliver(s, Answer(0)'),
             UNCHANGED <<fetch, got, edgeVars>>
      PROVE  FramesOwned'
  <2>1. size \in Nat /\ SegmentCount(size) \in Nat \ {0}
    BY SizesAreNumbers, SegmentNumbers DEF FetchInv, TypeOK
  <2>2. \A d \in Stored' : d.session = s /\ d.frame = Len(frames) + 1
    BY <1>2 DEF FirstInterest, PopulateStore
  <2>3. \A d \in Pieces : d.frame \in DOMAIN frames
    BY DEF FetchInv, PiecesGenuine, Genuine
  <2>4. \A d \in Pieces : d.frame # Len(frames) + 1
    BY <2>3 DEF FetchInv, TypeOK
  <2>5. Pieces' \subseteq Pieces \cup Stored'
    <3>1. DOMAIN m_store' = 1 .. SegmentCount(size)
      BY <1>2 DEF FirstInterest, PopulateStore
    <3>2. Answer(0)' \in Stored'
      BY <2>1, <3>1 DEF Answer
    <3> QED
      BY <1>2, <3>2 DEF Pieces, Deliver
  <2> HIDE DEF Stored
  <2> QED
    BY <2>2, <2>4, <2>5 DEF FramesOwned
<1>3. ASSUME NEW s \in Sessions, NEW k \in Wanted(s), SegmentInterest(k),
             Deliver(s, Answer(k)), UNCHANGED <<fetch, got, edgeVars>>
      PROVE  FramesOwned'
  <2>1. Answer(k) \in {m_store[i] : i \in DOMAIN m_store}
    BY <1>3 DEF Wanted, SegmentInterest, Answer, FetchInv, TypeOK
  <2> QED
    BY <1>1, <1>3, <2>1 DEF Pieces, Deliver, SegmentInterest, workerVars
<1>4. ASSUME NEW s \in Sessions, Ask(s) PROVE FramesOwned'
  <2>1. ASSUME NEW k, InterestBeforeCapture \/ SegmentOfEmptyStore \/ SegmentMissing(k),
               UNCHANGED <<got, network>>
        PROVE  FramesOwned'
    BY <1>1, <2>1 DEF InterestBeforeCapture, SegmentOfEmptyStore, SegmentMissing, Fail, Pieces
  <2> QED
    BY <1>2, <1>3, <1>4, <2>1 DEF Ask
<1>5. ASSUME NEW s \in Sessions, Receive(s) PROVE FramesOwned'
  <2>1. PICK d \in network : /\ network' \subseteq network
                             /\ got' = [got EXCEPT ![s] = got[s] \cup {d}]
    BY <1>5 DEF Receive
  <2>2. m_store' = m_store /\ got \in [Sessions -> SUBSET Data]
    BY <1>5 DEF Receive, workerVars, FetchInv, TypeOK
  <2> QED
    BY <1>1, <2>1, <2>2 DEF Pieces
<1>6. ASSUME NEW s \in Sessions, Start(s) PROVE FramesOwned'
  <2>1. got \in [Sessions -> SUBSET Data]
    BY DEF FetchInv, TypeOK
  <2> QED
    BY <1>1, <1>6, <2>1 DEF Start, workerVars, Pieces
<1>7. ASSUME NEW s \in Sessions, GiveUp(s) PROVE FramesOwned'
  BY <1>1, <1>7 DEF GiveUp, workerVars, Pieces
<1>8. CASE Lose \/ Boot \/ NextPicture \/ EdgeBoot \/ UNCHANGED vars
  BY <1>1, <1>8 DEF Lose, Boot, NextPicture, Restart, Capture, EdgeBoot, vars,
                    workerVars, Pieces
<1> QED
  BY <1>4, <1>5, <1>6, <1>7, <1>8 DEF Next

LEMMA FramesOwnedInvariance == Spec => []FramesOwned
<1>1. Init => FramesOwned
  BY DEF Init, WorkerInit, Pieces, FramesOwned
<1> QED
  BY <1>1, FramesOwnedStep, FetchInvariance, PTL DEF Spec

\* What the sessions got does not change unless a fetch is done or forgotten.
LEMMA PicturesKept ==
    ASSUME \A s \in Sessions : /\ fetch'[s] = "done" <=> fetch[s] = "done"
                               /\ fetch[s] = "done" => got'[s] = got[s]
    PROVE  [s \in Sessions |-> IF fetch[s] = "done" THEN Picture(s) ELSE {}]'
             = [s \in Sessions |-> IF fetch[s] = "done" THEN Picture(s) ELSE {}]
  BY DEF Picture

\* A step of which a session learns nothing.
LEMMA Unnoticed ==
    ASSUME UNCHANGED <<frames, fetch, opened, drawn, edgeBoots, edge>>,
           \A s \in Sessions : fetch[s] = "done" => got'[s] = got[s]
    PROVE  UNCHANGED Pictures!vars
<1>1. UNCHANGED [s \in Sessions |-> IF fetch[s] = "done" THEN Picture(s) ELSE {}]
  BY PicturesKept
<1> QED
  BY <1>1 DEF Pictures!vars, Redrawn

\* A fetch that is done serves its session with a picture that it may get.
LEMMA ServeStep ==
    ASSUME FetchInv, TypeOK', OneFrame', FreshFrame', FramesOwned', OneVersion',
           NEW s \in Sessions, Receive(s), fetch'[s] = "done"
    PROVE  ~(edge = "down") /\ Pictures!Serve(s)
<1> DEFINE pictures == [q \in Sessions |-> IF fetch[q] = "done" THEN Picture(q) ELSE {}]
<1>1. PICK d \in network :
         LET segments == got[s] \cup {d}
         IN  /\ got' = [got EXCEPT ![s] = segments]
             /\ IF Complete(segments)
                THEN /\ fetch' = [fetch EXCEPT ![s] = "done"]
                     /\ AfterFetchComplete(BytesOf(segments))
                ELSE UNCHANGED <<fetch, edge>>
  BY DEF Receive
<1>2. /\ edge = "up" /\ fetch[s] = "asking"
      /\ UNCHANGED <<frames, edgeBoots, drawn, opened>>
  BY DEF Receive, workerVars
<1>3. /\ got \in [Sessions -> SUBSET Data] /\ fetch \in [Sessions -> Phases]
      /\ frames \in Seq(Sizes \cup {EmulatedSize})
  BY DEF FetchInv, TypeOK
<1>4. /\ got'[s] = got[s] \cup {d}
      /\ \A q \in Sessions \ {s} : got'[q] = got[q]
  BY <1>1, <1>3
<1>5. /\ fetch' = [fetch EXCEPT ![s] = "done"]
      /\ AfterFetchComplete(BytesOf(got'[s]))
  BY <1>1, <1>2, <1>4
<1>6. PICK f \in DOMAIN frames : /\ \A e \in got'[s] : e.frame = f
                                 /\ BytesOf(got'[s]) = 0 .. frames[f] - 1
  BY <1>2 DEF OneFrame
<1>7. Picture(s)' = Pictures!Bytes(f)
  <2>1. Picture(s)' = {f} \X BytesOf(got'[s])
    BY <1>6 DEF Picture, BytesOf
  <2> QED
    BY <1>6, <2>1 DEF Pictures!Bytes
<1>8. pictures' = [pictures EXCEPT ![s] = Pictures!Bytes(f)]
  <2>1. \A q \in Sessions \ {s} : /\ fetch'[q] = fetch[q]
                                  /\ Picture(q)' = Picture(q)
    BY <1>3, <1>4, <1>5 DEF Picture
  <2>2. pictures' = [q \in Sessions |-> IF q = s THEN Pictures!Bytes(f) ELSE pictures[q]]
    BY <1>7, <2>1
  <2> QED
    BY <2>2
<1>9. Pictures!MayGet(s, f)
  <2>1. s \notin {q \in Sessions : drawn[q] # 0 /\ Redrawn(q)} => f > opened[s]
    <3>1. drawn[s] # 0
      BY <1>2 DEF FetchInv, Drawing
    <3> QED
      BY <1>2, <1>4, <1>6, <3>1 DEF FreshFrame, Redrawn
  <2>2. ASSUME NEW q \in Sessions \ {s} PROVE pictures[q] \cap Pictures!Bytes(f) = {}
    <3> SUFFICES ASSUME NEW p \in pictures[q], p \in Pictures!Bytes(f) PROVE FALSE
      OBVIOUS
    <3>1. fetch[q] = "done" /\ \E e \in got[q] : p \in {e.frame} \X e.bytes
      BY DEF Picture
    <3>2. PICK e \in got[q] : p[1] = e.frame
      BY <3>1
    <3>3. p[1] = f
      BY DEF Pictures!Bytes
    <3>4. e \in got'[q] /\ d \in got'[s] /\ d.frame = e.frame
      BY <1>4, <1>6, <3>2, <3>3
    <3>5. e.session = q /\ d.session = s
      BY <3>4 DEF OneVersion
    <3>6. d \in Pieces' /\ e \in Pieces'
      BY <3>4 DEF Pieces
    <3> QED
      BY <3>4, <3>5, <3>6 DEF FramesOwned
  <2> QED
    BY <2>1, <2>2 DEF Pictures!MayGet
<1>10. (edge = "down")' = (frames[f] \in {n \in Sizes \cup {EmulatedSize} : ~Reshapes(n)})
  <2>1. frames[f] \in Sizes \cup {EmulatedSize} /\ frames[f] \in Nat
    BY <1>3, SizesAreNumbers
  <2>2. Cardinality(BytesOf(got'[s])) = frames[f]
    BY <1>6, <2>1, FS_Interval
  <2> QED
    BY <1>2, <1>5, <2>1, <2>2 DEF AfterFetchComplete
<1>11. UNCHANGED {q \in Sessions : drawn[q] # 0 /\ Redrawn(q)}
  BY <1>2 DEF Redrawn
<1> HIDE DEF pictures
<1> QED
  BY <1>2, <1>5, <1>8, <1>9, <1>10, <1>11 DEF Pictures!Serve, pictures

\* Every step is a step of the service, or none of its business.
LEMMA PicturesStep ==
    FetchInv /\ FetchInv' /\ OneFrame' /\ FreshFrame' /\ FramesOwned' /\ [Next]_vars
        => [Pictures!Next]_Pictures!vars
<1> SUFFICES ASSUME FetchInv, FetchInv', OneFrame', FreshFrame', FramesOwned', [Next]_vars
             PROVE  [Pictures!Next]_Pictures!vars
  OBVIOUS
<1> DEFINE pictures == [q \in Sessions |-> IF fetch[q] = "done" THEN Picture(q) ELSE {}]
           again == {q \in Sessions : drawn[q] # 0 /\ Redrawn(q)}
<1>1. /\ fetch \in [Sessions -> Phases] /\ got \in [Sessions -> SUBSET Data]
      /\ drawn \in [Sessions -> 0 .. MaxEdgeBoots]
      /\ edgeBoots \in 1 .. MaxEdgeBoots
      /\ size \in Sizes \cup {EmulatedSize}
  BY DEF FetchInv, TypeOK
<1>2. ASSUME NEW s \in Sessions, Start(s) PROVE Pictures!Next
  <2>1. /\ edge = "up" /\ fetch[s] = "none"
        /\ fetch' = [fetch EXCEPT ![s] = "asking"]
        /\ got' = [got EXCEPT ![s] = {}]
        /\ drawn' = [drawn EXCEPT ![s] = IF @ = 0 THEN edgeBoots ELSE @]
        /\ opened' = [opened EXCEPT ![s] = Len(frames)]
        /\ UNCHANGED <<frames, edge, edgeBoots>>
    BY <1>2 DEF Start, NextId, workerVars
  <2>2. UNCHANGED pictures
    <3>1. \A q \in Sessions : /\ fetch'[q] = "done" <=> fetch[q] = "done"
                              /\ fetch[q] = "done" => got'[q] = got[q]
      BY <1>1, <2>1
    <3> QED
      BY <3>1, PicturesKept
  <2>3. again' = again
    <3>1. \A q \in Sessions : (drawn[q] # 0 /\ Redrawn(q))' <=> (drawn[q] # 0 /\ Redrawn(q))
      BY <1>1, <2>1 DEF Redrawn
    <3> QED
      BY <3>1
  <2> HIDE DEF pictures, again
  <2>4. Pictures!Ask(s)
    BY <2>1, <2>2, <2>3 DEF Pictures!Ask, pictures, again
  <2> QED
    BY <2>1, <2>4 DEF Pictures!Next
<1>3. ASSUME NEW s \in Sessions, Ask(s) PROVE [Pictures!Next]_Pictures!vars
  <2>1. /\ edge = "up" /\ fetch[s] = "asking"
        /\ UNCHANGED <<fetch, got, edge, edgeBoots, drawn, opened>>
    BY <1>3 DEF Ask, edgeVars
  <2>2. CASE FirstInterest(s)
    <3>1. UNCHANGED pictures
      BY <2>1, PicturesKept
    <3>2. again' = again
      BY <2>1 DEF Redrawn
    <3>3. \E n \in Sizes \cup {EmulatedSize} : frames' = Append(frames, n)
      BY <1>1, <2>2 DEF FirstInterest
    <3> HIDE DEF pictures, again
    <3>4. Pictures!Take(s)
      BY <2>1, <3>1, <3>2, <3>3 DEF Pictures!Take, pictures, again
    <3> QED
      BY <2>1, <3>4 DEF Pictures!Next
  <2>3. CASE UNCHANGED frames
    BY <2>1, <2>3, Unnoticed
  <2> QED
    BY <1>3, <2>2, <2>3 DEF Ask, InterestBeforeCapture, SegmentInterest, SegmentOfEmptyStore,
                            SegmentMissing, Fail, workerVars
<1>4. ASSUME NEW s \in Sessions, Receive(s) PROVE [Pictures!Next]_Pictures!vars
  <2>1. CASE fetch'[s] = "done"
    BY <1>4, <2>1, ServeStep DEF Pictures!Next, FetchInv
  <2>2. CASE fetch'[s] # "done"
    <3>1. PICK S : /\ got' = [got EXCEPT ![s] = S]
                   /\ \/ fetch' = [fetch EXCEPT ![s] = "done"]
                      \/ UNCHANGED <<fetch, edge>>
      BY <1>4 DEF Receive
    <3>2. UNCHANGED <<fetch, edge>>
      BY <1>1, <2>2, <3>1
    <3>3. /\ fetch[s] = "asking"
          /\ UNCHANGED <<frames, opened, drawn, edgeBoots>>
      BY <1>4 DEF Receive, workerVars
    <3>4. \A q \in Sessions : fetch[q] = "done" => got'[q] = got[q]
      BY <1>1, <3>1, <3>3
    <3> QED
      BY <3>2, <3>3, <3>4, Unnoticed
  <2> QED
    BY <2>1, <2>2
<1>5. ASSUME NEW s \in Sessions, GiveUp(s) PROVE Pictures!Next
  <2>1. /\ edge = "up" /\ fetch[s] = "asking"
        /\ fetch' = [fetch EXCEPT ![s] = "failed"]
        /\ UNCHANGED <<frames, got, edge, edgeBoots, drawn, opened>>
    BY <1>5 DEF GiveUp, workerVars, edgeVars
  <2>2. UNCHANGED pictures
    <3>1. \A q \in Sessions : fetch'[q] = "done" <=> fetch[q] = "done"
      BY <1>1, <2>1
    <3> QED
      BY <2>1, <3>1, PicturesKept
  <2>3. again' = again
    BY <2>1 DEF Redrawn
  <2> HIDE DEF pictures, again
  <2>4. Pictures!Refuse(s)
    BY <2>1, <2>2, <2>3 DEF Pictures!Refuse, pictures, again
  <2> QED
    BY <2>1, <2>4 DEF Pictures!Next
<1>6. CASE EdgeBoot
  <2>1. /\ edgeBoots' = edgeBoots + 1 /\ edge' = "up"
        /\ fetch' = [s \in Sessions |-> "none"]
        /\ UNCHANGED <<frames, drawn, opened>>
    BY <1>6 DEF EdgeBoot, workerVars
  <2>2. pictures' = [s \in Sessions |-> {}]
    BY <2>1
  <2>3. again' = again \cup {s \in Sessions : fetch[s] # "none"}
    <3>1. \A s \in Sessions :
             /\ (drawn[s] # 0 /\ Redrawn(s))' <=> drawn[s] # 0
             /\ fetch[s] # "none" => drawn[s] # 0
             /\ drawn[s] # 0 => Redrawn(s) \/ fetch[s] # "none"
      <4> SUFFICES ASSUME NEW s \in Sessions
                   PROVE  /\ (drawn[s] # 0 /\ Redrawn(s))' <=> drawn[s] # 0
                          /\ fetch[s] # "none" => drawn[s] # 0
                          /\ drawn[s] # 0 => Redrawn(s) \/ fetch[s] # "none"
        OBVIOUS
      <4>1. /\ drawn[s] \in Nat /\ edgeBoots \in Nat /\ drawn[s] <= edgeBoots
            /\ fetch[s] = "none" => drawn[s] # edgeBoots
            /\ fetch[s] # "none" => drawn[s] # 0
        BY <1>1 DEF FetchInv, Drawing
      <4> QED
        BY <2>1, <4>1 DEF Redrawn
    <3> QED
      BY <3>1
  <2> HIDE DEF pictures, again
  <2>4. Pictures!StartOver
    BY <2>1, <2>2, <2>3 DEF Pictures!StartOver, pictures, again
  <2> QED
    BY <2>4 DEF Pictures!Next
<1>7. CASE Lose \/ Boot \/ NextPicture \/ UNCHANGED vars
  <2>1. UNCHANGED <<frames, fetch, got, opened, drawn, edgeBoots, edge>>
    BY <1>7 DEF Lose, Boot, NextPicture, Restart, Capture, vars, workerVars, edgeVars
  <2> QED
    BY <2>1, Unnoticed
<1> QED
  BY <1>2, <1>3, <1>4, <1>5, <1>6, <1>7 DEF Next

\* Fetching frames implements the abstract service: whatever is lost, delayed, repeated
\* or started again, a session gets one picture in one piece, taken after it asked, that
\* no other session gets.
THEOREM FetchImplements == Spec => ImplementsPictures
<1>1. Init => Pictures!Init
  BY DEF Init, WorkerInit, Pictures!Init, Redrawn
<1> QED
  BY <1>1, PicturesStep, FetchInvariance, FramesOwnedInvariance, FetchedFrameIsOne,
     FetchedFrameIsFresh, PTL DEF Spec, ImplementsPictures, Pictures!Spec
=============================================================================
