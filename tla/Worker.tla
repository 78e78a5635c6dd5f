-------------------------------- MODULE Worker --------------------------------
(***************************************************************************)
(* A camera node (worker/src/worker.cpp) and its detector's capture thread *)
(* (worker/src/objectdetection.cpp).  In cloud mode a worker answers the   *)
(* Interest of a session with the first segment of a new frame and keeps   *)
(* that frame's segments in one store; later Interests name a version and  *)
(* a segment.  Handlers run one at a time on the face's thread.            *)
(*                                                                         *)
(* Of a picture only its bytes are counted (Segmentation).  A version is   *)
(* the time it was appended, so no two are the same.                       *)
(***************************************************************************)
EXTENDS Segmentation, Sequences

CONSTANTS
    MaxSessions,    \* bound: the number of sessions
    Sizes,          \* the bytes a picture of a camera or a dummy file may have
    EmulatedSize,   \* the bytes of the picture that emulation mode makes up (25)
    MaxFrames,      \* bound: the number of frames that are stored
    MaxBoots        \* bound: how often the process is started

ASSUME WorkerAssumption ==
    /\ MaxSessions \in Nat \ {0}
    /\ Sizes \subseteq Nat
    /\ EmulatedSize \in Nat \ Sizes
    /\ MaxFrames \in Nat
    /\ MaxBoots \in Nat \ {0}

VARIABLES
    m_frame,            \* whether there is a picture
    m_store,            \* the segments of one frame
    m_versionedPrefix,  \* the session and version m_store is for
    size,               \* the bytes of a picture that the source gives
    frames,             \* the bytes of each frame that was stored, in order
    boots,              \* how often the process was started
    crash               \* what ended the process, if anything did

workerVars == <<m_frame, m_store, m_versionedPrefix, size, frames, boots, crash>>

\* Sessions are numbered as the edge server draws their ids.
Sessions == 1 .. MaxSessions
Crashes == {"none", "empty_frame", "empty_store", "null_data"}
NoPrefix == [session |-> 0, version |-> 0]

\* The names of Data packets are a session, a version and a segment.
Data == [session : Sessions, version : 1 .. MaxFrames, segment : Nat,
         finalBlock : Nat, frame : 1 .. MaxFrames, bytes : SUBSET Nat]

\* Where pictures come from: a camera or a dummy file, which gave none yet, or
\* emulation mode, where returnMat makes one up.
Sources ==
    [picture : {FALSE}, size : Sizes] \cup [picture : {TRUE}, size : {EmulatedSize}]

WorkerInit ==
    /\ \E source \in Sources : m_frame = source.picture /\ size = source.size
    /\ m_store = <<>>
    /\ m_versionedPrefix = NoPrefix
    /\ frames = <<>>
    /\ boots = 1
    /\ crash = "none"

\* An exception that leaves a handler ends the process, and so does an assertion.
Fail(reason) ==
    /\ crash' = reason
    /\ UNCHANGED <<m_frame, m_store, m_versionedPrefix, size, frames, boots>>

\* One round of the capture thread, which takes a picture or loses the one it
\* had: imread of a file that is not there gives an empty one.  The dummy file is
\* read anew each time, and may have been replaced by one of another size.
Capture ==
    /\ crash = "none"
    /\ size \in Sizes
    /\ \/ m_frame' = TRUE /\ size' \in Sizes
       \/ m_frame' = FALSE /\ UNCHANGED size
    /\ UNCHANGED <<m_store, m_versionedPrefix, frames, boots, crash>>

\* Mutant: frames are not told apart by their version.
SameVersion == 1

\* The time that appendVersion appends.
Now == Len(frames) + 1

\* Mutant: the version is appended anew for each segment.
PopulateAnew(s) ==
    [k \in 1 .. SegmentCount(size) |->
        [session |-> s, version |-> Now + k - 1, segment |-> k - 1,
         finalBlock |-> SegmentCount(size) - 1, frame |-> Len(frames) + 1,
         bytes |-> Slice(size, k - 1)]]

\* populateStore: a new frame, cut into segments that carry the last one's number.
PopulateStore(s) ==
    [k \in 1 .. SegmentCount(size) |->
        [session |-> s, version |-> Now, segment |-> k - 1,
         finalBlock |-> SegmentCount(size) - 1, frame |-> Len(frames) + 1,
         bytes |-> Slice(size, k - 1)]]

\* An Interest without a segment: a new frame replaces the store, whoever is
\* still fetching the one before.  Its first segment is the answer.
FirstInterest(s) ==
    /\ crash = "none"
    /\ m_frame
    /\ Len(frames) < MaxFrames
    /\ frames' = Append(frames, size)
    /\ m_versionedPrefix' = [session |-> s, version |-> Now]
    /\ m_store' = PopulateStore(s)
    /\ UNCHANGED <<m_frame, size, boots, crash>>

\* returnMat writes the frame to a file, and detect makes a blob of it: both
\* throw while it is empty.
InterestBeforeCapture ==
    /\ crash = "none"
    /\ ~m_frame
    /\ Fail("empty_frame")

\* Mutant: the segments of the store are counted from one.
AnswerBefore(k) == m_store[IF k = 0 THEN 1 ELSE k]

\* The Data put for segment k: the store is indexed with k, whatever session and
\* version the Interest names.
Answer(k) == m_store[k + 1]

\* processSegmentInterest for an Interest for segment k.
SegmentInterest(k) ==
    /\ crash = "none"
    /\ k < Len(m_store)
    /\ UNCHANGED workerVars

\* BOOST_ASSERT(m_store.size() > 0).
SegmentOfEmptyStore ==
    /\ crash = "none"
    /\ m_store = <<>>
    /\ Fail("empty_store")

\* The Data that was not found is signed before it is found to be null: a null
\* pointer is followed, which the system ends the process for.
SegmentMissing(k) ==
    /\ crash = "none"
    /\ m_store # <<>>
    /\ k >= Len(m_store)
    /\ Fail("null_data")

\* The process is started again, perhaps with another source of pictures.
Restart ==
    /\ boots < MaxBoots
    /\ boots' = boots + 1
    /\ \E source \in Sources : m_frame' = source.picture /\ size' = source.size
    /\ m_store' = <<>>
    /\ m_versionedPrefix' = NoPrefix
    /\ crash' = "none"
    /\ UNCHANGED frames
=============================================================================
