# Crowdsensing: specification and proofs

A web page looks for objects ("person", "dog") at places on a map. It asks an
edge server over NDN, a network in which an *Interest* packet names what is
wanted and one *Data* packet answers it. The edge server asks the workers
(camera nodes) at those places, collects what they say and answers the page.
This directory models that system in TLA+, checks it with TLC and proves its
main facts with TLAPS.

## The system

| Part | Source | State | Operations |
|---|---|---|---|
| Web page | `client/js/main.js`, `target-manager.js`, `manager.js`, `index.html` | the target and the name to ask, `isFinding`, the targets listed on the page, `cellsArray` | register a target, the 500 ms tick that asks, an answer, a timeout, leaving or reloading the page |
| Edge server | `edge/src/producer.cpp`, `session-manager.cpp`, `execute.cpp` | the table of sessions, each with a buffer, a Data packet and a timer; two counters of the whole server | open a session, a result, no result, the timer, `send_data` |
| Worker | `worker/src/worker.cpp`, `objectdetection.cpp` | the last picture; in cloud mode one store of a frame's segments | first Interest, segment Interest, capture, restart |
| Detector | `*/objectdetection.cpp` | the last picture and `m_run` (worker), the network's weights | `detect`, `postprocess`, start and stop of the capture thread |
| Programs | `main.cpp`, `parameter.cpp` | the options, the threads, the connection to the forwarder | parse, construct, `run`, unwind after an exception |
| Helpers | `encode.cpp`, `decode.cpp` | none | encode |

How they interact:

1. The page expresses an Interest with a list of locations and a target.
2. `Producer::onInterest` (edge mode) or `onInterest_Cloud` (cloud mode) draws
   a session id, resets the server's two counters, puts a session with a 10 s
   timer in the table and re-invokes one Interest per location.
3. In edge mode the worker at a location runs its detector and answers with
   one JSON line (`onData`). In cloud mode a `SegmentFetcher` of ndn-cxx
   fetches a whole frame from the worker, `Executor::afterFetchComplete` runs
   the detector at the edge server and hands the JSON line to `adddata`.
4. A result is appended to its session's buffer and counted. When as many
   results were counted as Interests were issued, the "ndn" thread runs
   `send_data`; when the session's timer fires, the "timer" thread does.
5. `send_data` fills the session's Data packet from the buffer, puts it on the
   face, dumps the table and erases the session. The page parses the answer
   and marks its map.

What makes this hard:

- **Two threads in `send_data`.** It takes the table's lock three times, for
  one access each, and not in between. The reference to the buffer, the Data object and
  `dump` are used without any lock.
- **Shared counters.** `m_number_of_arrival_interest` and
  `m_issued_interest` belong to the server, not to a session, so overlapping
  sessions advance and reset each other's count.
- **Timers that are destroyed.** Erasing a session destroys its timer, which
  runs the handler with an error the handler does not look at.
- **One store per worker.** Every first Interest clears the segments that
  other sessions are still fetching.
- **Loss, reload and restart.** Packets are lost, pages are reloaded while a
  request is open, workers are restarted while a frame is fetched, and a
  restarted edge server draws the same session ids again.
- **Exceptions and threads.** `main` catches what is thrown while it constructs
  its objects; what leaves a handler is thrown in another thread and ends the
  process. `run` waits for a timer thread that never ends.

## The modules

| Module | Models |
|---|---|
| `QueryService` | what the edge server promises: a query is made, results come in, there is one reply made of results of that query |
| `Producer` | the edge server with both threads, in both modes |
| `ProducerInvariant` | the invariants that `Producer`'s steps preserve |
| `ProducerProofs` | the theorems about `Producer` |
| `Client` | the web page |
| `PageService` | what users of the pages are promised: one search at a time, which ends once, and a map that shows only what was asked for |
| `CrowdSensing` | pages, the network and `Producer` (by `INSTANCE`) together |
| `CrowdSensingInvariant` | the invariants that `CrowdSensing`'s steps preserve |
| `CrowdSensingProofs` | the theorems about `CrowdSensing`; those about `Producer` carried over |
| `Segmentation` | how a picture is cut into segments and put together again |
| `SegmentationProofs` | that the segments partition the picture |
| `Worker` | a worker's picture, its frame store and its restarts in cloud mode |
| `PictureService` | what cloud mode promises a session: a whole picture, its own and not an old one, or none |
| `FrameFetch` | several sessions fetching frames from one `Worker`, and restarts of the edge server |
| `FrameFetchInvariant`, `FrameFetchProofs` | the inductive invariant of `FrameFetch` and the theorems |
| `InterestName` | the names of Interests: what the edge server and the workers take from them |
| `ZOrder` | from a location to a cell of the map |
| `ZOrderProofs` | that a location leads to its cell and to no other |
| `Detection` | from the rows of the network to the names of what was seen |
| `DetectionProofs` | that the suppression of boxes has one outcome and the detector tells the truth |
| `Search` | one search from the text a user types to the marked cells |
| `SearchProofs` | the theorems about `Search` |
| `Process` | both programs from `main` to their end |
| `ProcessProofs` | the theorems about `Process` |
| `MCProducer`, `MCCrowdSensing`, `MCFrameFetch`, `MCSearch` | instances for TLC |

### Producer

Variables have the names of the code where there is one: `m_hash_table`,
`buffer`, the two counters. `content` is the content of `Session::data_ptr`;
`timer` is "armed" while the wait is pending, "queued" when the handler was
posted (by expiry or by destruction) and "done" once it ran; `pending` holds
the re-invoked Interests without a result; `sent` is what was put on the face.
A result is the number of the Interest it answers, so that a buffer is a set.

Granularity: a handler of the ndn thread is one action where it touches shared
state once. `send_data` is one action for each access: `BufferFound` /
`BufferMissing`, `PacketFound` / `PacketMissing`, `SetContent`, `PutData`,
`Dump`, `EraseSession`. `Return` puts the ndn thread back into `onData`, which
resets the counters.

Undefined behaviour is a choice. `fault` stays "none", and the step does what
the code says, or it becomes "null_packet" (line 346 through a null pointer),
"freed_buffer" (the reference outlived its session), "buffer_race",
"packet_race" or "table_race" (two threads in an unlocked access at the same
time), and the program stops. A null pointer is a fault in every outcome.

`m_edge_mode` is the server's option, chosen once from `Modes`. The modes differ in what the timer can meet. In
edge mode a re-invoked Interest lives 1 s and the timer 10 s, so when the timer
fires nothing of its session is under way (`Settled`); this assumes that the
ndn thread, which does no heavy work in edge mode, lags less than 9 s. In cloud
mode a `SegmentFetcher` retries for up to a minute and frames are detected on
the ndn thread, so everything may still be under way.

### Client and CrowdSensing

A callback of the page is one action, as JavaScript runs them one at a time. A
name is reduced to the target it asks about. An exception thrown by `onData` is
caught by ndn-js; what it leaves undone is the point: `isFinding` stays up, and
the page is *jammed*. It throws on an empty answer, on a result whose target has no
element, and on one whose place is in no row of `cellsArray` (`Throws`). The results before
it are marked, those behind it are not (`Shown`), so the order in which they came
matters (`Payloads`). A place behind the last cell of a row does not throw: the row gets
longer, and `draw` does not show it; hence `RowPlaces`, of which `Cells` are a part. `CrowdSensing` gives each request of a page a session of the
same identity. The forwarder delivers or loses each packet; a page's 30 s are
longer than the server's 10 s, so a page only times out when a packet was lost
or the server is gone (`NothingComes`).

`PageService` has no packets, sessions, threads or counters. A page makes a search,
which is received some time or never; it ends with an answer that marks some of the
places asked for, with nothing, or with a jammed page, which has marked some only if
one was asked for that is in no row of the map. `CrowdSensing` is shown to
implement it (`ImplementsPages`): `SendRequest` is `Search`, `InterestArrives` is
`Receive` (also when the page is gone), the first answer is `Answer` or `Jam`, the timeout
is `NoAnswer`, a reload is `Load`, and all that the server does in between is not seen.

### Segmentation, Worker and FrameFetch

A picture is the number of its bytes; a segment has the set of the positions of
its bytes, so that "whole and in order" can be stated. `Slice` has the two cases
of the loop of `populateStore`. `Reshapes` is the condition under which
`raw.reshape(3, 480)` does not throw.

The worker's capture thread takes a picture or loses it (`Capture`: `imread` of a
missing file gives an empty one; in dummy mode the file is read anew every 5 s, so that
the size may change as well, without a restart); emulation makes one up that is too small for
any 480 rows. The store is indexed with the segment number of the Interest,
whatever session and version the name has (`Answer`); the Data it returns then
has another name, which the forwarder drops (`Deliver`).

`SegmentFetcher`, an external library, is modelled from its use: one segment at
a time (`initCwnd = 1`, constant window), retransmission, failure after a minute
without progress. `network` is the Data under way and, if `Lossy`, copies that
forwarders keep and deliver to later Interests of the same name. Sessions are
numbered in the order in which the generator with seed 1 draws their ids, and
`EdgeBoot` starts that order over (`NextId`). `drawn` and `opened` are history:
in which run an id was drawn first, and how many frames there were when its
session was opened last.

`PictureService` has no store, no packets and no segments: pictures are taken
while a session waits, and a session is given the bytes of one of them, which
nobody else got, or nothing. `FrameFetch` is shown to implement it
(`ImplementsPictures`): the frames are the pictures, and what a fetcher has put
together, each byte with the frame that it is of, is a session's picture once the
fetch is done. A step that fills the store is `Take`, the `Receive` that completes
a fetch is `Serve`, `EdgeBoot` is `StartOver`, and the rest is not seen.

### InterestName, ZOrder and Search

`Producer` and `Client` number the locations of a request. What the numbers
stand for is here: a keyword such as `#a:[30321,33212] #a:[person]` is a
sequence of words, split at the spaces, each a sequence of items, split at
the commas, each a sequence of characters. Characters that NDN escapes in a URI and
`decodeURI` does not restore are `Foreign`. `ConvertInterestName` gives the names
that route an Interest to the worker at a location; in edge mode the worker
reports its own prefix as the location and takes the target from the name
(`EdgeResults`), in cloud mode the edge server has kept both (`CloudResults`).
`ConvertZordertoXY` works on decimal digits and bits like the code;
`InSquare` is what it is compared with, a map that each digit halves in both directions. `Places` are the 256 locations of one cell each.

A worker's filter matches by prefix, so a longer location that somebody types reaches
the worker whose location it begins with, and nothing in the code forbids to. In edge mode
that worker answers for its own place; in cloud mode the edge server names the place
that was asked for, which is in no row of the map, so that the page throws on it (`Throw`)
and shows nothing that comes after it. `MapAgrees` and `OwnCell` say what becomes of such
requests. `DigitsAssumption` says that places are written in digits, however many, and
that no word of what is looked for begins with one (`Terms`), as with the classes of the
detector; a target with a word such as `30321` in it may well be taken for a place.

### Detection

Worker and edge server have copies of one detector, and which of them looks at
a picture depends on the mode. The network is left out; a *scene* is the rows it
puts out, each a box with a score in per cent for each class. `ClassId` is the
first class with the greatest score (`minMaxLoc`), `Confident` the rows above
0.5, `NMSBoxes` OpenCV's greedy suppression with threshold 0.4, over boxes of
all classes as the code calls it: the set of the boxes that none of the kept ones
hides. Two boxes without area overlap in full, as OpenCV has it, wherever they are. `Search` gives each worker a scene and marks a
cell as found or not. What may be said of a scene (`Truthful`) is stated
without the detector's steps: a thing is `Seen` as what it is likelier than not
and as likely as anything else, and `PlainlySeen` if nothing else is as likely. Only
what is plainly seen must be reported, unless it is hidden: of two classes with the
same score `minMaxLoc` takes the first, and the second is not reported.

### Process

One process is a main thread (`step`) and its other `threads`. An exception
during construction unwinds to the `catch` of `main` and runs the destructor of the
detector, which stops and joins the capture thread (`StopCapture`, `Caught`);
one that leaves another thread is `Abort`. The edge server's detector leaves
`m_run` as the memory was (`PlainDetector`), so its destructor may join a
thread that does not exist (`StopNothing`). `onRegisterFailed` follows a null
pointer. A process that ended may be started again at any time.

## What is checked

| Run | Instance | Shows |
|---|---|---|
| `safety` | 3 sessions, up to 2 locations each and 4 in all, both modes | `AnswersBelong`: an answer has only results of its own session that had arrived. `NoSilentDrop`: no session is erased unanswered. `EarlyAnswerNotEmpty`, `OncePerThread`, `CountNeverPassed`. In edge mode `AnsweredOnce`: never two answers, and `OnlyDumpRaces`: the unlocked `dump` is the only undefined behaviour in reach |
| `service` | 2 sessions, 2 locations, both modes, fair | `ImplementsService`: the server refines `QueryService`. `EverySessionAnswered` |
| `one_page` | 1 page, 3 requests, a user who may enter a name for another target and ask for a place beside the map | `OneRequest`: one Interest at a time. `OpenSessionsBounded`: no more open sessions than pages. `EarlyAnswerComplete`: with one page that is not reloaded the shared counters do no harm, as they are those of one session (`OnePageInv`) |
| `reloaded_page` | 1 page, 2 requests of up to two places, of which the second is in no row of the map, reloads, loss, fair | `OnlyAnswersJam`: only an empty answer, an unlisted target or a place in no row of the map stops a page from asking. `SearchEnds`: every request ends. `ImplementsPages`: pages, network and server are `PageService`; a map shows places of the page's own search only, also when the session of the page before a reload is still open |
| `fetch_lossy` | 2 sessions, 3 frames of one, two or three segments, a file that is replaced, a restart of the worker or of the edge server, loss, repetition and copies | `OneFrame`: a fetched picture is one whole frame. `FreshFrame`: taken after the session was opened, unless the edge server was restarted and drew its id again. `OnlyMisfitsThrow`: the edge server falls only over a picture that does not fill its rows |
| `fetch_quiet` | 3 sessions, 3 frames, no loss, fair | `SomeoneCompletes`: sessions that overwrite each other's store do not all fail, because the last one to take the store goes on (`LastTakerGoesOn`). `ImplementsPictures`: what the sessions see is `PictureService`. `FetchEnds` |
| `names` | all 256 locations, alone or with one of 5 others, of which one is a region without a worker and two lie within a worker's place, targets of one and two words and of foreign characters, workers at 192 locations with 9 different scenes, some of them emulated, both modes | `ResultsAnswer`: a result is about a place that was asked for, or the worker that it lies within, and the target that was meant. `OwnCell`: a result leads to a cell in the square of the worker that it names and of no other, or, if it names a place within a worker's, to no row of the map. `MapAgrees`: the marked cells are the squares of the workers that were asked, some of which may be missing in cloud mode if somebody asked for a place within a worker's; none for a target of two words, whose name is split at the space and finds no worker, nor for one with characters that `decodeURI` leaves escaped, whose results the page does not know. `MarksAreTrue`: a cell is marked as found only where there is such a thing, as not found only where there is none or each is hidden by another thing that is as sure |
| `processes` | a worker and an edge server, each with a forwarder that comes and goes, fair | `NoZombie`: nothing waits for a timer thread after the ndn thread has ended. `NoThreadLeft`. `StartFailuresAreCaught`: only the garbage in `m_run` gets past `main`. `EndsOrServes`: a started program ends or registers its prefix |

Four runs each refute what the source says of itself:

| Run | Statement | What happens |
|---|---|---|
| `discarded_counts` | "this packet is discarded because the corresponding session does not exist" (producer.cpp:315) | the result is counted, for whichever session was opened last |
| `missing_reported` | "ERROR: Session does not exist." (producer.cpp:353) | a session erased between `buffer` and `data_packet` is a null pointer that is dereferenced |
| `store_empty` | `BOOST_ASSERT(m_store.size() > 0)` (worker.cpp:310) | fails for a segment Interest after a restart |
| `segment_missing` | "Interest cannot be satisfied, sending Nack" (worker.cpp:334) | the null Data is signed first (329) |

Each property of a passing run is tried against a changed model: the operators
marked "Mutant" are plausible slips in the code they stand next to, and each
makes TLC find the property violated.

Bounds. Two sessions are enough for two threads to meet in one session or in
two; a third lets one session be opened while a result of an erased one and the
timer of another are still to come. Two locations are the least with which a
count can be incomplete. Three requests let a page ask, be answered, ask again
and still have a late session behind. One, two or three
segments let a frame be shorter or longer than the one it replaces, and three
frames let two sessions take the store from each other and one of them take it
back. The pictures have 4, 6 and 12 bytes with segments of 5 and 2 rows: one that
does not fill its rows, one with a short last segment, one with two full ones and
a short last segment; the proofs hold for all sizes. The scenes have what decides: a
score at the threshold, a tie, things in front of, behind and next to another,
and a thing hidden only by what is hidden itself. `MaxFrames`, `MaxBoots` and
`MaxEdgeBoots` are bounds of the model; the code has none. Processes share
nothing, so one of each kind is enough in `processes`. Sessions, requests and
pages are treated alike, hence the symmetry in the runs without liveness;
`FourNames` only cuts off sessions with more locations, and `OneRestart` states
in which both programs were restarted, and in `fetch_lossy` a third frame is only stored
after one of them was.

Deadlock is checked in `processes`, where somebody can always start a program
again, and not elsewhere: clients need not ask, fetches end, and a fault ends the
program.

Fairness. `Producer`: each thread runs its next step of `send_data`
(`WF(SendData(t))`), a re-invoked Interest is answered or expires, an armed timer
expires and a posted handler is run; clients are not forced to ask.
`CrowdSensing` adds that a packet is delivered or lost and an Interest without answer expires;
users do nothing unless they like. `FrameFetch`: a fetcher asks, what comes is
delivered and its one minute ends; neither program is forced to restart, and
the capture thread is not forced to take a picture. `Process`: the system runs
main and every thread that has something to do (`WF`), and `processEvents` gets
an answer from the forwarder; nobody has to start or stop anything.

## What is proved

### The edge server

`ProducerProofs` proves, for every set of sessions, every number of locations
and both modes:

- `TypeCorrect`, `NoMixedAnswers`, `NoSessionDropped`, `NoEmptyEarlyAnswer`,
  `NoThreadAnswersTwice`, `NoCountPassed`, `EdgeModeAnswersOnce`,
  `EdgeModeOnlyDumpRaces`: the properties of `safety`.
- `Implementation`: `Spec => Service!Spec`, the refinement of `QueryService`.

The only assumption is `ProducerAssumption`: there is at least one location, the
modes are among the two, and `NoSession` is no session.

None of the properties is inductive. `ProducerInvariant` strengthens them, one
conjunct for each idea, and each is proved on top of those before it:

1. `OnlyOpened`: nothing happens to a session that was not opened.
2. `ResultsBelong`: results only move on, from `pending` to `buffer` to `content`
   to `sent`. Without the middle sets, `AnswersBelong` says nothing of the step
   that puts a packet the other thread has filled.
3. `ErasedIsAnswered`: whoever is between the put and the erase has answered.
4. `EarlyHasResult`: the ndn thread enters `send_data` right after appending
   to the session's buffer, or with a session that is gone and will not be found. A
   session that was found never loses its results.
5. `OneAnswerEach`: the timer's handler runs once, and the ndn thread has erased
   what it answered before it handles another result.
6. `EdgeExclusion`: in edge mode a queued timer means that the ndn thread is
   done with the session, so a thread inside `send_data` has it to itself.

There is one step per action and one per conjunct the action
disturbs; `Invariance` combines the conjuncts. For `Implementation`, `OnData` maps to `Collect`,
`OnInterest` to `Ask`, the first `PutData` to `Reply` and everything else to a
step the client does not see.

### Pages and edge server together

`CrowdSensingProofs` takes the theorems over with
`EdgeProofs == INSTANCE ProducerProofs WITH Sessions <- Requests`: a step of the
system is a step of `Producer` or leaves its variables alone (`EdgeStep`), so what
is proved of `Producer` holds of the server among its pages, lost packets and
reloads (`RequestAnsweredOnce`). About the pages it proves `PagesTypeCorrect` and
`OneRequestPerPage`, from `OneWaiting`: a page with an Interest under way has its
`isFinding` up and exactly that one.

`SessionsBoundedByPages` needs both sides: `SessionsInv` says that a session
without an answer belongs to a request that was delivered and that some page
still waits for (`Awaited`). Two such sessions have different pages by
`OneWaiting`, so there is an injection from open sessions to pages. A page that
is reloaded forgets what it waits for; hence the hypothesis `~UsersReload`.

`PagesAreServed` carries the refinement over as well: among its pages the server
still implements `QueryService`. `PagesJamOnAnswers` looks at one step: the only one
that leaves a page with `isFinding` up and nothing under way is `OnData` with an empty
answer, one for an unlisted target or one with a place in no row, as a page that loses its Interest lowers
`isFinding` with the timeout.

`PagesImplementation` proves the refinement of `PageService` for any number of pages,
requests, places, losses and reloads, in both modes. The step that matters is the
answer: what is in the packet belongs to the session (`ResultsBelong`), the session is
that of the one request that the page waits for (`OneWaiting`), and it was received
(`OnlyOpened`, `Expressed`). All results of an answer name one target, so that the page shows
all of them, or none, or those before the first place that is in no row of the map
(`ShownOfAnswer`).

`OnePageInvariance` proves the invariant `OnePageInv`, and `OnePageGetsAll` from it that
in edge mode one page that is not reloaded always gets complete early answers. By `OneWaiting` and `OnlyDelivered` a session is opened only
when all those before it were answered (`OpensAlone`), so that the session
with pending results is the only one; as long as that is so, what the server has
counted is what this session has collected (`CountersOfOne`), and when the count is
full so is the buffer (`EarlyHasAll`). The argument needs edge mode: in cloud mode
the timer answers a session whose frame is still being fetched, and the page's next
session meets its late results.

### Frames

`SegmentationProofs` proves that the segments of a picture of any size partition
its bytes (`Partition`, `SlicesCover`) and come in order.
`FrameFetchProofs` proves the four invariants of `fetch_lossy` for every number
of sessions, frames and restarts and every segment size. Its invariant `FetchInv` speaks of all
Data there is, in the store, on its way, kept, and with the fetchers: each is
`Genuine` (a segment of the stored frame whose number is its version) and
`Timely` (stored after its session was opened, if the id is new). A fetcher only
takes Data of its session and of one version (`OneVersion`), so what it has when
it is complete are all the segments of one frame, and `SlicesCover` says that
these are its bytes. `OnlyMisfitsThrow` follows: the bytes put together are as
many as the frame's.

`FetchImplements` proves the refinement of `PictureService` for all sizes, numbers of
sessions, losses and restarts. It adds `FramesOwned` to the invariant, that a
frame was stored for one session; then no two sessions can be given the same
picture. `FetchInv` gives the rest of `Serve`: whole, and taken after the session
was opened unless its number was used before.

`NotAllFail` proves `SomeoneCompletes` for any number of sessions and frames, where no
packet is lost and nothing restarts; with loss or a restart all sessions
may fail, so the three hypotheses (`~Lossy`, one boot of each process) cannot be
dropped. `LastTakerInvariance` proves what is behind it, `LastTakerGoesOn`: until a session is done, either nobody
has taken the store, or the one whose frame is in it is still asking, has only
segments of that frame, and finds each next one there.

### Programs

`ProcessProofs` proves the safety properties of `processes` for any number of
programs. `NoThreadLeft` rests on where a program can be while a thread runs.

### What is seen, and where

`DetectionProofs` proves, for all rows a network may put out and any list of classes:

- `SuppressionIsDefinite`: exactly one set of boxes fulfils what greedy suppression
  is defined by. Existence and uniqueness both are by the least counterexample in the
  order of looking at boxes (`Surer`), which is total because equal scores are
  ordered by position.
- `DetectorTellsTruth`: `Postprocess` says only what may be said of a scene
  (`Truthful`).

`ZOrderProofs` proves `PlacesHaveTheirCells`: the page's way of reading a
location digit by digit leads each of the 256 places to a cell of the map, in
the square of that place and of no other. The digits are read by recursive
functions (`Number`, `ConvertZordertoXY`). Five digits are few enough to write down
what such a function is, show that it fulfils its definition and unfold it digit by
digit, with no induction. `SquaresHaveOneCell` adds the converse: the square of a place
has no cell but that one, as a number below 16 is known by its four bits
(`FromFourBits`).

`PlacesWithinHaveNoRow` is about locations of any length: one that begins with one of the
256 and goes on leads below the last row. Its number has six digits or more and begins with 3
(`Between`). With 30000 taken off it has as many and begins with 2 or 3, which both have the
bit for y set; each digit that follows takes it twice as far down (`TwiceAsFar`). This needs an
induction over the digits, of the first order: a set that has 0 and with each number the
next one has them all, since there is no least number that it lacks (`Induction`).

`SearchProofs` puts them together. Each re-invoked name has one location, the one that
routes it, from the location key of the request, and the worker that answers is one
whose place it begins with. Hence `ResultsTellTruth`: in cloud mode, too, the result names
the place of the worker whose picture was looked at, or one within it (`ResultsAreTrue` is
the invariant behind `MarksAreTrue`). `ResultsHaveTheirCells`, `TypeCorrect` and
`MapTellsTruth` then follow for any workers on the map (`Workers \subseteq Places`),
requests and scenes: by `PlacesWithinHaveNoRow` nothing is marked for a place within
a worker's.

`ResultsAnswerRequests` and `MapAgreesWithRequest` say what becomes of the words a user
types, for requests of any length. They are put together by a recursive function over
the targets (`Keyword`) and each item is read character by character (`DecodeURI`). That
such a function exists, and that there is only one, is proved where it is needed
(`Wording`, `Flattening`), with `Induction` again. Then:

- an item is read as it was typed if and only if no character of it stays escaped
  (`PlainItems`, `EscapedItems`), and is not read as digits unless it is typed so
  (`NoDigits`);
- targets of one item each make one word, whose first item is the first target, behind
  the word of the places (`OneWord`, `OneWordRead`);
- a target of more items splits the targets, so that the last word but one is of
  targets, and no worker is found there (`MoreWords`, `MoreWordsRead`).

`AnswerInv` carries that from the names to the results and the marks: each is of a place
that was reached and of the one target that is sought. `PlaceInv` is about what is not
lost: of each place that was reached the name, the result or the mark is there, as long
as the page has an element for the target. When nothing is under way only the
marks are left, and `PlacesHaveTheirCells` with `SquaresHaveOneCell` make the marked cells
the squares of the workers. What is assumed is `DigitsAssumption`, and of
`MapAgreesWithRequest` that workers are on the map.

### Only model-checked

Liveness (`EverySessionAnswered`, `SearchEnds`, `FetchEnds`, `EndsOrServes`), as
fairness and ENABLED are out of the prover's reach. Every invariant, action property and
refinement that a passing run checks is stated by a theorem.

`TLC` checks `ImplementsPictures` where nothing is lost; under loss and restarts
it rests on the proof, and on `fetch_lossy` for the invariants of the proof's conclusion
(`OneFrame`, `FreshFrame`).

## What is not modelled

- `ExtractSessionID`, and names that have not the form of the page's example
  (one word only, or a location with other characters).
- Locations below 30000, which the page reads with their sign as a digit, and what
  `parseInt` and `String` make of numbers with more digits than JavaScript keeps
  (from 2^53 on; `String` writes 10^21 with an exponent): `ZOrder` counts exactly.
- The neural network, and the drawing of boxes into a picture that nobody gets.
- A class list that cannot be read: the detector then indexes an empty vector.
- The io_service pools: the edge server's has size 0, the worker's runs nothing
  (its one thread is part of `Process`).
- JSON, drawing and logging. `Decoder`, `Echo` and `post_task` are never used.

## What could be added

- Two pages at one edge server, with and without reloads, as a larger instance of
  `CrowdSensing`. With overlapping requests `EarlyAnswerComplete` does not hold; what
  does, for any number of pages, is proved (`EarlyAnswerNotEmpty`, `ImplementsPages`).
- `ExtractSessionID`, and keywords of another form than the page's example.
- How much of an answer is lost to a place that is in no row of the map.
