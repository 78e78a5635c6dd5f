-------------------------------- MODULE Search --------------------------------
(***************************************************************************)
(* One search with its names and places, from what a user types to the map *)
(* of the page: the names that Producer, Worker and Client leave out.  The *)
(* network finds the workers whose prefix an Interest's name begins with,  *)
(* and the detector says whether the target is in a worker's picture.      *)
(* Here the edge server waits until every worker that it reached has told  *)
(* its result, and then the page reads them, one by one.                   *)
(***************************************************************************)
EXTENDS InterestName, ZOrder, Detection

CONSTANTS
    Requests,   \* what users ask: records of locations and targets
    Workers,    \* the prefixes that workers register: the digits of a location
    Emulated,   \* the workers that emulate their detector
    Scene       \* what the pictures of the others show: rows, for each worker

ASSUME SearchAssumption ==
    /\ \A r \in Requests : r.locations # <<>> /\ r.targets # <<>>
    /\ Emulated \subseteq Workers
    /\ \A w \in Workers : Scene[w] \in Rows

\* What things are called: nothing of it begins with a digit.
Terms == {item \in Seq(Nat) : item # <<>> /\ item[1] \notin Digits}

\* Places are written in digits, however many a user types, and what is looked for
\* in words.
ASSUME DigitsAssumption ==
    /\ Foreign \subseteq Nat \ Digits
    /\ Workers \subseteq Seq(Digits) \ {<<>>}
    /\ \A r \in Requests :
          /\ r.locations \in Seq(Seq(Digits))
          /\ r.targets \in Seq(Seq(Terms) \ {<<>>})

VARIABLES
    m_edge_mode,    \* "e" or "c"
    request,        \* what was asked
    reinvoked,      \* the Interests of the edge server without an answer
    results,        \* the results on their way to the page
    marked          \* the cells that are marked, with the target looked for
                    \* and whether it was found

vars == <<m_edge_mode, request, reinvoked, results, marked>>

NoRequest == [locations |-> <<>>, targets |-> <<>>]

\* The keyword of the page's Interest as the edge server reads it.
Received(r) == DecodeKeyword(Keyword(r.locations, r.targets))

Asked == Received(request)

-----------------------------------------------------------------------------
Init ==
    /\ m_edge_mode \in {"e", "c"}
    /\ request = NoRequest
    /\ reinvoked = {}
    /\ results = {}
    /\ marked = {}

\* onInterest, onInterest_Cloud: one Interest per location.
OnInterest(r) ==
    /\ request = NoRequest
    /\ request' = r
    /\ reinvoked' = ToSet(ConvertInterestName(Received(r)))
    /\ UNCHANGED <<m_edge_mode, results, marked>>

\* What the worker takes from a name, which the edge server wrote as a URI: the
\* escapes that were left in it are the same when it is read.
TargetAtWorker(name) == ExtractTargets(name.keyword)[1]

\* Edge mode: the worker names its prefix as the location, it takes the target
\* from the name, and its own detector looks at its picture.
EdgeResults(name, prefix) ==
    LET target == TargetAtWorker(name)
    IN  {[location |-> prefix, target |-> target, found |-> target \in seen] :
            seen \in IF prefix \in Emulated THEN EmulatedResults
                                              ELSE {Postprocess(Scene[prefix])}}

\* Cloud mode: Executor was told both by onInterest_Cloud, and the detector of the
\* edge server looks at the picture; it fails on the picture of an emulation.
CloudResults(name, prefix) ==
    LET target == ExtractTargets(Asked)[1]
    IN  {[location |-> ExtractLocname(name.keyword)[1], target |-> target,
          found |-> target \in seen] :
            seen \in IF prefix \in Emulated THEN {} ELSE {Postprocess(Scene[prefix])}}

WorkerAnswers(name) ==
    /\ name \in reinvoked
    /\ reinvoked' = reinvoked \ {name}
    /\ \E prefix \in Workers :
          /\ IsPrefix(prefix, name.routable)
          /\ \E result \in IF m_edge_mode = "e" THEN EdgeResults(name, prefix)
                                                 ELSE CloudResults(name, prefix) :
                results' = results \cup {result}
    /\ UNCHANGED <<m_edge_mode, request, marked>>

NobodyAnswers(name) ==
    /\ name \in reinvoked
    /\ ~\E prefix \in Workers : IsPrefix(prefix, name.routable)
    /\ reinvoked' = reinvoked \ {name}
    /\ UNCHANGED <<m_edge_mode, request, results, marked>>

\* Whether the page has an element for the target of a result: the one that was
\* registered with the request.
Listed(result) == <<result.target>> = request.targets[1]

\* onData throws on a target that has no element, and on a place below the last row
\* of cellsArray; one beyond the last column only makes its row longer.
Throws(result) == ~Listed(result) \/ Cell(result.location).y > 15

\* What comes after the result that it throws on is not shown.
Throw(result) ==
    /\ reinvoked = {}
    /\ Throws(result)
    /\ results' = {}
    /\ UNCHANGED <<m_edge_mode, request, reinvoked, marked>>

\* The page marks the cell of a result: 1 if the target was found, else 2.  draw
\* reaches no cell beyond the last column.
MarkingXY(result) ==
    /\ reinvoked = {}
    /\ ~Throws(result)
    /\ results' = results \ {result}
    /\ marked' = marked \cup
                    {m \in {[cell |-> Cell(result.location), target |-> result.target,
                             found |-> result.found]} : m.cell \in Grid}
    /\ UNCHANGED <<m_edge_mode, request, reinvoked>>

Next ==
    \/ \E r \in Requests : OnInterest(r)
    \/ \E name \in reinvoked : WorkerAnswers(name) \/ NobodyAnswers(name)
    \/ \E result \in results : MarkingXY(result) \/ Throw(result)

Spec == Init /\ [][Next]_vars

-----------------------------------------------------------------------------
(* Properties.                                                             *)

\* Every variable has its type; what is marked is on the map.
TypeOK ==
    /\ m_edge_mode \in {"e", "c"}
    /\ request \in Requests \cup {NoRequest}
    /\ reinvoked \subseteq ToSet(ConvertInterestName(Asked))
    /\ \A result \in results : result.location \in Seq(Digits) /\ result.found \in BOOLEAN
    /\ \A m \in marked : m.cell \in Grid

\* The places asked for that are a worker's or lie within it, and their workers.
Watched == {l \in ToSet(request.locations) : \E w \in Workers : IsPrefix(w, l)}
Answering == {w \in Workers : \E l \in ToSet(request.locations) : IsPrefix(w, l)}

\* Some character of the first target asked for stays escaped.
Escaped == \E i \in DOMAIN request.targets[1] : ToSet(request.targets[1][i]) \cap Foreign # {}

\* A result tells of a place that was asked for, or in edge mode of the worker that
\* it lies within, and of the target that was meant by whoever asked.  No name is
\* split so that a wrong worker is asked, or the right one for something else: a
\* target of two words finds no worker at all, and the target has an element unless
\* characters of it stay escaped.
ResultsAnswer ==
    \A result \in results :
        /\ result.location \in IF m_edge_mode = "e" THEN Answering ELSE Watched
        /\ Listed(result) \/ Escaped

\* When nothing is under way the marked cells are in the squares of the workers that
\* were asked, one in each and none elsewhere; there is none if a target has a space
\* in it or the first one has characters that stay escaped.  Some are missing only in
\* cloud mode, when somebody asked for a place within that of a worker: the page
\* throws on it, and what comes after it is not shown.
MapAgrees ==
    reinvoked = {} /\ results = {} /\ request # NoRequest =>
        LET places == IF ~Escaped /\ \A i \in DOMAIN request.targets : Len(request.targets[i]) = 1
                      THEN Answering ELSE {}
            cells == {cell \in Grid : \E w \in places : InSquare(cell, w)}
        IN  /\ {m.cell : m \in marked} \subseteq cells
            /\ m_edge_mode = "e" \/ Watched \subseteq Workers => {m.cell : m \in marked} = cells

\* A result leads to a cell of the map, which is in the square of the worker that it
\* names and of no other; or it is of a place within that of a worker, which only the
\* edge server names in cloud mode, and leads to no row of the map, so that nothing is
\* marked for another place.
OwnCell ==
    \A result \in results :
        \/ /\ Cell(result.location) \in Grid
           /\ \A w \in Workers : InSquare(Cell(result.location), w) <=> w = result.location
        \/ m_edge_mode = "c" /\ result.location \notin Workers /\ Cell(result.location).y > 15

\* What may be said of a place: what there is to see (Truthful), but an emulated
\* worker may say what it likes of anything but a person.
MayBeSaid(location, target, found) ==
    IF location \in Emulated THEN found => target # person
                             ELSE Truthful(Scene[location], target, found)

\* What the results say, on their way to the page: each is what a worker saw, and
\* the place that it names is that worker's or lies within it.
ResultsAreTrue ==
    \A result \in results : \E w \in Workers :
        IsPrefix(w, result.location) /\ MayBeSaid(w, result.target, result.found)

\* A mark tells what there is to see, at the place of the cell, in both modes and
\* over all names: found is marked only where there is such a thing, and not found
\* only where there is none, or each is hidden by another thing that is as sure.
MarksAreTrue ==
    \A m \in marked : \A w \in Workers :
        InSquare(m.cell, w) => MayBeSaid(w, m.target, m.found)
=============================================================================
