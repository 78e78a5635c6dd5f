-------------------------------- MODULE Client --------------------------------
(***************************************************************************)
(* The web page (client/js/main.js, target-manager.js and manager.js): a   *)
(* user registers what to look for, a timer asks for it every 500 ms       *)
(* unless a request is under way, and an answer marks the cells of a map.  *)
(* JavaScript runs one callback at a time, so a callback is one action.    *)
(*                                                                         *)
(* Of a name only the target it asks about is kept.  A callback that       *)
(* throws is caught by ndn-js, and the page goes on.                       *)
(***************************************************************************)
EXTENDS FiniteSetsExt, Sequences

CONSTANTS
    Clients,        \* the open pages
    Requests,       \* identities of the Interests that the pages express
    Targets,        \* what can be looked for
    NoTarget,       \* stands for the empty string
    DefaultName,    \* the target of the name a fresh page shows
    Inputs,         \* what users enter: pairs of a target and the one in the name
    Cells,          \* the cells of the map
    RowPlaces       \* the places in a row of the map, be it behind its last cell

ASSUME ClientAssumption ==
    /\ NoTarget \notin Targets
    /\ DefaultName \in Targets
    /\ Inputs \subseteq Targets \X Targets
    /\ Cells \subseteq RowPlaces

VARIABLES
    target,         \* TargetManager.target
    CD,             \* TargetManager.CD
    targetList,     \* the targets that have an element on the page
    isFinding,      \* a request is under way
    cellsArray,     \* the map: 0 unknown, 1 found, 2 not found
    waiting,        \* the Interests ndn-js waits on for a page
    asks            \* the target each request asked about, NoTarget before

vars == <<target, CD, targetList, isFinding, cellsArray, waiting, asks>>

-----------------------------------------------------------------------------
Blank == [p \in Cells |-> 0]

Init ==
    /\ target = [c \in Clients |-> NoTarget]
    /\ CD = [c \in Clients |-> DefaultName]
    /\ targetList = [c \in Clients |-> {}]
    /\ isFinding = [c \in Clients |-> FALSE]
    /\ cellsArray = [c \in Clients |-> Blank]
    /\ waiting = [c \in Clients |-> {}]
    /\ asks = [r \in Requests |-> NoTarget]

\* Mutant: the element is made before the input is read.
RegisterTargetLate(c, t, name) ==
    /\ <<t, name>> \in Inputs
    /\ target' = [target EXCEPT ![c] = t]
    /\ CD' = [CD EXCEPT ![c] = name]
    /\ targetList' = [targetList EXCEPT ![c] = @ \cup {target[c]}]
    /\ UNCHANGED <<isFinding, cellsArray, waiting, asks>>

\* The user's target and the name next to it need not agree.
RegisterTarget(c, t, name) ==
    /\ <<t, name>> \in Inputs
    /\ target' = [target EXCEPT ![c] = t]
    /\ CD' = [CD EXCEPT ![c] = name]
    /\ targetList' = [targetList EXCEPT ![c] = @ \cup {t}]
    /\ UNCHANGED <<isFinding, cellsArray, waiting, asks>>

\* Mutant: every tick asks again.
ReadyEveryTick(c) == target[c] # NoTarget

Ready(c) == target[c] # NoTarget /\ ~isFinding[c]

\* One tick of the interval timer, with a request that was not used yet.
SendRequest(c, r) ==
    /\ Ready(c)
    /\ asks[r] = NoTarget
    /\ isFinding' = [isFinding EXCEPT ![c] = TRUE]
    /\ waiting' = [waiting EXCEPT ![c] = @ \cup {r}]
    /\ asks' = [asks EXCEPT ![r] = CD[c]]
    /\ UNCHANGED <<target, CD, targetList, cellsArray>>

\* onData throws on a result whose target has no element on the page, and on one
\* whose place is in no row of cellsArray.  Behind the last cell of a row it does
\* not: the row gets longer, and draw does not show it.
Throws(c, result) ==
    result.target \notin targetList[c] \/ result.location \notin RowPlaces

\* How many results onData shows: those before the first one it throws on.  Without
\* a result, JSON.parse("") throws before.
Shown(c, payload) ==
    LET Thrown == {i \in DOMAIN payload : Throws(c, payload[i])}
    IN  IF Thrown = {} THEN Len(payload) ELSE Min(Thrown) - 1

Completes(c, payload) == payload # <<>> /\ Shown(c, payload) = Len(payload)

Mark(found) == IF found THEN 1 ELSE 2

\* The last of the results shown for a place decides its cell.
Marked(c, payload) ==
    [p \in Cells |->
        LET here == {i \in 1 .. Shown(c, payload) : payload[i].location = p}
        IN  IF here = {} THEN cellsArray[c][p]
                         ELSE Mark(payload[Max(here)].isFound)]

OnData(c, r, payload) ==
    /\ r \in waiting[c]
    /\ waiting' = [waiting EXCEPT ![c] = @ \ {r}]
    /\ cellsArray' = [cellsArray EXCEPT ![c] = Marked(c, payload)]
    /\ isFinding' = [isFinding EXCEPT ![c] = @ /\ ~Completes(c, payload)]
    /\ UNCHANGED <<target, CD, targetList, asks>>

\* Mutant: a timeout is only reported to the user.
OnTimeoutReported(c, r) ==
    /\ r \in waiting[c]
    /\ waiting' = [waiting EXCEPT ![c] = @ \ {r}]
    /\ UNCHANGED <<target, CD, targetList, isFinding, cellsArray, asks>>

OnTimeout(c, r) ==
    /\ r \in waiting[c]
    /\ waiting' = [waiting EXCEPT ![c] = @ \ {r}]
    /\ isFinding' = [isFinding EXCEPT ![c] = FALSE]
    /\ UNCHANGED <<target, CD, targetList, cellsArray, asks>>

\* Leaving the page stops the timer and forgets all else; main starts over.
Reload(c) ==
    /\ target' = [target EXCEPT ![c] = NoTarget]
    /\ CD' = [CD EXCEPT ![c] = DefaultName]
    /\ targetList' = [targetList EXCEPT ![c] = {}]
    /\ isFinding' = [isFinding EXCEPT ![c] = FALSE]
    /\ cellsArray' = [cellsArray EXCEPT ![c] = Blank]
    /\ waiting' = [waiting EXCEPT ![c] = {}]
    /\ UNCHANGED asks

-----------------------------------------------------------------------------
(* Properties.                                                             *)

\* Every variable has its type.
TypeOK ==
    /\ target \in [Clients -> Targets \cup {NoTarget}]
    /\ CD \in [Clients -> Targets]
    /\ targetList \in [Clients -> SUBSET Targets]
    /\ isFinding \in [Clients -> BOOLEAN]
    /\ cellsArray \in [Clients -> [Cells -> 0 .. 2]]
    /\ waiting \in [Clients -> SUBSET Requests]
    /\ asks \in [Requests -> Targets \cup {NoTarget}]

\* isFinding is up but no answer can come: the page never asks again.
Jammed(c) == isFinding[c] /\ waiting[c] = {}

\* A page has at most one Interest under way, and isFinding tells: neither an
\* answer nor a timeout of an earlier request lets a second one out.
OneRequest ==
    \A c \in Clients :
        /\ waiting[c] # {} => isFinding[c]
        /\ Cardinality(waiting[c]) <= 1
=============================================================================
