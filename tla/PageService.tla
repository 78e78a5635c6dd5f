----------------------------- MODULE PageService -----------------------------
(***************************************************************************)
(* What the users of the pages are promised, whatever the network loses    *)
(* and whatever the threads of the edge server do.  A page searches one    *)
(* thing at a time.  A search ends once: an answer marks places that this  *)
(* very search has asked for; or nothing comes, and the page goes on as    *)
(* before; or the page jams, and never searches again until it is loaded   *)
(* anew.  A page that jams has shown nothing of the answer, unless the     *)
(* search asked for a place off the map: then it may have marked others    *)
(* that were asked for.                                                    *)
(***************************************************************************)
EXTENDS Integers

CONSTANTS
    Pages,
    Searches,
    Cells,          \* the places that are on the map
    RowPlaces,      \* the places on the map or in line with one of its rows
    MaxPlaces       \* the most places a search asks for

VARIABLES
    made,       \* the searches that were made
    underway,   \* what a page is searching: a set of one search, or none
    asked,      \* the number of places a search asks, 0 until it is received
    marked,     \* the cells that are marked on the map of a page
    jammed      \* the pages that are jammed

vars == <<made, underway, asked, marked, jammed>>

Init ==
    /\ made = {}
    /\ underway = [p \in Pages |-> {}]
    /\ asked = [s \in Searches |-> 0]
    /\ marked = [p \in Pages |-> {}]
    /\ jammed = {}

Search(p, s) ==
    /\ s \notin made
    /\ underway[p] = {}
    /\ p \notin jammed
    /\ made' = made \cup {s}
    /\ underway' = [underway EXCEPT ![p] = {s}]
    /\ UNCHANGED <<asked, marked, jammed>>

\* A search may be received when its page is gone.
Receive(s, n) ==
    /\ s \in made
    /\ asked[s] = 0
    /\ asked' = [asked EXCEPT ![s] = n]
    /\ UNCHANGED <<made, underway, marked, jammed>>

End(p, s) ==
    /\ underway[p] = {s}
    /\ underway' = [underway EXCEPT ![p] = {}]
    /\ UNCHANGED <<made, asked>>

Shows(p, places) == marked' = [marked EXCEPT ![p] = @ \cup (places \cap Cells)]

Answer(p, s) ==
    /\ End(p, s)
    /\ \E places \in (SUBSET ((1 .. asked[s]) \cap RowPlaces)) \ {{}} : Shows(p, places)
    /\ UNCHANGED jammed

NoAnswer(p, s) ==
    /\ End(p, s)
    /\ UNCHANGED <<marked, jammed>>

Jam(p, s) ==
    /\ End(p, s)
    /\ asked[s] > 0
    /\ jammed' = jammed \cup {p}
    /\ \/ UNCHANGED marked
       \/ /\ ~(1 .. asked[s] \subseteq RowPlaces)
          /\ \E places \in SUBSET ((1 .. asked[s]) \cap RowPlaces) : Shows(p, places)

Load(p) ==
    /\ underway' = [underway EXCEPT ![p] = {}]
    /\ marked' = [marked EXCEPT ![p] = {}]
    /\ jammed' = jammed \ {p}
    /\ UNCHANGED <<made, asked>>

Next ==
    \/ \E p \in Pages, s \in Searches :
          Search(p, s) \/ Answer(p, s) \/ NoAnswer(p, s) \/ Jam(p, s)
    \/ \E s \in Searches, n \in 1 .. MaxPlaces : Receive(s, n)
    \/ \E p \in Pages : Load(p)

Spec == Init /\ [][Next]_vars
=============================================================================
