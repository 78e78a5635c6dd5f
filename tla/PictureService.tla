---------------------------- MODULE PictureService ----------------------------
(***************************************************************************)
(* What cloud mode promises a session of the edge server, whatever becomes *)
(* of the packets, the worker's one store and the two processes: a session *)
(* asks for a picture; it gets one as it was taken, whole, taken for it    *)
(* after it asked, and given to nobody else; or it is told that there is   *)
(* none.  A picture that does not fit brings the edge server down.  When   *)
(* that starts over it numbers its sessions anew, and a session whose      *)
(* number was used before may get an older picture.                        *)
(***************************************************************************)
EXTENDS Integers, Sequences

CONSTANTS
    Askers,         \* the sessions, by their numbers
    PictureSizes,   \* the bytes a picture may have
    Misfits         \* those that do not fill the rows

VARIABLES
    taken,      \* the bytes of the pictures that were taken, in order
    state,      \* what became of each session
    since,      \* how many pictures there were when a session asked
    reused,     \* the sessions whose number was used before the last start
    picture,    \* the bytes a session got, each with the picture that it is of
    down        \* the edge server is down

vars == <<taken, state, since, reused, picture, down>>

Bytes(number) == {number} \X (0 .. taken[number] - 1)

Init ==
    /\ taken = <<>>
    /\ state = [s \in Askers |-> "none"]
    /\ since = [s \in Askers |-> 0]
    /\ reused = {}
    /\ picture = [s \in Askers |-> {}]
    /\ down = FALSE

Ask(s) ==
    /\ state[s] = "none"
    /\ state' = [state EXCEPT ![s] = "asking"]
    /\ since' = [since EXCEPT ![s] = Len(taken)]
    /\ UNCHANGED <<taken, reused, picture, down>>

\* Pictures are only taken while somebody waits for one.
Take(s) ==
    /\ state[s] = "asking"
    /\ \E size \in PictureSizes : taken' = Append(taken, size)
    /\ UNCHANGED <<state, since, reused, picture, down>>

\* The number of a picture that session s may get.
MayGet(s, number) ==
    /\ s \notin reused => number > since[s]
    /\ \A q \in Askers \ {s} : picture[q] \cap Bytes(number) = {}

Serve(s) ==
    /\ state[s] = "asking"
    /\ state' = [state EXCEPT ![s] = "done"]
    /\ \E number \in DOMAIN taken :
          /\ MayGet(s, number)
          /\ picture' = [picture EXCEPT ![s] = Bytes(number)]
          /\ down' = (taken[number] \in Misfits)
    /\ UNCHANGED <<taken, since, reused>>

Refuse(s) ==
    /\ state[s] = "asking"
    /\ state' = [state EXCEPT ![s] = "failed"]
    /\ UNCHANGED <<taken, since, reused, picture, down>>

\* The edge server starts over, with all numbers that it had used.
StartOver ==
    /\ down' = FALSE
    /\ state' = [s \in Askers |-> "none"]
    /\ picture' = [s \in Askers |-> {}]
    /\ reused' = reused \cup {s \in Askers : state[s] # "none"}
    /\ UNCHANGED <<taken, since>>

Next ==
    \/ ~down /\ \E s \in Askers : Ask(s) \/ Take(s) \/ Serve(s) \/ Refuse(s)
    \/ StartOver

Spec == Init /\ [][Next]_vars
=============================================================================
