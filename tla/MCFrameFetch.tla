----------------------------- MODULE MCFrameFetch -----------------------------
(***************************************************************************)
(* Instances of FrameFetch for TLC.                                        *)
(***************************************************************************)
EXTENDS FrameFetchInvariant

\* Bounds of the lossy run: the worker or the edge server is restarted, not both,
\* and there is a third frame if neither is.
OneRestart ==
    /\ boots + edgeBoots <= 3
    /\ Len(frames) = MaxFrames => boots + edgeBoots = 2
=============================================================================
