------------------------------ MODULE MCProducer ------------------------------
(***************************************************************************)
(* Instances of Producer for TLC: sessions are model values, which the     *)
(* code treats alike.                                                      *)
(***************************************************************************)
EXTENDS ProducerInvariant, FiniteSetsExt, TLC

Symmetry == Permutations(Sessions)

\* Bound of the run with three sessions: in cloud mode they ask four names in all.
FourNames == m_edge_mode = "c" => MapThenSumSet(LAMBDA s : asked[s], Sessions) <= 4
=============================================================================
