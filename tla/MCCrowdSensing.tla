---------------------------- MODULE MCCrowdSensing ----------------------------
(***************************************************************************)
(* Instances of CrowdSensing for TLC.                                      *)
(***************************************************************************)
EXTENDS CrowdSensingInvariant, TLC

CONSTANTS person, dog

\* Users may leave another target in the name than the one they register.
Careless == {<<person, person>>, <<dog, person>>}

\* The first place that a request asks for is on the map.  The second is beside it,
\* behind the last cell of a row, or below it, in no row.
Map == {1}
Beside == {1, 2}
Below == {1}

Symmetry == Permutations(Requests)
=============================================================================
