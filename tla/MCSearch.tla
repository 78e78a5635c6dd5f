------------------------------- MODULE MCSearch -------------------------------
(***************************************************************************)
(* An instance of Search for TLC: every location of the map, asked for     *)
(* alone or next to one of a few.                                          *)
(***************************************************************************)
EXTENDS Search

\* The locations of the map's cells, all behind "3".
Locations == Places

\* The last but two is a region of four cells, which has no worker; the last two are
\* parts of the cells of two workers.
Others == {<<3, 0, 3, 2, 1>>, <<3, 3, 3, 3, 3>>, <<3, 1, 2, 3>>,
           <<3, 0, 3, 2, 1, 1>>, <<3, 2, 1, 0, 2, 0, 7>>}

\* A word of letters, a phrase of two words, two words, and a word with a foreign
\* character.
Person == <<10>>
Phrase == <<<<11>>, <<12>>>>
Fiancee == <<10, 99>>
Bicycle == <<14>>
TargetLists ==
    {<<<<Person>>>>, <<<<Bicycle>>>>, <<Phrase>>, <<<<Person>>, <<<<13>>>>>>, <<<<Fiancee>>>>}

AllRequests ==
    {[locations |-> ls, targets |-> ts] :
        ls \in {<<l>> : l \in Locations} \cup (Locations \X Others), ts \in TargetLists}

\* No worker watches the last column and row of any square of four cells.
SomeWorkers == {l \in Locations : l[5] # 3}

Classes == <<Person, Bicycle, <<13>>>>

Row(x, width, scores) ==
    [x |-> x, y |-> 2, width |-> width, height |-> 2, scores |-> scores]

\* Nothing; a person; a person that is as likely there as not; a person behind a
\* bicycle; one in front of it; one next to it; what may be either; a person that
\* is hidden by nothing but what is hidden itself; one too thin to have an area,
\* like the bicycle far from it.
Scenes ==
    << <<>>,
       <<Row(4, 4, <<90, 0, 0>>)>>,
       <<Row(4, 4, <<50, 49, 0>>)>>,
       <<Row(4, 4, <<60, 0, 0>>), Row(5, 4, <<10, 80, 0>>)>>,
       <<Row(5, 4, <<0, 60, 0>>), Row(4, 4, <<80, 20, 0>>)>>,
       <<Row(8, 4, <<10, 80, 0>>), Row(5, 4, <<60, 0, 0>>)>>,
       <<Row(4, 3, <<70, 70, 0>>), Row(9, 2, <<0, 0, 55>>)>>,
       <<Row(6, 4, <<60, 0, 0>>), Row(5, 4, <<0, 70, 0>>), Row(4, 4, <<0, 0, 80>>)>>,
       <<Row(2, 0, <<60, 0, 0>>), Row(9, 0, <<0, 70, 0>>)>> >>

SomeScenes == [w \in SomeWorkers |-> Scenes[1 + ((w[2] + 2 * w[3] + 4 * w[4] + 5 * w[5]) % 9)]]

SomeEmulated == {w \in SomeWorkers : w[5] = 2 /\ w[4] = 0}
=============================================================================
