----------------------------- MODULE InterestName -----------------------------
(***************************************************************************)
(* The names of Interests, which the edge server (producer.cpp) and the    *)
(* workers (worker.cpp) take apart.  A page asks                           *)
(*                                                                         *)
(*     /icn2020/edge/#f:detect/#a:[30321,33212] #a:[person]                *)
(*                                                                         *)
(* and the edge server asks the worker of the first location               *)
(*                                                                         *)
(*     /3/0/3/2/1/#f:detect/#a:[30321] #a:[person]/<session>               *)
(*                                                                         *)
(* A keyword is split at its spaces into words and a word at its commas    *)
(* into items; what stands before a colon and brackets are dropped.  So a  *)
(* keyword is a sequence of words, a word a sequence of items and an item  *)
(* a sequence of characters.  A character is a number; the digits are      *)
(* themselves.  Functions and sessions are left out.                       *)
(*                                                                         *)
(* A name is taken apart as a URI, in which NDN escapes all characters but *)
(* letters, digits and a few signs, with a percent sign and a code.        *)
(***************************************************************************)
EXTENDS Integers, Sequences, SequencesExt

CONSTANT Foreign    \* the characters that stay escaped, of whatever language

Percent == -1
Digits == 0 .. 9

\* An item as it is read from a name: decodeURI undoes the escapes of ten
\* characters, and the others stay.
DecodeURI(item) ==
    FlattenSeq([i \in DOMAIN item |->
                   IF item[i] \in Foreign THEN <<Percent, item[i]>> ELSE <<item[i]>>])

DecodeKeyword(keyword) ==
    [i \in DOMAIN keyword |-> [j \in DOMAIN keyword[i] |-> DecodeURI(keyword[i][j])]]

\* The words with a target behind them, whose first item joins the last word.
WithTarget(words, target) ==
    Front(words) \o <<Append(Last(words), Head(target))>>
                 \o [i \in 1 .. Len(target) - 1 |-> <<target[i + 1]>>]

\* What a user types for locations and targets; each target is one or more
\* items with spaces between them, so it may be split in the middle.
Keyword(locations, targets) ==
    LET words[n \in 0 .. Len(targets)] ==
            IF n = 0 THEN <<<<>>>> ELSE WithTarget(words[n - 1], targets[n])
    IN  <<locations>> \o words[Len(targets)]

\* Mutant: the locations are taken to be the first word.
LocationsFirst(keyword) == Head(keyword)

\* The last word but one.
LocationKey(keyword) == keyword[Len(keyword) - 1]

ExtractTargets(keyword) == Last(keyword)

\* Mutant: the target is not taken off first.
TargetNotTakenOff(keyword) == Last(keyword)

ExtractLocname(keyword) == LocationKey(keyword)

\* Mutant: every name has the first location in its keyword.
FirstLocationInAll(keyword) ==
    LET locations == LocationKey(keyword)
    IN  [i \in DOMAIN locations |->
            [routable |-> locations[i],
             keyword |-> <<<<locations[1]>>, ExtractTargets(keyword)>>]]

\* The location's characters become the components that route the Interest.
ConvertInterestName(keyword) ==
    LET locations == LocationKey(keyword)
    IN  [i \in DOMAIN locations |->
            [routable |-> locations[i],
             keyword |-> <<<<locations[i]>>, ExtractTargets(keyword)>>]]
=============================================================================
