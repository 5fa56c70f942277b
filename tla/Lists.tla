------------------------------- MODULE Lists -------------------------------
(***************************************************************************)
(* What Array.prototype.filter and a Set keep of a list. These are the     *)
(* library's SelectSeq and a fold over a sequence, written as recursive    *)
(* functions, which can be reasoned about.                                 *)
(***************************************************************************)
EXTENDS Integers, Sequences, SequencesExt

\* The elements of a list that are in S, in their order.
Keep(list, S) ==
  LET kept[i \in 0..Len(list)] ==
        IF i = 0 THEN <<>>
        ELSE IF list[i] \in S THEN Append(kept[i-1], list[i]) ELSE kept[i-1]
  IN kept[Len(list)]

\* The first mention of each element.
Distinct(list) ==
  LET seen[i \in 0..Len(list)] ==
        IF i = 0 THEN <<>>
        ELSE IF list[i] \in ToSet(seen[i-1]) THEN seen[i-1] ELSE Append(seen[i-1], list[i])
  IN seen[Len(list)]
=============================================================================
