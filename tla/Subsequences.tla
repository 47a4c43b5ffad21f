---------------------------- MODULE Subsequences -----------------------------
(***************************************************************************)
(* The list comprehension [x for x in s if x in S].  It is SelectSeq, with  *)
(* the test given as a set and the recursion as a function, so that it can  *)
(* be reasoned about: SelectSeq takes an operator.                          *)
(***************************************************************************)
EXTENDS Naturals, Sequences

Kept(s, S) ==
    LET kept[i \in 0..Len(s)] ==
          IF i = 0 THEN <<>>
          ELSE IF s[i] \in S THEN Append(kept[i - 1], s[i]) ELSE kept[i - 1]
    IN kept[Len(s)]
=============================================================================
