------------------------------- MODULE Filter -------------------------------
(***************************************************************************)
(* The part of a queue that satisfies a condition, given as the set of the *)
(* elements that do.  This is SelectSeq with a set for its test.           *)
(***************************************************************************)
EXTENDS Integers, Sequences

Kept(s, S) ==
    LET upto[i \in 0 .. Len(s)] ==
            IF i = 0 THEN <<>>
            ELSE IF s[i] \in S THEN Append(upto[i-1], s[i]) ELSE upto[i-1]
    IN  upto

Keep(s, S) == Kept(s, S)[Len(s)]
=============================================================================
