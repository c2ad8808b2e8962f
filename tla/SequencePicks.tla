--------------------------- MODULE SequencePicks ----------------------------
(***************************************************************************)
(* The elements of a sequence at chosen places, in their order.  What      *)
(* SelectSeq(s, Test) selects is Picked(s, {i \in DOMAIN s : Test(s[i])}); *)
(* naming the places by a set instead of a test lets theorems about it be  *)
(* stated once and cited wherever they are needed.                         *)
(***************************************************************************)
EXTENDS Naturals, Sequences

\* Those among the first n elements.
PickedUpTo(s, I, n) ==
    LET upTo[k \in 0 .. n] ==
            IF k = 0 THEN <<>>
            ELSE IF k \in I THEN Append(upTo[k - 1], s[k]) ELSE upTo[k - 1]
    IN upTo[n]

Picked(s, I) == PickedUpTo(s, I, Len(s))

=============================================================================
