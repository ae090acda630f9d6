--------------------------- MODULE MCFutureLetter ---------------------------
(* Instances of FutureLetter for TLC. *)
EXTENDS FutureLetter, TLC

CONSTANTS l1, l2, p1, p2, s1

\* The authored letter opens at 1 and closes at 2, the foreign one has no dates.
MCNotBefore == [l \in Letter |-> IF l \in Foreign THEN 0 ELSE 1]
MCCloses == [l \in Letter |-> IF l \in Foreign THEN None ELSE 2]
MCSymmetry == Permutations(Proc)
=============================================================================
