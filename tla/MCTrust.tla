------------------------------ MODULE MCTrust ------------------------------
(* Instances of Trust for TLC. *)
EXTENDS Trust, TLC

CONSTANTS a1, a2, k1, k2, k3, p1, p2, s1

MCSeatOf == [i \in Identity |-> s1]
MCSymmetry == Permutations(Alias) \cup Permutations(Identity) \cup Permutations(Proc)
=============================================================================
