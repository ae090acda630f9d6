------------------------------ MODULE MCLedger ------------------------------
(* Instances of Ledger for TLC. *)
EXTENDS Ledger, TLC

MCSymmetry == Permutations(Proc)
=============================================================================
