------------------------- MODULE MCHumanAttention -------------------------
(* Instances of HumanAttention for TLC. *)
EXTENDS HumanAttention
=============================================================================
