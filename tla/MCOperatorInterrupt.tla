------------------------ MODULE MCOperatorInterrupt ------------------------
(* Instances of OperatorInterrupt for TLC. *)
EXTENDS OperatorInterrupt, TLC

Letter(decision, class, text) == [decision |-> decision, class |-> class, text |-> text]

\* One decision is corrected and reclassified, two others compete with it.
MCLetters == {Letter(1, 0, "first"), Letter(1, 0, "corrected"), Letter(1, 1, "first"),
              Letter(2, 1, "first"), Letter(3, 0, "first")}

MCSymmetry == Permutations(Proc)
=============================================================================
