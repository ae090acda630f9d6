----------------------------- MODULE MCCatchup -----------------------------
(* Small queues for TLC. *)
EXTENDS Catchup

\* A delivery, which a run settles, and a trust question, which waits for a person.
MCKind == [j \in Job |-> IF j = 1 THEN "DELIVERY" ELSE "TRUST"]
MCTrust == [j \in Job |-> "TRUST"]
=============================================================================
