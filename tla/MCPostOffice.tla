---------------------------- MODULE MCPostOffice ----------------------------
(* Small mailboxes for TLC. *)
EXTENDS PostOffice, TLC

\* Envelope 1 asks for a shorter retention than the receiver's policy of one
\* tick; envelope 2 leaves it to the receiver.
MCSenderTTL == [e \in Envelope |-> IF e = 1 THEN 0 ELSE None]
MCDefaultTTL == [p \in Proc |-> 1]
\* Processes that were given different retention policies, none of them signed.
MCNoSenderTTL == [e \in Envelope |-> None]
MCPolicies == [p \in Proc |-> IF p = CHOOSE q \in Proc : TRUE THEN 1 ELSE 0]
MCSymmetry == Permutations(Proc)
=============================================================================
