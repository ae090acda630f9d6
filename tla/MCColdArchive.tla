--------------------------- MODULE MCColdArchive ---------------------------
(* One mailbox process and one curator for TLC. *)
EXTENDS ColdArchive

MCSenderTTL == [e \in Envelope |-> None]
MCDefaultTTL == [p \in Proc |-> 1]
=============================================================================
