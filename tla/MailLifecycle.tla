--------------------------- MODULE MailLifecycle ---------------------------
(***************************************************************************)
(* What one seat's Post Office promises about a sealed message, whatever   *)
(* files, locks and crashes stand behind it: a message is received once,   *)
(* at one receiver-local instant that never changes afterwards; it may be  *)
(* opened once; it may expire, opened or not; and it never goes back.      *)
(* PostOffice is shown to implement this module.                           *)
(***************************************************************************)
EXTENDS Naturals

CONSTANTS Envelope,   \* the ENVELOPE_IDs that may reach this seat
          None        \* no instant

VARIABLES state,      \* state[e]: where message e is in its life
          received    \* received[e]: its RECEIVED_AT, None before delivery

vars == <<state, received>>

States == {"absent", "unread", "read", "expired"}

TypeOK ==
    /\ state \in [Envelope -> States]
    /\ received \in [Envelope -> Nat \cup {None}]

Init ==
    /\ state = [e \in Envelope |-> "absent"]
    /\ received = [e \in Envelope |-> None]

\* Delivery is the only step that gives a message its instant.
Receive(e) ==
    /\ state[e] = "absent"
    /\ state' = [state EXCEPT ![e] = "unread"]
    /\ received'[e] \in Nat
    /\ received' = [received EXCEPT ![e] = received'[e]]

Open(e) ==
    /\ state[e] = "unread"
    /\ state' = [state EXCEPT ![e] = "read"]
    /\ UNCHANGED received

Expire(e) ==
    /\ state[e] \in {"unread", "read"}
    /\ state' = [state EXCEPT ![e] = "expired"]
    /\ UNCHANGED received

Next == \E e \in Envelope : Receive(e) \/ Open(e) \/ Expire(e)

Spec == Init /\ [][Next]_vars

-----------------------------------------------------------------------------
\* A message has an instant exactly when it was received.
ReceivedOnce == \A e \in Envelope : (received[e] = None) <=> (state[e] = "absent")
=============================================================================
