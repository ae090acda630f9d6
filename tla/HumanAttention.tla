-------------------------- MODULE HumanAttention --------------------------
(***************************************************************************)
(* src/saimail/human_attention.py: one human's attention queue.            *)
(*                                                                         *)
(* A candidate is admitted, reserved (a lease file), shown by some         *)
(* application outside this code, and acknowledged (an immutable receipt). *)
(* Every command holds attention.lock, so commands do not overlap; its     *)
(* holder may die between any two file operations.  Nothing runs in the    *)
(* background: a lease that ran out is a file until the next command.  The *)
(* receiver's clock is read once per command and may have been set back    *)
(* since the last one.                                                     *)
(***************************************************************************)
EXTENDS Naturals, FiniteSets

CONSTANTS Candidate,         \* candidate ids, ordered as the code orders their text
          Rank,              \* allocation classes, 0 the most urgent
          MaxPresentations,  \* the budget: presentations ...
          Period,            \* ... in any rolling window of so many seconds
          LeaseSeconds,      \* how long a reservation holds its slot
          Time,              \* instants the receiver's clock may show
          MaxTokens,         \* how many reservations may be made
          None

ASSUME CandidateAssumption == Candidate \subseteq Nat /\ IsFiniteSet(Candidate)
ASSUME TimeAssumption == Time \subseteq Nat /\ Rank \subseteq Nat
ASSUME BudgetAssumption ==
    MaxPresentations \in Nat /\ Period \in Nat \ {0} /\ LeaseSeconds \in Nat \ {0}
ASSUME TokenAssumption == MaxTokens \in Nat
ASSUME NoneAssumption ==
    None \notin [rank : Rank, enqueued : Time] \cup [token : 1 .. MaxTokens, at : Time]
                  \cup [token : 1 .. MaxTokens, at : Time, until : Nat] \cup Nat

VARIABLES
    admitted,   \* admitted[c]: the candidate record, or None
    lease,      \* lease[c]: its lease file, or None
    presented,  \* presented[c]: its receipt, or None
    issued,     \* how many reservation tokens were drawn
    job         \* the command that holds attention.lock

vars == <<admitted, lease, presented, issued, job>>

Policies == [rank : Rank, enqueued : Time]
Leases == [token : 1 .. MaxTokens, at : Time, until : Nat]
Receipts == [token : 1 .. MaxTokens, at : Time]
Steps == {"free", "reserve", "ack", "release", "unlink"}
Jobs == [step : Steps, now : Time \cup {None}, token : Nat]
NoJob == [step |-> "free", now |-> None, token |-> 0]

AttentionTypeOK ==
    /\ admitted \in [Candidate -> Policies \cup {None}]
    /\ lease \in [Candidate -> Leases \cup {None}]
    /\ presented \in [Candidate -> Receipts \cup {None}]
    /\ issued \in 0 .. MaxTokens
    /\ job \in Jobs
    /\ job.step # "free" => job.now \in Time
    /\ \A c \in Candidate :
          lease[c] # None => lease[c].token <= issued /\ lease[c].at < lease[c].until

Init ==
    /\ admitted = [c \in Candidate |-> None]
    /\ lease = [c \in Candidate |-> None]
    /\ presented = [c \in Candidate |-> None]
    /\ issued = 0
    /\ job = NoJob

-----------------------------------------------------------------------------
Leased == {c \in Candidate : lease[c] # None}
Presented == {c \in Candidate : presented[c] # None}

\* _validate_receipts: a receipt has a candidate, and agrees with the lease it
\* was granted under for as long as that file is still there.
HistoryAccepted ==
    \A c \in Presented :
        /\ admitted[c] # None
        /\ lease[c] # None =>
              /\ presented[c].token = lease[c].token
              /\ lease[c].at <= presented[c].at /\ presented[c].at < lease[c].until

\* _refuse_lease_clock_regression.
NotBefore(now) == \A c \in Leased : lease[c].at <= now

Spent(c, now) == c \in Presented \/ lease[c].until <= now
Stale(now) == {c \in Leased : Spent(c, now)}

\* Fault: a receipt from the future is taken for one of another day.
InWindowPast(now) == {c \in Presented : now < presented[c].at + Period
                                        /\ presented[c].at <= now}

\* A receipt dated after now still counts: setting the clock back frees nothing.
InWindow(now) == {c \in Presented : now < presented[c].at + Period}

Consumed(now) == Cardinality(InWindow(now)) + Cardinality(Leased)

\* Fault: what was presented goes on waiting.
PendingShown == {c \in Candidate : admitted[c] # None} \ Leased

Pending == {c \in Candidate : admitted[c] # None} \ (Presented \cup Leased)

\* _order_key: allocation class, then ENQUEUED_AT, then identity.
Before(c, d) ==
    \/ admitted[c].rank < admitted[d].rank
    \/ /\ admitted[c].rank = admitted[d].rank
       /\ \/ admitted[c].enqueued < admitted[d].enqueued
          \/ admitted[c].enqueued = admitted[d].enqueued /\ c <= d

Unlink(c) == lease' = [lease EXCEPT ![c] = None]
Done == job' = NoJob

\* Every command but admit reads the whole queue under the lock first.
Begin(step, now, token) ==
    /\ job.step = "free"
    /\ HistoryAccepted /\ NotBefore(now)
    /\ job' = [step |-> step, now |-> now, token |-> token]
    /\ UNCHANGED <<admitted, lease, presented, issued>>

-----------------------------------------------------------------------------
(* admit_receiver_candidate: a known candidate keeps its first record. *)

Admit(c, rank, now) ==
    /\ job.step = "free"
    /\ admitted[c] = None
    /\ admitted' = [admitted EXCEPT ![c] = [rank |-> rank, enqueued |-> now]]
    /\ UNCHANGED <<lease, presented, issued, job>>

(* reserve_next *)

ReserveBegin(now) == Begin("reserve", now, 0)

\* _cleanup_leases, one unlink at a time; an acknowledgement does the same to
\* every lease but its own.
Matched(c) == job.step = "ack" /\ lease[c].token = job.token
Cleanup ==
    /\ job.step \in {"reserve", "ack", "release"}
    /\ \E c \in Stale(job.now) : ~Matched(c) /\ Unlink(c)
    /\ UNCHANGED <<admitted, presented, issued, job>>

Clean == \A c \in Stale(job.now) : Matched(c)

\* Fault: first come, first served, whatever the allocation class.
ChosenFirstCome(c) ==
    c \in Pending /\ \A d \in Pending : admitted[c].enqueued <= admitted[d].enqueued

\* The best waiting candidate.
Chosen(c) == c \in Pending /\ \A d \in Pending : Before(c, d)

\* NO_MESSAGE or the deferral policy of the best candidate, as data.
ReserveNothing ==
    /\ job.step = "reserve" /\ Clean
    /\ Pending = {} \/ Consumed(job.now) >= MaxPresentations
    /\ Done
    /\ UNCHANGED <<admitted, lease, presented, issued>>

Reserve ==
    /\ job.step = "reserve" /\ Clean
    /\ Consumed(job.now) < MaxPresentations
    /\ issued < MaxTokens
    /\ issued' = issued + 1
    /\ \E c \in Candidate :
          /\ Chosen(c)
          /\ lease' = [lease EXCEPT ![c] = [token |-> issued + 1, at |-> job.now,
                                            until |-> job.now + LeaseSeconds]]
    /\ Done
    /\ UNCHANGED <<admitted, presented>>

(* ack_presented *)

AckBegin(now, token) == Begin("ack", now, token)

\* Unknown or already acknowledged: no lease carries the token.
AckUnknown ==
    /\ job.step = "ack" /\ Clean
    /\ \A c \in Leased : ~Matched(c)
    /\ Done
    /\ UNCHANGED <<admitted, lease, presented, issued>>

\* The candidate has a receipt (of this token, or the answer is a refusal), or
\* the lease ran out.
AckSpent ==
    /\ job.step = "ack" /\ Clean
    /\ \E c \in Leased : Matched(c) /\ Spent(c, job.now) /\ Unlink(c)
    /\ Done
    /\ UNCHANGED <<admitted, presented, issued>>

\* Fault: the acknowledgement does not look at LEASE_UNTIL.
AckPublishLate ==
    /\ job.step = "ack" /\ Clean
    /\ \E c \in Leased :
          /\ Matched(c) /\ presented[c] = None
          /\ presented' = [presented EXCEPT ![c] = [token |-> job.token, at |-> job.now]]
    /\ job' = [job EXCEPT !.step = "unlink"]
    /\ UNCHANGED <<admitted, lease, issued>>

\* The receipt is published first, the lease removed afterwards.
AckPublish ==
    /\ job.step = "ack" /\ Clean
    /\ \E c \in Leased :
          /\ Matched(c) /\ ~Spent(c, job.now)
          /\ presented' = [presented EXCEPT ![c] = [token |-> job.token, at |-> job.now]]
    /\ job' = [job EXCEPT !.step = "unlink"]
    /\ UNCHANGED <<admitted, lease, issued>>

AckUnlink ==
    /\ job.step = "unlink"
    /\ \E c \in Leased : lease[c].token = job.token /\ Unlink(c)
    /\ Done
    /\ UNCHANGED <<admitted, presented, issued>>

(* release: the candidate is waiting again, nothing is spent. *)

ReleaseBegin(now, token) == Begin("release", now, token)

Release ==
    /\ job.step = "release" /\ Clean
    /\ \/ \E c \in Leased : lease[c].token = job.token /\ Unlink(c)
       \/ (\A c \in Leased : lease[c].token # job.token) /\ UNCHANGED lease
    /\ Done
    /\ UNCHANGED <<admitted, presented, issued>>

\* The command dies; the operating system frees attention.lock.
Die ==
    /\ job.step # "free"
    /\ Done
    /\ UNCHANGED <<admitted, lease, presented, issued>>

Next ==
    \/ \E c \in Candidate, rank \in Rank, now \in Time : Admit(c, rank, now)
    \/ \E now \in Time : ReserveBegin(now)
    \/ \E now \in Time, token \in 1 .. issued : AckBegin(now, token)
    \/ \E now \in Time, token \in 1 .. issued : ReleaseBegin(now, token)
    \/ Cleanup
    \/ ReserveNothing
    \/ Reserve
    \/ AckUnknown
    \/ AckSpent
    \/ AckPublish
    \/ AckUnlink
    \/ Release
    \/ Die

Spec == Init /\ [][Next]_vars

-----------------------------------------------------------------------------
(* Properties *)

\* "At most one presentation inside a rolling receiver-time window": however
\* commands interleave and die, and wherever the clock is set between them, no
\* window of Period seconds holds more receipts than the budget.
BudgetHolds ==
    \A start \in Time :
        Cardinality({c \in Presented : presented[c].at \in start .. start + Period - 1})
            <= MaxPresentations

\* Candidate c was shown at instant t, or may still be under its lease.
MayShowAt(c, t) ==
    \/ c \in Presented /\ presented[c].at = t
    \/ c \notin Presented /\ c \in Leased /\ lease[c].at <= t /\ t < lease[c].until

MayShowIn(start) ==
    {c \in Candidate : \E t \in start .. start + Period - 1 : MayShowAt(c, t)}

\* Why: receipts and leases together never claim more of a window than the
\* budget, so an acknowledgement need not count again.
WindowReserved == \A start \in Time : Cardinality(MayShowIn(start)) <= MaxPresentations

\* The best candidate goes first: when a slot is granted, no better candidate
\* is waiting, not even one behind a lease that has run out.
BestGoesFirst ==
    [][\A c, d \in Candidate :
         lease[c] = None /\ lease'[c] # None /\ admitted[d] # None /\ Before(d, c)
            /\ d \notin Presented
            => d = c \/ (d \in Leased /\ lease'[c].at < lease[d].until)]_vars
=============================================================================
