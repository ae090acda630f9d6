-------------------------- MODULE AttentionProofs --------------------------
(***************************************************************************)
(* The operator's attention, proved for every set of candidates, decisions *)
(* and processes, every budget, window and lease, and every reading of the *)
(* clock: first the queue by itself (HumanAttention), then the interrupt   *)
(* ledger beside it (OperatorInterrupt), which implements the queue, so    *)
(* that the budget holds in it, and never says more than the queue.        *)
(***************************************************************************)
EXTENDS OperatorInterrupt, FiniteSetTheorems, TLAPS

(* The queue *)

\* A leased candidate was admitted.
LeasedAdmitted == \A c \in Candidate : lease[c] # None => admitted[c] # None

\* While a command runs, no lease begins after its reading of the clock.
JobClock == job.step \in {"reserve", "ack", "release"} => NotBefore(job.now)

AttentionInv == /\ AttentionTypeOK
                /\ LeasedAdmitted
                /\ JobClock
                /\ HistoryAccepted
                /\ WindowReserved

-----------------------------------------------------------------------------
LEMMA RecordsAreSome ==
    /\ None \notin Policies
    /\ None \notin Leases
    /\ None \notin Receipts
  BY NoneAssumption DEF Policies, Leases, Receipts

LEMMA FiniteCandidates ==
    ASSUME NEW S \in SUBSET Candidate
    PROVE IsFiniteSet(S) /\ Cardinality(S) \in Nat
  BY CandidateAssumption, FS_Subset, FS_CardinalityType

LEMMA Smaller ==
    ASSUME NEW T \in SUBSET Candidate, NEW S \in SUBSET T
    PROVE Cardinality(S) <= Cardinality(T)
  BY FiniteCandidates, FS_Subset

LEMMA OneMore ==
    ASSUME NEW R \in SUBSET Candidate, NEW L \in SUBSET Candidate, NEW c \in Candidate,
           NEW S \in SUBSET (R \cup L \cup {c}),
           Cardinality(R) + Cardinality(L) < MaxPresentations
    PROVE Cardinality(S) <= MaxPresentations
<1>1. /\ IsFiniteSet(R) /\ IsFiniteSet(L)
      /\ Cardinality(R) \in Nat /\ Cardinality(L) \in Nat
      /\ Cardinality(R \cap L) \in Nat
  <2>1. R \cap L \in SUBSET Candidate
    OBVIOUS
  <2> QED
    BY <2>1, FiniteCandidates
<1>2. /\ IsFiniteSet(R \cup L)
      /\ Cardinality(R \cup L) = Cardinality(R) + Cardinality(L) - Cardinality(R \cap L)
  BY <1>1, FS_Union
<1>3. Cardinality((R \cup L) \cup {c}) <= Cardinality(R \cup L) + 1
  <2>1. R \cup L \in SUBSET Candidate
    OBVIOUS
  <2>2. Cardinality(R \cup L) \in Nat
    BY <2>1, FiniteCandidates
  <2> QED
    BY <1>2, <2>2, FS_AddElement
<1>4. R \cup L \cup {c} \in SUBSET Candidate /\ S \in SUBSET Candidate
  OBVIOUS
<1>5. Cardinality(S) <= Cardinality(R \cup L \cup {c})
  BY <1>4, Smaller
<1>6. /\ Cardinality(S) \in Nat /\ Cardinality(R \cup L \cup {c}) \in Nat
      /\ Cardinality(R \cup L) \in Nat
  <2>1. R \cup L \in SUBSET Candidate
    OBVIOUS
  <2> QED
    BY <1>4, <2>1, FiniteCandidates
<1> QED
  BY <1>1, <1>2, <1>3, <1>5, <1>6, BudgetAssumption

\* A step after which no more may be shown than before keeps every window.
LEMMA WindowsShrink ==
    ASSUME WindowReserved,
           \A c \in Candidate, t \in Nat : MayShowAt(c, t)' => MayShowAt(c, t)
    PROVE WindowReserved'
<1> SUFFICES ASSUME NEW start \in Time
             PROVE Cardinality(MayShowIn(start)') <= MaxPresentations
  BY DEF WindowReserved
<1>1. MayShowIn(start) \in SUBSET Candidate
  BY DEF MayShowIn
<1>2. MayShowIn(start)' \in SUBSET MayShowIn(start)
  <2>1. start .. start + Period - 1 \subseteq Nat
    BY TimeAssumption, BudgetAssumption
  <2> QED
    BY <2>1 DEF MayShowIn
<1>3. Cardinality(MayShowIn(start)') <= Cardinality(MayShowIn(start))
  BY <1>1, <1>2, Smaller
<1>4. Cardinality(MayShowIn(start)) <= MaxPresentations
  BY DEF WindowReserved
<1>5. /\ Cardinality(MayShowIn(start)) \in Nat
      /\ Cardinality(MayShowIn(start)') \in Nat
  BY <1>1, <1>2, FiniteCandidates
<1> QED
  BY <1>3, <1>4, <1>5, BudgetAssumption

-----------------------------------------------------------------------------
LEMMA InitInv == Init => AttentionInv
<1> SUFFICES ASSUME Init PROVE AttentionInv
  OBVIOUS
<1>1. AttentionTypeOK
  BY TokenAssumption DEF Init, AttentionTypeOK, Jobs, NoJob, Steps
<1>2. LeasedAdmitted /\ JobClock /\ HistoryAccepted
  BY DEF Init, LeasedAdmitted, JobClock, HistoryAccepted, Presented, NoJob
<1>3. WindowReserved
  <2> SUFFICES ASSUME NEW start \in Time
               PROVE Cardinality(MayShowIn(start)) <= MaxPresentations
    BY DEF WindowReserved
  <2>1. MayShowIn(start) = {}
    BY DEF Init, MayShowIn, MayShowAt, Presented, Leased
  <2> QED
    BY <2>1, FS_EmptySet, BudgetAssumption
<1> QED
  BY <1>1, <1>2, <1>3 DEF AttentionInv

\* Reading the queue and taking leases away.
LEMMA LeasesLeave ==
    ASSUME AttentionInv,
           lease' \in [Candidate -> Leases \cup {None}],
           \A c \in Candidate : lease'[c] \in {lease[c], None},
           UNCHANGED <<admitted, presented, issued>>,
           job' \in Jobs, job'.step # "free" => job'.now \in Time,
           JobClock'
    PROVE AttentionInv'
<1> USE DEF AttentionInv
<1>1. AttentionTypeOK'
  BY DEF AttentionTypeOK
<1>2. LeasedAdmitted'
  BY DEF LeasedAdmitted
<1>3. HistoryAccepted'
  BY DEF HistoryAccepted, Presented
<1>4. WindowReserved'
  <2>1. \A c \in Candidate, t \in Nat : MayShowAt(c, t)' => MayShowAt(c, t)
    BY DEF MayShowAt, Presented, Leased
  <2> QED
    BY <2>1, WindowsShrink
<1> QED
  BY <1>1, <1>2, <1>3, <1>4

LEMMA UnlinkType ==
    ASSUME AttentionTypeOK, NEW c \in Candidate, Unlink(c)
    PROVE /\ lease' \in [Candidate -> Leases \cup {None}]
          /\ \A d \in Candidate : lease'[d] \in {lease[d], None}
  BY DEF AttentionTypeOK, Unlink

LEMMA KeptType ==
    ASSUME AttentionTypeOK, UNCHANGED lease
    PROVE /\ lease' \in [Candidate -> Leases \cup {None}]
          /\ \A d \in Candidate : lease'[d] \in {lease[d], None}
  BY DEF AttentionTypeOK

\* The end of a command.
LEMMA DoneType ==
    ASSUME Done
    PROVE /\ job' \in Jobs
          /\ job'.step # "free" => job'.now \in Time
          /\ JobClock'
  BY DEF Done, NoJob, Jobs, Steps, JobClock

LEMMA BeginKeeps ==
    ASSUME AttentionInv, NEW step \in {"reserve", "ack", "release"}, NEW now \in Time,
           NEW token \in Nat, Begin(step, now, token)
    PROVE AttentionInv'
<1>1. job' \in Jobs /\ (job'.step # "free" => job'.now \in Time)
  BY DEF Begin, Jobs, Steps
<1>2. JobClock'
  BY DEF Begin, JobClock, NotBefore, Leased
<1> QED
  BY <1>1, <1>2, KeptType, LeasesLeave DEF Begin, AttentionInv

LEMMA CleanupKeeps ==
    ASSUME AttentionInv, Cleanup
    PROVE AttentionInv'
<1>1. PICK c \in Stale(job.now) : Unlink(c)
  BY DEF Cleanup
<1>2. c \in Candidate
  BY DEF Stale, Leased
<1>3. job' \in Jobs /\ (job'.step # "free" => job'.now \in Time)
  BY DEF Cleanup, AttentionInv, AttentionTypeOK
<1>4. JobClock'
  BY <1>1, <1>2, UnlinkType DEF Cleanup, AttentionInv, JobClock, NotBefore, Leased
<1> QED
  BY <1>1, <1>2, <1>3, <1>4, UnlinkType, LeasesLeave DEF Cleanup, AttentionInv

\* Every way a command ends without granting or publishing anything.
LEMMA EndKeeps ==
    ASSUME AttentionInv,
           ReserveNothing \/ AckUnknown \/ AckSpent \/ AckUnlink \/ Release \/ Die
    PROVE AttentionInv'
<1>1. Done /\ UNCHANGED <<admitted, presented, issued>>
  BY DEF ReserveNothing, AckUnknown, AckSpent, AckUnlink, Release, Die
<1>2. UNCHANGED lease \/ \E c \in Candidate : Unlink(c)
  BY DEF ReserveNothing, AckUnknown, AckSpent, AckUnlink, Release, Die, Leased
<1>3. /\ lease' \in [Candidate -> Leases \cup {None}]
      /\ \A d \in Candidate : lease'[d] \in {lease[d], None}
  BY <1>2, UnlinkType, KeptType DEF AttentionInv
<1> QED
  BY <1>1, <1>3, DoneType, LeasesLeave

LEMMA AdmitKeeps ==
    ASSUME AttentionInv, NEW c \in Candidate, NEW rank \in Rank, NEW now \in Time,
           Admit(c, rank, now)
    PROVE AttentionInv'
<1> USE DEF AttentionInv, Admit
<1> DEFINE policy == [rank |-> rank, enqueued |-> now]
<1>1. policy \in Policies /\ policy # None
  BY RecordsAreSome DEF Policies
<1>2. /\ admitted' \in [Candidate -> Policies \cup {None}]
      /\ \A d \in Candidate : admitted[d] # None => admitted'[d] # None
  BY <1>1 DEF AttentionTypeOK
<1>3. AttentionTypeOK'
  BY <1>2 DEF AttentionTypeOK
<1>4. LeasedAdmitted' /\ JobClock'
  BY <1>2 DEF LeasedAdmitted, JobClock, NotBefore, Leased
<1>5. HistoryAccepted'
  BY <1>2 DEF HistoryAccepted, Presented
<1>6. WindowReserved'
  <2>1. \A d \in Candidate, t \in Nat : MayShowAt(d, t)' => MayShowAt(d, t)
    BY DEF MayShowAt, Presented, Leased
  <2> QED
    BY <2>1, WindowsShrink
<1> QED
  BY <1>3, <1>4, <1>5, <1>6

-----------------------------------------------------------------------------
\* The grant: a window that the new lease reaches into holds only receipts and
\* leases that reserve_next has just counted.
LEMMA ReserveKeeps ==
    ASSUME AttentionInv, Reserve
    PROVE AttentionInv'
<1> USE DEF AttentionInv
<1> DEFINE now == job.now
           grant == [token |-> issued + 1, at |-> now, until |-> now + LeaseSeconds]
<1>1. PICK c \in Candidate : Chosen(c) /\ lease' = [lease EXCEPT ![c] = grant]
  BY DEF Reserve
<1>2. now \in Time /\ now \in Nat /\ issued \in Nat
  <2>1. job.step = "reserve"
    BY DEF Reserve
  <2>2. now \in Time
    BY <2>1 DEF AttentionTypeOK
  <2>3. issued \in Nat
    BY TokenAssumption DEF AttentionTypeOK
  <2> QED
    BY <2>2, <2>3, TimeAssumption
<1>3. grant \in Leases /\ grant # None /\ grant.at < grant.until
      /\ grant.token <= issued' /\ issued' \in 0 .. MaxTokens /\ issued <= issued'
  <2>1. /\ issued + 1 \in 1 .. MaxTokens /\ now + LeaseSeconds \in Nat
        /\ now < now + LeaseSeconds
        /\ issued' = issued + 1
    BY <1>2, BudgetAssumption, TokenAssumption DEF Reserve
  <2>2. grant \in Leases
    BY <2>1, <1>2 DEF Leases
  <2> HIDE DEF grant
  <2>3. grant # None
    BY <2>2, RecordsAreSome
  <2>4. grant.at < grant.until /\ grant.token = issued + 1
    BY <2>1 DEF grant
  <2> QED
    BY <2>1, <2>2, <2>3, <2>4, <1>2, TokenAssumption
<1>4. c \notin Presented /\ lease[c] = None /\ admitted[c] # None
  BY <1>1 DEF Chosen, Pending, Leased
<1>5. /\ lease'[c] = grant
      /\ \A d \in Candidate \ {c} : lease'[d] = lease[d]
      /\ lease' \in [Candidate -> Leases \cup {None}]
  BY <1>1, <1>3 DEF AttentionTypeOK
<1>6. AttentionTypeOK'
  <2>1. \A d \in Candidate :
          lease'[d] # None => lease'[d].token <= issued' /\ lease'[d].at < lease'[d].until
    <3> SUFFICES ASSUME NEW d \in Candidate, lease'[d] # None
                 PROVE lease'[d].token <= issued' /\ lease'[d].at < lease'[d].until
      OBVIOUS
    <3>1. CASE d = c
      BY <3>1, <1>3, <1>5
    <3>2. CASE d # c
      <4>1. /\ lease'[d] = lease[d] /\ lease[d] \in Leases
            /\ lease[d].token <= issued /\ lease[d].at < lease[d].until
        BY <3>2, <1>5 DEF AttentionTypeOK
      <4> QED
        BY <4>1, <1>2, <1>3 DEF Leases
    <3> QED
      BY <3>1, <3>2
  <2> QED
    BY <2>1, <1>3, <1>5, DoneType DEF Reserve, AttentionTypeOK
<1>7. LeasedAdmitted'
  BY <1>4, <1>5 DEF LeasedAdmitted, Reserve
<1>8. JobClock'
  BY DoneType DEF Reserve
<1>9. HistoryAccepted'
  BY <1>4, <1>5 DEF HistoryAccepted, Presented, Reserve
<1>10. WindowReserved'
  <2> SUFFICES ASSUME NEW start \in Time
               PROVE Cardinality(MayShowIn(start)') <= MaxPresentations
    BY DEF WindowReserved
  <2> DEFINE W == start .. start + Period - 1
  <2>0. start \in Nat /\ W \subseteq Nat
    BY TimeAssumption, BudgetAssumption
  <2>1. CASE \E t \in W : now <= t /\ t < now + LeaseSeconds
    <3>1. PICK t \in W : now <= t
      BY <2>1
    <3>2. MayShowIn(start)' \in SUBSET (InWindow(now) \cup Leased \cup {c})
      <4> SUFFICES ASSUME NEW d \in Candidate, d # c, NEW u \in W, MayShowAt(d, u)'
                   PROVE d \in InWindow(now) \cup Leased
        BY DEF MayShowIn
      <4>1. CASE d \in Presented /\ presented[d].at = u
        <5>1. now < u + Period
          BY <3>1, <2>0, <1>2, BudgetAssumption
        <5> QED
          BY <4>1, <5>1 DEF InWindow
      <4>2. CASE lease[d] # None
        BY <4>2 DEF Leased
      <4> QED
        BY <4>1, <4>2, <1>5 DEF MayShowAt, Presented, Leased, Reserve
    <3>3. /\ InWindow(now) \in SUBSET Candidate /\ Leased \in SUBSET Candidate
          /\ Cardinality(InWindow(now)) + Cardinality(Leased) < MaxPresentations
      BY DEF InWindow, Presented, Leased, Reserve, Consumed
    <3> QED
      BY <3>2, <3>3, OneMore
  <2>2. CASE ~ \E t \in W : now <= t /\ t < now + LeaseSeconds
    <3>1. MayShowIn(start)' \in SUBSET MayShowIn(start)
      <4> SUFFICES ASSUME NEW d \in Candidate, NEW u \in W, MayShowAt(d, u)'
                   PROVE MayShowAt(d, u)
        BY DEF MayShowIn
      <4>1. CASE d = c
        BY <4>1, <2>2, <1>4, <1>5 DEF MayShowAt, Presented, Leased, Reserve
      <4>2. CASE d # c
        BY <4>2, <1>5 DEF MayShowAt, Presented, Leased, Reserve
      <4> QED
        BY <4>1, <4>2
    <3>2. MayShowIn(start) \in SUBSET Candidate /\ MayShowIn(start)' \in SUBSET Candidate
      BY <3>1 DEF MayShowIn
    <3>3. Cardinality(MayShowIn(start)') <= Cardinality(MayShowIn(start))
      BY <3>1, <3>2, Smaller
    <3>4. Cardinality(MayShowIn(start)) <= MaxPresentations
      BY DEF WindowReserved
    <3> QED
      BY <3>2, <3>3, <3>4, FiniteCandidates, BudgetAssumption
  <2> QED
    BY <2>1, <2>2
<1> QED
  BY <1>6, <1>7, <1>8, <1>9, <1>10

\* The acknowledgement: the receipt falls into the lease it was granted under.
LEMMA AckPublishKeeps ==
    ASSUME AttentionInv, AckPublish
    PROVE AttentionInv'
<1> USE DEF AttentionInv
<1> DEFINE now == job.now
           receipt == [token |-> job.token, at |-> now]
<1>1. PICK c \in Leased : /\ Matched(c) /\ ~Spent(c, now)
                          /\ presented' = [presented EXCEPT ![c] = receipt]
  BY DEF AckPublish
<1>2. /\ c \in Candidate /\ lease[c] \in Leases /\ lease[c].token = job.token
      /\ now \in Time /\ now \in Nat /\ c \notin Presented
  BY <1>1, TimeAssumption
     DEF Leased, Matched, Spent, AckPublish, AttentionTypeOK
<1>3. receipt \in Receipts /\ receipt # None
  BY <1>2, RecordsAreSome DEF Receipts, Leases
<1>4. lease[c].at <= now /\ now < lease[c].until
  <2>1. lease[c].at <= now
    BY <1>1 DEF AckPublish, JobClock, NotBefore
  <2>2. now < lease[c].until
    BY <1>1, <1>2 DEF Spent, Leases
  <2> QED
    BY <2>1, <2>2
<1>5. /\ presented'[c] = receipt
      /\ \A d \in Candidate \ {c} : presented'[d] = presented[d]
      /\ presented' \in [Candidate -> Receipts \cup {None}]
  BY <1>1, <1>2, <1>3 DEF AttentionTypeOK
<1>6. AttentionTypeOK'
  <2>1. job' \in Jobs /\ job'.now = now
    BY DEF AckPublish, AttentionTypeOK, Jobs, Steps
  <2> QED
    BY <2>1, <1>2, <1>5 DEF AckPublish, AttentionTypeOK
<1>7. LeasedAdmitted'
  BY DEF LeasedAdmitted, AckPublish
<1>8. JobClock'
  <2>1. job'.step = "unlink"
    BY DEF AckPublish, AttentionTypeOK, Jobs
  <2> QED
    BY <2>1 DEF JobClock
<1>9. HistoryAccepted'
  <2> SUFFICES ASSUME NEW d \in Candidate, presented'[d] # None
               PROVE /\ admitted[d] # None
                     /\ lease[d] # None =>
                           /\ presented'[d].token = lease[d].token
                           /\ lease[d].at <= presented'[d].at
                           /\ presented'[d].at < lease[d].until
    BY DEF HistoryAccepted, Presented, AckPublish
  <2>1. CASE d = c
    <3>1. admitted[c] # None
      BY <1>1 DEF Leased, LeasedAdmitted
    <3> QED
      BY <2>1, <3>1, <1>2, <1>4, <1>5
  <2>2. CASE d # c
    BY <2>2, <1>5 DEF HistoryAccepted, Presented
  <2> QED
    BY <2>1, <2>2
<1>10. WindowReserved'
  <2>1. ASSUME NEW d \in Candidate, NEW t \in Nat, MayShowAt(d, t)'
        PROVE MayShowAt(d, t)
    <3>1. CASE d = c
      BY <3>1, <2>1, <1>1, <1>2, <1>3, <1>4, <1>5 DEF MayShowAt, Presented, Leased
    <3>2. CASE d # c
      BY <3>2, <2>1, <1>5 DEF MayShowAt, Presented, Leased, AckPublish
    <3> QED
      BY <3>1, <3>2
  <2> QED
    BY <2>1, WindowsShrink
<1> QED
  BY <1>6, <1>7, <1>8, <1>9, <1>10

-----------------------------------------------------------------------------
LEMMA StepKeeps == AttentionInv /\ [Next]_vars => AttentionInv'
<1> SUFFICES ASSUME AttentionInv, [Next]_vars PROVE AttentionInv'
  OBVIOUS
<1>1. ASSUME NEW c \in Candidate, NEW rank \in Rank, NEW now \in Time, Admit(c, rank, now)
      PROVE AttentionInv'
  BY <1>1, AdmitKeeps
<1>2. ASSUME NEW now \in Time, ReserveBegin(now)
      PROVE AttentionInv'
  BY <1>2, BeginKeeps DEF ReserveBegin
<1>3. ASSUME NEW now \in Time, NEW token \in 1 .. issued,
             AckBegin(now, token) \/ ReleaseBegin(now, token)
      PROVE AttentionInv'
  <2>1. token \in Nat
    BY DEF AttentionInv, AttentionTypeOK
  <2> QED
    BY <1>3, <2>1, BeginKeeps DEF AckBegin, ReleaseBegin
<1>4. CASE Cleanup
  BY <1>4, CleanupKeeps
<1>5. CASE ReserveNothing \/ AckUnknown \/ AckSpent \/ AckUnlink \/ Release \/ Die
  BY <1>5, EndKeeps
<1>6. CASE Reserve
  BY <1>6, ReserveKeeps
<1>7. CASE AckPublish
  BY <1>7, AckPublishKeeps
<1>8. CASE UNCHANGED vars
  <2>1. /\ UNCHANGED lease /\ UNCHANGED <<admitted, presented, issued>>
        /\ job' = job
    BY <1>8 DEF vars
  <2>2. job' \in Jobs /\ (job'.step # "free" => job'.now \in Time)
    BY <2>1 DEF AttentionInv, AttentionTypeOK
  <2>3. JobClock'
    BY <2>1 DEF AttentionInv, JobClock, NotBefore, Leased
  <2> QED
    BY <2>1, <2>2, <2>3, KeptType, LeasesLeave DEF AttentionInv
<1> QED
  BY <1>1, <1>2, <1>3, <1>4, <1>5, <1>6, <1>7, <1>8 DEF Next

LEMMA InvHolds == Spec => []AttentionInv
  BY InitInv, StepKeeps, PTL DEF Spec

-----------------------------------------------------------------------------
(* What the queue promises. *)

\* Candidates, leases, receipts and the running command keep their shapes, and
\* every lease ends after it begins.
THEOREM AttentionTypeCorrect == Spec => []AttentionTypeOK
<1>1. AttentionInv => AttentionTypeOK
  BY DEF AttentionInv
<1> QED
  BY <1>1, InvHolds, PTL

\* _validate_receipts never refuses what the queue itself wrote: no death
\* between receipt and lease removal wedges the queue.
THEOREM HistoryNeverRefused == Spec => []HistoryAccepted
<1>1. AttentionInv => HistoryAccepted
  BY DEF AttentionInv
<1> QED
  BY <1>1, InvHolds, PTL

\* Receipts and leases together never claim more of a window than the budget.
THEOREM WindowsAlwaysReserved == Spec => []WindowReserved
<1>1. AttentionInv => WindowReserved
  BY DEF AttentionInv
<1> QED
  BY <1>1, InvHolds, PTL

\* reserve_next and ack_presented keep "at most one presentation inside a
\* rolling receiver-time window", or whatever the budget is.
THEOREM BudgetNeverExceeded == Spec => []BudgetHolds
<1>1. ASSUME AttentionInv PROVE BudgetHolds
  <2> SUFFICES ASSUME NEW start \in Time
               PROVE Cardinality({c \in Presented :
                        presented[c].at \in start .. start + Period - 1}) <= MaxPresentations
    BY DEF BudgetHolds
  <2> DEFINE S == {c \in Presented : presented[c].at \in start .. start + Period - 1}
  <2>1. S \in SUBSET MayShowIn(start) /\ MayShowIn(start) \in SUBSET Candidate
    BY DEF MayShowIn, MayShowAt, Presented
  <2>2. Cardinality(S) <= Cardinality(MayShowIn(start))
    BY <2>1, Smaller
  <2>3. Cardinality(MayShowIn(start)) <= MaxPresentations
    BY <1>1 DEF AttentionInv, WindowReserved
  <2>4. Cardinality(S) \in Nat /\ Cardinality(MayShowIn(start)) \in Nat
    <3>1. S \in SUBSET Candidate
      BY <2>1
    <3> QED
      BY <3>1, <2>1, FiniteCandidates
  <2> QED
    BY <2>2, <2>3, <2>4, BudgetAssumption
<1> QED
  BY <1>1, InvHolds, PTL

\* Only a grant makes a lease, and it is the grant's reading of the clock.
LEMMA GrantIsReserve ==
    ASSUME AttentionInv, [Next]_vars, NEW c \in Candidate, lease[c] = None, lease'[c] # None
    PROVE Reserve /\ Chosen(c) /\ lease'[c].at = job.now
<1>1. ASSUME NEW e \in Candidate, Unlink(e) PROVE lease'[c] = None
  BY <1>1 DEF Unlink, AttentionInv, AttentionTypeOK
<1>2. CASE UNCHANGED lease
  BY <1>2
<1>3. CASE Cleanup \/ AckSpent \/ AckUnlink \/ Release
  BY <1>1, <1>2, <1>3 DEF Cleanup, AckSpent, AckUnlink, Release, Stale, Leased
<1>4. CASE Reserve
  <2>1. PICK e \in Candidate :
           /\ Chosen(e)
           /\ lease' = [lease EXCEPT ![e] = [token |-> issued + 1, at |-> job.now,
                                             until |-> job.now + LeaseSeconds]]
    BY <1>4 DEF Reserve
  <2>2. e = c /\ lease'[c].at = job.now
    BY <2>1 DEF AttentionInv, AttentionTypeOK
  <2> QED
    BY <1>4, <2>1, <2>2
<1> QED
  BY <1>2, <1>3, <1>4 DEF Next, vars, Admit, ReserveBegin, AckBegin, ReleaseBegin, Begin,
     ReserveNothing, AckUnknown, AckPublish, Die

\* _order_key is a total order: two candidates, each before the other, are one.
LEMMA OrderIsStrict ==
    ASSUME AttentionTypeOK, NEW c \in Candidate, NEW d \in Candidate,
           admitted[c] # None, admitted[d] # None, Before(c, d), Before(d, c)
    PROVE c = d
<1>1. /\ admitted[c].rank \in Nat /\ admitted[c].enqueued \in Nat
      /\ admitted[d].rank \in Nat /\ admitted[d].enqueued \in Nat
  BY TimeAssumption DEF AttentionTypeOK, Policies
<1>2. c \in Nat /\ d \in Nat
  BY CandidateAssumption
<1> QED
  BY <1>1, <1>2 DEF Before

\* reserve_next grants the slot to the best candidate of the whole queue: a
\* better one that was not shown is behind a lease that has not run out.
THEOREM BestFirst == Spec => BestGoesFirst
<1>1. ASSUME AttentionInv, [Next]_vars, NEW c \in Candidate, NEW d \in Candidate,
             lease[c] = None, lease'[c] # None, admitted[d] # None, Before(d, c),
             d \notin Presented
      PROVE d = c \/ (d \in Leased /\ lease'[c].at < lease[d].until)
  <2>1. Reserve /\ Chosen(c) /\ lease'[c].at = job.now
    BY <1>1, GrantIsReserve
  <2>2. CASE d \in Leased
    <3>1. ~ (lease[d].until <= job.now)
      BY <2>1, <2>2, <1>1 DEF Reserve, Clean, Matched, Stale, Spent
    <3>2. lease[d].until \in Nat /\ job.now \in Nat
      BY <2>1, <2>2, <1>1, TimeAssumption
         DEF Reserve, AttentionInv, AttentionTypeOK, Leased, Leases
    <3> QED
      BY <2>1, <2>2, <3>1, <3>2
  <2>3. CASE d \notin Leased
    <3>1. d \in Pending /\ Before(c, d) /\ admitted[c] # None
      BY <2>1, <2>3, <1>1 DEF Pending, Chosen
    <3> QED
      BY <3>1, <1>1, OrderIsStrict DEF AttentionInv
  <2> QED
    BY <2>2, <2>3
<1>2. AttentionInv /\ [Next]_vars =>
        [\A c, d \in Candidate :
           lease[c] = None /\ lease'[c] # None /\ admitted[d] # None /\ Before(d, c)
              /\ d \notin Presented
              => d = c \/ (d \in Leased /\ lease'[c].at < lease[d].until)]_vars
  BY <1>1
<1> QED
  BY <1>2, InvHolds, PTL DEF Spec, BestGoesFirst

-----------------------------------------------------------------------------
(* The ledger beside the queue *)

\* What a command at its step has in hand, and what it learnt from the queue.
CallOK(k) ==
    /\ k.step \in {"room", "enqueue", "record"} => k.letter \in Letters
    /\ k.step \in {"reserved", "acked"} => k.decision \in Candidate
    /\ k.step \in {"reserved", "handback"} => k.token \in 1 .. issued
    /\ k.step = "record" => /\ admitted[k.letter.decision] # None
                            /\ admitted[k.letter.decision].rank = k.letter.class
    /\ k.step = "acked" => presented[k.decision] # None

\* An entry is about its decision and says no more than the queue.
EntryOK(d) ==
    entry[d] # None =>
        /\ entry[d].letter.decision = d
        /\ admitted[d] # None /\ admitted[d].rank = entry[d].letter.class
        /\ entry[d].state = "PRESENTED" => presented[d] # None

LedgerInv ==
    /\ AttentionInv
    /\ call \in [Proc -> Calls]
    /\ \A p \in Proc : CallOK(call[p])
    /\ entry \in [Candidate -> Entries \cup {None}]
    /\ \A d \in Candidate : EntryOK(d)

\* The queue never takes back a candidate, a receipt or a token.
QueueKeeps ==
    /\ \A c \in Candidate : admitted[c] # None => admitted'[c] = admitted[c]
    /\ \A c \in Candidate : presented[c] # None => presented'[c] # None
    /\ \A t \in 1 .. issued : t \in 1 .. issued'

-----------------------------------------------------------------------------
(* The composition implements the queue. *)

LEMMA LettersAbout ==
    ASSUME NEW letter \in Letters
    PROVE letter.decision \in Candidate /\ letter.class \in Rank
  BY LetterAssumption

LEMMA CommandIsQueueStep ==
    ASSUME NEW p \in Proc, Command(p), LedgerInv
    PROVE [Next]_vars
<1>1. ASSUME NEW now \in Time, AdmitEnqueue(p, now)
      PROVE [Next]_vars
  <2>1. call[p].letter \in Letters
    BY <1>1 DEF LedgerInv, CallOK, AdmitEnqueue, At
  <2> QED
    BY <1>1, <2>1, LettersAbout DEF AdmitEnqueue, Next
<1>2. ASSUME NEW now \in Time, HandBackBegin(p, now)
      PROVE [Next]_vars
  <2>1. call[p].token \in 1 .. issued
    BY <1>2 DEF LedgerInv, CallOK, HandBackBegin, At
  <2> QED
    BY <1>2, <2>1 DEF HandBackBegin, Next
<1>3. CASE \E now \in Time : Propose(p, now)
  BY <1>3 DEF Propose, Next
<1>4. CASE \E now \in Time, token \in 1 .. issued :
              Acknowledge(p, now, token) \/ GiveUp(p, now, token)
  BY <1>4 DEF Acknowledge, GiveUp, Next
<1>5. CASE ProposeNothing(p) \/ ProposeReserved(p) \/ HandBack(p) \/ AckAnswered(p)
             \/ AckPublished(p) \/ AckUnlinked(p) \/ GiveUpReleased(p) \/ Fall(p)
  BY <1>5 DEF ProposeNothing, ProposeReserved, HandBack, AckAnswered, AckPublished,
     AckUnlinked, GiveUpReleased, Fall, Next
<1>6. CASE (\E letter \in Letters : AdmitLook(p, letter)) \/ AdmitRoom(p) \/ AdmitRecord(p)
             \/ ProposeShow(p) \/ ProposeHandBack(p) \/ AckRecord(p) \/ GiveUpRecord(p)
  BY <1>6 DEF AdmitLook, AdmitRoom, AdmitRecord, ProposeShow, ProposeHandBack, AckRecord,
     GiveUpRecord
<1> QED
  BY <1>1, <1>2, <1>3, <1>4, <1>5, <1>6 DEF Command

LEMMA QueueStep ==
    ASSUME LedgerInv, [InterruptNext]_interruptVars
    PROVE [Next]_vars
  BY CommandIsQueueStep DEF InterruptNext, interruptVars, QueueCleanup, Next

LEMMA QueueStepKeeps ==
    ASSUME AttentionInv, [Next]_vars
    PROVE QueueKeeps
<1>1. ASSUME NEW c \in Candidate, NEW rank \in Rank, NEW now \in Time, Admit(c, rank, now)
      PROVE QueueKeeps
  BY <1>1 DEF Admit, QueueKeeps, AttentionInv, AttentionTypeOK
<1>2. ASSUME NEW step \in Steps, NEW now \in Time, NEW token \in Nat, Begin(step, now, token)
      PROVE QueueKeeps
  BY <1>2 DEF Begin, QueueKeeps
<1>3. CASE Reserve
  BY <1>3, TokenAssumption DEF Reserve, QueueKeeps, AttentionInv, AttentionTypeOK
<1>4. CASE AckPublish
  <2>1. PICK c \in Leased :
           /\ Matched(c)
           /\ presented' = [presented EXCEPT ![c] = [token |-> job.token, at |-> job.now]]
    BY <1>4 DEF AckPublish
  <2>2. c \in Candidate /\ lease[c] \in Leases /\ lease[c].token = job.token /\ job.now \in Time
    BY <1>4, <2>1 DEF Leased, Matched, AckPublish, AttentionInv, AttentionTypeOK
  <2>3. [token |-> job.token, at |-> job.now] \in Receipts
    BY <2>2 DEF Leases, Receipts
  <2> QED
    BY <1>4, <2>1, <2>2, <2>3, RecordsAreSome
       DEF AckPublish, QueueKeeps, AttentionInv, AttentionTypeOK
<1>5. CASE Cleanup \/ ReserveNothing \/ AckUnknown \/ AckSpent \/ AckUnlink \/ Release \/ Die
  BY <1>5 DEF Cleanup, ReserveNothing, AckUnknown, AckSpent, AckUnlink, Release, Die, QueueKeeps
<1>6. CASE UNCHANGED vars
  BY <1>6 DEF vars, QueueKeeps
<1>7. 1 .. issued \subseteq Nat
  BY DEF AttentionInv, AttentionTypeOK
<1> QED
  BY <1>1, <1>2, <1>3, <1>4, <1>5, <1>6, <1>7 DEF Next, ReserveBegin, AckBegin, ReleaseBegin, Steps
-----------------------------------------------------------------------------
(* The ledger keeps up with the queue. *)

LEMMA LedgerInit == InterruptInit => LedgerInv
<1> SUFFICES ASSUME InterruptInit PROVE LedgerInv
  OBVIOUS
<1>1. AttentionInv
  BY InitInv DEF InterruptInit
<1>2. Idle \in Calls
  BY TokenAssumption DEF Idle, Calls, CallSteps
<1> QED
  BY <1>1, <1>2 DEF InterruptInit, LedgerInv, CallOK, EntryOK, Idle

\* What holds of a call or an entry that stays, holds after any queue step.
LEMMA CallStays ==
    ASSUME QueueKeeps, NEW k, CallOK(k)
    PROVE CallOK(k)'
<1>1. k.step = "record" => k.letter.decision \in Candidate
  BY LettersAbout DEF CallOK
<1> QED
  BY <1>1 DEF CallOK, QueueKeeps

LEMMA EntryStays ==
    ASSUME QueueKeeps, NEW d \in Candidate, EntryOK(d), entry'[d] = entry[d]
    PROVE EntryOK(d)'
  BY DEF EntryOK, QueueKeeps

\* A step of p that leaves the entries alone.
LEMMA CallMoves ==
    ASSUME LedgerInv, QueueKeeps, AttentionInv', UNCHANGED entry,
           NEW p \in Proc, NEW next \in Calls, Goes(p, next), CallOK(next)'
    PROVE LedgerInv'
<1>1. call' \in [Proc -> Calls]
  BY DEF LedgerInv, Goes
<1>2. ASSUME NEW q \in Proc PROVE CallOK(call[q])'
  <2>1. CASE q = p
    <3>1. call'[q] = next
      BY <2>1 DEF LedgerInv, Goes
    <3> QED
      BY <3>1 DEF CallOK
  <2>2. CASE q # p
    <3>1. call'[q] = call[q] /\ CallOK(call[q])
      BY <2>2 DEF LedgerInv, Goes
    <3>2. PICK k \in Calls : k = call[q]
      BY DEF LedgerInv
    <3>3. CallOK(k)'
      BY <3>1, <3>2, CallStays
    <3> QED
      BY <3>1, <3>2, <3>3 DEF CallOK
  <2> QED
    BY <2>1, <2>2
<1>3. \A d \in Candidate : EntryOK(d)'
  BY EntryStays DEF LedgerInv
<1> QED
  BY <1>1, <1>2, <1>3 DEF LedgerInv

\* The end of a command that writes the entry of one decision, or none.
LEMMA CallRecords ==
    ASSUME LedgerInv, UNCHANGED vars, AttentionInv',
           NEW p \in Proc, Goes(p, Idle),
           entry' \in [Candidate -> Entries \cup {None}],
           \A d \in Candidate : EntryOK(d)'
    PROVE LedgerInv'
<1>1. Idle \in Calls
  BY TokenAssumption DEF Idle, Calls, CallSteps
<1>2. call' \in [Proc -> Calls]
  BY <1>1 DEF LedgerInv, Goes
<1>3. \A q \in Proc : CallOK(call[q])'
  <2> SUFFICES ASSUME NEW q \in Proc PROVE CallOK(call[q])'
    OBVIOUS
  <2>1. call'[q] = Idle \/ (call'[q] = call[q] /\ CallOK(call[q]))
    BY <1>1 DEF LedgerInv, Goes
  <2> QED
    BY <2>1 DEF CallOK, Idle, vars
<1> QED
  BY <1>2, <1>3 DEF LedgerInv

-----------------------------------------------------------------------------
LEMMA CommandKeeps ==
    ASSUME LedgerInv, AttentionInv', QueueKeeps, NEW p \in Proc, Command(p)
    PROVE LedgerInv'
<1>k. PICK k \in Calls : k = call[p]
  BY DEF LedgerInv
<1>a. k \in Calls /\ CallOK(k)
  BY <1>k DEF LedgerInv
<1>b. Idle \in Calls /\ CallOK(Idle)'
  BY TokenAssumption DEF Idle, Calls, CallSteps, CallOK
<1>c. issued \in Nat /\ issued <= MaxTokens /\ MaxTokens \in Nat
  BY TokenAssumption DEF LedgerInv, AttentionInv, AttentionTypeOK
<1>1. ASSUME NEW letter \in Letters, AdmitLook(p, letter)
      PROVE LedgerInv'
  <2> DEFINE next == [Idle EXCEPT !.step = "room", !.letter = letter]
  <2>1. next \in Calls /\ CallOK(next)'
    BY <1>k, <1>b DEF Idle, Calls, CallSteps, CallOK
  <2> QED
    BY <1>k, <1>1, <2>1, CallMoves DEF AdmitLook
<1>2. CASE AdmitRoom(p)
  <2> DEFINE next == [k EXCEPT !.step = "enqueue"]
  <2>1. next \in Calls /\ CallOK(next)'
    BY <1>k, <1>2, <1>a DEF Calls, CallSteps, CallOK, AdmitRoom, At
  <2> QED
    BY <1>k, <1>2, <1>b, <2>1, CallMoves DEF AdmitRoom
<1>3. ASSUME NEW now \in Time, AdmitEnqueue(p, now)
      PROVE LedgerInv'
  <2> DEFINE next == [k EXCEPT !.step = "record"]
             d == k.letter.decision
  <2>1. k.letter \in Letters /\ d \in Candidate /\ k.letter.class \in Rank
    BY <1>k, <1>3, <1>a, LettersAbout DEF AdmitEnqueue, At, CallOK
  <2>2. next \in Calls
    BY <1>k, <1>a DEF Calls, CallSteps
  <2>3. CASE Goes(p, next) /\ admitted'[d] # None /\ admitted'[d].rank = k.letter.class
    <3>1. CallOK(next)'
      BY <1>k, <2>1, <2>3, <1>a DEF CallOK, Calls
    <3> QED
      BY <1>k, <1>3, <3>1, <2>2, <2>3, CallMoves DEF AdmitEnqueue
  <2>4. CASE Goes(p, Idle)
    BY <1>k, <1>3, <2>4, <1>b, CallMoves DEF AdmitEnqueue
  <2>5. CASE Admit(d, k.letter.class, now)
    <3>1. admitted'[d] = [rank |-> k.letter.class, enqueued |-> now]
      BY <1>k, <2>1, <2>5 DEF Admit, LedgerInv, AttentionInv, AttentionTypeOK
    <3>2. admitted'[d] \in Policies
      BY <1>k, <3>1, <2>1 DEF Policies
    <3> QED
      BY <1>k, <1>3, <2>3, <2>4, <2>5, <3>1, <3>2, RecordsAreSome DEF AdmitEnqueue, Admit
  <2> QED
    BY <1>k, <1>3, <2>3, <2>4, <2>5 DEF AdmitEnqueue, vars
<1>4. CASE AdmitRecord(p)
  <2> DEFINE letter == k.letter
             d == letter.decision
             e == [state |-> "PENDING", letter |-> letter,
                   reservation |-> IF entry[d] = None THEN 0 ELSE entry[d].reservation]
  <2>1. /\ letter \in Letters /\ d \in Candidate
        /\ admitted[d] # None /\ admitted[d].rank = letter.class
    BY <1>k, <1>4, <1>a, LettersAbout DEF AdmitRecord, At, CallOK
  <2>2. e \in Entries
    BY <1>k, <2>1, <1>c DEF Entries, LedgerInv
  <2>3. entry' = [entry EXCEPT ![d] = e] /\ UNCHANGED vars /\ Goes(p, Idle)
    BY <1>k, <1>4 DEF AdmitRecord
  <2>4. entry' \in [Candidate -> Entries \cup {None}]
    BY <1>k, <2>1, <2>2, <2>3 DEF LedgerInv
  <2>5. ASSUME NEW c \in Candidate PROVE EntryOK(c)'
    <3>1. CASE c = d
      BY <1>k, <3>1, <2>1, <2>2, <2>3 DEF LedgerInv, EntryOK, vars
    <3>2. CASE c # d
      BY <1>k, <3>2, <2>3, EntryStays DEF LedgerInv
    <3> QED
      BY <1>k, <3>1, <3>2
  <2> QED
    BY <1>k, <2>3, <2>4, <2>5, CallRecords
<1>5. CASE \E now \in Time : Propose(p, now)
  <2> DEFINE next == [Idle EXCEPT !.step = "reserving"]
  <2>1. next \in Calls /\ CallOK(next)'
    BY <1>k, <1>b DEF Idle, Calls, CallSteps, Queueing, CallOK
  <2> QED
    BY <1>k, <1>5, <2>1, CallMoves DEF Propose
<1>6. CASE ProposeNothing(p) \/ HandBack(p) \/ Fall(p)
  BY <1>k, <1>6, <1>b, CallMoves DEF ProposeNothing, HandBack, Fall
<1>7. CASE ProposeReserved(p)
  <2>1. PICK c \in Candidate, t \in 0 .. MaxTokens :
           /\ t = issued' /\ t \in 1 .. issued'
           /\ Goes(p, [Idle EXCEPT !.step = "reserved", !.decision = c, !.token = t])
    <3>1. issued' \in 0 .. MaxTokens /\ issued' \in 1 .. issued'
      BY <1>7, <1>c DEF ProposeReserved, Reserve
    <3> QED
      BY <1>7, <3>1 DEF ProposeReserved
  <2> DEFINE next == [Idle EXCEPT !.step = "reserved", !.decision = c, !.token = t]
  <2>3. next \in Calls /\ CallOK(next)'
    BY <1>b, <2>1 DEF Idle, Calls, CallSteps, CallOK
  <2> QED
    BY <1>7, <2>1, <2>3, CallMoves DEF ProposeReserved
<1>8. CASE ProposeShow(p)
  <2> DEFINE d == k.decision
             e == [entry[d] EXCEPT !.reservation = k.token]
  <2>1. d \in Candidate /\ entry[d] # None /\ entry[d] \in Entries /\ EntryOK(d)
    BY <1>k, <1>8, <1>a DEF ProposeShow, Waiting, LedgerInv
  <2>2. e \in Entries /\ e # None
    BY <1>k, <2>1, <1>a, NoLetterAssumption DEF Entries, Calls
  <2>3. entry' = [entry EXCEPT ![d] = e] /\ UNCHANGED vars /\ Goes(p, Idle)
    BY <1>k, <1>8 DEF ProposeShow
  <2>4. entry' \in [Candidate -> Entries \cup {None}]
    BY <1>k, <2>2, <2>3 DEF LedgerInv
  <2>5. ASSUME NEW c \in Candidate PROVE EntryOK(c)'
    <3>1. CASE c = d
      <4>1. entry'[c] = e
        BY <1>k, <3>1, <2>1, <2>3 DEF LedgerInv
      <4>2. e.letter = entry[d].letter /\ e.state = entry[d].state
        BY <1>k, <2>1 DEF Entries
      <4> QED
        BY <1>k, <3>1, <4>1, <4>2, <2>1, <2>3 DEF EntryOK, vars
    <3>2. CASE c # d
      BY <1>k, <3>2, <2>3, EntryStays DEF LedgerInv
    <3> QED
      BY <1>k, <3>1, <3>2
  <2> QED
    BY <1>k, <2>3, <2>4, <2>5, CallRecords
<1>9. CASE ProposeHandBack(p)
  <2> DEFINE next == [k EXCEPT !.step = "handback"]
  <2>1. next \in Calls /\ CallOK(next)'
    BY <1>k, <1>9, <1>a DEF Calls, CallSteps, CallOK, ProposeHandBack, At, vars
  <2> QED
    BY <1>k, <1>9, <2>1, CallMoves DEF ProposeHandBack
<1>10. CASE \E now \in Time : HandBackBegin(p, now)
  <2> DEFINE next == [k EXCEPT !.step = "returning"]
  <2>1. next \in Calls /\ CallOK(next)'
    BY <1>k, <1>a DEF Calls, CallSteps, Queueing, CallOK
  <2> QED
    BY <1>k, <1>10, <2>1, CallMoves DEF HandBackBegin
<1>11. ASSUME NEW now \in Time, NEW token \in 1 .. issued,
              Acknowledge(p, now, token) \/ GiveUp(p, now, token)
       PROVE LedgerInv'
  <2> DEFINE next(step) == [Idle EXCEPT !.step = step, !.token = token]
  <2>1. token \in 0 .. MaxTokens
    BY <1>k, <1>c
  <2>2. /\ next("acking") \in Calls /\ CallOK(next("acking"))'
        /\ next("releasing") \in Calls /\ CallOK(next("releasing"))'
    BY <1>k, <1>b, <2>1 DEF Idle, Calls, CallSteps, Queueing, CallOK
  <2> QED
    BY <1>k, <1>11, <2>2, CallMoves DEF Acknowledge, GiveUp
<1>12. CASE AckAnswered(p) \/ AckUnlinked(p)
  <2>1. UNCHANGED <<presented, entry>>
    BY <1>k, <1>12 DEF AckAnswered, AckUnlinked, AckUnknown, AckSpent, AckUnlink
  <2>2. ASSUME NEW c \in Candidate, c \in Receipted(k.token), Acked(p, c)
        PROVE LedgerInv'
    <3> DEFINE next == [k EXCEPT !.step = "acked", !.decision = c]
    <3>1. c \in Candidate /\ presented'[c] # None
      BY <2>1, <2>2 DEF Receipted, Presented
    <3>2. next \in Calls /\ CallOK(next)'
      BY <1>k, <1>a, <3>1 DEF Calls, CallSteps, CallOK
    <3> QED
      BY <1>k, <2>1, <2>2, <3>2, CallMoves DEF Acked
  <2> QED
    BY <1>k, <1>12, <2>1, <2>2, <1>b, CallMoves DEF AckAnswered, AckUnlinked, Receipted, Presented
<1>13. CASE AckPublished(p)
  <2>1. UNCHANGED <<call, entry>>
    BY <1>k, <1>13 DEF AckPublished
  <2> QED
    BY <1>k, <2>1, CallStays, EntryStays DEF LedgerInv
<1>14. CASE AckRecord(p)
  <2> DEFINE d == k.decision
             e == [entry[d] EXCEPT !.state = "PRESENTED", !.reservation = 0]
  <2>1. UNCHANGED vars /\ Goes(p, Idle)
    BY <1>k, <1>14 DEF AckRecord
  <2>2. CASE UNCHANGED entry
    BY <1>k, <2>1, <2>2, CallRecords, EntryStays DEF LedgerInv
  <2>3. CASE entry[d] # None /\ entry' = [entry EXCEPT ![d] = e]
    <3>1. d \in Candidate /\ entry[d] \in Entries /\ EntryOK(d) /\ presented[d] # None
      BY <1>k, <1>14, <2>3, <1>a DEF AckRecord, At, CallOK, LedgerInv
    <3>2. e \in Entries /\ e.letter = entry[d].letter /\ e.state = "PRESENTED"
      <4>1. 0 \in 0 .. MaxTokens
        BY <1>c
      <4>2. PICK old \in Entries : old = entry[d]
        BY <3>1
      <4> DEFINE seen == [old EXCEPT !.state = "PRESENTED"]
      <4>3. seen \in Entries /\ seen.letter = old.letter /\ seen.state = "PRESENTED"
        BY DEF Entries
      <4>4. e = [seen EXCEPT !.reservation = 0]
        BY <4>2
      <4> HIDE DEF seen
      <4> QED
        BY <4>1, <4>2, <4>3, <4>4 DEF Entries
    <3>3. entry' \in [Candidate -> Entries \cup {None}]
      BY <1>k, <2>3, <3>2 DEF LedgerInv
    <3>4. ASSUME NEW c \in Candidate PROVE EntryOK(c)'
      <4>1. CASE c = d
        <5>1. entry'[c] = e
          BY <4>1, <3>1, <2>3 DEF LedgerInv
        <5> QED
          BY <4>1, <5>1, <3>1, <3>2, <2>1, <2>3 DEF EntryOK, vars
      <4>2. CASE c # d
        BY <4>2, <2>3, EntryStays DEF LedgerInv
      <4> QED
        BY <4>1, <4>2
    <3> QED
      BY <1>k, <2>1, <3>3, <3>4, CallRecords
  <2> QED
    BY <1>k, <1>14, <2>2, <2>3 DEF AckRecord
<1>15. CASE GiveUpReleased(p)
  <2> DEFINE next == [k EXCEPT !.step = "released"]
  <2>1. next \in Calls /\ CallOK(next)'
    BY <1>k, <1>a DEF Calls, CallSteps, CallOK
  <2> QED
    BY <1>k, <1>15, <2>1, <1>b, CallMoves DEF GiveUpReleased
<1>16. CASE GiveUpRecord(p)
  <2> DEFINE e(c) == [entry[c] EXCEPT !.reservation = 0]
  <2>1. UNCHANGED vars /\ Goes(p, Idle)
    BY <1>k, <1>16 DEF GiveUpRecord
  <2>2. ASSUME NEW c \in Candidate
        PROVE entry'[c] \in Entries \cup {None} /\ EntryOK(c)'
    <3>1. entry[c] \in Entries \cup {None} /\ EntryOK(c)
      BY DEF LedgerInv
    <3>2. CASE entry'[c] = entry[c]
      BY <1>k, <3>1, <3>2, EntryStays
    <3>3. CASE entry[c] # None /\ entry'[c] = e(c)
      <4>1. e(c) \in Entries /\ e(c).letter = entry[c].letter /\ e(c).state = entry[c].state
        BY <1>k, <3>1, <3>3, <1>c DEF Entries
      <4> QED
        BY <1>k, <3>1, <3>3, <4>1, <2>1 DEF EntryOK, vars
    <3> QED
      BY <1>k, <1>16, <3>2, <3>3 DEF GiveUpRecord
  <2>3. entry' \in [Candidate -> Entries \cup {None}]
    BY <1>k, <1>16, <2>2 DEF GiveUpRecord
  <2> QED
    BY <1>k, <2>1, <2>2, <2>3, CallRecords
<1> QED
  BY <1>k, <1>1, <1>2, <1>3, <1>4, <1>5, <1>6, <1>7, <1>8, <1>9, <1>10, <1>11, <1>12, <1>13, <1>14,
     <1>15, <1>16 DEF Command

LEMMA LedgerStep == LedgerInv /\ [InterruptNext]_interruptVars => LedgerInv'
<1> SUFFICES ASSUME LedgerInv, [InterruptNext]_interruptVars PROVE LedgerInv'
  OBVIOUS
<1>1. [Next]_vars
  BY QueueStep
<1>2. AttentionInv /\ AttentionInv' /\ QueueKeeps
  BY <1>1, StepKeeps, QueueStepKeeps DEF LedgerInv
<1>3. CASE UNCHANGED <<entry, call>>
  BY <1>2, <1>3, CallStays, EntryStays DEF LedgerInv
<1> QED
  BY <1>2, <1>3, CommandKeeps DEF InterruptNext, QueueCleanup, interruptVars

LEMMA LedgerInvHolds == InterruptSpec => []LedgerInv
  BY LedgerInit, LedgerStep, PTL DEF InterruptSpec

-----------------------------------------------------------------------------
(* The bound on what waits. *)

Claimed == Waiting \cup InFlight

LEMMA ClaimedFinite ==
    ASSUME LedgerInv
    PROVE Claimed \in SUBSET Candidate /\ InFlight \in SUBSET Candidate
<1>1. ASSUME NEW p \in Proc, call[p].step \in {"enqueue", "record"}
      PROVE call[p].letter.decision \in Candidate
  BY <1>1, LettersAbout DEF LedgerInv, CallOK
<1> QED
  BY <1>1 DEF Claimed, Waiting, InFlight

\* One decision per process at most.
Claims(calls) ==
    {calls[p].letter.decision : p \in {q \in Proc : calls[q].step \in {"enqueue", "record"}}}

LEMMA ClaimsByProcess ==
    ASSUME NEW calls
    PROVE /\ IsFiniteSet(Claims(calls))
          /\ Cardinality(Claims(calls)) \in Nat /\ Cardinality(Proc) \in Nat
          /\ Cardinality(Claims(calls)) <= Cardinality(Proc)
<1> DEFINE Busy == {q \in Proc : calls[q].step \in {"enqueue", "record"}}
           f == [q \in Busy |-> calls[q].letter.decision]
<1>1. /\ IsFiniteSet(Busy) /\ Cardinality(Busy) <= Cardinality(Proc)
      /\ Cardinality(Busy) \in Nat /\ Cardinality(Proc) \in Nat
  BY ProcAssumption, FS_Subset, FS_CardinalityType
<1>2. f \in Surjection(Busy, Claims(calls))
  BY DEF Surjection, Claims
<1>3. IsFiniteSet(Claims(calls)) /\ Cardinality(Claims(calls)) <= Cardinality(Busy)
  BY <1>1, <1>2, FS_Surjection DEF ExistsSurjection
<1> QED
  BY <1>1, <1>3, FS_CardinalityType

LEMMA InFlightByProcess ==
    /\ IsFiniteSet(InFlight) /\ Cardinality(InFlight) \in Nat /\ Cardinality(Proc) \in Nat
    /\ IsFiniteSet(InFlight') /\ Cardinality(InFlight') \in Nat
    /\ Cardinality(InFlight') <= Cardinality(Proc)
<1>1. InFlight = Claims(call) /\ InFlight' = Claims(call')
  BY DEF InFlight, Claims
<1>2. PICK now, then : now = call /\ then = call'
  OBVIOUS
<1> QED
  BY <1>1, <1>2, ClaimsByProcess

\* A step of p that claims nothing new.
LEMMA ClaimsNothing ==
    ASSUME LedgerInv, Waiting' \subseteq Claimed,
           NEW p \in Proc, NEW next, Goes(p, next),
           next.step \in {"enqueue", "record"} => next.letter.decision \in Claimed
    PROVE Claimed' \subseteq Claimed
<1> SUFFICES ASSUME NEW q \in Proc, call'[q].step \in {"enqueue", "record"}
             PROVE call'[q].letter.decision \in Claimed
  BY DEF Claimed, InFlight
<1>1. CASE q = p
  BY <1>1 DEF LedgerInv, Goes
<1>2. CASE q # p
  BY <1>2 DEF LedgerInv, Goes, Claimed, InFlight
<1> QED
  BY <1>1, <1>2

LEMMA ClaimedGrows ==
    ASSUME LedgerInv, NEW p \in Proc, Command(p)
    PROVE \/ Claimed' \subseteq Claimed
          \/ Cardinality(Waiting) < MaxPending /\ UNCHANGED entry
<1>k. PICK k \in Calls : k = call[p]
  BY DEF LedgerInv
<1>1. CASE \E letter \in Letters : AdmitLook(p, letter)
  BY <1>1, ClaimsNothing DEF AdmitLook, Idle, Claimed, Waiting
<1>2. CASE AdmitRoom(p)
  <2>1. CASE k.letter.decision \in Waiting /\ Goes(p, [k EXCEPT !.step = "enqueue"])
    <3>1. [k EXCEPT !.step = "enqueue"].letter = k.letter
      BY DEF Calls
    <3> QED
      BY <1>2, <2>1, <3>1, ClaimsNothing DEF AdmitRoom, Claimed, Waiting
  <2>2. CASE Goes(p, Idle)
    BY <1>2, <2>2, ClaimsNothing DEF AdmitRoom, Idle, Claimed, Waiting
  <2> QED
    BY <1>k, <1>2, <2>1, <2>2 DEF AdmitRoom, Room
<1>3. ASSUME NEW now \in Time, AdmitEnqueue(p, now)
      PROVE Claimed' \subseteq Claimed
  <2>1. k.letter.decision \in Claimed
    BY <1>k, <1>3 DEF AdmitEnqueue, At, Claimed, InFlight
  <2>2. [k EXCEPT !.step = "record"].letter = k.letter
    BY DEF Calls
  <2>3. Goes(p, Idle) \/ Goes(p, [k EXCEPT !.step = "record"])
    BY <1>k, <1>3 DEF AdmitEnqueue
  <2>4. Waiting' = Waiting
    BY <1>3 DEF AdmitEnqueue, Waiting
  <2> QED
    BY <2>1, <2>2, <2>3, <2>4, ClaimsNothing DEF Idle, Claimed
<1>4. CASE AdmitRecord(p)
  <2>1. k.letter.decision \in Claimed
    BY <1>k, <1>4 DEF AdmitRecord, At, Claimed, InFlight
  <2>2. Waiting' \subseteq Claimed
    BY <1>k, <1>4, <2>1 DEF AdmitRecord, Waiting, Claimed, LedgerInv
  <2> QED
    BY <1>4, <2>2, ClaimsNothing DEF AdmitRecord, Idle
<1>5. CASE \/ \E now \in Time : Propose(p, now) \/ HandBackBegin(p, now)
           \/ ProposeNothing(p) \/ ProposeReserved(p) \/ ProposeHandBack(p) \/ HandBack(p)
           \/ \E now \in Time, token \in 1 .. issued :
                 Acknowledge(p, now, token) \/ GiveUp(p, now, token)
           \/ AckAnswered(p) \/ AckUnlinked(p) \/ GiveUpReleased(p) \/ Fall(p)
  <2>1. Waiting' = Waiting
    BY <1>5 DEF Propose, HandBackBegin, ProposeNothing, ProposeReserved, ProposeHandBack,
       HandBack, Acknowledge, GiveUp, AckAnswered, AckUnlinked, GiveUpReleased, Fall, Waiting
  <2>2. CASE Goes(p, Idle)
    BY <2>1, <2>2, ClaimsNothing DEF Idle, Claimed
  <2>3. ASSUME NEW step \in {"handback", "returning", "released"},
               Goes(p, [k EXCEPT !.step = step])
        PROVE Claimed' \subseteq Claimed
    <3>1. [k EXCEPT !.step = step].step = step
      BY DEF Calls
    <3> QED
      BY <2>1, <2>3, <3>1, ClaimsNothing DEF Claimed
  <2>4. ASSUME NEW c, Goes(p, [k EXCEPT !.step = "acked", !.decision = c])
        PROVE Claimed' \subseteq Claimed
    <3>1. [k EXCEPT !.step = "acked", !.decision = c].step = "acked"
      BY DEF Calls
    <3> QED
      BY <2>1, <2>4, <3>1, ClaimsNothing DEF Claimed
  <2>5. CASE Goes(p, [Idle EXCEPT !.step = "reserving"])
    BY <2>1, <2>5, ClaimsNothing DEF Idle, Claimed
  <2>6. ASSUME NEW token, NEW step \in {"acking", "releasing"},
               Goes(p, [Idle EXCEPT !.step = step, !.token = token])
        PROVE Claimed' \subseteq Claimed
    BY <2>1, <2>6, ClaimsNothing DEF Idle, Claimed
  <2>7. ASSUME ProposeReserved(p)
        PROVE Claimed' \subseteq Claimed
    <3>1. PICK c, t : Goes(p, [Idle EXCEPT !.step = "reserved", !.decision = c, !.token = t])
      BY <2>7 DEF ProposeReserved
    <3> QED
      BY <2>1, <3>1, ClaimsNothing DEF Idle, Claimed
  <2>8. CASE \/ \E now \in Time : Propose(p, now) \/ HandBackBegin(p, now)
             \/ ProposeNothing(p) \/ ProposeHandBack(p) \/ HandBack(p)
             \/ AckAnswered(p) \/ AckUnlinked(p) \/ GiveUpReleased(p) \/ Fall(p)
    BY <1>k, <2>8, <2>2, <2>3, <2>4, <2>5 DEF Propose, HandBackBegin, ProposeNothing,
       ProposeHandBack, HandBack, AckAnswered, AckUnlinked, Acked, GiveUpReleased, Fall
  <2>9. CASE \E now \in Time, token \in 1 .. issued :
                Acknowledge(p, now, token) \/ GiveUp(p, now, token)
    BY <2>9, <2>6 DEF Acknowledge, GiveUp
  <2> QED
    BY <1>5, <2>7, <2>8, <2>9
<1>6. CASE AckPublished(p)
  BY <1>6 DEF AckPublished, Claimed, Waiting, InFlight
<1>7. CASE ProposeShow(p) \/ AckRecord(p) \/ GiveUpRecord(p)
  <2>1. Waiting' \subseteq Waiting
    BY <1>7 DEF ProposeShow, AckRecord, GiveUpRecord, Waiting, LedgerInv, Entries
  <2> QED
    BY <1>7, <2>1, ClaimsNothing DEF ProposeShow, AckRecord, GiveUpRecord, Idle, Claimed
<1> QED
  BY <1>1, <1>2, <1>3, <1>4, <1>5, <1>6, <1>7 DEF Command

BoundInv == LedgerInv /\ PendingAlmostBounded

LEMMA BoundInit == InterruptInit => BoundInv
<1> SUFFICES ASSUME InterruptInit PROVE PendingAlmostBounded
  BY LedgerInit DEF BoundInv
<1>1. Waiting \cup InFlight = {}
  BY DEF InterruptInit, Waiting, InFlight, Idle
<1>2. Cardinality({}) = 0
  BY FS_EmptySet
<1>3. Cardinality(Proc) \in Nat /\ Cardinality(Proc) # 0
  BY ProcAssumption, FS_CardinalityType, FS_EmptySet
<1>4. 0 <= MaxPending + Cardinality(Proc) - 1
  BY <1>3, PendingAssumption
<1>5. Cardinality(Waiting \cup InFlight) = 0
  BY <1>1, <1>2
<1> QED
  BY <1>4, <1>5 DEF PendingAlmostBounded

\* Whoever finds room counts fewer than MaxPending; with all processes past
\* that door, each claims one decision.
LEMMA BoundStep == BoundInv /\ [InterruptNext]_interruptVars => BoundInv'
<1> SUFFICES ASSUME BoundInv, [InterruptNext]_interruptVars PROVE PendingAlmostBounded'
  BY LedgerStep DEF BoundInv
<1>1. LedgerInv /\ LedgerInv'
  BY LedgerStep DEF BoundInv
<1>2. /\ IsFiniteSet(Claimed) /\ Cardinality(Claimed) \in Nat
      /\ IsFiniteSet(Waiting) /\ Cardinality(Waiting) \in Nat
  BY <1>1, ClaimedFinite, FiniteCandidates DEF Waiting
<1>3. Cardinality(Claimed) <= MaxPending + Cardinality(Proc) - 1
  BY DEF BoundInv, PendingAlmostBounded, Claimed
<1>4. CASE Claimed' \subseteq Claimed
  <2>1. Cardinality(Claimed') <= Cardinality(Claimed) /\ Cardinality(Claimed') \in Nat
    BY <1>2, <1>4, FS_Subset, FS_CardinalityType
  <2> QED
    BY <1>2, <1>3, <2>1, InFlightByProcess, PendingAssumption DEF PendingAlmostBounded, Claimed
<1>5. CASE Cardinality(Waiting) < MaxPending /\ UNCHANGED entry
  <2>1. Waiting' = Waiting
    BY <1>5 DEF Waiting
  <2>2. /\ IsFiniteSet(InFlight') /\ Cardinality(InFlight') \in Nat
        /\ Cardinality(Proc) \in Nat /\ Cardinality(InFlight') <= Cardinality(Proc)
    BY InFlightByProcess
  <2>3. Cardinality(Waiting \cup InFlight') <= Cardinality(Waiting) + Cardinality(InFlight')
    <3>1. Cardinality(Waiting \cap InFlight') \in Nat
      <4>1. IsFiniteSet(Waiting \cap InFlight')
        BY <1>2, FS_Intersection
      <4> QED
        BY <4>1, FS_CardinalityType
    <3> QED
      <4>1. Cardinality(Waiting \cup InFlight') = Cardinality(Waiting)
                + Cardinality(InFlight') - Cardinality(Waiting \cap InFlight')
        BY <1>2, <2>2, FS_Union
      <4> QED
        BY <1>2, <2>2, <3>1, <4>1
  <2>4. Cardinality(Waiting \cup InFlight') \in Nat
    BY <1>2, <2>2, FS_Union, FS_CardinalityType
  <2> QED
    BY <1>2, <1>5, <2>1, <2>2, <2>3, <2>4, PendingAssumption DEF PendingAlmostBounded
<1>6. CASE \E p \in Proc : Command(p)
  BY <1>1, <1>4, <1>5, <1>6, ClaimedGrows
<1>7. CASE UNCHANGED <<entry, call>>
  <2>1. Claimed' = Claimed
    BY <1>7 DEF Claimed, Waiting, InFlight
  <2> QED
    BY <1>4, <2>1
<1> QED
  BY <1>6, <1>7 DEF InterruptNext, QueueCleanup, interruptVars

-----------------------------------------------------------------------------
(* One decision, one interruption. *)

\* Every token in circulation but a fresh one was shown: a receipt and an
\* acknowledgement name a shown token, and the lease behind a reserved call is
\* the lease of its own decision.
TokensShown ==
    /\ shown \in [1 .. MaxTokens -> Letters \cup {None}]
    /\ \A c \in Presented : shown[presented[c].token] # None
    /\ job.step = "ack" => job.token \in 1 .. MaxTokens /\ shown[job.token] # None
    /\ \A p \in Proc : At(p, "reserved") => Leasing(call[p].token) \subseteq {call[p].decision}

OfferInv == LedgerInv /\ TokensShown

LEMMA OfferInit == InterruptInit => OfferInv
<1> SUFFICES ASSUME InterruptInit PROVE TokensShown
  BY LedgerInit DEF OfferInv
<1> QED
  BY DEF InterruptInit, Init, TokensShown, Presented, NoJob, At, Idle

\* What is shown stays shown.
LEMMA ShownStays ==
    ASSUME OfferInv, [InterruptNext]_interruptVars
    PROVE /\ shown' \in [1 .. MaxTokens -> Letters \cup {None}]
          /\ \A t \in 1 .. MaxTokens : shown[t] # None => shown'[t] # None
<1>1. CASE UNCHANGED shown
  BY <1>1 DEF OfferInv, TokensShown
<1>2. ASSUME NEW p \in Proc, ProposeShow(p)
      PROVE shown' = [shown EXCEPT ![call[p].token] = entry[call[p].decision].letter]
            /\ entry[call[p].decision].letter \in Letters
  <2>1. call[p].decision \in Candidate /\ entry[call[p].decision] \in Entries
    BY <1>2 DEF ProposeShow, Waiting, OfferInv, LedgerInv
  <2> QED
    BY <1>2, <2>1 DEF ProposeShow, Entries
<1>3. CASE \E p \in Proc : ProposeShow(p)
  BY <1>2, <1>3, NoLetterAssumption DEF OfferInv, TokensShown
<1> QED
  BY <1>1, <1>3 DEF InterruptNext, interruptVars, QueueCleanup, Command, AdmitLook, AdmitRoom,
     AdmitEnqueue, AdmitRecord, Propose, ProposeNothing, ProposeReserved, ProposeHandBack,
     HandBackBegin, HandBack, Acknowledge, AckAnswered, AckPublished, AckUnlinked, AckRecord,
     GiveUp, GiveUpReleased, GiveUpRecord, Fall

\* A token reaches a receipt, or an acknowledgement, only after it was shown.
LEMMA TokensCome ==
    ASSUME OfferInv, [InterruptNext]_interruptVars
    PROVE /\ \A c \in Candidate : presented'[c] # None =>
                \/ presented'[c] = presented[c]
                \/ job.step = "ack" /\ presented'[c].token = job.token
          /\ job'.step = "ack" =>
                \/ job.step = "ack" /\ job'.token = job.token
                \/ job'.token \in DOMAIN shown /\ shown[job'.token] # None
<1> USE DEF OfferInv, LedgerInv, AttentionInv
<1>1. CASE UNCHANGED <<presented, job>>
  BY <1>1
<1>2. CASE Done /\ UNCHANGED presented
  BY <1>2 DEF Done, NoJob
<1>3. ASSUME NEW step \in {"reserve", "release"}, NEW now \in Time, NEW token,
             Begin(step, now, token)
      PROVE UNCHANGED presented /\ job'.step # "ack"
  BY <1>3 DEF Begin
<1>4. ASSUME NEW p \in Proc, NEW now \in Time, NEW token \in 1 .. issued,
             Acknowledge(p, now, token)
      PROVE /\ UNCHANGED presented /\ job'.token = token
            /\ token \in DOMAIN shown /\ shown[token] # None
  BY <1>4 DEF Acknowledge, AckBegin, Begin
<1>5. CASE AckPublish
  <2>1. PICK c \in Leased :
           presented' = [presented EXCEPT ![c] = [token |-> job.token, at |-> job.now]]
    BY <1>5 DEF AckPublish
  <2>2. \A d \in Candidate : presented'[d] = presented[d] \/ presented'[d].token = job.token
    BY <2>1 DEF AttentionTypeOK
  <2>3. job.step = "ack" /\ job'.step # "ack"
    BY <1>5 DEF AckPublish, AttentionTypeOK, Jobs
  <2> QED
    BY <2>2, <2>3
<1>6. CASE Cleanup
  BY <1>1, <1>6 DEF Cleanup
<1>7. CASE ReserveNothing \/ Reserve \/ AckUnknown \/ AckSpent \/ AckUnlink \/ Release \/ Die
  BY <1>2, <1>7 DEF ReserveNothing, Reserve, AckUnknown, AckSpent, AckUnlink, Release, Die
<1>8. ASSUME NEW p \in Proc, NEW now \in Time,
             Propose(p, now) \/ HandBackBegin(p, now)
      PROVE UNCHANGED presented /\ job'.step # "ack"
  BY <1>3, <1>8 DEF Propose, HandBackBegin, ReserveBegin, ReleaseBegin
<1>9. ASSUME NEW p \in Proc, NEW now \in Time, NEW token \in 1 .. issued, GiveUp(p, now, token)
      PROVE UNCHANGED presented /\ job'.step # "ack"
  BY <1>3, <1>9 DEF GiveUp, ReleaseBegin
<1>10. ASSUME NEW p \in Proc, NEW now \in Time, AdmitEnqueue(p, now)
       PROVE UNCHANGED <<presented, job>>
  BY <1>10 DEF AdmitEnqueue, Admit, vars
<1>11. ASSUME NEW p \in Proc, Fall(p) PROVE Die \/ UNCHANGED <<presented, job>>
  BY <1>11 DEF Fall, vars
<1>12. ASSUME NEW p \in Proc,
              (\E letter \in Letters : AdmitLook(p, letter)) \/ AdmitRoom(p) \/ AdmitRecord(p)
              \/ ProposeShow(p) \/ ProposeHandBack(p) \/ AckRecord(p) \/ GiveUpRecord(p)
       PROVE UNCHANGED <<presented, job>>
  BY <1>12 DEF AdmitLook, AdmitRoom, AdmitRecord, ProposeShow, ProposeHandBack, AckRecord,
     GiveUpRecord, vars
<1>13. ASSUME NEW p \in Proc,
              ProposeNothing(p) \/ ProposeReserved(p) \/ HandBack(p) \/ AckAnswered(p)
              \/ AckPublished(p) \/ AckUnlinked(p) \/ GiveUpReleased(p)
       PROVE AckPublish \/ ReserveNothing \/ Reserve \/ AckUnknown \/ AckSpent \/ AckUnlink
             \/ Release
  BY <1>13 DEF ProposeNothing, ProposeReserved, HandBack, AckAnswered, AckPublished,
     AckUnlinked, GiveUpReleased
<1> QED
  BY <1>1, <1>4, <1>5, <1>6, <1>7, <1>8, <1>9, <1>10, <1>11, <1>12, <1>13
     DEF InterruptNext, QueueCleanup, Command, interruptVars, vars

\* A lease under a token already issued is not new.
LEMMA OldToken ==
    ASSUME LedgerInv, [Next]_vars, NEW t \in 1 .. issued, NEW c \in Candidate,
           lease'[c] # None, lease'[c].token = t
    PROVE lease[c] # None /\ lease[c].token = t
<1>1. CASE lease'[c] = lease[c]
  BY <1>1
<1>2. ASSUME NEW e \in Candidate, Unlink(e) PROVE lease'[c] = lease[c]
  BY <1>2 DEF Unlink, LedgerInv, AttentionInv, AttentionTypeOK
<1>3. CASE Reserve
  <2>1. PICK e \in Candidate : \E grant :
           grant.token = issued + 1 /\ lease' = [lease EXCEPT ![e] = grant]
    BY <1>3 DEF Reserve
  <2>2. issued \in Nat /\ t # issued + 1
    BY TokenAssumption DEF LedgerInv, AttentionInv, AttentionTypeOK
  <2> QED
    BY <1>1, <2>1, <2>2 DEF LedgerInv, AttentionInv, AttentionTypeOK
<1>4. CASE Cleanup \/ AckSpent \/ AckUnlink \/ Release
  BY <1>1, <1>2, <1>4 DEF Cleanup, AckSpent, AckUnlink, Release, Stale, Leased
<1> QED
  BY <1>1, <1>3, <1>4 DEF Next, vars, Admit, ReserveBegin, AckBegin, ReleaseBegin, Begin,
     ReserveNothing, AckUnknown, AckPublish, Die

\* A call that is at "reserved" either was there, or has just been granted a
\* token that no other lease carries.
LEMMA ReservedOwns ==
    ASSUME OfferInv, [InterruptNext]_interruptVars, NEW p \in Proc, call'[p].step = "reserved"
    PROVE Leasing(call[p].token)' \subseteq {call'[p].decision}
<1> USE DEF OfferInv
<1>1. [Next]_vars
  BY QueueStep
<1>2. CASE call'[p] = call[p]
  <2>1. call[p].token \in 1 .. issued /\ At(p, "reserved")
    BY <1>2 DEF LedgerInv, CallOK, At
  <2> QED
    BY <1>1, <1>2, <2>1, OldToken DEF TokensShown, Leasing, Leased
<1>3. CASE ProposeReserved(p)
  <2>1. PICK e \in Candidate : \E grant :
           grant.token = issued + 1 /\ lease' = [lease EXCEPT ![e] = grant]
    BY <1>3 DEF ProposeReserved, Reserve
  <2>2. \A c \in Candidate \ {e} : lease'[c] # None => lease'[c].token # issued'
    <3>1. issued' = issued + 1 /\ issued \in Nat
      BY <1>3, TokenAssumption
         DEF ProposeReserved, Reserve, LedgerInv, AttentionInv, AttentionTypeOK
    <3> QED
      BY <2>1, <3>1 DEF LedgerInv, AttentionInv, AttentionTypeOK, Leases
  <2>3. call'[p].token = issued' /\ call'[p].decision = e
    BY <1>3, <2>2 DEF ProposeReserved, Goes, LedgerInv, Idle
  <2> QED
    BY <2>2, <2>3 DEF Leasing, Leased
<1>4. call'[p] = call[p] \/ ProposeReserved(p)
  <2>1. CASE UNCHANGED call
    BY <2>1
  <2>2. ASSUME NEW q \in Proc, NEW next, Goes(q, next), next.step # "reserved"
        PROVE call'[p] = call[p]
    BY <2>2 DEF LedgerInv, Goes
  <2>3. ASSUME NEW q \in Proc, q # p, NEW next, Goes(q, next)
        PROVE call'[p] = call[p]
    BY <2>3 DEF LedgerInv, Goes
  <2>4. ASSUME NEW q \in Proc, NEW step \in CallSteps \ {"reserved"},
               Goes(q, [call[q] EXCEPT !.step = step])
        PROVE call'[p] = call[p]
    <3>1. [call[q] EXCEPT !.step = step].step = step
      BY DEF LedgerInv, Calls
    <3> QED
      BY <2>2, <2>4, <3>1
  <2>5. ASSUME NEW q \in Proc, NEW c, Acked(q, c)
        PROVE call'[p] = call[p]
    <3>1. [call[q] EXCEPT !.step = "acked", !.decision = c].step = "acked"
      BY DEF LedgerInv, Calls
    <3> QED
      BY <2>2, <2>5, <3>1 DEF Acked
  <2>6. ASSUME NEW q \in Proc, Goes(q, Idle)
        PROVE call'[p] = call[p]
    BY <2>2, <2>6 DEF Idle
  <2>7. ASSUME NEW q \in Proc, ProposeReserved(q)
        PROVE call'[p] = call[p] \/ q = p
    BY <2>3, <2>7 DEF ProposeReserved
  <2>8. ASSUME NEW q \in Proc, NEW letter \in Letters, AdmitLook(q, letter)
        PROVE call'[p] = call[p]
    BY <2>2, <2>8 DEF AdmitLook, Idle
  <2>9. ASSUME NEW q \in Proc, NEW now \in Time, NEW token \in 1 .. issued,
               Acknowledge(q, now, token) \/ GiveUp(q, now, token)
        PROVE call'[p] = call[p]
    BY <2>2, <2>9 DEF Acknowledge, GiveUp, Idle
  <2>10. ASSUME NEW q \in Proc, NEW now \in Time,
                AdmitEnqueue(q, now) \/ HandBackBegin(q, now)
         PROVE call'[p] = call[p]
    BY <2>4, <2>6, <2>10 DEF AdmitEnqueue, HandBackBegin, CallSteps, Queueing
  <2>11. ASSUME NEW q \in Proc,
                AdmitRoom(q) \/ ProposeHandBack(q) \/ GiveUpReleased(q)
                \/ AckAnswered(q) \/ AckUnlinked(q)
         PROVE call'[p] = call[p]
    BY <2>4, <2>5, <2>6, <2>11
       DEF AdmitRoom, ProposeHandBack, GiveUpReleased, AckAnswered, AckUnlinked, CallSteps
  <2>12. ASSUME NEW q \in Proc,
                AdmitRecord(q) \/ ProposeNothing(q) \/ ProposeShow(q) \/ HandBack(q)
                \/ AckRecord(q) \/ GiveUpRecord(q) \/ Fall(q)
         PROVE call'[p] = call[p]
    BY <2>6, <2>12
       DEF AdmitRecord, ProposeNothing, ProposeShow, HandBack, AckRecord, GiveUpRecord, Fall
  <2>13. ASSUME NEW q \in Proc, NEW now \in Time, Propose(q, now)
         PROVE call'[p] = call[p]
    BY <2>2, <2>13 DEF Propose, Idle
  <2> QED
    BY <2>1, <2>7, <2>8, <2>9, <2>10, <2>11, <2>12, <2>13
       DEF InterruptNext, QueueCleanup, Command, interruptVars, AckPublished
<1> QED
  BY <1>2, <1>3, <1>4

LEMMA OfferStep == OfferInv /\ [InterruptNext]_interruptVars => OfferInv'
<1> SUFFICES ASSUME OfferInv, [InterruptNext]_interruptVars PROVE TokensShown'
  BY LedgerStep DEF OfferInv
<1>1. LedgerInv /\ LedgerInv'
  BY LedgerStep DEF OfferInv
<1>2. \A c \in Presented' : shown'[presented'[c].token] # None
  <2> SUFFICES ASSUME NEW c \in Candidate, presented'[c] # None
               PROVE shown'[presented'[c].token] # None
    BY DEF Presented
  <2>1. presented'[c].token \in 1 .. MaxTokens
    BY <1>1 DEF LedgerInv, AttentionInv, AttentionTypeOK, Receipts
  <2> QED
    BY <2>1, TokensCome, ShownStays DEF OfferInv, TokensShown, Presented
<1>3. job'.step = "ack" => job'.token \in 1 .. MaxTokens /\ shown'[job'.token] # None
  BY TokensCome, ShownStays DEF OfferInv, TokensShown
<1> QED
  BY <1>2, <1>3, ShownStays, ReservedOwns DEF TokensShown, At, Leasing, Leased

\* reserve returns a letter about a decision that has its receipt only when the
\* lease under which it was reserved is gone: no correction, reservation,
\* acknowledgement or release by others makes it do so to a caller whose lease
\* stands.  A late caller may still be handed the decision a second time.
THEOREM NotOfferedUnderALease == InterruptSpec => OfferedOnce
<1>1. ASSUME OfferInv, [InterruptNext]_interruptVars, NEW t \in DOMAIN shown,
             shown[t] = None, shown'[t] # None, presented[shown'[t].decision] # None
      PROVE Leasing(t) = {}
  <2>1. PICK p \in Proc : ProposeShow(p)
    BY <1>1 DEF InterruptNext, interruptVars, QueueCleanup, Command, AdmitLook, AdmitRoom,
       AdmitEnqueue, AdmitRecord, Propose, ProposeNothing, ProposeReserved, ProposeHandBack,
       HandBackBegin, HandBack, Acknowledge, AckAnswered, AckPublished, AckUnlinked, AckRecord,
       GiveUp, GiveUpReleased, GiveUpRecord, Fall
  <2> DEFINE d == call[p].decision
  <2>2. /\ t = call[p].token /\ shown'[t] = entry[d].letter
        /\ d \in Candidate /\ entry[d] # None
    BY <1>1, <2>1 DEF ProposeShow, Waiting, OfferInv, TokensShown
  <2>3. entry[d].letter.decision = d
    BY <1>1, <2>2 DEF OfferInv, LedgerInv, EntryOK
  <2>4. d \in Presented /\ shown[presented[d].token] # None
    BY <1>1, <2>2, <2>3 DEF Presented, OfferInv, TokensShown
  <2>5. lease[d] # None => presented[d].token = lease[d].token
    BY <1>1, <2>4 DEF OfferInv, LedgerInv, AttentionInv, HistoryAccepted
  <2>6. Leasing(t) \subseteq {d}
    BY <1>1, <2>1, <2>2 DEF OfferInv, TokensShown, ProposeShow
  <2> QED
    BY <1>1, <2>4, <2>5, <2>6 DEF Leasing, Leased
<1>2. OfferInv /\ [InterruptNext]_interruptVars =>
        [\A t \in DOMAIN shown :
           shown[t] = None /\ shown'[t] # None /\ presented[shown'[t].decision] # None
              => Leasing(t) = {}]_interruptVars
  BY <1>1
<1> QED
  BY <1>2, OfferInit, OfferStep, PTL DEF InterruptSpec, OfferedOnce

-----------------------------------------------------------------------------
(* What the composition promises. *)

\* Whatever the receiver's commands do between their locks, they do to the queue
\* only what the queue's own commands do: all that is proved of HumanAttention
\* holds in its place here.
THEOREM InterruptImplementsQueue == InterruptSpec => Spec
<1>1. InterruptInit => Init
  BY DEF InterruptInit
<1>2. LedgerInv /\ [InterruptNext]_interruptVars => [Next]_vars
  BY QueueStep
<1> QED
  BY <1>1, <1>2, LedgerInvHolds, PTL DEF InterruptSpec, Spec

\* No interleaving of the receiver's commands, and no death, presents more
\* interruptions in a rolling window than the receiver's budget.
THEOREM InterruptBudget == InterruptSpec => []BudgetHolds
  BY InterruptImplementsQueue, BudgetNeverExceeded, PTL

\* The same of the queue under the receiver's commands: no lock given up in
\* between lets a lesser decision interrupt before a better one.
THEOREM InterruptBestFirst == InterruptSpec => BestGoesFirst
  BY InterruptImplementsQueue, BestFirst, PTL

\* The ledger and the scheduler never disagree about a decision's class, and no
\* entry is without a candidate, served or not.
THEOREM LedgerFollowsQueue == InterruptSpec => []CandidateBehindEntry
<1>1. LedgerInv => CandidateBehindEntry
  BY DEF LedgerInv, EntryOK, CandidateBehindEntry
<1> QED
  BY <1>1, LedgerInvHolds, PTL

\* The ledger calls nothing presented that has no receipt.
THEOREM PresentedOnReceipt == InterruptSpec => []PresentedHasReceipt
<1>1. LedgerInv => PresentedHasReceipt
  BY DEF LedgerInv, EntryOK, PresentedHasReceipt
<1> QED
  BY <1>1, LedgerInvHolds, PTL

\* _require_pending_room is a door with a gap of one section: what waits exceeds
\* MAX_PENDING_DECISIONS by less than the number of processes, never by more.
THEOREM PendingBound == InterruptSpec => []PendingAlmostBounded
<1>1. BoundInv => PendingAlmostBounded
  BY DEF BoundInv
<1> QED
  BY <1>1, BoundInit, BoundStep, PTL DEF InterruptSpec
=============================================================================
