------------------------------ MODULE Catchup ------------------------------
(***************************************************************************)
(* src/saimail/catchup.py: what a workspace owes after downtime, one queue *)
(* entry for each logical job, and the runs that work it off.              *)
(*                                                                         *)
(* Every command holds queue.lock from its read of queue.json to its write *)
(* and is one action, except plan, which holds it while it asks the        *)
(* sources (outbox, ledger, staging directories, trust) what is owed.  A   *)
(* run is a claim followed by one locked complete or park for each entry   *)
(* it claimed; between them it holds no lock and others go on.  The        *)
(* sources change by themselves at any moment, and the clock of each       *)
(* command may show any instant.                                           *)
(***************************************************************************)
EXTENDS Integers, FiniteSets

CONSTANTS Job,           \* logical jobs, ordered as their ENTRY_IDs
          Kind,          \* Kind[j]: DELIVERY, RECONCILE, RESIDUE or TRUST
          Runner,        \* processes that may execute run
          MaxLimit,      \* MAX_CLAIM_LIMIT, a bound on every --limit
          ClaimTimeout,  \* IN_FLIGHT_TIMEOUT_SECONDS
          CooldownBase, CooldownMax,
          Tried,         \* attempts an intent may show when it is first seen
          MaxAttempts,   \* bound on claims of one entry, for TLC
          Time,
          None

Kinds == {"DELIVERY", "RECONCILE", "RESIDUE", "TRUST"}

ASSUME JobAssumption ==
    Job \subseteq Nat /\ IsFiniteSet(Job) /\ Kind \in [Job -> Kinds]
ASSUME LimitAssumption ==
    MaxLimit \in Nat \ {0} /\ ClaimTimeout \in Nat \ {0} /\ MaxAttempts \in Nat
ASSUME CooldownAssumption == CooldownBase \in Nat /\ CooldownMax \in Nat
ASSUME TimeAssumption == Time \subseteq Nat /\ Tried \subseteq Nat

VARIABLES
    queue,     \* queue[j]: the entry of job j in queue.json, or None
    readable,  \* queue.json can be parsed
    source,    \* source[j]: what the component that owes j would answer
    planning,  \* the plan that holds queue.lock and what it found owed, or None
    hand,      \* hand[r]: what run r still has to settle, or None
    waived     \* jobs completed by hand while they were owed (for the properties)

vars == <<queue, readable, source, planning, hand, waived>>

Live == {"QUEUED", "IN_FLIGHT", "PARKED"}
Retired == {"DONE", "SUPERSEDED"}

\* STATE, ATTEMPTS, FIRST_OWED_AT, NEXT_ATTEMPT_AT and CLAIMED_AT.
Entries == [state : Live \cup Retired, attempts : Nat, first : Nat,
            next : Int \cup {None}, claimed : Nat \cup {None}]

\* Nothing owed; owed; settled beyond doubt (DELIVERED, a body, an index row).
Sources == {"quiet", "owed", "settled"}

Verdicts == {"none", "settled", "owed"}
Hands == [todo : SUBSET Job, ran : SUBSET Kinds, verdict : Verdicts]
Plans == [owed : SUBSET Job, now : Nat]

ASSUME NoneAssumption == None \notin Entries \cup Hands \cup Plans \cup Nat

CatchupTypeOK ==
    /\ queue \in [Job -> Entries \cup {None}]
    /\ readable \in BOOLEAN
    /\ source \in [Job -> Sources]
    /\ planning \in Plans \cup {None}
    /\ hand \in [Runner -> Hands \cup {None}]
    /\ waived \subseteq Job
    /\ \A j \in Job : queue[j] # None =>
          (queue[j].state = "IN_FLIGHT" => queue[j].claimed # None)

Init ==
    /\ queue = [j \in Job |-> None]
    /\ readable = TRUE
    /\ source = [j \in Job |-> "quiet"]
    /\ planning = None
    /\ hand = [r \in Runner |-> None]
    /\ waived = {}

-----------------------------------------------------------------------------
(* The sources *)

\* A delivery that arrived stays delivered, and an intent is never forgotten;
\* everything else may come back: an alias may change its keys again, a staging
\* directory may be left behind again.
Evolves(j, s) ==
    IF Kind[j] = "DELIVERY"
    THEN s # "quiet" /\ (source[j] = "settled" => s = "settled")
    ELSE s = "settled" => Kind[j] = "RECONCILE"

SourceChanges(j) ==
    /\ \E s \in Sources : Evolves(j, s) /\ source' = [source EXCEPT ![j] = s]
    /\ UNCHANGED <<queue, readable, planning, hand, waived>>

-----------------------------------------------------------------------------
(* plan: enumerate, observe, supersede *)

\* Nobody holds queue.lock and the queue can be read.
Open == planning = None /\ readable

Known == {j \in Job : queue[j] # None}
Alive == {j \in Known : queue[j].state \in Live}
InFlight == {j \in Known : queue[j].state = "IN_FLIGHT"}

PlanLook(now) ==
    /\ Open
    /\ planning' = [owed |-> {j \in Job : source[j] = "owed"}, now |-> now]
    /\ UNCHANGED <<queue, readable, source, hand, waived>>

\* What _owed_deliveries takes over from an intent, which is only put off after
\* a failure, and what the others start with.
Histories ==
    {h \in [state : {"QUEUED", "PARKED"}, attempts : Tried, next : Time \cup {None}] :
        h.state = "QUEUED" => h.next = None}
Fresh == [state |-> "QUEUED", attempts |-> 0, next |-> None]

NewEntry(h) == [state |-> h.state, attempts |-> h.attempts, first |-> planning.now,
                next |-> h.next, claimed |-> None]

\* Fault: observing a parked job again refreshes its history too.
ObservedAfresh(j, h) ==
    IF queue[j] = None \/ queue[j].state = "PARKED" THEN NewEntry(h) ELSE queue[j]

\* _observe: a known entry keeps its state, attempts, age and cooldown.
Observed(j, h) == IF queue[j] = None THEN NewEntry(h) ELSE queue[j]

Superseded(e) == [e EXCEPT !.state = "SUPERSEDED"]

PlanWrite ==
    /\ planning # None
    /\ \E h \in [planning.owed -> Histories] :
          /\ \A j \in planning.owed : Kind[j] # "DELIVERY" => h[j] = Fresh
          /\ queue' = [j \in Job |->
                IF j \in planning.owed THEN Observed(j, h[j])
                ELSE IF j \in Alive THEN Superseded(queue[j]) ELSE queue[j]]
    /\ planning' = None
    /\ UNCHANGED <<readable, source, hand, waived>>

\* A source refuses to answer, or the process dies.
PlanStops ==
    /\ planning # None
    /\ planning' = None
    /\ UNCHANGED <<queue, readable, source, hand, waived>>

-----------------------------------------------------------------------------
(* claim *)

\* Oldest debt first, then by ENTRY_ID.
Older(j, k) ==
    \/ queue[j].first < queue[k].first
    \/ queue[j].first = queue[k].first /\ j < k

Stale(now) == {j \in InFlight : queue[j].claimed + ClaimTimeout <= now}

\* The cooldown, if any, is over; a reaped entry competes with the others.
Due(now) == {j \in Alive : /\ j \in InFlight => j \in Stale(now)
                           /\ queue[j].next = None \/ queue[j].next <= now}

\* Fault: the limit bounds one call.
RoomPerCall(limit, now) == limit

\* Fault: the bound is tested before anything is reaped.
RoomUnreaped(limit, now) ==
    IF Cardinality(InFlight) >= limit THEN 0 ELSE limit - Cardinality(InFlight)

\* The bound is on the queue: surviving claims take their slots first.
Room(limit, now) ==
    LET held == Cardinality(InFlight \ Stale(now)) IN
    IF held >= limit THEN 0 ELSE limit - held

\* The oldest due entries, as many as there is room for.
Claimable(claimed, limit, now) ==
    /\ Cardinality(claimed) <= Room(limit, now)
    /\ Cardinality(claimed) < Room(limit, now) => claimed = Due(now)
    /\ \A j \in claimed, k \in Due(now) \ claimed : Older(j, k)

\* A crashed attempt is released, not spent twice; the claim counts.
Reaped(e) == [e EXCEPT !.state = "QUEUED", !.claimed = None]
HandedOut(e, now) ==
    [e EXCEPT !.state = "IN_FLIGHT", !.claimed = now, !.attempts = e.attempts + 1]

Claimed(claimed, limit, now) ==
    /\ Open
    /\ Claimable(claimed, limit, now)
    /\ \A j \in claimed : queue[j].attempts < MaxAttempts
    /\ queue' = [j \in Job |-> IF j \in claimed THEN HandedOut(queue[j], now)
                              ELSE IF j \in Stale(now) THEN Reaped(queue[j])
                              ELSE queue[j]]

\* catchup claim, for an agent that works the entries off itself.
Claim(limit, now) ==
    /\ \E claimed \in SUBSET Due(now) : Claimed(claimed, limit, now)
    /\ UNCHANGED <<readable, source, planning, hand, waived>>

-----------------------------------------------------------------------------
(* complete and park ask neither who claimed the entry nor what state it is in *)

\* _cooldown
Cooldown(n) ==
    LET doubled == CooldownBase * 2 ^ (IF n = 0 THEN 0 ELSE n - 1)
    IN IF doubled > CooldownMax THEN CooldownMax ELSE doubled

Finished(e) == [e EXCEPT !.state = "DONE", !.next = None, !.claimed = None]
PutOff(e, now) ==
    [e EXCEPT !.state = "PARKED", !.claimed = None, !.next = now + Cooldown(e.attempts)]

Completed(j) == Open /\ queue' = [queue EXCEPT ![j] = Finished(queue[j])]
Parked(j, now) == Open /\ queue' = [queue EXCEPT ![j] = PutOff(queue[j], now)]

Complete(j) ==
    /\ j \in Known
    /\ Completed(j)
    /\ waived' = IF source[j] = "settled" THEN waived ELSE waived \cup {j}
    /\ UNCHANGED <<readable, source, planning, hand>>

Park(j, now) ==
    /\ j \in Known
    /\ Parked(j, now)
    /\ UNCHANGED <<readable, source, planning, hand, waived>>

-----------------------------------------------------------------------------
(* run *)

Executable == {"DELIVERY", "RECONCILE"}

RunClaims(r, limit, now) ==
    /\ hand[r] = None
    /\ \E claimed \in SUBSET Due(now) :
          /\ Claimed(claimed, limit, now)
          /\ hand' = [hand EXCEPT ![r] =
                [todo |-> claimed, ran |-> {}, verdict |-> "none"]]
    /\ UNCHANGED <<readable, source, planning, waived>>

\* The entry of its claim that a run looks at next; with a torn queue it can
\* only end.
Current(r, j) ==
    /\ readable /\ hand[r] # None /\ j \in hand[r].todo
    /\ \A k \in hand[r].todo \ {j} : Older(j, k)

Settle(r, j) ==
    hand' = [hand EXCEPT ![r].todo = hand[r].todo \ {j}, ![r].verdict = "none"]

\* RESIDUE and TRUST are parked for a person.
RunParks(r, j, now) ==
    /\ Current(r, j) /\ Kind[j] \notin Executable
    /\ Parked(j, now)
    /\ Settle(r, j)
    /\ UNCHANGED <<readable, source, planning, waived>>

\* One resume_outbox or ledger.reconcile for the whole run, holding no queue
\* lock; whatever it settles, it settles in the sources.
RunExecutes(r, j) ==
    /\ Current(r, j) /\ Kind[j] \in Executable \ hand[r].ran
    /\ \E s \in [Job -> Sources] :
          /\ \A k \in Job : s[k] = source[k] \/ (Kind[k] = Kind[j] /\ Evolves(k, s[k]))
          /\ source' = s
    /\ hand' = [hand EXCEPT ![r].ran = hand[r].ran \cup {Kind[j]}]
    /\ UNCHANGED <<queue, readable, planning, waived>>

\* Fault: what was executed is taken for settled.
RunLooksHopeful(r, j) ==
    /\ Current(r, j) /\ Kind[j] \in hand[r].ran /\ hand[r].verdict = "none"
    /\ hand' = [hand EXCEPT ![r].verdict = "settled"]
    /\ UNCHANGED <<queue, readable, source, planning, waived>>

\* _still_owed
RunLooks(r, j) ==
    /\ Current(r, j) /\ Kind[j] \in hand[r].ran /\ hand[r].verdict = "none"
    /\ hand' = [hand EXCEPT ![r].verdict =
          IF source[j] = "settled" THEN "settled" ELSE "owed"]
    /\ UNCHANGED <<queue, readable, source, planning, waived>>

RunSettles(r, j, now) ==
    /\ Current(r, j) /\ hand[r].verdict # "none"
    /\ IF hand[r].verdict = "settled" THEN Completed(j) ELSE Parked(j, now)
    /\ Settle(r, j)
    /\ UNCHANGED <<readable, source, planning, waived>>

\* The run ends, by finishing, by an error or with its process.
RunEnds(r) ==
    /\ hand[r] # None
    /\ hand' = [hand EXCEPT ![r] = None]
    /\ UNCHANGED <<queue, readable, source, planning, waived>>

\* A process dies inside _write_complete, which rewrites queue.json in place:
\* the old content is gone, and every later command refuses what is there.
WriteTorn ==
    /\ readable
    /\ readable' = FALSE
    /\ queue' = [j \in Job |-> None]
    /\ planning' = None
    /\ UNCHANGED <<source, hand, waived>>

-----------------------------------------------------------------------------
Command ==
    \/ \E now \in Time : PlanLook(now)
    \/ PlanWrite
    \/ PlanStops
    \/ \E limit \in 1 .. MaxLimit, now \in Time : Claim(limit, now)
    \/ \E j \in Job : Complete(j)
    \/ \E j \in Job, now \in Time : Park(j, now)

Run(r) ==
    \/ \E limit \in 1 .. MaxLimit, now \in Time : RunClaims(r, limit, now)
    \/ \E j \in Job, now \in Time : RunParks(r, j, now) \/ RunSettles(r, j, now)
    \/ \E j \in Job : RunExecutes(r, j) \/ RunLooks(r, j)
    \/ RunEnds(r)

Next ==
    \/ Command
    \/ \E r \in Runner : Run(r)
    \/ WriteTorn
    \/ \E j \in Job : SourceChanges(j)

Spec == Init /\ [][Next]_vars

-----------------------------------------------------------------------------
(* Properties *)

\* "The bound is on the queue, not on this call": whatever is claimed, parked,
\* reaped and claimed again, by however many processes with whatever limits, no
\* more entries are in flight than the largest limit allows.
InFlightBounded == Cardinality(InFlight) <= MaxLimit

\* "Nothing is dropped", of a delivery: it leaves the queue when it arrived, not
\* because a plan, a run or a reaped run took it for settled.
DeliveriesNotDropped ==
    \A j \in Known :
        Kind[j] = "DELIVERY" /\ queue[j].state \in Retired /\ j \notin waived =>
            source[j] = "settled"

\* Observing is not attempting: entries are never removed and never rejuvenated,
\* an attempt is counted once for each claim and for nothing else, and only a
\* park or a completion moves a cooldown.
DebtHistoryKept ==
    [][readable' => \A j \in Known :
         /\ queue'[j] # None /\ queue'[j].first = queue[j].first
         /\ queue'[j].attempts # queue[j].attempts =>
               /\ queue'[j].attempts = queue[j].attempts + 1
               /\ queue'[j].state = "IN_FLIGHT"
         /\ queue'[j].next # queue[j].next => queue'[j].state \in {"PARKED", "DONE"}
                                              /\ planning = None]_vars

\* "An entry in flight is never handed out twice" before its claim has run out.
InFlightNotHandedOut ==
    [][readable' => \A j \in InFlight :
         (queue'[j].state = "IN_FLIGHT" /\ queue'[j] # queue[j]) =>
             queue'[j].claimed >= queue[j].claimed + ClaimTimeout]_vars

\* Dead runs never wedge recovery: after a claim no entry in flight is stale, and
\* a due one is left over only if the limit is reached.
ClaimsUseTheirRoom ==
    [][\A limit \in 1 .. MaxLimit, now \in Time :
         Claim(limit, now) =>
             /\ Stale(now)' = {}
             /\ Due(now)' \ InFlight' # {} => Cardinality(InFlight)' >= limit]_vars

\* "Nothing is dropped", of every kind: what a plan finds owed is in the queue
\* when it is done, unless somebody completed it by hand.
NothingDropped ==
    [][PlanWrite => planning.owed \ waived \subseteq Alive']_vars
=============================================================================
