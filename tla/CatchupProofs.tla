--------------------------- MODULE CatchupProofs ---------------------------
(***************************************************************************)
(* What catchup keeps, for every number of jobs and runs, every limit,     *)
(* timeout and cooldown, and every clock.                                  *)
(***************************************************************************)
EXTENDS Catchup, FiniteSetTheorems, TLAPS

-----------------------------------------------------------------------------
(* The operations on one entry *)

LEMMA CooldownType == ASSUME NEW n \in Nat PROVE Cooldown(n) \in Int
  BY CooldownAssumption DEF Cooldown

LEMMA NoneIsNoEntry == None \notin Entries /\ None \notin Hands /\ None \notin Plans
                       /\ None \notin Nat
  BY NoneAssumption

LEMMA SupersededEntry ==
    ASSUME NEW e \in Entries
    PROVE /\ Superseded(e) \in Entries
          /\ Superseded(e).state = "SUPERSEDED" /\ Superseded(e).first = e.first
          /\ Superseded(e).attempts = e.attempts /\ Superseded(e).next = e.next
  BY DEF Superseded, Entries, Retired

LEMMA ReapedEntry ==
    ASSUME NEW e \in Entries
    PROVE /\ Reaped(e) \in Entries
          /\ Reaped(e).state = "QUEUED" /\ Reaped(e).first = e.first
          /\ Reaped(e).attempts = e.attempts /\ Reaped(e).next = e.next
<1> DEFINE e1 == [e EXCEPT !.state = "QUEUED"]
<1> DEFINE e2 == [e1 EXCEPT !.claimed = None]
<1>1. /\ e1 \in Entries /\ e1.state = "QUEUED" /\ e1.first = e.first
      /\ e1.attempts = e.attempts /\ e1.next = e.next
  BY DEF Entries, Live
<1>2. Reaped(e) = e2
  BY DEF Reaped
<1> HIDE DEF e1
<1> QED
  BY <1>1, <1>2 DEF Entries

LEMMA HandedOutEntry ==
    ASSUME NEW e \in Entries, NEW now \in Nat
    PROVE /\ HandedOut(e, now) \in Entries
          /\ HandedOut(e, now).state = "IN_FLIGHT" /\ HandedOut(e, now).claimed = now
          /\ HandedOut(e, now).first = e.first
          /\ HandedOut(e, now).attempts = e.attempts + 1
          /\ HandedOut(e, now).next = e.next
<1> DEFINE e1 == [e EXCEPT !.state = "IN_FLIGHT"]
<1> DEFINE e2 == [e1 EXCEPT !.claimed = now]
<1> DEFINE e3 == [e2 EXCEPT !.attempts = e.attempts + 1]
<1>1. /\ e1 \in Entries /\ e1.state = "IN_FLIGHT" /\ e1.first = e.first
      /\ e1.attempts = e.attempts /\ e1.next = e.next
  BY DEF Entries, Live
<1>2. HandedOut(e, now) = e3
  BY DEF HandedOut
<1> HIDE DEF e1
<1>3. /\ e2 \in Entries /\ e2.state = "IN_FLIGHT" /\ e2.first = e.first
      /\ e2.attempts = e.attempts /\ e2.next = e.next /\ e2.claimed = now
  BY <1>1 DEF Entries
<1> HIDE DEF e2
<1>4. e.attempts + 1 \in Nat
  BY DEF Entries
<1> QED
  BY <1>2, <1>3, <1>4 DEF Entries

LEMMA FinishedEntry ==
    ASSUME NEW e \in Entries
    PROVE /\ Finished(e) \in Entries
          /\ Finished(e).state = "DONE" /\ Finished(e).first = e.first
          /\ Finished(e).attempts = e.attempts
<1> DEFINE e1 == [e EXCEPT !.state = "DONE"]
<1> DEFINE e2 == [e1 EXCEPT !.next = None]
<1> DEFINE e3 == [e2 EXCEPT !.claimed = None]
<1>1. e1 \in Entries /\ e1.state = "DONE" /\ e1.first = e.first /\ e1.attempts = e.attempts
  BY DEF Entries, Retired
<1>2. Finished(e) = e3
  BY DEF Finished
<1> HIDE DEF e1
<1>3. e2 \in Entries /\ e2.state = "DONE" /\ e2.first = e.first /\ e2.attempts = e.attempts
  BY <1>1 DEF Entries
<1> HIDE DEF e2
<1> QED
  BY <1>2, <1>3 DEF Entries

LEMMA PutOffEntry ==
    ASSUME NEW e \in Entries, NEW now \in Nat
    PROVE /\ PutOff(e, now) \in Entries
          /\ PutOff(e, now).state = "PARKED" /\ PutOff(e, now).first = e.first
          /\ PutOff(e, now).attempts = e.attempts
<1> DEFINE until == now + Cooldown(e.attempts)
<1> DEFINE e1 == [e EXCEPT !.state = "PARKED"]
<1> DEFINE e2 == [e1 EXCEPT !.claimed = None]
<1> DEFINE e3 == [e2 EXCEPT !.next = until]
<1>1. e1 \in Entries /\ e1.state = "PARKED" /\ e1.first = e.first /\ e1.attempts = e.attempts
  BY DEF Entries, Live
<1>2. until \in Int
  <2>1. e.attempts \in Nat
    BY DEF Entries
  <2> QED
    BY <2>1, CooldownType
<1>3. PutOff(e, now) = e3
  BY DEF PutOff
<1> HIDE DEF e1, until
<1>4. e2 \in Entries /\ e2.state = "PARKED" /\ e2.first = e.first /\ e2.attempts = e.attempts
  BY <1>1 DEF Entries
<1> HIDE DEF e2
<1> QED
  BY <1>2, <1>3, <1>4 DEF Entries

-----------------------------------------------------------------------------
(* The queue as sets of jobs *)

LEMMA QueueFacts ==
    ASSUME CatchupTypeOK
    PROVE /\ \A j \in Job : queue[j] # None => queue[j] \in Entries
          /\ \A j \in Known : j \in Job /\ queue[j] \in Entries
          /\ Alive \subseteq Known /\ InFlight \subseteq Alive /\ Known \subseteq Job
          /\ \A j \in InFlight : queue[j].claimed \in Nat
<1>1. \A j \in Job : queue[j] # None => queue[j] \in Entries
  BY DEF CatchupTypeOK
<1>2. Alive \subseteq Known /\ InFlight \subseteq Alive /\ Known \subseteq Job
  BY DEF Alive, Known, InFlight, Live
<1>3. \A j \in InFlight : queue[j].claimed \in Nat
  <2> SUFFICES ASSUME NEW j \in InFlight PROVE queue[j].claimed \in Nat
    OBVIOUS
  <2>1. queue[j] \in Entries /\ queue[j].claimed # None
    BY <1>1 DEF InFlight, Known, CatchupTypeOK
  <2> QED
    BY <2>1 DEF Entries
<1> QED
  BY <1>1, <1>2, <1>3 DEF Known

LEMMA InFlightFinite ==
    ASSUME NEW S \in SUBSET Job
    PROVE IsFiniteSet(S) /\ Cardinality(S) \in Nat
  BY JobAssumption, FS_Subset, FS_CardinalityType

\* Fewer entries in flight cannot break the bound.
LEMMA FewerInFlight ==
    ASSUME NEW A \in SUBSET Job, NEW B \in SUBSET A, Cardinality(A) <= MaxLimit
    PROVE Cardinality(B) <= MaxLimit
  BY InFlightFinite, FS_Subset, LimitAssumption

-----------------------------------------------------------------------------
(* What each command does to the queue *)

\* What happens to the entry of one known job.
KeepsHistory(j) ==
    /\ queue'[j] # None /\ queue'[j].first = queue[j].first
    /\ queue'[j].attempts # queue[j].attempts =>
          /\ queue'[j].attempts = queue[j].attempts + 1
          /\ queue'[j].state = "IN_FLIGHT"
    /\ queue'[j].next # queue[j].next => queue'[j].state \in {"PARKED", "DONE"}
                                         /\ planning = None

WaitsForTimeout(j) ==
    (j \in InFlight /\ queue'[j].state = "IN_FLIGHT" /\ queue'[j] # queue[j]) =>
        queue'[j].claimed >= queue[j].claimed + ClaimTimeout

\* What a step leaves of the queue.
QueueTyped ==
    /\ queue' \in [Job -> Entries \cup {None}]
    /\ \A j \in Job : queue'[j] # None =>
          (queue'[j].state = "IN_FLIGHT" => queue'[j].claimed # None)

Careful ==
    /\ QueueTyped
    /\ InFlightBounded'
    /\ readable' => \A j \in Known : KeepsHistory(j) /\ WaitsForTimeout(j)

\* Entries that no longer count as owed since this step.
Leaves(j) == /\ queue'[j] # None /\ queue'[j].state \in Retired
             /\ queue[j] # None => queue[j].state \notin Retired

LEMMA SameCareful ==
    ASSUME CatchupTypeOK, InFlightBounded, queue' = queue
    PROVE Careful /\ \A j \in Job : ~ Leaves(j)
<1>1. QueueTyped
  BY DEF QueueTyped, CatchupTypeOK
<1>2. InFlightBounded'
  BY DEF InFlightBounded, InFlight, Known
<1>3. \A j \in Known : KeepsHistory(j) /\ WaitsForTimeout(j)
  BY DEF KeepsHistory, WaitsForTimeout, Known
<1> QED
  BY <1>1, <1>2, <1>3 DEF Careful, Leaves

LEMMA CompletedCareful ==
    ASSUME CatchupTypeOK, InFlightBounded, NEW k \in Known, Completed(k)
    PROVE Careful /\ \A j \in Job : Leaves(j) => j = k
<1>1. /\ k \in Job /\ queue[k] \in Entries /\ planning = None
      /\ queue' = [queue EXCEPT ![k] = Finished(queue[k])]
      /\ queue \in [Job -> Entries \cup {None}]
  BY QueueFacts DEF Completed, Open, CatchupTypeOK
<1>2. /\ Finished(queue[k]) \in Entries /\ Finished(queue[k]) # None
      /\ Finished(queue[k]).state = "DONE"
      /\ Finished(queue[k]).first = queue[k].first
      /\ Finished(queue[k]).attempts = queue[k].attempts
  BY <1>1, FinishedEntry, NoneIsNoEntry
<1>3. \A j \in Job : queue'[j] = IF j = k THEN Finished(queue[k]) ELSE queue[j]
  BY <1>1
<1>4. QueueTyped
  BY <1>1, <1>2, <1>3 DEF QueueTyped, CatchupTypeOK
<1>5. InFlight' \subseteq InFlight
  BY <1>2, <1>3 DEF InFlight, Known
<1>6. InFlightBounded'
  BY <1>5, QueueFacts, FewerInFlight DEF InFlightBounded
<1>7. \A j \in Known : KeepsHistory(j) /\ WaitsForTimeout(j)
  BY <1>1, <1>2, <1>3 DEF KeepsHistory, WaitsForTimeout, Known
<1>8. \A j \in Job : Leaves(j) => j = k
  BY <1>3 DEF Leaves
<1> QED
  BY <1>4, <1>6, <1>7, <1>8 DEF Careful

LEMMA ParkedCareful ==
    ASSUME CatchupTypeOK, InFlightBounded, NEW k \in Known, NEW now \in Time,
           Parked(k, now)
    PROVE Careful /\ \A j \in Job : ~ Leaves(j)
<1>1. /\ k \in Job /\ queue[k] \in Entries /\ planning = None /\ now \in Nat
      /\ queue' = [queue EXCEPT ![k] = PutOff(queue[k], now)]
      /\ queue \in [Job -> Entries \cup {None}]
  BY QueueFacts, TimeAssumption DEF Parked, Open, CatchupTypeOK
<1>2. /\ PutOff(queue[k], now) \in Entries /\ PutOff(queue[k], now) # None
      /\ PutOff(queue[k], now).state = "PARKED"
      /\ PutOff(queue[k], now).first = queue[k].first
      /\ PutOff(queue[k], now).attempts = queue[k].attempts
  BY <1>1, PutOffEntry, NoneIsNoEntry
<1>3. \A j \in Job : queue'[j] = IF j = k THEN PutOff(queue[k], now) ELSE queue[j]
  BY <1>1
<1>4. QueueTyped
  BY <1>1, <1>2, <1>3 DEF QueueTyped, CatchupTypeOK
<1>5. InFlight' \subseteq InFlight
  BY <1>2, <1>3 DEF InFlight, Known
<1>6. InFlightBounded'
  BY <1>5, QueueFacts, FewerInFlight DEF InFlightBounded
<1>7. \A j \in Known : KeepsHistory(j) /\ WaitsForTimeout(j)
  BY <1>1, <1>2, <1>3 DEF KeepsHistory, WaitsForTimeout, Known
<1>8. \A j \in Job : ~ Leaves(j)
  BY <1>2, <1>3 DEF Leaves, Retired
<1> QED
  BY <1>4, <1>6, <1>7, <1>8 DEF Careful

LEMMA PlanCareful ==
    ASSUME CatchupTypeOK, InFlightBounded, PlanWrite
    PROVE /\ Careful
          /\ \A j \in Job : Leaves(j) => j \in Known \ planning.owed
          /\ Known' \subseteq Known \cup planning.owed
<1>1. planning \in Plans /\ queue \in [Job -> Entries \cup {None}]
  BY DEF PlanWrite, CatchupTypeOK
<1>2. PICK h \in [planning.owed -> Histories] :
        queue' = [j \in Job |->
           IF j \in planning.owed THEN Observed(j, h[j])
           ELSE IF j \in Alive THEN Superseded(queue[j]) ELSE queue[j]]
  BY DEF PlanWrite
<1>3. \A j \in planning.owed :
         /\ NewEntry(h[j]) \in Entries /\ NewEntry(h[j]) # None
         /\ NewEntry(h[j]).state \in {"QUEUED", "PARKED"}
  <2> SUFFICES ASSUME NEW j \in planning.owed
               PROVE /\ NewEntry(h[j]) \in Entries /\ NewEntry(h[j]) # None
                     /\ NewEntry(h[j]).state \in {"QUEUED", "PARKED"}
    OBVIOUS
  <2> DEFINE old == h[j]
  <2>1. old \in Histories
    BY <1>2
  <2> HIDE DEF old
  <2>2. /\ old.state \in {"QUEUED", "PARKED"} /\ old.attempts \in Nat
        /\ old.next \in Int \cup {None}
    <3>1. old \in [state : {"QUEUED", "PARKED"}, attempts : Tried, next : Time \cup {None}]
      BY <2>1 DEF Histories
    <3>2. /\ old.state \in {"QUEUED", "PARKED"} /\ old.attempts \in Tried
          /\ old.next \in Time \cup {None}
      BY <3>1
    <3>3. Tried \subseteq Nat /\ Time \subseteq Int
      BY TimeAssumption
    <3> QED
      BY <3>2, <3>3
  <2>3. planning.now \in Nat
    BY <1>1 DEF Plans
  <2>4. NewEntry(old) \in Entries /\ NewEntry(old).state = old.state
    BY <2>2, <2>3 DEF NewEntry, Entries, Live
  <2> QED
    BY <2>2, <2>4, NoneIsNoEntry DEF old
<1>4. \A j \in planning.owed : j \in Job
  BY <1>1 DEF Plans
<1>5. \A j \in Job : j \in planning.owed =>
         queue'[j] = IF queue[j] = None THEN NewEntry(h[j]) ELSE queue[j]
  BY <1>2 DEF Observed
<1>6. \A j \in Job : j \notin planning.owed =>
         queue'[j] = IF j \in Alive THEN Superseded(queue[j]) ELSE queue[j]
  BY <1>2
<1>7. \A j \in Alive :
         /\ Superseded(queue[j]) \in Entries /\ Superseded(queue[j]) # None
         /\ Superseded(queue[j]).state = "SUPERSEDED"
         /\ Superseded(queue[j]).first = queue[j].first
         /\ Superseded(queue[j]).attempts = queue[j].attempts
         /\ Superseded(queue[j]).next = queue[j].next
  BY QueueFacts, SupersededEntry, NoneIsNoEntry
<1>8. QueueTyped
  <2>1. \A j \in Job : queue'[j] \in Entries \cup {None}
    BY <1>1, <1>3, <1>5, <1>6, <1>7
  <2>2. queue' \in [Job -> Entries \cup {None}]
    BY <1>2, <2>1
  <2>3. \A j \in Job : queue'[j] # None =>
           (queue'[j].state = "IN_FLIGHT" => queue'[j].claimed # None)
    BY <1>3, <1>5, <1>6, <1>7 DEF CatchupTypeOK
  <2> QED
    BY <2>2, <2>3 DEF QueueTyped
<1>9. InFlight' \subseteq InFlight
  BY <1>3, <1>5, <1>6, <1>7 DEF InFlight, Known
<1>10. InFlightBounded'
  BY <1>9, QueueFacts, FewerInFlight DEF InFlightBounded
<1>11. \A j \in Known : KeepsHistory(j) /\ WaitsForTimeout(j)
  <2> SUFFICES ASSUME NEW j \in Known PROVE KeepsHistory(j) /\ WaitsForTimeout(j)
    OBVIOUS
  <2>1. CASE queue'[j] = queue[j]
    BY <2>1 DEF KeepsHistory, WaitsForTimeout, Known
  <2>2. CASE j \in Alive /\ queue'[j] = Superseded(queue[j])
    BY <2>2, <1>7 DEF KeepsHistory, WaitsForTimeout
  <2> QED
    BY <2>1, <2>2, <1>5, <1>6 DEF Known
<1>12. \A j \in Job : Leaves(j) => j \in Known \ planning.owed
  <2> SUFFICES ASSUME NEW j \in Job, Leaves(j) PROVE j \in Known \ planning.owed
    OBVIOUS
  <2>1. queue'[j] # queue[j]
    BY DEF Leaves
  <2>2. CASE j \in planning.owed
    <3>1. queue'[j].state \in {"QUEUED", "PARKED"}
      BY <2>1, <2>2, <1>3, <1>5
    <3> QED
      BY <3>1 DEF Leaves, Retired
  <2>3. CASE j \notin planning.owed
    BY <2>1, <2>3, <1>6, QueueFacts
  <2> QED
    BY <2>2, <2>3
<1>13. Known' \subseteq Known \cup planning.owed
  BY <1>6 DEF Known, Alive
<1> QED
  BY <1>8, <1>10, <1>11, <1>12, <1>13 DEF Careful

\* What a claim makes of each entry.
LEMMA ClaimedEntries ==
    ASSUME CatchupTypeOK, NEW limit \in 1 .. MaxLimit, NEW now \in Time,
           NEW claimed \in SUBSET Due(now), Claimed(claimed, limit, now)
    PROVE /\ QueueTyped
          /\ claimed \subseteq Alive /\ now \in Nat
          /\ \A j \in claimed :
                /\ queue'[j] # None /\ queue'[j].state = "IN_FLIGHT"
                /\ queue'[j].claimed = now /\ queue'[j].first = queue[j].first
                /\ queue'[j].attempts = queue[j].attempts + 1
                /\ queue'[j].next = queue[j].next
          /\ \A j \in Stale(now) \ claimed :
                /\ queue'[j] # None /\ queue'[j].state = "QUEUED"
                /\ queue'[j].first = queue[j].first
                /\ queue'[j].attempts = queue[j].attempts
                /\ queue'[j].next = queue[j].next
          /\ \A j \in Job \ (Stale(now) \cup claimed) : queue'[j] = queue[j]
<1>1. /\ claimed \subseteq Alive /\ now \in Nat /\ Stale(now) \subseteq InFlight
      /\ queue \in [Job -> Entries \cup {None}]
  BY TimeAssumption DEF Due, Stale, CatchupTypeOK
<1>2. queue' = [j \in Job |-> IF j \in claimed THEN HandedOut(queue[j], now)
                              ELSE IF j \in Stale(now) THEN Reaped(queue[j])
                              ELSE queue[j]]
  BY DEF Claimed
<1>3. \A j \in claimed :
         /\ j \in Job /\ queue'[j] = HandedOut(queue[j], now) /\ queue[j] \in Entries
  BY <1>1, <1>2, QueueFacts
<1>4. \A j \in Stale(now) \ claimed :
         /\ j \in Job /\ queue'[j] = Reaped(queue[j]) /\ queue[j] \in Entries
  BY <1>1, <1>2, QueueFacts
<1>5. \A j \in Job \ (Stale(now) \cup claimed) : queue'[j] = queue[j]
  BY <1>2
<1>6. \A j \in claimed :
         /\ queue'[j] \in Entries
         /\ queue'[j] # None /\ queue'[j].state = "IN_FLIGHT"
         /\ queue'[j].claimed = now /\ queue'[j].first = queue[j].first
         /\ queue'[j].attempts = queue[j].attempts + 1
         /\ queue'[j].next = queue[j].next
  BY <1>1, <1>3, HandedOutEntry, NoneIsNoEntry
<1>7. \A j \in Stale(now) \ claimed :
         /\ queue'[j] \in Entries
         /\ queue'[j] # None /\ queue'[j].state = "QUEUED"
         /\ queue'[j].first = queue[j].first
         /\ queue'[j].attempts = queue[j].attempts
         /\ queue'[j].next = queue[j].next
  BY <1>4, ReapedEntry, NoneIsNoEntry
<1>8. QueueTyped
  <2>1. \A j \in Job : queue'[j] \in Entries \cup {None}
    BY <1>1, <1>5, <1>6, <1>7
  <2>2. queue' \in [Job -> Entries \cup {None}]
    BY <1>2, <2>1
  <2>3. \A j \in Job : queue'[j] # None =>
           (queue'[j].state = "IN_FLIGHT" => queue'[j].claimed # None)
    BY <1>1, <1>5, <1>6, <1>7, NoneIsNoEntry DEF CatchupTypeOK
  <2> QED
    BY <2>2, <2>3 DEF QueueTyped
<1> QED
  BY <1>1, <1>5, <1>6, <1>7, <1>8

LEMMA RoomType ==
    ASSUME CatchupTypeOK, NEW limit \in 1 .. MaxLimit, NEW now \in Time
    PROVE /\ Room(limit, now) \in Nat
          /\ Cardinality(InFlight \ Stale(now)) \in Nat
          /\ Room(limit, now) = 0 \/
             Room(limit, now) + Cardinality(InFlight \ Stale(now)) = limit
<1>1. Cardinality(InFlight \ Stale(now)) \in Nat
  BY QueueFacts, InFlightFinite
<1>2. limit \in Nat
  BY LimitAssumption
<1> QED
  BY <1>1, <1>2 DEF Room

\* Who is in flight after a claim: those whose claim has not run out, and the
\* entries it handed out.
LEMMA ClaimedInFlight ==
    ASSUME CatchupTypeOK, NEW limit \in 1 .. MaxLimit, NEW now \in Time,
           NEW claimed \in SUBSET Due(now), Claimed(claimed, limit, now)
    PROVE /\ InFlight' = (InFlight \ Stale(now)) \cup claimed
          /\ (InFlight \ Stale(now)) \cap claimed = {}
          /\ Cardinality(InFlight') =
                Cardinality(InFlight \ Stale(now)) + Cardinality(claimed)
          /\ Cardinality(claimed) \in Nat /\ Cardinality(InFlight') \in Nat
<1>1. /\ claimed \subseteq Alive
      /\ \A j \in claimed : queue'[j] # None /\ queue'[j].state = "IN_FLIGHT"
      /\ \A j \in Stale(now) \ claimed : queue'[j].state = "QUEUED"
      /\ \A j \in Job \ (Stale(now) \cup claimed) : queue'[j] = queue[j]
  BY ClaimedEntries
<1>2. InFlight' = (InFlight \ Stale(now)) \cup claimed
  <2>1. \A j \in Job : j \in InFlight' <=> j \in (InFlight \ Stale(now)) \cup claimed
    BY <1>1 DEF InFlight, Known, Stale
  <2>2. InFlight' \subseteq Job /\ (InFlight \ Stale(now)) \cup claimed \subseteq Job
    BY <1>1, QueueFacts DEF InFlight, Known
  <2> QED
    BY <2>1, <2>2
<1>3. (InFlight \ Stale(now)) \cap claimed = {}
  BY DEF Due
<1>4. /\ IsFiniteSet(InFlight \ Stale(now)) /\ IsFiniteSet(claimed)
      /\ Cardinality(claimed) \in Nat /\ Cardinality(InFlight \ Stale(now)) \in Nat
  BY <1>1, QueueFacts, InFlightFinite
<1>5. Cardinality((InFlight \ Stale(now)) \cup claimed) =
         Cardinality(InFlight \ Stale(now)) + Cardinality(claimed)
  BY <1>3, <1>4, FS_Union, FS_EmptySet
<1> QED
  BY <1>2, <1>3, <1>4, <1>5

LEMMA ClaimedCareful ==
    ASSUME CatchupTypeOK, InFlightBounded,
           NEW limit \in 1 .. MaxLimit, NEW now \in Time,
           NEW claimed \in SUBSET Due(now), Claimed(claimed, limit, now)
    PROVE Careful /\ \A j \in Job : ~ Leaves(j)
<1>1. /\ claimed \subseteq Alive /\ now \in Nat /\ QueueTyped
      /\ \A j \in claimed :
                /\ queue'[j] # None /\ queue'[j].state = "IN_FLIGHT"
                /\ queue'[j].claimed = now /\ queue'[j].first = queue[j].first
                /\ queue'[j].attempts = queue[j].attempts + 1
                /\ queue'[j].next = queue[j].next
      /\ \A j \in Stale(now) \ claimed :
                /\ queue'[j] # None /\ queue'[j].state = "QUEUED"
                /\ queue'[j].first = queue[j].first
                /\ queue'[j].attempts = queue[j].attempts
                /\ queue'[j].next = queue[j].next
      /\ \A j \in Job \ (Stale(now) \cup claimed) : queue'[j] = queue[j]
  BY ClaimedEntries
<1>2. InFlightBounded'
  <2>1. Cardinality(claimed) <= Room(limit, now) /\ limit \in Nat /\ limit <= MaxLimit
    BY LimitAssumption DEF Claimed, Claimable
  <2>2. CASE Room(limit, now) = 0
    <3>1. Cardinality(InFlight') = Cardinality(InFlight \ Stale(now))
      BY <2>1, <2>2, ClaimedInFlight, RoomType
    <3>2. Cardinality(InFlight \ Stale(now)) <= MaxLimit
      BY QueueFacts, FewerInFlight DEF InFlightBounded
    <3> QED
      BY <3>1, <3>2 DEF InFlightBounded
  <2>3. CASE Room(limit, now) + Cardinality(InFlight \ Stale(now)) = limit
    <3>1. Cardinality(InFlight') <= limit
      BY <2>1, <2>3, ClaimedInFlight, RoomType
    <3>2. Cardinality(InFlight') \in Nat /\ MaxLimit \in Nat
      BY ClaimedInFlight, RoomType, LimitAssumption
    <3> QED
      BY <2>1, <3>1, <3>2 DEF InFlightBounded
  <2> QED
    BY <2>2, <2>3, RoomType
<1>3. \A j \in Known : KeepsHistory(j)
  <2> SUFFICES ASSUME NEW j \in Known PROVE KeepsHistory(j)
    OBVIOUS
  <2>1. CASE j \in claimed
    BY <2>1, <1>1 DEF KeepsHistory
  <2>2. CASE j \in Stale(now) \ claimed
    BY <2>2, <1>1 DEF KeepsHistory
  <2>3. CASE j \in Job \ (Stale(now) \cup claimed)
    BY <2>3, <1>1 DEF KeepsHistory, Known
  <2> QED
    BY <2>1, <2>2, <2>3 DEF Known
<1>4. \A j \in Known : WaitsForTimeout(j)
  <2> SUFFICES ASSUME NEW j \in InFlight, queue'[j].state = "IN_FLIGHT",
                      queue'[j] # queue[j]
               PROVE queue'[j].claimed >= queue[j].claimed + ClaimTimeout
    BY DEF WaitsForTimeout
  <2>1. j \in claimed
    BY <1>1, QueueFacts
  <2>2. queue[j].claimed + ClaimTimeout <= now
    BY <2>1 DEF Due, Stale
  <2>3. queue[j].claimed \in Nat /\ ClaimTimeout \in Nat
    BY QueueFacts, LimitAssumption
  <2> QED
    BY <1>1, <2>1, <2>2, <2>3
<1>5. \A j \in Job : ~ Leaves(j)
  <2> SUFFICES ASSUME NEW j \in Job PROVE ~ Leaves(j)
    OBVIOUS
  <2>1. CASE j \in claimed \cup Stale(now)
    BY <2>1, <1>1 DEF Leaves, Retired
  <2>2. CASE j \notin claimed \cup Stale(now)
    BY <2>2, <1>1 DEF Leaves
  <2> QED
    BY <2>1, <2>2
<1> QED
  BY <1>1, <1>2, <1>3, <1>4, <1>5 DEF Careful

LEMMA TornCareful ==
    ASSUME WriteTorn
    PROVE Careful /\ \A j \in Job : ~ Leaves(j)
<1>1. queue' = [j \in Job |-> None] /\ readable' = FALSE
  BY DEF WriteTorn
<1>2. QueueTyped
  BY <1>1 DEF QueueTyped
<1>3. InFlight' = {}
  BY <1>1 DEF InFlight, Known
<1>4. InFlightBounded'
  BY <1>3, FS_EmptySet, LimitAssumption DEF InFlightBounded
<1> QED
  BY <1>1, <1>2, <1>4 DEF Careful, Leaves

-----------------------------------------------------------------------------
(* What the steps of a run do to its hand *)

LEMMA HandFacts ==
    ASSUME CatchupTypeOK, NEW r \in Runner, hand[r] # None
    PROVE /\ hand[r] \in Hands /\ hand[r].todo \subseteq Job
          /\ hand[r].ran \subseteq Kinds /\ hand[r].verdict \in Verdicts
  BY DEF CatchupTypeOK, Hands

\* Only one run's hand changes, and only as far as it says.
HandStep(r, todo, verdict) ==
    /\ hand' \in [Runner -> Hands \cup {None}]
    /\ hand'[r] # None /\ hand'[r].todo = todo /\ hand'[r].verdict = verdict
    /\ \A q \in Runner \ {r} : hand'[q] = hand[q]

LEMMA SettleStep ==
    ASSUME CatchupTypeOK, NEW r \in Runner, hand[r] # None, NEW j \in Job, Settle(r, j)
    PROVE HandStep(r, hand[r].todo \ {j}, "none")
<1> DEFINE h0 == hand[r]
<1> DEFINE h1 == [h0 EXCEPT !.todo = h0.todo \ {j}]
<1> DEFINE h2 == [h1 EXCEPT !.verdict = "none"]
<1>1. h1 \in Hands /\ h1.todo = h0.todo \ {j}
  BY HandFacts DEF Hands
<1>2. hand' = [hand EXCEPT ![r] = h2] /\ hand \in [Runner -> Hands \cup {None}]
  BY DEF Settle, CatchupTypeOK
<1> HIDE DEF h1, h0
<1>3. h2 \in Hands /\ h2.todo = h1.todo /\ h2.verdict = "none"
  BY <1>1 DEF Hands, Verdicts
<1> HIDE DEF h2
<1> QED
  BY <1>1, <1>2, <1>3, NoneIsNoEntry DEF HandStep, h0

LEMMA ExecutesStep ==
    ASSUME CatchupTypeOK, NEW r \in Runner, NEW j \in Job, RunExecutes(r, j)
    PROVE HandStep(r, hand[r].todo, hand[r].verdict)
<1> DEFINE h0 == hand[r]
<1> DEFINE h1 == [h0 EXCEPT !.ran = h0.ran \cup {Kind[j]}]
<1>1. hand[r] # None /\ Kind[j] \in Kinds
  BY JobAssumption DEF RunExecutes, Current
<1>2. h1 \in Hands /\ h1.todo = h0.todo /\ h1.verdict = h0.verdict
  BY <1>1, HandFacts DEF Hands
<1>3. hand' = [hand EXCEPT ![r] = h1] /\ hand \in [Runner -> Hands \cup {None}]
  BY DEF RunExecutes, CatchupTypeOK
<1> HIDE DEF h1
<1> QED
  BY <1>2, <1>3, NoneIsNoEntry DEF HandStep

LEMMA LooksStep ==
    ASSUME CatchupTypeOK, NEW r \in Runner, NEW j \in Job, RunLooks(r, j)
    PROVE HandStep(r, hand[r].todo, IF source[j] = "settled" THEN "settled" ELSE "owed")
<1> DEFINE v == IF source[j] = "settled" THEN "settled" ELSE "owed"
<1> DEFINE h0 == hand[r]
<1> DEFINE h1 == [h0 EXCEPT !.verdict = v]
<1>1. hand[r] # None /\ v \in Verdicts
  BY DEF RunLooks, Current, Verdicts
<1>2. hand' = [hand EXCEPT ![r] = h1] /\ hand \in [Runner -> Hands \cup {None}]
  BY DEF RunLooks, CatchupTypeOK
<1> HIDE DEF v
<1>3. h1 \in Hands /\ h1.todo = h0.todo /\ h1.verdict = v
  BY <1>1, HandFacts DEF Hands
<1> HIDE DEF h1
<1> QED
  BY <1>2, <1>3, NoneIsNoEntry DEF HandStep, v

LEMMA ClaimsStep ==
    ASSUME CatchupTypeOK, NEW r \in Runner, NEW todo \in SUBSET Job,
           hand' = [hand EXCEPT ![r] = [todo |-> todo, ran |-> {}, verdict |-> "none"]]
    PROVE HandStep(r, todo, "none")
<1> DEFINE h == [todo |-> todo, ran |-> {}, verdict |-> "none"]
<1>1. h \in Hands /\ h.todo = todo /\ h.verdict = "none"
  BY DEF Hands, Verdicts
<1> HIDE DEF h
<1> QED
  BY <1>1, NoneIsNoEntry DEF HandStep, CatchupTypeOK, h

-----------------------------------------------------------------------------
(* The inductive invariant *)

\* A run holds entries of the queue only.
HandsKnown == readable => \A r \in Runner : hand[r] # None => hand[r].todo \subseteq Known

CInv == CatchupTypeOK /\ InFlightBounded /\ HandsKnown

LEMMA InitCInv == ASSUME Init PROVE CInv
<1>1. CatchupTypeOK
  BY DEF Init, CatchupTypeOK, Sources
<1>2. InFlight = {}
  BY DEF Init, InFlight, Known
<1>3. InFlightBounded
  BY <1>2, FS_EmptySet, LimitAssumption DEF InFlightBounded
<1>4. HandsKnown
  BY DEF Init, HandsKnown
<1> QED
  BY <1>1, <1>3, <1>4 DEF CInv

\* What every step keeps, and what a step may retire: a completed entry, or what
\* a plan did not find owed.
Retires(j) == \/ PlanWrite /\ j \in Known \ planning.owed
              \/ j \in Known /\ Complete(j)
              \/ \E r \in Runner, now \in Time :
                    RunSettles(r, j, now) /\ hand[r].verdict = "settled"

Kept == Careful /\ CatchupTypeOK' /\ HandsKnown' /\ \A j \in Job : Leaves(j) => Retires(j)

LEMMA TypedStep ==
    ASSUME Careful, readable' \in BOOLEAN, source' \in [Job -> Sources],
           planning' \in Plans \cup {None}, hand' \in [Runner -> Hands \cup {None}],
           waived' \subseteq Job
    PROVE CatchupTypeOK'
  BY DEF Careful, QueueTyped, CatchupTypeOK

\* No known entry is lost, so what a run holds stays known.
LEMMA SameHands ==
    ASSUME CInv, Careful, readable' => readable, hand' = hand
    PROVE HandsKnown'
<1> SUFFICES ASSUME readable', NEW r \in Runner, hand[r] # None
             PROVE hand[r].todo \subseteq Known'
  BY DEF HandsKnown
<1>1. Known \subseteq Known'
  BY DEF Careful, KeepsHistory, Known
<1> QED
  BY <1>1 DEF CInv, HandsKnown

LEMMA MovedHand ==
    ASSUME CInv, Careful, readable' => readable, NEW r \in Runner,
           NEW todo, NEW verdict, HandStep(r, todo, verdict), todo \subseteq Known
    PROVE HandsKnown'
<1> SUFFICES ASSUME readable', NEW q \in Runner, hand'[q] # None
             PROVE hand'[q].todo \subseteq Known'
  BY DEF HandsKnown
<1>1. Known \subseteq Known'
  BY DEF Careful, KeepsHistory, Known
<1> QED
  BY <1>1 DEF CInv, HandsKnown, HandStep

LEMMA CurrentKnown ==
    ASSUME CInv, NEW r \in Runner, NEW j, Current(r, j)
    PROVE j \in Known /\ j \in Job /\ hand[r] # None /\ hand[r].todo \subseteq Known
  BY DEF CInv, HandsKnown, Current, Known

LEMMA CommandKept == ASSUME CInv, Command PROVE Kept
<1> USE DEF CInv
<1>1. ASSUME NEW now \in Time, PlanLook(now) PROVE Kept
  <2>1. Careful /\ \A j \in Job : ~ Leaves(j)
    BY <1>1, SameCareful DEF PlanLook
  <2>2. planning' \in Plans
    BY <1>1, TimeAssumption DEF PlanLook, Plans
  <2>3. CatchupTypeOK'
    BY <1>1, <2>1, <2>2, TypedStep DEF PlanLook, CatchupTypeOK
  <2>4. HandsKnown'
    BY <1>1, <2>1, SameHands DEF PlanLook
  <2> QED
    BY <2>1, <2>3, <2>4 DEF Kept
<1>2. ASSUME PlanWrite PROVE Kept
  <2>1. Careful /\ \A j \in Job : Leaves(j) => j \in Known \ planning.owed
    BY <1>2, PlanCareful
  <2>2. CatchupTypeOK'
    BY <1>2, <2>1, TypedStep DEF PlanWrite, CatchupTypeOK
  <2>3. HandsKnown'
    BY <1>2, <2>1, SameHands DEF PlanWrite
  <2> QED
    BY <1>2, <2>1, <2>2, <2>3 DEF Kept, Retires
<1>3. ASSUME PlanStops PROVE Kept
  <2>1. Careful /\ \A j \in Job : ~ Leaves(j)
    BY <1>3, SameCareful DEF PlanStops
  <2>2. CatchupTypeOK'
    BY <1>3, <2>1, TypedStep DEF PlanStops, CatchupTypeOK
  <2>3. HandsKnown'
    BY <1>3, <2>1, SameHands DEF PlanStops
  <2> QED
    BY <2>1, <2>2, <2>3 DEF Kept
<1>4. ASSUME NEW limit \in 1 .. MaxLimit, NEW now \in Time, Claim(limit, now) PROVE Kept
  <2>1. Careful /\ \A j \in Job : ~ Leaves(j)
    BY <1>4, ClaimedCareful DEF Claim
  <2>2. CatchupTypeOK'
    BY <1>4, <2>1, TypedStep DEF Claim, CatchupTypeOK
  <2>3. HandsKnown'
    BY <1>4, <2>1, SameHands DEF Claim
  <2> QED
    BY <2>1, <2>2, <2>3 DEF Kept
<1>5. ASSUME NEW k \in Job, Complete(k) PROVE Kept
  <2>1. Careful /\ \A j \in Job : Leaves(j) => j = k
    BY <1>5, CompletedCareful DEF Complete
  <2>2. waived' \subseteq Job
    BY <1>5 DEF Complete, CatchupTypeOK
  <2>3. CatchupTypeOK'
    BY <1>5, <2>1, <2>2, TypedStep DEF Complete, CatchupTypeOK
  <2>4. HandsKnown'
    BY <1>5, <2>1, SameHands DEF Complete
  <2>5. k \in Known
    BY <1>5 DEF Complete
  <2> QED
    BY <1>5, <2>1, <2>3, <2>4, <2>5 DEF Kept, Retires
<1>6. ASSUME NEW k \in Job, NEW now \in Time, Park(k, now) PROVE Kept
  <2>1. Careful /\ \A j \in Job : ~ Leaves(j)
    BY <1>6, ParkedCareful DEF Park
  <2>2. CatchupTypeOK'
    BY <1>6, <2>1, TypedStep DEF Park, CatchupTypeOK
  <2>3. HandsKnown'
    BY <1>6, <2>1, SameHands DEF Park
  <2> QED
    BY <2>1, <2>2, <2>3 DEF Kept
<1> QED
  BY <1>1, <1>2, <1>3, <1>4, <1>5, <1>6 DEF Command

LEMMA RunKept == ASSUME CInv, NEW r \in Runner, Run(r) PROVE Kept
<1> USE DEF CInv
<1>1. ASSUME NEW limit \in 1 .. MaxLimit, NEW now \in Time, RunClaims(r, limit, now)
      PROVE Kept
  <2>1. PICK claimed \in SUBSET Due(now) :
          /\ Claimed(claimed, limit, now)
          /\ hand' = [hand EXCEPT ![r] =
                [todo |-> claimed, ran |-> {}, verdict |-> "none"]]
    BY <1>1 DEF RunClaims
  <2>2. Careful /\ \A j \in Job : ~ Leaves(j)
    BY <2>1, ClaimedCareful
  <2>3. claimed \subseteq Known
    BY QueueFacts DEF Due
  <2>4. HandStep(r, claimed, "none")
    BY <2>1, <2>3, ClaimsStep, QueueFacts
  <2>5. CatchupTypeOK'
    BY <1>1, <2>2, <2>4, TypedStep DEF RunClaims, HandStep, CatchupTypeOK
  <2>6. HandsKnown'
    BY <1>1, <2>2, <2>3, <2>4, MovedHand DEF RunClaims
  <2> QED
    BY <2>2, <2>5, <2>6 DEF Kept
<1>2. ASSUME NEW k \in Job, NEW now \in Time, RunParks(r, k, now) PROVE Kept
  <2>1. k \in Known /\ hand[r] # None /\ hand[r].todo \subseteq Known
    BY <1>2, CurrentKnown DEF RunParks
  <2>2. Careful /\ \A j \in Job : ~ Leaves(j)
    BY <1>2, <2>1, ParkedCareful DEF RunParks
  <2>3. HandStep(r, hand[r].todo \ {k}, "none")
    BY <1>2, <2>1, SettleStep DEF RunParks
  <2>4. CatchupTypeOK'
    BY <1>2, <2>2, <2>3, TypedStep DEF RunParks, HandStep, CatchupTypeOK
  <2>5. HandsKnown'
    BY <1>2, <2>1, <2>2, <2>3, MovedHand DEF RunParks
  <2> QED
    BY <2>2, <2>4, <2>5 DEF Kept
<1>3. ASSUME NEW k \in Job, NEW now \in Time, RunSettles(r, k, now) PROVE Kept
  <2>1. k \in Known /\ hand[r] # None /\ hand[r].todo \subseteq Known
    BY <1>3, CurrentKnown DEF RunSettles
  <2>2. Careful /\ \A j \in Job : Leaves(j) => j = k /\ hand[r].verdict = "settled"
    <3>1. CASE hand[r].verdict = "settled"
      BY <1>3, <2>1, <3>1, CompletedCareful DEF RunSettles
    <3>2. CASE hand[r].verdict # "settled"
      BY <1>3, <2>1, <3>2, ParkedCareful DEF RunSettles
    <3> QED
      BY <3>1, <3>2
  <2>3. HandStep(r, hand[r].todo \ {k}, "none")
    BY <1>3, <2>1, SettleStep DEF RunSettles
  <2>4. CatchupTypeOK'
    BY <1>3, <2>2, <2>3, TypedStep DEF RunSettles, HandStep, CatchupTypeOK
  <2>5. HandsKnown'
    BY <1>3, <2>1, <2>2, <2>3, MovedHand DEF RunSettles
  <2> QED
    BY <1>3, <2>2, <2>4, <2>5 DEF Kept, Retires
<1>4. ASSUME NEW k \in Job, RunExecutes(r, k) PROVE Kept
  <2>1. k \in Known /\ hand[r] # None /\ hand[r].todo \subseteq Known
    BY <1>4, CurrentKnown DEF RunExecutes
  <2>2. Careful /\ \A j \in Job : ~ Leaves(j)
    BY <1>4, SameCareful DEF RunExecutes
  <2>3. HandStep(r, hand[r].todo, hand[r].verdict)
    BY <1>4, ExecutesStep
  <2>4. source' \in [Job -> Sources]
    BY <1>4 DEF RunExecutes
  <2>5. CatchupTypeOK'
    BY <1>4, <2>2, <2>3, <2>4, TypedStep DEF RunExecutes, HandStep, CatchupTypeOK
  <2>6. HandsKnown'
    BY <1>4, <2>1, <2>2, <2>3, MovedHand DEF RunExecutes
  <2> QED
    BY <2>2, <2>5, <2>6 DEF Kept
<1>5. ASSUME NEW k \in Job, RunLooks(r, k) PROVE Kept
  <2>1. k \in Known /\ hand[r] # None /\ hand[r].todo \subseteq Known
    BY <1>5, CurrentKnown DEF RunLooks
  <2>2. Careful /\ \A j \in Job : ~ Leaves(j)
    BY <1>5, SameCareful DEF RunLooks
  <2>3. HandStep(r, hand[r].todo, IF source[k] = "settled" THEN "settled" ELSE "owed")
    BY <1>5, LooksStep
  <2>4. CatchupTypeOK'
    BY <1>5, <2>2, <2>3, TypedStep DEF RunLooks, HandStep, CatchupTypeOK
  <2>5. HandsKnown'
    BY <1>5, <2>1, <2>2, <2>3, MovedHand DEF RunLooks
  <2> QED
    BY <2>2, <2>4, <2>5 DEF Kept
<1>6. ASSUME RunEnds(r) PROVE Kept
  <2>1. Careful /\ \A j \in Job : ~ Leaves(j)
    BY <1>6, SameCareful DEF RunEnds
  <2>2. /\ hand' \in [Runner -> Hands \cup {None}]
        /\ hand'[r] = None /\ \A q \in Runner \ {r} : hand'[q] = hand[q]
    BY <1>6 DEF RunEnds, CatchupTypeOK
  <2>3. CatchupTypeOK'
    BY <1>6, <2>1, <2>2, TypedStep DEF RunEnds, CatchupTypeOK
  <2>4. HandsKnown'
    BY <1>6, <2>2 DEF RunEnds, HandsKnown, Known
  <2> QED
    BY <2>1, <2>3, <2>4 DEF Kept
<1> QED
  BY <1>1, <1>2, <1>3, <1>4, <1>5, <1>6 DEF Run

\* Every step keeps the invariant and is careful with the queue.
LEMMA StepKept == ASSUME CInv, Next PROVE Kept
<1>1. CASE Command
  BY <1>1, CommandKept
<1>2. CASE \E r \in Runner : Run(r)
  BY <1>2, RunKept
<1>3. CASE WriteTorn
  <2>1. Careful /\ \A j \in Job : ~ Leaves(j)
    BY <1>3, TornCareful
  <2>2. CatchupTypeOK'
    BY <1>3, <2>1, TypedStep DEF WriteTorn, CInv, CatchupTypeOK
  <2>3. HandsKnown'
    BY <1>3 DEF WriteTorn, HandsKnown
  <2> QED
    BY <2>1, <2>2, <2>3 DEF Kept
<1>4. ASSUME NEW k \in Job, SourceChanges(k) PROVE Kept
  <2>1. Careful /\ \A j \in Job : ~ Leaves(j)
    BY <1>4, SameCareful DEF SourceChanges, CInv
  <2>2. source' \in [Job -> Sources]
    BY <1>4 DEF SourceChanges, CInv, CatchupTypeOK
  <2>3. CatchupTypeOK'
    BY <1>4, <2>1, <2>2, TypedStep DEF SourceChanges, CInv, CatchupTypeOK
  <2>4. HandsKnown'
    BY <1>4, <2>1, SameHands DEF SourceChanges
  <2> QED
    BY <2>1, <2>3, <2>4 DEF Kept
<1> QED
  BY <1>1, <1>2, <1>3, <1>4 DEF Next

LEMMA StutterKept == ASSUME CInv, UNCHANGED vars PROVE CInv' /\ Careful
<1>1. Careful
  BY SameCareful DEF CInv, vars
<1>2. CatchupTypeOK'
  BY <1>1, TypedStep DEF CInv, CatchupTypeOK, vars
<1>3. HandsKnown'
  BY DEF CInv, HandsKnown, Known, vars
<1> QED
  BY <1>1, <1>2, <1>3 DEF CInv, Careful

LEMMA NextCInv == ASSUME CInv, [Next]_vars PROVE CInv' /\ Careful
  BY StepKept, StutterKept DEF Kept, Careful, CInv

\* Whatever commands and runs interleave, the queue holds well-formed entries,
\* and one in flight has the time of its claim.
THEOREM CatchupTyped == Spec => []CatchupTypeOK
<1>1. Init => CInv
  BY InitCInv
<1>2. CInv /\ [Next]_vars => CInv'
  BY NextCInv
<1>3. CInv => CatchupTypeOK
  BY DEF CInv
<1> QED
  BY <1>1, <1>2, <1>3, PTL DEF Spec

\* However many processes claim, with whatever limits and clocks, no more
\* entries are in flight than the largest limit allows.
THEOREM ClaimsBounded == Spec => []InFlightBounded
<1>1. Init => CInv
  BY InitCInv
<1>2. CInv /\ [Next]_vars => CInv'
  BY NextCInv
<1>3. CInv => InFlightBounded
  BY DEF CInv
<1> QED
  BY <1>1, <1>2, <1>3, PTL DEF Spec

\* No step rejuvenates a debt, counts an attempt that was no claim, or moves a
\* cooldown without a park or a completion.
THEOREM HistoryKept == Spec => DebtHistoryKept
<1> DEFINE Body == readable' => \A j \in Known :
         /\ queue'[j] # None /\ queue'[j].first = queue[j].first
         /\ queue'[j].attempts # queue[j].attempts =>
               /\ queue'[j].attempts = queue[j].attempts + 1
               /\ queue'[j].state = "IN_FLIGHT"
         /\ queue'[j].next # queue[j].next => queue'[j].state \in {"PARKED", "DONE"}
                                              /\ planning = None
<1>1. Init => CInv
  BY InitCInv
<1>2. CInv /\ [Next]_vars => CInv'
  BY NextCInv
<1>3. CInv /\ [Next]_vars => [Body]_vars
  <2> SUFFICES ASSUME CInv, [Next]_vars PROVE Body
    OBVIOUS
  <2> QED
    BY NextCInv DEF Careful, KeepsHistory
<1> QED
  BY <1>1, <1>2, <1>3, PTL DEF Spec, DebtHistoryKept

\* No entry in flight is claimed again before its claim has run out.
THEOREM ClaimsWait == Spec => InFlightNotHandedOut
<1> DEFINE Body == readable' => \A j \in InFlight :
         (queue'[j].state = "IN_FLIGHT" /\ queue'[j] # queue[j]) =>
             queue'[j].claimed >= queue[j].claimed + ClaimTimeout
<1>1. Init => CInv
  BY InitCInv
<1>2. CInv /\ [Next]_vars => CInv'
  BY NextCInv
<1>3. CInv /\ [Next]_vars => [Body]_vars
  <2> SUFFICES ASSUME CInv, [Next]_vars PROVE Body
    OBVIOUS
  <2>1. InFlight \subseteq Known
    BY DEF InFlight
  <2> QED
    BY <2>1, NextCInv DEF Careful, WaitsForTimeout
<1> QED
  BY <1>1, <1>2, <1>3, PTL DEF Spec, InFlightNotHandedOut

\* A claim leaves no stale entry in flight, and no due one unclaimed while there
\* is room.
THEOREM ClaimsFill == Spec => ClaimsUseTheirRoom
<1> DEFINE Filled(limit, now) ==
         /\ Stale(now)' = {}
         /\ Due(now)' \ InFlight' # {} => Cardinality(InFlight)' >= limit
<1> DEFINE Body == \A limit \in 1 .. MaxLimit, now \in Time :
         Claim(limit, now) =>
             /\ Stale(now)' = {}
             /\ Due(now)' \ InFlight' # {} => Cardinality(InFlight)' >= limit
<1>1. Init => CInv
  BY InitCInv
<1>2. CInv /\ [Next]_vars => CInv'
  BY NextCInv
<1>3. CInv => Body
  <2> SUFFICES ASSUME CInv, NEW limit \in 1 .. MaxLimit, NEW now \in Time,
                      Claim(limit, now)
               PROVE Filled(limit, now)
    OBVIOUS
  <2>1. PICK claimed \in SUBSET Due(now) : Claimed(claimed, limit, now)
    BY DEF Claim
  <2>2. CatchupTypeOK
    BY DEF CInv
  <2>3. /\ claimed \subseteq Alive /\ now \in Nat
        /\ \A j \in claimed : queue'[j] # None /\ queue'[j].state = "IN_FLIGHT"
                              /\ queue'[j].claimed = now
        /\ \A j \in Stale(now) \ claimed :
              /\ queue'[j] # None /\ queue'[j].state = "QUEUED"
              /\ queue'[j].next = queue[j].next
        /\ \A j \in Job \ (Stale(now) \cup claimed) : queue'[j] = queue[j]
    BY <2>1, <2>2, ClaimedEntries
  <2>4. InFlight' = (InFlight \ Stale(now)) \cup claimed
    BY <2>1, <2>2, ClaimedInFlight
  <2>5. Stale(now)' = {}
    <3> SUFFICES ASSUME NEW j \in InFlight', queue'[j].claimed + ClaimTimeout <= now
                 PROVE FALSE
      BY DEF Stale
    <3>1. CASE j \in claimed
      BY <3>1, <2>3, LimitAssumption
    <3>2. CASE j \notin claimed
      <4>1. j \in InFlight /\ j \notin Stale(now) /\ j \in Job
        BY <3>2, <2>4, QueueFacts, <2>2
      <4>2. queue'[j] = queue[j]
        BY <3>2, <4>1, <2>3
      <4> QED
        BY <4>1, <4>2 DEF Stale
    <3> QED
      BY <3>1, <3>2
  <2>6. ASSUME NEW j \in Due(now)' \ InFlight' PROVE j \in Due(now) \ claimed
    <3>1. /\ j \in Job /\ queue'[j] # None /\ queue'[j].state \in Live
          /\ queue'[j].next = None \/ queue'[j].next <= now
      BY <2>6 DEF Due, Alive, Known
    <3>2. j \notin claimed /\ j \notin InFlight \ Stale(now)
      BY <2>4, <2>6
    <3>3. CASE j \in Stale(now)
      <4>1. queue'[j].next = queue[j].next /\ j \in Alive
        BY <3>2, <3>3, <2>2, <2>3, QueueFacts DEF Stale
      <4> QED
        BY <3>1, <3>2, <3>3, <4>1 DEF Due
    <3>4. CASE j \notin Stale(now)
      <4>1. queue'[j] = queue[j]
        BY <3>1, <3>2, <3>4, <2>3
      <4> QED
        BY <3>1, <3>2, <3>4, <4>1 DEF Due, Alive, Known
    <3> QED
      BY <3>3, <3>4
  <2>7. ASSUME Due(now)' \ InFlight' # {} PROVE Cardinality(InFlight') >= limit
    <3>1. claimed # Due(now)
      BY <2>6, <2>7
    <3>2. /\ Cardinality(claimed) \in Nat /\ Room(limit, now) \in Nat
          /\ Cardinality(InFlight \ Stale(now)) \in Nat /\ limit \in Nat
          /\ Cardinality(InFlight') =
                Cardinality(InFlight \ Stale(now)) + Cardinality(claimed)
      BY <2>1, <2>2, ClaimedInFlight, RoomType, LimitAssumption
    <3>3. Cardinality(claimed) = Room(limit, now)
      BY <2>1, <3>1, <3>2 DEF Claimed, Claimable
    <3>4. Cardinality(InFlight \ Stale(now)) + Room(limit, now) >= limit
      BY <3>2 DEF Room
    <3> QED
      BY <3>2, <3>3, <3>4
  <2> QED
    BY <2>5, <2>7
<1>4. CInv /\ [Next]_vars => [Body]_vars
  BY <1>3
<1> QED
  BY <1>1, <1>2, <1>4, PTL DEF Spec, ClaimsUseTheirRoom

-----------------------------------------------------------------------------
(* No delivery is dropped *)

IsDelivery(j) == Kind[j] = "DELIVERY"

\* A delivery is in the queue, or about to be, because its intent exists.
DeliveriesAsked ==
    \A j \in Job :
        (IsDelivery(j) /\ (j \in Known \/ (planning # None /\ j \in planning.owed))) =>
            source[j] # "quiet"

\* What a plan did not find owed has arrived since.
PlanTrue ==
    planning # None =>
        readable /\ \A j \in Known \ planning.owed : IsDelivery(j) => source[j] = "settled"

\* What a run takes for settled is settled.
VerdictTrue ==
    \A r \in Runner, j \in Job :
        (Current(r, j) /\ hand[r].verdict = "settled" /\ IsDelivery(j)) =>
            source[j] = "settled"

\* Each entry that was ever retired was settled then, or completed by hand.
Arrived == \A j \in Job : (IsDelivery(j) /\ queue[j] # None /\ queue[j].state \in Retired
                           /\ j \notin waived) => source[j] = "settled"

DInv == CInv /\ DeliveriesAsked /\ PlanTrue /\ VerdictTrue /\ Arrived

\* An intent that exists never goes away, and one that arrived has arrived.
OnwardSources ==
    \A j \in Job : IsDelivery(j) => /\ source'[j] = "quiet" => source[j] = "quiet"
                                    /\ source[j] = "settled" => source'[j] = "settled"

LEMMA SourcesOnward == ASSUME CInv, [Next]_vars PROVE OnwardSources
<1>1. ASSUME NEW k \in Job, SourceChanges(k) PROVE OnwardSources
  BY <1>1 DEF SourceChanges, Evolves, OnwardSources, IsDelivery, CInv, CatchupTypeOK
<1>2. ASSUME NEW r \in Runner, NEW k \in Job, RunExecutes(r, k) PROVE OnwardSources
  BY <1>2 DEF RunExecutes, Evolves, OnwardSources, IsDelivery
<1>3. CASE source' = source
  BY <1>3 DEF OnwardSources
<1>4. ASSUME NEW r \in Runner, Run(r) PROVE OnwardSources
  BY <1>2, <1>3, <1>4 DEF Run, RunClaims, RunParks, RunSettles, RunLooks, RunEnds
<1>5. CASE Command
  BY <1>3, <1>5 DEF Command, PlanLook, PlanWrite, PlanStops, Claim, Complete, Park
<1> QED
  BY <1>1, <1>3, <1>4, <1>5 DEF Next, WriteTorn, vars

\* Plans come and go, and only one that is written adds entries.
PlanSteps ==
    \/ planning' = None /\ \/ Known' \subseteq Known
                           \/ planning # None /\ Known' \subseteq Known \cup planning.owed
    \/ planning' = planning /\ Known' \subseteq Known /\ readable' = readable
    \/ /\ planning = None /\ planning' # None /\ readable /\ readable' /\ Known' = Known
       /\ planning'.owed = {j \in Job : source[j] = "owed"} /\ source' = source

LEMMA PlanStepping == ASSUME CInv, [Next]_vars PROVE PlanSteps
<1>1. ASSUME NEW now \in Time, PlanLook(now) PROVE PlanSteps
  <2> DEFINE plan == [owed |-> {j \in Job : source[j] = "owed"}, now |-> now]
  <2>1. plan \in Plans /\ plan.owed = {j \in Job : source[j] = "owed"}
    BY TimeAssumption DEF Plans
  <2>2. planning' = plan
    BY <1>1 DEF PlanLook
  <2> HIDE DEF plan
  <2> QED
    BY <1>1, <2>1, <2>2, NoneIsNoEntry DEF PlanLook, Open, PlanSteps, Known
<1>2. CASE PlanWrite
  BY <1>2, PlanCareful DEF PlanWrite, PlanSteps, CInv
<1>3. CASE queue' = queue /\ planning' = None
  BY <1>3 DEF PlanSteps, Known
<1>4. CASE queue' = queue /\ planning' = planning /\ readable' = readable
  BY <1>4 DEF PlanSteps, Known
<1>5. ASSUME NEW limit \in 1 .. MaxLimit, NEW now \in Time,
             NEW claimed \in SUBSET Due(now), Claimed(claimed, limit, now),
             planning' = planning, readable' = readable
      PROVE PlanSteps
  <2>1. /\ claimed \subseteq Alive
        /\ \A j \in Job \ (Stale(now) \cup claimed) : queue'[j] = queue[j]
    BY <1>5, ClaimedEntries DEF CInv
  <2>2. Stale(now) \subseteq Known
    BY DEF Stale, InFlight
  <2>3. Known' \subseteq Known
    BY <2>1, <2>2 DEF Known, Alive
  <2> QED
    BY <1>5, <2>3 DEF PlanSteps
<1>6. ASSUME NEW k \in Known, NEW e, queue' = [queue EXCEPT ![k] = e],
             planning' = planning, readable' = readable
      PROVE PlanSteps
  <2>1. \A j \in Job : j # k => queue'[j] = queue[j]
    BY <1>6 DEF CInv, CatchupTypeOK
  <2>2. Known' \subseteq Known
    BY <2>1 DEF Known
  <2> QED
    BY <1>6, <2>2 DEF PlanSteps
<1>7. CASE Command
  <2>1. ASSUME NEW limit \in 1 .. MaxLimit, NEW now \in Time, Claim(limit, now)
        PROVE PlanSteps
    BY <2>1, <1>5 DEF Claim
  <2>2. ASSUME NEW j \in Job, Complete(j) PROVE PlanSteps
    BY <2>2, <1>6 DEF Complete, Completed
  <2>3. ASSUME NEW j \in Job, NEW now \in Time, Park(j, now) PROVE PlanSteps
    BY <2>3, <1>6 DEF Park, Parked
  <2>4. CASE PlanStops
    BY <2>4, <1>3 DEF PlanStops
  <2> QED
    BY <1>1, <1>2, <1>7, <2>1, <2>2, <2>3, <2>4 DEF Command
<1>8. ASSUME NEW r \in Runner, Run(r) PROVE PlanSteps
  <2>1. ASSUME NEW limit \in 1 .. MaxLimit, NEW now \in Time, RunClaims(r, limit, now)
        PROVE PlanSteps
    BY <2>1, <1>5 DEF RunClaims
  <2>2. ASSUME NEW j \in Job, NEW now \in Time, RunParks(r, j, now) PROVE PlanSteps
    <3>1. j \in Known
      BY <2>2, CurrentKnown DEF RunParks
    <3> QED
      BY <2>2, <3>1, <1>6 DEF RunParks, Parked
  <2>3. ASSUME NEW j \in Job, NEW now \in Time, RunSettles(r, j, now) PROVE PlanSteps
    <3>1. j \in Known
      BY <2>3, CurrentKnown DEF RunSettles
    <3>2. CASE Completed(j)
      BY <2>3, <3>1, <3>2, <1>6 DEF RunSettles, Completed
    <3>3. CASE Parked(j, now)
      BY <2>3, <3>1, <3>3, <1>6 DEF RunSettles, Parked
    <3> QED
      BY <2>3, <3>2, <3>3 DEF RunSettles
  <2>4. ASSUME NEW j \in Job, RunExecutes(r, j) \/ RunLooks(r, j) PROVE PlanSteps
    BY <2>4, <1>4 DEF RunExecutes, RunLooks
  <2>5. CASE RunEnds(r)
    BY <2>5, <1>4 DEF RunEnds
  <2> QED
    BY <1>8, <2>1, <2>2, <2>3, <2>4, <2>5 DEF Run
<1>9. CASE WriteTorn
  <2>1. Known' = {} /\ planning' = None
    BY <1>9 DEF WriteTorn, Known
  <2> QED
    BY <2>1 DEF PlanSteps
<1>10. ASSUME NEW k \in Job, SourceChanges(k) PROVE PlanSteps
  BY <1>10, <1>4 DEF SourceChanges
<1>11. CASE UNCHANGED vars
  BY <1>11, <1>4 DEF vars
<1> QED
  BY <1>7, <1>8, <1>9, <1>10, <1>11 DEF Next

\* The entry a run looks at is the one it looked at before: ages do not change.
LEMMA CurrentSame ==
    ASSUME CInv, Careful, readable, readable', NEW r \in Runner, NEW j,
           hand[r] # None, hand'[r] # None, hand'[r].todo = hand[r].todo, Current(r, j)'
    PROVE Current(r, j)
<1>1. hand[r].todo \subseteq Known
  BY DEF CInv, HandsKnown
<1>2. \A k \in hand[r].todo : queue'[k].first = queue[k].first
  BY <1>1 DEF Careful, KeepsHistory
<1>3. j \in hand[r].todo /\ \A k \in hand[r].todo \ {j} : Older(j, k)'
  BY DEF Current
<1>4. \A k \in hand[r].todo \ {j} : Older(j, k)
  BY <1>2, <1>3 DEF Older
<1> QED
  BY <1>3, <1>4 DEF Current

\* A run looks at one entry at a time.
LEMMA CurrentUnique ==
    ASSUME CInv, NEW r \in Runner, NEW j, NEW k, Current(r, j), Current(r, k)
    PROVE j = k
<1>1. /\ j \in Known /\ k \in Known /\ j \in hand[r].todo /\ k \in hand[r].todo
  BY CurrentKnown DEF Current
<1>2. j \in Nat /\ k \in Nat
  BY <1>1, JobAssumption DEF Known
<1>3. queue[j].first \in Nat /\ queue[k].first \in Nat
  BY <1>1, QueueFacts DEF CInv, Entries
<1>4. j # k => Older(j, k) /\ Older(k, j)
  BY <1>1 DEF Current
<1> QED
  BY <1>2, <1>3, <1>4 DEF Older

LEMMA SameVerdicts ==
    ASSUME DInv, [Next]_vars, readable' => readable, NEW q \in Runner, hand'[q] = hand[q],
           NEW j \in Job, Current(q, j)', hand'[q].verdict = "settled", IsDelivery(j)
    PROVE source'[j] = "settled"
<1>1. CInv /\ Careful /\ OnwardSources
  BY NextCInv, SourcesOnward DEF DInv
<1>2. readable /\ readable' /\ hand[q] # None
  BY DEF Current
<1>3. Current(q, j)
  BY <1>1, <1>2, CurrentSame
<1> QED
  BY <1>1, <1>3 DEF DInv, VerdictTrue, OnwardSources

LEMMA MovedVerdicts ==
    ASSUME DInv, Next, readable' => readable, NEW r \in Runner, NEW todo, NEW verdict,
           HandStep(r, todo, verdict), verdict # "settled"
    PROVE VerdictTrue'
<1> SUFFICES ASSUME NEW q \in Runner, NEW j \in Job, Current(q, j)',
                    hand'[q].verdict = "settled", IsDelivery(j)
             PROVE source'[j] = "settled"
  BY DEF VerdictTrue, IsDelivery
<1>1. q # r
  BY DEF HandStep
<1> QED
  BY <1>1, SameVerdicts DEF HandStep

LEMMA RunVerdicts == ASSUME DInv, Next, NEW r \in Runner, Run(r) PROVE VerdictTrue'
<1>1. CatchupTypeOK /\ CInv
  BY DEF DInv, CInv
<1>2. ASSUME NEW limit \in 1 .. MaxLimit, NEW now \in Time, RunClaims(r, limit, now)
      PROVE VerdictTrue'
  <2>1. PICK claimed \in SUBSET Due(now) :
          hand' = [hand EXCEPT ![r] = [todo |-> claimed, ran |-> {}, verdict |-> "none"]]
    BY <1>2 DEF RunClaims
  <2>2. HandStep(r, claimed, "none")
    BY <1>1, <2>1, ClaimsStep, QueueFacts DEF Due
  <2> QED
    BY <1>2, <2>2, MovedVerdicts DEF RunClaims
<1>3. ASSUME NEW k \in Job, Settle(r, k), hand[r] # None, readable' = readable
      PROVE VerdictTrue'
  BY <1>1, <1>3, SettleStep, MovedVerdicts
<1>4. ASSUME NEW k \in Job, RunExecutes(r, k) PROVE VerdictTrue'
  <2> SUFFICES ASSUME NEW q \in Runner, NEW j \in Job, Current(q, j)',
                      hand'[q].verdict = "settled", IsDelivery(j)
               PROVE source'[j] = "settled"
    BY DEF VerdictTrue, IsDelivery
  <2>1. HandStep(r, hand[r].todo, hand[r].verdict) /\ hand[r] # None
        /\ readable' = readable /\ readable
    BY <1>1, <1>4, ExecutesStep DEF RunExecutes, Current
  <2>2. CASE q = r
    <3>1. Careful /\ OnwardSources
      BY <1>1, NextCInv, SourcesOnward
    <3>2. Current(r, j)
      BY <1>1, <2>1, <2>2, <3>1, CurrentSame DEF HandStep
    <3>3. hand[r].verdict = "settled"
      BY <2>1, <2>2 DEF HandStep
    <3> QED
      BY <3>1, <3>2, <3>3 DEF DInv, VerdictTrue, OnwardSources
  <2>3. CASE q # r
    BY <2>1, <2>3, SameVerdicts DEF HandStep
  <2> QED
    BY <2>2, <2>3
<1>5. ASSUME NEW k \in Job, RunLooks(r, k) PROVE VerdictTrue'
  <2> SUFFICES ASSUME NEW q \in Runner, NEW j \in Job, Current(q, j)',
                      hand'[q].verdict = "settled", IsDelivery(j)
               PROVE source'[j] = "settled"
    BY DEF VerdictTrue, IsDelivery
  <2>1. /\ HandStep(r, hand[r].todo, IF source[k] = "settled" THEN "settled" ELSE "owed")
        /\ Current(r, k) /\ hand[r] # None
        /\ readable' = readable /\ readable /\ source' = source
    BY <1>1, <1>5, LooksStep DEF RunLooks, Current
  <2>2. CASE q = r
    <3>1. Careful
      BY <1>1, NextCInv
    <3>2. Current(r, j)
      BY <1>1, <2>1, <2>2, <3>1, CurrentSame DEF HandStep
    <3>3. j = k
      BY <1>1, <2>1, <3>2, CurrentUnique
    <3> QED
      BY <2>1, <2>2, <3>3 DEF HandStep
  <2>3. CASE q # r
    BY <2>1, <2>3, SameVerdicts DEF HandStep
  <2> QED
    BY <2>2, <2>3
<1>6. CASE RunEnds(r)
  <2> SUFFICES ASSUME NEW q \in Runner, NEW j \in Job, Current(q, j)',
                      hand'[q].verdict = "settled", IsDelivery(j)
               PROVE source'[j] = "settled"
    BY DEF VerdictTrue, IsDelivery
  <2>1. hand'[q] # None
    BY DEF Current
  <2>2. q # r /\ hand'[q] = hand[q] /\ readable' = readable
    BY <1>1, <1>6, <2>1 DEF RunEnds, CatchupTypeOK
  <2> QED
    BY <2>2, SameVerdicts
<1> QED
  BY <1>2, <1>3, <1>4, <1>5, <1>6
  DEF Run, RunParks, RunSettles, Current

LEMMA NextVerdicts == ASSUME DInv, [Next]_vars PROVE VerdictTrue'
<1>1. ASSUME hand' = hand, readable' => readable PROVE VerdictTrue'
  BY <1>1, SameVerdicts DEF VerdictTrue, IsDelivery
<1>2. CASE Command
  BY <1>1, <1>2 DEF Command, PlanLook, PlanWrite, PlanStops, Claim, Complete, Park
<1>3. ASSUME NEW r \in Runner, Run(r) PROVE VerdictTrue'
  <2>1. Next
    BY <1>3 DEF Next
  <2> QED
    BY <1>3, <2>1, RunVerdicts
<1>4. CASE UNCHANGED vars \/ WriteTorn \/ \E k \in Job : SourceChanges(k)
  BY <1>1, <1>4 DEF vars, WriteTorn, SourceChanges
<1> QED
  BY <1>2, <1>3, <1>4 DEF Next

LEMMA NextPlans == ASSUME DInv, [Next]_vars PROVE DeliveriesAsked' /\ PlanTrue'
<1>1. PlanSteps /\ OnwardSources
  BY PlanStepping, SourcesOnward DEF DInv
<1>2. /\ source' \in [Job -> Sources] /\ source \in [Job -> Sources]
      /\ planning \in Plans \cup {None} /\ planning' \in Plans \cup {None}
  BY NextCInv DEF DInv, CInv, CatchupTypeOK
<1>3. DeliveriesAsked'
  <2> SUFFICES ASSUME NEW j \in Job, IsDelivery(j),
                      j \in Known' \/ (planning' # None /\ j \in planning'.owed)
               PROVE source'[j] # "quiet"
    BY DEF DeliveriesAsked, IsDelivery
  <2>1. CASE j \in Known \/ (planning # None /\ j \in planning.owed)
    BY <2>1, <1>1 DEF DInv, DeliveriesAsked, OnwardSources
  <2>2. CASE source'[j] = "owed"
    BY <2>2
  <2> QED
    BY <1>1, <2>1, <2>2 DEF PlanSteps
<1>4. PlanTrue'
  <2> SUFFICES ASSUME planning' # None
               PROVE /\ readable'
                     /\ \A j \in Known' \ planning'.owed :
                           IsDelivery(j) => source'[j] = "settled"
    BY DEF PlanTrue, IsDelivery
  <2>1. CASE planning' = planning /\ Known' \subseteq Known /\ readable' = readable
    BY <2>1, <1>1 DEF DInv, PlanTrue, OnwardSources, Known
  <2>2. CASE /\ readable' /\ Known' = Known /\ source' = source
             /\ planning'.owed = {j \in Job : source[j] = "owed"}
    <3> SUFFICES ASSUME NEW j \in Known \ planning'.owed, IsDelivery(j)
                 PROVE source[j] = "settled"
      BY <2>2
    <3>1. j \in Job /\ source[j] # "owed" /\ source[j] # "quiet"
      BY <2>2 DEF DInv, DeliveriesAsked, Known
    <3> QED
      BY <1>2, <3>1 DEF Sources
  <2> QED
    BY <1>1, <2>1, <2>2 DEF PlanSteps
<1> QED
  BY <1>3, <1>4

LEMMA NextArrived == ASSUME DInv, [Next]_vars PROVE Arrived'
<1>1. OnwardSources
  BY SourcesOnward DEF DInv
<1>2. waived \subseteq waived'
  <2>1. ASSUME NEW r \in Runner, Run(r) PROVE waived' = waived
    BY <2>1 DEF Run, RunClaims, RunParks, RunSettles, RunLooks, RunExecutes, RunEnds
  <2>2. CASE Command
    BY <2>2 DEF Command, PlanLook, PlanWrite, PlanStops, Claim, Complete, Park
  <2> QED
    BY <2>1, <2>2 DEF Next, WriteTorn, SourceChanges, vars
<1>3. \A j \in Job : Leaves(j) => Retires(j) /\ Next
  <2>1. CASE Next
    BY <2>1, StepKept DEF Kept, DInv
  <2>2. CASE UNCHANGED vars
    BY <2>2, SameCareful DEF vars, DInv, CInv
  <2> QED
    BY <2>1, <2>2
<1> SUFFICES ASSUME NEW j \in Job, IsDelivery(j), queue'[j] # None,
                    queue'[j].state \in Retired, j \notin waived'
             PROVE source'[j] = "settled"
  BY DEF Arrived, IsDelivery
<1>4. CASE ~ Leaves(j)
  <2>1. queue[j] # None /\ queue[j].state \in Retired
    BY <1>4 DEF Leaves
  <2> QED
    BY <1>1, <1>2, <2>1 DEF DInv, Arrived, OnwardSources
<1>5. CASE Leaves(j)
  <2>1. CASE PlanWrite /\ j \in Known \ planning.owed
    BY <1>1, <2>1 DEF PlanWrite, DInv, PlanTrue, OnwardSources
  <2>2. CASE Complete(j)
    BY <2>2 DEF Complete
  <2>3. ASSUME NEW r \in Runner, NEW now \in Time, RunSettles(r, j, now),
               hand[r].verdict = "settled"
        PROVE source'[j] = "settled"
    BY <1>1, <2>3 DEF RunSettles, DInv, VerdictTrue, OnwardSources
  <2> QED
    BY <1>3, <1>5, <2>1, <2>2, <2>3 DEF Retires
<1> QED
  BY <1>4, <1>5

\* A delivery leaves the queue only because it arrived, or by a hand that says
\* so: no plan, run or reaped run ever takes an undelivered message for settled.
THEOREM NoDeliveryDropped == Spec => []DeliveriesNotDropped
<1>1. Init => DInv
  <2> SUFFICES ASSUME Init PROVE DInv
    OBVIOUS
  <2>1. CInv
    BY InitCInv
  <2>2. DeliveriesAsked /\ PlanTrue /\ VerdictTrue /\ Arrived
    BY DEF Init, DeliveriesAsked, PlanTrue, VerdictTrue, Arrived, Current, Known
  <2> QED
    BY <2>1, <2>2 DEF DInv
<1>2. DInv /\ [Next]_vars => DInv'
  <2> SUFFICES ASSUME DInv, [Next]_vars PROVE DInv'
    OBVIOUS
  <2>1. CInv'
    BY NextCInv DEF DInv
  <2> QED
    BY <2>1, NextPlans, NextVerdicts, NextArrived DEF DInv
<1>3. DInv => DeliveriesNotDropped
  BY DEF DInv, Arrived, IsDelivery, DeliveriesNotDropped, Known
<1> QED
  BY <1>1, <1>2, <1>3, PTL DEF Spec
=============================================================================
