---------------------------- MODULE TrustProofs ----------------------------
(***************************************************************************)
(* Proofs about Trust, for every set of aliases, identities, seats and     *)
(* processes and for every bound: the registry the commands write is one   *)
(* they read back, refusals are final, keys move by signature only, and    *)
(* no whole-file rewrite undoes another command.                           *)
(*                                                                         *)
(* The argument is about the drafts.  The holder of a registry's lock has  *)
(* read the registry and computed the whole new one; nobody else may write *)
(* it before the holder does (Exclusive), so the draft still differs from  *)
(* the file in the entry the command names and nowhere else (DraftOK).     *)
(***************************************************************************)
EXTENDS Trust, TLAPS

\* What _check_record requires, with the signed rotations as a parameter; a
\* sighting moreover has no rotations.
Good(r, signed) ==
    /\ TargetKept(r) /\ Anchored(r) /\ Continuous(r)
    /\ \A n \in 1 .. Len(r.rotations) : r.rotations[n] \in signed
    /\ r.state = "OBSERVED" => r.rotations = <<>>

\* What a command may turn pin r into.
Kept(r, s, signed) ==
    /\ (r # None /\ r.state \in Refused) => (s # None /\ s.state \in Refused)
    /\ (r # None /\ r.state # "OBSERVED") =>
          /\ s # None
          /\ s.id # r.id => /\ <<r.id, s.id>> \in signed
                            /\ r.state = "ROTATION_PENDING" => s.id = r.pending

GoodPins(pins, signed) == \A a \in Alias : pins[a] # None => Good(pins[a], signed)

PeersDraft(j) == \A a \in Alias :
    /\ a # j.entry => j.write[a] = peers[a]
    /\ peers[a] # None => j.write[a] = peers[a]
RollDraft(j) == \A s \in Seat :
    /\ s # j.entry => j.write[s] = participants[s]
    /\ participants[s] # None => j.write[s] \in {None, participants[s]}
TrustDraft(j) ==
    /\ j.entry # None => j.write.mode = registry.mode
    /\ \A a \in Alias : a # j.entry => j.write.pins[a] = registry.pins[a]
    /\ GoodPins(j.write.pins, receipts)
    /\ \A a \in Alias : Kept(registry.pins[a], j.write.pins[a], receipts)
DraftOK(j) ==
    /\ j.step = "register" => PeersDraft(j)
    /\ j.step = "enlist" => RollDraft(j)
    /\ j.step = "save" => TrustDraft(j)
    /\ j.step = "notify" => j.entry \in Alias
    /\ j.step \in Routes => j.sealed \in Identity

Locks == {"register", "save", "enlist"}
Exclusive ==
    \A p, q \in Proc : job[p].step \in Locks /\ job[p].step = job[q].step => p = q

IInv ==
    /\ TrustTypeOK
    /\ GoodPins(registry.pins, receipts)
    /\ \A p \in Proc : DraftOK(job[p])
    /\ Exclusive

-----------------------------------------------------------------------------
(* Facts about pins *)

LEMMA NewPinGood ==
    ASSUME NEW i \in Identity, NEW state \in States \ {"ROTATION_PENDING"}, NEW S
    PROVE  NewPin(state, i) \in Pins /\ Good(NewPin(state, i), S)
  <1> DEFINE r == NewPin(state, i)
  <1>1. r \in Pins
    BY DEF NewPin, Pins, States
  <1>2. r.rotations = <<>> /\ Len(r.rotations) = 0 /\ r.id = r.origin /\ r.pending = None
        /\ r.state = state
    BY DEF NewPin
  <1>3. TargetKept(r) /\ Anchored(r)
    BY <1>2 DEF TargetKept, Anchored
  <1>4. Continuous(r)
    BY <1>2 DEF Continuous
  <1>. QED
    BY <1>1, <1>2, <1>3, <1>4 DEF Good

LEMMA RefusedGood ==
    ASSUME NEW r \in Pins, NEW state \in Refused, NEW S, Good(r, S)
    PROVE  /\ AsRefused(r, state) \in Pins
           /\ Good(AsRefused(r, state), S)
           /\ Kept(r, AsRefused(r, state), S)
  <1> DEFINE s == AsRefused(r, state)
  <1>1. s \in Pins /\ s.state = state /\ s.pending = None /\ s.id = r.id
        /\ s.origin = r.origin /\ s.rotations = r.rotations
    BY DEF AsRefused, Pins, Refused, States, Blocking
  <1>2. s # None
    BY <1>1, NoneAssumption
  <1>3. TargetKept(s)
    BY <1>1 DEF TargetKept, Refused
  <1>4. Anchored(s) /\ Continuous(s)
    BY <1>1 DEF Good, Anchored, Continuous
  <1>5. state # "OBSERVED"
    BY DEF Refused
  <1>6. Good(s, S)
    BY <1>1, <1>3, <1>4, <1>5 DEF Good
  <1>. QED
    BY <1>1, <1>2, <1>6 DEF Kept

LEMMA ExpectedGood ==
    ASSUME NEW r \in Pins, NEW i \in Identity, NEW S, Good(r, S), r.state \notin Refused,
           i # r.id
    PROVE  LET s == [r EXCEPT !.state = "ROTATION_PENDING", !.pending = i]
           IN s \in Pins /\ Good(s, S) /\ Kept(r, s, S)
  <1> DEFINE s == [r EXCEPT !.state = "ROTATION_PENDING", !.pending = i]
  <1>1. s \in Pins /\ s.state = "ROTATION_PENDING" /\ s.pending = i /\ s.id = r.id
        /\ s.origin = r.origin /\ s.rotations = r.rotations
    BY DEF Pins, States, Blocking
  <1>2. s # None
    BY <1>1, NoneAssumption
  <1>3. TargetKept(s)
    BY <1>1, EntryAssumption DEF TargetKept
  <1>4. Anchored(s) /\ Continuous(s)
    BY <1>1 DEF Good, Anchored, Continuous
  <1>5. Good(s, S)
    BY <1>1, <1>3, <1>4 DEF Good
  <1>. QED
    BY <1>1, <1>2, <1>5 DEF Kept

LEMMA RotatedGood ==
    ASSUME NEW r \in Pins, NEW S, Good(r, S), r.state \notin Refused,
           NEW rotation \in Rotations, rotation \in S, rotation[1] = r.id,
           r.state = "ROTATION_PENDING" => rotation[2] = r.pending
    PROVE  LET s == Rotated(r, rotation[2])
           IN s \in Pins /\ Good(s, S) /\ Kept(r, s, S)
  <1> DEFINE s == Rotated(r, rotation[2])
             n == Len(r.rotations)
  <1>1. rotation[2] \in Identity /\ rotation = <<r.id, rotation[2]>>
    BY DEF Rotations
  <1>2. r.rotations \in Seq(Rotations) /\ n \in Nat
    BY DEF Pins
  <1>3. /\ s.rotations = Append(r.rotations, rotation)
        /\ s.state = "TRUSTED" /\ s.pending = None /\ s.id = rotation[2] /\ s.origin = r.origin
    BY <1>1 DEF Rotated, Pins
  <1>4. /\ s.rotations \in Seq(Rotations) /\ Len(s.rotations) = n + 1
        /\ \A m \in 1 .. n : s.rotations[m] = r.rotations[m]
        /\ s.rotations[n + 1] = rotation
    BY <1>2, <1>3
  <1>5. s \in Pins
    BY <1>1, <1>3, <1>4 DEF Pins, States, Rotated
  <1>6. s # None
    BY <1>5, NoneAssumption
  <1>7. TargetKept(s)
    BY <1>3 DEF TargetKept
  <1>8. s.rotations # <<>> /\ s.rotations[Len(s.rotations)][2] = s.id
    BY <1>2, <1>3, <1>4
  <1>9. s.rotations[1][1] = s.origin
    <2>1. CASE n = 0
      <3>1. r.rotations = <<>>
        BY <2>1, <1>2
      <3>. QED
        BY <2>1, <3>1, <1>3, <1>4 DEF Good, Anchored
    <2>2. CASE n # 0
      <3>1. r.rotations # <<>> /\ 1 \in 1 .. n
        BY <2>2, <1>2
      <3>. QED
        BY <3>1, <1>3, <1>4 DEF Good, Anchored
    <2>. QED
      BY <2>1, <2>2
  <1>10. Anchored(s)
    BY <1>8, <1>9 DEF Anchored
  <1>11. ASSUME NEW m \in 1 .. Len(s.rotations) - 1
         PROVE  s.rotations[m][2] = s.rotations[m + 1][1]
    <2>1. CASE m = n
      <3>1. r.rotations # <<>> /\ m \in 1 .. n
        BY <1>2, <1>4, <1>11, <2>1
      <3>2. r.rotations[n][2] = r.id
        BY <3>1 DEF Good, Anchored
      <3>. QED
        BY <2>1, <3>1, <3>2, <1>4
    <2>2. CASE m # n
      <3>1. m \in 1 .. n - 1 /\ m \in 1 .. n /\ m + 1 \in 1 .. n
        BY <1>2, <1>4, <1>11, <2>2
      <3>. QED
        BY <3>1, <1>4 DEF Good, Continuous
    <2>. QED
      BY <2>1, <2>2
  <1>12. Continuous(s)
    BY <1>11 DEF Continuous
  <1>13. \A m \in 1 .. Len(s.rotations) : s.rotations[m] \in S
    <2> SUFFICES ASSUME NEW m \in 1 .. n + 1 PROVE s.rotations[m] \in S
      BY <1>4
    <2>1. m \in 1 .. n \/ m = n + 1
      BY <1>2
    <2>. QED
      BY <2>1, <1>4 DEF Good
  <1>14. Good(s, S)
    BY <1>3, <1>7, <1>10, <1>12, <1>13 DEF Good
  <1>15. Kept(r, s, S)
    BY <1>1, <1>3, <1>6 DEF Kept
  <1>. QED
    BY <1>5, <1>14, <1>15

\* Signatures are never withdrawn.
LEMMA GoodGrows ==
    ASSUME NEW r, NEW S, NEW T, S \subseteq T, Good(r, S)
    PROVE  Good(r, T)
  BY DEF Good

LEMMA KeptGrows ==
    ASSUME NEW r, NEW s, NEW S, NEW T, S \subseteq T, Kept(r, s, S)
    PROVE  Kept(r, s, T)
  BY DEF Kept

LEMMA KeptSame ==
    ASSUME NEW r, NEW S PROVE Kept(r, r, S)
  BY DEF Kept

LEMMA PinsGrow ==
    ASSUME NEW pins, NEW S, NEW T, S \subseteq T, GoodPins(pins, S)
    PROVE  GoodPins(pins, T)
  BY GoodGrows DEF GoodPins

LEMMA ReadableWhenGood ==
    ASSUME GoodPins(registry.pins, receipts) PROVE Readable
  BY DEF GoodPins, Good, Readable, CheckRecord, Signed

-----------------------------------------------------------------------------
(* Steps *)

LEMMA IdleJob == Idle.step = "idle" /\ Idle \in Jobs("idle") /\ DraftOK(Idle)
  <1>1. Idle.step = "idle"
    BY DEF Idle
  <1>2. Drafts("idle") = {None}
    BY DEF Drafts
  <1>3. Idle \in Jobs("idle")
    BY <1>2 DEF Idle, Jobs
  <1>4. DraftOK(Idle)
    BY <1>1 DEF DraftOK, Routes
  <1>. QED
    BY <1>1, <1>3, <1>4

LEMMA DraftStays ==
    ASSUME NEW j, DraftOK(j), UNCHANGED books, receipts \subseteq receipts'
    PROVE  DraftOK(j)'
  <1>1. peers' = peers /\ registry' = registry /\ participants' = participants
    BY DEF books
  <1>2. j.step = "register" => PeersDraft(j)'
    BY <1>1 DEF DraftOK, PeersDraft
  <1>3. j.step = "enlist" => RollDraft(j)'
    BY <1>1 DEF DraftOK, RollDraft
  <1>4. ASSUME j.step = "save" PROVE TrustDraft(j)'
    <2>1. TrustDraft(j)
      BY <1>4 DEF DraftOK
    <2>2. GoodPins(j.write.pins, receipts')
      BY <2>1, PinsGrow DEF TrustDraft
    <2>3. \A a \in Alias : Kept(registry.pins[a], j.write.pins[a], receipts')
      BY <2>1, KeptGrows DEF TrustDraft
    <2>. QED
      BY <1>1, <2>1, <2>2, <2>3 DEF TrustDraft
  <1>. QED
    BY <1>2, <1>3, <1>4 DEF DraftOK

\* A step of p that leaves the registries alone.
LEMMA JobStep ==
    ASSUME IInv, NEW p \in Proc, NEW k,
           UNCHANGED <<books, world>>, copies' \subseteq Identity,
           job' = [job EXCEPT ![p] = k],
           k.step \in Steps, k \in Jobs(k.step), DraftOK(k),
           k.step \in Locks => Unlocked(k.step)
    PROVE  IInv'
  <1>. USE DEF IInv
  <1>1. /\ UNCHANGED books /\ receipts' = receipts /\ edits' = edits
        /\ peers' = peers /\ registry' = registry /\ participants' = participants
    BY DEF books, world
  <1>2. job'[p] = k /\ \A q \in Proc : q # p => job'[q] = job[q]
    BY DEF TrustTypeOK
  <1>3. job' = [q \in Proc |-> job'[q]]
    BY DEF TrustTypeOK
  <1>4. TrustTypeOK'
    BY <1>1, <1>2, <1>3 DEF TrustTypeOK
  <1>5. GoodPins(registry.pins, receipts)'
    BY <1>1 DEF GoodPins
  <1>6. ASSUME NEW q \in Proc PROVE DraftOK(job[q])'
    <2>1. PICK j : j = job'[q]
      OBVIOUS
    <2>2. DraftOK(j)
      BY <2>1, <1>2
    <2>3. DraftOK(j)'
      BY <2>2, <1>1, DraftStays
    <2>. QED
      BY <2>1, <2>3 DEF DraftOK, PeersDraft, RollDraft, TrustDraft
  <1>7. Exclusive'
    <2> SUFFICES ASSUME NEW q1 \in Proc, NEW q2 \in Proc, job'[q1].step \in Locks,
                        job'[q1].step = job'[q2].step
                 PROVE  q1 = q2
      BY DEF Exclusive
    <2>1. CASE q1 # p /\ q2 # p
      BY <2>1, <1>2 DEF Exclusive
    <2>2. CASE q1 = p \/ q2 = p
      BY <2>2, <1>2 DEF Unlocked
    <2>. QED
      BY <2>1, <2>2
  <1>. QED
    BY <1>4, <1>5, <1>6, <1>7

LEMMA BeginStep ==
    ASSUME IInv, NEW p \in Proc, NEW step \in Locks, NEW entry \in Alias \cup Seat \cup {None},
           NEW new \in Drafts(step), Begin(p, step, entry, new),
           DraftOK([Idle EXCEPT !.step = step, !.entry = entry, !.write = new])
    PROVE  IInv'
  <1> DEFINE k == [Idle EXCEPT !.step = step, !.entry = entry, !.write = new]
  <1>1. k.step = step /\ k \in Jobs(step)
    BY DEF Idle, Jobs
  <1>2. step \in Steps
    BY DEF Locks, Steps
  <1>3. copies' \subseteq Identity
    BY DEF Begin, IInv, TrustTypeOK
  <1>. HIDE DEF k
  <1>. QED
    BY <1>1, <1>2, <1>3, JobStep DEF Begin, k

\* A command of the trust registry that turns the pin of one alias into r.
LEMMA ChangeStep ==
    ASSUME IInv, NEW p \in Proc, NEW a \in Alias, NEW r \in Pins, Change(p, a, r),
           Good(r, receipts), Kept(registry.pins[a], r, receipts)
    PROVE  IInv'
  <1>1. PICK new : new = [registry EXCEPT !.pins[a] = r]
    OBVIOUS
  <1>2. registry \in Registries
    BY DEF IInv, TrustTypeOK
  <1>3. /\ new \in Registries /\ new.mode = registry.mode /\ new.pins[a] = r
        /\ \A b \in Alias : b # a => new.pins[b] = registry.pins[b]
    BY <1>1, <1>2 DEF Registries
  <1>4. new \in Drafts("save")
    BY <1>3 DEF Drafts
  <1>5. GoodPins(new.pins, receipts)
    BY <1>3 DEF GoodPins, IInv
  <1>6. \A b \in Alias : Kept(registry.pins[b], new.pins[b], receipts)
    BY <1>3, KeptSame
  <1>7. PICK j : j = [Idle EXCEPT !.step = "save", !.entry = a, !.write = new]
    OBVIOUS
  <1>8. j.step = "save" /\ j.entry = a /\ j.write = new
    BY <1>7 DEF Idle
  <1>9. TrustDraft(j)
    BY <1>3, <1>5, <1>6, <1>8 DEF TrustDraft
  <1>10. DraftOK(j)
    BY <1>8, <1>9 DEF DraftOK, Routes
  <1>11. Begin(p, "save", a, new)
    BY <1>1 DEF Change
  <1>. QED
    BY <1>4, <1>7, <1>10, <1>11, BeginStep DEF Locks

LEMMA RegisteringStep ==
    ASSUME IInv, NEW p \in Proc, Registering(p) PROVE IInv'
  <1>1. ASSUME NEW a \in Alias, NEW i \in Identity, AddRecipient(p, a, i) PROVE IInv'
    <2>1. PICK new : new = [peers EXCEPT ![a] = i]
      OBVIOUS
    <2>2. /\ new \in Peers /\ \A b \in Alias : b # a => new[b] = peers[b]
          /\ peers[a] = None
      BY <1>1, <2>1 DEF AddRecipient, IInv, TrustTypeOK, Peers
    <2>3. PICK j : j = [Idle EXCEPT !.step = "register", !.entry = a, !.write = new]
      OBVIOUS
    <2>4. j.step = "register" /\ j.entry = a /\ j.write = new
      BY <2>3 DEF Idle
    <2>5. DraftOK(j)
      BY <2>2, <2>4 DEF DraftOK, PeersDraft, Routes
    <2>6. new \in Drafts("register")
      BY <2>2 DEF Drafts
    <2>. QED
      BY <1>1, <2>1, <2>3, <2>5, <2>6, BeginStep DEF AddRecipient, Locks
  <1>2. ASSUME NEW x \in Seat, NEW r \in Admissions \cup {None},
               participants[x] = None \/ r = None,
               Begin(p, "enlist", x, [participants EXCEPT ![x] = r])
        PROVE  IInv'
    <2>1. PICK new : new = [participants EXCEPT ![x] = r]
      OBVIOUS
    <2>2. /\ new \in Rolls /\ \A b \in Seat : b # x => new[b] = participants[b]
          /\ participants[x] # None => new[x] \in {None, participants[x]}
      BY <1>2, <2>1 DEF IInv, TrustTypeOK, Rolls
    <2>3. PICK j : j = [Idle EXCEPT !.step = "enlist", !.entry = x, !.write = new]
      OBVIOUS
    <2>4. j.step = "enlist" /\ j.entry = x /\ j.write = new
      BY <2>3 DEF Idle
    <2>5. DraftOK(j)
      BY <2>2, <2>4 DEF DraftOK, RollDraft, Routes
    <2>6. new \in Drafts("enlist")
      BY <2>2 DEF Drafts
    <2>. QED
      BY <1>2, <2>1, <2>3, <2>5, <2>6, BeginStep DEF Locks
  <1>3. ASSUME NEW x \in Seat, NEW a \in Alias, NEW ts \in SUBSET Trigger,
               AdmitParticipant(p, x, a, ts)
        PROVE  IInv'
    <2>1. PICK r : r = [alias |-> a, id |-> peers[a], triggers |-> ts]
      OBVIOUS
    <2>2. peers[a] \in Identity
      BY <1>3 DEF AdmitParticipant, Resolves, IInv, TrustTypeOK, Peers
    <2>3. r \in Admissions
      BY <2>1, <2>2 DEF Admissions
    <2>. QED
      BY <1>2, <1>3, <2>1, <2>3 DEF AdmitParticipant
  <1>4. ASSUME NEW x \in Seat, RevokeParticipant(p, x) PROVE IInv'
    BY <1>2, <1>4 DEF RevokeParticipant
  <1>. QED
    BY <1>1, <1>3, <1>4 DEF Registering

LEMMA TrustingStep ==
    ASSUME IInv, NEW p \in Proc, Trusting(p) PROVE IInv'
  <1>1. \A a \in Alias :
           /\ peers[a] \in Identity \cup {None}
           /\ registry.pins[a] # None => registry.pins[a] \in Pins /\ Good(registry.pins[a], receipts)
    BY DEF IInv, TrustTypeOK, Peers, Registries, GoodPins
  <1>2. \A a \in Alias, s \in Pins : registry.pins[a] = None => Kept(registry.pins[a], s, receipts)
    BY DEF Kept
  <1>3. ASSUME NEW a \in Alias, Observe(p, a) PROVE IInv'
    <2>1. PICK i \in Identity : i = peers[a]
      BY <1>1, <1>3 DEF Observe
    <2>2. PICK r : r = NewPin("OBSERVED", i)
      OBVIOUS
    <2>3. r \in Pins /\ Good(r, receipts)
      BY <2>2, NewPinGood DEF States, Blocking
    <2>. QED
      BY <1>2, <1>3, <2>1, <2>2, <2>3, ChangeStep DEF Observe
  <1>4. ASSUME NEW a \in Alias, Pin(p, a) PROVE IInv'
    <2>1. PICK i \in Identity : i = peers[a]
      BY <1>1, <1>4 DEF Pin
    <2>2. PICK r : r = NewPin("TRUSTED", i)
      OBVIOUS
    <2>3. r \in Pins /\ Good(r, receipts) /\ r.rotations = <<>> /\ r.state = "TRUSTED" /\ r.id = i
      BY <2>2, NewPinGood DEF States, Blocking, NewPin
    <2>4. registry.pins[a] # None => [r EXCEPT !.rotations = registry.pins[a].rotations] = r
      <3>1. registry.pins[a] # None => registry.pins[a].rotations = <<>>
        BY <1>1, <1>4 DEF Pin, Good
      <3>2. [r EXCEPT !.rotations = <<>>] = r
        BY <2>2 DEF NewPin
      <3>. QED
        BY <3>1, <3>2
    <2>5. Change(p, a, r)
      BY <1>4, <2>1, <2>2, <2>4 DEF Pin
    <2>6. Kept(registry.pins[a], r, receipts)
      BY <1>4 DEF Pin, Kept, Refused
    <2>. QED
      BY <2>3, <2>5, <2>6, ChangeStep
  <1>5. ASSUME NEW a \in Alias, NEW state \in Refused, RefusePin(p, a, state) PROVE IInv'
    <2>1. CASE registry.pins[a] # None
      <3>1. PICK r \in Pins : r = registry.pins[a]
        BY <1>1, <2>1
      <3>2. PICK s : s = AsRefused(r, state)
        OBVIOUS
      <3>3. s \in Pins /\ Good(s, receipts) /\ Kept(r, s, receipts)
        BY <1>1, <2>1, <3>1, <3>2, RefusedGood
      <3>. QED
        BY <1>5, <2>1, <3>1, <3>2, <3>3, ChangeStep DEF RefusePin
    <2>2. CASE registry.pins[a] = None
      <3>1. PICK i \in Identity : i = peers[a]
        BY <1>1, <1>5, <2>2 DEF RefusePin
      <3>2. PICK r : r = NewPin(state, i)
        OBVIOUS
      <3>3. r \in Pins /\ Good(r, receipts)
        BY <3>2, NewPinGood DEF States, Blocking, Refused
      <3>. QED
        BY <1>2, <1>5, <2>2, <3>1, <3>2, <3>3, ChangeStep DEF RefusePin
    <2>. QED
      BY <2>1, <2>2
  <1>6. ASSUME NEW mode \in {"advisory", "enforce"}, SetMode(p, mode) PROVE IInv'
    <2>1. PICK new : new = [registry EXCEPT !.mode = mode]
      OBVIOUS
    <2>2. new \in Registries /\ new.pins = registry.pins
      BY <2>1 DEF IInv, TrustTypeOK, Registries
    <2>3. PICK j : j = [Idle EXCEPT !.step = "save", !.entry = None, !.write = new]
      OBVIOUS
    <2>4. j.step = "save" /\ j.entry = None /\ j.write = new
      BY <2>3 DEF Idle
    <2>5. GoodPins(new.pins, receipts) /\ \A a \in Alias : Kept(registry.pins[a], new.pins[a], receipts)
      BY <2>2, KeptSame DEF IInv
    <2>6. DraftOK(j)
      BY <2>2, <2>4, <2>5 DEF DraftOK, TrustDraft, Routes
    <2>7. new \in Drafts("save")
      BY <2>2 DEF Drafts
    <2>. QED
      BY <1>6, <2>1, <2>3, <2>6, <2>7, BeginStep DEF SetMode, Locks
  <1>7. ASSUME NEW a \in Alias, NEW i \in Identity, ExpectRotation(p, a, i) PROVE IInv'
    <2>1. PICK r \in Pins : r = registry.pins[a]
      BY <1>1, <1>7 DEF ExpectRotation
    <2>2. PICK s : s = [r EXCEPT !.state = "ROTATION_PENDING", !.pending = i]
      OBVIOUS
    <2>3. Good(r, receipts) /\ r.state \notin Refused /\ i # r.id
      BY <1>1, <1>7, <2>1 DEF ExpectRotation
    <2>4. s \in Pins /\ Good(s, receipts) /\ Kept(r, s, receipts)
      BY <2>2, <2>3, ExpectedGood
    <2>. QED
      BY <1>7, <2>1, <2>2, <2>4, ChangeStep DEF ExpectRotation
  <1>8. ASSUME NEW a \in Alias, NEW rotation \in Rotations, ApplyRotation(p, a, rotation) PROVE IInv'
    <2>1. PICK r \in Pins : r = registry.pins[a]
      BY <1>1, <1>8 DEF ApplyRotation
    <2>2. PICK s : s = Rotated(r, rotation[2])
      OBVIOUS
    <2>3. /\ Good(r, receipts) /\ r.state \notin Refused /\ rotation \in receipts
          /\ rotation[1] = r.id /\ (r.state = "ROTATION_PENDING" => rotation[2] = r.pending)
      BY <1>1, <1>8, <2>1 DEF ApplyRotation
    <2>4. s \in Pins /\ Good(s, receipts) /\ Kept(r, s, receipts)
      BY <2>2, <2>3, RotatedGood
    <2>. QED
      BY <1>8, <2>1, <2>2, <2>4, ChangeStep DEF ApplyRotation
  <1>. QED
    BY <1>3, <1>4, <1>5, <1>6, <1>7, <1>8 DEF Trusting

LEMMA AddressStep ==
    ASSUME IInv, NEW p \in Proc, NEW route \in Routes, NEW a \in Alias, NEW sealed \in Identity,
           Address(p, route, a, sealed)
    PROVE  IInv'
  <1>1. PICK refused \in BOOLEAN : refused = Refuses(a, peers[a])
    BY DEF Refuses
  <1>2. PICK k : k = [Idle EXCEPT !.step = route, !.entry = a, !.sealed = sealed,
                                  !.refused = refused]
    OBVIOUS
  <1>3. /\ k.step = route /\ k.entry = a /\ k.sealed = sealed /\ k.refused = refused
        /\ k = [step |-> route, entry |-> a, sealed |-> sealed, refused |-> refused, write |-> None]
    BY <1>2 DEF Idle
  <1>4. Drafts(route) = {None}
    BY DEF Drafts, Routes
  <1>5. route \in Steps /\ k \in Jobs(route)
    BY <1>3, <1>4 DEF Steps, Jobs
  <1>7. DraftOK(k)
    BY <1>3 DEF DraftOK, Routes
  <1>8. k.step \notin Locks
    BY <1>3 DEF Routes, Locks
  <1>9. copies' \subseteq Identity /\ UNCHANGED <<books, world>>
    BY DEF Address, IInv, TrustTypeOK
  <1>10. job' = [job EXCEPT ![p] = k]
    BY <1>1, <1>2 DEF Address
  <1>. QED
    BY <1>3, <1>5, <1>7, <1>8, <1>9, <1>10, JobStep

LEMMA IdleStep ==
    ASSUME IInv, NEW p \in Proc, UNCHANGED <<books, world>>, copies' \subseteq Identity,
           job' = [job EXCEPT ![p] = Idle]
    PROVE  IInv'
  <1>1. Idle.step \in Steps /\ Idle.step \notin Locks
    BY IdleJob DEF Steps, Locks
  <1>2. PICK k : k = Idle
    OBVIOUS
  <1>. QED
    BY <1>1, <1>2, IdleJob, JobStep

LEMMA SealedCopies ==
    ASSUME IInv, NEW a \in Alias, Sealed(a)
    PROVE  copies' \subseteq Identity /\ UNCHANGED <<books, world>>
  BY DEF IInv, TrustTypeOK, Peers, Sealed, Resolves

LEMMA SendingStep ==
    ASSUME IInv, NEW p \in Proc, Sending(p) PROVE IInv'
  <1>1. ASSUME NEW a \in Alias, SendMessage(p, a) PROVE IInv'
    <2>1. PICK i \in Identity : i = peers[a]
      BY <1>1 DEF SendMessage, Resolves, IInv, TrustTypeOK, Peers
    <2>. QED
      BY <1>1, <2>1, AddressStep DEF SendMessage, Routes
  <1>2. ASSUME NEW a \in Alias, NEW i \in Identity, ReplyMessage(p, a, i) PROVE IInv'
    BY <1>2, AddressStep DEF ReplyMessage, Routes
  <1>3. ASSUME NEW a \in Alias, NEW i \in Identity, RedeliverMessage(p, a, i) PROVE IInv'
    BY <1>3, AddressStep DEF RedeliverMessage, Routes
  <1>4. ASSUME NEW a \in Alias, NEW i \in Identity, Attempt(p, a, i) PROVE IInv'
    BY <1>4, AddressStep DEF Attempt, Routes
  <1>5. ASSUME NEW a \in Alias, Submit(p, a) PROVE IInv'
    <2>1. PICK k : k = job[p]
      OBVIOUS
    <2>2. job' = [job EXCEPT ![p] = Idle]
      BY <1>5 DEF Submit, IInv, TrustTypeOK
    <2>. QED
      BY <1>5, <2>2, SealedCopies, IdleStep DEF Submit
  <1>6. ASSUME NEW x \in Seat, NEW t \in Trigger, Notify(p, x, t) PROVE IInv'
    <2>1. PICK r \in Admissions : r = participants[x]
      BY <1>6 DEF Notify, IInv, TrustTypeOK, Rolls
    <2>2. r.alias \in Alias
      BY DEF Admissions
    <2>3. PICK k : k = [Idle EXCEPT !.step = "notify", !.entry = r.alias]
      OBVIOUS
    <2>4. k = [step |-> "notify", entry |-> r.alias, sealed |-> None, refused |-> FALSE, write |-> None]
      BY <2>3 DEF Idle
    <2>5. Drafts("notify") = {None}
      BY DEF Drafts
    <2>6. k.step = "notify" /\ k.entry \in Alias /\ k \in Jobs("notify")
      BY <2>2, <2>4, <2>5 DEF Jobs
    <2>7. DraftOK(k) /\ k.step \in Steps /\ k.step \notin Locks
      BY <2>6 DEF DraftOK, Routes, Steps, Locks
    <2>8. job' = [job EXCEPT ![p] = k] /\ UNCHANGED <<books, world>> /\ copies' \subseteq Identity
      BY <1>6, <2>1, <2>3 DEF Notify, IInv, TrustTypeOK
    <2>. QED
      BY <2>6, <2>7, <2>8, JobStep
  <1>7. CASE NotifySubmit(p)
    <2>1. PICK a \in Alias : a = job[p].entry
      BY <1>7 DEF NotifySubmit, IInv, DraftOK
    <2>. QED
      BY <1>7, <2>1, SealedCopies, IdleStep DEF NotifySubmit
  <1>8. CASE Deliver(p)
    <2>1. job[p].sealed \in Identity
      BY <1>8 DEF Deliver, IInv, DraftOK
    <2>2. copies' \subseteq Identity
      BY <1>8, <2>1 DEF Deliver, IInv, TrustTypeOK
    <2>. QED
      BY <1>8, <2>2, IdleStep DEF Deliver
  <1>. QED
    BY <1>1, <1>2, <1>3, <1>4, <1>5, <1>6, <1>7, <1>8 DEF Sending

\* The lock's holder writes what it computed: the other drafts are of other
\* registries.
LEMMA WritingStep ==
    ASSUME IInv, NEW p \in Proc, Writing(p) PROVE IInv'
  <1>. USE DEF IInv
  <1>0. job[p].write \in Drafts(job[p].step)
    BY DEF TrustTypeOK, Jobs
  <1>1. ASSUME NEW step \in Locks, Rewrite(p, step) PROVE
          /\ job'[p] = Idle /\ \A q \in Proc : q # p => job'[q] = job[q] /\ job[q].step # step
          /\ job' = [q \in Proc |-> job'[q]]
          /\ \A q \in Proc : job'[q].step \in Steps /\ job'[q] \in Jobs(job'[q].step)
          /\ Exclusive'
    <2>1. job'[p] = Idle /\ \A q \in Proc : q # p => job'[q] = job[q]
      BY <1>1 DEF Rewrite, TrustTypeOK
    <2>2. \A q \in Proc : q # p => job[q].step # step
      BY <1>1 DEF Rewrite, Exclusive
    <2>3. job' = [q \in Proc |-> job'[q]]
      BY <1>1 DEF Rewrite, TrustTypeOK
    <2>4. \A q \in Proc : job'[q].step \in Steps /\ job'[q] \in Jobs(job'[q].step)
      BY <2>1, IdleJob DEF TrustTypeOK, Steps
    <2>5. Exclusive'
      BY <2>1, IdleJob DEF Exclusive, Locks
    <2>. QED
      BY <2>1, <2>2, <2>3, <2>4, <2>5
  <1>2. CASE WritePeers(p)
    <2>1. Rewrite(p, "register") /\ "register" \in Locks
      BY <1>2 DEF WritePeers, Locks
    <2>2. peers' \in Peers
      BY <1>0, <1>2, <2>1 DEF WritePeers, Rewrite, Drafts
    <2>3. /\ registry' = registry /\ participants' = participants /\ copies' = copies
          /\ receipts' = receipts /\ edits' = edits
      BY <1>2 DEF WritePeers, Rewrite, world
    <2>4. TrustTypeOK'
      BY <1>1, <2>1, <2>2, <2>3 DEF TrustTypeOK
    <2>5. ASSUME NEW q \in Proc PROVE DraftOK(job[q])'
      <3>1. CASE q = p
        BY <1>1, <2>1, <3>1, IdleJob DEF DraftOK, Routes
      <3>2. CASE q # p
        <4>1. job'[q] = job[q] /\ job[q].step # "register" /\ DraftOK(job[q])
          BY <1>1, <2>1, <3>2
        <4>2. job[q].step = "enlist" => RollDraft(job[q])'
          BY <4>1, <2>3 DEF DraftOK, RollDraft
        <4>3. job[q].step = "save" => TrustDraft(job[q])'
          BY <4>1, <2>3 DEF DraftOK, TrustDraft, GoodPins
        <4>. QED
          BY <4>1, <4>2, <4>3 DEF DraftOK
      <3>. QED
        BY <3>1, <3>2
    <2>. QED
      BY <1>1, <2>1, <2>3, <2>4, <2>5 DEF GoodPins
  <1>3. CASE WriteParticipants(p)
    <2>1. Rewrite(p, "enlist") /\ "enlist" \in Locks
      BY <1>3 DEF WriteParticipants, Locks
    <2>2. participants' \in Rolls
      BY <1>0, <1>3, <2>1 DEF WriteParticipants, Rewrite, Drafts
    <2>3. /\ registry' = registry /\ peers' = peers /\ copies' = copies
          /\ receipts' = receipts /\ edits' = edits
      BY <1>3 DEF WriteParticipants, Rewrite, world
    <2>4. TrustTypeOK'
      BY <1>1, <2>1, <2>2, <2>3 DEF TrustTypeOK
    <2>5. ASSUME NEW q \in Proc PROVE DraftOK(job[q])'
      <3>1. CASE q = p
        BY <1>1, <2>1, <3>1, IdleJob DEF DraftOK, Routes
      <3>2. CASE q # p
        <4>1. job'[q] = job[q] /\ job[q].step # "enlist" /\ DraftOK(job[q])
          BY <1>1, <2>1, <3>2
        <4>2. job[q].step = "register" => PeersDraft(job[q])'
          BY <4>1, <2>3 DEF DraftOK, PeersDraft
        <4>3. job[q].step = "save" => TrustDraft(job[q])'
          BY <4>1, <2>3 DEF DraftOK, TrustDraft, GoodPins
        <4>. QED
          BY <4>1, <4>2, <4>3 DEF DraftOK
      <3>. QED
        BY <3>1, <3>2
    <2>. QED
      BY <1>1, <2>1, <2>3, <2>4, <2>5 DEF GoodPins
  <1>4. CASE WriteTrust(p)
    <2>1. Rewrite(p, "save") /\ "save" \in Locks /\ job[p].step = "save"
      BY <1>4 DEF WriteTrust, Rewrite, Locks
    <2>2. registry' \in Registries /\ GoodPins(registry'.pins, receipts)
      <3>1. registry' = job[p].write
        BY <1>4 DEF WriteTrust
      <3>2. GoodPins(job[p].write.pins, receipts)
        BY <2>1 DEF DraftOK, TrustDraft
      <3>. QED
        BY <1>0, <2>1, <3>1, <3>2 DEF Drafts
    <2>3. /\ participants' = participants /\ peers' = peers /\ copies' = copies
          /\ receipts' = receipts /\ edits' = edits
      BY <1>4 DEF WriteTrust, Rewrite, world
    <2>4. TrustTypeOK'
      BY <1>1, <2>1, <2>2, <2>3 DEF TrustTypeOK
    <2>5. ASSUME NEW q \in Proc PROVE DraftOK(job[q])'
      <3>1. CASE q = p
        BY <1>1, <2>1, <3>1, IdleJob DEF DraftOK, Routes
      <3>2. CASE q # p
        <4>1. job'[q] = job[q] /\ job[q].step # "save" /\ DraftOK(job[q])
          BY <1>1, <2>1, <3>2
        <4>2. job[q].step = "register" => PeersDraft(job[q])'
          BY <4>1, <2>3 DEF DraftOK, PeersDraft
        <4>3. job[q].step = "enlist" => RollDraft(job[q])'
          BY <4>1, <2>3 DEF DraftOK, RollDraft
        <4>. QED
          BY <4>1, <4>2, <4>3 DEF DraftOK
      <3>. QED
        BY <3>1, <3>2
    <2>. QED
      BY <1>1, <2>1, <2>2, <2>3, <2>4, <2>5 DEF GoodPins
  <1>. QED
    BY <1>2, <1>3, <1>4 DEF Writing

LEMMA WorldStep ==
    ASSUME IInv, World PROVE IInv'
  <1>. USE DEF IInv
  <1>1. ASSUME NEW rotation \in Rotations, BuildReceipt(rotation) PROVE IInv'
    <2>1. /\ UNCHANGED books /\ job' = job /\ copies' = copies /\ edits' = edits
          /\ receipts \subseteq receipts' /\ receipts' \subseteq Rotations
          /\ peers' = peers /\ registry' = registry /\ participants' = participants
      BY <1>1 DEF BuildReceipt, TrustTypeOK, books
    <2>2. TrustTypeOK'
      BY <2>1 DEF TrustTypeOK
    <2>3. GoodPins(registry.pins, receipts')
      BY <2>1, PinsGrow
    <2>4. GoodPins(registry.pins, receipts)'
      BY <2>1, <2>3 DEF GoodPins
    <2>5. ASSUME NEW q \in Proc PROVE DraftOK(job[q])'
      <3>1. PICK j : j = job[q]
        OBVIOUS
      <3>2. DraftOK(j)'
        BY <2>1, <3>1, DraftStays
      <3>. QED
        BY <2>1, <3>1, <3>2 DEF DraftOK, PeersDraft, RollDraft, TrustDraft
    <2>6. Exclusive'
      BY <2>1 DEF Exclusive
    <2>. QED
      BY <2>2, <2>4, <2>5, <2>6
  <1>2. ASSUME NEW a \in Alias, NEW i \in Identity, EditPeers(a, i) PROVE IInv'
    <2>1. /\ registry' = registry /\ participants' = participants /\ copies' = copies
          /\ receipts' = receipts /\ job' = job
          /\ \A q \in Proc : job[q].step # "register"
      BY <1>2 DEF EditPeers, Unlocked
    <2>2. peers' \in Peers
      BY <1>2 DEF EditPeers, TrustTypeOK, Peers
    <2>3. edits' \in 0 .. MaxEdits
      BY <1>2, TrustBoundsAssumption DEF EditPeers, TrustTypeOK
    <2>4. TrustTypeOK'
      BY <2>1, <2>2, <2>3 DEF TrustTypeOK
    <2>5. ASSUME NEW q \in Proc PROVE DraftOK(job[q])'
      <3>1. job[q].step = "enlist" => RollDraft(job[q])'
        BY <2>1 DEF DraftOK, RollDraft
      <3>2. job[q].step = "save" => TrustDraft(job[q])'
        BY <2>1 DEF DraftOK, TrustDraft, GoodPins
      <3>. QED
        BY <2>1, <3>1, <3>2 DEF DraftOK
    <2>. QED
      BY <2>1, <2>4, <2>5 DEF GoodPins, Exclusive
  <1>. QED
    BY <1>1, <1>2 DEF World

LEMMA InitInvariant == Init => IInv
  <1> SUFFICES ASSUME Init PROVE IInv
    OBVIOUS
  <1>1. TrustTypeOK
    <2>1. \A p \in Proc : job[p] = Idle
      BY DEF Init
    <2>2. \A p \in Proc : job[p].step \in Steps /\ job[p] \in Jobs(job[p].step)
      BY <2>1, IdleJob DEF Steps
    <2>. QED
      BY <2>2, TrustBoundsAssumption DEF Init, TrustTypeOK, Peers, Registries, Rolls
  <1>2. GoodPins(registry.pins, receipts)
    BY DEF Init, GoodPins
  <1>3. \A p \in Proc : DraftOK(job[p]) /\ job[p].step \notin Locks
    BY IdleJob DEF Init, Locks
  <1>. QED
    BY <1>1, <1>2, <1>3 DEF IInv, Exclusive

LEMMA NextInvariant == IInv /\ [Next]_vars => IInv'
  <1> SUFFICES ASSUME IInv, [Next]_vars PROVE IInv'
    OBVIOUS
  <1>1. ASSUME NEW p \in Proc, Die(p) PROVE IInv'
    <2>1. copies' \subseteq Identity
      BY <1>1 DEF Die, IInv, TrustTypeOK
    <2>. QED
      BY <1>1, <2>1, IdleStep DEF Die
  <1>2. CASE UNCHANGED vars
    BY <1>2 DEF vars, IInv, TrustTypeOK, GoodPins, Exclusive, DraftOK, PeersDraft, RollDraft,
                TrustDraft
  <1>. QED
    BY <1>1, <1>2, RegisteringStep, TrustingStep, SendingStep, WritingStep, WorldStep DEF Next

-----------------------------------------------------------------------------
(* Theorems *)

LEMMA Invariant == Spec => []IInv
  BY InitInvariant, NextInvariant, PTL DEF Spec

\* The registries, the kept containers, the receipts and the drafts keep their
\* shapes.
THEOREM TrustTypeCorrect == Spec => []TrustTypeOK
  <1>1. IInv => TrustTypeOK
    BY DEF IInv
  <1>. QED
    BY <1>1, Invariant, PTL

\* trust.json never becomes one that the next read refuses as corrupt.
THEOREM RegistryStaysReadable == Spec => []RegistryReadable
  <1>1. IInv => RegistryReadable
    BY ReadableWhenGood DEF IInv, RegistryReadable
  <1>. QED
    BY <1>1, Invariant, PTL

\* Which steps write which registry, and from what.
LEMMA Writers ==
    ASSUME IInv, [Next]_vars
    PROVE  /\ peers' = peers \/ edits' # edits \/ (\E p \in Proc : WritePeers(p))
           /\ registry' = registry \/ (\E p \in Proc : WriteTrust(p))
           /\ participants' = participants \/ (\E p \in Proc : WriteParticipants(p))
  <1>1. ASSUME NEW p \in Proc, Registering(p) \/ Trusting(p) PROVE UNCHANGED books
    BY <1>1 DEF Registering, Trusting, AddRecipient, AdmitParticipant, RevokeParticipant, Observe,
                Pin, RefusePin, SetMode, ExpectRotation, ApplyRotation, Change, Begin
  <1>2. ASSUME NEW p \in Proc, Sending(p) \/ Die(p) PROVE UNCHANGED books
    BY <1>2 DEF Sending, SendMessage, ReplyMessage, RedeliverMessage, Attempt, Address, Submit,
                Notify, NotifySubmit, Sealed, Deliver, Die
  <1>3. ASSUME NEW p \in Proc, WritePeers(p) PROVE UNCHANGED <<registry, participants>>
    BY <1>3 DEF WritePeers
  <1>4. ASSUME NEW p \in Proc, WriteTrust(p) PROVE UNCHANGED <<peers, participants>>
    BY <1>4 DEF WriteTrust
  <1>5. ASSUME NEW p \in Proc, WriteParticipants(p) PROVE UNCHANGED <<peers, registry>>
    BY <1>5 DEF WriteParticipants
  <1>6. CASE World
    <2>1. CASE \E rotation \in Rotations : BuildReceipt(rotation)
      BY <2>1 DEF BuildReceipt, books
    <2>2. ASSUME NEW a \in Alias, NEW i \in Identity, EditPeers(a, i)
          PROVE  edits' # edits /\ UNCHANGED <<registry, participants>>
      BY <2>2, TrustBoundsAssumption DEF EditPeers, IInv, TrustTypeOK
    <2>. QED
      BY <1>6, <2>1, <2>2 DEF World
  <1>7. CASE UNCHANGED vars
    BY <1>7 DEF vars
  <1>. QED
    BY <1>1, <1>2, <1>3, <1>4, <1>5, <1>6, <1>7 DEF Next, Writing, books

LEMMA PinsKept ==
    ASSUME IInv, [Next]_vars, NEW a \in Alias
    PROVE  Kept(registry.pins[a], registry'.pins[a], receipts)
  <1>1. CASE registry' = registry
    BY <1>1, KeptSame
  <1>2. ASSUME NEW p \in Proc, WriteTrust(p)
        PROVE  Kept(registry.pins[a], registry'.pins[a], receipts)
    BY <1>2 DEF WriteTrust, Rewrite, IInv, DraftOK, TrustDraft
  <1>. QED
    BY <1>1, <1>2, Writers

\* REVOKED and BLOCKED are for ever.
THEOREM RefusalsFinal == Spec => RefusalIsFinal
  <1>1. IInv /\ [Next]_vars =>
          [\A a \in Alias :
             (registry.pins[a] # None /\ registry.pins[a].state \in Refused) =>
                 (registry'.pins[a] # None /\ registry'.pins[a].state \in Refused)]_vars
    BY PinsKept DEF Kept
  <1>. QED
    BY <1>1, Invariant, PTL DEF Spec, RefusalIsFinal

\* Accepted and announced keys move along signed rotations only.
THEOREM KeysFollowSignatures == Spec => KeysMoveBySignature
  <1>1. IInv /\ [Next]_vars =>
          [\A a \in Alias :
             LET r == registry.pins[a]
                 s == registry'.pins[a]
             IN (r # None /\ r.state # "OBSERVED") =>
                   /\ s # None
                   /\ s.id # r.id => /\ <<r.id, s.id>> \in receipts
                                     /\ r.state = "ROTATION_PENDING" => s.id = r.pending]_vars
    BY PinsKept DEF Kept
  <1>. QED
    BY <1>1, Invariant, PTL DEF Spec, KeysMoveBySignature

\* Rewriting a whole file under its lock undoes nobody else's command.
THEOREM UpdatesSurvive == Spec => NoLostUpdate
  <1>1. ASSUME IInv, [Next]_vars, NEW a \in Alias, peers'[a] # peers[a], edits' = edits
        PROVE  Changes("register", a)
    <2>1. PICK p \in Proc : WritePeers(p)
      BY <1>1, Writers
    <2>2. job[p].step = "register" /\ PeersDraft(job[p]) /\ peers' = job[p].write
      BY <1>1, <2>1 DEF WritePeers, Rewrite, IInv, DraftOK
    <2>3. job[p].entry = a
      BY <1>1, <2>2 DEF PeersDraft
    <2>. QED
      BY <2>2, <2>3 DEF Changes
  <1>2. ASSUME IInv, [Next]_vars, registry' # registry
        PROVE  \E p \in Proc : job[p].step = "save" /\ TrustDraft(job[p]) /\ registry' = job[p].write
    <2>1. PICK p \in Proc : WriteTrust(p)
      BY <1>2, Writers
    <2>. QED
      BY <1>2, <2>1 DEF WriteTrust, Rewrite, IInv, DraftOK
  <1>3. ASSUME IInv, [Next]_vars, registry'.mode # registry.mode PROVE Changes("save", None)
    BY <1>2, <1>3 DEF TrustDraft, Changes
  <1>4. ASSUME IInv, [Next]_vars, NEW a \in Alias, registry'.pins[a] # registry.pins[a]
        PROVE  Changes("save", a)
    BY <1>2, <1>4 DEF TrustDraft, Changes
  <1>5. ASSUME IInv, [Next]_vars, NEW x \in Seat, participants'[x] # participants[x]
        PROVE  Changes("enlist", x)
    <2>1. PICK p \in Proc : WriteParticipants(p)
      BY <1>5, Writers
    <2>2. job[p].step = "enlist" /\ RollDraft(job[p]) /\ participants' = job[p].write
      BY <1>5, <2>1 DEF WriteParticipants, Rewrite, IInv, DraftOK
    <2>3. job[p].entry = x
      BY <1>5, <2>2 DEF RollDraft
    <2>. QED
      BY <2>2, <2>3 DEF Changes
  <1>6. IInv /\ [Next]_vars =>
          [/\ \A a \in Alias : peers'[a] # peers[a] => edits' # edits \/ Changes("register", a)
           /\ registry'.mode # registry.mode => Changes("save", None)
           /\ \A a \in Alias : registry'.pins[a] # registry.pins[a] => Changes("save", a)
           /\ \A s \in Seat : participants'[s] # participants[s] => Changes("enlist", s)]_vars
    BY <1>1, <1>3, <1>4, <1>5
  <1>. QED
    BY <1>6, Invariant, PTL DEF Spec, NoLostUpdate

\* What a command found free when it took the lock is free when it writes: no
\* registration and no admission is replaced by another one.
THEOREM RegistrationsStand == Spec => NoSilentOverwrite
  <1>1. ASSUME IInv, [Next]_vars, NEW a \in Alias, peers[a] # None, edits' = edits
        PROVE  peers'[a] = peers[a]
    <2>1. ASSUME NEW p \in Proc, WritePeers(p) PROVE peers'[a] = peers[a]
      <3>1. PeersDraft(job[p]) /\ peers' = job[p].write
        BY <1>1, <2>1 DEF WritePeers, Rewrite, IInv, DraftOK
      <3>. QED
        BY <1>1, <3>1 DEF PeersDraft
    <2>. QED
      BY <1>1, <2>1, Writers
  <1>2. ASSUME IInv, [Next]_vars, NEW x \in Seat, participants[x] # None
        PROVE  participants'[x] \in {None, participants[x]}
    <2>1. ASSUME NEW p \in Proc, WriteParticipants(p)
          PROVE  participants'[x] \in {None, participants[x]}
      <3>1. RollDraft(job[p]) /\ participants' = job[p].write
        BY <1>2, <2>1 DEF WriteParticipants, Rewrite, IInv, DraftOK
      <3>. QED
        BY <1>2, <3>1 DEF RollDraft
    <2>. QED
      BY <1>2, <2>1, Writers
  <1>3. IInv /\ [Next]_vars =>
          [/\ \A a \in Alias : peers[a] # None /\ edits' = edits => peers'[a] = peers[a]
           /\ \A s \in Seat : participants[s] # None =>
                 participants'[s] \in {None, participants[s]}]_vars
    BY <1>1, <1>2
  <1>. QED
    BY <1>3, Invariant, PTL DEF Spec, NoSilentOverwrite
=============================================================================
