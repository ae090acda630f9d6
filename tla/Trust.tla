------------------------------- MODULE Trust -------------------------------
(***************************************************************************)
(* src/saimail/trust.py, src/saimail/participants.py and the part of       *)
(* src/saimail/workspace.py that turns an alias into a mailbox.            *)
(*                                                                         *)
(* One workspace keeps three registries, each a file that is rewritten     *)
(* whole under a lock of its own and read without it: peers.json (alias to *)
(* identity), trust.json (what the operator accepted or refused, and the   *)
(* mode) and participants.json (the seats a project admits).  Its          *)
(* processes change them and send, submit, reply and redeliver; nothing is *)
(* locked between the step that resolves an alias and the delivery.  An    *)
(* identity stands for a workspace's pair of keys; a receipt is signed by  *)
(* the old and by the new one.                                             *)
(***************************************************************************)
EXTENDS Naturals, Sequences, FiniteSets

CONSTANTS Alias, Identity, Seat, Trigger, Proc,
          SeatOf,       \* the seat an identity card names
          MaxReceipts,  \* rotation receipts that peers sign
          MaxRotations, \* rotations one pin goes through
          MaxEdits,     \* rewrites of peers.json by the operator's own hand
          None

ASSUME SeatAssumption == SeatOf \in [Identity -> Seat]
ASSUME TrustBoundsAssumption ==
    MaxReceipts \in Nat /\ MaxRotations \in Nat /\ MaxEdits \in Nat

ASSUME EntryAssumption == None \notin Alias \cup Seat \cup Identity

VARIABLES
    peers,         \* peers.json
    registry,      \* trust.json
    participants,  \* participants.json, of one project
    copies,        \* outbox/<digest>.senv: the identities containers are sealed to
    receipts,      \* rotations that both of their keys signed
    edits,         \* rewrites by hand so far
    job            \* what each process is doing

vars == <<peers, registry, participants, copies, receipts, edits, job>>
books == <<peers, registry, participants>>
world == <<receipts, edits>>

Refused == {"BLOCKED", "REVOKED"}
\* POLICY.blocking_states.
Blocking == Refused \cup {"ROTATION_PENDING"}
States == Blocking \cup {"OBSERVED", "TRUSTED"}
Rotations == {r \in Identity \X Identity : r[1] # r[2] /\ SeatOf[r[1]] = SeatOf[r[2]]}

Pins == [state : States, id : Identity, origin : Identity,
         pending : Identity \cup {None}, rotations : Seq(Rotations)]
Peers == [Alias -> Identity \cup {None}]
Registries == [mode : {"advisory", "enforce"}, pins : [Alias -> Pins \cup {None}]]
Admissions == [alias : Alias, id : Identity, triggers : SUBSET Trigger]
Rolls == [Seat -> Admissions \cup {None}]

Routes == {"send", "outbox", "reply", "redeliver"}
Steps == {"idle", "register", "save", "enlist", "notify"} \cup Routes
\* What a command is about to write.
Drafts(step) ==
    CASE step = "register" -> Peers
      [] step = "save" -> Registries
      [] step = "enlist" -> Rolls
      [] OTHER -> {None}
Jobs(step) ==
    [step : {step}, entry : Alias \cup Seat \cup {None}, sealed : Identity \cup {None},
     refused : BOOLEAN, write : Drafts(step)]
Idle == [step |-> "idle", entry |-> None, sealed |-> None, refused |-> FALSE, write |-> None]

TrustTypeOK ==
    /\ peers \in Peers
    /\ registry \in Registries
    /\ participants \in Rolls
    /\ copies \subseteq Identity
    /\ receipts \subseteq Rotations
    /\ edits \in 0 .. MaxEdits
    /\ job = [p \in Proc |-> job[p]]
    /\ \A p \in Proc : job[p].step \in Steps /\ job[p] \in Jobs(job[p].step)

ASSUME NoneAssumption == None \notin Pins \cup Admissions

Init ==
    /\ peers = [a \in Alias |-> None]
    /\ registry = [mode |-> "advisory", pins |-> [a \in Alias |-> None]]
    /\ participants = [s \in Seat |-> None]
    /\ copies = {}
    /\ receipts = {}
    /\ edits = 0
    /\ job = [p \in Proc |-> Idle]

-----------------------------------------------------------------------------
(* Reading a registry: what _check_record requires of a pin *)

Anchored(r) ==
    /\ r.rotations = <<>> => r.id = r.origin
    /\ r.rotations # <<>> => /\ r.rotations[1][1] = r.origin
                             /\ r.rotations[Len(r.rotations)][2] = r.id
Continuous(r) ==
    \A n \in 1 .. Len(r.rotations) - 1 : r.rotations[n][2] = r.rotations[n + 1][1]
Signed(r) == \A n \in 1 .. Len(r.rotations) : r.rotations[n] \in receipts
TargetKept(r) ==
    IF r.state = "ROTATION_PENDING" THEN r.pending \notin {None, r.id} ELSE r.pending = None
CheckRecord(r) == TargetKept(r) /\ Anchored(r) /\ Continuous(r) /\ Signed(r)

Readable == \A a \in Alias : registry.pins[a] # None => CheckRecord(registry.pins[a])

\* _verdict(...)["blocking"] for alias a that resolves to identity i.
Blocks(a, i) ==
    LET r == registry.pins[a] IN
    r # None /\ (r.state \in Blocking \/ (r.state = "TRUSTED" /\ r.id # i))
\* admit, negated: the gate of deliveries.
Refuses(a, i) == registry.mode = "enforce" /\ Blocks(a, i)

\* _resolve_recipient.
Resolves(a) == peers[a] # None /\ Readable /\ ~Refuses(a, peers[a])

-----------------------------------------------------------------------------
(* Each registry is read, changed and rewritten under its lock *)

\* Fault: the lock of the registry does not keep others out.
Shared(step) == TRUE
Unlocked(step) == \A q \in Proc : job[q].step # step

\* The rest of the entries are written back as they were read.
Begin(p, step, entry, new) ==
    /\ job[p] = Idle
    /\ Unlocked(step)
    /\ job' = [job EXCEPT ![p] = [Idle EXCEPT !.step = step, !.entry = entry, !.write = new]]
    /\ UNCHANGED <<books, world, copies>>
Rewrite(p, step) ==
    /\ job[p].step = step
    /\ job' = [job EXCEPT ![p] = Idle]
    /\ UNCHANGED <<world, copies>>

\* add_recipient: the card is checked against the workspace it describes.
AddRecipient(p, a, i) ==
    /\ peers[a] = None
    /\ Begin(p, "register", a, [peers EXCEPT ![a] = i])
WritePeers(p) ==
    /\ Rewrite(p, "register")
    /\ peers' = job[p].write
    /\ UNCHANGED <<registry, participants>>

\* admit_participant and revoke_participant.
AdmitParticipant(p, s, a, ts) ==
    /\ Resolves(a) /\ SeatOf[peers[a]] = s
    /\ participants[s] = None
    /\ ts # {}
    /\ Begin(p, "enlist", s,
             [participants EXCEPT ![s] = [alias |-> a, id |-> peers[a], triggers |-> ts]])
RevokeParticipant(p, s) ==
    /\ participants[s] # None
    /\ Begin(p, "enlist", s, [participants EXCEPT ![s] = None])
WriteParticipants(p) ==
    /\ Rewrite(p, "enlist")
    /\ participants' = job[p].write
    /\ UNCHANGED <<peers, registry>>

-----------------------------------------------------------------------------
(* trust.json *)

Change(p, a, r) ==
    Readable /\ Begin(p, "save", a, [registry EXCEPT !.pins[a] = r])
WriteTrust(p) ==
    /\ Rewrite(p, "save")
    /\ registry' = job[p].write
    /\ UNCHANGED <<peers, participants>>

NewPin(state, i) ==
    [state |-> state, id |-> i, origin |-> i, pending |-> None, rotations |-> <<>>]

Observe(p, a) ==
    /\ peers[a] # None
    /\ registry.pins[a] = None
    /\ Change(p, a, NewPin("OBSERVED", peers[a]))

\* pin: a sighting becomes an acceptance of whatever the alias resolves to now.
Pin(p, a) ==
    LET r == registry.pins[a]
        new == NewPin("TRUSTED", peers[a])
    IN /\ peers[a] # None
       /\ r # None => r.state = "OBSERVED"
       /\ Change(p, a, IF r = None THEN new ELSE [new EXCEPT !.rotations = r.rotations])

\* Fault: refusing keeps the announced keys.
RefusedKeepingTarget(r, state) == [r EXCEPT !.state = state]
AsRefused(r, state) == [r EXCEPT !.state = state, !.pending = None]
\* _refuse_pin: revoke and block.
RefusePin(p, a, state) ==
    LET r == registry.pins[a] IN
    /\ state \in Refused
    /\ IF r # None
       THEN r.state # state /\ Change(p, a, AsRefused(r, state))
       ELSE peers[a] # None /\ Change(p, a, NewPin(state, peers[a]))

SetMode(p, mode) ==
    Readable /\ Begin(p, "save", None, [registry EXCEPT !.mode = mode])

\* Fault: a refused peer may announce new keys.
ExpectFromAny(p, a, i) ==
    LET r == registry.pins[a] IN
    /\ peers[a] # None /\ SeatOf[i] = SeatOf[peers[a]]
    /\ r # None /\ i # r.id
    /\ Change(p, a, [r EXCEPT !.state = "ROTATION_PENDING", !.pending = i])
ExpectRotation(p, a, i) ==
    LET r == registry.pins[a] IN
    /\ peers[a] # None /\ SeatOf[i] = SeatOf[peers[a]]
    /\ r # None /\ r.state \notin Refused /\ i # r.id
    /\ Change(p, a, [r EXCEPT !.state = "ROTATION_PENDING", !.pending = i])

Rotated(r, new) ==
    [r EXCEPT !.state = "TRUSTED", !.id = new, !.pending = None,
              !.rotations = Append(@, <<r.id, new>>)]
\* Fault: any signed receipt completes an announced rotation.
ApplyAnyReceipt(p, a, rotation) ==
    LET r == registry.pins[a] IN
    /\ rotation \in receipts
    /\ r # None /\ r.state \notin Refused
    /\ rotation[1] = r.id /\ Len(r.rotations) < MaxRotations
    /\ Change(p, a, Rotated(r, rotation[2]))
ApplyRotation(p, a, rotation) ==
    LET r == registry.pins[a] IN
    /\ rotation \in receipts
    /\ r # None /\ r.state \notin Refused
    /\ rotation[1] = r.id /\ Len(r.rotations) < MaxRotations
    /\ r.state = "ROTATION_PENDING" => rotation[2] = r.pending
    /\ Change(p, a, Rotated(r, rotation[2]))

-----------------------------------------------------------------------------
(* From an alias to a mailbox *)

\* What the gate says of the recipient at the moment it is resolved.
Address(p, route, a, sealed) ==
    /\ job[p] = Idle
    /\ peers[a] # None
    /\ job' = [job EXCEPT ![p] = [Idle EXCEPT !.step = route, !.entry = a, !.sealed = sealed,
                                              !.refused = Refuses(a, peers[a])]]
    /\ UNCHANGED <<books, world, copies>>

SendMessage(p, a) == Resolves(a) /\ Address(p, "send", a, peers[a])

\* _resolve_reply_recipient: a registered peer with the seat and key that
\* wrote the message being answered.
ReplyMessage(p, a, i) == peers[a] = i /\ Address(p, "reply", a, i)

\* redeliver_message: a peer of the seat the kept container names.
RedeliverMessage(p, a, i) ==
    /\ i \in copies
    /\ peers[a] # None /\ SeatOf[peers[a]] = SeatOf[i]
    /\ Address(p, "redeliver", a, i)

\* _seal: the container of a new intent, kept until it is delivered.
Sealed(a) ==
    /\ Resolves(a)
    /\ copies' = copies \cup {peers[a]}
    /\ UNCHANGED <<books, world>>
Submit(p, a) == job[p] = Idle /\ Sealed(a) /\ UNCHANGED job

\* notify: resolve_participant, and then a submission of its own.
Notify(p, s, t) ==
    LET r == participants[s] IN
    /\ job[p] = Idle
    /\ r # None /\ t \in r.triggers
    /\ Resolves(r.alias) /\ SeatOf[peers[r.alias]] = s /\ peers[r.alias] = r.id
    /\ job' = [job EXCEPT ![p] = [Idle EXCEPT !.step = "notify", !.entry = r.alias]]
    /\ UNCHANGED <<books, world, copies>>
NotifySubmit(p) ==
    /\ job[p].step = "notify"
    /\ job' = [job EXCEPT ![p] = Idle]
    /\ Sealed(job[p].entry)

\* _deliver: the alias of an intent is resolved again for every attempt.
Attempt(p, a, i) ==
    /\ i \in copies
    /\ Resolves(a) /\ SeatOf[peers[a]] = SeatOf[i]
    /\ Address(p, "outbox", a, i)

\* _recipient_office refuses a workspace that is not there, or not the
\* registered identity's; otherwise the container is stored and handed over.
Deliver(p) ==
    /\ job[p].step \in Routes
    /\ copies' \in {copies, copies \cup {job[p].sealed}}
    /\ job' = [job EXCEPT ![p] = Idle]
    /\ UNCHANGED <<books, world>>

-----------------------------------------------------------------------------
(* The rest of the world *)

\* build_rotation_receipt, from the old and the new workspace of one seat.
BuildReceipt(rotation) ==
    /\ Cardinality(receipts) < MaxReceipts
    /\ receipts' = receipts \cup {rotation}
    /\ UNCHANGED <<books, copies, job, edits>>

\* The operator points the alias at another card by editing peers.json, which
\* no command does, while no registration is under way.
EditPeers(a, i) ==
    /\ edits < MaxEdits /\ Unlocked("register")
    /\ peers[a] \notin {None, i}
    /\ peers' = [peers EXCEPT ![a] = i]
    /\ edits' = edits + 1
    /\ UNCHANGED <<registry, participants, copies, job, receipts>>

\* A process dies; the system frees its locks.
Die(p) ==
    /\ job[p] # Idle
    /\ job' = [job EXCEPT ![p] = Idle]
    /\ UNCHANGED <<books, world, copies>>

Registering(p) ==
    \/ \E a \in Alias, i \in Identity : AddRecipient(p, a, i)
    \/ \E s \in Seat, a \in Alias, ts \in SUBSET Trigger : AdmitParticipant(p, s, a, ts)
    \/ \E s \in Seat : RevokeParticipant(p, s)

Trusting(p) ==
    \/ \E a \in Alias : Observe(p, a) \/ Pin(p, a)
    \/ \E a \in Alias, state \in Refused : RefusePin(p, a, state)
    \/ \E mode \in {"advisory", "enforce"} : SetMode(p, mode)
    \/ \E a \in Alias, i \in Identity : ExpectRotation(p, a, i)
    \/ \E a \in Alias, rotation \in Rotations : ApplyRotation(p, a, rotation)

Sending(p) ==
    \/ \E a \in Alias : SendMessage(p, a)
    \/ \E a \in Alias, i \in Identity : ReplyMessage(p, a, i) \/ RedeliverMessage(p, a, i)
    \/ \E a \in Alias : Submit(p, a)
    \/ \E a \in Alias, i \in Identity : Attempt(p, a, i)
    \/ \E s \in Seat, t \in Trigger : Notify(p, s, t)
    \/ NotifySubmit(p)
    \/ Deliver(p)

Writing(p) == WritePeers(p) \/ WriteParticipants(p) \/ WriteTrust(p)

World ==
    \/ \E rotation \in Rotations : BuildReceipt(rotation)
    \/ \E a \in Alias, i \in Identity : EditPeers(a, i)

Next ==
    \/ \E p \in Proc : Registering(p) \/ Trusting(p) \/ Sending(p) \/ Writing(p) \/ Die(p)
    \/ World

Spec == Init /\ [][Next]_vars

-----------------------------------------------------------------------------

\* No sequence of commands leaves a trust registry that the next read refuses
\* as TRUST_REGISTRY_CORRUPT: a pending target exactly while a rotation is
\* pending, and a chain of signed rotations from the first key to the pinned one.
RegistryReadable == Readable

\* A revoked or blocked peer never becomes anything else, whatever card it
\* presents and whatever receipt it holds.
RefusalIsFinal ==
    [][\A a \in Alias :
         (registry.pins[a] # None /\ registry.pins[a].state \in Refused) =>
             (registry'.pins[a] # None /\ registry'.pins[a].state \in Refused)]_vars

\* No silent key substitution: once a pin is more than a sighting its keys
\* change only by a rotation that both keys signed, and from a pending rotation
\* only to the keys the operator was shown.
KeysMoveBySignature ==
    [][\A a \in Alias :
         LET r == registry.pins[a]
             s == registry'.pins[a]
         IN (r # None /\ r.state # "OBSERVED") =>
               /\ s # None
               /\ s.id # r.id => /\ <<r.id, s.id>> \in receipts
                                 /\ r.state = "ROTATION_PENDING" => s.id = r.pending]_vars

\* A registry is rewritten whole, and still no command undoes another one: an
\* entry changes only by the command that names it (peers.json: or by hand).
Changes(step, entry) == \E p \in Proc : job[p].step = step /\ job[p].entry = entry
NoLostUpdate ==
    [][/\ \A a \in Alias : peers'[a] # peers[a] => edits' # edits \/ Changes("register", a)
       /\ registry'.mode # registry.mode => Changes("save", None)
       /\ \A a \in Alias : registry'.pins[a] # registry.pins[a] => Changes("save", a)
       /\ \A s \in Seat : participants'[s] # participants[s] => Changes("enlist", s)]_vars

\* "No silent overwrite": two processes that register one alias, or admit one
\* seat, at the same time each find it free and write later; the second must
\* still not replace what the first has registered.  An alias moves only by the
\* operator's own hand, an admission only goes by a revocation.
NoSilentOverwrite ==
    [][/\ \A a \in Alias : peers[a] # None /\ edits' = edits => peers'[a] = peers[a]
       /\ \A s \in Seat : participants[s] # None =>
             participants'[s] \in {None, participants[s]}]_vars

\* workspace.py:1075: the registry "is the only thing that may turn a registered
\* alias into a delivery target".  It is asked when the alias is resolved: what is
\* refused while the delivery is on its way still leaves (MCTrustStale.cfg).
SendsStayAdmitted ==
    \A p \in Proc : job[p].step \in {"send", "outbox"} =>
        ~Refuses(job[p].entry, peers[job[p].entry])

\* trust.py:39: "enforce makes a refusal binding for delivery".
RefusalBinding == \A p \in Proc : job[p].step \in Routes => ~job[p].refused
=============================================================================
