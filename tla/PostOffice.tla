----------------------------- MODULE PostOffice -----------------------------
(***************************************************************************)
(* One seat's mailbox on disk and the processes that work on it:           *)
(* src/saimail/postoffice.py, with the row repair of ledger.py.            *)
(*                                                                         *)
(* A bundle directory is modelled by the RECEIVED_AT its receipt carries:  *)
(* None when there is no directory, Torn when an interrupted rmtree left a *)
(* directory without all of its files.  Every step up to the next write    *)
(* that another process or a crash could separate is one action; the       *)
(* lifecycle lock is taken by the first action of a critical section.  The *)
(* clock is whatever the wall clock says at each reading, so it may step   *)
(* back.  An index append is one action: index.lock is only held inside it.*)
(***************************************************************************)
EXTENDS Naturals, Sequences

CONSTANTS
    Envelope,      \* ENVELOPE_IDs, ordered as maintenance visits them
    Proc,          \* threads and processes working on this mailbox
    Time,          \* the instants the clock may show
    SenderTTL,     \* SenderTTL[e]: the signed TTL of e, or None
    DefaultTTL,    \* DefaultTTL[p]: the receiver policy process p was given
    Refusable,     \* envelopes whose keys some registry does not accept
    None,          \* no file, no process, no value
    Torn,          \* a bundle directory without all of its files
    TearsDeletes,  \* may a crash strike between the unlinks of one rmtree?
    MaxCrashes     \* bound on crashes, for TLC

Tombstones == [received : Nat, expired : Nat, ttl : Nat]

ASSUME EnvelopeAssumption == Envelope \subseteq Nat /\ Refusable \subseteq Envelope
ASSUME TimeAssumption == Time \subseteq Nat
ASSUME NoneAssumption == None \notin Nat /\ None \notin Proc /\ None \notin Tombstones
ASSUME TornAssumption == Torn \notin Nat /\ Torn # None
ASSUME TTLAssumption ==
    /\ SenderTTL \in [Envelope -> Nat \cup {None}]
    /\ DefaultTTL \in [Proc -> Nat]
ASSUME CrashAssumption == TearsDeletes \in BOOLEAN /\ MaxCrashes \in Nat

VARIABLES
    inbox, read,   \* the bundle of e in inbox/<seat>/ and in read/<seat>/
    tomb,          \* expired/<seat>/<digest>.json
    index,         \* the committed rows of index.jsonl
    tail,          \* index.jsonl ends in an unterminated append
    quarantine,    \* what quarantine/ holds
    ledger,        \* the receiving-side facts that were noted
    lock,          \* the holder of the lifecycle lock
    pc, job,       \* where each process is, and its local variables
    crashes

files == <<inbox, read, tomb, index, tail, quarantine, ledger>>
vars == <<inbox, read, tomb, index, tail, quarantine, ledger, lock, pc, job, crashes>>

Places == {"tomb", "inbox", "read"}
Events == {"RECEIPT_OBSERVED", "OPENED", "QUARANTINED"}
Bundles == Nat \cup {None, Torn}
Rows == [id : Envelope, at : Nat]

\* Labels at which a process holds the lifecycle lock, and the others.
Holding == {"d_note", "d_row", "o_unlink", "o_note", "r_pick", "r_unpair", "r_row",
            "s_pick", "s_body", "s_left", "x_inbox", "x_read"}
Waiting == {"d_lock", "o_lock", "r_lock", "s_lock"}
LockFree == {"idle", "c_inbox", "c_read", "c_done", "k_read", "k_row"}

Jobs == [env : Envelope \cup {None}, todo : SUBSET Envelope, at : Nat \cup {None},
         instant : Nat \cup {None}, seen : SUBSET Places]
NoJob == [env |-> None, todo |-> {}, at |-> None, instant |-> None, seen |-> {}]

TypeOK ==
    /\ inbox \in [Envelope -> Bundles]
    /\ read \in [Envelope -> Bundles]
    /\ tomb \in [Envelope -> Tombstones \cup {None}]
    /\ index \in Seq(Rows)
    /\ tail \in BOOLEAN
    /\ quarantine \subseteq Envelope
    /\ ledger \subseteq Events \X Envelope
    /\ lock \in Proc \cup {None}
    /\ pc \in [Proc -> Holding \cup Waiting \cup LockFree]
    /\ job \in [Proc -> Jobs]
    /\ crashes \in Nat

Init ==
    /\ inbox = [e \in Envelope |-> None]
    /\ read = [e \in Envelope |-> None]
    /\ tomb = [e \in Envelope |-> None]
    /\ index = <<>>
    /\ tail = FALSE
    /\ quarantine = {}
    /\ ledger = {}
    /\ lock = None
    /\ pc = [p \in Proc |-> "idle"]
    /\ job = [p \in Proc |-> NoJob]
    /\ crashes = 0

-----------------------------------------------------------------------------
(* What the files say *)

HasBody(e) == inbox[e] # None \/ read[e] # None
HasPair(e) == inbox[e] # None /\ read[e] # None

\* _state_bundles of both directories.
Live == {e \in Envelope : HasBody(e)}

\* bundle_state, read in one instant.
State(e) ==
    IF tomb[e] # None THEN "expired"
    ELSE IF read[e] # None THEN "read"
    ELSE IF inbox[e] # None THEN "unread" ELSE "absent"

\* The copy maintenance takes as authoritative: read wins.
Bundle(e) == IF read[e] # None THEN read[e] ELSE inbox[e]

\* _check_reconcilable: two copies must be whole and carry one receipt.
Reconcilable(e) == HasPair(e) => (inbox[e] = read[e] /\ inbox[e] # Torn)

HasRow(e) == \E i \in DOMAIN index : index[i].id = e
RowIs(e, t) == \E i \in DOMAIN index : index[i] = [id |-> e, at |-> t]

\* min(sender_ttl_if_present, receiver_default)
EffectiveTTL(p, e) ==
    IF SenderTTL[e] = None \/ SenderTTL[e] > DefaultTTL[p]
    THEN DefaultTTL[p] ELSE SenderTTL[e]

\* ensure_index_row under index.lock: the one row of e is already the expected
\* one, or is missing and can be appended.
RowAccepted(e, t) == ~tail /\ (HasRow(e) => RowIs(e, t))
WithRowAgain(e, t) == Append(index, [id |-> e, at |-> t])  \* fault: not idempotent
WithRow(e, t) == IF HasRow(e) THEN index ELSE Append(index, [id |-> e, at |-> t])

\* Fault: expiry at the very instant is not accepted.
FinishableLate(p, e) ==
    /\ ~tail /\ RowIs(e, tomb[e].received) /\ Reconcilable(e)
    /\ Bundle(e) = tomb[e].received /\ tomb[e].ttl = EffectiveTTL(p, e)
    /\ tomb[e].expired > tomb[e].received + tomb[e].ttl

\* A live body that proves the tombstone beside it could only be its own.
Finishable(p, e) ==
    /\ ~tail
    /\ RowIs(e, tomb[e].received)
    /\ Reconcilable(e)
    /\ Bundle(e) = tomb[e].received
    /\ tomb[e].ttl = EffectiveTTL(p, e)
    /\ tomb[e].expired >= tomb[e].received + tomb[e].ttl

\* An unexpired body maintenance may act on: whole, and of one mind with its copy.
Verifiable(e) == Reconcilable(e) /\ Bundle(e) \notin {None, Torn}

-----------------------------------------------------------------------------
(* Control *)

Goto(p, from, to) ==
    /\ pc[p] = from
    /\ pc' = [pc EXCEPT ![p] = to]
    /\ UNCHANGED crashes

\* Fault: a refusal leaves the lock behind.
ReturnHolding(p) ==
    /\ pc' = [pc EXCEPT ![p] = "idle"]
    /\ job' = [job EXCEPT ![p] = NoJob]
    /\ UNCHANGED <<lock, crashes>>

\* The operation ends, by its result or by a refusal; leaving the with-block
\* releases the lock if this process holds it.
Return(p) ==
    /\ pc' = [pc EXCEPT ![p] = "idle"]
    /\ job' = [job EXCEPT ![p] = NoJob]
    /\ lock' = IF lock = p THEN None ELSE lock
    /\ UNCHANGED crashes

Acquire(p) == lock = None /\ lock' = p

\* The ledger note is best-effort: it may be lost without failing the operation.
Note(event, e) == ledger' \in {ledger, ledger \cup {<<event, e>>}}

-----------------------------------------------------------------------------
(* deliver *)

\* Parse, signature, recipient seat and key are checked before the lock; what
\* fails is quarantined under its raw-bytes hash.
DeliverGate(p, e) ==
    /\ pc[p] = "idle"
    /\ \/ /\ Goto(p, "idle", "d_lock")
          /\ job' = [job EXCEPT ![p].env = e]
          /\ UNCHANGED <<files, lock>>
       \/ /\ e \in Refusable
          /\ quarantine' = quarantine \cup {e}
          /\ Note("QUARANTINED", e)
          /\ UNCHANGED <<inbox, read, tomb, index, tail, lock, pc, job, crashes>>

\* _expired_dedup: the original instant or a conflict refusal; no file changes.
DeliverExpired(p) ==
    /\ pc[p] = "d_lock" /\ lock = None
    /\ tomb[job[p].env] # None
    /\ Return(p)
    /\ UNCHANGED files

\* An exact replay of a live message: a torn bundle refuses, a whole one only
\* has its missing row restored, with the original RECEIVED_AT.
DeliverReplay(p) ==
    LET e == job[p].env IN
    /\ pc[p] = "d_lock" /\ lock = None
    /\ tomb[e] = None /\ HasBody(e)
    /\ UNCHANGED files
    /\ \/ Bundle(e) = Torn /\ Return(p)
       \/ /\ Bundle(e) # Torn
          /\ Acquire(p)
          /\ Goto(p, "d_lock", "d_row")
          /\ job' = [job EXCEPT ![p].at = Bundle(e)]

\* Fault: only inbox/ is asked whether the message is already here.
DeliverPublishOver(p) ==
    LET e == job[p].env IN
    /\ Goto(p, "d_lock", "d_note")
    /\ tomb[e] = None /\ inbox[e] = None
    /\ Acquire(p)
    /\ \E t \in Time : inbox' = [inbox EXCEPT ![e] = t] /\ job' = [job EXCEPT ![p].at = t]
    /\ UNCHANGED <<read, tomb, index, tail, quarantine, ledger>>

\* The bundle appears under its name in one rename, complete.
DeliverPublish(p) ==
    LET e == job[p].env IN
    /\ Goto(p, "d_lock", "d_note")
    /\ tomb[e] = None /\ ~HasBody(e)
    /\ Acquire(p)
    /\ \E t \in Time :
          /\ inbox' = [inbox EXCEPT ![e] = t]
          /\ job' = [job EXCEPT ![p].at = t]
    /\ UNCHANGED <<read, tomb, index, tail, quarantine, ledger>>

DeliverNote(p) ==
    /\ Goto(p, "d_note", "d_row")
    /\ Note("RECEIPT_OBSERVED", job[p].env)
    /\ UNCHANGED <<inbox, read, tomb, index, tail, quarantine, lock, job>>

DeliverRow(p) ==
    LET e == job[p].env  t == job[p].at IN
    /\ pc[p] = "d_row"
    /\ index' = IF RowAccepted(e, t) THEN WithRow(e, t) ELSE index
    /\ Return(p)
    /\ UNCHANGED <<inbox, read, tomb, tail, quarantine, ledger>>

Deliver(p) ==
    \/ \E e \in Envelope : DeliverGate(p, e)
    \/ DeliverExpired(p) \/ DeliverReplay(p) \/ DeliverPublish(p)
    \/ DeliverNote(p) \/ DeliverRow(p)

-----------------------------------------------------------------------------
(* open_message.  peek_message and reopen_message change no file. *)

OpenBegin(p, e) ==
    /\ Goto(p, "idle", "o_lock")
    /\ job' = [job EXCEPT ![p].env = e]
    /\ UNCHANGED <<files, lock>>

\* Refused by state, by a spent budget, or by a failed verification or
\* decryption: whatever the state, an attempt may end here.
OpenRefuse(p) ==
    /\ pc[p] = "o_lock" /\ lock = None
    /\ Return(p)
    /\ UNCHANGED files

\* Fault: a failed rename is taken for a done one.
OpenMoveIgnored(p) ==
    /\ Goto(p, "o_lock", "o_note")
    /\ State(job[p].env) = "unread" /\ inbox[job[p].env] # Torn
    /\ Acquire(p)
    /\ UNCHANGED <<files, job>>

\* _transition_to_read: the rename moves the bundle in one step; where rename
\* fails, an identical read bundle is published first and the inbox copy
\* removed after it.
OpenMove(p) ==
    LET e == job[p].env IN
    /\ pc[p] = "o_lock"
    /\ State(e) = "unread" /\ inbox[e] # Torn
    /\ Acquire(p)
    /\ read' = [read EXCEPT ![e] = inbox[e]]
    /\ \/ Goto(p, "o_lock", "o_note") /\ inbox' = [inbox EXCEPT ![e] = None]
       \/ Goto(p, "o_lock", "o_unlink") /\ UNCHANGED inbox
    /\ UNCHANGED <<tomb, index, tail, quarantine, ledger, job>>

OpenUnlink(p) ==
    /\ Goto(p, "o_unlink", "o_note")
    /\ inbox' = [inbox EXCEPT ![job[p].env] = None]
    /\ UNCHANGED <<read, tomb, index, tail, quarantine, ledger, lock, job>>

OpenNote(p) ==
    /\ pc[p] = "o_note"
    /\ Note("OPENED", job[p].env)
    /\ Return(p)
    /\ UNCHANGED <<inbox, read, tomb, index, tail, quarantine>>

Open(p) ==
    \/ \E e \in Envelope : OpenBegin(p, e)
    \/ OpenRefuse(p) \/ OpenMove(p) \/ OpenUnlink(p) \/ OpenNote(p)

-----------------------------------------------------------------------------
(* recover and sweep_expired: one pass over the live bundles in digest order,
   under the lifecycle lock.  The first object that refuses ends the pass. *)

First(p, e) == e \in job[p].todo /\ \A f \in job[p].todo : e <= f

\* The sweep is the pass that carries an instant.
Pick(p) == IF job[p].instant = None THEN "r_pick" ELSE "s_pick"

Done(p, e) == job' = [job EXCEPT ![p].todo = @ \ {e}, ![p].env = None, ![p].at = None]

RecoverBegin(p) ==
    /\ Goto(p, "idle", "r_lock")
    /\ UNCHANGED <<files, lock, job>>

\* Fault: maintenance lists inbox/ only.
RecoverListInbox(p) ==
    /\ Acquire(p)
    /\ Goto(p, "r_lock", "r_pick")
    /\ tail' = FALSE
    /\ job' = [job EXCEPT ![p].todo = {e \in Envelope : inbox[e] # None}]
    /\ UNCHANGED <<inbox, read, tomb, index, quarantine, ledger>>

\* _repair_torn_index_tail, then the two listings.
RecoverList(p) ==
    /\ Acquire(p)
    /\ Goto(p, "r_lock", "r_pick")
    /\ tail' = FALSE
    /\ job' = [job EXCEPT ![p].todo = Live]
    /\ UNCHANGED <<inbox, read, tomb, index, quarantine, ledger>>

\* The sweep reads its instant before it waits for the lock.
SweepBegin(p) ==
    /\ Goto(p, "idle", "s_lock")
    /\ \E t \in Time : job' = [job EXCEPT ![p].instant = t]
    /\ UNCHANGED <<files, lock>>

SweepList(p) ==
    /\ Acquire(p)
    /\ Goto(p, "s_lock", "s_pick")
    /\ job' = [job EXCEPT ![p].todo = Live]
    /\ UNCHANGED files

PassDone(p) ==
    /\ pc[p] \in {"r_pick", "s_pick"}
    /\ job[p].todo = {}
    /\ Return(p)
    /\ UNCHANGED files

\* The object in hand refuses: conflict, damage, an unaccepted key, no row.
PassRefuse(p) ==
    /\ pc[p] \in {"r_pick", "s_pick"}
    /\ \E e \in Envelope :
          /\ First(p, e)
          /\ \/ e \in Refusable
             \/ tomb[e] # None /\ ~Finishable(p, e)
             \/ tomb[e] = None /\ ~Verifiable(e)
             \/ pc[p] = "s_pick" /\ tomb[e] = None /\ (tail \/ ~RowIs(e, Bundle(e)))
    /\ Return(p)
    /\ UNCHANGED files

\* _finish_expiry: a tombstone beside a live body. Inbox goes first.
FinishExpiry(p) ==
    /\ \E e \in Envelope :
          /\ First(p, e)
          /\ tomb[e] # None /\ Finishable(p, e)
          /\ Goto(p, Pick(p), IF inbox[e] # None THEN "x_inbox" ELSE "x_read")
          /\ job' = [job EXCEPT ![p].env = e]
    /\ UNCHANGED <<files, lock>>

FinishInbox(p) ==
    LET e == job[p].env IN
    /\ pc[p] = "x_inbox"
    /\ inbox' = [inbox EXCEPT ![e] = None]
    /\ UNCHANGED <<read, tomb, index, tail, quarantine, ledger, lock>>
    /\ \/ read[e] # None /\ Goto(p, "x_inbox", "x_read") /\ UNCHANGED job
       \/ read[e] = None /\ Goto(p, "x_inbox", Pick(p)) /\ Done(p, e)

FinishRead(p) ==
    /\ Goto(p, "x_read", Pick(p))
    /\ read' = [read EXCEPT ![job[p].env] = None]
    /\ Done(p, job[p].env)
    /\ UNCHANGED <<inbox, tomb, index, tail, quarantine, ledger, lock>>

\* A live bundle verifies; of a proven pair the inbox copy is redundant.
RecoverBundle(p) ==
    /\ \E e \in Envelope :
          /\ First(p, e)
          /\ tomb[e] = None /\ Verifiable(e)
          /\ Goto(p, "r_pick", IF HasPair(e) THEN "r_unpair" ELSE "r_row")
          /\ job' = [job EXCEPT ![p].env = e, ![p].at = Bundle(e)]
    /\ UNCHANGED <<files, lock>>

\* Fault: the wrong half of the pair is taken for the redundant one.
RecoverKeepsInbox(p) ==
    /\ Goto(p, "r_unpair", "r_row")
    /\ read' = [read EXCEPT ![job[p].env] = None]
    /\ UNCHANGED <<inbox, tomb, index, tail, quarantine, ledger, lock, job>>

RecoverUnpair(p) ==
    /\ Goto(p, "r_unpair", "r_row")
    /\ inbox' = [inbox EXCEPT ![job[p].env] = None]
    /\ UNCHANGED <<read, tomb, index, tail, quarantine, ledger, lock, job>>

RecoverRow(p) ==
    LET e == job[p].env  t == job[p].at IN
    /\ pc[p] = "r_row"
    /\ UNCHANGED <<inbox, read, tomb, tail, quarantine, ledger>>
    /\ \/ /\ RowAccepted(e, t)
          /\ index' = WithRow(e, t)
          /\ Goto(p, "r_row", "r_pick")
          /\ Done(p, e)
          /\ UNCHANGED lock
       \/ ~RowAccepted(e, t) /\ Return(p) /\ UNCHANGED index

Recover(p) ==
    \/ RecoverBegin(p) \/ RecoverList(p)
    \/ RecoverBundle(p) \/ RecoverUnpair(p) \/ RecoverRow(p)

\* Verified, indexed, and not yet old enough.
SweepRetain(p) ==
    /\ Goto(p, "s_pick", "s_pick")
    /\ \E e \in Envelope :
          /\ First(p, e)
          /\ tomb[e] = None /\ Verifiable(e) /\ ~tail /\ RowIs(e, Bundle(e))
          /\ job[p].instant < Bundle(e) + EffectiveTTL(p, e)
          /\ Done(p, e)
    /\ UNCHANGED <<files, lock>>

\* Fault: the sweep does not ask for the index row.
SweepUnindexed(p) ==
    /\ Goto(p, "s_pick", "s_body")
    /\ \E e \in Envelope :
          /\ First(p, e) /\ tomb[e] = None /\ Verifiable(e)
          /\ job[p].instant >= Bundle(e) + EffectiveTTL(p, e)
          /\ tomb' = [tomb EXCEPT ![e] = [received |-> Bundle(e), expired |-> job[p].instant,
                                          ttl |-> EffectiveTTL(p, e)]]
          /\ job' = [job EXCEPT ![p].env = e]
    /\ UNCHANGED <<inbox, read, index, tail, quarantine, ledger, lock>>

\* _expire_bundle: the tombstone is published before anything is deleted.
SweepTombstone(p) ==
    /\ Goto(p, "s_pick", "s_body")
    /\ \E e \in Envelope :
          /\ First(p, e)
          /\ tomb[e] = None /\ Verifiable(e) /\ ~tail /\ RowIs(e, Bundle(e))
          /\ job[p].instant >= Bundle(e) + EffectiveTTL(p, e)
          /\ tomb' = [tomb EXCEPT ![e] = [received |-> Bundle(e),
                                          expired |-> job[p].instant,
                                          ttl |-> EffectiveTTL(p, e)]]
          /\ job' = [job EXCEPT ![p].env = e]
    /\ UNCHANGED <<inbox, read, index, tail, quarantine, ledger, lock>>

\* The authoritative copy is removed first, the crash copy after it.
SweepBody(p) ==
    LET e == job[p].env IN
    /\ pc[p] = "s_body"
    /\ UNCHANGED <<tomb, index, tail, quarantine, ledger, lock>>
    /\ \/ /\ read[e] # None
          /\ read' = [read EXCEPT ![e] = None]
          /\ UNCHANGED inbox
          /\ IF inbox[e] # None
             THEN Goto(p, "s_body", "s_left") /\ UNCHANGED job
             ELSE Goto(p, "s_body", "s_pick") /\ Done(p, e)
       \/ /\ read[e] = None
          /\ inbox' = [inbox EXCEPT ![e] = None]
          /\ UNCHANGED read
          /\ Goto(p, "s_body", "s_pick") /\ Done(p, e)

SweepLeftover(p) ==
    /\ Goto(p, "s_left", "s_pick")
    /\ inbox' = [inbox EXCEPT ![job[p].env] = None]
    /\ Done(p, job[p].env)
    /\ UNCHANGED <<read, tomb, index, tail, quarantine, ledger, lock>>

Sweep(p) ==
    \/ SweepBegin(p) \/ SweepList(p)
    \/ SweepRetain(p) \/ SweepTombstone(p) \/ SweepBody(p) \/ SweepLeftover(p)

-----------------------------------------------------------------------------
(* scan: for each indexed row, three looks at the files and no lock *)

ScanTombstone(p, e) ==
    /\ HasRow(e)
    /\ Goto(p, "idle", "c_inbox")
    /\ job' = [job EXCEPT ![p].env = e, ![p].seen = IF tomb[e] # None THEN {"tomb"} ELSE {}]
    /\ UNCHANGED <<files, lock>>

\* Fault: where a tombstone was seen the body is not looked for.
ScanInboxTrusting(p) ==
    /\ Goto(p, "c_inbox", IF job[p].seen = {} THEN "c_read" ELSE "c_done")
    /\ job' = [job EXCEPT ![p].seen =
          IF @ = {} /\ inbox[job[p].env] # None THEN {"inbox"} ELSE @]
    /\ UNCHANGED <<files, lock>>

ScanInbox(p) ==
    /\ Goto(p, "c_inbox", "c_read")
    /\ job' = [job EXCEPT ![p].seen = IF inbox[job[p].env] # None THEN @ \cup {"inbox"} ELSE @]
    /\ UNCHANGED <<files, lock>>

ScanRead(p) ==
    /\ Goto(p, "c_read", "c_done")
    /\ job' = [job EXCEPT ![p].seen = IF read[job[p].env] # None THEN @ \cup {"read"} ELSE @]
    /\ UNCHANGED <<files, lock>>

ScanReport(p) == pc[p] = "c_done" /\ Return(p) /\ UNCHANGED files

Scan(p) ==
    \/ \E e \in Envelope : ScanTombstone(p, e)
    \/ ScanInbox(p) \/ ScanRead(p) \/ ScanReport(p)

-----------------------------------------------------------------------------
(* ledger.reconcile: restores a missing row from the bundle, and appends it
   without the lifecycle lock *)

ReconcileState(p, e) ==
    /\ \E event \in Events : <<event, e>> \in ledger
    /\ State(e) \in {"unread", "read"}
    /\ ~tail /\ ~HasRow(e)
    /\ Goto(p, "idle", "k_read")
    /\ job' = [job EXCEPT ![p].env = e, ![p].seen = IF State(e) = "unread" THEN {"inbox"} ELSE {"read"}]
    /\ UNCHANGED <<files, lock>>

\* Fault: the copy seen a moment ago is trusted to be there still.
ReconcileReadUnchecked(p) ==
    /\ Goto(p, "k_read", "k_row")
    /\ job' = [job EXCEPT ![p].at =
          IF job[p].seen = {"inbox"} THEN inbox[job[p].env] ELSE read[job[p].env]]
    /\ UNCHANGED <<files, lock>>

\* The copy seen a moment ago may have moved: then the pass aborts.
ReconcileRead(p) ==
    LET e == job[p].env
        copy == IF job[p].seen = {"inbox"} THEN inbox[e] ELSE read[e] IN
    /\ pc[p] = "k_read"
    /\ UNCHANGED files
    /\ \/ /\ copy \notin {None, Torn}
          /\ Goto(p, "k_read", "k_row")
          /\ job' = [job EXCEPT ![p].at = copy]
          /\ UNCHANGED lock
       \/ (copy \in {None, Torn} \/ e \in Refusable) /\ Return(p)

ReconcileRow(p) ==
    LET e == job[p].env  t == job[p].at IN
    /\ pc[p] = "k_row"
    /\ index' = IF RowAccepted(e, t) THEN WithRow(e, t) ELSE index
    /\ Return(p)
    /\ UNCHANGED <<inbox, read, tomb, tail, quarantine, ledger>>

Reconcile(p) ==
    \/ \E e \in Envelope : ReconcileState(p, e)
    \/ ReconcileRead(p) \/ ReconcileRow(p)

-----------------------------------------------------------------------------
(* Interruptions *)

\* Waiting for a lock may end in LIFECYCLE_LOCK_TIMEOUT (msvcrt only).
LockTimeout(p) ==
    /\ pc[p] \in Waiting /\ lock # None
    /\ Return(p)
    /\ UNCHANGED files

\* Where the process is inside an rmtree of this copy.
DeletesInbox(p) ==
    \/ pc[p] \in {"o_unlink", "r_unpair", "s_left", "x_inbox"}
    \/ pc[p] = "s_body" /\ read[job[p].env] = None
DeletesRead(p) ==
    \/ pc[p] = "x_read"
    \/ pc[p] = "s_body" /\ read[job[p].env] # None

\* Process death: the OS releases the lock; an append or an rmtree under way
\* may be cut in the middle.
Crash(p) ==
    LET e == job[p].env IN
    /\ pc[p] # "idle" /\ crashes < MaxCrashes
    /\ crashes' = crashes + 1
    /\ pc' = [pc EXCEPT ![p] = "idle"]
    /\ job' = [job EXCEPT ![p] = NoJob]
    /\ lock' = IF lock = p THEN None ELSE lock
    /\ \/ UNCHANGED <<inbox, read, tail>>
       \/ /\ pc[p] \in {"d_row", "r_row", "k_row"}
          /\ ~tail /\ ~HasRow(e)
          /\ tail' = TRUE
          /\ UNCHANGED <<inbox, read>>
       \/ /\ TearsDeletes /\ DeletesInbox(p)
          /\ inbox' = [inbox EXCEPT ![e] = Torn]
          /\ UNCHANGED <<read, tail>>
       \/ /\ TearsDeletes /\ DeletesRead(p)
          /\ read' = [read EXCEPT ![e] = Torn]
          /\ UNCHANGED <<inbox, tail>>
    /\ UNCHANGED <<tomb, index, quarantine, ledger>>

-----------------------------------------------------------------------------
Step(p) ==
    \/ Deliver(p) \/ Open(p) \/ Recover(p) \/ Sweep(p) \/ Scan(p) \/ Reconcile(p)
    \/ PassDone(p) \/ PassRefuse(p)
    \/ FinishExpiry(p) \/ FinishInbox(p) \/ FinishRead(p)

Next == \E p \in Proc : Step(p) \/ LockTimeout(p) \/ Crash(p)

Spec == Init /\ [][Next]_vars

\* Scheduling: a process that is in an operation keeps taking its steps, and the
\* kernel's lock queue does not pass a waiter over for ever.  Nothing obliges
\* anyone to begin an operation.
Fairness == \A p \in Proc :
    /\ WF_vars(pc[p] \notin Waiting \cup {"idle"} /\ Step(p))
    /\ SF_vars(pc[p] \in Waiting /\ Step(p))

FairSpec == Spec /\ Fairness

-----------------------------------------------------------------------------
(* Properties *)

\* The RECEIVED_AT this mailbox stands by, from the strongest evidence it has.
Received(e) == IF tomb[e] # None THEN tomb[e].received ELSE Bundle(e)

\* An interrupted delete never leaves damage as the only evidence of a message:
\* a torn directory is backed by a tombstone or by a whole read copy, and every
\* whole copy carries the instant of first receipt (postoffice.py: _publish_dir,
\* _expire_bundle and recover order their writes for this).
ReceiptsAgree == \A e \in Envelope :
    /\ Received(e) # Torn
    /\ inbox[e] \in Nat => inbox[e] = Received(e)
    /\ read[e] \in Nat => read[e] = Received(e)

\* index.jsonl has at most one row for an envelope, and each row names a message
\* the mailbox holds or has buried, with its original RECEIVED_AT, although
\* deliver, recover and ledger.reconcile all append, the last without the
\* lifecycle lock, and an append may be cut short.
IndexTruth ==
    /\ \A i, j \in DOMAIN index : index[i].id = index[j].id => i = j
    /\ \A e \in Envelope, i \in DOMAIN index :
          index[i].id = e => index[i].at = Received(e)

\* A tombstone is only ever written over an indexed message, and not before the
\* instant that message's TTL allows under some process's policy.
TombstoneTruth == \A e \in Envelope : tomb[e] # None =>
    /\ RowIs(e, tomb[e].received)
    /\ \E p \in Proc : tomb[e].expired >= tomb[e].received + EffectiveTTL(p, e)

\* The ledger never runs ahead of the files: what it says was received, opened
\* or quarantined was, whatever crashed after the note.
LedgerTruth == \A e \in Envelope :
    /\ <<"RECEIPT_OBSERVED", e>> \in ledger => State(e) # "absent"
    /\ <<"OPENED", e>> \in ledger => State(e) \in {"read", "expired"}
    /\ <<"QUARANTINED", e>> \in ledger => e \in quarantine

\* The lock-free scan, whose three looks may straddle any other operation: a
\* message it passes over as expired has no body left, one it passes over as
\* read was opened, and one it finds nowhere has expired under its eyes.
ScanTruth == \A p \in Proc : pc[p] = "c_done" =>
    LET e == job[p].env IN
    /\ job[p].seen = {"tomb"} => ~HasBody(e)
    /\ job[p].seen = {"read"} => State(e) \in {"read", "expired"}
    /\ job[p].seen = {} => State(e) = "expired"

\* Nothing left for maintenance: no crash copy, no body beside its tombstone, no
\* body without its row.
Clean == \A e \in Envelope :
    /\ ~HasPair(e)
    /\ HasBody(e) => (tomb[e] = None /\ HasRow(e))

\* A recover that gets through its list leaves a clean mailbox, although other
\* processes died at any point before it and ledger.reconcile runs beside it.
RecoverEndsClean == [][\A p \in Proc :
    (pc[p] = "r_pick" /\ job[p].todo = {} /\ pc'[p] = "idle" /\ crashes' = crashes)
        => Clean]_vars

\* No refusal is needed to say that: where a crash never lands inside an rmtree
\* and every process accepts the same keys under the same policy, a recover that
\* is not itself killed always leaves a clean mailbox, whatever it found
\* (spec/03-POST-OFFICE.md: "One maintenance pass converges every expiry
\* crash/BOTH state").  Only a row append torn beside it by ledger.reconcile may
\* stop it.
InRecover(p) ==
    \/ pc[p] \in {"r_pick", "r_unpair", "r_row"}
    \/ pc[p] \in {"x_inbox", "x_read"} /\ job[p].instant = None

RecoverConverges == [][\A p \in Proc :
    (InRecover(p) /\ pc'[p] = "idle" /\ crashes' = crashes) => (Clean \/ tail)]_vars

\* spec/03-POST-OFFICE.md, of recover on a tombstone beside its bodies: "One
\* maintenance pass converges every expiry crash/BOTH state (D-039)", the only
\* crash window being "tombstone published, body not deleted".
ExpiryConverges == [][\A p \in Proc :
    (InRecover(p) /\ pc'[p] = "idle" /\ crashes' = crashes)
        => (tail \/ \A e \in Envelope : tomb[e] # None => ~HasBody(e))]_vars

\* The same page, of an expired message: "header scan skips it and does not fail
\* because the intentionally expired body is gone".
ScanSkipsExpired == \A p \in Proc :
    (pc[p] = "c_done" /\ job[p].seen = {}) => tomb[job[p].env] = None

\* The mailbox implements the promised life cycle: one instant of receipt, one
\* opening, and no way back, through every crash, replay and race.
Lifecycle == INSTANCE MailLifecycle WITH
    state <- [e \in Envelope |-> State(e)],
    received <- [e \in Envelope |-> Received(e)]
LifecycleRefined == Lifecycle!Spec

\* Every operation that is begun comes to an end.
OperationsReturn == \A p \in Proc : (pc[p] # "idle") ~> (pc[p] = "idle")
=============================================================================
