# saimail, specified

TLA+ specifications of saimail (`src/saimail`), the TLC configurations that
check them, and TLAPS proofs about them. saimail is a local-first mail system
for agents: messages are sealed containers in directories, each seat's mailbox
is a tree of files, and every guarantee rests on the order of renames, appends
and unlinks, on a handful of lock files, and on commands that may be killed at
any moment and started again.

| module | models | implements | proofs |
|---|---|---|---|
| `MailLifecycle` | what a mailbox promises about one message | - | (is implemented) |
| `PostOffice` | `postoffice.py`, row repair of `ledger.py` | `MailLifecycle` | `PostOfficeProofs` |
| `ColdArchive` | `cold_archive.py` on top of `PostOffice` | - | `ColdArchiveProofs` |
| `Outbox` | `outbox.py` (and its callers in `workspace.py`) against a receiver | - | `OutboxProofs` |
| `Ledger` | `ledger.py`, `_journal_cache.py` | - | `LedgerProofs` |
| `HumanAttention` | `human_attention.py` | - | `AttentionProofs` |
| `OperatorInterrupt` | `operator_interrupt.py` on top of `HumanAttention` | `HumanAttention` | `AttentionProofs` |
| `Catchup` | `catchup.py` | - | `CatchupProofs` |
| `Trust` | `trust.py`, `participants.py`, the senders of `workspace.py`, `notify.py` | - | `TrustProofs` |
| `FutureLetter` | `future_letter.py` | - | `FutureLetterProofs` |

`MC*.tla` and `MC*.cfg` are their instances for TLC. `PROJECT.json` maps every
definition to the source lines it stands for and lists runs, mutants, hazards,
findings and theorems.

    tlc -workers 2 -config MCPostOffice.cfg MCPostOffice     # a run
    tlapm PostOfficeProofs.tla                               # a proof module

## 1. The system

**Post Office** (`postoffice.py`). State: bundles in `inbox/<seat>/<digest>/`
and `read/<seat>/<digest>/` (container and `receipt.json` with RECEIVED_AT),
tombstones in `expired/<seat>/`, `index.jsonl`, `quarantine/`, the lifecycle
lock and `index.lock`. Operations: `deliver`, `peek_message`, `open_message`,
`reopen_message`, `recover`, `sweep_expired`, `scan`, `ensure_index_row`. Hard:
several processes, of which `scan` takes no lock and `ledger.reconcile` only the
index lock; a kill between any two file operations, inside an append or inside
an `rmtree`; a wall clock that may step back; replays of the same container at
any stage of its life. Correct if a message has one instant of receipt, is
opened at most once and never comes back; if no damaged directory is ever the
only evidence; if index, tombstones and ledger agree with the files; and if one
maintenance pass repairs what crashes left.

**Cold archive** (`cold_archive.py`). State: one record per message (container,
receipt, manifest) in `cold/`. Operations: `archive`, `prune`,
`restore`. Reads and removes bundles of the Post Office and publishes them
again, without the lifecycle lock. Correct if nothing is removed hot before it
is whole cold, if provenance survives, and if a restore restores what was there.

**Outbox** (`outbox.py`, driven by `workspace.py`). State: intent files in
`outbox/intents/` and `outbox/intents/terminal/`, sealed copies in `outbox/`,
the order of RECORDED_AT, the outbox lock. Operations: submit with an
idempotency key, seal, deliver, `resume_outbox`, `retry_intent`, `redeliver`. It
calls the receiver's `deliver` in the sender's process and notes facts in the
ledger. Hard: deaths between sealing, copying, delivering, noting and writing
the state. Correct if one key is one message, if what it says about deliveries
is true, and if no intent is stranded or silently retried.

**Communication ledger and journal cache** (`ledger.py`, `_journal_cache.py`).
State: `ledger/events.jsonl`, an append-only hash chain; in every process a
validated snapshot keyed by the file's stat signature. Operations: `append`
(best effort, called by outbox and Post Office after the fact), `read_events`,
`feed`, `fold`, the repairs of `reconcile`. Hard: readers without a lock, torn
last lines, snapshots that are stale when a writer chains on them, a history
that is trimmed under a follower. Correct if the chain never breaks, a follower
hears everything once, and only faults lose a record.

**Human attention queue** (`human_attention.py`). State: admitted candidates,
lease files, immutable presented receipts, `attention.lock`. Operations:
`admit_receiver_candidate`, `reserve_next`, `ack_presented`, `release`. Hard:
clock set back between commands, a lease racing its acknowledgement, a death
between receipt and lease removal. Correct if no rolling window exceeds the
budget, and if the queue never refuses its own history.

**Operator interrupt** (`operator_interrupt.py`). State: a ledger file per
decision (PENDING, PRESENTED, its reservation) beside the queue's candidate,
`interrupt.lock`. Operations of `Receiver`: `admit`, `reserve`, `acknowledge`,
`release`. Hard: each command takes two locks in turn and may die in between; a
decision may be corrected while it is being shown; the cap on pending decisions
is counted before it is used. Correct if ledger and queue agree, if what is
presented has a receipt, and if no decision is offered again to a caller whose
lease still stands.

**Catch-up executor** (`catchup.py`). State: `queue.json` (one entry per logical
job), `queue.lock`, `service.json`. Operations: `plan`, `claim`, `complete`,
`park`, `run`; it asks outbox, ledger, staging directories and trust what is
owed. Hard: runs that die with claims in flight, sources that change between
being asked and being written down, several processes working on one queue.
Correct if claims stay bounded and are always reaped, histories are never
refreshed, and no debt disappears unsettled.

**Trust state and participants** (`trust.py`, `participants.py`, the resolvers
of `workspace.py`, `notify.py`). State: `peers.json`, `trust.json` (pins and
mode), `participants.json`, each rewritten whole under its lock. Operations:
`observe`, `pin`, `revoke`, `block`, `set_mode`, `expect_rotation`,
`apply_rotation`, `admit_participant`, `revoke_participant`, `add_recipient`;
the gate is asked by send, resume, notify, and not by reply and redeliver. Hard:
whole-file rewrites by several processes, long sequences of commands of which
each must leave a registry the next can read, an answer of the gate that is
older than the delivery. Correct if the registry stays readable, refusals are
final, keys move by signature only, and no rewrite undoes another.

**Future letters** (`future_letter.py`). State: letters sealed and delivered
into the workspace's own mailbox, their projection `future-letters/index.jsonl`,
`cosignatures.jsonl`, exported bundles, `registry.lock`. Operations: `create`,
`list_letters`, `open_letter`, `reopen_letter`, `reconcile`, `export_bundle`,
`import_bundle`, `cosign`, `import_cosignatures`. Hard: body, index row and
projection are three writes; opening and signing hold no lock; a recovery bundle
seals its letter anew; rows may be edited by hand. Correct if a letter is
delivered once, if the projection that listing and creating go by has every
letter, and if a signer is recorded once. (That the window sealed in a letter
decides, and not its projection, is one guard of `Peek`; no property repeats it.)

**Legacy letters** (`legacy.py`), **correspondence and workspace**
(`correspondence.py`, `workspace.py`, `inbox_query.py`, `letters.py`),
cryptography and parsing (`envelope.py`, `sailetter.py`, `sainote.py`,
`sailang/`), key custody, the Saipen seam, canary and provenance tools, advice
generation, selection and promotion, desktop and command line, lab and release
tooling: `PROJECT.json` lists them with what is modelled of them, or why nothing
is (section 6).

### How the parts meet

The sender's `Outbox` calls the receiver's `PostOffice.deliver` while it holds
the outbox lock. In `Outbox` the receiver is assumed, not checked: it takes the
steps of `MailLifecycle` and has an index row, which repair, expiry and prune need or write and an open does not;
`PostOfficeProofs` shows that a `PostOffice` is such a receiver (the life cycle
in `MailboxImplementsLifecycle`, the row in `RowsFollow`), so the two compose
through that abstract specification instead of through a product of their states. `FutureLetter` sees the mailbox in the same way, as
body, index row and three things that others do to them. `ColdArchive` EXTENDS
`PostOffice` and interleaves its curators with every mailbox step, because cold
storage takes no mailbox lock. What cold storage does to the life cycle is
exactly what `MailLifecycle` does not allow, so the outbox model has it as a
step of its own (`Prunable`). `OperatorInterrupt` EXTENDS `HumanAttention`, runs
its commands in several processes and interleaves its own sections with them;
that it implements the queue is proved, so the budget of the queue holds in it.
`Ledger` has the steps of outbox and Post Office as errands: in each, the order
of the deed and of the notes about it. `Catchup` sees outbox, ledger, staging
and trust only through their answers (`source`), which may change at any moment.

## 2. From code to model

In every module one action is the code from one durable write (or one look
without a lock) to the next; checks that no other process can invalidate are
merged with the write they guard, and a lock is taken by the first action of its
critical section. A death is possible at every label.

**PostOffice.** `inbox[e]`, `read[e]`: the bundle directory of e as its
RECEIVED_AT, `None` (no directory) or `Torn` (some of its files are gone);
`tomb[e]`: `expired/<seat>/<digest>.json`; `index`, `tail`: the rows of
`index.jsonl` and whether it ends in an unterminated append; `quarantine`,
`ledger`: quarantined containers and receiving-side notes; `lock`: the lifecycle
lock; `pc[p]`, `job[p]`: where a process is and its locals. `Deliver`, `Open`,
`Recover`, `Sweep`, `Scan` and `Reconcile` are the operations; `Crash` kills a
process anywhere in one, may cut an append short, and, when `TearsDeletes`, may
leave an `rmtree` half done. Retention is `min(sender TTL, receiver default)`,
with a policy per process because each process carries its own. Gate verdicts
(parse, signature, registries) are the set `Refusable`, whose members may be
accepted or refused at each attempt. A refused or failed open (`OpenRefuse`) may
end an attempt in any state. `bundle_state` is read at one instant by reconcile
and archive, but as three separate looks by the lock-free scan, where the
difference shows.

**ColdArchive.** `cold[e]` is a cold record (place it was archived from,
RECEIVED_AT, ARCHIVED_AT, whether it has its index row, pinned, pruned, whether
the manifest can be parsed) and `task[c]` the step and locals of one command.
Records appear by one rename; the manifest is rewritten in place and may be
torn. `CuratorStops` is a death or an I/O error at any step.

**Outbox.** `active`, `terminal`, `recorded` are the intent files and their
order, `copies` the sealed copies, `owner` the key a container was sealed for,
`job` the command that holds the outbox lock. The receiver is `state`,
`received` (as in `MailLifecycle`) and `row`. Attempt counts and
`30 * 2^(n-1) <= 3600` seconds are abstracted to a flag `due` that `BackoffEnds`
sets again; alias resolution, gate and flood control are outcomes of an attempt.
An answer may fail after the body is durable at the receiver. `redeliver` does
not take the outbox lock and is therefore always enabled.

**Ledger.** `file` and `tail` are the rows and the state of the last line
(clean, cut, without newline, no file); a row's hash is its place, a stat
signature is the number of rows and the tail, because the code only appends.
`cache[p]` is the process's snapshot with its signature, `job[p]` the call it is
in (load, read, confirm, open, write, or the window of a feed), `errand[p]` what
it is doing and has still to note. A write may be cut short by death or a full
disk; `note` swallows every failure, and `lost` remembers it. A history may
start at a later number (`Retained`). `follower` is a consumer of `feed` that
keeps the cursor it was given.

**HumanAttention.** `admitted`, `lease`, `presented` are the three kinds of
files, `job` the command that holds `attention.lock`, `issued` counts
reservation tokens. Every command reads the clock once, as an arbitrary instant.
Cleaning up leases is one unlink per step. Candidate ids are numbers because the
code orders ties by their text. The showing itself happens in an application
outside this code: between a reservation and its acknowledgement the model
assumes nothing.

**OperatorInterrupt.** `entry[d]` is the ledger file of a decision, `shown[t]`
the letter `reserve` returned with a token, `call[p]` the command a process is
in. The sections under `interrupt.lock` are one action each, except the
hand-back of an orphan, which goes on to take `attention.lock`. A decision is
its queue candidate and a class its rank, so a corrected letter is another text,
a reclassified one another class.

**Catchup.** `queue[j]` is an entry (state, attempts, first owed, next attempt,
claimed at), `source[j]` what its owner would answer now, `planning` the plan
that holds the lock and what it has found, `hand[r]` what run r has claimed and
not yet settled, with the verdict it read. A command under `queue.lock` is one
action; `plan` is two, because the sources it asks are not under that lock.
`WriteTorn` is a death inside the in-place rewrite of `queue.json`, after which
every command refuses. `source = "settled"` is proof that the job was done;
`"quiet"` is nothing owed without such proof. `waived` remembers jobs that
somebody completed by hand while they were owed and exists for the properties
only.

**Trust.** `peers`, `registry`, `participants` are the three files, `copies` the
identities that containers were sealed to, `receipts` the rotations both keys
signed, `job[p]` a command between reading a registry and writing it, or a send
between the gate's answer and the delivery. An identity is a pair of keys with
the seat its card names. `CheckRecord` is `_check_record`, over a pin's state,
keys, origin, pending identity and rotation history. `EditPeers` is the
operator's editor, which the repository's tests use.

**FutureLetter.** `mail[e]` is the e-th delivered envelope with its body's place
and its index row (written by the deliverer or, later, by `recover`),
`registry[e]` its projection row (true, drifted, or another letter's), `torn`
the files with a damaged last line, `sigs` how often each signer is recorded,
`exports` the containers of bundles at hand, `job[p]` a command. The dedup key
of a letter is the artifact it was imported from, or itself. `Sweep`, `OpenMail`
and `Recover` are what the mailbox does besides, `EditRow` and `LoseFile` what
people do.

## 3. What the runs check

| run | instance | shows |
|---|---|---|
| `postoffice_mailbox` | 2 messages (one with a sender TTL of 0), 2 processes, 2 instants, 1 crash | `RecoverEndsClean`, `RecoverConverges`, and that the mailbox implements `MailLifecycle` |
| `postoffice_policies` | 1 message that a registry may refuse, 2 processes with different retention, 3 instants, 1 crash, torn deletes, fair steps | `ReceiptsAgree`, `IndexTruth`, `TombstoneTruth`, `LedgerTruth`, `ScanTruth`, `OperationsReturn` |
| `cold_archive` | 1 message, 1 mailbox process, 1 curator, 2 crashes | `NothingLost`, `ColdProvenance`, `IndexOnce` |
| `outbox` | 2 keys, 2 requests, 2 containers (one prunable), budget 1, 1 crash | `OneMessage`, `CopyBeforeDelivery`, `DeliveredTruly`, `NeverStranded`, `FailedStays`, `KeyKeepsItsMessage` |
| `ledger` | 1 sent and 1 received message, 2 processes, 4 rows, pages of 2, a trimmed history, 1 fault | `ChainIntact`, `FollowerMissesNothing`, `OnlyFaultsLose` |
| `human_attention` | 2 candidates, 2 ranks, budget 1 in a window of 2, leases of 2, 5 instants, 4 tokens | `HistoryAccepted`, `BudgetHolds`, `BestGoesFirst` |
| `operator_interrupt` | 3 decisions, one of them corrected and reclassified, 2 processes, cap 1, 2 instants, 2 tokens | `CandidateBehindEntry`, `PresentedHasReceipt`, `PendingAlmostBounded`, `OfferedOnce` |
| `catchup` | 1 delivery and 1 trust question, 1 run, limit 1, timeout 1, cooldowns 1 and 2, 2 claims per entry, 2 instants | `InFlightBounded`, `DeliveriesNotDropped`, `DebtHistoryKept`, `ClaimsUseTheirRoom` |
| `trust` | 1 alias, 3 identities of one seat, 2 processes, 2 receipts, 2 rotations, 1 edit by hand | `RegistryReadable`, `RefusalIsFinal`, `KeysMoveBySignature`, `NoLostUpdate`, `NoSilentOverwrite` |
| `future_letter` | 1 letter with a window, 2 processes, 1 signer, 3 instants, 2 copies, 1 import | `OneCopy`, `ReconcileComplete`, `RosterAlmostSingle` |
| `postoffice_torn_delete` | 1 message, torn deletes | counterexample to `ExpiryConverges` (finding 1) |
| `trust_reply` | as `trust` | counterexample to `RefusalBinding` (finding 2) |

The comment above each property says which promise of the code it states. The
other configurations (`MCPostOfficeScan`, `MCColdRestore`, `MCOutboxReplay`,
`MCLedgerRetry`, `MCInterruptOrphan`, `MCInterruptPresented`, `MCTrustStale`,
`MCCatchupDropped`) reproduce the
observations of section 7.

### Why these bounds

*PostOffice.* A pass refuses or goes on per object, so two messages show one
blocking the next; two processes give every race between a lock holder and a
lock-free reader or repairer; instants matter only as before, at or after the
TTL, and as earlier or later than another reading. Further processes wait for
the same lock. One crash reaches each torn state and leaves a live process to
meet it. `RecoverConverges` is promised only where deletes are not torn; torn
deletes are in the run of the invariants. Everything but liveness is also proved
without bounds. Envelopes cannot be permuted (passes visit them in order);
processes can, where their policies are equal. No symmetry is used with
liveness.

*ColdArchive.* One message, because messages interact only through the order of
passes and the index; two deaths cover a curator and the process beside it, or a
repair that dies. Further messages, curators and processes are the proofs'.

*Outbox.* Two keys and a budget of one make a resume leave something behind;
two requests make a key conflict; two containers of which one can be pruned
cover both receivers. One death is complemented by the proofs, which allow any
number.

*Ledger.* A sent message has the longest sequence of notes and a received one
runs beside it; with two processes each snapshot meets the other's appends. Four
rows are two pages of the follower, and one fault leaves a torn line for a live
writer. More rows, processes and faults are covered by the proofs.

*HumanAttention.* Window and lease are two ticks and the clock has five, so a
receipt can be inside, at the edge of and outside a window in both directions.
Four reservations let both candidates be reserved, expire and be reserved again.

*OperatorInterrupt.* One decision is corrected and reclassified while two others
compete with it and the cap of one is overshot by the second process; leases and
windows of one tick expire in a clock of two. The budget itself is proved, out of
the queue's.

*Catchup.* With a limit of one, two entries already compete for room; a timeout
of one tick in a clock of two makes claims both fresh and stale. The single run
is joined by commands given by hand, which stand for any other process,
including one that completes or parks an entry the run holds. Reconcile and
residue entries have no instance of their own: for the queue the first is a
delivery whose proof may go away again, the second a trust question.

*Trust.* The registries are maps whose entries the commands touch one at a time;
one alias with three keys gives every sequence of pins, rotations and refusals up
to the second rotation. That an entry of another alias survives is the proofs'
(`UpdatesSurvive`); the run has the peer, the pin and the seat of one.

*FutureLetter.* Two copies are one too many already; one import is a letter that
comes back with another identity. The clock is before, inside and after the
window. Foreign bundles, several letters and several signers are left to the
proofs, for which none of these bounds exist.

`MaxCrashes`, `MaxFaults`, `MaxTokens`, `MaxAttempts`, `MaxRows`, `MaxReceipts`,
`MaxRotations`, `MaxEdits`, `MaxCopies` and `MaxImports` bound counters for TLC
only. Every property has a plausible fault (the operators marked "Fault" in the
modules) that breaks it in its own run. Deadlock is checked in every run.

## 4. Fairness

Only `postoffice_policies` assumes fairness (`FairSpec`). A process that is
inside an operation goes on (weak fairness on its steps), and one that waits for
the lifecycle lock gets it if it is free again and again (strong fairness): the
kernel's `flock` queue does not pass a waiter over for ever, and where the lock
is polled (`msvcrt`) the wait ends at its deadline (`LockTimeout`). Nothing is
assumed about an operation being started. No daemon or timer runs `recover`,
`sweep_expired`, `resume_outbox`, `reconcile` or `run` (spec/28 section 6), so
the other modules promise nothing that only a next command could bring about.

## 5. What is proved

All theorems are of the form `Spec => []Invariant`, `Spec => [][Action]_vars` or
`Spec => Abstract!Spec`, for every value of the constants that satisfies the
`ASSUME`s of the module: number sets that are subsets of `Nat`, finite sets
where cardinalities are taken, and null values that differ from the data. One
theorem has a hypothesis of its own, which is named below.

**PostOfficeProofs**: every safety property of the runs: `TypeCorrect`,
`ReceiptsNeverDisagree`, `IndexAlwaysTrue`, `TombstonesAlwaysTrue`,
`MailboxImplementsLifecycle`, `LedgerNeverAhead`, `ScanTellsTruth`,
`RecoverLeavesClean`, `OneRecoverConverges`; and two that only proofs state,
`LockHeldInside` and `RowsFollow`. None of the invariants is inductive
alone. `IInv` adds `LockInv` (a process is at a label of `Holding` exactly when
it holds the lock), the shape of the job at each label, and `JobInv`: what a
process remembers about its message (the instant it read, that the tombstone is
there, that a bundle it is about to remove is redundant) is still true of the
files, because only lock holders can falsify it, or, for reconcile without the
lock, because RECEIVED_AT never changes once there is evidence of it. Each
action then maps to one step of `MailLifecycle` or a stutter. From there:
`LedgerTruth` follows because states only go onward; `ScanTruth` because what a
look told (`Saw`) is kept by everybody else, which needs that every deleter has
a copy to delete (`CopyInv`: otherwise a half-done delete would bring a
directory back into being); `RecoverEndsClean` because what a recover has
crossed off stays clean under its lock (`Swept`). `OneRecoverConverges` assumes
`OnePolicy` (no torn deletes, no refused keys, one policy) and shows that then
the pass meets no object it could refuse.

**OutboxProofs**: `OutboxTypeCorrect`, `OneMessagePerKey`, `CopiesPrecede`,
`DeliveryClaimsTrue`, `QueueNeverStranded`, `FailureIsFinal`,
`KeysKeepTheirMessage`. `OutboxInv` joins `Evidence` (one file per
intent; what was sealed is owned by one key, kept in a copy before it is sent,
named by the intent that claims it) with `JobOK`, which ties the program counter
of the lock holder to the files it has and has not written yet. That a dead
job's half-written state satisfies `Evidence` is what makes recovery correct.

**LedgerProofs**: `LedgerTypeCorrect`, `ChainNeverBroken`, `FollowerHearsAll`,
`FaultsAloneLose`.
Readers hold no lock, so the argument is about stamps: with the same number of
rows the last line never goes back to a state it left, hence a stamp that is the
same before and after a load proves that the loaded value is the file
(`CallOK`, `CacheOK`), and the holder of the lock chains on the real last row.
`OnlyFaultsLose` needs what holds as long as there was no fault (`FaultFree`): an
unfinished last line is one that is being written, and nobody moved the file
under an appender between its stat, its read and its open (`Undisturbed`), so
none of its checks refuses.

**AttentionProofs**, of the queue: `AttentionTypeCorrect`,
`HistoryNeverRefused`, `WindowsAlwaysReserved`, `BudgetNeverExceeded`,
`BestFirst`. `BudgetHolds` is not inductive: the budget is spent at the
reservation, not at the acknowledgement. `AttentionInv` therefore counts leases
and receipts together in every window (`WindowReserved`) and carries `JobClock`:
the clock a command works with is not before any lease it has accepted. Of the
composition with the interrupt ledger: `InterruptImplementsQueue` (every step is
a step of the attention queue or a stutter, for any number of processes), hence
`InterruptBudget` and `InterruptBestFirst`; `LedgerFollowsQueue`,
`PresentedOnReceipt`, `PendingBound`, `NotOfferedUnderALease`. `LedgerInv` says of each
step of a call what the queue already holds for it; the bound is a count of what
waits and what is on its way, of which each process can add one. `OfferedOnce`
needs `TokensShown`: a receipt carries a token whose letter was shown, and the
lease of a token being shown is the lease of its own decision, so that a letter
for a decision that has its receipt has lost its lease.

**ColdArchiveProofs** extends `PostOfficeProofs`: `ColdTypeCorrect`,
`NothingIsLost`, `RecordsKeepProvenance`, `RowsStayUnique`, and without a run of
their own `UnarchivedKeepPromises`, `UnarchivedFollowLifecycle`,
`RecordsAreFaithful`. The mailbox's invariants do not hold here: a prune takes a
body and leaves its row and its ledger notes, a restore brings a body back, and
both do so between the steps of processes that hold the lifecycle lock. What
carries over is their version for one envelope, which is why the lemmas of
`PostOfficeProofs` about a write are stated per envelope: a step either leaves
the files of e alone or writes them as its writer's knowledge of e allows.
`ColdInv` claims promises and knowledge only of envelopes that have no record
(`HotTruth`, `HotKnown`), and of an archive about to publish that what it has
read is still so (`TaskInv`). When the record appears it is therefore true
(`Faithful`); afterwards nothing depends on the hot copies, because records are
never taken back.

**CatchupProofs**: `CatchupTyped`, `ClaimsBounded`, `HistoryKept`, `ClaimsWait`,
`ClaimsFill`, `NoDeliveryDropped`. `CInv` adds to type and bound that a run
holds known entries only. The bound itself follows from counting the survivors
of a reap and the newly claimed as disjoint sets. `NoDeliveryDropped` needs
`DInv`: a delivery in the queue has an intent (`DeliveriesAsked`), what the plan
in progress did not find owed has arrived (`PlanTrue`, although the sources go
on changing under it), and what a run took for settled still is when it settles
the entry (`VerdictTrue`). The last holds only because an intent never leaves
DELIVERED, and because entries keep their age, so that a verdict cannot slip to
another entry.

**TrustProofs**: `TrustTypeCorrect`, `RegistryStaysReadable`, `RefusalsFinal`,
`KeysFollowSignatures`, `UpdatesSurvive`, `RegistrationsStand`. The holder of a
registry's lock has computed the whole new file; nobody else writes it before
(`Exclusive`), so the draft still differs from the file in the entry the command
names and nowhere else (`DraftOK`), and each draft keeps `Good`, the check of
the next read with the receipts that justify its keys.

**FutureLetterProofs**: `FutureTypeCorrect`, `OneCopyOnly`,
`RebuildsAreComplete`, `RosterBounded`. The holder of `registry.lock`
(`Exclusive`) has every indexed letter that the projection lacks still on its
list, but for the one it is projecting (`Covered`), hence `ReconcileComplete`;
what it then does not find registered was never indexed (`FreshPublish`), and
that stays so up to its own index row (`FreshIndex`). The roster is a count of
recorded and pending signatures, of which each process can hold one.

## 6. What is only model-checked, and what is not modelled

Only model-checked: liveness (`OperationsReturn`; out of the prover's reach).
Every other property of a passing run has a theorem. The two counterexamples and
the observations of section 7 are runs of TLC.

Abstracted or left out in the modelled components: the contents of containers
and all cryptography; the streaming fallback of `publish.py`; `--pin`, retention
bounds, batch and reindex commands of the cold archive, and letters of a pinned
kind in its instance (one archived before its index row exists is not recognised
as pinned, `cold_archive.py:572`); attempt counts of the outbox; the outbox
repair of `ledger.reconcile` and the ledger's views; in catch-up the service
record, the notice and the list of observed residue; bundle formats, anchors,
quorum views and printing of future letters; refusal reasons and result views
everywhere.

Not modelled at all, because there is no protocol in it:

- `src/saimail_local.py`, `saimail_host.py`, `saimail_project.py`, the desktop
  (`gui_*.py`) and the rest of `workspace.py`: argument parsing, initialisation
  and presentation over the operations above;
- `src/lab`, `src/bench`, `src/tools`, `src/release`, `src/future_gate`: about
  half of the repository's implementation lines; experiments, measurements and
  evidence for releases, run by hand, not part of the running system;
- `envelope.py`, `sailetter.py`, `sainote.py`, `sailang/`: encoding, signatures
  and encryption, whose verdicts are inputs here; key custody: what an operating
  system's key store does;
- `selector.py`, `promotion.py`, `acceptance.py`, `ally_*.py`,
  `project_corpus.py`: pure functions and validation without shared state;
- the Saipen seam, the inbox and thread views, canary, quarantine and provenance
  tools: projections of files others own, recomputed at every call;
- `legacy.py`: one store under one lock, every file published immutably; what is
  worth saying of it is in section 7.

The share of source lines behind the models is therefore low for the repository
and high where the state is: most of `catchup.py`, `trust.py`,
`_journal_cache.py`, `outbox.py`, `postoffice.py` and `ledger.py`, and of the
rest the parts that write.

## 7. Findings and observations

Findings, each with a run:

1. `postoffice_torn_delete` (`postoffice.py:1680`): an expiry killed inside its
   `rmtree` leaves a directory that every later pass refuses, although
   spec/03-POST-OFFICE.md says one maintenance pass converges every crash state.
2. `trust_reply` (`workspace.py:1330`): a reply or a redelivery goes to a peer
   whose pin is revoked or blocked, because it finds the peer beside the gate.

Observations with a configuration that shows them:

- `MCPostOfficeScan` (`ScanSkipsExpired`, `postoffice.py:1791`): a scan that
  straddles a sweep fails on a message that expired as intended.
- `MCColdRestore` (`RestoreIdempotent`, `cold_archive.py:829`): a restore
  publishes to the place the message was archived from, even if it is hot
  somewhere else by now.
- `MCOutboxReplay` (`ReplayIsDuplicate`, `postoffice.py:1165`): a container that
  was opened and pruned is not recognised when it is replayed and becomes unread
  again.
- `MCCatchupDropped` (`NothingDropped`, `catchup.py:382`): a debt that comes back
  after its entry was retired is found by `plan` and never queued again.
- `MCLedgerRetry` (`FaultlessHistoryLegal`, `ledger.py:81`): a retry after a
  failure notes an order the transition table forbids, so that health finds a
  faultless record contradictory.
- `MCInterruptOrphan` (`NothingMeansNothing`, `operator_interrupt.py:587`): a
  candidate without its entry hides the decision behind it: reserve answers
  NOTHING_PENDING while one is pending.
- `MCInterruptPresented` (`PresentedStays`, `operator_interrupt.py:514`):
  spec/35 section 4 answers a newer letter ALREADY_PRESENTED once the decision
  was shown, but an admission that looked before the acknowledgement writes
  PENDING after it. The candidate is presented, so the queue never serves that
  entry again; a death between the receipt and `AckRecord` leaves the same
  state, although section 4b knows of no residue but a candidate without an
  entry. `CandidateBehindEntry` says that an entry has a candidate, not that
  the candidate is still to be served.
- `MCTrustStale` (`SendsStayAdmitted`, `workspace.py:1075`): the gate is asked
  when an alias is resolved; a peer revoked or blocked while its message is
  being delivered still gets it.

Observations made while modelling, which the models contain and no property
states:

- Outbox: an index error after the receiver published the body is terminal for
  the sender, although the message is there (`outbox.py:483`); a resume with a
  small budget spends it on the oldest due intents, so intents to unreachable
  seats can starve others (`outbox.py:606`). In a pass over many bundles the
  first that refuses ends the pass (`postoffice.py:1322`).
- Ledger: a death between a SEALED intent and its notes makes the later events
  illegal, and the fold says CREATED for ever; health says HEALTHY while appends
  are refused; a history that restarts numbers from 1, so an old cursor silently
  skips.
- Interrupt: a letter that was superseded between reserve and acknowledge is
  recorded as presented; the reservation stays in an entry after its lease ran
  out.
- Trust: an observed pin becomes TRUSTED by a rotation without an accepted
  source; after a rotation the verdict is IDENTITY_CHANGED until `peers.json` is
  edited by hand; notify resolves an alias, and submit resolves it again.
- Future letters: an indexed letter that lost its row and whose body is gone
  makes every rebuild refuse, and with it create, list, reconcile and import; a
  torn registry append does the same, and a torn cosignature file lets an open
  consume its transition before it refuses; a death between body and index row
  makes the next create deliver again (`OneCopy` says so); a signature that was
  recorded while another process signs is recorded twice
  (`RosterAlmostSingle`); an ordinary mailbox open moves a time-locked letter to
  READ; a sweep ignores the kind, so a letter that opens beyond the retention is
  destroyed before; importing the recovery export of an imported letter adds a
  copy each time; the import of a bundle of an expired letter answers DUPLICATE
  although no body is left. The dedup keys in registry rows are assumed
  unedited.
- Legacy: a death between the entry's directory and its intent leaves a
  directory that every retry refuses (`legacy.py:604`), and `all()` refuses as
  long as any entry is partial.

## 8. Plan

1. `ColdArchive`: pinned letters and their retention.
2. `Ledger`: the outbox repair of `reconcile`, and the fold against the state of
   the intent files.
3. `Legacy`: adoption and recovery, if it gets a second writer.
4. Composition of `FutureLetter` with `PostOffice` through a refinement of the
   three steps it assumes of the mailbox; `RowsFollow` is its first half.
