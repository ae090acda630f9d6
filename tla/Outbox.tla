------------------------------ MODULE Outbox ------------------------------
(***************************************************************************)
(* src/saimail/outbox.py: one workspace's durable outbox, sending to the   *)
(* mailbox of one other seat.                                              *)
(*                                                                         *)
(* An intent is a file in outbox/intents/ (active) that moves to           *)
(* outbox/intents/terminal/ when it is settled.  Every command holds the   *)
(* outbox lock from its first read to its last write, delivery included,   *)
(* so at most one job runs; its holder may die between any two durable     *)
(* steps, and the next command starts from what is on disk.  The receiver  *)
(* is assumed to behave as PostOffice is shown to, by MailLifecycle and    *)
(* its index: the sender's own process runs the receiver's deliver, and    *)
(* the receiver opens, expires and prunes at any moment.                   *)
(***************************************************************************)
EXTENDS Naturals, Sequences

CONSTANTS Key,         \* idempotency keys
          Request,     \* request digests
          Envelope,    \* containers that sealing may draw
          Time,        \* instants of the receiver's clock
          Budget,      \* how many intents one resume advances
          MaxCrashes,  \* how many jobs may die
          Prunable,    \* containers the receiver may prune to cold storage
          None

ASSUME BoundsAssumption ==
    Time \subseteq Nat /\ Budget \in Nat \ {0} /\ MaxCrashes \in Nat
ASSUME PrunableAssumption == Prunable \subseteq Envelope

VARIABLES
    active,     \* active[k]: the intent file of key k in the queue, or None
    terminal,   \* terminal[k]: its file in terminal history, or None
    recorded,   \* keys in the order of RECORDED_AT
    copies,     \* outbox/<digest>.senv: containers the sender keeps
    owner,      \* owner[e]: the key container e was sealed for, or None
    ledger,     \* DELIVERED and FAILED facts in the sender's delivery ledger
    state, received, row,  \* the receiver: lifecycle, RECEIVED_AT, index row
    job,        \* the command that holds the outbox lock
    crashes

files == <<active, terminal, recorded>>
sender == <<files, copies, owner, ledger>>
mailbox == <<state, received, row>>
vars == <<sender, mailbox, job, crashes>>

\* Where a message is in its life at the receiver.
MailStates == {"absent", "unread", "read", "expired"}

Queued == {"PENDING", "SEALED"}
Settled == {"DELIVERED", "FAILED"}

\* An intent: its state, the request its key is bound to, the container (None
\* while the plaintext record is there instead), and whether NEXT_ATTEMPT_AT
\* is unset or past.
Intents == [state : Queued \cup Settled, request : Request,
            env : Envelope \cup {None}, due : BOOLEAN]

ASSUME NoneAssumption == None \notin Key \cup Envelope \cup Time \cup Intents

NoJob == [step |-> "free", key |-> None, todo |-> {}, left |-> 0, keyed |-> FALSE,
          deliver |-> FALSE, force |-> FALSE, intent |-> None, then |-> "free"]
JobSteps == {"free", "tidy", "next", "advance", "store", "copy", "attempt", "answer",
             "commit", "retire"}
Jobs == [step : JobSteps, key : Key \cup {None}, todo : SUBSET Key, left : 0 .. Budget,
         keyed : BOOLEAN, deliver : BOOLEAN, force : BOOLEAN,
         intent : Intents \cup {None}, then : JobSteps]

OutboxTypeOK ==
    /\ active \in [Key -> Intents \cup {None}]
    /\ terminal \in [Key -> Intents \cup {None}]
    /\ recorded \in Seq(Key)
    /\ \A m, n \in 1 .. Len(recorded) : recorded[m] = recorded[n] => m = n
    /\ copies \subseteq Envelope
    /\ owner \in [Envelope -> Key \cup {None}]
    /\ ledger \subseteq {"DELIVERED", "FAILED"} \X Key
    /\ state \in [Envelope -> MailStates]
    /\ received \in [Envelope -> Time \cup {None}]
    /\ row \in [Envelope -> Time \cup {None}]
    /\ job \in Jobs
    /\ crashes \in 0 .. MaxCrashes

Init ==
    /\ active = [k \in Key |-> None]
    /\ terminal = [k \in Key |-> None]
    /\ recorded = <<>>
    /\ copies = {}
    /\ owner = [e \in Envelope |-> None]
    /\ ledger = {}
    /\ state = [e \in Envelope |-> "absent"]
    /\ received = [e \in Envelope |-> None]
    /\ row = [e \in Envelope |-> None]
    /\ job = NoJob
    /\ crashes = 0

-----------------------------------------------------------------------------
(* Reading and writing intents *)

\* _intent_path and _read: terminal history first; both at once is corruption.
Intent(k) == IF terminal[k] # None THEN terminal[k] ELSE active[k]
Unambiguous(k) == active[k] = None \/ terminal[k] = None

Step(name) == job.step = name
Goto(name) == job' = [job EXCEPT !.step = name]

\* ledger.note never fails its caller: the line may be missing.
Note(what, k) == ledger' \in {ledger, ledger \cup {<<what, k>>}}

Fail(i) == [i EXCEPT !.state = "FAILED", !.due = TRUE]
Backoff(i) == [i EXCEPT !.due = FALSE]
Sealed(i, e) == [i EXCEPT !.state = "SEALED", !.env = e]
Delivered(i) == [i EXCEPT !.state = "DELIVERED", !.due = TRUE]
Due(i) == [i EXCEPT !.due = TRUE]
NewIntent(r) == [state |-> "PENDING", request |-> r, env |-> None, due |-> TRUE]

\* Write intent i, decided on now, at the next step and go on from there.
WriteNext(i, then) == job' = [job EXCEPT !.step = "commit", !.intent = i, !.then = then]
Written(then) == job' = [job EXCEPT !.step = then, !.intent = None, !.then = "free"]

\* Fault: the queue's file is removed before its terminal copy is sure to be
\* on disk, where os.replace does both at once.
RetireInTwo(k) ==
    /\ terminal' \in {terminal, [terminal EXCEPT ![k] = active[k]]}
    /\ active' = [active EXCEPT ![k] = None]

\* os.replace to terminal history.
Retire(k) ==
    /\ terminal' = [terminal EXCEPT ![k] = active[k]]
    /\ active' = [active EXCEPT ![k] = None]

\* _write after a delivery: publish the state, then retire it.
Commit ==
    LET k == job.key IN
    /\ Step("commit") /\ Unambiguous(k)
    /\ IF terminal[k] # None
       THEN /\ terminal' = [terminal EXCEPT ![k] = job.intent]
            /\ Written(job.then)
            /\ UNCHANGED active
       ELSE /\ active' = [active EXCEPT ![k] = job.intent]
            /\ Written(IF job.intent.state \in Settled THEN "retire" ELSE job.then)
            /\ UNCHANGED terminal
    /\ UNCHANGED <<recorded, copies, owner, ledger, mailbox, crashes>>

RetireSettled ==
    /\ Step("retire")
    /\ Retire(job.key)
    /\ Goto("next")
    /\ UNCHANGED <<recorded, copies, owner, ledger, mailbox, crashes>>

-----------------------------------------------------------------------------
(* The commands, up to the first intent they advance *)

\* submit_send: a new key is recorded PENDING before anything is sealed, a
\* known key with the same request is resumed, with another one refused.
Submit(k, r, deliver, keyed) ==
    /\ Step("free") /\ Unambiguous(k)
    /\ \/ /\ Intent(k) = None
          /\ active' = [active EXCEPT ![k] = NewIntent(r)]
          /\ recorded' = Append(recorded, k)
       \/ /\ Intent(k) # None
          /\ Intent(k).request = r
          /\ UNCHANGED <<active, recorded>>
    /\ job' = [NoJob EXCEPT !.step = "advance", !.key = k, !.deliver = deliver,
                            !.keyed = keyed]
    /\ UNCHANGED <<terminal, copies, owner, ledger, mailbox, crashes>>

Workable(k, keyed) ==
    /\ active[k] # None
    /\ \/ active[k].state = "PENDING" /\ keyed
       \/ active[k].state = "SEALED" /\ active[k].due

\* resume_outbox: the queue is validated and read once; what cannot be
\* advanced is passed over without spending the budget.
Resume(keyed) ==
    /\ Step("free")
    /\ \A k \in Key : active[k] # None => Unambiguous(k)
    /\ job' = [NoJob EXCEPT !.step = "tidy", !.todo = {k \in Key : Workable(k, keyed)},
                            !.left = Budget, !.deliver = TRUE, !.keyed = keyed]
    /\ UNCHANGED <<sender, mailbox, crashes>>

\* Fault: a re-armed intent is sealed anew.
RearmedUnsealed(i) == [i EXCEPT !.state = "PENDING", !.env = None]

Rearmed(i) == [i EXCEPT !.state = IF i.env # None THEN "SEALED" ELSE "PENDING"]

\* Fault: resume passes over settled files left in the queue.
TidyNothing ==
    /\ Step("tidy")
    /\ Goto("next")
    /\ UNCHANGED <<sender, mailbox, crashes>>

\* Fault: a FAILED file left in the queue is taken for work.
TidyRearms ==
    /\ Step("tidy")
    /\ \/ \E k \in Key : /\ active[k] # None /\ active[k].state = "FAILED"
                         /\ active' = [active EXCEPT ![k] = Rearmed(active[k])]
       \/ UNCHANGED active
    /\ Goto("next")
    /\ UNCHANGED <<terminal, recorded, copies, owner, ledger, mailbox, crashes>>

\* _active_intents retires what a dead writer settled but did not move.
Tidy ==
    /\ Step("tidy")
    /\ \/ \E k \in Key : /\ active[k] # None /\ active[k].state \in Settled
                         /\ Retire(k)
                         /\ UNCHANGED job
       \/ /\ \A k \in Key : active[k] # None => active[k].state \in Queued
          /\ Goto("next")
          /\ UNCHANGED <<active, terminal>>
    /\ UNCHANGED <<recorded, copies, owner, ledger, mailbox, crashes>>

\* retry_intent: the unchanged FAILED file moves back into the queue first,
\* only then is the active state written.
Retry(k, keyed) ==
    /\ Step("free") /\ Unambiguous(k)
    /\ Intent(k) # None /\ Intent(k).state = "FAILED"
    /\ active' = [active EXCEPT ![k] = Intent(k)]
    /\ terminal' = [terminal EXCEPT ![k] = None]
    /\ job' = [NoJob EXCEPT !.step = "commit", !.key = k, !.deliver = TRUE,
                            !.force = TRUE, !.keyed = keyed,
                            !.intent = Rearmed(Intent(k)), !.then = "advance"]
    /\ UNCHANGED <<recorded, copies, owner, ledger, mailbox, crashes>>

Older(k, j) ==
    \E n \in 1 .. Len(recorded) : recorded[n] = k /\ \A m \in 1 .. n : recorded[m] # j

\* A resume goes on with the oldest intent left, within its budget.
NextIntent ==
    /\ Step("next") /\ job.left > 0
    /\ \E k \in job.todo :
          /\ \A j \in job.todo \ {k} : Older(k, j)
          /\ job' = [job EXCEPT !.step = "advance", !.key = k, !.todo = @ \ {k},
                                !.left = @ - 1]
    /\ UNCHANGED <<sender, mailbox, crashes>>

\* The command ends and gives up its lock.
Finish ==
    /\ Step("next")
    /\ job.todo = {} \/ job.left = 0
    /\ job' = NoJob
    /\ UNCHANGED <<sender, mailbox, crashes>>

-----------------------------------------------------------------------------
(* _advance, _seal *)

\* A container nobody has seen, persisted in the intent in place of the record.
SealAs(k, e) ==
    /\ owner[e] = None
    /\ owner' = [owner EXCEPT ![e] = k]
    /\ active' = [active EXCEPT ![k] = Sealed(active[k], e)]
    /\ Goto("store")

\* The alias is gone, names another seat, or the record cannot be sealed.
SealRefused(k) ==
    /\ active' = [active EXCEPT ![k] = Fail(active[k])]
    /\ Goto("retire")
    /\ UNCHANGED owner

Seal ==
    LET k == job.key IN
    /\ Step("advance")
    /\ Intent(k).state = "PENDING" /\ job.keyed
    /\ SealRefused(k) \/ \E e \in Envelope : SealAs(k, e)
    /\ UNCHANGED <<terminal, recorded, copies, ledger, mailbox, crashes>>

\* outbox/<digest>.senv.
Store ==
    /\ Step("store")
    /\ copies' = copies \cup {active[job.key].env}
    /\ Goto(IF job.deliver THEN "copy" ELSE "next")
    /\ UNCHANGED <<files, owner, ledger, mailbox, crashes>>

\* What is not sealed here is delivered, if it may be, or left as it is.
Advance ==
    LET i == Intent(job.key) IN
    /\ Step("advance")
    /\ \/ i.state = "PENDING" /\ ~job.keyed /\ Goto("next")
       \/ /\ i.state = "SEALED"
          /\ Goto(IF job.deliver /\ (job.force \/ i.due) THEN "copy" ELSE "next")
       \/ i.state \in Settled /\ Goto("next")
    /\ UNCHANGED <<sender, mailbox, crashes>>

-----------------------------------------------------------------------------
(* _deliver *)

\* Fault: the missing outbox copy is not restored.
CopyAssumed ==
    /\ Step("copy")
    /\ Goto("attempt")
    /\ UNCHANGED <<sender, mailbox, crashes>>

\* The outbox copy is restored first if a crash kept it from being stored.
Copy ==
    /\ Step("copy")
    /\ copies' = copies \cup {active[job.key].env}
    /\ Goto("attempt")
    /\ UNCHANGED <<files, owner, ledger, mailbox, crashes>>

\* PostOffice.deliver up to its publication: a message that is there, opened
\* or expired is a duplicate, an absent one becomes unread.
Publish(e) ==
    \/ /\ state[e] = "absent"
       /\ state' = [state EXCEPT ![e] = "unread"]
       /\ \E t \in Time : received' = [received EXCEPT ![e] = t]
       /\ UNCHANGED row
    \/ /\ state[e] # "absent"
       /\ UNCHANGED mailbox

\* Fault: delivery is recorded before the receiver has answered.
AttemptHopeful ==
    LET k == job.key IN
    /\ Step("attempt")
    /\ WriteNext(Delivered(active[k]), "next")
    /\ Note("DELIVERED", k)
    /\ UNCHANGED <<files, copies, owner, mailbox, crashes>>

\* The attempt ends before the receiver was touched (unreachable or busy, or
\* refused: quarantine, identity change, trust), or reaches its mailbox.
Attempt ==
    LET k == job.key
        i == active[k] IN
    /\ Step("attempt")
    /\ \/ WriteNext(Backoff(i), "next") /\ UNCHANGED <<ledger, mailbox>>
       \/ WriteNext(Fail(i), "next") /\ Note("FAILED", k) /\ UNCHANGED mailbox
       \/ Publish(i.env) /\ Goto("answer") /\ UNCHANGED ledger
    /\ UNCHANGED <<files, copies, owner, crashes>>

\* The index agrees with the body once the receiver has answered; a row that
\* was written for an earlier receipt of the same container does not.
Indexed(e) == row[e] \in {None, received[e]}

\* ACCEPTED or DUPLICATE.
Answered ==
    LET k == job.key
        i == active[k] IN
    /\ Indexed(i.env)
    /\ row' = [row EXCEPT ![i.env] = received[i.env]]
    /\ WriteNext(Delivered(i), "next")
    /\ Note("DELIVERED", k)

\* The rest of deliver, after the body is durable: the index lock stays busy,
\* the disk fails, the index is refused, or the receiver answers.
Answer ==
    LET k == job.key
        i == active[k] IN
    /\ Step("answer")
    /\ \/ WriteNext(Backoff(i), "next") /\ UNCHANGED <<ledger, row>>
       \/ WriteNext(Fail(i), "next") /\ Note("FAILED", k) /\ UNCHANGED row
       \/ Answered
    /\ UNCHANGED <<files, copies, owner, state, received, crashes>>

-----------------------------------------------------------------------------
(* Around the outbox *)

\* The job dies or is aborted by an error; the operating system frees the lock.
Die ==
    /\ ~Step("free") /\ crashes < MaxCrashes
    /\ job' = NoJob
    /\ crashes' = crashes + 1
    /\ UNCHANGED <<sender, mailbox>>

\* Time passes the NEXT_ATTEMPT_AT of key k.
BackoffEnds(k) ==
    /\ active[k] # None /\ ~active[k].due
    /\ active' = [active EXCEPT ![k] = Due(active[k])]
    /\ UNCHANGED <<terminal, recorded, copies, owner, ledger, mailbox, job, crashes>>

\* workspace.redeliver_message replays an outbox copy without the outbox lock.
Redeliver(e) ==
    /\ e \in copies
    /\ Publish(e)
    /\ UNCHANGED <<sender, job, crashes>>

\* open_message neither needs nor writes the index row.
ReceiverOpens(e) ==
    /\ state[e] = "unread"
    /\ state' = [state EXCEPT ![e] = "read"]
    /\ UNCHANGED <<sender, received, row, job, crashes>>

\* recover and ledger.reconcile add a row that a death left out.
ReceiverRepairs(e) ==
    /\ state[e] \in {"unread", "read"} /\ row[e] = None
    /\ row' = [row EXCEPT ![e] = received[e]]
    /\ UNCHANGED <<sender, state, received, job, crashes>>

\* sweep_expired buries a message only under its own row.
ReceiverExpires(e) ==
    /\ state[e] \in {"unread", "read"} /\ row[e] = received[e]
    /\ state' = [state EXCEPT ![e] = "expired"]
    /\ UNCHANGED <<sender, received, row, job, crashes>>

\* cold_archive.prune: the hot body of an indexed message goes, its row stays.
ReceiverPrunes(e) ==
    /\ e \in Prunable
    /\ state[e] \in {"unread", "read"} /\ row[e] = received[e]
    /\ state' = [state EXCEPT ![e] = "absent"]
    /\ UNCHANGED <<sender, received, row, job, crashes>>

Command ==
    \/ \E k \in Key, r \in Request, deliver, keyed \in BOOLEAN :
          Submit(k, r, deliver, keyed)
    \/ \E keyed \in BOOLEAN : Resume(keyed)
    \/ \E k \in Key, keyed \in BOOLEAN : Retry(k, keyed)

JobStep == \/ Commit
           \/ RetireSettled
           \/ Tidy
           \/ NextIntent
           \/ Finish
           \/ Seal
           \/ Store
           \/ Advance
           \/ Copy
           \/ Attempt
           \/ Answer

ReceiverMoves(e) ==
    ReceiverOpens(e) \/ ReceiverRepairs(e) \/ ReceiverExpires(e) \/ ReceiverPrunes(e)

Receiver == \E e \in Envelope : Redeliver(e) \/ ReceiverMoves(e)

Next == \/ Command
        \/ JobStep
        \/ Die
        \/ Receiver
        \/ \E k \in Key : BackoffEnds(k)

Spec == Init /\ [][Next]_vars

-----------------------------------------------------------------------------
(* Properties *)

Arrived(e) == received[e] # None

\* "The observable effect is one message": whatever is resubmitted, resumed,
\* retried or lost in a crash, at most one container of a key ever reaches the
\* receiver, and it is the one the intent file names.
OneMessage ==
    \A e \in Envelope : Arrived(e) =>
        /\ owner[e] # None
        /\ Intent(owner[e]) # None
        /\ Intent(owner[e]).env = e

\* Nothing reaches a receiver before the sender can prove and replay it: the
\* outbox copy is on disk first, across every crash between the two writes.
CopyBeforeDelivery == \A e \in Envelope : Arrived(e) => e \in copies

\* What the sender claims was delivered was: the intent file and the ledger,
\* which is written first, both speak of a message the receiver has.
DeliveredTruly ==
    \A k \in Key :
        /\ Intent(k) # None /\ Intent(k).state = "DELIVERED" =>
              Arrived(Intent(k).env)
        /\ <<"DELIVERED", k>> \in ledger =>
              Intent(k).env # None /\ Arrived(Intent(k).env)

\* _write: an intent has one file, an intent that is still to be worked on is
\* in the queue, and what a dead writer settled but did not move is out of the
\* queue before the next resume advances anything.
NeverStranded ==
    /\ \A k \in Key : Unambiguous(k)
    /\ \A k \in Key : terminal[k] # None => terminal[k].state \in Settled
    /\ job.step = "next" /\ job.todo # {} =>
          \A k \in Key : active[k] # None => active[k].state \in Queued

\* FAILED "is never retried automatically": no resume, resubmission, crash or
\* recovery ever takes a key out of FAILED, only a forced job of retry_intent.
FailedStays ==
    [][\A k \in Key :
         /\ Intent(k) # None /\ Intent(k).state = "FAILED"
         /\ Intent(k)' # Intent(k)
         => job.force /\ job.key = k]_vars

\* "Submitting the same key again with the same request resumes that intent and
\* never creates a second logical message": once a key is recorded, no
\* resubmission, retry, stale commit, tidying or death between the renames and
\* writes of _write forgets it, binds it to another request or exchanges its
\* container, and DELIVERED is never left again, not even by retry_intent.
KeyKeepsItsMessage ==
    [][\A k \in Key : Intent(k) # None =>
         /\ Intent(k)' # None
         /\ Intent(k)'.request = Intent(k).request
         /\ Intent(k).env # None => Intent(k)'.env = Intent(k).env
         /\ Intent(k).state = "DELIVERED" => Intent(k)' = Intent(k)]_vars

\* "Every replay of the same bytes is the receiver's DUPLICATE": a container
\* that was received once is never made unread again.
ReplayIsDuplicate ==
    [][\A e \in Envelope : Arrived(e) /\ state[e] = "absent" => state'[e] = "absent"]_vars
=============================================================================
