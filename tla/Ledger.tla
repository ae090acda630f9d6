------------------------------- MODULE Ledger -------------------------------
(***************************************************************************)
(* src/saimail/ledger.py and _journal_cache.py: a workspace's append-only  *)
(* record of delivery facts, and the validated snapshot each process keeps *)
(* of it.                                                                  *)
(*                                                                         *)
(* Writers hold ledger.lock; readers hold nothing and rely on the file's   *)
(* stamp before and after.  Appends are best effort: a note that cannot be *)
(* written is dropped.  The code only ever appends, so a stamp (size, times*)
(* and inode) is as good as the number of rows and the state of the last   *)
(* line; a row's hash names the row, so it is its place in the file.       *)
(* Notes come from the outbox (sent messages) and the Post Office (received*)
(* ones), each in the order its code writes them.                          *)
(***************************************************************************)
EXTENDS Naturals, Sequences

CONSTANTS Proc,      \* processes on this workspace; each has its own snapshot
          Sent,      \* logical messages of the outbox, by intent key
          Received,  \* messages of the mailbox, by envelope
          Retained,  \* sequence numbers a trimmed history may start with
          Limit,     \* the page size of the feed's follower
          MaxRows,   \* rows the file may grow to
          MaxFaults, \* deaths, failed writes and lock timeouts
          None

ASSUME BoundAssumption == Limit \in Nat \ {0} /\ MaxRows \in Nat /\ MaxFaults \in Nat
ASSUME RetainedAssumption == Retained \subseteq Nat \ {0}
ASSUME MessageAssumption == Sent \cap Received = {}

VARIABLES
    file,      \* the complete rows of ledger/events.jsonl
    tail,      \* its last line: nothing is amiss, cut short, without newline; or no file
    lock,      \* who holds ledger.lock
    cache,     \* cache[p]: p's ValidatedFile, or None
    job,       \* job[p]: the ledger call p is in
    errand,    \* errand[p]: what p is doing and has still to note
    status,    \* status[m]: the intent file or the mailbox state of m
    follower,  \* a consumer of the feed
    faults, lost

vars == <<file, tail, lock, cache, job, errand, status, follower, faults, lost>>
ledgerVars == <<file, tail, lock>>
senderVars == <<errand, status, lost>>

Message == Sent \cup Received
Event == {"CREATED", "SEALED", "OUTBOX_COMMITTED", "DELIVERY_ATTEMPTED", "DELIVERED",
          "FAILED", "RECEIPT_OBSERVED", "OPENED"}

\* TRANSITIONS, of the events noted here.
Transitions ==
    [e \in Event |->
        CASE e = "CREATED" -> {"SEALED", "FAILED"}
          [] e = "SEALED" -> {"OUTBOX_COMMITTED", "FAILED"}
          [] e = "OUTBOX_COMMITTED" -> {"DELIVERY_ATTEMPTED", "FAILED"}
          [] e = "DELIVERY_ATTEMPTED" -> {"DELIVERED", "FAILED"}
          [] e = "DELIVERED" -> {"DELIVERY_ATTEMPTED"}
          [] e = "FAILED" -> {"DELIVERY_ATTEMPTED"}
          [] e = "RECEIPT_OBSERVED" -> {"OPENED"}
          [] e = "OPENED" -> {}]

Rows == [seq : Nat, prev : Nat, msg : Message, event : Event]
Tails == {"absent", "clean", "cut", "bare"}
Snapshots == [rows : Nat, first : Nat, ended : BOOLEAN]
Stamps == [rows : Nat, tail : Tails]
Caches == [stamp : Stamps, value : Snapshots]
Steps == {"idle", "load", "read", "confirm", "open", "write", "window"}
Jobs == [step : Steps, kind : {"append", "read", "feed"}, before : Stamps \cup {None},
         value : Snapshots \cup {None}]
Idle == [step |-> "idle", kind |-> "read", before |-> None, value |-> None]
States == {"none", "PENDING", "SEALED", "DELIVERED", "FAILED", "UNREAD", "READ"}
Errands == [msg : Message, notes : Seq(Event), goal : States]

ASSUME NoneAssumption ==
    None \notin Proc \cup Caches \cup Stamps \cup Snapshots \cup Errands

LedgerTypeOK ==
    /\ file \in Seq(Rows) /\ tail \in Tails
    /\ lock \in Proc \cup {None}
    /\ cache \in [Proc -> Caches \cup {None}]
    /\ job \in [Proc -> Jobs]
    /\ errand \in [Proc -> Errands \cup {None}]
    /\ status \in [Message -> States]
    /\ follower \in [cursor : Nat, heard : Seq(Nat), gap : BOOLEAN]
    /\ faults \in Nat /\ lost \in BOOLEAN

Init ==
    /\ \/ /\ file = <<>> /\ tail = "absent"
          /\ status = [m \in Message |-> "none"]
       \/ \E s \in Retained, m \in Sent :   \* an older history was trimmed away
             /\ file = <<[seq |-> s, prev |-> 0, msg |-> m, event |-> "CREATED"]>>
             /\ tail = "clean"
             /\ status = [n \in Message |-> IF n = m THEN "PENDING" ELSE "none"]
    /\ lock = None
    /\ cache = [p \in Proc |-> None]
    /\ job = [p \in Proc |-> Idle]
    /\ errand = [p \in Proc |-> None]
    /\ follower = [cursor |-> 0, heard |-> <<>>, gap |-> FALSE]
    /\ faults = 0 /\ lost = FALSE

-----------------------------------------------------------------------------
(* The file as a reader finds it *)

Stamp == [rows |-> Len(file), tail |-> tail]

\* _load_ledger: every row hashes to its predecessor and the numbers have no
\* hole; only the first one is free.
Chained ==
    \A i \in 1 .. Len(file) :
        file[i].prev = i - 1 /\ file[i].seq = file[1].seq + (i - 1)

Loads == tail # "cut" /\ Chained
Loaded ==
    [rows |-> Len(file), first |-> IF file = <<>> THEN 0 ELSE file[1].seq,
     ended |-> tail # "bare"]

At(p, step) == job[p].step = step
Goto(p, step) == job' = [job EXCEPT ![p].step = step]
Return(p) == job' = [job EXCEPT ![p] = Idle]
Unlock(p) == lock' = IF lock = p THEN None ELSE lock

\* note swallows whatever append refuses: the fact stays unrecorded.
Noted(p) == errand' = [errand EXCEPT ![p].notes = Tail(@)]
Answered(p) ==
    IF job[p].kind = "append" THEN Noted(p) ELSE UNCHANGED errand

\* A refusal; one of load, check or append drops the snapshot.
Refuse(p, snapshot) ==
    /\ Return(p) /\ Unlock(p) /\ Answered(p)
    /\ cache' = [cache EXCEPT ![p] = snapshot]
    /\ lost' = (lost \/ job[p].kind = "append")
    /\ UNCHANGED <<file, tail, status, follower, faults>>

Fault == faults < MaxFaults /\ faults' = faults + 1

-----------------------------------------------------------------------------
(* What is noted.  outbox.lock and the lifecycle lock let one process at a  *)
(* time act on each side.                                                  *)

Busy(side) == \E q \in Proc : errand[q] # None /\ errand[q].msg \in side
Act(p, m, notes, now, goal) ==
    /\ errand[p] = None /\ At(p, "idle")
    /\ ~Busy(Sent) \/ m \notin Sent
    /\ ~Busy(Received) \/ m \notin Received
    /\ Len(file) + Len(notes) <= MaxRows
    /\ errand' = [errand EXCEPT ![p] = [msg |-> m, notes |-> notes, goal |-> goal]]
    /\ status' = [status EXCEPT ![m] = now]
    /\ UNCHANGED <<ledgerVars, cache, job, follower, faults, lost>>

Submit(p, m) ==
    m \in Sent /\ status[m] = "none" /\ Act(p, m, <<"CREATED">>, "PENDING", "PENDING")

Seal(p, m) ==
    /\ status[m] = "PENDING"
    /\ Act(p, m, <<"SEALED", "OUTBOX_COMMITTED">>, "SEALED", "SEALED")

\* _deliver notes the attempt first, then its outcome, then writes the intent; a
\* transient error notes nothing more.
Deliver(p, m, outcome) ==
    /\ status[m] = "SEALED"
    /\ Act(p, m, IF outcome = "SEALED" THEN <<"DELIVERY_ATTEMPTED">>
                                       ELSE <<"DELIVERY_ATTEMPTED", outcome>>,
           "SEALED", outcome)

Retry(p, m) == status[m] = "FAILED" /\ Act(p, m, <<>>, "SEALED", "SEALED")

Receive(p, m) ==
    m \in Received /\ status[m] = "none" /\ Act(p, m, <<"RECEIPT_OBSERVED">>, "UNREAD", "UNREAD")

OpenMessage(p, m) == status[m] = "UNREAD" /\ Act(p, m, <<"OPENED">>, "READ", "READ")

\* The last write of the errand, after its notes.
Finish(p) ==
    /\ errand[p] # None /\ errand[p].notes = <<>> /\ At(p, "idle")
    /\ status' = [status EXCEPT ![errand[p].msg] = errand[p].goal]
    /\ errand' = [errand EXCEPT ![p] = None]
    /\ UNCHANGED <<ledgerVars, cache, job, follower, faults, lost>>

-----------------------------------------------------------------------------
(* Calls *)

\* append waits for ledger.lock ...
AppendBegin(p) ==
    /\ errand[p] # None /\ errand[p].notes # <<>> /\ At(p, "idle")
    /\ lock = None /\ lock' = p
    /\ job' = [job EXCEPT ![p] = [Idle EXCEPT !.kind = "append", !.step = "load"]]
    /\ UNCHANGED <<file, tail, cache, senderVars, follower, faults>>

\* ... for so long only: LEDGER_LOCK_TIMEOUT.
AppendTimesOut(p) ==
    /\ errand[p] # None /\ errand[p].notes # <<>> /\ At(p, "idle")
    /\ lock # None
    /\ Fault /\ Noted(p) /\ lost' = TRUE
    /\ UNCHANGED <<ledgerVars, cache, job, status, follower>>

\* read_events (for health, reconcile, reconstruct) and feed take no OS lock.
ReadBegin(p, kind) ==
    /\ At(p, "idle") /\ errand[p] = None
    /\ job' = [job EXCEPT ![p] = [Idle EXCEPT !.kind = kind, !.step = "load"]]
    /\ UNCHANGED <<ledgerVars, cache, senderVars, follower, faults>>

Onward(p) == IF job[p].kind = "append" THEN "open" ELSE "window"

\* Fault: a snapshot is good for as long as the process lives.
LoadTrusting(p) ==
    /\ At(p, "load")
    /\ \/ /\ cache[p] # None
          /\ Goto(p, Onward(p))
          /\ UNCHANGED cache
       \/ /\ cache[p] = None
          /\ job' = [job EXCEPT ![p].step = "read", ![p].before = Stamp]
          /\ UNCHANGED cache
    /\ UNCHANGED <<ledgerVars, senderVars, follower, faults>>

Current(p) == cache[p] # None /\ cache[p].stamp = Stamp

\* ValidatedFile.load: the snapshot is reused when the stamp is the same ...
Load(p) ==
    /\ At(p, "load")
    /\ \/ /\ Current(p)
          /\ Goto(p, Onward(p))
          /\ UNCHANGED cache
       \/ /\ ~Current(p)
          /\ job' = [job EXCEPT ![p].step = "read", ![p].before = Stamp]
          /\ cache' = [cache EXCEPT ![p] = None]
    /\ UNCHANGED <<ledgerVars, senderVars, follower, faults>>

\* ... or rebuilt from every line,
Read(p) ==
    /\ At(p, "read") /\ Loads
    /\ job' = [job EXCEPT ![p].step = "confirm", ![p].value = Loaded]
    /\ UNCHANGED <<ledgerVars, cache, senderVars, follower, faults>>
ReadRefused(p) == At(p, "read") /\ ~Loads /\ Refuse(p, None)

\* and kept when the stamp has not moved meanwhile.
Confirm(p) ==
    /\ At(p, "confirm") /\ Stamp = job[p].before
    /\ cache' = [cache EXCEPT ![p] = [stamp |-> job[p].before, value |-> job[p].value]]
    /\ Goto(p, Onward(p))
    /\ UNCHANGED <<ledgerVars, senderVars, follower, faults>>
ConfirmRefused(p) == At(p, "confirm") /\ Stamp # job[p].before /\ Refuse(p, None)

Value(p) == cache[p].value
NextSeq(p) == IF Value(p).rows = 0 THEN 1 ELSE Value(p).first + Value(p).rows
NewRow(p) == [seq |-> NextSeq(p), prev |-> Value(p).rows,
              msg |-> errand[p].msg, event |-> Head(errand[p].notes)]

\* ValidatedFile.append opens the file (and makes it) and compares once more.
Unmoved(p) == Stamp = cache[p].stamp
Open(p) ==
    /\ At(p, "open") /\ Value(p).ended /\ Unmoved(p)
    /\ tail' = IF tail = "absent" THEN "clean" ELSE tail
    /\ Goto(p, "write")
    /\ UNCHANGED <<file, lock, cache, senderVars, follower, faults>>
OpenRefused(p) ==
    /\ At(p, "open")
    /\ \/ ~Value(p).ended /\ Refuse(p, cache[p])
       \/ Value(p).ended /\ ~Unmoved(p) /\ Refuse(p, None)

\* A reader, or a death, may find the line half written.
WriteSome(p) ==
    /\ At(p, "write") /\ tail = "clean"
    /\ \/ tail' = "cut" /\ UNCHANGED file
       \/ tail' = "bare" /\ file' = Append(file, NewRow(p))
    /\ UNCHANGED <<lock, cache, job, senderVars, follower, faults>>

\* Fault: the snapshot keeps the hash and the count of the row before.
AdvancedNot(p) == Value(p)

Advanced(p) ==
    [rows |-> Value(p).rows + 1,
     first |-> IF Value(p).rows = 0 THEN NextSeq(p) ELSE Value(p).first,
     ended |-> TRUE]

\* The line is on disk, the descriptor and the path agree, the snapshot follows.
Write(p) ==
    /\ At(p, "write")
    /\ file' = IF tail = "bare" THEN file ELSE Append(file, NewRow(p))
    /\ tail' = "clean"
    /\ cache' = [cache EXCEPT ![p] = [stamp |-> [rows |-> Value(p).rows + 1, tail |-> "clean"],
                                      value |-> Advanced(p)]]
    /\ Return(p) /\ Unlock(p) /\ Noted(p)
    /\ UNCHANGED <<status, follower, faults, lost>>

\* A full disk: whatever was written stays.
WriteFails(p) ==
    /\ At(p, "write") /\ Fault
    /\ Return(p) /\ Unlock(p) /\ Noted(p)
    /\ cache' = [cache EXCEPT ![p] = None]
    /\ lost' = TRUE
    /\ UNCHANGED <<file, tail, status, follower>>

\* feed: the records after the cursor, at most Limit of them.
Start(p) ==
    IF Value(p).rows = 0 \/ follower.cursor + 1 <= Value(p).first THEN 0
    ELSE follower.cursor + 1 - Value(p).first
PageEnd(p) ==
    IF Start(p) + Limit <= Value(p).rows THEN Start(p) + Limit ELSE Value(p).rows
Page(p) == SubSeq(file, Start(p) + 1, PageEnd(p))
Gap(p) == Value(p).rows # 0 /\ follower.cursor + 1 < Value(p).first

\* Fault: the reader goes on from the newest record, page or not.
CursorLast(p) ==
    IF Value(p).rows = 0 THEN follower.cursor ELSE Value(p).first + (Value(p).rows - 1)

Cursor(p) ==
    IF Page(p) = <<>> THEN follower.cursor ELSE Page(p)[Len(Page(p))].seq

\* _window reads the rows once more and check compares the stamp a last time.
WindowRead(p) ==
    /\ At(p, "window") /\ Unmoved(p)
    /\ \/ /\ job[p].kind = "feed"
          /\ follower' = [cursor |-> Cursor(p),
                          heard |-> follower.heard \o [i \in 1 .. Len(Page(p)) |-> Page(p)[i].seq],
                          gap |-> follower.gap \/ Gap(p)]
       \/ /\ job[p].kind = "read"
          /\ UNCHANGED follower
    /\ Return(p)
    /\ UNCHANGED <<ledgerVars, cache, senderVars, faults>>
WindowRefused(p) == At(p, "window") /\ ~Unmoved(p) /\ Refuse(p, None)

\* A process dies: its snapshot goes with it, the lock is free.
Die(p) ==
    /\ errand[p] # None \/ ~At(p, "idle")
    /\ Fault /\ Return(p) /\ Unlock(p)
    /\ lost' = (lost \/ (errand[p] # None /\ errand[p].notes # <<>>))
    /\ errand' = [errand EXCEPT ![p] = None]
    /\ cache' = [cache EXCEPT ![p] = None]
    /\ UNCHANGED <<file, tail, status, follower>>

Deed(p) ==
    \E m \in Message :
        \/ Submit(p, m)
        \/ Seal(p, m)
        \/ \E outcome \in {"SEALED", "DELIVERED", "FAILED"} : Deliver(p, m, outcome)
        \/ Retry(p, m)
        \/ Receive(p, m)
        \/ OpenMessage(p, m)

Call(p) ==
    \/ AppendBegin(p) \/ AppendTimesOut(p)
    \/ \E kind \in {"read", "feed"} : ReadBegin(p, kind)
    \/ Load(p)
    \/ Read(p) \/ ReadRefused(p)
    \/ Confirm(p) \/ ConfirmRefused(p)
    \/ Open(p) \/ OpenRefused(p)
    \/ WriteSome(p) \/ Write(p) \/ WriteFails(p)
    \/ WindowRead(p) \/ WindowRefused(p)

Next == \E p \in Proc : Deed(p) \/ Finish(p) \/ Call(p) \/ Die(p)

Spec == Init /\ [][Next]_vars

-----------------------------------------------------------------------------
(* Properties *)

\* The chain never breaks: however appends, snapshots, deaths, full disks and
\* unlocked readers interleave, every complete row names its predecessor and the
\* numbers have no hole, so no reader ever answers LEDGER_CHAIN_BROKEN.
ChainIntact == Chained

\* A consumer that follows the feed's cursor page by page has heard every record
\* once and in order, from the first it could get up to the cursor, although it
\* reads without ledger.lock from snapshots of several processes; what it missed
\* of a trimmed history it was told (gap).
FollowerMissesNothing ==
    LET heard == follower.heard
    IN  /\ \A i \in 1 .. Len(heard) : heard[i] = follower.cursor - Len(heard) + i
        /\ heard = <<>> => follower.cursor = 0
        /\ follower.gap \/ Len(heard) = follower.cursor

\* Notes are lost to deaths, full disks and lock timeouts alone: concurrent
\* readers and writers, and the snapshot's own checks, never cost a record.
OnlyFaultsLose == faults = 0 => ~lost

\* fold: the state of message m after the first i rows; a record the table
\* forbids is set aside.
Folded(m) ==
    LET state[i \in 0 .. Len(file)] ==
          IF i = 0 THEN "none"
          ELSE IF file[i].msg = m
                  /\ (state[i - 1] = "none" \/ file[i].event \in Transitions[state[i - 1]])
               THEN file[i].event
          ELSE state[i - 1]
    IN  state

Illegal(i) ==
    LET before == Folded(file[i].msg)[i - 1]
    IN  before # "none" /\ file[i].event \notin Transitions[before]

\* "history disagreed with itself" (ledger.py:81): where nothing failed and no
\* note was lost, health does not find the record contradictory.
FaultlessHistoryLegal ==
    faults = 0 /\ ~lost => \A i \in 1 .. Len(file) : ~Illegal(i)
=============================================================================
