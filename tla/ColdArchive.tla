---------------------------- MODULE ColdArchive ----------------------------
(***************************************************************************)
(* src/saimail/cold_archive.py beside the mailbox it takes bundles out of  *)
(* and puts them back into.  A curator is one archive, prune or restore    *)
(* command; none of them takes the lifecycle lock, so every step may fall  *)
(* between two steps of a mailbox process.                                 *)
(*                                                                         *)
(* A cold record keeps the container and receipt of the bundle, whole from *)
(* the moment it appears; its manifest is rewritten in place.              *)
(***************************************************************************)
EXTENDS PostOffice

CONSTANTS Curator,   \* the cold-storage commands that may run at once
          Letters    \* envelopes of a pinned kind (PINNED_KINDS)

ASSUME LettersAssumption == Letters \subseteq Envelope

VARIABLES
    cold,   \* cold[e]: the cold record of e, or None
    task    \* task[c]: the step and local variables of curator c

coldVars == <<cold, task>>
mailbox == <<inbox, read, tomb, index, tail, quarantine, ledger, lock, pc, job, crashes>>

HotStates == {"unread", "read", "both"}
Steps == {"idle", "a_read", "a_publish", "a_receipt", "p_inbox", "p_read", "p_receipt",
          "u_publish", "u_row", "u_receipt"}

\* hot_state, the receipt's RECEIVED_AT, ARCHIVED_AT, whether index_row was
\* found, pinned, hot_removed, and whether the manifest can be parsed.
Records == [hot : HotStates, at : Nat, archived : Nat, row : BOOLEAN, pinned : BOOLEAN,
            removed : BOOLEAN, readable : BOOLEAN]
Tasks == [step : Steps, env : Envelope \cup {None}, hot : HotStates \cup {None},
          at : Nat \cup {None}, row : BOOLEAN]
NoTask == [step |-> "idle", env |-> None, hot |-> None, at |-> None, row |-> FALSE]

ASSUME RecordsAssumption == None \notin Records

ColdTypeOK ==
    /\ TypeOK
    /\ cold \in [Envelope -> Records \cup {None}]
    /\ task \in [Curator -> Tasks]

ColdInit ==
    /\ Init
    /\ cold = [e \in Envelope |-> None]
    /\ task = [c \in Curator |-> NoTask]

-----------------------------------------------------------------------------
Readable(e) == cold[e] # None /\ cold[e].readable

At(c, step) == task[c].step = step
GoOn(c, step) == task' = [task EXCEPT ![c].step = step]
Start(c, e, step) ==
    At(c, "idle") /\ task' = [task EXCEPT ![c].env = e, ![c].step = step]
End(c) == task' = [task EXCEPT ![c] = NoTask]

\* _write_manifest, by whoever last read the manifest.
Manifest(e, removed) ==
    cold' = [cold EXCEPT ![e].removed = removed, ![e].readable = TRUE]

-----------------------------------------------------------------------------
(* archive *)

ArchiveLook(c, e) ==
    /\ cold[e] = None
    /\ State(e) \in {"unread", "read"}
    /\ At(c, "idle")
    /\ task' = [task EXCEPT ![c].env = e, ![c].step = "a_read",
                            ![c].hot = IF HasPair(e) THEN "both" ELSE State(e)]
    /\ UNCHANGED <<mailbox, cold>>

\* The bundle of the state seen a moment ago, and its index row if there is one.
ArchiveRead(c) ==
    LET e == task[c].env
        copy == IF task[c].hot = "unread" THEN inbox[e] ELSE read[e] IN
    /\ At(c, "a_read")
    /\ IF copy \in {None, Torn} \/ tail
       THEN End(c)
       ELSE task' = [task EXCEPT ![c].at = copy, ![c].row = HasRow(e),
                                 ![c].step = "a_publish"]
    /\ UNCHANGED <<mailbox, cold>>

\* Fault: the receipt is dated by the archive instead of copied.
ArchivePublishRedated(c) ==
    LET e == task[c].env IN
    /\ At(c, "a_publish") /\ cold[e] = None
    /\ \E t \in Time : cold' = [cold EXCEPT ![e] =
          [hot |-> task[c].hot, at |-> t, archived |-> t, row |-> task[c].row,
           pinned |-> FALSE, removed |-> FALSE, readable |-> TRUE]]
    /\ GoOn(c, "a_receipt")
    /\ UNCHANGED mailbox

\* One rename publishes the whole record; a record that is there already stays.
\* The kind that pins a letter is taken from the index row.
ArchivePublish(c) ==
    LET e == task[c].env IN
    /\ At(c, "a_publish")
    /\ IF cold[e] # None
       THEN End(c) /\ UNCHANGED cold
       ELSE /\ \E t \in Time : cold' = [cold EXCEPT ![e] =
                 [hot |-> task[c].hot, at |-> task[c].at, archived |-> t,
                  row |-> task[c].row, pinned |-> task[c].row /\ e \in Letters,
                  removed |-> FALSE, readable |-> TRUE]]
            /\ GoOn(c, "a_receipt")
    /\ UNCHANGED mailbox

\* The archive receipt, after the read-back.
ArchiveReceipt(c) ==
    /\ At(c, "a_receipt")
    /\ Manifest(task[c].env, FALSE)
    /\ End(c)
    /\ UNCHANGED mailbox

-----------------------------------------------------------------------------
(* prune: of a record that parses, verifies and is not pinned *)

\* Fault: the hot copy goes without a look at the cold one.
PruneBeginBlind(c, e) ==
    /\ State(e) \in {"unread", "read"}
    /\ Start(c, e, "p_inbox")
    /\ UNCHANGED <<mailbox, cold>>

PruneBegin(c, e) ==
    /\ Readable(e) /\ ~cold[e].pinned
    /\ State(e) \in {"unread", "read"}
    /\ Start(c, e, "p_inbox")
    /\ UNCHANGED <<mailbox, cold>>

PruneInbox(c) ==
    /\ At(c, "p_inbox") /\ GoOn(c, "p_read")
    /\ inbox' = [inbox EXCEPT ![task[c].env] = None]
    /\ UNCHANGED <<read, tomb, index, tail, quarantine, ledger, lock, pc, job, crashes, cold>>

PruneRead(c) ==
    /\ At(c, "p_read") /\ GoOn(c, "p_receipt")
    /\ read' = [read EXCEPT ![task[c].env] = None]
    /\ UNCHANGED <<inbox, tomb, index, tail, quarantine, ledger, lock, pc, job, crashes, cold>>

PruneReceipt(c) ==
    /\ At(c, "p_receipt")
    /\ Manifest(task[c].env, TRUE)
    /\ End(c)
    /\ UNCHANGED mailbox

-----------------------------------------------------------------------------
(* restore *)

RestoreBegin(c, e) ==
    /\ Readable(e)
    /\ Start(c, e, "u_publish")
    /\ UNCHANGED <<mailbox, cold>>

\* To the place the bundle was archived from: an identical bundle there is
\* accepted, another one is a conflict, and the other place is not looked at.
RestorePublish(c) ==
    LET e == task[c].env
        toRead == cold[e].hot = "read"
        there == IF toRead THEN read[e] ELSE inbox[e] IN
    /\ At(c, "u_publish")
    /\ \/ /\ there = None
          /\ inbox' = IF toRead THEN inbox ELSE [inbox EXCEPT ![e] = cold[e].at]
          /\ read' = IF toRead THEN [read EXCEPT ![e] = cold[e].at] ELSE read
          /\ GoOn(c, "u_row")
       \/ there = cold[e].at /\ GoOn(c, "u_receipt") /\ UNCHANGED <<inbox, read>>
       \/ there \notin {None, cold[e].at} /\ End(c) /\ UNCHANGED <<inbox, read>>
    /\ UNCHANGED <<tomb, index, tail, quarantine, ledger, lock, pc, job, crashes, cold>>

\* Fault: the row is appended again.
RestoreRowAgain(c) ==
    LET e == task[c].env IN
    /\ At(c, "u_row") /\ GoOn(c, "u_receipt")
    /\ index' = IF cold[e].row /\ ~tail
                THEN Append(index, [id |-> e, at |-> cold[e].archived]) ELSE index
    /\ UNCHANGED <<inbox, read, tomb, tail, quarantine, ledger, lock, pc, job, crashes, cold>>

\* ensure_index_row with manifest["receipt_at"], which is ARCHIVED_AT; a
\* conflict with the row that is there is swallowed.
RestoreRow(c) ==
    LET e == task[c].env  t == cold[e].archived IN
    /\ At(c, "u_row") /\ GoOn(c, "u_receipt")
    /\ index' = IF cold[e].row /\ RowAccepted(e, t) THEN WithRow(e, t) ELSE index
    /\ UNCHANGED <<inbox, read, tomb, tail, quarantine, ledger, lock, pc, job, crashes, cold>>

RestoreReceipt(c) ==
    /\ At(c, "u_receipt")
    /\ Manifest(task[c].env, FALSE)
    /\ End(c)
    /\ UNCHANGED mailbox

-----------------------------------------------------------------------------
\* A command may end at any step, by an I/O error or by the death of its
\* process, which may leave an rmtree or a manifest half done.
CuratorStops(c) ==
    LET e == task[c].env IN
    /\ ~At(c, "idle") /\ crashes < MaxCrashes
    /\ crashes' = crashes + 1
    /\ End(c)
    /\ \/ UNCHANGED <<inbox, read, cold>>
       \/ /\ At(c, "p_inbox") /\ inbox[e] # None
          /\ inbox' = [inbox EXCEPT ![e] = Torn] /\ UNCHANGED <<read, cold>>
       \/ /\ At(c, "p_read") /\ read[e] # None
          /\ read' = [read EXCEPT ![e] = Torn] /\ UNCHANGED <<inbox, cold>>
       \/ /\ task[c].step \in {"a_receipt", "p_receipt", "u_receipt"}
          /\ cold' = [cold EXCEPT ![e].readable = FALSE] /\ UNCHANGED <<inbox, read>>
    /\ UNCHANGED <<tomb, index, tail, quarantine, ledger, lock, pc, job>>

Curate(c) ==
    \/ \E e \in Envelope : ArchiveLook(c, e) \/ PruneBegin(c, e) \/ RestoreBegin(c, e)
    \/ ArchiveRead(c) \/ ArchivePublish(c) \/ ArchiveReceipt(c)
    \/ PruneInbox(c) \/ PruneRead(c) \/ PruneReceipt(c)
    \/ RestorePublish(c) \/ RestoreRow(c) \/ RestoreReceipt(c)
    \/ CuratorStops(c)

ColdNext ==
    \/ Next /\ UNCHANGED coldVars
    \/ \E c \in Curator : Curate(c)

ColdSpec == ColdInit /\ [][ColdNext]_<<vars, coldVars>>

-----------------------------------------------------------------------------
(* Properties *)

\* "There is no path in this module that deletes a message whose cold copy is
\* missing": whatever the mailbox does meanwhile, and whoever dies where, a
\* message that was received and has not expired is whole in hot or in cold
\* storage.
NothingLost == \A e \in Envelope :
    (tomb[e] = None /\ (HasRow(e) \/ <<"RECEIPT_OBSERVED", e>> \in ledger)) =>
        (inbox[e] \in Nat \/ read[e] \in Nat \/ cold[e] # None)

\* A record that carries its provenance row carries the instant of that row, so
\* a restored message is the one the index speaks of, even if the message was
\* delivered again in between.
ColdProvenance == \A e \in Envelope :
    (cold[e] # None /\ cold[e].row) => RowIs(e, cold[e].at)

\* Archive, prune, redelivery and restore never leave a second index row.
IndexOnce == \A i, j \in DOMAIN index : index[i].id = index[j].id => i = j

\* cold_archive.restore: "a restore of an id that is already hot with the same
\* bytes changes nothing".
RestoreIdempotent == [][\A c \in Curator, e \in Envelope :
    (At(c, "u_publish") /\ task[c].env = e /\ cold[e].at \in {inbox[e], read[e]}
        /\ task'[c].step \in {"u_row", "u_receipt"})
    => UNCHANGED <<inbox, read>>]_<<vars, coldVars>>
=============================================================================
