------------------------- MODULE ColdArchiveProofs -------------------------
(***************************************************************************)
(* What cold storage promises beside a mailbox at work, for every set of   *)
(* envelopes, processes and curators, proved.                              *)
(*                                                                         *)
(* Once a message has a cold record a curator may take its hot copies away *)
(* or bring an old one back, and PostOffice's invariants no longer hold of *)
(* it: this is why NothingLost speaks of both stores.  They do hold of     *)
(* every message without a record, because prune and restore ask for one   *)
(* first, and a record is never unpublished.  The invariant here is that   *)
(* of PostOfficeProofs, envelope by envelope, for those messages, and what *)
(* a curator knows at each of its steps.                                   *)
(***************************************************************************)
EXTENDS ColdArchive, PostOfficeProofs

Looks == {"a_read", "a_publish"}
Bound == Steps \ ({"idle"} \cup Looks)  \* labels that a record has been seen for

TaskShape == \A c \in Curator :
    /\ ~At(c, "idle") => task[c].env \in Envelope
    /\ task[c].step \in Looks => task[c].hot \in HotStates
    /\ At(c, "a_publish") => task[c].at \in Nat
    /\ task[c].step \in Bound => cold[task[c].env] # None

ColdTyping ==
    /\ Typing
    /\ cold \in [Envelope -> Records \cup {None}]
    /\ task \in [Curator -> Tasks]
    /\ TaskShape

-----------------------------------------------------------------------------
(* Types *)

LEMMA NoTaskType == NoTask \in Tasks
  BY DEF NoTask, Tasks, Steps

LEMMA InitColdTyping == ColdInit => ColdTyping
<1> SUFFICES ASSUME ColdInit PROVE ColdTyping
  OBVIOUS
<1>1. Typing
  BY InitTyping DEF ColdInit
<1>2. task \in [Curator -> Tasks]
  BY NoTaskType DEF ColdInit
<1>3. TaskShape
  BY DEF ColdInit, TaskShape, NoTask, At, Looks, Bound
<1> QED BY <1>1, <1>2, <1>3 DEF ColdInit, ColdTyping

\* A rewritten manifest is the same record with other marks on it.
LEMMA MarkType ==
    ASSUME NEW r \in Records, NEW removed \in BOOLEAN, NEW readable \in BOOLEAN
    PROVE [r EXCEPT !.removed = removed, !.readable = readable] \in Records
  BY DEF Records

\* What one step of curator c does to the records: it adds one, or marks one.
Marks(e) == \E removed, readable \in BOOLEAN :
    cold' = [cold EXCEPT ![e] = [@ EXCEPT !.removed = removed, !.readable = readable]]

Adds(c) ==
    LET e == task[c].env IN
    /\ At(c, "a_publish") /\ cold[e] = None
    /\ \E r \in Records :
          /\ cold' = [cold EXCEPT ![e] = r]
          /\ r.at = task[c].at /\ r.row = task[c].row
    /\ UNCHANGED mailbox

RecordStep(c) ==
    \/ UNCHANGED cold
    \/ Adds(c)
    \/ task[c].step \in Bound /\ Marks(task[c].env)

LEMMA PublishAdds ==
    ASSUME ColdTyping, NEW c \in Curator, ArchivePublish(c), cold[task[c].env] = None
    PROVE Adds(c)
<1> DEFINE e == task[c].env
<1>1. PICK t \in Time : cold' = [cold EXCEPT ![e] =
         [hot |-> task[c].hot, at |-> task[c].at, archived |-> t,
          row |-> task[c].row, pinned |-> task[c].row /\ e \in Letters,
          removed |-> FALSE, readable |-> TRUE]]
  BY DEF ArchivePublish
<1> DEFINE pinned == task[c].row /\ e \in Letters
           r == [hot |-> task[c].hot, at |-> task[c].at, archived |-> t,
                 row |-> task[c].row, pinned |-> pinned,
                 removed |-> FALSE, readable |-> TRUE]
<1>2. task[c].hot \in HotStates /\ task[c].at \in Nat /\ task[c].row \in BOOLEAN
      /\ t \in Nat /\ pinned \in BOOLEAN
  BY TimeAssumption DEF ArchivePublish, ColdTyping, TaskShape, At, Looks, Tasks
<1>3. r \in Records /\ r.at = task[c].at /\ r.row = task[c].row
  <2> HIDE DEF pinned
  <2> QED BY <1>2 DEF Records
<1> QED BY <1>1, <1>3 DEF ArchivePublish, Adds

LEMMA CurateRecords ==
    ASSUME ColdTyping, NEW c \in Curator, Curate(c)
    PROVE RecordStep(c)
<1> USE DEF ColdTyping, RecordStep
<1>1. task[c] \in Tasks /\ (task[c].step \in Bound =>
         cold[task[c].env] \in Records /\ task[c].env \in Envelope)
  BY DEF TaskShape, At, Bound
<1>2. CASE ArchivePublish(c)
  BY <1>2, PublishAdds DEF ArchivePublish
<1>3. ASSUME NEW removed \in BOOLEAN, task[c].step \in Bound, Manifest(task[c].env, removed)
      PROVE RecordStep(c)
  <2> DEFINE e == task[c].env
  <2>1. cold' = [cold EXCEPT ![e] = [@ EXCEPT !.removed = removed, !.readable = TRUE]]
    BY <1>1, <1>3 DEF Manifest
  <2> QED BY <1>3, <2>1 DEF Marks
<1>4. CASE ArchiveReceipt(c)
  BY <1>3, <1>4 DEF ArchiveReceipt, At, Bound, Steps, Looks
<1>5. CASE PruneReceipt(c)
  BY <1>3, <1>5 DEF PruneReceipt, At, Bound, Steps, Looks
<1>6. CASE RestoreReceipt(c)
  BY <1>3, <1>6 DEF RestoreReceipt, At, Bound, Steps, Looks
<1>7. CASE CuratorStops(c)
  <2> DEFINE e == task[c].env
  <2>1. CASE task[c].step \in {"a_receipt", "p_receipt", "u_receipt"}
             /\ cold' = [cold EXCEPT ![e].readable = FALSE]
    <3>1. task[c].step \in Bound
      BY <2>1 DEF Bound, Steps, Looks
    <3>2. cold[e] \in Records /\ cold[e].removed \in BOOLEAN
      BY <1>1, <3>1 DEF Records
    <3>3. [cold[e] EXCEPT !.readable = FALSE]
             = [cold[e] EXCEPT !.removed = cold[e].removed, !.readable = FALSE]
      BY <3>2 DEF Records
    <3>4. cold' = [cold EXCEPT ![e] = [@ EXCEPT !.removed = cold[e].removed,
                                                !.readable = FALSE]]
      BY <2>1, <3>3
    <3> QED BY <3>1, <3>2, <3>4 DEF Marks
  <2> QED BY <1>7, <2>1 DEF CuratorStops
<1>8. CASE \E e \in Envelope : ArchiveLook(c, e) \/ PruneBegin(c, e) \/ RestoreBegin(c, e)
  BY <1>8 DEF ArchiveLook, PruneBegin, RestoreBegin
<1>9. CASE ArchiveRead(c) \/ PruneInbox(c) \/ PruneRead(c) \/ RestorePublish(c)
           \/ RestoreRow(c)
  BY <1>9 DEF ArchiveRead, PruneInbox, PruneRead, RestorePublish, RestoreRow
<1> QED BY <1>2, <1>4, <1>5, <1>6, <1>7, <1>8, <1>9 DEF Curate

\* A record is never taken back, and never forgets what it recorded.
LEMMA RecordKept ==
    ASSUME ColdTyping, NEW c \in Curator, RecordStep(c)
    PROVE /\ cold' \in [Envelope -> Records \cup {None}]
          /\ \A e \in Envelope : cold[e] # None =>
                cold'[e] # None /\ cold'[e].at = cold[e].at /\ cold'[e].row = cold[e].row
          /\ \A e \in Envelope : (cold[e] = None /\ cold'[e] # None) =>
                /\ Adds(c) /\ e = task[c].env
                /\ cold'[e].at = task[c].at /\ cold'[e].row = task[c].row
<1> USE RecordsAssumption DEF ColdTyping
<1>1. CASE UNCHANGED cold
  BY <1>1
<1>2. CASE Adds(c)
  <2> DEFINE e == task[c].env
  <2>1. PICK r \in Records : cold' = [cold EXCEPT ![e] = r]
                             /\ r.at = task[c].at /\ r.row = task[c].row
    BY <1>2 DEF Adds
  <2>2. e \in Envelope /\ cold[e] = None
    BY <1>2 DEF Adds, TaskShape, At
  <2> QED BY <1>2, <2>1, <2>2
<1>3. CASE task[c].step \in Bound /\ Marks(task[c].env)
  <2> DEFINE e == task[c].env
  <2>1. e \in Envelope /\ cold[e] \in Records
    BY <1>3 DEF TaskShape, At, Bound
  <2>2. PICK removed \in BOOLEAN, readable \in BOOLEAN :
           cold' = [cold EXCEPT ![e] = [@ EXCEPT !.removed = removed, !.readable = readable]]
    BY <1>3 DEF Marks
  <2> DEFINE r == [cold[e] EXCEPT !.removed = removed, !.readable = readable]
  <2>3. r \in Records
    BY <2>1, MarkType
  <2>4. r.at = cold[e].at /\ r.row = cold[e].row
    BY <2>1 DEF Records
  <2>5. cold' = [cold EXCEPT ![e] = r]
    BY <2>2
  <2> HIDE DEF r
  <2> QED BY <2>1, <2>3, <2>4, <2>5
<1> QED BY <1>1, <1>2, <1>3 DEF RecordStep

\* What one step of curator c does to the local variables.
LEMMA CurateTask ==
    ASSUME ColdTyping, NEW c \in Curator, Curate(c)
    PROVE /\ task' \in [Curator -> Tasks]
          /\ \A d \in Curator \ {c} : task'[d] = task[d]
<1> USE DEF ColdTyping
<1>1. CASE \E e \in Envelope : ArchiveLook(c, e)
  <2>1. PICK e \in Envelope, hot \in HotStates :
          task' = [task EXCEPT ![c].env = e, ![c].step = "a_read", ![c].hot = hot]
    BY <1>1 DEF ArchiveLook, HotStates
  <2> DEFINE r == [task[c] EXCEPT !.env = e, !.step = "a_read", !.hot = hot]
  <2>2. r \in Tasks
    BY DEF Tasks, Steps
  <2>3. task' = [task EXCEPT ![c] = r]
    BY <2>1
  <2> HIDE DEF r
  <2> QED BY <2>2, <2>3
<1>2. ASSUME NEW e \in Envelope, NEW step \in Steps, Start(c, e, step)
      PROVE task' \in [Curator -> Tasks] /\ \A d \in Curator \ {c} : task'[d] = task[d]
  <2> DEFINE r == [task[c] EXCEPT !.env = e, !.step = step]
  <2>1. r \in Tasks
    BY DEF Tasks
  <2>2. task' = [task EXCEPT ![c] = r]
    BY <1>2 DEF Start
  <2> HIDE DEF r
  <2> QED BY <2>1, <2>2
<1>3. CASE ArchiveRead(c)
  <2>1. CASE End(c)
    BY <2>1, NoTaskType DEF End
  <2>2. CASE ~End(c)
    <3>1. task[c].env \in Envelope
      BY <1>3 DEF ArchiveRead, TaskShape, At
    <3>2. PICK t \in Nat, row \in BOOLEAN :
            task' = [task EXCEPT ![c].at = t, ![c].row = row, ![c].step = "a_publish"]
      BY <1>3, <2>2, <3>1 DEF ArchiveRead, HasRow, Typing, TypeOK, Bundles
    <3> DEFINE r == [task[c] EXCEPT !.at = t, !.row = row, !.step = "a_publish"]
    <3>3. r \in Tasks
      BY DEF Tasks, Steps
    <3>4. task' = [task EXCEPT ![c] = r]
      BY <3>2
    <3> HIDE DEF r
    <3> QED BY <3>3, <3>4
  <2> QED BY <2>1, <2>2
<1>4. CASE End(c)
  BY <1>4, NoTaskType DEF End
<1>5. ASSUME NEW step \in Steps, GoOn(c, step)
      PROVE task' \in [Curator -> Tasks] /\ \A d \in Curator \ {c} : task'[d] = task[d]
  BY <1>5 DEF GoOn, Tasks
<1> QED
  BY <1>1, <1>2, <1>3, <1>4, <1>5 DEF Curate, PruneBegin, RestoreBegin, ArchivePublish,
     ArchiveReceipt, PruneInbox, PruneRead, PruneReceipt, RestorePublish, RestoreRow,
     RestoreReceipt, CuratorStops, Steps

\* Where a step of c leaves it.
LEMMA CurateShape ==
    ASSUME ColdTyping, NEW c \in Curator, Curate(c)
    PROVE /\ task'[c].step # "idle" => task'[c].env \in Envelope
          /\ task'[c].step \in Looks => task'[c].hot \in HotStates
          /\ task'[c].step = "a_publish" => task'[c].at \in Nat
          /\ task'[c].step \in Bound => cold'[task'[c].env] # None
<1> USE DEF ColdTyping, Bound, Looks
<1>0. /\ task[c] \in Tasks
      /\ task[c].step # "idle" => task[c].env \in Envelope
      /\ task[c].step \in Bound => cold[task[c].env] # None
  BY DEF TaskShape, At
<1>1. CASE \E e \in Envelope : ArchiveLook(c, e)
  BY <1>1 DEF ArchiveLook, Tasks, HotStates
<1>2. CASE \E e \in Envelope : PruneBegin(c, e) \/ RestoreBegin(c, e)
  BY <1>2 DEF PruneBegin, RestoreBegin, Start, Readable, Tasks
<1>3. CASE End(c)
  BY <1>3 DEF End, NoTask
<1>4. CASE ArchiveRead(c) /\ ~End(c)
  <2>1. task[c].env \in Envelope /\ task[c].hot \in HotStates
    BY <1>4 DEF ArchiveRead, TaskShape, At
  <2>2. PICK t \in Nat, row \in BOOLEAN :
          task' = [task EXCEPT ![c].at = t, ![c].row = row, ![c].step = "a_publish"]
    BY <1>4, <2>1 DEF ArchiveRead, HasRow, Typing, TypeOK, Bundles
  <2> QED BY <1>0, <2>1, <2>2 DEF Tasks
<1>5. CASE ArchivePublish(c) /\ ~End(c)
  <2>1. task[c].env \in Envelope /\ GoOn(c, "a_receipt") /\ Adds(c)
    BY <1>0, <1>5, PublishAdds DEF ArchivePublish, At
  <2>2. cold'[task[c].env] # None
    BY <2>1, RecordsAssumption DEF Adds
  <2> QED BY <1>0, <2>1, <2>2 DEF GoOn, Tasks
<1>6. CASE PruneInbox(c) \/ PruneRead(c) \/ (RestorePublish(c) /\ ~End(c)) \/ RestoreRow(c)
  BY <1>0, <1>6 DEF PruneInbox, PruneRead, RestorePublish, RestoreRow, GoOn, At, Tasks, Steps
<1> QED
  BY <1>1, <1>2, <1>3, <1>4, <1>5, <1>6 DEF Curate, ArchiveReceipt, PruneReceipt,
     RestoreReceipt, CuratorStops

\* What one step of curator c does to the mailbox: nothing at all to a message
\* that has no record.
CurateMail ==
    /\ UNCHANGED <<tomb, tail, quarantine, ledger, lock, pc, job>>
    /\ \A e \in Envelope : cold[e] = None => Same(e)
    /\ \/ index' = index
       \/ \E e \in Envelope, t \in Nat :
             cold[e] # None /\ RowAccepted(e, t) /\ index' = WithRow(e, t)

LEMMA CurateMailbox ==
    ASSUME ColdTyping, NEW c \in Curator, Curate(c)
    PROVE CurateMail /\ Typing'
<1> USE DEF ColdTyping
<1>0. /\ inbox \in [Envelope -> Bundles] /\ read \in [Envelope -> Bundles]
      /\ task[c].step # "idle" => task[c].env \in Envelope
      /\ task[c].step \in Bound => cold[task[c].env] # None /\ cold[task[c].env] \in Records
  BY DEF Typing, TypeOK, TaskShape, At, Bound
<1>1. ASSUME task[c].step \in Bound,
             inbox' = inbox \/ \E v \in Bundles : inbox' = [inbox EXCEPT ![task[c].env] = v],
             read' = read \/ \E v \in Bundles : read' = [read EXCEPT ![task[c].env] = v],
             UNCHANGED <<tomb, index, tail, quarantine, ledger, lock, pc, job>>,
             crashes' = crashes \/ crashes' = crashes + 1
      PROVE CurateMail /\ Typing'
  <2>1. inbox' \in [Envelope -> Bundles] /\ read' \in [Envelope -> Bundles]
    BY <1>0, <1>1
  <2>2. \A e \in Envelope : cold[e] = None => Same(e)
    BY <1>0, <1>1 DEF Same
  <2>3. crashes' \in Nat
    BY <1>1 DEF Typing, TypeOK
  <2> QED BY <1>1, <2>1, <2>2, <2>3 DEF CurateMail, Typing, TypeOK, JobShape
<1>2. CASE UNCHANGED mailbox
  BY <1>2 DEF mailbox, CurateMail, Same, Typing, TypeOK, JobShape
<1>3. CASE PruneInbox(c) \/ PruneRead(c)
  <2>1. task[c].step \in Bound
    BY <1>3 DEF PruneInbox, PruneRead, At, Bound, Steps, Looks
  <2>2. None \in Bundles
    BY DEF Bundles
  <2> QED BY <1>1, <1>3, <2>1, <2>2 DEF PruneInbox, PruneRead
<1>4. CASE RestorePublish(c)
  <2>1. task[c].step \in Bound
    BY <1>4 DEF RestorePublish, At, Bound, Steps, Looks
  <2>2. cold[task[c].env].at \in Bundles
    BY <1>0, <2>1 DEF Records, Bundles
  <2> QED BY <1>1, <1>4, <2>1, <2>2 DEF RestorePublish
<1>5. CASE RestoreRow(c)
  <2> DEFINE e == task[c].env  t == cold[e].archived
  <2>1. e \in Envelope /\ cold[e] # None /\ t \in Nat
    BY <1>0, <1>5 DEF RestoreRow, At, Bound, Steps, Looks, Records
  <2>2. index' = index \/ (RowAccepted(e, t) /\ index' = WithRow(e, t))
    BY <1>5 DEF RestoreRow
  <2>3. index' \in Seq(Rows)
    BY <2>1, <2>2, WithRowType DEF Typing, TypeOK
  <2>4. UNCHANGED <<inbox, read, tomb, tail, quarantine, ledger, lock, pc, job, crashes>>
    BY <1>5 DEF RestoreRow
  <2> HIDE DEF e, t
  <2>5. CurateMail
    BY <2>1, <2>2, <2>4 DEF CurateMail, Same
  <2>6. Typing'
    BY <2>3, <2>4 DEF Typing, TypeOK, JobShape
  <2> QED BY <2>5, <2>6
<1>6. CASE CuratorStops(c)
  <2>1. UNCHANGED <<tomb, index, tail, quarantine, ledger, lock, pc, job>>
        /\ crashes' = crashes + 1
    BY <1>6 DEF CuratorStops
  <2>2. CASE UNCHANGED <<inbox, read>>
    BY <2>1, <2>2 DEF CurateMail, Same, Typing, TypeOK, JobShape
  <2>3. CASE task[c].step \in {"p_inbox", "p_read"}
             /\ (inbox' = inbox \/ inbox' = [inbox EXCEPT ![task[c].env] = Torn])
             /\ (read' = read \/ read' = [read EXCEPT ![task[c].env] = Torn])
    <3>1. task[c].step \in Bound /\ Torn \in Bundles
      BY <2>3 DEF Bound, Steps, Looks, Bundles
    <3> QED BY <1>1, <2>1, <2>3, <3>1
  <2> QED BY <1>6, <2>2, <2>3 DEF CuratorStops, At
<1>7. CASE \E e \in Envelope : ArchiveLook(c, e) \/ PruneBegin(c, e) \/ RestoreBegin(c, e)
  BY <1>2, <1>7 DEF ArchiveLook, PruneBegin, RestoreBegin
<1>8. CASE ArchiveRead(c) \/ ArchivePublish(c) \/ ArchiveReceipt(c) \/ PruneReceipt(c)
           \/ RestoreReceipt(c)
  BY <1>2, <1>8 DEF ArchiveRead, ArchivePublish, ArchiveReceipt, PruneReceipt,
     RestoreReceipt
<1> QED BY <1>3, <1>4, <1>5, <1>6, <1>7, <1>8 DEF Curate

LEMMA CurateTyping ==
    ASSUME ColdTyping, NEW c \in Curator, Curate(c)
    PROVE ColdTyping'
<1>1. RecordStep(c)
  BY CurateRecords
<1>2. /\ cold' \in [Envelope -> Records \cup {None}]
      /\ \A e \in Envelope : cold[e] # None => cold'[e] # None
  BY <1>1, RecordKept
<1>3. task' \in [Curator -> Tasks] /\ \A d \in Curator \ {c} : task'[d] = task[d]
  BY CurateTask
<1>4. ASSUME NEW d \in Curator
      PROVE  /\ task'[d].step # "idle" => task'[d].env \in Envelope
             /\ task'[d].step \in Looks => task'[d].hot \in HotStates
             /\ task'[d].step = "a_publish" => task'[d].at \in Nat
             /\ task'[d].step \in Bound => cold'[task'[d].env] # None
  <2>1. CASE d = c
    BY <2>1, CurateShape
  <2>2. CASE d # c
    BY <1>2, <1>3, <2>2 DEF ColdTyping, TaskShape, At, Bound
  <2> QED BY <2>1, <2>2
<1>5. TaskShape'
  BY <1>4 DEF TaskShape, At
<1> QED BY <1>2, <1>3, <1>5, CurateMailbox DEF ColdTyping

LEMMA NextColdTyping == ColdTyping /\ [ColdNext]_<<vars, coldVars>> => ColdTyping'
<1> SUFFICES ASSUME ColdTyping, [ColdNext]_<<vars, coldVars>> PROVE ColdTyping'
  OBVIOUS
<1>1. CASE Next /\ UNCHANGED coldVars
  BY <1>1, NextTyping DEF ColdTyping, coldVars, TaskShape, At
<1>2. CASE UNCHANGED <<vars, coldVars>>
  BY <1>2, NextTyping DEF ColdTyping, coldVars, TaskShape, At
<1>3. ASSUME NEW c \in Curator, Curate(c) PROVE ColdTyping'
  BY <1>3, CurateTyping
<1> QED BY <1>1, <1>2, <1>3 DEF ColdNext

\* The files, the records and the local variables of every process and curator
\* keep their shape whoever works on them at once, and a curator past its first
\* looks always has a record to stand on.
THEOREM ColdTypeCorrect == ColdSpec => []ColdTypeOK
<1>1. ColdTyping => ColdTypeOK
  BY DEF ColdTyping, Typing, ColdTypeOK
<1> QED BY <1>1, InitColdTyping, NextColdTyping, PTL DEF ColdSpec

-----------------------------------------------------------------------------
(* The inductive invariant *)

\* What the index, the tombstone and the ledger say of one envelope.
Indexed(e) == \A i \in DOMAIN index : index[i].id = e => index[i].at = Received(e)

Buried(e) == tomb[e] # None =>
    /\ RowIs(e, tomb[e].received)
    /\ \E p \in Proc : tomb[e].expired >= tomb[e].received + EffectiveTTL(p, e)

Noted(e) ==
    /\ <<"RECEIPT_OBSERVED", e>> \in ledger => State(e) # "absent"
    /\ <<"OPENED", e>> \in ledger => State(e) \in Opened

\* A message that was never archived keeps every promise of the mailbox.
Promises(e) == Agrees(e) /\ Indexed(e) /\ Buried(e) /\ Noted(e)
HotTruth == \A e \in Envelope : cold[e] = None => Promises(e)

HotKnown == \A e \in Envelope : cold[e] = None => \A p \in Proc : Knows(p, e)

\* What an archive about to publish its record has read is still so, unless
\* another curator was first.
TaskInv == \A c \in Curator :
    (At(c, "a_publish") /\ cold[task[c].env] = None) =>
        /\ Received(task[c].env) = task[c].at
        /\ task[c].row => HasRow(task[c].env)

ColdInv == ColdTyping /\ LockInv /\ HotTruth /\ HotKnown /\ TaskInv /\ IndexOnce /\ ColdProvenance

\* One row more at most, and a true one where the message was never archived.
RowCome == index' = index \/ \E e \in Envelope, t \in Nat :
    /\ cold[e] = None => Received(e) = t
    /\ RowAccepted(e, t) /\ index' = WithRow(e, t)

\* What a step does to the evidence of an envelope.
Stands(e) ==
    /\ Agrees(e)'
    /\ Received(e) \in Nat => Received(e)' = Received(e)
    /\ tomb[e] # None => tomb'[e] = tomb[e]

LEMMA RowsKept ==
    ASSUME ColdInv, RowCome
    PROVE /\ IndexOnce'
          /\ \A f \in Envelope, u \in Nat : RowIs(f, u) => RowIs(f, u)'
          /\ \A f \in Envelope : HasRow(f) => HasRow(f)'
          /\ \A f \in Envelope, i \in DOMAIN index' :
                (cold[f] = None /\ index'[i].id = f) =>
                    Received(f) \in Nat /\ index'[i].at = Received(f)
<1>0. index \in Seq(Rows) /\ \A i \in DOMAIN index : index[i].at \in Nat
  <2>1. index \in Seq(Rows)
    BY DEF ColdInv, ColdTyping, Typing, TypeOK
  <2>2. \A i \in DOMAIN index : index[i] \in Rows
    BY <2>1
  <2> QED BY <2>1, <2>2 DEF Rows
<1>1. \A f \in Envelope, i \in DOMAIN index :
         (cold[f] = None /\ index[i].id = f) =>
             Received(f) \in Nat /\ index[i].at = Received(f)
  <2>1. SUFFICES ASSUME NEW f \in Envelope, NEW i \in DOMAIN index,
                        cold[f] = None, index[i].id = f
                 PROVE  Received(f) \in Nat /\ index[i].at = Received(f)
    OBVIOUS
  <2>2. index[i].at = Received(f)
    BY <2>1 DEF ColdInv, HotTruth, Promises, Indexed
  <2> QED BY <1>0, <2>2
<1>2. CASE index' = index
  BY <1>1, <1>2 DEF ColdInv, IndexOnce, RowIs, HasRow
<1>3. ASSUME NEW e \in Envelope, NEW t \in Nat, cold[e] = None => Received(e) = t,
             ~HasRow(e), index' = Append(index, [id |-> e, at |-> t])
      PROVE  /\ IndexOnce'
             /\ \A f \in Envelope, u \in Nat : RowIs(f, u) => RowIs(f, u)'
             /\ \A f \in Envelope : HasRow(f) => HasRow(f)'
             /\ \A f \in Envelope, i \in DOMAIN index' :
                   (cold[f] = None /\ index'[i].id = f) =>
                       Received(f) \in Nat /\ index'[i].at = Received(f)
  <2> DEFINE row == [id |-> e, at |-> t]
  <2>1. /\ DOMAIN index' = 1 .. Len(index) + 1 /\ Len(index) \in Nat
        /\ DOMAIN index = 1 .. Len(index)
        /\ index'[Len(index) + 1] = row
        /\ \A i \in DOMAIN index : index'[i] = index[i]
    <3>1. row \in Rows
      BY DEF Rows
    <3> QED BY <1>0, <1>3, <3>1
  <2>2. \A i \in DOMAIN index : index[i].id # e
    BY <1>3 DEF HasRow
  <2>3. IndexOnce'
    BY <2>1, <2>2 DEF ColdInv, IndexOnce
  <2>4. \A f \in Envelope, u \in Nat : RowIs(f, u) => RowIs(f, u)'
    BY <2>1 DEF RowIs
  <2>5. \A f \in Envelope : HasRow(f) => HasRow(f)'
    BY <2>1 DEF HasRow
  <2>6. ASSUME NEW f \in Envelope, NEW i \in DOMAIN index', cold[f] = None, index'[i].id = f
        PROVE  Received(f) \in Nat /\ index'[i].at = Received(f)
    <3>1. CASE i = Len(index) + 1
      BY <1>3, <2>1, <2>6, <3>1
    <3>2. CASE i # Len(index) + 1
      BY <1>1, <2>1, <2>6, <3>2
    <3> QED BY <3>1, <3>2
  <2> QED BY <2>3, <2>4, <2>5, <2>6
<1> QED BY <1>2, <1>3 DEF RowCome, WithRow

\* A tombstone that stands, and one that is written now.
LEMMA BuriedKept ==
    ASSUME ColdInv, NEW p \in Proc, NEW e \in Envelope, cold[e] = None,
           Same(e) \/ Writes(p, e),
           \A f \in Envelope, u \in Nat : RowIs(f, u) => RowIs(f, u)'
    PROVE Buried(e)'
<1> USE DEF ColdInv, ColdTyping, Typing, TypeOK, HotTruth, Promises, Buried
<1>1. tomb[e] # None => tomb[e].received \in Nat
  BY DEF Tombstones
<1>2. CASE tomb'[e] = tomb[e]
  <2>1. tomb'[e] # None => RowIs(e, tomb[e].received)'
    BY <1>1, <1>2
  <2> QED BY <1>2, <2>1 DEF EffectiveTTL, RowIs
<1>3. CASE Buries(p, e)
  <2>1. PICK t \in Nat :
          /\ t >= Bundle(e) + EffectiveTTL(p, e)
          /\ tomb' = [tomb EXCEPT ![e] = [received |-> Bundle(e), expired |-> t,
                                          ttl |-> EffectiveTTL(p, e)]]
    BY <1>3 DEF Buries
  <2>2. tomb'[e].received = Bundle(e) /\ tomb'[e].expired = t
    BY <2>1
  <2>3. PICK u \in Nat : u = tomb'[e].received /\ RowIs(e, u)'
    BY <1>3, <2>2 DEF Buries
  <2>4. tomb'[e].expired >= tomb'[e].received + EffectiveTTL(p, e)
    BY <2>1, <2>2
  <2> QED BY <2>3, <2>4 DEF EffectiveTTL, RowIs
<1> QED
  BY <1>2, <1>3 DEF Same, Writes, Publishes, Moves, DropsInbox, DropsRead

\* A write or none, seen from the message it may be about.
LEMMA HotKeeps ==
    ASSUME Typing, NEW p \in Proc, NEW e \in Envelope, Agrees(e), Noted(e),
           Same(e) \/ Writes(p, e)
    PROVE /\ Stands(e)
          /\ State(e) # "absent" => State(e)' # "absent"
          /\ State(e) \in Opened => State(e)' \in Opened
<1>1. CASE Same(e)
  BY <1>1, SameKeeps DEF Stands, Same
<1>2. CASE Writes(p, e)
  <2>1. Stands(e)
    BY <1>2, WriteKeeps DEF Stands
  <2>2. \/ State(e) = "absent" /\ State(e)' = "unread"
        \/ State(e) = "unread" /\ State(e)' = "read"
        \/ State(e) \in {"unread", "read"} /\ State(e)' = "expired"
        \/ State(e)' = State(e)
    BY <1>2, WriteLifecycle
  <2> QED BY <2>1, <2>2 DEF Opened
<1> QED BY <1>1, <1>2

\* A step of the mailbox: to a message that was never archived it is what it is
\* without an archive.
LEMMA MailHot ==
    ASSUME ColdInv, NEW p \in Proc, Moved(p)
    PROVE /\ RowCome
          /\ \A e \in Envelope : cold[e] = None =>
                Same(e) \/ (lock \in {None, p} /\ Writes(p, e))
<1>1. Quiet \/ (lock \in {None, p} /\ \E e \in Envelope : WritesIfKnown(p, e))
  BY StepWrites DEF ColdInv, ColdTyping
<1>2. \A e \in Envelope : cold[e] = None => Knows(p, e)
  BY DEF ColdInv, HotKnown
<1>3. Quiet => \A e \in Envelope : Same(e)
  BY DEF Quiet, Same
<1>4. RowIfKnown(p)
  BY StepRowIfKnown DEF ColdInv, ColdTyping
<1> QED BY <1>1, <1>2, <1>3, <1>4 DEF WritesIfKnown, RowIfKnown, RowCome

LEMMA MailColdInv ==
    ASSUME ColdInv, NEW p \in Proc, Moved(p), UNCHANGED coldVars, ColdTyping'
    PROVE ColdInv'
<1>1. cold' = cold /\ task' = task
  BY DEF coldVars
<1>2. Typing /\ Typing' /\ LockInv
  BY DEF ColdInv, ColdTyping
<1>3. Frame(p) /\ LockStep(p)
  BY <1>2, StepFrame, StepLock
<1>4. /\ IndexOnce'
      /\ \A f \in Envelope, u \in Nat : RowIs(f, u) => RowIs(f, u)'
      /\ \A f \in Envelope : HasRow(f) => HasRow(f)'
      /\ \A f \in Envelope, i \in DOMAIN index' :
            (cold[f] = None /\ index'[i].id = f) =>
                Received(f) \in Nat /\ index'[i].at = Received(f)
  BY MailHot, RowsKept
<1>5. LockInv'
  BY <1>2, <1>3, NoneAssumption DEF LockInv, Frame, LockStep
<1>6. ASSUME NEW e \in Envelope, cold[e] = None
      PROVE  Stands(e) /\ Promises(e)' /\ \A q \in Proc : Knows(q, e)'
  <2>1. Promises(e) /\ \A q \in Proc : Knows(q, e)
    BY <1>6 DEF ColdInv, HotTruth, HotKnown
  <2>2. Same(e) \/ (lock \in {None, p} /\ Writes(p, e))
    BY <1>6, MailHot
  <2>3. /\ Stands(e)
        /\ State(e) # "absent" => State(e)' # "absent"
        /\ State(e) \in Opened => State(e)' \in Opened
    BY <1>2, <2>1, <2>2, HotKeeps DEF Promises
  <2>4. Indexed(e)'
    BY <1>4, <1>6, <2>3 DEF Indexed, Stands
  <2>5. Buried(e)'
    BY <1>4, <1>6, <2>2, BuriedKept
  <2>6. Noted(e)'
    <3>1. Noting(e)
      BY <1>2, <2>1, StepNote
    <3> QED BY <2>1, <2>3, <3>1 DEF Noting, Noted, Promises, Opened, Events
  <2>7. Knows(p, e)'
    BY <1>2, <2>1, <2>3, OwnKnow DEF Promises, Stands
  <2>8. ASSUME NEW q \in Proc \ {p} PROVE Knows(q, e)'
    <3>1. Spared(q, e)
      BY <2>2, <2>3, NoneAssumption DEF Spared, Stands
    <3> QED BY <1>2, <1>3, <2>1, <3>1, OthersKnow DEF Frame
  <2> QED BY <2>3, <2>4, <2>5, <2>6, <2>7, <2>8 DEF Promises, Stands
<1>7. HotTruth' /\ HotKnown'
  BY <1>1, <1>6 DEF HotTruth, HotKnown
<1>8. TaskInv'
  <2>1. ASSUME NEW c \in Curator, At(c, "a_publish"), cold[task[c].env] = None
        PROVE  Received(task[c].env)' = task[c].at
               /\ (task[c].row => HasRow(task[c].env)')
    <3>1. PICK e \in Envelope : e = task[c].env
      BY <2>1 DEF ColdInv, ColdTyping, TaskShape, At
    <3>2. Received(e) = task[c].at /\ task[c].at \in Nat /\ (task[c].row => HasRow(e))
      BY <2>1, <3>1 DEF ColdInv, ColdTyping, TaskShape, TaskInv
    <3>3. Received(e)' = task[c].at
      BY <1>6, <2>1, <3>1, <3>2 DEF Stands
    <3> QED BY <1>1, <1>4, <3>1, <3>2, <3>3 DEF HasRow, Received, Bundle
  <2> QED BY <1>1, <2>1 DEF TaskInv, At, Received, Bundle, HasRow
<1>9. ColdProvenance'
  <2>1. ASSUME NEW e \in Envelope, cold[e] # None, cold[e].row PROVE RowIs(e, cold[e].at)'
    <3>1. RowIs(e, cold[e].at) /\ cold[e].at \in Nat
      BY <2>1 DEF ColdInv, ColdTyping, ColdProvenance, Records
    <3> QED BY <1>1, <1>4, <3>1 DEF RowIs
  <2> QED BY <1>1, <2>1 DEF ColdProvenance, RowIs
<1> QED BY <1>4, <1>5, <1>7, <1>8, <1>9 DEF ColdInv

\* What an archive reads of a message without a record is what the mailbox
\* stands by.
LEMMA ArchiveReadsTruth ==
    ASSUME ColdInv, NEW c \in Curator, ArchiveRead(c), At(c, "a_publish")',
           cold[task[c].env] = None
    PROVE /\ task'[c].env = task[c].env /\ task'[c].at \in Nat
          /\ task'[c].at = Received(task[c].env)
          /\ task'[c].row => HasRow(task[c].env)
<1> USE DEF ColdInv, ColdTyping
<1>1. task \in [Curator -> Tasks] /\ task[c].env \in Envelope
  BY DEF ArchiveRead, TaskShape, At
<1>2. PICK e \in Envelope : e = task[c].env
  BY <1>1
<1>3. ~End(c)
  BY <1>1 DEF End, NoTask, At
<1>4. PICK t \in {inbox[e], read[e]} :
         /\ t \notin {None, Torn}
         /\ task' = [task EXCEPT ![c].at = t, ![c].row = HasRow(e), ![c].step = "a_publish"]
  BY <1>2, <1>3 DEF ArchiveRead
<1>5. t \in Nat
  BY <1>4 DEF Typing, TypeOK, Bundles
<1>6. t = Received(e)
  BY <1>2, <1>4, <1>5 DEF HotTruth, Promises, Agrees
<1>7. PICK row \in BOOLEAN : row = HasRow(e)
  BY DEF HasRow
<1>8. task'[c].env = e /\ task'[c].at = t /\ task'[c].row = row
  <2> DEFINE r == [task[c] EXCEPT !.at = t, !.row = row, !.step = "a_publish"]
  <2>1. task' = [task EXCEPT ![c] = r]
    BY <1>4, <1>7
  <2>2. task'[c] = r
    BY <1>1, <2>1
  <2> QED BY <1>1, <1>2, <2>2 DEF Tasks
<1> QED BY <1>2, <1>5, <1>6, <1>7, <1>8

\* No other step of a curator leads to a_publish.
LEMMA ToPublish ==
    ASSUME ColdTyping, NEW c \in Curator, Curate(c), At(c, "a_publish")'
    PROVE ArchiveRead(c)
<1> USE DEF ColdTyping, At
<1>1. task[c] \in Tasks /\ task \in [Curator -> Tasks]
  OBVIOUS
<1>2. ~End(c)
  BY <1>1 DEF End, NoTask
<1>3. \A step \in Steps \ {"a_publish"} : ~GoOn(c, step)
  BY <1>1 DEF GoOn, Tasks
<1>4. \A e \in Envelope, step \in Steps \ {"a_publish"} : ~Start(c, e, step)
  BY <1>1 DEF Start, Tasks
<1>5. \A e \in Envelope : ~ArchiveLook(c, e)
  BY <1>1 DEF ArchiveLook, Tasks
<1> QED
  BY <1>2, <1>3, <1>4, <1>5 DEF Curate, PruneBegin, RestoreBegin, ArchivePublish,
     ArchiveReceipt, PruneInbox, PruneRead, PruneReceipt, RestorePublish, RestoreRow,
     RestoreReceipt, CuratorStops, Steps

LEMMA CurateColdInv ==
    ASSUME ColdInv, NEW c \in Curator, Curate(c)
    PROVE ColdInv'
<1>0. ColdTyping /\ ColdTyping'
  BY CurateTyping DEF ColdInv
<1>1. /\ UNCHANGED <<tomb, tail, quarantine, ledger, lock, pc, job>>
      /\ \A e \in Envelope : cold[e] = None => Same(e)
  BY <1>0, CurateMailbox DEF CurateMail
<1>2. RowCome
  BY <1>0, CurateMailbox DEF CurateMail, RowCome
<1>3. /\ IndexOnce'
      /\ \A f \in Envelope, u \in Nat : RowIs(f, u) => RowIs(f, u)'
      /\ \A f \in Envelope : HasRow(f) => HasRow(f)'
      /\ \A f \in Envelope, i \in DOMAIN index' :
            (cold[f] = None /\ index'[i].id = f) =>
                Received(f) \in Nat /\ index'[i].at = Received(f)
  BY <1>2, RowsKept
<1>4. /\ \A e \in Envelope : cold[e] # None =>
            cold'[e] # None /\ cold'[e].at = cold[e].at /\ cold'[e].row = cold[e].row
      /\ \A e \in Envelope : (cold[e] = None /\ cold'[e] # None) =>
            /\ Adds(c) /\ e = task[c].env
            /\ cold'[e].at = task[c].at /\ cold'[e].row = task[c].row
  BY <1>0, CurateRecords, RecordKept
<1>5. LockInv'
  BY <1>1 DEF ColdInv, LockInv
<1>6. ASSUME NEW e \in Envelope, cold[e] = None
      PROVE  /\ Received(e)' = Received(e)
             /\ Promises(e)' /\ \A q \in Proc : Knows(q, e)'
  <2>1. Promises(e) /\ \A q \in Proc : Knows(q, e)
    BY <1>6 DEF ColdInv, HotTruth, HotKnown
  <2>2. Same(e) /\ State(e)' = State(e) /\ Received(e)' = Received(e) /\ Agrees(e)'
    BY <1>1, <1>6, <2>1, SameKeeps DEF Promises
  <2>3. Indexed(e)'
    BY <1>3, <1>6, <2>2 DEF Indexed
  <2>4. Buried(e)'
    <3>1. tomb[e] # None => tomb[e].received \in Nat
      BY DEF ColdInv, ColdTyping, Typing, TypeOK, Tombstones
    <3>2. tomb'[e] = tomb[e]
      BY <2>2 DEF Same
    <3>3. tomb'[e] # None => RowIs(e, tomb[e].received)'
      BY <1>3, <2>1, <3>1, <3>2 DEF Promises, Buried
    <3> QED BY <2>1, <3>2, <3>3 DEF Promises, Buried, RowIs, EffectiveTTL
  <2>5. Noted(e)'
    BY <1>1, <2>1, <2>2 DEF Promises, Noted
  <2>6. \A q \in Proc : Knows(q, e)'
    BY <1>1, <2>1, <2>2 DEF Knows, Same
  <2> QED BY <2>2, <2>3, <2>4, <2>5, <2>6 DEF Promises
<1>7. HotTruth' /\ HotKnown'
  BY <1>4, <1>6 DEF HotTruth, HotKnown
<1>8. TaskInv'
  <2>1. ASSUME NEW d \in Curator, At(d, "a_publish")', cold'[task'[d].env] = None
        PROVE  \E e \in Envelope : /\ e = task'[d].env /\ Received(e)' = task'[d].at
                                   /\ task'[d].row => HasRow(e)'
    <3>1. CASE d = c
      <4>1. ArchiveRead(c)
        BY <1>0, <2>1, <3>1, ToPublish
      <4>2. PICK e \in Envelope : e = task[c].env
        BY <1>0, <4>1 DEF ColdTyping, TaskShape, At, ArchiveRead
      <4>3. cold' = cold
        BY <4>1 DEF ArchiveRead
      <4>4. task'[c].env = task[c].env
        <5>1. ~End(c)
          BY <1>0, <2>1, <3>1 DEF End, NoTask, At, ColdTyping
        <5>2. PICK t, row : task' = [task EXCEPT ![c].at = t, ![c].row = row,
                                                 ![c].step = "a_publish"]
          BY <4>1, <5>1 DEF ArchiveRead
        <5> QED BY <1>0, <5>2 DEF ColdTyping, Tasks
      <4>5. cold[e] = None
        BY <2>1, <3>1, <4>2, <4>3, <4>4
      <4>6. /\ task'[c].at \in Nat /\ task'[c].at = Received(e)
            /\ task'[c].row => HasRow(e)
        BY <2>1, <3>1, <4>1, <4>2, <4>5, ArchiveReadsTruth
      <4> QED BY <1>3, <1>6, <3>1, <4>2, <4>4, <4>5, <4>6
    <3>2. CASE d # c
      <4>1. task'[d] = task[d]
        BY <1>0, <3>2, CurateTask
      <4>2. PICK e \in Envelope : e = task[d].env
        BY <1>0, <2>1, <4>1 DEF ColdTyping, TaskShape, At
      <4>3. cold[e] = None
        BY <1>4, <2>1, <4>1, <4>2
      <4>4. Received(e) = task[d].at /\ (task[d].row => HasRow(e))
        BY <2>1, <4>1, <4>2, <4>3 DEF ColdInv, TaskInv, At
      <4> QED BY <1>3, <1>6, <4>1, <4>2, <4>3, <4>4
    <3> QED BY <3>1, <3>2
  <2> QED BY <2>1 DEF TaskInv, At, Received, Bundle, HasRow
<1>9. ColdProvenance'
  <2>1. ASSUME NEW e \in Envelope, cold'[e] # None, cold'[e].row
        PROVE  \E u \in Nat : u = cold'[e].at /\ RowIs(e, u)'
    <3>1. CASE cold[e] # None
      <4>1. PICK u \in Nat : u = cold[e].at
        BY <3>1 DEF ColdInv, ColdTyping, Records
      <4>2. RowIs(e, u) /\ cold'[e].at = u
        BY <1>4, <2>1, <3>1, <4>1 DEF ColdInv, ColdProvenance
      <4>3. RowIs(e, u)'
        BY <1>3, <4>2
      <4> QED BY <4>2, <4>3
    <3>2. CASE cold[e] = None
      <4>1. /\ At(c, "a_publish") /\ e = task[c].env
            /\ cold'[e].at = task[c].at /\ cold'[e].row = task[c].row
        BY <1>4, <2>1, <3>2 DEF Adds
      <4>2. PICK u \in Nat : u = task[c].at /\ u = Received(e) /\ HasRow(e)
        BY <2>1, <3>2, <4>1 DEF ColdInv, ColdTyping, TaskShape, TaskInv
      <4>3. RowIs(e, u)
        <5>1. PICK i \in DOMAIN index : index[i].id = e
          BY <4>2 DEF HasRow
        <5>2. index \in Seq(Rows)
          BY <1>0 DEF ColdTyping, Typing, TypeOK
        <5>3. index[i] \in Rows
          BY <5>1, <5>2
        <5>4. index[i].at = u
          BY <3>2, <4>2, <5>1 DEF ColdInv, HotTruth, Promises, Indexed
        <5> QED BY <5>1, <5>3, <5>4 DEF RowIs, Rows
      <4>4. RowIs(e, u)'
        BY <1>3, <4>3
      <4> QED BY <4>1, <4>2, <4>4
    <3> QED BY <3>1, <3>2
  <2> QED BY <2>1 DEF ColdProvenance, RowIs
<1> QED BY <1>0, <1>3, <1>5, <1>7, <1>8, <1>9 DEF ColdInv

LEMMA InitColdInv == ColdInit => ColdInv
<1> SUFFICES ASSUME ColdInit PROVE ColdInv
  OBVIOUS
<1>1. ColdTyping
  BY InitColdTyping
<1>2. IInv
  BY InitIInv DEF ColdInit
<1>3. LockInv /\ HotKnown /\ \A e \in Envelope : Agrees(e)
  BY <1>2 DEF IInv, JobInv, JobOne, HotKnown, ReceiptsAgree, Agrees
<1>4. \A e \in Envelope : Indexed(e) /\ Buried(e) /\ Noted(e)
  <2>1. \A e \in Envelope : Indexed(e) /\ Buried(e)
    BY <1>2 DEF IInv, IndexTruth, TombstoneTruth, Indexed, Buried
  <2>2. \A e \in Envelope : Noted(e)
    BY DEF ColdInit, Init, Noted
  <2> QED BY <2>1, <2>2
<1>5. TaskInv /\ IndexOnce /\ ColdProvenance
  BY DEF ColdInit, Init, TaskInv, At, NoTask, IndexOnce, ColdProvenance
<1> QED BY <1>1, <1>3, <1>4, <1>5 DEF ColdInv, HotTruth, Promises

LEMMA NextColdInv == ColdInv /\ [ColdNext]_<<vars, coldVars>> => ColdInv'
<1> SUFFICES ASSUME ColdInv, [ColdNext]_<<vars, coldVars>> PROVE ColdInv'
  OBVIOUS
<1>1. ColdTyping'
  BY NextColdTyping DEF ColdInv
<1>2. CASE UNCHANGED <<vars, coldVars>>
  BY <1>1, <1>2 DEF vars, coldVars, ColdInv, LockInv, HotTruth, Promises, Agrees, Indexed,
     Buried, Noted, HotKnown, Knows, TaskInv, At, IndexOnce, ColdProvenance, State,
     Received, Bundle, RowIs, HasRow
<1>3. CASE Next /\ UNCHANGED coldVars
  <2>1. PICK p \in Proc : Moved(p)
    BY <1>3 DEF Next, Moved
  <2> QED BY <1>1, <1>3, <2>1, MailColdInv
<1>4. ASSUME NEW c \in Curator, Curate(c) PROVE ColdInv'
  BY <1>4, CurateColdInv
<1> QED BY <1>2, <1>3, <1>4 DEF ColdNext

LEMMA ColdInductive == ColdSpec => []ColdInv
  BY InitColdInv, NextColdInv, PTL DEF ColdSpec

-----------------------------------------------------------------------------
(* What follows *)

\* Until it is archived, a message keeps every promise the mailbox makes of it,
\* whatever curators do to other messages and whoever dies where: one receipt
\* instant, true rows, a tombstone only in time, a ledger that is not ahead.
THEOREM UnarchivedKeepPromises == ColdSpec => []HotTruth
  BY ColdInductive, PTL DEF ColdInv

LEMMA ColdInvSaves == ColdInv => NothingLost
<1> SUFFICES ASSUME ColdInv, NEW e \in Envelope, tomb[e] = None, cold[e] = None,
                    HasRow(e) \/ <<"RECEIPT_OBSERVED", e>> \in ledger
             PROVE  inbox[e] \in Nat \/ read[e] \in Nat
  BY DEF NothingLost
<1>1. Promises(e) /\ Typing
  BY DEF ColdInv, ColdTyping, HotTruth
<1>2. Received(e) # None
  <2>1. CASE HasRow(e)
    <3>1. PICK i \in DOMAIN index : index[i].id = e
      BY <2>1 DEF HasRow
    <3>2. index \in Seq(Rows)
      BY <1>1 DEF Typing, TypeOK
    <3>3. index[i] \in Rows
      BY <3>1, <3>2
    <3> QED BY <1>1, <3>1, <3>3, NoneAssumption DEF Promises, Indexed, Rows
  <2>2. CASE <<"RECEIPT_OBSERVED", e>> \in ledger
    BY <1>1, <2>2 DEF Promises, Noted, State, Received, Bundle
  <2> QED BY <2>1, <2>2
<1>3. Received(e) = Bundle(e) /\ Received(e) # Torn
  BY <1>1 DEF Received, Promises, Agrees
<1> QED BY <1>1, <1>2, <1>3 DEF Typing, TypeOK, Bundle, Bundles

\* A message that was received and has not expired is whole in the mailbox or
\* has its cold record: no archive, prune or restore, interrupted at any step
\* beside any mailbox operation, loses it.
THEOREM NothingIsLost == ColdSpec => []NothingLost
  BY ColdInductive, ColdInvSaves, PTL

\* A record that keeps a provenance row keeps the instant of that row, through
\* redelivery, restore and rewritten manifests.
THEOREM RecordsKeepProvenance == ColdSpec => []ColdProvenance
  BY ColdInductive, PTL DEF ColdInv

\* The index has one row for an envelope at most, although restore appends to it
\* beside deliver, recover and ledger.reconcile.
THEOREM RowsStayUnique == ColdSpec => []IndexOnce
  BY ColdInductive, PTL DEF ColdInv

\* The record that appears is of the receipt the mailbox stands by at that
\* moment, although the archive read it some steps earlier and without the lock;
\* and a record that is there stays, with the receipt it was made with.
Faithful == \A e \in Envelope :
    /\ (cold[e] = None /\ cold'[e] # None) => cold'[e].at = Received(e)
    /\ cold[e] # None => cold'[e] # None /\ cold'[e].at = cold[e].at

LEMMA StepFaithful == ColdInv /\ [ColdNext]_<<vars, coldVars>> => Faithful
<1> SUFFICES ASSUME ColdInv, [ColdNext]_<<vars, coldVars>> PROVE Faithful
  OBVIOUS
<1>1. CASE UNCHANGED cold
  BY <1>1 DEF Faithful
<1>2. ASSUME NEW c \in Curator, Curate(c) PROVE Faithful
  <2>1. RecordStep(c)
    BY <1>2, CurateRecords DEF ColdInv
  <2>2. \A e \in Envelope : (cold[e] = None /\ cold'[e] # None) =>
            At(c, "a_publish") /\ e = task[c].env /\ cold'[e].at = task[c].at
    BY <2>1, RecordKept DEF ColdInv, Adds
  <2>3. \A e \in Envelope : cold[e] # None => cold'[e] # None /\ cold'[e].at = cold[e].at
    BY <2>1, RecordKept DEF ColdInv
  <2> QED BY <2>2, <2>3 DEF ColdInv, TaskInv, Faithful
<1> QED BY <1>1, <1>2 DEF ColdNext, coldVars

\* Every record is made true to the mailbox, once, and is never taken back.
THEOREM RecordsAreFaithful == ColdSpec => [][Faithful]_<<vars, coldVars>>
  BY ColdInductive, StepFaithful, PTL DEF ColdSpec

-----------------------------------------------------------------------------
(* The promised life cycle, for the messages that were never archived *)

Unarchived == \A e \in Envelope : cold'[e] = None =>
    \/ State(e) = "absent" /\ State(e)' = "unread" /\ Received(e)' \in Nat
    \/ State(e) = "unread" /\ State(e)' = "read" /\ Received(e)' = Received(e)
    \/ /\ State(e) \in {"unread", "read"} /\ State(e)' = "expired"
       /\ Received(e)' = Received(e)
    \/ State(e)' = State(e) /\ Received(e)' = Received(e)

LEMMA StepUnarchived == ColdInv /\ [ColdNext]_<<vars, coldVars>> => Unarchived
<1> SUFFICES ASSUME ColdInv, [ColdNext]_<<vars, coldVars>> PROVE Unarchived
  OBVIOUS
<1>1. CASE UNCHANGED <<vars, coldVars>>
  BY <1>1 DEF vars, Unarchived, State, Received, Bundle
<1>2. CASE Next /\ UNCHANGED coldVars
  <2>1. PICK p \in Proc : Moved(p)
    BY <1>2 DEF Next, Moved
  <2>2. SUFFICES ASSUME NEW e \in Envelope, cold[e] = None
                 PROVE \/ State(e) = "absent" /\ State(e)' = "unread" /\ Received(e)' \in Nat
                       \/ State(e) = "unread" /\ State(e)' = "read" /\ Received(e)' = Received(e)
                       \/ /\ State(e) \in {"unread", "read"} /\ State(e)' = "expired"
                          /\ Received(e)' = Received(e)
                       \/ State(e)' = State(e) /\ Received(e)' = Received(e)
    BY <1>2 DEF Unarchived, coldVars
  <2>3. Same(e) \/ Writes(p, e)
    BY <2>1, <2>2, MailHot
  <2>4. Typing /\ Agrees(e)
    BY <2>2 DEF ColdInv, ColdTyping, HotTruth, Promises
  <2> QED BY <2>3, <2>4, SameKeeps, WriteLifecycle
<1>3. ASSUME NEW c \in Curator, Curate(c) PROVE Unarchived
  <2>1. \A e \in Envelope : cold[e] = None => Same(e)
    BY <1>3, CurateMailbox DEF ColdInv, CurateMail
  <2>2. \A e \in Envelope : cold'[e] = None => cold[e] = None
    BY <1>3, CurateRecords, RecordKept DEF ColdInv
  <2> QED BY <2>1, <2>2, SameKeeps DEF Unarchived
<1> QED BY <1>1, <1>2, <1>3 DEF ColdNext

\* As long as a message is not archived its state moves only along the promised
\* life cycle: no curator opens it, expires it or brings it back.
THEOREM UnarchivedFollowLifecycle == ColdSpec => [][Unarchived]_<<vars, coldVars>>
  BY ColdInductive, StepUnarchived, PTL DEF ColdSpec
=============================================================================
