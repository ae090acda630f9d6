---------------------------- MODULE FutureLetter ----------------------------
(***************************************************************************)
(* src/saimail/future_letter.py: letters one workspace leaves for whoever  *)
(* holds it next.                                                          *)
(*                                                                         *)
(* A letter is sealed and delivered into the workspace's own mailbox, and  *)
(* then projected into future-letters/index.jsonl; every change of that    *)
(* registry holds registry.lock, reading and signing hold nothing.  The    *)
(* mailbox is seen through its own promises: a body is published before    *)
(* its index row, recover adds a row a death left out, a sweep or a prune  *)
(* takes the body and leaves the row.  Importing a recovery bundle seals   *)
(* the letter again with the artifact it came from as its source.          *)
(***************************************************************************)
EXTENDS Naturals, FiniteSets

CONSTANTS Letter,     \* what authors write, when: one body, window and roster
          Foreign,    \* letters that arrive as recovery bundles of another workspace
          Proc,
          Signer,     \* signing identities: Self and others
          Self,       \* this workspace's
          Time,       \* instants the clock may show
          NotBefore,  \* the instant each letter opens at
          Closes,     \* the instant its window closes at, or None
          MaxCopies,  \* deliveries
          MaxImports, \* how often one letter goes through a recovery bundle
          None

ASSUME LetterAssumption == Foreign \subseteq Letter
ASSUME ProcAssumption == IsFiniteSet(Proc)
ASSUME SignerAssumption == Self \in Signer
ASSUME TimeAssumption ==
    /\ Time \subseteq Nat
    /\ NotBefore \in [Letter -> Nat]
    /\ Closes \in [Letter -> Nat \cup {None}]
ASSUME FutureBoundsAssumption == MaxCopies \in Nat /\ MaxImports \in Nat

Copies == 1 .. MaxCopies
\* A canonical container: the letter, and how often an import re-sealed it.
Docs == [letter : Letter, imports : 0 .. MaxImports]
\* The index row of a copy: its deliverer wrote it, or recover after a death.
Mails == [doc : Docs, place : {"unread", "read", "gone"}, row : {"none", "own", "late"}]
\* What a registry row says: what is sealed in the letter, dates or a title that
\* were changed on disk, or another letter's id.  Dedup keys are left alone.
Rows == {"true", "drifted", "foreign"}

ASSUME NoneAssumption == None \notin Mails \cup Docs \cup Rows \cup Copies \cup Nat

VARIABLES
    mail,      \* mail[e]: the e-th delivered envelope
    registry,  \* registry[e]: the last index.jsonl row of e
    torn,      \* files that end in a damaged line
    sigs,      \* sigs[<<d, s>>]: how many signatures of s over d are recorded
    exports,   \* containers of the exports at hand, private and recoverable
    job        \* what each process is doing

futureVars == <<mail, registry, torn, sigs, exports, job>>

\* Steps under registry.lock, and the others.
Locked == {"rebuild", "publish", "index", "project"}
Steps == {"idle", "peek", "take", "repair", "sign", "append"} \cup Locked
Jobs == [step : Steps, doc : Docs \cup {None}, copy : Copies \cup {None},
         todo : SUBSET (Copies \cup Signer), reopen : BOOLEAN,
         seen : Rows \cup {None}]
Idle == [step |-> "idle", doc |-> None, copy |-> None, todo |-> {}, reopen |-> FALSE,
         seen |-> None]

Here == {e \in Copies : mail[e] # None}
Indexed == {e \in Here : mail[e].row # "none"}
Bodies == {e \in Here : mail[e].place # "gone"}
Registered == {e \in Copies : registry[e] # None}

FutureTypeOK ==
    /\ mail \in [Copies -> Mails \cup {None}]
    /\ registry \in [Copies -> Rows \cup {None}]
    /\ Registered \subseteq Here
    /\ torn \subseteq {"registry", "cosignatures"}
    /\ sigs \in [Docs \X Signer -> Nat]
    /\ exports \subseteq Docs
    /\ job \in [Proc -> Jobs]
    /\ \A p \in Proc :
          /\ job[p].step \in {"publish", "index", "sign", "append"} => job[p].doc # None
          /\ job[p].step \in {"index", "project", "peek", "take", "repair"} =>
                job[p].copy \in Here
          /\ job[p].step = "rebuild" => job[p].todo \subseteq Here
          /\ job[p].step \in {"sign", "append"} => job[p].todo \subseteq Signer

FutureInit ==
    /\ mail = [e \in Copies |-> None]
    /\ registry = [e \in Copies |-> None]
    /\ torn = {}
    /\ sigs = [x \in Docs \X Signer |-> 0]
    /\ exports = [letter : Foreign, imports : {0}]
    /\ job = [p \in Proc |-> Idle]

-----------------------------------------------------------------------------
\* What a recovery bundle's content hash will be found as again: the source
\* artifact of an imported letter, the letter itself of an authored one.
DedupKey(d) == IF d.imports = 0 THEN d ELSE [d EXCEPT !.imports = @ - 1]
\* _identity_aliases.
Aliases(d) == {d, DedupKey(d)}

InWindow(l, now) == NotBefore[l] <= now /\ (Closes[l] = None \/ now < Closes[l])

Goes(p, next) == job' = [job EXCEPT ![p] = next]

\* Fault: registry.lock does not keep others out.
UnlockedAlways == TRUE
Unlocked == \A q \in Proc : job[q].step \notin Locked
\* The lifecycle lock of the mailbox is free.
Settled == \A q \in Proc : job[q].step # "index"

-----------------------------------------------------------------------------
(* Creating, importing, listing, reconciling: _rebuild_missing_projection
   and then _deliver, all under registry.lock *)

\* Fault: what was opened before it was projected is not looked for.
MissingUnread == {e \in Indexed \ Registered : mail[e].place = "unread"}
Missing == Indexed \ Registered

\* Fault: the projection is taken for the mailbox.
RebuildNone(p, doc) ==
    /\ job[p] = Idle /\ Unlocked
    /\ "registry" \notin torn
    /\ Goes(p, [Idle EXCEPT !.step = "rebuild", !.doc = doc])
    /\ UNCHANGED <<mail, registry, torn, sigs, exports>>
Rebuild(p, doc) ==
    /\ job[p] = Idle /\ Unlocked
    /\ "registry" \notin torn
    /\ Goes(p, [Idle EXCEPT !.step = "rebuild", !.doc = doc, !.todo = Missing])
    /\ UNCHANGED <<mail, registry, torn, sigs, exports>>

Create(p, l) == Rebuild(p, [letter |-> l, imports |-> 0])
List(p) == Rebuild(p, None)
\* A reader whose row names an envelope the mailbox never knew is refused, but
\* the projection is rebuilt first.  Such rows come from hands on the disk and
\* stand for no letter; what the reader did up to here wrote nothing.
ReadUnknown(p) == Rebuild(p, None)

\* import_bundle: known by the artifact it came from, or sealed again.
ImportRecovery(p, d) ==
    /\ d \in exports /\ d.imports < MaxImports
    /\ \A e \in Registered : DedupKey(mail[e].doc) # d
    /\ Rebuild(p, [d EXCEPT !.imports = @ + 1])
\* _import_private: opened by the identity that sealed it, known by its content,
\* or the same container again.
ImportPrivate(p, d) ==
    /\ d \in exports
    /\ d.letter \in Foreign => d.imports > 0
    /\ \A e \in Registered : mail[e].doc # d
    /\ Rebuild(p, d)

RebuildRow(p) ==
    /\ job[p].step = "rebuild"
    /\ \E e \in job[p].todo \cap Bodies :
          /\ registry' = [registry EXCEPT ![e] = "true"]
          /\ Goes(p, [job[p] EXCEPT !.todo = @ \ {e}])
    /\ UNCHANGED <<mail, torn, sigs, exports>>

\* Where a body is gone the rebuild refuses (LETTER_NOT_FOUND), and with it the
\* command.
RebuildRefused(p) ==
    /\ job[p].step = "rebuild"
    /\ job[p].todo \ Bodies # {}
    /\ Goes(p, Idle)
    /\ UNCHANGED <<mail, registry, torn, sigs, exports>>

Known(d) == \E e \in Registered : DedupKey(mail[e].doc) = DedupKey(d)

Rebuilt(p) ==
    /\ job[p].step = "rebuild" /\ job[p].todo = {}
    /\ Goes(p, IF job[p].doc = None \/ Known(job[p].doc) THEN Idle
               ELSE [job[p] EXCEPT !.step = "publish"])
    /\ UNCHANGED <<mail, registry, torn, sigs, exports>>

\* _seal_deliver: the body first, then its index row, under the lifecycle lock.
Publish(p) ==
    /\ job[p].step = "publish"
    /\ \E e \in Copies \ Here :
          /\ \A f \in Copies : f < e => f \in Here
          /\ mail' = [mail EXCEPT ![e] =
                        [doc |-> job[p].doc, place |-> "unread", row |-> "none"]]
          /\ Goes(p, [job[p] EXCEPT !.step = "index", !.copy = e])
    /\ UNCHANGED <<registry, torn, sigs, exports>>
Index(p) ==
    /\ job[p].step = "index"
    /\ mail' = [mail EXCEPT ![job[p].copy].row = "own"]
    /\ Goes(p, [job[p] EXCEPT !.step = "project"])
    /\ UNCHANGED <<registry, torn, sigs, exports>>
Project(p) ==
    /\ job[p].step = "project"
    /\ registry' = [registry EXCEPT ![job[p].copy] = "true"]
    /\ Goes(p, Idle)
    /\ UNCHANGED <<mail, torn, sigs, exports>>

-----------------------------------------------------------------------------
(* Opening, reopening, exporting *)

\* _find_row waits for registry.lock and gives it up again.
Found(e) == Unlocked /\ "registry" \notin torn /\ e \in Registered

Look(p, e, reopen) ==
    /\ job[p] = Idle /\ Found(e)
    /\ Goes(p, [Idle EXCEPT !.step = "peek", !.copy = e, !.reopen = reopen,
                            !.seen = registry[e]])
    /\ UNCHANGED <<mail, registry, torn, sigs, exports>>

\* The container is authenticated without a transition; the clock is read, and
\* the dates sealed in it decide.
Peek(p, now) ==
    LET e == job[p].copy IN
    /\ job[p].step = "peek" /\ Settled
    /\ Goes(p, IF /\ e \in Bodies /\ job[p].seen # "foreign"
                  /\ InWindow(mail[e].doc.letter, now)
               THEN [job[p] EXCEPT !.step = "take"]
               ELSE Idle)
    /\ UNCHANGED <<mail, registry, torn, sigs, exports>>

\* The Post Office gate: the one transition an unread letter is entitled to.
Take(p) ==
    LET e == job[p].copy IN
    /\ job[p].step = "take" /\ Settled
    /\ IF mail[e].place = (IF job[p].reopen THEN "read" ELSE "unread")
       THEN /\ mail' = [mail EXCEPT ![e].place = "read"]
            /\ Goes(p, [job[p] EXCEPT !.step = "repair"])
       ELSE Goes(p, Idle) /\ UNCHANGED mail
    /\ UNCHANGED <<registry, torn, sigs, exports>>

\* _repair_projection: against the row that was read, not the one there now.  A
\* line after a damaged one is lost in it.
Repair(p) ==
    /\ job[p].step = "repair" /\ Unlocked
    /\ registry' = IF job[p].seen = "drifted" /\ "registry" \notin torn
                   THEN [registry EXCEPT ![job[p].copy] = "true"] ELSE registry
    /\ Goes(p, Idle)
    /\ UNCHANGED <<mail, torn, sigs, exports>>

\* export_bundle changes no state of the letter.
Export(e) ==
    /\ Found(e) /\ e \in Bodies
    /\ exports' = exports \cup {mail[e].doc}
    /\ UNCHANGED <<mail, registry, torn, sigs, job>>

-----------------------------------------------------------------------------
(* Co-signing: nothing is locked *)

\* The container of the letter found here is authenticated first.
StartSigning(p, e, d, signers) ==
    /\ job[p] = Idle /\ Found(e)
    /\ e \in Bodies /\ registry[e] # "foreign"
    /\ d \in Aliases(mail[e].doc)
    /\ Goes(p, [Idle EXCEPT !.step = "sign", !.doc = d, !.todo = signers])
    /\ UNCHANGED <<mail, registry, torn, sigs, exports>>

Cosign(p, e) == e \in Here /\ StartSigning(p, e, mail[e].doc, {Self})
\* Of a document that names d.
ImportCosignatures(p, e, d, signers) == StartSigning(p, e, d, signers)

\* Fault: a signature that is there already is recorded again.
SignAnyway(p) ==
    /\ job[p].step = "sign"
    /\ "cosignatures" \notin torn
    /\ Goes(p, [job[p] EXCEPT !.step = "append"])
    /\ UNCHANGED <<mail, registry, torn, sigs, exports>>
\* Who signed already is read once.
Sign(p) ==
    /\ job[p].step = "sign"
    /\ "cosignatures" \notin torn
    /\ Goes(p, [job[p] EXCEPT !.step = "append",
                              !.todo = {s \in @ : sigs[<<job[p].doc, s>>] = 0}])
    /\ UNCHANGED <<mail, registry, torn, sigs, exports>>
AppendSignature(p) ==
    /\ job[p].step = "append"
    /\ \/ \E s \in job[p].todo :
             /\ sigs' = IF "cosignatures" \in torn THEN sigs
                        ELSE [sigs EXCEPT ![<<job[p].doc, s>>] = @ + 1]
             /\ Goes(p, [job[p] EXCEPT !.todo = @ \ {s}])
       \/ job[p].todo = {} /\ Goes(p, Idle) /\ UNCHANGED sigs
    /\ UNCHANGED <<mail, registry, torn, exports>>

-----------------------------------------------------------------------------
(* Deaths, the mailbox, and hands on the disk *)

Die(p) ==
    /\ job[p] # Idle
    /\ Goes(p, Idle)
    /\ UNCHANGED <<mail, registry, torn, sigs, exports>>
AppendsRow(p) ==
    \/ job[p].step = "rebuild" /\ job[p].todo \cap Bodies # {}
    \/ job[p].step = "project"
    \/ job[p].step = "repair" /\ job[p].seen = "drifted" /\ Unlocked
\* In the middle of an append.
DieTearing(p) ==
    /\ \/ AppendsRow(p) /\ torn' = torn \cup {"registry"}
       \/ /\ job[p].step = "append" /\ job[p].todo # {}
          /\ torn' = torn \cup {"cosignatures"}
    /\ Goes(p, Idle)
    /\ UNCHANGED <<mail, registry, sigs, exports>>

Recover(e) ==
    /\ Settled /\ e \in Bodies \ Indexed
    /\ mail' = [mail EXCEPT ![e].row = "late"]
    /\ UNCHANGED <<registry, torn, sigs, exports, job>>
\* sweep_expired or a prune takes the body, opened or not.
Sweep(e) ==
    /\ Settled /\ e \in Bodies \cap Indexed
    /\ mail' = [mail EXCEPT ![e].place = "gone"]
    /\ UNCHANGED <<registry, torn, sigs, exports, job>>
\* The ordinary open of the mailbox knows nothing of windows.
OpenMail(e) ==
    /\ Settled /\ e \in Here /\ mail[e].place = "unread"
    /\ mail' = [mail EXCEPT ![e].place = "read"]
    /\ UNCHANGED <<registry, torn, sigs, exports, job>>

\* The registry "is a file anyone with disk access can edit", or lose.
EditRow(e, row) ==
    /\ Unlocked /\ e \in Registered
    /\ registry' = [registry EXCEPT ![e] = row]
    /\ UNCHANGED <<mail, torn, sigs, exports, job>>
LoseFile(file) ==
    /\ Unlocked /\ file \in torn
    /\ torn' = torn \ {file}
    /\ IF file = "registry" THEN registry' = [e \in Copies |-> None] /\ UNCHANGED sigs
       ELSE sigs' = [x \in Docs \X Signer |-> 0] /\ UNCHANGED registry
    /\ UNCHANGED <<mail, exports, job>>

Writing(p) ==
    \/ \E l \in Letter \ Foreign : Create(p, l)
    \/ List(p) \/ ReadUnknown(p)
    \/ \E d \in Docs : ImportRecovery(p, d) \/ ImportPrivate(p, d)
    \/ RebuildRow(p) \/ RebuildRefused(p) \/ Rebuilt(p)
    \/ Publish(p) \/ Index(p) \/ Project(p)
Reading(p) ==
    \/ \E e \in Copies, reopen \in BOOLEAN : Look(p, e, reopen)
    \/ \E now \in Time : Peek(p, now)
    \/ Take(p) \/ Repair(p)
Signing(p) ==
    \/ \E e \in Copies : Cosign(p, e)
    \/ \E e \in Copies, d \in Docs, signers \in SUBSET Signer :
          ImportCosignatures(p, e, d, signers)
    \/ Sign(p) \/ AppendSignature(p)
Mailbox ==
    \/ \E e \in Copies : Recover(e) \/ Sweep(e) \/ OpenMail(e)
    \/ \E e \in Copies : Export(e)
    \/ \E e \in Copies, row \in Rows : EditRow(e, row)
    \/ \E file \in {"registry", "cosignatures"} : LoseFile(file)

FutureNext ==
    \/ \E p \in Proc : Writing(p) \/ Reading(p) \/ Signing(p) \/ Die(p) \/ DieTearing(p)
    \/ Mailbox

FutureSpec == FutureInit /\ [][FutureNext]_futureVars

-----------------------------------------------------------------------------

\* "Refusing to write a second copy": two copies of one letter, or of two imports
\* of one artifact, stand in the mailbox only where a delivery died between the
\* body and its index row.
OneCopy ==
    \A e, f \in Here :
        (mail[e].row = "own" /\ mail[f].row = "own"
           /\ DedupKey(mail[e].doc) = DedupKey(mail[f].doc)) => e = f

\* "This closes that window from the canonical index": from the end of its rebuild
\* until a process lets registry.lock go, the projection has every letter whose
\* deliverer lived to index it, whoever died before projecting one, whoever opened
\* it since and whatever became of the file; the copy being projected is the one
\* exception.  A letter recover indexed late may have to wait for the next rebuild.
ReconcileComplete ==
    \A p \in Proc, e \in Here :
        /\ mail[e].row = "own"
        /\ \/ job[p].step = "rebuild" /\ job[p].todo = {}
           \/ job[p].step \in {"publish", "index"}
           \/ job[p].step = "project" /\ e # job[p].copy
        => e \in Registered

\* One signature per identity, but for those who looked at the same time.
RosterAlmostSingle ==
    \A d \in Docs, s \in Signer : sigs[<<d, s>>] <= Cardinality(Proc)

\* "Importing the same bundle twice is detected": without any exception.
ImportedOnce ==
    \A e, f \in Indexed : DedupKey(mail[e].doc) = DedupKey(mail[f].doc) => e = f
=============================================================================
