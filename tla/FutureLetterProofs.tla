------------------------- MODULE FutureLetterProofs -------------------------
(***************************************************************************)
(* Proofs about FutureLetter, for every set of letters, processes and      *)
(* signers, every window and every bound: a letter is not delivered twice  *)
(* unless a death came between a body and its index row, a rebuild leaves  *)
(* no letter its deliverer indexed out of the projection, and one identity *)
(* signs no more often than there are processes.                           *)
(*                                                                         *)
(* The argument is about who holds registry.lock (Exclusive): what the     *)
(* projection lacks of the indexed letters its rebuild has still to do,    *)
(* but for the letter being projected (Covered).  So what it then does not *)
(* find registered was never indexed (FreshPublish), and stays so up to    *)
(* the index row (FreshIndex).                                             *)
(***************************************************************************)
EXTENDS FutureLetter, FiniteSetTheorems, TLAPS

Exclusive ==
    \A p, q \in Proc : job[p].step \in Locked /\ job[q].step \in Locked => p = q

\* Every indexed letter is projected, still to be rebuilt or just being projected.
Covers(j, e) ==
    \/ e \in Registered
    \/ j.step = "rebuild" /\ e \in j.todo
    \/ j.step = "project" /\ e = j.copy
Covered ==
    \A p \in Proc : job[p].step \in Locked =>
        \A e \in Here : mail[e].row = "own" => Covers(job[p], e)

\* No indexed letter has the key of this one.
Fresh(d) == \A e \in Here : mail[e].row = "own" => DedupKey(mail[e].doc) # DedupKey(d)
FreshPublish == \A p \in Proc : job[p].step = "publish" => Fresh(job[p].doc)
FreshIndex == \A p \in Proc : job[p].step = "index" => Fresh(mail[job[p].copy].doc)

CopyInv == Exclusive /\ Covered /\ FreshPublish /\ FreshIndex /\ OneCopy

\* The processes about to record a signature of s over d.
Pending(d, s) ==
    {p \in Proc : job[p].step = "append" /\ job[p].doc = d /\ s \in job[p].todo}
RosterInv ==
    \A d \in Docs, s \in Signer : sigs[<<d, s>>] + Cardinality(Pending(d, s)) <= Cardinality(Proc)

FutureIInv == FutureTypeOK /\ CopyInv /\ RosterInv

-----------------------------------------------------------------------------
(* Types *)

LEMMA IdleTyped == Idle \in Jobs /\ Idle.step = "idle"
  BY DEF Idle, Jobs, Steps, Locked

LEMMA DocsKept ==
    ASSUME NEW d \in Docs, d.imports < MaxImports
    PROVE  [d EXCEPT !.imports = @ + 1] \in Docs
  BY FutureBoundsAssumption DEF Docs

\* Whatever a job becomes, its fields may be replaced one at a time.
LEMMA JobFields ==
    ASSUME NEW j \in Jobs
    PROVE  /\ \A s \in Steps : [j EXCEPT !.step = s] \in Jobs
           /\ \A e \in Copies : [j EXCEPT !.copy = e] \in Jobs
           /\ \A t \in SUBSET (Copies \cup Signer) : [j EXCEPT !.todo = t] \in Jobs
  BY DEF Jobs

\* What FutureTypeOK says of one process.
JobOK(j) ==
    /\ j \in Jobs
    /\ j.step \in {"publish", "index", "sign", "append"} => j.doc # None
    /\ j.step \in {"index", "project", "peek", "take", "repair"} => j.copy \in Here
    /\ j.step = "rebuild" => j.todo \subseteq Here
    /\ j.step \in {"sign", "append"} => j.todo \subseteq Signer

LEMMA JobsOK ==
    ASSUME FutureTypeOK, NEW p \in Proc
    PROVE  JobOK(job[p])
  BY DEF FutureTypeOK, JobOK

\* A step of p that leaves the delivered letters in place keeps the types of the
\* jobs when p's new job is one.
LEMMA MoveTyped ==
    ASSUME FutureTypeOK, NEW p \in Proc, NEW j, Goes(p, j), JobOK(j),
           \A e \in Here : mail'[e] # None
    PROVE  /\ job' \in [Proc -> Jobs]
           /\ \A q \in Proc :
                /\ job'[q].step \in {"publish", "index", "sign", "append"} => job'[q].doc # None
                /\ job'[q].step \in {"index", "project", "peek", "take", "repair"} =>
                      job'[q].copy \in Here'
                /\ job'[q].step = "rebuild" => job'[q].todo \subseteq Here'
                /\ job'[q].step \in {"sign", "append"} => job'[q].todo \subseteq Signer
  <1>1. Here \subseteq Here'
    BY DEF Here
  <1>2. job' = [job EXCEPT ![p] = j]
    BY DEF Goes
  <1>3. job' \in [Proc -> Jobs]
    BY <1>2 DEF FutureTypeOK, JobOK
  <1>4. \A q \in Proc : JobOK(job[q])
    BY JobsOK
  <1>5. \A q \in Proc : job'[q] = IF q = p THEN j ELSE job[q]
    BY <1>2 DEF FutureTypeOK
  <1>6. \A q \in Proc : JobOK(job'[q])
    BY <1>4, <1>5
  <1>. QED
    BY <1>1, <1>3, <1>6 DEF JobOK

Files == {"registry", "cosignatures"}

\* Such a step that writes no letter.
LEMMA FilesTyped ==
    ASSUME FutureTypeOK, NEW p \in Proc, NEW j, Goes(p, j), JobOK(j), UNCHANGED mail,
           registry' \in [Copies -> Rows \cup {None}], Registered' \subseteq Here,
           torn' \subseteq Files, sigs' \in [Docs \X Signer -> Nat], exports' = exports
    PROVE  FutureTypeOK'
  <1>1. Here' = Here
    BY DEF Here
  <1>2. \A e \in Here : mail'[e] # None
    BY DEF Here
  <1>3. /\ job' \in [Proc -> Jobs]
        /\ \A q \in Proc :
                /\ job'[q].step \in {"publish", "index", "sign", "append"} => job'[q].doc # None
                /\ job'[q].step \in {"index", "project", "peek", "take", "repair"} =>
                      job'[q].copy \in Here'
                /\ job'[q].step = "rebuild" => job'[q].todo \subseteq Here'
                /\ job'[q].step \in {"sign", "append"} => job'[q].todo \subseteq Signer
    BY <1>2, MoveTyped
  <1>4. /\ mail' \in [Copies -> Mails \cup {None}]
        /\ exports' \subseteq Docs
    BY DEF FutureTypeOK
  <1>. QED
    BY <1>1, <1>3, <1>4 DEF FutureTypeOK, Files

\* And one that writes nothing.
LEMMA OnlyMoves ==
    ASSUME FutureTypeOK, NEW p \in Proc, NEW j, Goes(p, j), JobOK(j),
           UNCHANGED <<mail, registry, torn, sigs, exports>>
    PROVE  FutureTypeOK'
  <1>1. /\ registry' \in [Copies -> Rows \cup {None}]
        /\ torn' \subseteq Files /\ sigs' \in [Docs \X Signer -> Nat]
    BY DEF FutureTypeOK, Files
  <1>2. Registered' \subseteq Here
    BY DEF FutureTypeOK, Registered
  <1>. QED
    BY <1>1, <1>2, FilesTyped

LEMMA IdleOK == JobOK(Idle)
  <1>1. Idle \in Jobs
    BY IdleTyped
  <1>. QED
    BY <1>1 DEF Idle, JobOK

LEMMA RebuildTyped ==
    ASSUME FutureTypeOK, NEW p \in Proc, NEW doc \in Docs \cup {None}, Rebuild(p, doc)
    PROVE  FutureTypeOK'
  <1> DEFINE j == [Idle EXCEPT !.step = "rebuild", !.doc = doc, !.todo = Missing]
  <1>1. Missing \subseteq Here /\ Here \subseteq Copies
    BY DEF Missing, Indexed, Here
  <1>2. j \in Jobs /\ j.step = "rebuild" /\ j.todo = Missing
    BY <1>1 DEF Idle, Jobs, Steps, Locked
  <1>3. JobOK(j)
    BY <1>1, <1>2 DEF JobOK
  <1>4. Goes(p, j) /\ UNCHANGED <<mail, registry, torn, sigs, exports>>
    BY DEF Rebuild
  <1>. HIDE DEF j
  <1>. QED
    BY <1>3, <1>4, OnlyMoves

LEMMA RebuildRowTyped ==
    ASSUME FutureTypeOK, NEW p \in Proc, RebuildRow(p)
    PROVE  FutureTypeOK'
  <1>1. PICK e \in job[p].todo \cap Bodies :
            /\ registry' = [registry EXCEPT ![e] = "true"]
            /\ Goes(p, [job[p] EXCEPT !.todo = @ \ {e}])
    BY DEF RebuildRow
  <1> DEFINE j == [job[p] EXCEPT !.todo = @ \ {e}]
  <1>2. JobOK(job[p]) /\ job[p].step = "rebuild"
    BY JobsOK DEF RebuildRow
  <1>3. job[p] \in Jobs /\ job[p].todo \in SUBSET (Copies \cup Signer) /\ job[p].todo \subseteq Here
    BY <1>2 DEF JobOK, Jobs
  <1>4. j \in Jobs /\ j.step = "rebuild" /\ j.todo = job[p].todo \ {e}
    BY <1>2, <1>3 DEF Jobs
  <1>5. JobOK(j)
    BY <1>3, <1>4 DEF JobOK
  <1>6. /\ UNCHANGED <<mail, torn, sigs, exports>>
        /\ e \in Here /\ e \in Copies
    BY DEF RebuildRow, Bodies, Here
  <1>7. /\ registry' \in [Copies -> Rows \cup {None}]
        /\ Registered' \subseteq Here
    BY <1>1, <1>6 DEF FutureTypeOK, Registered, Rows
  <1>8. torn' \subseteq Files /\ sigs' \in [Docs \X Signer -> Nat]
    BY <1>6 DEF FutureTypeOK, Files
  <1>9. Goes(p, j)
    BY <1>1
  <1>. HIDE DEF j
  <1>. QED
    BY <1>5, <1>6, <1>7, <1>8, <1>9, FilesTyped

LEMMA RebuiltTyped ==
    ASSUME FutureTypeOK, NEW p \in Proc, Rebuilt(p)
    PROVE  FutureTypeOK'
  <1>1. UNCHANGED <<mail, registry, torn, sigs, exports>>
    BY DEF Rebuilt
  <1>2. CASE job[p].doc = None \/ Known(job[p].doc)
    BY <1>1, <1>2, IdleOK, OnlyMoves DEF Rebuilt
  <1>3. CASE ~(job[p].doc = None \/ Known(job[p].doc))
    <2> DEFINE j == [job[p] EXCEPT !.step = "publish"]
    <2>1. JobOK(job[p])
      BY JobsOK
    <2>2. j \in Jobs /\ j.step = "publish" /\ j.doc # None
      BY <1>3, <2>1 DEF JobOK, Jobs, Steps, Locked
    <2>3. JobOK(j) /\ Goes(p, j)
      BY <1>3, <2>2 DEF JobOK, Rebuilt
    <2>. HIDE DEF j
    <2>. QED
      BY <1>1, <2>3, OnlyMoves
  <1>. QED
    BY <1>2, <1>3

LEMMA PublishTyped ==
    ASSUME FutureTypeOK, NEW p \in Proc, Publish(p)
    PROVE  FutureTypeOK'
  <1>1. PICK e \in Copies \ Here :
          /\ mail' = [mail EXCEPT ![e] =
                        [doc |-> job[p].doc, place |-> "unread", row |-> "none"]]
          /\ Goes(p, [job[p] EXCEPT !.step = "index", !.copy = e])
    BY DEF Publish
  <1> DEFINE j == [job[p] EXCEPT !.step = "index", !.copy = e]
             m == [doc |-> job[p].doc, place |-> "unread", row |-> "none"]
  <1>2. JobOK(job[p]) /\ job[p].step = "publish"
    BY JobsOK DEF Publish
  <1>3. job[p].doc \in Docs
    BY <1>2 DEF JobOK, Jobs
  <1>4. m \in Mails /\ m # None
    BY <1>3, NoneAssumption DEF Mails
  <1>5. mail' \in [Copies -> Mails \cup {None}] /\ mail'[e] = m
    BY <1>1, <1>4 DEF FutureTypeOK
  <1>6. \A f \in Here : mail'[f] = mail[f] /\ mail[f] # None
    BY <1>1 DEF Here, FutureTypeOK
  <1>7. Here' = Here \cup {e}
    BY <1>1, <1>4, <1>5 DEF Here, FutureTypeOK
  <1>8. j \in Jobs /\ j.step = "index" /\ j.copy = e /\ j.doc # None
    BY <1>2, <1>3 DEF JobOK, Jobs, Steps, Locked
  <1>9. job' = [job EXCEPT ![p] = j]
    BY <1>1 DEF Goes
  <1>10. \A q \in Proc : job'[q] = IF q = p THEN j ELSE job[q]
    BY <1>9 DEF FutureTypeOK
  <1>11. job' \in [Proc -> Jobs]
    BY <1>8, <1>9 DEF FutureTypeOK
  <1>12. ASSUME NEW q \in Proc
         PROVE  /\ job'[q].step \in {"publish", "index", "sign", "append"} => job'[q].doc # None
                /\ job'[q].step \in {"index", "project", "peek", "take", "repair"} =>
                      job'[q].copy \in Here'
                /\ job'[q].step = "rebuild" => job'[q].todo \subseteq Here'
                /\ job'[q].step \in {"sign", "append"} => job'[q].todo \subseteq Signer
    <2>. HIDE DEF j
    <2>1. CASE q = p
      BY <1>7, <1>8, <1>10, <2>1
    <2>2. CASE q # p
      BY <1>7, <1>10, <2>2, JobsOK DEF JobOK
    <2>. QED
      BY <2>1, <2>2
  <1>13. registry' = registry /\ torn' = torn /\ sigs' = sigs /\ exports' = exports
    BY DEF Publish
  <1>14. Registered' \subseteq Here'
    BY <1>7, <1>13 DEF FutureTypeOK, Registered
  <1>. HIDE DEF j, m
  <1>. QED
    BY <1>5, <1>11, <1>12, <1>13, <1>14 DEF FutureTypeOK

\* A letter whose place or row changes is still that letter.
LEMMA LetterTyped ==
    ASSUME FutureTypeOK, NEW e \in Here, NEW m \in Mails, mail' = [mail EXCEPT ![e] = m]
    PROVE  mail' \in [Copies -> Mails \cup {None}] /\ Here' = Here
  <1>1. m # None /\ e \in Copies
    BY NoneAssumption DEF Here
  <1>2. mail' \in [Copies -> Mails \cup {None}] /\ mail'[e] = m
    BY <1>1 DEF FutureTypeOK
  <1>. QED
    BY <1>1, <1>2 DEF Here, FutureTypeOK

LEMMA PlaceOrRow ==
    ASSUME FutureTypeOK, NEW e \in Here
    PROVE  /\ mail[e] \in Mails
           /\ \A place \in {"read", "gone"} : [mail[e] EXCEPT !.place = place] \in Mails
           /\ \A row \in {"own", "late"} : [mail[e] EXCEPT !.row = row] \in Mails
  BY DEF FutureTypeOK, Here, Mails

LEMMA LetterMoves ==
    ASSUME FutureTypeOK, NEW p \in Proc, NEW j, Goes(p, j), JobOK(j),
           NEW e \in Here, NEW m \in Mails, mail' = [mail EXCEPT ![e] = m],
           UNCHANGED <<registry, torn, sigs, exports>>
    PROVE  FutureTypeOK'
  <1>1. mail' \in [Copies -> Mails \cup {None}] /\ Here' = Here
    BY LetterTyped
  <1>2. \A f \in Here : mail'[f] # None
    BY <1>1 DEF Here
  <1>3. /\ job' \in [Proc -> Jobs]
        /\ \A q \in Proc :
                /\ job'[q].step \in {"publish", "index", "sign", "append"} => job'[q].doc # None
                /\ job'[q].step \in {"index", "project", "peek", "take", "repair"} =>
                      job'[q].copy \in Here'
                /\ job'[q].step = "rebuild" => job'[q].todo \subseteq Here'
                /\ job'[q].step \in {"sign", "append"} => job'[q].todo \subseteq Signer
    BY <1>2, MoveTyped
  <1>4. Registered' \subseteq Here'
    BY <1>1 DEF FutureTypeOK, Registered
  <1>. QED
    BY <1>1, <1>3, <1>4 DEF FutureTypeOK

LEMMA DeliveryTyped ==
    ASSUME FutureTypeOK, NEW p \in Proc, Index(p) \/ Project(p)
    PROVE  FutureTypeOK'
  <1>1. JobOK(job[p]) /\ job[p] \in Jobs
    BY JobsOK DEF JobOK
  <1>2. CASE Index(p)
    <2> DEFINE e == job[p].copy
               m == [mail[e] EXCEPT !.row = "own"]
               j == [job[p] EXCEPT !.step = "project"]
    <2>1. e \in Here
      BY <1>1, <1>2 DEF Index, JobOK
    <2>2. m \in Mails /\ mail' = [mail EXCEPT ![e] = m]
      BY <1>2, <2>1, PlaceOrRow DEF Index
    <2>3. j \in Jobs /\ j.step = "project" /\ j.copy = e
      BY <1>1 DEF Jobs, Steps, Locked
    <2>4. JobOK(j) /\ Goes(p, j) /\ UNCHANGED <<registry, torn, sigs, exports>>
      BY <1>2, <2>1, <2>3 DEF JobOK, Index
    <2>. HIDE DEF j, m, e
    <2>. QED
      BY <2>1, <2>2, <2>4, LetterMoves
  <1>3. CASE Project(p)
    <2>1. job[p].copy \in Here /\ registry' = [registry EXCEPT ![job[p].copy] = "true"]
      BY <1>1, <1>3 DEF Project, JobOK
    <2>2. /\ registry' \in [Copies -> Rows \cup {None}]
          /\ Registered' \subseteq Here
      BY <2>1 DEF FutureTypeOK, Registered, Rows
    <2>3. UNCHANGED <<mail, torn, sigs, exports>> /\ Goes(p, Idle)
      BY <1>3 DEF Project
    <2>4. torn' \subseteq Files /\ sigs' \in [Docs \X Signer -> Nat]
      BY <2>3 DEF FutureTypeOK, Files
    <2>. QED
      BY <2>2, <2>3, <2>4, IdleOK, FilesTyped
  <1>. QED
    BY <1>2, <1>3

LEMMA LookTyped ==
    ASSUME FutureTypeOK, NEW p \in Proc, NEW e \in Copies, NEW reopen \in BOOLEAN,
           Look(p, e, reopen)
    PROVE  FutureTypeOK'
  <1> DEFINE j == [Idle EXCEPT !.step = "peek", !.copy = e, !.reopen = reopen,
                               !.seen = registry[e]]
  <1>1. e \in Here /\ registry[e] \in Rows \cup {None}
    BY DEF FutureTypeOK, Look, Found
  <1>2. j \in Jobs /\ j.step = "peek" /\ j.copy = e
    BY <1>1 DEF Idle, Jobs, Steps, Locked
  <1>3. JobOK(j) /\ Goes(p, j) /\ UNCHANGED <<mail, registry, torn, sigs, exports>>
    BY <1>1, <1>2 DEF JobOK, Look
  <1>. HIDE DEF j
  <1>. QED
    BY <1>3, OnlyMoves

LEMMA PeekTyped ==
    ASSUME FutureTypeOK, NEW p \in Proc, NEW now \in Time, Peek(p, now)
    PROVE  FutureTypeOK'
  <1> DEFINE j == [job[p] EXCEPT !.step = "take"]
             open == /\ job[p].copy \in Bodies /\ job[p].seen # "foreign"
                     /\ InWindow(mail[job[p].copy].doc.letter, now)
  <1>1. JobOK(job[p]) /\ job[p].copy \in Here
    BY JobsOK DEF Peek, JobOK
  <1>2. j \in Jobs /\ j.step = "take" /\ j.copy = job[p].copy
    BY <1>1 DEF JobOK, Jobs, Steps, Locked
  <1>3. JobOK(j)
    BY <1>1, <1>2 DEF JobOK
  <1>4. UNCHANGED <<mail, registry, torn, sigs, exports>> /\ Goes(p, IF open THEN j ELSE Idle)
    BY DEF Peek
  <1>. HIDE DEF j, open
  <1>. QED
    BY <1>3, <1>4, IdleOK, OnlyMoves

LEMMA TakeTyped ==
    ASSUME FutureTypeOK, NEW p \in Proc, Take(p)
    PROVE  FutureTypeOK'
  <1> DEFINE e == job[p].copy
             j == [job[p] EXCEPT !.step = "repair"]
             m == [mail[e] EXCEPT !.place = "read"]
  <1>1. JobOK(job[p]) /\ e \in Here /\ UNCHANGED <<registry, torn, sigs, exports>>
    BY JobsOK DEF Take, JobOK
  <1>2. j \in Jobs /\ j.step = "repair" /\ j.copy = e
    BY <1>1 DEF JobOK, Jobs, Steps, Locked
  <1>3. JobOK(j)
    BY <1>1, <1>2 DEF JobOK
  <1>4. m \in Mails
    BY <1>1, PlaceOrRow
  <1>5. \/ mail' = [mail EXCEPT ![e] = m] /\ Goes(p, j)
        \/ mail' = mail /\ Goes(p, Idle)
    BY DEF Take
  <1>. HIDE DEF j, m, e
  <1>6. CASE mail' = [mail EXCEPT ![e] = m] /\ Goes(p, j)
    BY <1>1, <1>3, <1>4, <1>6, LetterMoves
  <1>7. CASE mail' = mail /\ Goes(p, Idle)
    BY <1>1, <1>7, IdleOK, OnlyMoves
  <1>. QED
    BY <1>5, <1>6, <1>7

LEMMA RepairTyped ==
    ASSUME FutureTypeOK, NEW p \in Proc, Repair(p)
    PROVE  FutureTypeOK'
  <1>1. job[p].copy \in Here /\ job[p].copy \in Copies
    BY JobsOK DEF Repair, JobOK, Here
  <1>2. registry' \in {registry, [registry EXCEPT ![job[p].copy] = "true"]}
    BY DEF Repair
  <1>3. /\ registry' \in [Copies -> Rows \cup {None}]
        /\ Registered' \subseteq Here
    BY <1>1, <1>2 DEF FutureTypeOK, Registered, Rows
  <1>4. UNCHANGED <<mail, torn, sigs, exports>> /\ Goes(p, Idle)
    BY DEF Repair
  <1>5. torn' \subseteq Files /\ sigs' \in [Docs \X Signer -> Nat]
    BY <1>4 DEF FutureTypeOK, Files
  <1>. QED
    BY <1>3, <1>4, <1>5, IdleOK, FilesTyped

LEMMA SigningStarts ==
    ASSUME FutureTypeOK, NEW p \in Proc, Signing(p)
    PROVE  \/ Sign(p) \/ AppendSignature(p)
           \/ \E e \in Copies, d \in Docs, signers \in SUBSET Signer :
                 StartSigning(p, e, d, signers)
  <1>1. ASSUME NEW e \in Copies, Cosign(p, e)
        PROVE  \E d \in Docs, signers \in SUBSET Signer : StartSigning(p, e, d, signers)
    <2>1. mail[e].doc \in Docs /\ {Self} \in SUBSET Signer
      BY <1>1, SignerAssumption DEF Cosign, FutureTypeOK, Here, Mails
    <2>. QED
      BY <1>1, <2>1 DEF Cosign
  <1>. QED
    BY <1>1 DEF Signing, ImportCosignatures

LEMMA CosignTyped ==
    ASSUME FutureTypeOK, NEW p \in Proc, NEW e \in Copies, NEW d \in Docs,
           NEW signers \in SUBSET Signer, StartSigning(p, e, d, signers)
    PROVE  FutureTypeOK'
  <1> DEFINE j == [Idle EXCEPT !.step = "sign", !.doc = d, !.todo = signers]
  <1>1. j \in Jobs /\ j.step = "sign" /\ j.doc = d /\ j.todo = signers
    BY DEF Idle, Jobs, Steps, Locked
  <1>2. JobOK(j)
    BY <1>1, NoneAssumption DEF JobOK
  <1>3. Goes(p, j) /\ UNCHANGED <<mail, registry, torn, sigs, exports>>
    BY DEF StartSigning
  <1>. HIDE DEF j
  <1>. QED
    BY <1>2, <1>3, OnlyMoves

LEMMA SignTyped ==
    ASSUME FutureTypeOK, NEW p \in Proc, Sign(p)
    PROVE  FutureTypeOK'
  <1> DEFINE left == {s \in job[p].todo : sigs[<<job[p].doc, s>>] = 0}
             j == [job[p] EXCEPT !.step = "append", !.todo = left]
  <1>1. JobOK(job[p]) /\ job[p].step = "sign"
    BY JobsOK DEF Sign
  <1>2. left \subseteq Signer
    BY <1>1 DEF JobOK
  <1>. HIDE DEF left
  <1>3. j \in Jobs /\ j.step = "append" /\ j.doc = job[p].doc /\ j.todo = left
    BY <1>1, <1>2 DEF JobOK, Jobs, Steps, Locked
  <1>4. JobOK(j)
    BY <1>1, <1>2, <1>3 DEF JobOK
  <1>5. Goes(p, j) /\ UNCHANGED <<mail, registry, torn, sigs, exports>>
    BY DEF Sign, left
  <1>. HIDE DEF j
  <1>. QED
    BY <1>4, <1>5, OnlyMoves

LEMMA AppendTyped ==
    ASSUME FutureTypeOK, NEW p \in Proc, AppendSignature(p)
    PROVE  FutureTypeOK'
  <1>1. JobOK(job[p]) /\ job[p].step = "append" /\ UNCHANGED <<mail, registry, torn, exports>>
    BY JobsOK DEF AppendSignature
  <1>2. job[p].doc \in Docs /\ job[p].todo \subseteq Signer
    BY <1>1 DEF JobOK, Jobs
  <1>3. registry' \in [Copies -> Rows \cup {None}] /\ torn' \subseteq Files
    BY <1>1 DEF FutureTypeOK, Files
  <1>4. Registered' \subseteq Here
    BY <1>1 DEF FutureTypeOK, Registered
  <1>5. CASE job[p].todo = {} /\ Goes(p, Idle) /\ UNCHANGED sigs
    BY <1>1, <1>5, IdleOK, OnlyMoves
  <1>6. ASSUME NEW s \in job[p].todo,
               sigs' = IF "cosignatures" \in torn THEN sigs
                       ELSE [sigs EXCEPT ![<<job[p].doc, s>>] = @ + 1],
               Goes(p, [job[p] EXCEPT !.todo = @ \ {s}])
        PROVE  FutureTypeOK'
    <2> DEFINE j == [job[p] EXCEPT !.todo = @ \ {s}]
    <2>1. j \in Jobs /\ j.step = "append" /\ j.doc = job[p].doc /\ j.todo = job[p].todo \ {s}
      BY <1>1, <1>2 DEF JobOK, Jobs
    <2>2. JobOK(j) /\ Goes(p, j)
      BY <1>1, <1>2, <1>6, <2>1 DEF JobOK
    <2> DEFINE x == <<job[p].doc, s>>
    <2>3. x \in Docs \X Signer
      BY <1>2
    <2>. HIDE DEF x
    <2>4. sigs \in [Docs \X Signer -> Nat] /\ sigs[x] + 1 \in Nat
      BY <2>3 DEF FutureTypeOK
    <2>5. [sigs EXCEPT ![x] = @ + 1] \in [Docs \X Signer -> Nat]
      BY <2>3, <2>4
    <2>6. sigs' \in [Docs \X Signer -> Nat]
      BY <1>6, <2>4, <2>5 DEF x
    <2>. HIDE DEF j
    <2>. QED
      BY <1>1, <1>3, <1>4, <2>2, <2>6, FilesTyped
  <1>. QED
    BY <1>5, <1>6 DEF AppendSignature

LEMMA DeathTyped ==
    ASSUME FutureTypeOK, NEW p \in Proc, Die(p) \/ DieTearing(p)
    PROVE  FutureTypeOK'
  <1>1. /\ UNCHANGED <<mail, registry, sigs, exports>> /\ Goes(p, Idle)
        /\ torn' \in {torn, torn \cup {"registry"}, torn \cup {"cosignatures"}}
    BY DEF Die, DieTearing
  <1>2. /\ registry' \in [Copies -> Rows \cup {None}]
        /\ torn' \subseteq Files /\ sigs' \in [Docs \X Signer -> Nat]
    BY <1>1 DEF FutureTypeOK, Files
  <1>3. Registered' \subseteq Here
    BY <1>1 DEF FutureTypeOK, Registered
  <1>. QED
    BY <1>1, <1>2, <1>3, IdleOK, FilesTyped

LEMMA MailboxLetters ==
    ASSUME FutureTypeOK, NEW e \in Copies, Recover(e) \/ Sweep(e) \/ OpenMail(e)
    PROVE  /\ e \in Here
           /\ UNCHANGED <<registry, torn, sigs, exports, job>>
           /\ mail' \in [Copies -> Mails \cup {None}] /\ Here' = Here
           /\ \A f \in Here : mail'[f].doc = mail[f].doc /\ (mail'[f].row = "own" => mail[f].row = "own")
  <1> DEFINE m1 == [mail[e] EXCEPT !.row = "late"]
             m2 == [mail[e] EXCEPT !.place = "gone"]
             m3 == [mail[e] EXCEPT !.place = "read"]
  <1>1. /\ UNCHANGED <<registry, torn, sigs, exports, job>>
        /\ e \in Here /\ mail' \in {[mail EXCEPT ![e] = m1], [mail EXCEPT ![e] = m2],
                                     [mail EXCEPT ![e] = m3]}
    BY DEF Recover, Sweep, OpenMail, Bodies, Here
  <1>2. m1 \in Mails /\ m2 \in Mails /\ m3 \in Mails
    BY <1>1, PlaceOrRow
  <1>3. /\ m1.doc = mail[e].doc /\ m1.row = "late" /\ m2.doc = mail[e].doc
        /\ m2.row = mail[e].row /\ m3.doc = mail[e].doc /\ m3.row = mail[e].row
    BY <1>1, PlaceOrRow DEF Mails
  <1>. HIDE DEF m1, m2, m3
  <1>4. PICK m \in {m1, m2, m3} : mail' = [mail EXCEPT ![e] = m]
    BY <1>1
  <1>5. m.doc = mail[e].doc /\ (m.row = "own" => mail[e].row = "own") /\ m \in Mails
    BY <1>2, <1>3
  <1>6. mail' \in [Copies -> Mails \cup {None}] /\ Here' = Here
    BY <1>1, <1>4, <1>5, LetterTyped
  <1>7. ASSUME NEW f \in Here
        PROVE  mail'[f].doc = mail[f].doc /\ (mail'[f].row = "own" => mail[f].row = "own")
    <2>1. f \in Copies /\ mail \in [Copies -> Mails \cup {None}]
      BY DEF Here, FutureTypeOK
    <2>2. mail'[f] = IF f = e THEN m ELSE mail[f]
      BY <1>4, <2>1
    <2>. QED
      BY <1>5, <2>2
  <1>. QED
    BY <1>1, <1>6, <1>7

LEMMA MailboxTyped ==
    ASSUME FutureTypeOK, Mailbox
    PROVE  FutureTypeOK'
  <1>1. ASSUME NEW e \in Copies, Recover(e) \/ Sweep(e) \/ OpenMail(e)
        PROVE  FutureTypeOK'
    <2>1. /\ UNCHANGED <<registry, torn, sigs, exports, job>>
          /\ mail' \in [Copies -> Mails \cup {None}] /\ Here' = Here
      BY <1>1, MailboxLetters
    <2>2. Registered' = Registered
      BY <2>1 DEF Registered
    <2>. QED
      BY <2>1, <2>2 DEF FutureTypeOK
  <1>2. ASSUME NEW e \in Copies, Export(e)
        PROVE  FutureTypeOK'
    <2>1. UNCHANGED <<mail, registry, torn, sigs, job>> /\ mail[e].doc \in Docs
      BY <1>2 DEF Export, Found, Registered, Bodies, Here, FutureTypeOK, Mails
    <2>2. exports' \subseteq Docs
      BY <1>2, <2>1 DEF Export, FutureTypeOK
    <2>3. Here' = Here /\ Registered' = Registered
      BY <2>1 DEF Here, Registered
    <2>. QED
      BY <2>1, <2>2, <2>3 DEF FutureTypeOK
  <1>3. ASSUME NEW e \in Copies, NEW row \in Rows, EditRow(e, row)
        PROVE  FutureTypeOK'
    <2>1. /\ UNCHANGED <<mail, torn, sigs, exports, job>>
          /\ registry' = [registry EXCEPT ![e] = row] /\ e \in Registered
      BY <1>3 DEF EditRow
    <2>2. registry' \in [Copies -> Rows \cup {None}] /\ Registered' \subseteq Here
      BY <2>1 DEF FutureTypeOK, Registered
    <2>3. Here' = Here
      BY <2>1 DEF Here
    <2>. QED
      BY <2>1, <2>2, <2>3 DEF FutureTypeOK
  <1>4. ASSUME NEW file \in Files, LoseFile(file)
        PROVE  FutureTypeOK'
    <2>1. /\ UNCHANGED <<mail, exports, job>> /\ torn' = torn \ {file}
          /\ \/ registry' = [e \in Copies |-> None] /\ UNCHANGED sigs
             \/ sigs' = [x \in Docs \X Signer |-> 0] /\ UNCHANGED registry
      BY <1>4 DEF LoseFile
    <2>2. /\ registry' \in [Copies -> Rows \cup {None}] /\ Registered' \subseteq Here
          /\ sigs' \in [Docs \X Signer -> Nat]
      BY <2>1 DEF FutureTypeOK, Registered
    <2>3. Here' = Here
      BY <2>1 DEF Here
    <2>. QED
      BY <2>1, <2>2, <2>3 DEF FutureTypeOK
  <1>. QED
    BY <1>1, <1>2, <1>3, <1>4 DEF Mailbox, Files

LEMMA FutureTyped == FutureTypeOK /\ [FutureNext]_futureVars => FutureTypeOK'
  <1>. SUFFICES ASSUME FutureTypeOK, [FutureNext]_futureVars
                PROVE  FutureTypeOK'
    OBVIOUS
  <1>1. ASSUME NEW p \in Proc, Writing(p)
        PROVE  FutureTypeOK'
    <2>1. CASE \E doc \in Docs \cup {None} : Rebuild(p, doc)
      BY <2>1, RebuildTyped
    <2>2. CASE RebuildRow(p)
      BY <2>2, RebuildRowTyped
    <2>3. CASE RebuildRefused(p)
      BY <2>3, IdleOK, OnlyMoves DEF RebuildRefused
    <2>4. CASE Rebuilt(p)
      BY <2>4, RebuiltTyped
    <2>5. CASE Publish(p)
      BY <2>5, PublishTyped
    <2>6. CASE Index(p) \/ Project(p)
      BY <2>6, DeliveryTyped
    <2>7. \A l \in Letter \ Foreign : Create(p, l) => \E doc \in Docs : Rebuild(p, doc)
      BY FutureBoundsAssumption DEF Create, Docs
    <2>8. \A d \in Docs : ImportRecovery(p, d) => \E doc \in Docs : Rebuild(p, doc)
      BY DocsKept DEF ImportRecovery
    <2>. QED
      BY <1>1, <2>1, <2>2, <2>3, <2>4, <2>5, <2>6, <2>7, <2>8
      DEF Writing, List, ReadUnknown, ImportPrivate
  <1>2. ASSUME NEW p \in Proc, Reading(p)
        PROVE  FutureTypeOK'
    BY <1>2, LookTyped, PeekTyped, TakeTyped, RepairTyped DEF Reading
  <1>3. ASSUME NEW p \in Proc, Signing(p)
        PROVE  FutureTypeOK'
    BY <1>3, SigningStarts, CosignTyped, SignTyped, AppendTyped
  <1>4. CASE UNCHANGED futureVars
    <2>1. Here' = Here /\ Registered' = Registered
      BY <1>4 DEF futureVars, Here, Registered
    <2>. QED
      BY <1>4, <2>1 DEF futureVars, FutureTypeOK
  <1>. QED
    BY <1>1, <1>2, <1>3, <1>4, DeathTyped, MailboxTyped DEF FutureNext

-----------------------------------------------------------------------------
(* One copy *)

\* Most steps start no work under the lock, deliver nothing and forget no row.
LEMMA CopyKept ==
    ASSUME FutureTypeOK, CopyInv,
           \A q \in Proc : job'[q].step \in Locked => job'[q] = job[q],
           Here' = Here,
           \A e \in Here : mail'[e].doc = mail[e].doc /\ (mail'[e].row = "own" => mail[e].row = "own"),
           Registered \subseteq Registered' \/ (\A q \in Proc : job'[q].step \notin Locked)
    PROVE  CopyInv'
  <1>1. Exclusive'
    BY DEF CopyInv, Exclusive
  <1>2. ASSUME NEW q \in Proc, NEW e \in Here', job'[q].step \in Locked, mail'[e].row = "own"
        PROVE  Covers(job[q], e)'
    <2>1. job'[q] = job[q] /\ e \in Here /\ mail[e].row = "own" /\ Registered \subseteq Registered'
      BY <1>2
    <2>2. Covers(job[q], e)
      BY <1>2, <2>1 DEF CopyInv, Covered
    <2>. QED
      BY <2>1, <2>2 DEF Covers
  <1>3. ASSUME NEW q \in Proc, job'[q].step = "publish"
        PROVE  Fresh(job[q].doc)' /\ job'[q].doc = job[q].doc
    <2>1. job'[q] = job[q] /\ job[q].step = "publish"
      BY <1>3 DEF Locked
    <2>2. Fresh(job[q].doc)
      BY <2>1 DEF CopyInv, FreshPublish
    <2>3. \A e \in Here' : mail'[e].row = "own" => DedupKey(mail'[e].doc) # DedupKey(job'[q].doc)
      BY <2>1, <2>2 DEF Fresh
    <2>. QED
      BY <2>1, <2>3 DEF Fresh
  <1>4. FreshPublish'
    BY <1>3 DEF FreshPublish, Fresh
  <1>5. ASSUME NEW q \in Proc, job'[q].step = "index"
        PROVE  \A e \in Here' : mail'[e].row = "own" =>
                  DedupKey(mail'[e].doc) # DedupKey(mail'[job'[q].copy].doc)
    <2>1. job'[q] = job[q] /\ job[q].step = "index" /\ job[q].copy \in Here
      BY <1>5, JobsOK DEF Locked, JobOK
    <2>2. Fresh(mail[job[q].copy].doc) /\ mail'[job'[q].copy].doc = mail[job[q].copy].doc
      BY <2>1 DEF CopyInv, FreshIndex
    <2>. QED
      BY <2>2 DEF Fresh
  <1>6. FreshIndex'
    BY <1>5 DEF FreshIndex, Fresh
  <1>7. OneCopy'
    BY DEF CopyInv, OneCopy
  <1>. QED
    BY <1>1, <1>2, <1>4, <1>6, <1>7 DEF CopyInv, Covered, Covers

\* The lock is given up, or was never held, by a process that writes no letter.
LEMMA CopyLeft ==
    ASSUME FutureTypeOK, CopyInv, NEW p \in Proc, NEW j, Goes(p, j), j.step \notin Locked,
           UNCHANGED mail, Registered \subseteq Registered'
    PROVE  CopyInv'
  <1>1. \A q \in Proc : job'[q] = IF q = p THEN j ELSE job[q]
    BY DEF Goes, FutureTypeOK
  <1>2. \A q \in Proc : job'[q].step \in Locked => job'[q] = job[q]
    BY <1>1
  <1>3. Here' = Here
    BY DEF Here
  <1>. QED
    BY <1>2, <1>3, CopyKept

LEMMA RebuildCopies ==
    ASSUME FutureTypeOK, CopyInv, NEW p \in Proc, NEW doc, Rebuild(p, doc)
    PROVE  CopyInv'
  <1> DEFINE j == [Idle EXCEPT !.step = "rebuild", !.doc = doc, !.todo = Missing]
  <1>1. /\ \A q \in Proc : job'[q] = IF q = p THEN j ELSE job[q]
        /\ j.step = "rebuild" /\ j.todo = Missing
        /\ \A q \in Proc : job[q].step \notin Locked
        /\ mail' = mail /\ registry' = registry
    BY DEF Rebuild, Goes, FutureTypeOK, Idle, Unlocked
  <1>. HIDE DEF j
  <1>2. Exclusive'
    BY <1>1 DEF Exclusive
  <1>3. Here' = Here /\ Registered' = Registered
    BY <1>1 DEF Here, Registered
  <1>4. \A e \in Here : mail[e].row = "own" => e \in Registered \/ e \in Missing
    BY DEF Missing, Indexed
  <1>5. Covered'
    BY <1>1, <1>3, <1>4 DEF Covered, Covers, Locked
  <1>6. FreshPublish' /\ FreshIndex'
    BY <1>1 DEF FreshPublish, FreshIndex, Locked
  <1>7. OneCopy'
    BY <1>1, <1>3 DEF CopyInv, OneCopy
  <1>. QED
    BY <1>2, <1>5, <1>6, <1>7 DEF CopyInv

\* What the holder of the lock goes on to does not concern the others.
LEMMA HolderAlone ==
    ASSUME FutureTypeOK, CopyInv, NEW p \in Proc, job[p].step \in Locked, NEW j, Goes(p, j)
    PROVE  /\ \A q \in Proc : q # p => job'[q] = job[q] /\ job'[q].step \notin Locked
           /\ job'[p] = j
           /\ Exclusive'
  BY DEF CopyInv, Exclusive, Goes, FutureTypeOK

LEMMA RebuildRowCopies ==
    ASSUME FutureTypeOK, CopyInv, NEW p \in Proc, RebuildRow(p)
    PROVE  CopyInv'
  <1>1. PICK e \in job[p].todo \cap Bodies :
            /\ registry' = [registry EXCEPT ![e] = "true"]
            /\ Goes(p, [job[p] EXCEPT !.todo = @ \ {e}])
    BY DEF RebuildRow
  <1> DEFINE j == [job[p] EXCEPT !.todo = @ \ {e}]
  <1>2. job[p] \in Jobs /\ job[p].step = "rebuild" /\ mail' = mail
    BY DEF RebuildRow, FutureTypeOK
  <1>3. j.step = "rebuild" /\ j.todo = job[p].todo \ {e}
    BY <1>2 DEF Jobs
  <1>. HIDE DEF j
  <1>4. Goes(p, j) /\ job[p].step \in Locked
    BY <1>1, <1>2 DEF j, Locked
  <1>5. /\ \A q \in Proc : q # p => job'[q].step \notin Locked
        /\ job'[p] = j /\ Exclusive'
    BY <1>4, HolderAlone
  <1>6. Here' = Here /\ e \in Copies
    BY <1>2 DEF Here, Bodies
  <1>7. Registered' = Registered \cup {e}
    BY <1>1, <1>6, NoneAssumption DEF Registered, FutureTypeOK, Rows
  <1>8. Covered'
    BY <1>2, <1>3, <1>5, <1>6, <1>7 DEF CopyInv, Covered, Covers, Locked
  <1>9. FreshPublish' /\ FreshIndex'
    BY <1>3, <1>5 DEF FreshPublish, FreshIndex, Locked
  <1>10. OneCopy'
    BY <1>2, <1>6 DEF CopyInv, OneCopy
  <1>. QED
    BY <1>5, <1>8, <1>9, <1>10 DEF CopyInv

\* A rebuild that is done has projected every indexed letter, so that a letter
\* that is not known was never indexed.
LEMMA RebuiltCopies ==
    ASSUME FutureTypeOK, CopyInv, NEW p \in Proc, Rebuilt(p)
    PROVE  CopyInv'
  <1>1. job[p].step = "rebuild" /\ job[p].todo = {} /\ mail' = mail /\ registry' = registry
    BY DEF Rebuilt
  <1>2. Here' = Here /\ Registered' = Registered
    BY <1>1 DEF Here, Registered
  <1>3. CASE job[p].doc = None \/ Known(job[p].doc)
    <2>1. Goes(p, Idle) /\ Idle.step \notin Locked
      BY <1>3 DEF Rebuilt, Idle, Locked
    <2>. QED
      BY <1>1, <1>2, <2>1, CopyLeft
  <1>4. CASE ~(job[p].doc = None \/ Known(job[p].doc))
    <2> DEFINE j == [job[p] EXCEPT !.step = "publish"]
    <2>1. Goes(p, j) /\ j.step = "publish" /\ j.doc = job[p].doc
      BY <1>4 DEF Rebuilt, FutureTypeOK, Jobs
    <2>. HIDE DEF j
    <2>2. /\ \A q \in Proc : q # p => job'[q].step \notin Locked
          /\ job'[p] = j /\ Exclusive'
      BY <1>1, <2>1, HolderAlone DEF Locked
    <2>3. \A e \in Here : mail[e].row = "own" => e \in Registered
      BY <1>1 DEF CopyInv, Covered, Covers, Locked
    <2>4. \A e \in Here : mail[e].row = "own" => DedupKey(mail[e].doc) # DedupKey(j.doc)
      BY <1>4, <2>1, <2>3 DEF Known
    <2>5. FreshPublish'
      BY <1>1, <1>2, <2>2, <2>4 DEF FreshPublish, Fresh, Locked
    <2>6. Covered' /\ FreshIndex'
      BY <1>2, <2>1, <2>2, <2>3, <1>1 DEF Covered, Covers, FreshIndex, Locked
    <2>7. OneCopy'
      BY <1>1, <1>2 DEF CopyInv, OneCopy
    <2>. QED
      BY <2>2, <2>5, <2>6, <2>7 DEF CopyInv
  <1>. QED
    BY <1>3, <1>4

LEMMA PublishCopies ==
    ASSUME FutureTypeOK, CopyInv, NEW p \in Proc, Publish(p)
    PROVE  CopyInv'
  <1>1. PICK e \in Copies \ Here :
          /\ mail' = [mail EXCEPT ![e] =
                        [doc |-> job[p].doc, place |-> "unread", row |-> "none"]]
          /\ Goes(p, [job[p] EXCEPT !.step = "index", !.copy = e])
    BY DEF Publish
  <1> DEFINE j == [job[p] EXCEPT !.step = "index", !.copy = e]
             m == [doc |-> job[p].doc, place |-> "unread", row |-> "none"]
  <1>2. Goes(p, j) /\ j.step = "index" /\ j.copy = e /\ m.row = "none" /\ m.doc = job[p].doc
    BY <1>1 DEF FutureTypeOK, Jobs
  <1>3. /\ mail'[e] = m
        /\ \A f \in Here : mail'[f] = mail[f]
        /\ Here' \subseteq Here \cup {e}
    BY <1>1 DEF Here, FutureTypeOK
  <1>4. job[p].step = "publish" /\ Fresh(job[p].doc)
    BY DEF Publish, CopyInv, FreshPublish
  <1>. HIDE DEF j, m
  <1>5. /\ \A q \in Proc : q # p => job'[q].step \notin Locked
        /\ job'[p] = j /\ Exclusive'
    BY <1>2, <1>4, HolderAlone DEF Locked
  <1>6. \A f \in Here' : mail'[f].row = "own" => f \in Here
    BY <1>2, <1>3
  <1>7. \A f \in Here' : mail'[f].row = "own" => DedupKey(mail'[f].doc) # DedupKey(m.doc)
    BY <1>2, <1>3, <1>4, <1>6 DEF Fresh
  <1>8. FreshIndex'
    BY <1>2, <1>3, <1>5, <1>7 DEF FreshIndex, Fresh, Locked
  <1>9. FreshPublish'
    BY <1>2, <1>5 DEF FreshPublish, Locked
  <1>11. Covered'
    <2>1. Registered' = Registered /\ job[p].step \in Locked /\ job[p].step # "rebuild"
      BY <1>4 DEF Publish, Registered, Locked
    <2>2. \A f \in Here : mail[f].row = "own" => f \in Registered
      BY <1>4, <2>1 DEF CopyInv, Covered, Covers
    <2>3. \A f \in Here' : mail'[f].row = "own" => f \in Registered'
      BY <1>3, <1>6, <2>1, <2>2
    <2>. QED
      BY <1>5, <2>3 DEF Covered, Covers
  <1>10. OneCopy'
    BY <1>3, <1>6 DEF CopyInv, OneCopy
  <1>. QED
    BY <1>5, <1>8, <1>9, <1>10, <1>11 DEF CopyInv

LEMMA IndexCopies ==
    ASSUME FutureTypeOK, CopyInv, NEW p \in Proc, Index(p)
    PROVE  CopyInv'
  <1> DEFINE e == job[p].copy
             m == [mail[e] EXCEPT !.row = "own"]
             j == [job[p] EXCEPT !.step = "project"]
  <1>1. e \in Here /\ job[p].step = "index" /\ mail[e] \in Mails
    BY JobsOK, PlaceOrRow DEF Index, JobOK
  <1>2. mail' = [mail EXCEPT ![e] = m] /\ m.doc = mail[e].doc
    BY <1>1 DEF Index, Mails, FutureTypeOK, Here
  <1>3. Goes(p, j) /\ j.step = "project"
    BY DEF Index, FutureTypeOK, Jobs
  <1>4. Fresh(mail[e].doc)
    BY <1>1 DEF CopyInv, FreshIndex
  <1>. HIDE DEF j, m, e
  <1>5. /\ \A q \in Proc : q # p => job'[q].step \notin Locked
        /\ job'[p] = j /\ Exclusive'
    BY <1>1, <1>3, HolderAlone DEF Locked
  <1>6. Here' \subseteq Here /\ \A f \in Here : mail'[f] = IF f = e THEN m ELSE mail[f]
    BY <1>1, <1>2 DEF Here, FutureTypeOK
  <1>7. FreshPublish' /\ FreshIndex'
    BY <1>3, <1>5 DEF FreshPublish, FreshIndex, Locked
  <1>9. Covered'
    <2>1. Registered' = Registered /\ job[p].step \in Locked
      BY <1>1 DEF Index, Registered, Locked
    <2>2. \A f \in Here : mail[f].row = "own" => f \in Registered
      BY <1>1, <2>1 DEF CopyInv, Covered, Covers
    <2>3. \A f \in Here' : mail'[f].row = "own" => f \in Registered' \/ f = e
      BY <1>6, <2>1, <2>2
    <2>4. j.copy = e
      BY JobsOK DEF j, e, JobOK, Jobs
    <2>. QED
      BY <1>3, <1>5, <2>3, <2>4 DEF Covered, Covers
  <1>8. OneCopy'
    <2>. SUFFICES ASSUME NEW f \in Here', NEW g \in Here',
                         mail'[f].row = "own", mail'[g].row = "own",
                         DedupKey(mail'[f].doc) = DedupKey(mail'[g].doc), f # g
                  PROVE  FALSE
      BY DEF OneCopy
    <2>1. mail'[f].doc = mail[f].doc /\ mail'[g].doc = mail[g].doc
      BY <1>2, <1>6
    <2>2. CASE f # e /\ g # e
      BY <1>6, <2>1, <2>2 DEF CopyInv, OneCopy
    <2>3. CASE f = e
      BY <1>4, <1>6, <2>1, <2>3 DEF Fresh
    <2>4. CASE g = e
      BY <1>4, <1>6, <2>1, <2>4 DEF Fresh
    <2>. QED
      BY <2>2, <2>3, <2>4
  <1>. QED
    BY <1>5, <1>7, <1>8, <1>9 DEF CopyInv

\* What the steps of a process leave alone.
LEMMA SmallMoves ==
    ASSUME FutureTypeOK, NEW p \in Proc,
           \/ RebuildRefused(p) \/ Project(p) \/ Reading(p) \/ Signing(p)
           \/ Die(p) \/ DieTearing(p)
    PROVE  /\ \E j : Goes(p, j) /\ j.step \notin Locked
           /\ Here' = Here /\ Registered \subseteq Registered'
           /\ \A e \in Here : mail'[e].doc = mail[e].doc /\ (mail'[e].row = "own" => mail[e].row = "own")
  <1>1. Idle.step \notin Locked
    BY DEF Idle, Locked
  <1>2. ASSUME UNCHANGED mail
        PROVE  /\ Here' = Here
               /\ \A e \in Here : mail'[e].doc = mail[e].doc /\ (mail'[e].row = "own" => mail[e].row = "own")
    BY <1>2 DEF Here
  <1>3. ASSUME UNCHANGED registry
        PROVE  Registered \subseteq Registered'
    BY <1>3 DEF Registered
  <1>4. ASSUME NEW e \in Copies, registry' = [registry EXCEPT ![e] = "true"]
        PROVE  Registered \subseteq Registered'
    <2>1. "true" # None
      BY NoneAssumption DEF Rows
    <2>. QED
      BY <1>4, <2>1 DEF Registered, FutureTypeOK
  <1>5. CASE RebuildRefused(p) \/ Die(p) \/ DieTearing(p)
    <2>1. UNCHANGED mail /\ UNCHANGED registry /\ Goes(p, Idle)
      BY <1>5 DEF RebuildRefused, Die, DieTearing
    <2>. QED
      BY <1>1, <1>2, <1>3, <2>1
  <1>6. CASE Project(p) \/ Repair(p)
    <2>1. job[p].copy \in Copies
      BY <1>6, JobsOK DEF Project, Repair, JobOK, Here
    <2>2. UNCHANGED mail /\ Goes(p, Idle)
          /\ (UNCHANGED registry \/ registry' = [registry EXCEPT ![job[p].copy] = "true"])
      BY <1>6 DEF Project, Repair
    <2>. QED
      BY <1>1, <1>2, <1>3, <1>4, <2>1, <2>2
  <1>7. ASSUME NEW e \in Copies, NEW reopen \in BOOLEAN, Look(p, e, reopen)
        PROVE  UNCHANGED mail /\ UNCHANGED registry /\ \E j : Goes(p, j) /\ j.step \notin Locked
    <2> DEFINE j == [Idle EXCEPT !.step = "peek", !.copy = e, !.reopen = reopen,
                                 !.seen = registry[e]]
    <2>1. j.step \notin Locked
      BY DEF Idle, Locked
    <2>2. Goes(p, j)
      BY <1>7 DEF Look
    <2>. HIDE DEF j
    <2>. QED
      BY <1>7, <2>1, <2>2 DEF Look
  <1>8. ASSUME NEW now \in Time, Peek(p, now)
        PROVE  UNCHANGED mail /\ UNCHANGED registry /\ \E j : Goes(p, j) /\ j.step \notin Locked
    <2> DEFINE j == [job[p] EXCEPT !.step = "take"]
    <2>1. j.step \notin Locked
      BY DEF FutureTypeOK, Jobs, Locked
    <2>2. Goes(p, j) \/ Goes(p, Idle)
      BY <1>8 DEF Peek
    <2>. HIDE DEF j
    <2>. QED
      BY <1>1, <1>8, <2>1, <2>2 DEF Peek
  <1>9. CASE Take(p)
    <2> DEFINE e == job[p].copy
               j == [job[p] EXCEPT !.step = "repair"]
               m == [mail[e] EXCEPT !.place = "read"]
    <2>1. e \in Here /\ UNCHANGED registry
      BY <1>9, JobsOK DEF Take, JobOK
    <2>2. j.step \notin Locked
      BY DEF FutureTypeOK, Jobs, Locked
    <2>3. m \in Mails /\ m.doc = mail[e].doc /\ m.row = mail[e].row
      BY <2>1, PlaceOrRow DEF Mails
    <2>4. \/ mail' = [mail EXCEPT ![e] = m] /\ Goes(p, j)
          \/ mail' = mail /\ Goes(p, Idle)
      BY <1>9 DEF Take
    <2>. HIDE DEF m, j, e
    <2>5. CASE mail' = [mail EXCEPT ![e] = m] /\ Goes(p, j)
      <3>1. Here' = Here
        BY <2>1, <2>3, <2>5, LetterTyped
      <3>2. \A f \in Here : mail'[f] = IF f = e THEN m ELSE mail[f]
        BY <2>5 DEF Here, FutureTypeOK
      <3>. QED
        BY <1>3, <2>1, <2>2, <2>3, <2>5, <3>1, <3>2
    <2>6. CASE mail' = mail /\ Goes(p, Idle)
      BY <1>1, <1>2, <1>3, <2>1, <2>6
    <2>. QED
      BY <2>4, <2>5, <2>6
  <1>10. CASE Signing(p)
    <2>1. UNCHANGED mail /\ UNCHANGED registry
      BY <1>10, SigningStarts DEF StartSigning, Sign, AppendSignature
    <2>2. ASSUME NEW e \in Copies, NEW d \in Docs, NEW signers \in SUBSET Signer,
                 StartSigning(p, e, d, signers)
          PROVE  \E j : Goes(p, j) /\ j.step \notin Locked
      <3> DEFINE j == [Idle EXCEPT !.step = "sign", !.doc = d, !.todo = signers]
      <3>1. j.step \notin Locked
        BY DEF Idle, Locked
      <3>2. Goes(p, j)
        BY <2>2 DEF StartSigning
      <3>. HIDE DEF j
      <3>. QED
        BY <3>1, <3>2
    <2>3. ASSUME Sign(p)
          PROVE  \E j : Goes(p, j) /\ j.step \notin Locked
      <3>1. \A t : [job[p] EXCEPT !.step = "append", !.todo = t].step \notin Locked
        BY DEF FutureTypeOK, Jobs, Locked
      <3>. QED
        BY <2>3, <3>1 DEF Sign
    <2>4. ASSUME AppendSignature(p)
          PROVE  \E j : Goes(p, j) /\ j.step \notin Locked
      <3>1. \A t : [job[p] EXCEPT !.todo = t].step \notin Locked
        BY <2>4 DEF FutureTypeOK, Jobs, Locked, AppendSignature
      <3>. QED
        BY <1>1, <2>4, <3>1 DEF AppendSignature
    <2>. QED
      BY <1>2, <1>3, <1>10, <2>1, <2>2, <2>3, <2>4, SigningStarts
  <1>. QED
    BY <1>2, <1>3, <1>5, <1>6, <1>7, <1>8, <1>9, <1>10 DEF Reading

LEMMA CopyStep == FutureTypeOK /\ CopyInv /\ [FutureNext]_futureVars => CopyInv'
  <1>. SUFFICES ASSUME FutureTypeOK, CopyInv, [FutureNext]_futureVars
                PROVE  CopyInv'
    OBVIOUS
  <1>1. ASSUME NEW p \in Proc, \/ RebuildRefused(p) \/ Project(p) \/ Reading(p) \/ Signing(p)
                               \/ Die(p) \/ DieTearing(p)
        PROVE  CopyInv'
    <2>1. PICK j : Goes(p, j) /\ j.step \notin Locked
      BY <1>1, SmallMoves
    <2>2. \A q \in Proc : job'[q].step \in Locked => job'[q] = job[q]
      BY <2>1 DEF Goes, FutureTypeOK
    <2>. QED
      BY <1>1, <2>2, SmallMoves, CopyKept
  <1>2. ASSUME NEW p \in Proc, Writing(p), ~RebuildRefused(p), ~Project(p)
        PROVE  CopyInv'
    <2>1. CASE \E doc : Rebuild(p, doc)
      BY <2>1, RebuildCopies
    <2>2. CASE RebuildRow(p) \/ Rebuilt(p) \/ Publish(p) \/ Index(p)
      BY <2>2, RebuildRowCopies, RebuiltCopies, PublishCopies, IndexCopies
    <2>. QED
      BY <1>2, <2>1, <2>2 DEF Writing, Create, List, ReadUnknown, ImportRecovery, ImportPrivate
  <1>3. ASSUME NEW e \in Copies, Recover(e) \/ Sweep(e) \/ OpenMail(e)
        PROVE  CopyInv'
    <2>1. Registered' = Registered /\ job' = job
      BY <1>3, MailboxLetters DEF Registered
    <2>. QED
      BY <1>3, <2>1, MailboxLetters, CopyKept
  <1>4. ASSUME UNCHANGED <<mail, job>>, \/ Registered \subseteq Registered'
                                       \/ \A q \in Proc : job[q].step \notin Locked
        PROVE  CopyInv'
    <2>1. Here' = Here /\ job' = job /\ mail' = mail
      BY <1>4 DEF Here
    <2>. QED
      BY <1>4, <2>1, CopyKept
  <1>5. CASE UNCHANGED futureVars
    BY <1>4, <1>5 DEF futureVars, Registered
  <1>6. CASE \E e \in Copies : Export(e)
    BY <1>4, <1>6 DEF Export, Registered
  <1>7. ASSUME NEW e \in Copies, NEW row \in Rows, EditRow(e, row)
        PROVE  CopyInv'
    BY <1>4, <1>7 DEF EditRow, Unlocked, Locked
  <1>8. ASSUME NEW file \in Files, LoseFile(file)
        PROVE  CopyInv'
    BY <1>4, <1>8 DEF LoseFile, Unlocked, Locked
  <1>. QED
    BY <1>1, <1>2, <1>3, <1>5, <1>6, <1>7, <1>8 DEF FutureNext, Mailbox, Files

-----------------------------------------------------------------------------
(* The roster *)

LEMMA PendingCount ==
    ASSUME NEW d, NEW s
    PROVE  /\ IsFiniteSet(Pending(d, s)) /\ Cardinality(Pending(d, s)) \in Nat
           /\ Cardinality(Proc) \in Nat
           /\ Cardinality(Pending(d, s)) <= Cardinality(Proc)
  <1>1. Pending(d, s) \subseteq Proc
    BY DEF Pending
  <1>. QED
    BY <1>1, ProcAssumption, FS_Subset, FS_CardinalityType

LEMMA PendingCountNext ==
    ASSUME NEW d, NEW s
    PROVE  /\ IsFiniteSet(Pending(d, s)') /\ Cardinality(Pending(d, s)') \in Nat
           /\ Cardinality(Pending(d, s)') <= Cardinality(Proc)
  <1>1. Pending(d, s)' \subseteq Proc
    BY DEF Pending
  <1>. QED
    BY <1>1, ProcAssumption, FS_Subset, FS_CardinalityType

\* Where nothing of s over d is recorded, everybody may be about to.
LEMMA RosterEmpty ==
    ASSUME NEW d, NEW s, sigs'[<<d, s>>] = 0
    PROVE  sigs'[<<d, s>>] + Cardinality(Pending(d, s)') <= Cardinality(Proc)
  BY PendingCount, PendingCountNext

\* Where nobody else comes to sign, the count does not grow.
LEMMA RosterSame ==
    ASSUME FutureTypeOK, RosterInv, NEW d \in Docs, NEW s \in Signer,
           sigs'[<<d, s>>] = sigs[<<d, s>>], Pending(d, s)' \subseteq Pending(d, s)
    PROVE  sigs'[<<d, s>>] + Cardinality(Pending(d, s)') <= Cardinality(Proc)
  <1>1. Cardinality(Pending(d, s)') <= Cardinality(Pending(d, s))
    BY PendingCount, FS_Subset
  <1>2. sigs[<<d, s>>] + Cardinality(Pending(d, s)) <= Cardinality(Proc) /\ sigs[<<d, s>>] \in Nat
    BY DEF RosterInv, FutureTypeOK
  <1>. QED
    BY <1>1, <1>2, PendingCount, PendingCountNext

LEMMA NobodySigns ==
    ASSUME FutureTypeOK, FutureNext, \A p \in Proc : ~Sign(p) /\ ~AppendSignature(p),
           \A file \in Files : ~LoseFile(file)
    PROVE  /\ sigs' = sigs
           /\ \A q \in Proc : job'[q].step = "append" => job'[q] = job[q]
  <1>1. job \in [Proc -> Jobs]
    BY DEF FutureTypeOK
  <1> DEFINE Same == \A q \in Proc : job'[q].step = "append" => job'[q] = job[q]
  <1>2. ASSUME NEW p \in Proc, NEW j, Goes(p, j), j.step # "append"
        PROVE  Same
    BY <1>1, <1>2 DEF Goes
  <1>3. Idle.step = "idle"
    BY DEF Idle
  <1>4. ASSUME NEW p \in Proc, Writing(p)
        PROVE  sigs' = sigs /\ Same
    <2>1. \A doc : [Idle EXCEPT !.step = "rebuild", !.doc = doc, !.todo = Missing].step = "rebuild"
      BY DEF Idle
    <2>2. \A t : job[p].step = "rebuild" => [job[p] EXCEPT !.todo = t].step = "rebuild"
      BY <1>1 DEF Jobs
    <2>3. /\ [job[p] EXCEPT !.step = "publish"].step = "publish"
          /\ [job[p] EXCEPT !.step = "project"].step = "project"
          /\ \A e : [job[p] EXCEPT !.step = "index", !.copy = e].step = "index"
      BY <1>1 DEF Jobs
    <2>4. CASE \E doc : Rebuild(p, doc)
      BY <1>2, <2>1, <2>4 DEF Rebuild
    <2>5. CASE RebuildRow(p)
      BY <1>2, <2>2, <2>5 DEF RebuildRow
    <2>6. CASE RebuildRefused(p) \/ Rebuilt(p)
      BY <1>2, <1>3, <2>3, <2>6 DEF RebuildRefused, Rebuilt
    <2>7. CASE Publish(p) \/ Index(p) \/ Project(p)
      BY <1>2, <1>3, <2>3, <2>7 DEF Publish, Index, Project
    <2>. QED
      BY <1>4, <2>4, <2>5, <2>6, <2>7 DEF Writing, Create, List, ReadUnknown, ImportRecovery, ImportPrivate
  <1>5. ASSUME NEW p \in Proc, Reading(p)
        PROVE  sigs' = sigs /\ Same
    <2>1. \A e, r, x : [Idle EXCEPT !.step = "peek", !.copy = e, !.reopen = r,
                                   !.seen = x].step = "peek"
      BY DEF Idle
    <2>2. /\ [job[p] EXCEPT !.step = "take"].step = "take"
          /\ [job[p] EXCEPT !.step = "repair"].step = "repair"
      BY <1>1 DEF Jobs
    <2>3. ASSUME NEW e, NEW reopen, Look(p, e, reopen)
          PROVE  sigs' = sigs /\ Same
      BY <1>2, <2>1, <2>3 DEF Look
    <2>4. ASSUME NEW now, Peek(p, now)
          PROVE  sigs' = sigs /\ Same
      BY <1>2, <1>3, <2>2, <2>4 DEF Peek
    <2>5. CASE Take(p) \/ Repair(p)
      BY <1>2, <1>3, <2>2, <2>5 DEF Take, Repair
    <2>. QED
      BY <1>5, <2>3, <2>4, <2>5 DEF Reading
  <1>6. ASSUME NEW p \in Proc, Signing(p) \/ Die(p) \/ DieTearing(p)
        PROVE  sigs' = sigs /\ Same
    <2>1. \A d, t : [Idle EXCEPT !.step = "sign", !.doc = d, !.todo = t].step = "sign"
      BY DEF Idle
    <2>. QED
      BY <1>2, <1>3, <1>6, <2>1, SigningStarts DEF StartSigning, Die, DieTearing
  <1>7. CASE Mailbox
    BY <1>7 DEF Mailbox, Files, Recover, Sweep, OpenMail, Export, EditRow
  <1>. QED
    BY <1>4, <1>5, <1>6, <1>7 DEF FutureNext

LEMMA SignCounted ==
    ASSUME FutureTypeOK, RosterInv, NEW p \in Proc, Sign(p)
    PROVE  RosterInv'
  <1> DEFINE left == {s \in job[p].todo : sigs[<<job[p].doc, s>>] = 0}
             j == [job[p] EXCEPT !.step = "append", !.todo = left]
  <1>1. j.doc = job[p].doc /\ j.todo = left
    BY DEF FutureTypeOK, Jobs
  <1>2. Goes(p, j) /\ sigs' = sigs
    BY DEF Sign
  <1>. HIDE DEF j
  <1>3. \A q \in Proc : job'[q] = IF q = p THEN j ELSE job[q]
    BY <1>2 DEF Goes, FutureTypeOK
  <1>4. ASSUME NEW d \in Docs, NEW s \in Signer
        PROVE  sigs'[<<d, s>>] + Cardinality(Pending(d, s)') <= Cardinality(Proc)
    <2>1. CASE sigs[<<d, s>>] = 0
      BY <1>2, <2>1, RosterEmpty
    <2>2. CASE sigs[<<d, s>>] # 0
      <3>1. Pending(d, s)' \subseteq Pending(d, s)
        BY <1>1, <1>3, <2>2 DEF Pending
      <3>. QED
        BY <1>2, <3>1, RosterSame
    <2>. QED
      BY <2>1, <2>2
  <1>. QED
    BY <1>4 DEF RosterInv, Pending

\* A signature recorded is one fewer to come.
LEMMA AppendCounted ==
    ASSUME FutureTypeOK, RosterInv, NEW p \in Proc, AppendSignature(p)
    PROVE  RosterInv'
  <1>1. job[p] \in Jobs /\ job[p].step = "append" /\ job[p].doc \in Docs /\ job[p].todo \subseteq Signer
    BY JobsOK DEF AppendSignature, JobOK, Jobs
  <1>2. ASSUME NEW j, Goes(p, j), j.step = "append" => j.doc = job[p].doc /\ j.todo \subseteq job[p].todo,
               UNCHANGED sigs
        PROVE  RosterInv'
    <2>1. \A q \in Proc : job'[q] = IF q = p THEN j ELSE job[q]
      BY <1>2 DEF Goes, FutureTypeOK
    <2>2. \A d, s : Pending(d, s)' \subseteq Pending(d, s)
      BY <1>1, <1>2, <2>1 DEF Pending
    <2>3. ASSUME NEW d \in Docs, NEW s \in Signer
          PROVE  sigs'[<<d, s>>] + Cardinality(Pending(d, s)') <= Cardinality(Proc)
      BY <1>2, <2>2, RosterSame
    <2>. QED
      BY <2>3 DEF RosterInv, Pending
  <1>3. CASE job[p].todo = {} /\ Goes(p, Idle) /\ UNCHANGED sigs
    <2>1. Idle.step # "append"
      BY DEF Idle
    <2>. QED
      BY <1>2, <1>3, <2>1
  <1>4. ASSUME NEW s \in job[p].todo,
               sigs' = IF "cosignatures" \in torn THEN sigs
                       ELSE [sigs EXCEPT ![<<job[p].doc, s>>] = @ + 1],
               Goes(p, [job[p] EXCEPT !.todo = @ \ {s}])
        PROVE  RosterInv'
    <2> DEFINE j == [job[p] EXCEPT !.todo = @ \ {s}]
    <2>1. j.step = "append" /\ j.doc = job[p].doc /\ j.todo = job[p].todo \ {s}
      BY <1>1 DEF Jobs
    <2>2. Goes(p, j)
      BY <1>4
    <2>. HIDE DEF j
    <2>3. CASE sigs' = sigs
      BY <1>2, <2>1, <2>2, <2>3
    <2>4. CASE sigs' = [sigs EXCEPT ![<<job[p].doc, s>>] = @ + 1]
      <3>1. \A q \in Proc : job'[q] = IF q = p THEN j ELSE job[q]
        BY <2>2 DEF Goes, FutureTypeOK
      <3>2. ASSUME NEW d \in Docs, NEW t \in Signer
            PROVE  sigs'[<<d, t>>] + Cardinality(Pending(d, t)') <= Cardinality(Proc)
        <4>1. sigs \in [Docs \X Signer -> Nat] /\ <<d, t>> \in Docs \X Signer
          BY DEF FutureTypeOK
        <4>2. CASE <<d, t>> = <<job[p].doc, s>>
          <5>1. d = job[p].doc /\ t = s
            BY <4>2
          <5>2. Pending(d, t)' = Pending(d, t) \ {p} /\ p \in Pending(d, t)
            BY <1>1, <2>1, <3>1, <5>1 DEF Pending
          <5> DEFINE n == Cardinality(Pending(d, t))
                     x == <<d, t>>
          <5>3. Cardinality(Pending(d, t)') = n - 1
            BY <5>2, PendingCount, FS_RemoveElement
          <5>4. sigs'[x] = sigs[x] + 1
            BY <2>4, <4>1, <4>2
          <5>5. sigs[x] \in Nat /\ n \in Nat /\ sigs[x] + n <= Cardinality(Proc)
            BY <4>1, PendingCount DEF RosterInv
          <5>6. Cardinality(Proc) \in Nat
            BY PendingCount
          <5>. HIDE DEF n, x
          <5>7. sigs'[x] + (n - 1) <= Cardinality(Proc)
            BY <5>4, <5>5, <5>6
          <5>. QED
            BY <5>3, <5>7 DEF x
        <4>3. CASE <<d, t>> # <<job[p].doc, s>>
          <5>1. sigs'[<<d, t>>] = sigs[<<d, t>>]
            BY <2>4, <4>1, <4>3
          <5>2. Pending(d, t)' \subseteq Pending(d, t)
            BY <1>1, <2>1, <3>1 DEF Pending
          <5>. QED
            BY <5>1, <5>2, RosterSame
        <4>. QED
          BY <4>2, <4>3
      <3>. QED
        BY <3>2 DEF RosterInv, Pending
    <2>. QED
      BY <1>4, <2>3, <2>4
  <1>. QED
    BY <1>3, <1>4 DEF AppendSignature

LEMMA RosterStep == FutureTypeOK /\ RosterInv /\ [FutureNext]_futureVars => RosterInv'
  <1>. SUFFICES ASSUME FutureTypeOK, RosterInv, [FutureNext]_futureVars
                PROVE  RosterInv'
    OBVIOUS
  <1>1. ASSUME sigs' = sigs, \A q \in Proc : job'[q].step = "append" => job'[q] = job[q]
        PROVE  RosterInv'
    <2>1. ASSUME NEW d \in Docs, NEW s \in Signer
          PROVE  sigs'[<<d, s>>] + Cardinality(Pending(d, s)') <= Cardinality(Proc)
      <3>1. Pending(d, s)' \subseteq Pending(d, s)
        BY <1>1 DEF Pending
      <3>. QED
        BY <1>1, <3>1, RosterSame
    <2>. QED
      BY <2>1 DEF RosterInv, Pending
  <1>2. CASE UNCHANGED futureVars
    BY <1>1, <1>2 DEF futureVars
  <1>3. CASE \E p \in Proc : Sign(p) \/ AppendSignature(p)
    BY <1>3, SignCounted, AppendCounted
  <1>4. ASSUME NEW file \in Files, LoseFile(file)
        PROVE  RosterInv'
    <2>1. CASE file = "registry"
      BY <1>1, <1>4, <2>1 DEF LoseFile
    <2>2. CASE file # "registry"
      <3>1. sigs' = [x \in Docs \X Signer |-> 0]
        BY <1>4, <2>2 DEF LoseFile
      <3>2. ASSUME NEW d \in Docs, NEW s \in Signer
            PROVE  sigs'[<<d, s>>] + Cardinality(Pending(d, s)') <= Cardinality(Proc)
        BY <3>1, RosterEmpty
      <3>. QED
        BY <3>2 DEF RosterInv, Pending
    <2>. QED
      BY <2>1, <2>2
  <1>. QED
    BY <1>1, <1>2, <1>3, <1>4, NobodySigns

-----------------------------------------------------------------------------
(* The theorems *)

LEMMA FutureStarts == FutureInit => FutureIInv
  <1>. SUFFICES ASSUME FutureInit
                PROVE  FutureIInv
    OBVIOUS
  <1>1. Here = {} /\ Registered = {}
    BY DEF FutureInit, Here, Registered
  <1>2. \A p \in Proc : job[p] = Idle /\ job[p].step = "idle"
    BY DEF FutureInit, Idle
  <1>3. [letter : Foreign, imports : {0}] \subseteq Docs
    BY LetterAssumption, FutureBoundsAssumption DEF Docs
  <1>4. FutureTypeOK
    BY <1>1, <1>2, <1>3, IdleTyped DEF FutureInit, FutureTypeOK
  <1>5. CopyInv
    BY <1>1, <1>2 DEF CopyInv, Exclusive, Covered, Covers, FreshPublish, FreshIndex, OneCopy, Locked
  <1>6. ASSUME NEW d \in Docs, NEW s \in Signer
        PROVE  sigs[<<d, s>>] + Cardinality(Pending(d, s)) <= Cardinality(Proc)
    <2>1. sigs[<<d, s>>] = 0
      BY DEF FutureInit
    <2>. QED
      BY <2>1, PendingCount
  <1>. QED
    BY <1>4, <1>5, <1>6 DEF FutureIInv, RosterInv

LEMMA FutureInductive == FutureSpec => []FutureIInv
  <1>1. FutureIInv /\ [FutureNext]_futureVars => FutureIInv'
    BY FutureTyped, CopyStep, RosterStep DEF FutureIInv
  <1>. QED
    BY <1>1, FutureStarts, PTL DEF FutureSpec

\* Letters, registry rows, signatures and what each process is doing keep their
\* shapes, and no registry row names a letter that was never delivered
\* (_append_registry only ever follows a delivery).
THEOREM FutureTypeCorrect == FutureSpec => []FutureTypeOK
  <1>1. FutureIInv => FutureTypeOK
    BY DEF FutureIInv
  <1>. QED
    BY <1>1, FutureInductive, PTL

\* _deliver "refusing to write a second copy": of two copies of one letter at
\* most one was delivered by a process that lived to index it.
THEOREM OneCopyOnly == FutureSpec => []OneCopy
  <1>1. FutureIInv => OneCopy
    BY DEF FutureIInv, CopyInv
  <1>. QED
    BY <1>1, FutureInductive, PTL

\* _rebuild_missing_projection "closes that window from the canonical index":
\* whoever is through with it, still holding registry.lock, finds every letter its
\* deliverer indexed in the projection.
THEOREM RebuildsAreComplete == FutureSpec => []ReconcileComplete
  <1>1. FutureIInv => ReconcileComplete
    BY DEF FutureIInv, CopyInv, Covered, Covers, ReconcileComplete, Locked
  <1>. QED
    BY <1>1, FutureInductive, PTL

\* cosign and import_cosignatures read the signatures once and lock nothing: one
\* identity is recorded at most as often as there are processes.
THEOREM RosterBounded == FutureSpec => []RosterAlmostSingle
  <1>1. FutureIInv => RosterAlmostSingle
    <2>. SUFFICES ASSUME FutureIInv, NEW d \in Docs, NEW s \in Signer
                  PROVE  sigs[<<d, s>>] <= Cardinality(Proc)
      BY DEF RosterAlmostSingle
    <2>1. sigs[<<d, s>>] \in Nat /\ sigs[<<d, s>>] + Cardinality(Pending(d, s)) <= Cardinality(Proc)
      BY DEF FutureIInv, RosterInv, FutureTypeOK
    <2>. QED
      BY <2>1, PendingCount
  <1>. QED
    BY <1>1, FutureInductive, PTL
=============================================================================
