-------------------------- MODULE PostOfficeProofs --------------------------
(***************************************************************************)
(* What PostOffice promises for every set of envelopes, processes, clocks  *)
(* and policies, proved.                                                   *)
(***************************************************************************)
EXTENDS PostOffice, TLAPS

\* Labels at which the process has an envelope in hand, a receipt instant in
\* hand, or a sweep instant in hand.
HasEnv == {"d_lock", "d_note", "d_row", "o_lock", "o_unlink", "o_note", "r_unpair",
           "r_row", "s_body", "s_left", "x_inbox", "x_read", "c_inbox", "c_read",
           "c_done", "k_read", "k_row"}
HasAt == {"d_note", "d_row", "r_unpair", "r_row", "k_row"}
HasInstant == {"s_lock", "s_pick", "s_body", "s_left"}

JobShape == \A p \in Proc :
    /\ pc[p] \in HasEnv => job[p].env \in Envelope
    /\ pc[p] \in HasAt => job[p].at \in Nat
    /\ pc[p] \in HasInstant => job[p].instant \in Nat

Typing == TypeOK /\ JobShape

-----------------------------------------------------------------------------
LEMMA TTLType == ASSUME NEW p \in Proc, NEW e \in Envelope
                 PROVE EffectiveTTL(p, e) \in Nat
  BY TTLAssumption DEF EffectiveTTL

\* A whole bundle carries an instant.
LEMMA BundleType ==
    ASSUME TypeOK, NEW e \in Envelope
    PROVE /\ Bundle(e) \in Bundles
          /\ Bundle(e) \notin {None, Torn} => Bundle(e) \in Nat
  BY DEF TypeOK, Bundle, Bundles

\* Writing one local variable of one process, and what it leaves alone.
LEMMA JobEnv ==
    ASSUME job \in [Proc -> Jobs], NEW p \in Proc, NEW e \in Envelope,
           job' = [job EXCEPT ![p].env = e]
    PROVE /\ job' \in [Proc -> Jobs]
          /\ job'[p].env = e /\ job'[p].instant = job[p].instant
          /\ \A q \in Proc \ {p} : job'[q] = job[q]
  BY DEF Jobs

LEMMA JobAt ==
    ASSUME job \in [Proc -> Jobs], NEW p \in Proc, NEW t \in Nat,
           job' = [job EXCEPT ![p].at = t]
    PROVE /\ job' \in [Proc -> Jobs]
          /\ job'[p].env = job[p].env /\ job'[p].at = t
          /\ \A q \in Proc \ {p} : job'[q] = job[q]
  BY DEF Jobs

LEMMA JobTodo ==
    ASSUME job \in [Proc -> Jobs], NEW p \in Proc, NEW todo \in SUBSET Envelope,
           job' = [job EXCEPT ![p].todo = todo]
    PROVE /\ job' \in [Proc -> Jobs]
          /\ job'[p].instant = job[p].instant
          /\ \A q \in Proc \ {p} : job'[q] = job[q]
  BY DEF Jobs

LEMMA JobInstant ==
    ASSUME job \in [Proc -> Jobs], NEW p \in Proc, NEW t \in Nat,
           job' = [job EXCEPT ![p].instant = t]
    PROVE /\ job' \in [Proc -> Jobs]
          /\ job'[p].instant = t
          /\ \A q \in Proc \ {p} : job'[q] = job[q]
  BY DEF Jobs

LEMMA JobSeen ==
    ASSUME job \in [Proc -> Jobs], NEW p \in Proc, NEW seen \in SUBSET Places,
           job' = [job EXCEPT ![p].seen = seen]
    PROVE /\ job' \in [Proc -> Jobs]
          /\ job'[p].env = job[p].env
          /\ \A q \in Proc \ {p} : job'[q] = job[q]
  BY DEF Jobs

LEMMA JobEnvSeen ==
    ASSUME job \in [Proc -> Jobs], NEW p \in Proc, NEW e \in Envelope,
           NEW seen \in SUBSET Places,
           job' = [job EXCEPT ![p].env = e, ![p].seen = seen]
    PROVE /\ job' \in [Proc -> Jobs]
          /\ job'[p].env = e
          /\ \A q \in Proc \ {p} : job'[q] = job[q]
<1> DEFINE r1 == [job[p] EXCEPT !.env = e]
           r2 == [r1 EXCEPT !.seen = seen]
<1>1. r1 \in Jobs /\ r1.env = e
  BY DEF Jobs
<1>2. r2 \in Jobs /\ r2.env = e
  <2> HIDE DEF r1
  <2> QED BY <1>1 DEF Jobs
<1>3. job' = [job EXCEPT ![p] = r2]
  OBVIOUS
<1>4. job'[p] = r2 /\ \A q \in Proc \ {p} : job'[q] = job[q]
  BY <1>3
<1>5. job' \in [Proc -> Jobs]
  <2> HIDE DEF r2
  <2> QED BY <1>2, <1>3
<1> HIDE DEF r2
<1> QED BY <1>2, <1>4, <1>5

LEMMA JobEnvAt ==
    ASSUME job \in [Proc -> Jobs], NEW p \in Proc, NEW e \in Envelope, NEW t \in Nat,
           job' = [job EXCEPT ![p].env = e, ![p].at = t]
    PROVE /\ job' \in [Proc -> Jobs]
          /\ job'[p].env = e /\ job'[p].at = t
          /\ \A q \in Proc \ {p} : job'[q] = job[q]
<1> DEFINE r1 == [job[p] EXCEPT !.env = e]
           r2 == [r1 EXCEPT !.at = t]
<1>1. r1 \in Jobs /\ r1.env = e
  BY DEF Jobs
<1>2. r2 \in Jobs /\ r2.env = e /\ r2.at = t
  <2> HIDE DEF r1
  <2> QED BY <1>1 DEF Jobs
<1>3. job' = [job EXCEPT ![p] = r2]
  OBVIOUS
<1> HIDE DEF r2
<1> QED BY <1>2, <1>3

LEMMA JobDone ==
    ASSUME job \in [Proc -> Jobs], NEW p \in Proc, NEW e \in Envelope, Done(p, e)
    PROVE /\ job' \in [Proc -> Jobs]
          /\ job'[p].instant = job[p].instant
          /\ \A q \in Proc \ {p} : job'[q] = job[q]
<1> DEFINE j1 == [job EXCEPT ![p].todo = @ \ {e}]
           j2 == [j1 EXCEPT ![p].env = None]
<1>1. job' = [j2 EXCEPT ![p].at = None]
  BY DEF Done
<1>2. j1 \in [Proc -> Jobs] /\ j1[p].instant = job[p].instant
      /\ \A q \in Proc \ {p} : j1[q] = job[q]
  BY DEF Jobs
<1>3. j2 \in [Proc -> Jobs] /\ j2[p].instant = job[p].instant
      /\ \A q \in Proc \ {p} : j2[q] = job[q]
  <2> HIDE DEF j1
  <2> QED BY <1>2 DEF Jobs
<1> HIDE DEF j2
<1> QED BY <1>1, <1>3 DEF Jobs

LEMMA NoJobType == NoJob \in Jobs
  BY DEF NoJob, Jobs

LEMMA NoteType ==
    ASSUME ledger \subseteq Events \X Envelope, NEW event \in Events,
           NEW e \in Envelope, Note(event, e)
    PROVE ledger' \subseteq Events \X Envelope
<1>1. <<event, e>> \in Events \X Envelope
  OBVIOUS
<1> QED BY <1>1 DEF Note

LEMMA InitTyping == Init => Typing
<1> SUFFICES ASSUME Init PROVE Typing
  OBVIOUS
<1>1. index \in Seq(Rows)
  BY DEF Init
<1>2. job \in [Proc -> Jobs] /\ pc \in [Proc -> Holding \cup Waiting \cup LockFree]
  BY NoJobType DEF Init, LockFree
<1>3. inbox \in [Envelope -> Bundles] /\ read \in [Envelope -> Bundles]
      /\ tomb \in [Envelope -> Tombstones \cup {None}]
  BY DEF Init, Bundles
<1>4. JobShape
  BY DEF Init, JobShape, HasEnv, HasAt, HasInstant
<1> QED BY <1>1, <1>2, <1>3, <1>4 DEF Init, Typing, TypeOK

\* Appending an accepted row keeps index.jsonl a sequence of rows.
LEMMA WithRowType ==
    ASSUME TypeOK, NEW e \in Envelope, NEW t \in Nat
    PROVE WithRow(e, t) \in Seq(Rows)
<1>1. [id |-> e, at |-> t] \in Rows
  BY DEF Rows
<1> QED BY <1>1 DEF TypeOK, WithRow

LEMMA ReturnTyping ==
    ASSUME Typing, NEW p \in Proc, Return(p),
           UNCHANGED <<inbox, read, tomb, tail>>, index' \in Seq(Rows),
           quarantine' \subseteq Envelope, ledger' \subseteq Events \X Envelope
    PROVE Typing'
  BY DEF Typing, TypeOK, JobShape, Return, NoJob, Jobs, HasEnv, HasAt, HasInstant,
         LockFree

LEMMA DeliverTyping ==
    ASSUME Typing, NEW p \in Proc, Deliver(p)
    PROVE Typing'
<1> USE DEF Typing, Events
<1>1. ASSUME NEW e \in Envelope, DeliverGate(p, e) PROVE Typing'
  <2>1. CASE e \in Refusable /\ Note("QUARANTINED", e)
             /\ quarantine' = quarantine \cup {e}
             /\ UNCHANGED <<inbox, read, tomb, index, tail, lock, pc, job, crashes>>
    <3>1. ledger' \subseteq Events \X Envelope
      BY <2>1, NoteType DEF TypeOK
    <3> QED BY <2>1, <3>1 DEF TypeOK, JobShape
  <2>2. CASE Goto(p, "idle", "d_lock") /\ job' = [job EXCEPT ![p].env = e]
             /\ UNCHANGED <<files, lock>>
    <3>1. job' \in [Proc -> Jobs]
      BY <2>2, JobEnv DEF TypeOK
    <3> QED BY <2>2, <3>1 DEF Goto, files, TypeOK, JobShape, HasEnv, HasAt,
               HasInstant, Waiting
  <2> QED BY <1>1, <2>1, <2>2 DEF DeliverGate
<1>2. CASE DeliverExpired(p)
  BY <1>2, ReturnTyping DEF DeliverExpired, files, TypeOK
<1>3. CASE DeliverReplay(p)
  <2> DEFINE e == job[p].env
  <2>1. e \in Envelope
    BY <1>3 DEF DeliverReplay, JobShape, HasEnv
  <2>2. CASE Return(p)
    BY <1>3, <2>2, ReturnTyping DEF DeliverReplay, files, TypeOK
  <2>3. CASE Bundle(e) # Torn /\ Acquire(p) /\ Goto(p, "d_lock", "d_row")
             /\ job' = [job EXCEPT ![p].at = Bundle(e)]
    <3>1. Bundle(e) \in Nat
      BY <1>3, <2>1, <2>3, BundleType DEF DeliverReplay, HasBody, Bundle
    <3>2. job' \in [Proc -> Jobs] /\ job'[p].env = e /\ job'[p].at \in Nat
      BY <2>3, <3>1, JobAt DEF TypeOK
    <3> QED
      BY <1>3, <2>1, <2>3, <3>2 DEF DeliverReplay, Acquire, Goto, files, TypeOK,
         JobShape, HasEnv, HasAt, HasInstant, Holding
  <2> QED BY <1>3, <2>2, <2>3 DEF DeliverReplay
<1>4. CASE DeliverPublish(p)
  <2>1. PICK t \in Time : inbox' = [inbox EXCEPT ![job[p].env] = t]
                          /\ job' = [job EXCEPT ![p].at = t]
    BY <1>4 DEF DeliverPublish
  <2>2. t \in Nat
    BY TimeAssumption
  <2>3. job' \in [Proc -> Jobs] /\ job'[p].env = job[p].env /\ job'[p].at \in Nat
        /\ \A q \in Proc \ {p} : job'[q] = job[q]
    BY <2>1, <2>2, JobAt DEF TypeOK
  <2>4. pc[p] = "d_lock" /\ job[p].env \in Envelope
    BY <1>4 DEF DeliverPublish, Goto, JobShape, HasEnv
  <2> QED
    BY <1>4, <2>1, <2>2, <2>3, <2>4 DEF DeliverPublish, Acquire, Goto, TypeOK, JobShape,
       HasEnv, HasAt, HasInstant, Holding, Bundles
<1>5. CASE DeliverNote(p)
  BY <1>5 DEF DeliverNote, Goto, Note, TypeOK, JobShape, Jobs, HasEnv, HasAt,
              HasInstant, Holding
<1>6. CASE DeliverRow(p)
  <2>1. index' \in Seq(Rows)
    BY <1>6, WithRowType DEF DeliverRow, TypeOK, JobShape, HasEnv, HasAt
  <2> QED BY <1>6, <2>1, ReturnTyping DEF DeliverRow, TypeOK
<1> QED BY <1>1, <1>2, <1>3, <1>4, <1>5, <1>6 DEF Deliver

LEMMA OpenTyping ==
    ASSUME Typing, NEW p \in Proc, Open(p)
    PROVE Typing'
<1> USE DEF Typing
<1>1. ASSUME NEW e \in Envelope, OpenBegin(p, e) PROVE Typing'
  <2>1. job' \in [Proc -> Jobs] /\ job'[p].env = e
    BY <1>1, JobEnv DEF OpenBegin, TypeOK
  <2> QED BY <1>1, <2>1 DEF OpenBegin, Goto, files, TypeOK, JobShape, HasEnv, HasAt,
             HasInstant, Waiting
<1>2. CASE OpenRefuse(p)
  BY <1>2, ReturnTyping DEF OpenRefuse, files, TypeOK
<1>3. CASE OpenMove(p)
  <2>1. job[p].env \in Envelope
    BY <1>3 DEF OpenMove, JobShape, HasEnv
  <2>2. inbox' \in [Envelope -> Bundles] /\ read' \in [Envelope -> Bundles]
    BY <1>3, <2>1 DEF OpenMove, TypeOK, Bundles
  <2>3. PICK l \in {"o_note", "o_unlink"} : Goto(p, "o_lock", l)
    BY <1>3 DEF OpenMove
  <2>4. pc' \in [Proc -> Holding \cup Waiting \cup LockFree] /\ JobShape'
    BY <1>3, <2>1, <2>3 DEF OpenMove, Goto, TypeOK, JobShape, HasEnv, HasAt,
       HasInstant, Holding
  <2> QED BY <1>3, <2>2, <2>3, <2>4 DEF OpenMove, Acquire, Goto, TypeOK
<1>4. CASE OpenUnlink(p)
  BY <1>4 DEF OpenUnlink, Goto, TypeOK, JobShape, HasEnv, HasAt, HasInstant, Holding,
     Bundles
<1>5. CASE OpenNote(p)
  <2>1. pc' = [pc EXCEPT ![p] = "idle"] /\ ledger' \subseteq Events \X Envelope
    BY <1>5, NoteType DEF OpenNote, Return, TypeOK, JobShape, HasEnv, Events
  <2>2. pc' \in [Proc -> Holding \cup Waiting \cup LockFree]
    BY <2>1 DEF TypeOK, LockFree
  <2>3. job' \in [Proc -> Jobs] /\ JobShape'
    BY <1>5, NoJobType DEF OpenNote, Return, TypeOK, JobShape, HasEnv, HasAt, HasInstant
  <2> QED BY <1>5, <2>1, <2>2, <2>3 DEF OpenNote, Return, TypeOK
<1> QED BY <1>1, <1>2, <1>3, <1>4, <1>5 DEF Open

LEMMA PassTyping ==
    ASSUME Typing, NEW p \in Proc,
           PassDone(p) \/ PassRefuse(p) \/ FinishExpiry(p) \/ FinishInbox(p) \/ FinishRead(p)
    PROVE Typing'
<1> USE DEF Typing
<1>1. CASE PassDone(p) \/ PassRefuse(p)
  BY <1>1, ReturnTyping DEF PassDone, PassRefuse, files, TypeOK
<1>2. CASE FinishExpiry(p)
  <2>1. PICK e \in Envelope : Goto(p, Pick(p), IF inbox[e] # None THEN "x_inbox" ELSE "x_read")
                              /\ job' = [job EXCEPT ![p].env = e]
    BY <1>2 DEF FinishExpiry
  <2>2. job' \in [Proc -> Jobs] /\ job'[p].env = e
        /\ \A q \in Proc \ {p} : job'[q] = job[q]
    BY <2>1, JobEnv DEF TypeOK
  <2> QED BY <1>2, <2>1, <2>2 DEF FinishExpiry, Goto, files, TypeOK, JobShape, HasEnv,
             HasAt, HasInstant, Holding
<1>3. CASE FinishInbox(p)
  <2>1. job[p].env \in Envelope /\ inbox' \in [Envelope -> Bundles]
    BY <1>3 DEF FinishInbox, JobShape, HasEnv, TypeOK, Bundles
  <2>2. CASE Goto(p, "x_inbox", "x_read") /\ UNCHANGED job
    BY <1>3, <2>1, <2>2 DEF FinishInbox, Goto, TypeOK, JobShape, HasEnv, HasAt,
       HasInstant, Holding
  <2>3. CASE Goto(p, "x_inbox", Pick(p)) /\ Done(p, job[p].env)
    <3>1. job' \in [Proc -> Jobs] /\ job'[p].instant = job[p].instant
          /\ \A q \in Proc \ {p} : job'[q] = job[q]
      BY <2>1, <2>3, JobDone DEF TypeOK
    <3> QED BY <1>3, <2>1, <2>3, <3>1 DEF FinishInbox, Goto, Pick, TypeOK, Jobs, JobShape,
               HasEnv, HasAt, HasInstant, Holding
  <2> QED BY <1>3, <2>2, <2>3 DEF FinishInbox
<1>4. CASE FinishRead(p)
  <2>1. job[p].env \in Envelope /\ read' \in [Envelope -> Bundles]
    BY <1>4 DEF FinishRead, Goto, JobShape, HasEnv, TypeOK, Bundles
  <2>2. job' \in [Proc -> Jobs] /\ job'[p].instant = job[p].instant
        /\ \A q \in Proc \ {p} : job'[q] = job[q]
    BY <1>4, <2>1, JobDone DEF FinishRead, TypeOK
  <2> QED BY <1>4, <2>1, <2>2 DEF FinishRead, Goto, Pick, TypeOK, Jobs, JobShape, HasEnv,
             HasAt, HasInstant, Holding
<1> QED BY <1>1, <1>2, <1>3, <1>4

\* recover's next bundle, and the local variables it leaves.
LEMMA RecoverBundleTakes ==
    ASSUME Typing, NEW p \in Proc, RecoverBundle(p)
    PROVE \E e \in Envelope, t \in Nat :
            /\ tomb[e] = None /\ Verifiable(e) /\ t = Bundle(e)
            /\ Goto(p, "r_pick", IF HasPair(e) THEN "r_unpair" ELSE "r_row")
            /\ job' \in [Proc -> Jobs] /\ job'[p].env = e /\ job'[p].at = t
            /\ \A q \in Proc \ {p} : job'[q] = job[q]
<1>1. PICK e \in Envelope :
        /\ tomb[e] = None /\ Verifiable(e)
        /\ Goto(p, "r_pick", IF HasPair(e) THEN "r_unpair" ELSE "r_row")
        /\ job' = [job EXCEPT ![p].env = e, ![p].at = Bundle(e)]
  BY DEF RecoverBundle
<1>2. PICK t \in Nat : t = Bundle(e)
  BY <1>1, BundleType DEF Typing, Verifiable
<1>3. job' \in [Proc -> Jobs] /\ job'[p].env = e /\ job'[p].at = t
      /\ \A q \in Proc \ {p} : job'[q] = job[q]
  <2>1. job \in [Proc -> Jobs] /\ job' = [job EXCEPT ![p].env = e, ![p].at = t]
    BY <1>1, <1>2 DEF Typing, TypeOK
  <2> QED BY <2>1, JobEnvAt
<1> QED BY <1>1, <1>2, <1>3

LEMMA RecoverTyping ==
    ASSUME Typing, NEW p \in Proc, Recover(p)
    PROVE Typing'
<1> USE DEF Typing
<1>1. CASE RecoverBegin(p)
  BY <1>1 DEF RecoverBegin, Goto, files, TypeOK, JobShape, HasEnv, HasAt, HasInstant,
     Waiting
<1>2. CASE RecoverList(p)
  <2>1. job' \in [Proc -> Jobs]
    <3>1. Live \in SUBSET Envelope /\ job' = [job EXCEPT ![p].todo = Live]
      BY <1>2 DEF RecoverList, Live
    <3> QED BY <3>1, JobTodo DEF TypeOK
  <2> QED BY <1>2, <2>1 DEF RecoverList, Acquire, Goto, TypeOK, JobShape, HasEnv, HasAt,
             HasInstant, Holding
<1>3. CASE RecoverBundle(p)
  <2>1. PICK e \in Envelope, t \in Nat :
          /\ Goto(p, "r_pick", IF HasPair(e) THEN "r_unpair" ELSE "r_row")
          /\ job' \in [Proc -> Jobs] /\ job'[p].env = e /\ job'[p].at = t
          /\ \A q \in Proc \ {p} : job'[q] = job[q]
    BY <1>3, RecoverBundleTakes
  <2> QED BY <1>3, <2>1 DEF RecoverBundle, Goto, files, TypeOK, JobShape, HasEnv, HasAt,
             HasInstant, Holding
<1>4. CASE RecoverUnpair(p)
  BY <1>4 DEF RecoverUnpair, Goto, TypeOK, JobShape, HasEnv, HasAt, HasInstant, Holding,
     Bundles
<1>5. CASE RecoverRow(p)
  <2> DEFINE e == job[p].env  t == job[p].at
  <2>1. e \in Envelope /\ t \in Nat
    BY <1>5 DEF RecoverRow, JobShape, HasEnv, HasAt
  <2>2. CASE index' = WithRow(e, t) /\ Goto(p, "r_row", "r_pick") /\ Done(p, e)
             /\ UNCHANGED lock
    <3>1. index' \in Seq(Rows)
      BY <2>1, <2>2, WithRowType
    <3>2. job' \in [Proc -> Jobs] /\ \A q \in Proc \ {p} : job'[q] = job[q]
      BY <2>1, <2>2, JobDone DEF TypeOK
    <3> QED BY <1>5, <2>2, <3>1, <3>2 DEF RecoverRow, Goto, TypeOK, JobShape, HasEnv,
               HasAt, HasInstant, Holding
  <2>3. CASE Return(p) /\ UNCHANGED index
    BY <1>5, <2>3, ReturnTyping DEF RecoverRow, TypeOK
  <2> QED BY <1>5, <2>2, <2>3 DEF RecoverRow
<1> QED BY <1>1, <1>2, <1>3, <1>4, <1>5 DEF Recover

LEMMA SweepTyping ==
    ASSUME Typing, NEW p \in Proc, Sweep(p)
    PROVE Typing'
<1> USE DEF Typing
<1>1. CASE SweepBegin(p)
  <2>1. PICK t \in Time : job' = [job EXCEPT ![p].instant = t]
    BY <1>1 DEF SweepBegin
  <2>2. job' \in [Proc -> Jobs] /\ job'[p].instant \in Nat
        /\ \A q \in Proc \ {p} : job'[q] = job[q]
    <3>1. t \in Nat
      BY TimeAssumption
    <3> QED BY <2>1, <3>1, JobInstant DEF TypeOK
  <2> QED BY <1>1, <2>2 DEF SweepBegin, Goto, files, TypeOK, JobShape, HasEnv, HasAt,
             HasInstant, Waiting
<1>2. CASE SweepList(p)
  <2>1. job' \in [Proc -> Jobs] /\ job'[p].instant = job[p].instant
        /\ \A q \in Proc \ {p} : job'[q] = job[q]
    <3>1. Live \in SUBSET Envelope /\ job' = [job EXCEPT ![p].todo = Live]
      BY <1>2 DEF SweepList, Live
    <3> QED BY <3>1, JobTodo DEF TypeOK
  <2> QED BY <1>2, <2>1 DEF SweepList, Acquire, Goto, files, TypeOK, JobShape, HasEnv,
             HasAt, HasInstant, Holding
<1>3. CASE SweepRetain(p)
  <2>1. PICK e \in Envelope : Done(p, e)
    BY <1>3 DEF SweepRetain
  <2>2. job' \in [Proc -> Jobs] /\ job'[p].instant = job[p].instant
        /\ \A q \in Proc \ {p} : job'[q] = job[q]
    BY <2>1, JobDone DEF TypeOK
  <2> QED BY <1>3, <2>2 DEF SweepRetain, Goto, files, TypeOK, JobShape, HasEnv, HasAt,
             HasInstant, Holding
<1>4. CASE SweepTombstone(p)
  <2>1. PICK e \in Envelope :
          /\ Verifiable(e)
          /\ tomb' = [tomb EXCEPT ![e] = [received |-> Bundle(e),
                                          expired |-> job[p].instant,
                                          ttl |-> EffectiveTTL(p, e)]]
          /\ job' = [job EXCEPT ![p].env = e]
    BY <1>4 DEF SweepTombstone
  <2>2. Bundle(e) \in Nat /\ job[p].instant \in Nat /\ EffectiveTTL(p, e) \in Nat
    BY <1>4, <2>1, BundleType, TTLType
       DEF Verifiable, SweepTombstone, Goto, JobShape, HasInstant
  <2>3. tomb' \in [Envelope -> Tombstones \cup {None}]
    BY <2>1, <2>2 DEF TypeOK, Tombstones
  <2>4. job' \in [Proc -> Jobs] /\ job'[p].env = e /\ job'[p].instant = job[p].instant
        /\ \A q \in Proc \ {p} : job'[q] = job[q]
    BY <2>1, JobEnv DEF TypeOK
  <2> QED BY <1>4, <2>2, <2>3, <2>4 DEF SweepTombstone, Goto, TypeOK, JobShape, HasEnv,
             HasAt, HasInstant, Holding
<1>5. CASE SweepBody(p)
  <2>1. inbox' \in [Envelope -> Bundles] /\ read' \in [Envelope -> Bundles]
        /\ job[p].env \in Envelope /\ job[p].instant \in Nat
    BY <1>5 DEF SweepBody, TypeOK, JobShape, HasEnv, HasInstant, Bundles
  <2>2. CASE Goto(p, "s_body", "s_left") /\ UNCHANGED job
    BY <1>5, <2>1, <2>2 DEF SweepBody, Goto, TypeOK, JobShape, HasEnv, HasAt,
       HasInstant, Holding
  <2>3. CASE Goto(p, "s_body", "s_pick") /\ Done(p, job[p].env)
    <3>1. job' \in [Proc -> Jobs] /\ job'[p].instant = job[p].instant
          /\ \A q \in Proc \ {p} : job'[q] = job[q]
      BY <2>1, <2>3, JobDone DEF TypeOK
    <3> QED BY <1>5, <2>1, <2>3, <3>1 DEF SweepBody, Goto, TypeOK, JobShape, HasEnv,
               HasAt, HasInstant, Holding
  <2> QED BY <1>5, <2>2, <2>3 DEF SweepBody
<1>6. CASE SweepLeftover(p)
  <2>1. inbox' \in [Envelope -> Bundles] /\ job[p].env \in Envelope /\ job[p].instant \in Nat
    BY <1>6 DEF SweepLeftover, Goto, TypeOK, JobShape, HasEnv, HasInstant, Bundles
  <2>2. job' \in [Proc -> Jobs] /\ job'[p].instant = job[p].instant
        /\ \A q \in Proc \ {p} : job'[q] = job[q]
    BY <1>6, <2>1, JobDone DEF SweepLeftover, TypeOK
  <2> QED BY <1>6, <2>1, <2>2 DEF SweepLeftover, Goto, TypeOK, JobShape, HasEnv, HasAt,
             HasInstant, Holding
<1> QED BY <1>1, <1>2, <1>3, <1>4, <1>5, <1>6 DEF Sweep

\* The looks of a scan and of ledger.reconcile fill job[p].seen.
LEMMA LookTyping ==
    ASSUME Typing, NEW p \in Proc, NEW from \in LockFree, NEW to \in LockFree,
           Goto(p, from, to), UNCHANGED <<files, lock>>,
           job' \in [Proc -> Jobs], job'[p].env \in Envelope,
           to = "k_row" => job'[p].at \in Nat,
           \A q \in Proc \ {p} : job'[q] = job[q]
    PROVE Typing'
  BY DEF Typing, Goto, files, TypeOK, JobShape, HasEnv, HasAt, HasInstant, LockFree

LEMMA ScanTyping ==
    ASSUME Typing, NEW p \in Proc, Scan(p)
    PROVE Typing'
<1> USE DEF Typing
<1>1. ASSUME NEW e \in Envelope, ScanTombstone(p, e) PROVE Typing'
  <2>1. PICK seen \in SUBSET Places : job' = [job EXCEPT ![p].env = e, ![p].seen = seen]
    BY <1>1 DEF ScanTombstone, Places
  <2>2. job' \in [Proc -> Jobs] /\ job'[p].env = e
        /\ \A q \in Proc \ {p} : job'[q] = job[q]
    BY <2>1, JobEnvSeen DEF TypeOK
  <2> QED BY <1>1, <2>2, LookTyping DEF ScanTombstone, LockFree
<1>2. ASSUME NEW place \in {"inbox", "read"}, NEW from \in HasEnv \cap LockFree,
             NEW to \in {"c_read", "c_done"},
             Goto(p, from, to), UNCHANGED <<files, lock>>,
             \/ UNCHANGED job
             \/ job' = [job EXCEPT ![p].seen = @ \cup {place}]
      PROVE  Typing'
  <2>1. job[p] \in Jobs /\ job[p].env \in Envelope
    BY <1>2 DEF Goto, TypeOK, JobShape
  <2>2. job[p].seen \cup {place} \in SUBSET Places
    BY <2>1 DEF Jobs, Places
  <2>3. job' \in [Proc -> Jobs] /\ job'[p].env \in Envelope
        /\ \A q \in Proc \ {p} : job'[q] = job[q]
    BY <1>2, <2>1, <2>2, JobSeen DEF TypeOK
  <2> QED BY <1>2, <2>3, LookTyping DEF LockFree
<1>3. CASE ScanInbox(p)
  <2>1. \/ job' = [job EXCEPT ![p].seen = @]
        \/ job' = [job EXCEPT ![p].seen = @ \cup {"inbox"}]
    BY <1>3 DEF ScanInbox
  <2>2. UNCHANGED job \/ job' = [job EXCEPT ![p].seen = @ \cup {"inbox"}]
    BY <2>1 DEF TypeOK, Jobs
  <2> QED BY <1>2, <1>3, <2>2 DEF ScanInbox, HasEnv, LockFree
<1>4. CASE ScanRead(p)
  <2>1. \/ job' = [job EXCEPT ![p].seen = @]
        \/ job' = [job EXCEPT ![p].seen = @ \cup {"read"}]
    BY <1>4 DEF ScanRead
  <2>2. UNCHANGED job \/ job' = [job EXCEPT ![p].seen = @ \cup {"read"}]
    BY <2>1 DEF TypeOK, Jobs
  <2> QED BY <1>2, <1>4, <2>2 DEF ScanRead, HasEnv, LockFree
<1>5. CASE ScanReport(p)
  BY <1>5, ReturnTyping DEF ScanReport, files, TypeOK
<1> QED BY <1>1, <1>3, <1>4, <1>5 DEF Scan

LEMMA ReconcileTyping ==
    ASSUME Typing, NEW p \in Proc, Reconcile(p)
    PROVE Typing'
<1> USE DEF Typing
<1>1. ASSUME NEW e \in Envelope, ReconcileState(p, e) PROVE Typing'
  <2>1. PICK seen \in SUBSET Places : job' = [job EXCEPT ![p].env = e, ![p].seen = seen]
    BY <1>1 DEF ReconcileState, Places
  <2>2. job' \in [Proc -> Jobs] /\ job'[p].env = e
        /\ \A q \in Proc \ {p} : job'[q] = job[q]
    BY <2>1, JobEnvSeen DEF TypeOK
  <2> QED BY <1>1, <2>2, LookTyping DEF ReconcileState, LockFree
<1>2. CASE ReconcileRead(p)
  <2>1. CASE Return(p)
    BY <1>2, <2>1, ReturnTyping DEF ReconcileRead, files, TypeOK
  <2>2. ASSUME ~Return(p) PROVE Typing'
    <3>1. job[p].env \in Envelope
      BY <1>2 DEF ReconcileRead, JobShape, HasEnv
    <3>2. PICK t \in Nat : job' = [job EXCEPT ![p].at = t]
      BY <1>2, <2>2, <3>1 DEF ReconcileRead, TypeOK, Bundles
    <3>3. job' \in [Proc -> Jobs] /\ job'[p].env \in Envelope /\ job'[p].at \in Nat
          /\ \A q \in Proc \ {p} : job'[q] = job[q]
      BY <3>1, <3>2, JobAt DEF TypeOK
    <3>4. Goto(p, "k_read", "k_row") /\ UNCHANGED <<files, lock>>
      BY <1>2, <2>2 DEF ReconcileRead
    <3> QED BY <3>3, <3>4, LookTyping DEF LockFree
  <2> QED BY <2>1, <2>2
<1>3. CASE ReconcileRow(p)
  <2>1. index' \in Seq(Rows)
    BY <1>3, WithRowType DEF ReconcileRow, TypeOK, JobShape, HasEnv, HasAt
  <2> QED BY <1>3, <2>1, ReturnTyping DEF ReconcileRow, TypeOK
<1> QED BY <1>1, <1>2, <1>3 DEF Reconcile

LEMMA CrashTyping ==
    ASSUME Typing, NEW p \in Proc, Crash(p)
    PROVE Typing'
<1>1. inbox' \in [Envelope -> Bundles] /\ read' \in [Envelope -> Bundles]
  BY DEF Typing, Crash, TypeOK, Bundles
<1>2. tail' \in BOOLEAN /\ lock' \in Proc \cup {None} /\ crashes' \in Nat
  <2>1. tail' = tail \/ tail' = TRUE
    BY DEF Crash
  <2>2. lock' = lock \/ lock' = None
    BY DEF Crash
  <2>3. crashes' = crashes + 1
    BY DEF Crash
  <2>4. tail' \in BOOLEAN
    BY <2>1, Zenon DEF Typing, TypeOK
  <2>5. crashes' \in Nat
    BY <2>3 DEF Typing, TypeOK
  <2> QED BY <2>2, <2>4, <2>5 DEF Typing, TypeOK
<1>3. job' \in [Proc -> Jobs]
  BY NoJobType DEF Typing, Crash, TypeOK
<1>4. pc' \in [Proc -> Holding \cup Waiting \cup LockFree]
  BY DEF Typing, Crash, TypeOK, LockFree
<1>5. JobShape'
  BY DEF Typing, Crash, TypeOK, JobShape, HasEnv, HasAt, HasInstant
<1> QED BY <1>1, <1>2, <1>3, <1>4, <1>5 DEF Typing, Crash, TypeOK

LEMMA NextTyping == Typing /\ [Next]_vars => Typing'
<1> SUFFICES ASSUME Typing, [Next]_vars PROVE Typing'
  OBVIOUS
<1>1. CASE UNCHANGED vars
  BY <1>1 DEF vars, Typing, TypeOK, JobShape
<1>2. ASSUME NEW p \in Proc, LockTimeout(p) PROVE Typing'
  BY <1>2, ReturnTyping DEF LockTimeout, files, Typing, TypeOK
<1>3. ASSUME NEW p \in Proc, Step(p) PROVE Typing'
  BY <1>3, DeliverTyping, OpenTyping, RecoverTyping, SweepTyping, ScanTyping,
     ReconcileTyping, PassTyping DEF Step
<1> QED BY <1>1, <1>2, <1>3, CrashTyping DEF Next

\* Every file, row, receipt and local variable keeps its shape in every
\* interleaving of deliver, open, recover, sweep, scan and reconcile.
THEOREM TypeCorrect == Spec => []TypeOK
<1>1. Typing => TypeOK
  BY DEF Typing
<1> QED BY <1>1, InitTyping, NextTyping, PTL DEF Spec

-----------------------------------------------------------------------------
(* The inductive invariant.  ReceiptsAgree, IndexTruth and TombstoneTruth do
   not carry themselves: a step between two writes relies on what its process
   established earlier, so the invariant also says what is known at each label
   and that only the holder of the lifecycle lock is at a label that relies on
   the bundles staying as they are. *)

LockInv == \A p \in Proc : pc[p] \in Holding <=> lock = p

\* What process p knows about e while it has it in its hand.
Knows(p, e) == job[p].env = e =>
    /\ pc[p] \in HasAt => Received(e) = job[p].at
    /\ pc[p] \in {"o_unlink", "o_note", "r_unpair"} => tomb[e] = None /\ read[e] \in Nat
    /\ pc[p] \in {"s_body", "s_left", "x_inbox", "x_read"} => tomb[e] # None

JobOne(p) == \A e \in Envelope : Knows(p, e)

\* What ReceiptsAgree says of one envelope.
Agrees(e) ==
    /\ Received(e) # Torn
    /\ inbox[e] \in Nat => inbox[e] = Received(e)
    /\ read[e] \in Nat => read[e] = Received(e)

JobInv == \A p \in Proc : JobOne(p)

IInv == Typing /\ LockInv /\ ReceiptsAgree /\ IndexTruth /\ TombstoneTruth /\ JobInv

(* What one step of process p does to the others, to the lock, to the bundles
   and to the index. *)

Frame(p) == \A q \in Proc \ {p} : pc'[q] = pc[q] /\ job'[q] = job[q]

LockStep(p) ==
    /\ pc'[p] \in Holding <=> lock' = p
    /\ lock' = lock \/ (lock = None /\ lock' = p) \/ (lock = p /\ lock' = None)

Quiet == UNCHANGED <<inbox, read, tomb>>

Publishes(e) ==
    /\ tomb[e] = None /\ ~HasBody(e)
    /\ \E t \in Nat : inbox' = [inbox EXCEPT ![e] = t]
    /\ UNCHANGED <<read, tomb>>

Moves(e) ==
    /\ tomb[e] = None /\ read[e] = None /\ inbox[e] \in Nat
    /\ read' = [read EXCEPT ![e] = inbox[e]]
    /\ inbox' \in {inbox, [inbox EXCEPT ![e] = None]}
    /\ UNCHANGED tomb

DropsInbox(e) ==
    /\ tomb[e] # None \/ read[e] \in Nat
    /\ \E v \in {None, Torn} : inbox' = [inbox EXCEPT ![e] = v]
    /\ UNCHANGED <<read, tomb>>

DropsRead(e) ==
    /\ tomb[e] # None
    /\ \E v \in {None, Torn} : read' = [read EXCEPT ![e] = v]
    /\ UNCHANGED <<inbox, tomb>>

Buries(p, e) ==
    /\ tomb[e] = None /\ Bundle(e) \in Nat
    /\ RowIs(e, Bundle(e))
    /\ \E t \in Nat :
          /\ t >= Bundle(e) + EffectiveTTL(p, e)
          /\ tomb' = [tomb EXCEPT ![e] = [received |-> Bundle(e), expired |-> t,
                                          ttl |-> EffectiveTTL(p, e)]]
    /\ UNCHANGED <<inbox, read>>

Writes(p, e) ==
    Publishes(e) \/ Moves(e) \/ DropsInbox(e) \/ DropsRead(e) \/ Buries(p, e)

\* The bundles and the tombstone of e stay as they are.
Same(e) == inbox'[e] = inbox[e] /\ read'[e] = read[e] /\ tomb'[e] = tomb[e]

\* A write to e that is one of the five if the writer knows what it should.
WritesIfKnown(p, e) ==
    /\ \A f \in Envelope \ {e} : Same(f)
    /\ Knows(p, e) => Writes(p, e)

FilesStep(p) == Quiet \/ (lock \in {None, p} /\ \E e \in Envelope : Writes(p, e))

\* An append of a row, with the instant of receipt if the writer knows that.
RowIfKnown(p) == index' = index \/ \E e \in Envelope, t \in Nat :
    /\ Knows(p, e) => Received(e) = t
    /\ RowAccepted(e, t) /\ index' = WithRow(e, t) /\ Quiet

RowStep == index' = index \/ \E e \in Envelope, t \in Nat :
    Received(e) = t /\ RowAccepted(e, t) /\ index' = WithRow(e, t) /\ Quiet

Moved(p) == Step(p) \/ LockTimeout(p) \/ Crash(p)

LEMMA StepFrame ==
    ASSUME Typing, NEW p \in Proc, Moved(p)
    PROVE Frame(p)
<1> USE DEF Frame, Goto, Return, Typing, TypeOK
<1>1. CASE Deliver(p)
  BY <1>1 DEF Deliver, DeliverGate, DeliverExpired, DeliverReplay, DeliverPublish,
     DeliverNote, DeliverRow
<1>2. CASE Open(p)
  BY <1>2 DEF Open, OpenBegin, OpenRefuse, OpenMove, OpenUnlink, OpenNote
<1>3. CASE Recover(p)
  BY <1>3 DEF Recover, RecoverBegin, RecoverList, RecoverBundle, RecoverUnpair,
     RecoverRow, Done
<1>4. CASE Sweep(p)
  BY <1>4 DEF Sweep, SweepBegin, SweepList, SweepRetain, SweepTombstone, SweepBody,
     SweepLeftover, Done
<1>5. CASE Scan(p)
  BY <1>5 DEF Scan, ScanTombstone, ScanInbox, ScanRead, ScanReport
<1>6. CASE Reconcile(p)
  BY <1>6 DEF Reconcile, ReconcileState, ReconcileRead, ReconcileRow
<1>7. CASE PassDone(p) \/ PassRefuse(p) \/ LockTimeout(p) \/ Crash(p)
  BY <1>7 DEF PassDone, PassRefuse, LockTimeout, Crash
<1>8. CASE FinishExpiry(p) \/ FinishInbox(p) \/ FinishRead(p)
  BY <1>8 DEF FinishExpiry, FinishInbox, FinishRead, Done
<1> QED BY <1>1, <1>2, <1>3, <1>4, <1>5, <1>6, <1>7, <1>8 DEF Moved, Step

LEMMA StepLock ==
    ASSUME Typing, LockInv, NEW p \in Proc, Moved(p)
    PROVE LockStep(p)
<1> USE NoneAssumption DEF LockStep, LockInv, Goto, Return, Acquire, Typing, TypeOK, Holding, LockFree,
            Waiting
<1>1. CASE Deliver(p)
  BY <1>1 DEF Deliver, DeliverGate, DeliverExpired, DeliverReplay, DeliverPublish,
     DeliverNote, DeliverRow
<1>2. CASE Open(p)
  BY <1>2 DEF Open, OpenBegin, OpenRefuse, OpenMove, OpenUnlink, OpenNote
<1>3. CASE Recover(p)
  BY <1>3 DEF Recover, RecoverBegin, RecoverList, RecoverBundle, RecoverUnpair,
     RecoverRow
<1>4. CASE Sweep(p)
  BY <1>4 DEF Sweep, SweepBegin, SweepList, SweepRetain, SweepTombstone, SweepBody,
     SweepLeftover
<1>5. CASE Scan(p)
  BY <1>5 DEF Scan, ScanTombstone, ScanInbox, ScanRead, ScanReport
<1>6. CASE Reconcile(p)
  BY <1>6 DEF Reconcile, ReconcileState, ReconcileRead, ReconcileRow
<1>7. CASE PassDone(p) \/ PassRefuse(p) \/ LockTimeout(p) \/ Crash(p)
  BY <1>7 DEF PassDone, PassRefuse, LockTimeout, Crash
<1>8. CASE FinishExpiry(p) \/ FinishInbox(p) \/ FinishRead(p)
  BY <1>8 DEF FinishExpiry, FinishInbox, FinishRead, Pick
<1> QED BY <1>1, <1>2, <1>3, <1>4, <1>5, <1>6, <1>7, <1>8 DEF Moved, Step

\* Every write to the bundles and tombstones is to one envelope, one of five if
\* the writer's knowledge of that envelope still holds, and a writer either holds
\* the lifecycle lock or takes it with that step.
LEMMA StepWrites ==
    ASSUME Typing, LockInv, NEW p \in Proc, Moved(p)
    PROVE Quiet \/ (lock \in {None, p} /\ \E e \in Envelope : WritesIfKnown(p, e))
<1> USE DEF Typing, WritesIfKnown, Same
<1>0. pc[p] \in Holding => lock = p
  BY DEF LockInv
<1>1. CASE Deliver(p)
  <2>1. CASE DeliverPublish(p)
    <3>1. job[p].env \in Envelope /\ lock = None
      BY <2>1 DEF JobShape, DeliverPublish, Goto, Acquire, HasEnv
    <3>2. Publishes(job[p].env)
      BY <2>1, <3>1, TimeAssumption DEF Publishes, DeliverPublish
    <3>3. \A f \in Envelope \ {job[p].env} : Same(f)
      BY <2>1 DEF DeliverPublish, TypeOK
    <3> QED BY <3>1, <3>2, <3>3 DEF Writes
  <2> QED BY <1>1, <2>1 DEF Quiet, Deliver, DeliverGate, DeliverExpired, DeliverReplay,
             DeliverNote, DeliverRow, files
<1>2. CASE Open(p)
  <2>1. CASE OpenMove(p)
    <3>1. job[p].env \in Envelope /\ lock = None
      BY <2>1 DEF JobShape, OpenMove, Acquire, HasEnv
    <3>2. inbox[job[p].env] \in Nat
      BY <2>1, <3>1 DEF TypeOK, OpenMove, State, Bundles
    <3>3. Moves(job[p].env)
      BY <2>1, <3>1, <3>2 DEF Moves, OpenMove, State
    <3>4. \A f \in Envelope \ {job[p].env} : Same(f)
      BY <2>1 DEF OpenMove, TypeOK
    <3> QED BY <3>1, <3>3, <3>4 DEF Writes
  <2>2. CASE OpenUnlink(p)
    <3>1. pc[p] = "o_unlink" /\ job[p].env \in Envelope
      BY <2>2 DEF JobShape, OpenUnlink, Goto, HasEnv
    <3>2. lock = p
      BY <1>0, <3>1 DEF Holding
    <3>3. Knows(p, job[p].env) => DropsInbox(job[p].env)
      BY <2>2, <3>1 DEF Knows, OpenUnlink, DropsInbox
    <3>4. \A f \in Envelope \ {job[p].env} : Same(f)
      BY <2>2 DEF OpenUnlink, TypeOK
    <3> QED BY <3>1, <3>2, <3>3, <3>4 DEF Writes
  <2> QED BY <1>2, <2>1, <2>2 DEF Quiet, Open, OpenBegin, OpenRefuse, OpenNote, files
<1>3. CASE Recover(p)
  <2>1. CASE RecoverUnpair(p)
    <3>1. pc[p] = "r_unpair" /\ job[p].env \in Envelope
      BY <2>1 DEF JobShape, RecoverUnpair, Goto, HasEnv
    <3>2. lock = p
      BY <1>0, <3>1 DEF Holding
    <3>3. Knows(p, job[p].env) => DropsInbox(job[p].env)
      BY <2>1, <3>1 DEF Knows, RecoverUnpair, DropsInbox
    <3>4. \A f \in Envelope \ {job[p].env} : Same(f)
      BY <2>1 DEF RecoverUnpair, TypeOK
    <3> QED BY <3>1, <3>2, <3>3, <3>4 DEF Writes
  <2> QED BY <1>3, <2>1 DEF Quiet, Recover, RecoverBegin, RecoverList, RecoverBundle,
             RecoverRow, files
<1>4. CASE Sweep(p)
  <2>1. CASE SweepTombstone(p)
    <3>1. PICK e \in Envelope :
            /\ tomb[e] = None /\ Verifiable(e) /\ RowIs(e, Bundle(e))
            /\ job[p].instant >= Bundle(e) + EffectiveTTL(p, e)
            /\ tomb' = [tomb EXCEPT ![e] = [received |-> Bundle(e),
                                            expired |-> job[p].instant,
                                            ttl |-> EffectiveTTL(p, e)]]
      BY <2>1 DEF SweepTombstone
    <3>2. lock = p /\ job[p].instant \in Nat
      BY <1>0, <2>1 DEF SweepTombstone, Goto, Holding, JobShape, HasInstant
    <3>3. Bundle(e) \in Nat
      BY <3>1, BundleType DEF Verifiable
    <3>4. Buries(p, e)
      BY <2>1, <3>1, <3>2, <3>3 DEF Buries, SweepTombstone
    <3>5. \A f \in Envelope \ {e} : Same(f)
      BY <2>1, <3>1 DEF SweepTombstone, TypeOK
    <3> QED BY <3>2, <3>4, <3>5 DEF Writes
  <2>2. CASE SweepBody(p) \/ SweepLeftover(p)
    <3>1. pc[p] \in {"s_body", "s_left"} /\ job[p].env \in Envelope
      BY <2>2 DEF JobShape, SweepBody, SweepLeftover, Goto, HasEnv
    <3>2. lock = p /\ (Knows(p, job[p].env) => tomb[job[p].env] # None)
      BY <1>0, <3>1 DEF Holding, Knows
    <3>3. Knows(p, job[p].env) => DropsInbox(job[p].env) \/ DropsRead(job[p].env)
      BY <2>2, <3>2 DEF SweepBody, SweepLeftover, DropsInbox, DropsRead
    <3>4. \A f \in Envelope \ {job[p].env} : Same(f)
      BY <2>2 DEF SweepBody, SweepLeftover, TypeOK
    <3> QED BY <3>1, <3>2, <3>3, <3>4 DEF Writes
  <2> QED BY <1>4, <2>1, <2>2 DEF Quiet, Sweep, SweepBegin, SweepList, SweepRetain, files
<1>5. CASE FinishInbox(p) \/ FinishRead(p)
  <2>1. pc[p] \in {"x_inbox", "x_read"} /\ job[p].env \in Envelope
    BY <1>5 DEF JobShape, FinishInbox, FinishRead, Goto, HasEnv
  <2>2. lock = p /\ (Knows(p, job[p].env) => tomb[job[p].env] # None)
    BY <1>0, <2>1 DEF Holding, Knows
  <2>3. Knows(p, job[p].env) => DropsInbox(job[p].env) \/ DropsRead(job[p].env)
    BY <1>5, <2>2 DEF FinishInbox, FinishRead, DropsInbox, DropsRead
  <2>4. \A f \in Envelope \ {job[p].env} : Same(f)
    BY <1>5 DEF FinishInbox, FinishRead, TypeOK
  <2> QED BY <2>1, <2>2, <2>3, <2>4 DEF Writes
<1>6. CASE Crash(p)
  <2>1. CASE DeletesInbox(p) /\ inbox' = [inbox EXCEPT ![job[p].env] = Torn]
             /\ UNCHANGED <<read, tail>>
    <3>1. pc[p] \in {"o_unlink", "r_unpair", "s_left", "x_inbox", "s_body"}
      BY <2>1 DEF DeletesInbox
    <3>2. lock = p /\ job[p].env \in Envelope
      BY <1>0, <3>1 DEF Holding, JobShape, HasEnv
    <3>3. Knows(p, job[p].env) => tomb[job[p].env] # None \/ read[job[p].env] \in Nat
      BY <3>1, <3>2 DEF Knows
    <3>4. Knows(p, job[p].env) => DropsInbox(job[p].env)
      BY <1>6, <2>1, <3>3 DEF DropsInbox, Crash
    <3>5. \A f \in Envelope \ {job[p].env} : Same(f)
      BY <1>6, <2>1 DEF Crash, TypeOK
    <3> QED BY <3>2, <3>4, <3>5 DEF Writes
  <2>2. CASE DeletesRead(p) /\ read' = [read EXCEPT ![job[p].env] = Torn]
             /\ UNCHANGED <<inbox, tail>>
    <3>1. pc[p] \in {"x_read", "s_body"}
      BY <2>2 DEF DeletesRead
    <3>2. lock = p /\ job[p].env \in Envelope
      BY <1>0, <3>1 DEF Holding, JobShape, HasEnv
    <3>3. Knows(p, job[p].env) => DropsRead(job[p].env)
      BY <1>6, <2>2, <3>1, <3>2 DEF DropsRead, Crash, Knows
    <3>4. \A f \in Envelope \ {job[p].env} : Same(f)
      BY <1>6, <2>2 DEF Crash, TypeOK
    <3> QED BY <3>2, <3>3, <3>4 DEF Writes
  <2> QED BY <1>6, <2>1, <2>2 DEF Crash, Quiet
<1>7. CASE Scan(p) \/ Reconcile(p) \/ PassDone(p) \/ PassRefuse(p) \/ LockTimeout(p)
           \/ FinishExpiry(p)
  BY <1>7 DEF Quiet, files, Scan, ScanTombstone, ScanInbox, ScanRead, ScanReport,
     Reconcile, ReconcileState, ReconcileRead, ReconcileRow, PassDone, PassRefuse,
     LockTimeout, FinishExpiry
<1> QED BY <1>1, <1>2, <1>3, <1>4, <1>5, <1>6, <1>7 DEF Moved, Step

LEMMA StepFiles ==
    ASSUME IInv, NEW p \in Proc, Moved(p)
    PROVE FilesStep(p)
<1>1. Quiet \/ (lock \in {None, p} /\ \E e \in Envelope : WritesIfKnown(p, e))
  BY StepWrites DEF IInv
<1>2. \A e \in Envelope : Knows(p, e)
  BY DEF IInv, JobInv, JobOne
<1> QED BY <1>1, <1>2 DEF FilesStep, WritesIfKnown

\* An index append is always of the envelope in hand, with its RECEIVED_AT.
LEMMA StepRowIfKnown ==
    ASSUME Typing, NEW p \in Proc, Moved(p)
    PROVE RowIfKnown(p)
<1>1. CASE DeliverRow(p) \/ RecoverRow(p) \/ ReconcileRow(p)
  <2> DEFINE e == job[p].env  t == job[p].at
  <2>1. e \in Envelope /\ t \in Nat /\ (Knows(p, e) => Received(e) = t)
    BY <1>1 DEF DeliverRow, RecoverRow, ReconcileRow, Typing, JobShape, HasEnv,
       HasAt, Knows
  <2>2. index' = index \/ (RowAccepted(e, t) /\ index' = WithRow(e, t))
    BY <1>1 DEF DeliverRow, RecoverRow, ReconcileRow
  <2>3. Quiet
    BY <1>1 DEF DeliverRow, RecoverRow, ReconcileRow, Quiet
  <2> QED BY <2>1, <2>2, <2>3 DEF RowIfKnown
<1>2. CASE ~(DeliverRow(p) \/ RecoverRow(p) \/ ReconcileRow(p))
  <2>1. CASE Deliver(p) \/ Open(p)
    BY <1>2, <2>1 DEF RowIfKnown, files, Deliver, DeliverGate, DeliverExpired, DeliverReplay,
       DeliverPublish, DeliverNote, Open, OpenBegin, OpenRefuse, OpenMove, OpenUnlink,
       OpenNote
  <2>2. CASE Recover(p) \/ Sweep(p)
    BY <1>2, <2>2 DEF RowIfKnown, files, Recover, RecoverBegin, RecoverList, RecoverBundle,
       RecoverUnpair, Sweep, SweepBegin, SweepList, SweepRetain, SweepTombstone,
       SweepBody, SweepLeftover
  <2>3. CASE Scan(p) \/ Reconcile(p) \/ PassDone(p) \/ PassRefuse(p) \/ LockTimeout(p)
             \/ FinishExpiry(p) \/ FinishInbox(p) \/ FinishRead(p) \/ Crash(p)
    BY <1>2, <2>3 DEF RowIfKnown, files, Scan, ScanTombstone, ScanInbox, ScanRead,
       ScanReport, Reconcile, ReconcileState, ReconcileRead, PassDone, PassRefuse,
       LockTimeout, FinishExpiry, FinishInbox, FinishRead, Crash
  <2> QED BY <2>1, <2>2, <2>3 DEF Moved, Step
<1> QED BY <1>1, <1>2

LEMMA StepRow ==
    ASSUME IInv, NEW p \in Proc, Moved(p)
    PROVE RowStep
<1>1. RowIfKnown(p)
  BY StepRowIfKnown DEF IInv
<1>2. \A e \in Envelope : Knows(p, e)
  BY DEF IInv, JobInv, JobOne
<1> QED BY <1>1, <1>2 DEF RowIfKnown, RowStep

\* What is once received keeps its instant, and damage never becomes the only
\* evidence.
LEMMA WriteKeeps ==
    ASSUME Typing, NEW p \in Proc, NEW e \in Envelope, Agrees(e), Writes(p, e)
    PROVE /\ Agrees(e)'
          /\ Received(e) \in Nat => Received(e)' = Received(e)
          /\ tomb[e] # None => tomb'[e] = tomb[e]
<1> USE NoneAssumption, TornAssumption
       DEF Typing, TypeOK, Agrees, Received, Bundle, Bundles
<1>1. CASE Publishes(e)
  BY <1>1 DEF Publishes, HasBody
<1>2. CASE Moves(e)
  BY <1>2 DEF Moves
<1>3. CASE DropsInbox(e)
  BY <1>3 DEF DropsInbox
<1>4. CASE DropsRead(e)
  BY <1>4 DEF DropsRead
<1>5. CASE Buries(p, e)
  <2>1. PICK r \in Tombstones : r.received = Bundle(e) /\ tomb' = [tomb EXCEPT ![e] = r]
    BY <1>5, TTLType DEF Buries, Tombstones
  <2>2. r # None
    BY DEF Tombstones
  <2> QED BY <1>5, <2>1, <2>2 DEF Buries
<1> QED BY <1>1, <1>2, <1>3, <1>4, <1>5 DEF Writes

\* A write is to the files of one envelope.
LEMMA WriteIsLocal ==
    ASSUME Typing, NEW p \in Proc, NEW e \in Envelope, Writes(p, e)
    PROVE \A f \in Envelope \ {e} : Same(f)
  BY DEF Typing, TypeOK, Same, Writes, Publishes, Moves, DropsInbox, DropsRead, Buries

LEMMA SameKeeps ==
    ASSUME NEW e \in Envelope, Same(e)
    PROVE State(e)' = State(e) /\ Received(e)' = Received(e) /\ (Agrees(e) => Agrees(e)')
  BY DEF Same, State, Received, Bundle, Agrees

LEMMA EvidenceKept ==
    ASSUME IInv, NEW p \in Proc, FilesStep(p)
    PROVE /\ ReceiptsAgree'
          /\ \A f \in Envelope : Received(f) \in Nat => Received(f)' = Received(f)
          /\ \A f \in Envelope : tomb[f] # None => tomb'[f] = tomb[f]
<1>1. \A f \in Envelope : Agrees(f)
  BY DEF IInv, ReceiptsAgree, Agrees
<1>2. ASSUME NEW f \in Envelope
      PROVE  /\ Agrees(f)'
             /\ Received(f) \in Nat => Received(f)' = Received(f)
             /\ tomb[f] # None => tomb'[f] = tomb[f]
  <2>1. CASE Same(f)
    BY <1>1, <2>1, SameKeeps DEF Same
  <2>2. CASE Writes(p, f)
    BY <1>1, <2>2, WriteKeeps DEF IInv
  <2>3. Quiet => Same(f)
    BY DEF Quiet, Same
  <2>4. \A e \in Envelope : Writes(p, e) /\ e # f => Same(f)
    BY WriteIsLocal DEF IInv
  <2> QED BY <2>1, <2>2, <2>3, <2>4 DEF FilesStep
<1>3. ReceiptsAgree'
  BY <1>2 DEF ReceiptsAgree, Agrees
<1> QED BY <1>2, <1>3

\* The index stays a function from envelopes to their original instants.
LEMMA IndexKept ==
    ASSUME IInv, RowStep,
           \A f \in Envelope : Received(f) \in Nat => Received(f)' = Received(f)
    PROVE /\ IndexTruth'
          /\ \A f \in Envelope, t \in Nat : RowIs(f, t) => RowIs(f, t)'
<1>0. index \in Seq(Rows) /\ \A i \in DOMAIN index : index[i] \in Rows
  BY DEF IInv, Typing, TypeOK
<1>1. \A i \in DOMAIN index : index[i].id \in Envelope /\ index[i].at \in Nat
  BY <1>0 DEF Rows
<1>2. \A f \in Envelope, i \in DOMAIN index : index[i].id = f => Received(f)' = index[i].at
  BY <1>1 DEF IInv, IndexTruth
<1>3. CASE index' = index
  BY <1>2, <1>3 DEF IInv, IndexTruth, RowIs
<1>4. ASSUME NEW e \in Envelope, NEW t \in Nat, Received(e) = t, RowAccepted(e, t),
             index' = WithRow(e, t), Quiet
      PROVE  /\ IndexTruth'
             /\ \A f \in Envelope, u \in Nat : RowIs(f, u) => RowIs(f, u)'
  <2>1. CASE HasRow(e)
    BY <1>3, <1>4, <2>1 DEF WithRow
  <2>2. CASE ~HasRow(e)
    <3> DEFINE row == [id |-> e, at |-> t]
    <3>1. index' = Append(index, row) /\ row \in Rows
      BY <1>4, <2>2 DEF WithRow, Rows
    <3>2. Received(e)' = t
      BY <1>4
    <3>3. /\ DOMAIN index' = 1 .. Len(index) + 1 /\ Len(index) \in Nat
          /\ DOMAIN index = 1 .. Len(index)
          /\ index'[Len(index) + 1] = row
          /\ \A i \in DOMAIN index : index'[i] = index[i]
      BY <1>0, <3>1
    <3>4. \A i \in DOMAIN index : index[i].id # e
      BY <2>2 DEF HasRow
    <3>5. \A i, j \in DOMAIN index' : index'[i].id = index'[j].id => i = j
      BY <3>3, <3>4 DEF IInv, IndexTruth
    <3>6. \A f \in Envelope, i \in DOMAIN index' :
             index'[i].id = f => index'[i].at = Received(f)'
      BY <1>2, <3>2, <3>3
    <3>7. \A f \in Envelope, u \in Nat : RowIs(f, u) => RowIs(f, u)'
      BY <3>3 DEF RowIs
    <3> QED BY <3>5, <3>6, <3>7 DEF IndexTruth
  <2> QED BY <2>1, <2>2
<1> QED BY <1>3, <1>4 DEF RowStep

LEMMA TombstoneKept ==
    ASSUME IInv, NEW p \in Proc, FilesStep(p),
           \A f \in Envelope, t \in Nat : RowIs(f, t) => RowIs(f, t)'
    PROVE TombstoneTruth'
<1> USE DEF IInv, Typing, TypeOK, TombstoneTruth, Tombstones
<1>1. \A e \in Envelope : tomb[e] # None => tomb[e].received \in Nat
  OBVIOUS
<1>2. CASE tomb' = tomb
  BY <1>1, <1>2
<1>3. ASSUME NEW e \in Envelope, Buries(p, e) PROVE TombstoneTruth'
  <2>1. PICK t \in Nat :
          /\ t >= Bundle(e) + EffectiveTTL(p, e)
          /\ tomb' = [tomb EXCEPT ![e] = [received |-> Bundle(e), expired |-> t,
                                          ttl |-> EffectiveTTL(p, e)]]
    BY <1>3 DEF Buries
  <2>2. tomb'[e].received = Bundle(e) /\ tomb'[e].expired = t
    BY <2>1
  <2>3. PICK u \in Nat : u = tomb'[e].received /\ RowIs(e, u)'
    BY <1>3, <2>2 DEF Buries
  <2>4. tomb'[e].expired >= tomb'[e].received + EffectiveTTL(p, e)
    BY <2>1, <2>2
  <2>5. \A f \in Envelope \ {e} : tomb'[f] = tomb[f]
    BY <2>1
  <2>6. ASSUME NEW f \in Envelope, tomb'[f] # None
        PROVE  /\ RowIs(f, tomb[f].received)'
               /\ \E q \in Proc : tomb'[f].expired >= tomb'[f].received + EffectiveTTL(q, f)
    <3>1. CASE f = e
      BY <2>3, <2>4, <3>1 DEF RowIs
    <3>2. CASE f # e
      <4>1. tomb'[f] = tomb[f] /\ tomb[f].received \in Nat
        BY <1>1, <2>5, <2>6, <3>2
      <4> QED BY <4>1, <2>6 DEF RowIs
    <3> QED BY <3>1, <3>2
  <2> QED BY <2>6 DEF EffectiveTTL
<1> QED BY <1>2, <1>3 DEF FilesStep, Writes, Quiet, Publishes, Moves, DropsInbox, DropsRead

\* What others may do to an envelope while q knows something about it.
Spared(q, e) ==
    /\ Received(e) \in Nat => Received(e)' = Received(e)
    /\ tomb[e] # None => tomb'[e] = tomb[e]
    /\ lock = q => Same(e)

\* Nobody else's step undoes what q knows: it was told under the lock, or it is
\* the instant of receipt, which stays.
LEMMA OthersKnow ==
    ASSUME Typing, LockInv, NEW q \in Proc, NEW e \in Envelope,
           pc'[q] = pc[q], job'[q] = job[q], Spared(q, e), Knows(q, e)
    PROVE Knows(q, e)'
<1> SUFFICES ASSUME job[q].env = e PROVE Knows(q, e)'
  BY DEF Knows
<1>1. pc[q] \in HasAt => Received(e)' = job'[q].at
  BY DEF Knows, Spared, Typing, JobShape
<1>2. pc[q] \in {"s_body", "s_left", "x_inbox", "x_read"} => tomb'[e] # None
  BY DEF Knows, Spared
<1>3. pc[q] \in {"o_unlink", "o_note", "r_unpair"} => tomb'[e] = None /\ read'[e] \in Nat
  BY DEF Knows, Spared, Same, LockInv, Holding
<1> QED BY <1>1, <1>2, <1>3 DEF Knows

\* What p knows at the label it moves to.
LEMMA OwnKnow ==
    ASSUME Typing, NEW p \in Proc, Moved(p), Typing',
           NEW e \in Envelope, Agrees(e), Knows(p, e),
           Received(e) \in Nat => Received(e)' = Received(e),
           tomb[e] # None => tomb'[e] = tomb[e]
    PROVE Knows(p, e)'
<1> SUFFICES ASSUME job'[p].env = e
             PROVE  /\ pc'[p] \in HasAt => Received(e)' = job'[p].at
                    /\ pc'[p] \in {"o_unlink", "o_note", "r_unpair"} =>
                          tomb'[e] = None /\ read'[e] \in Nat
                    /\ pc'[p] \in {"s_body", "s_left", "x_inbox", "x_read"} => tomb'[e] # None
  BY DEF Knows
<1> DEFINE Goal == /\ pc'[p] \in HasAt => Received(e)' = job'[p].at
                   /\ pc'[p] \in {"o_unlink", "o_note", "r_unpair"} =>
                         tomb'[e] = None /\ read'[e] \in Nat
                   /\ pc'[p] \in {"s_body", "s_left", "x_inbox", "x_read"} => tomb'[e] # None
<1>0. /\ pc \in [Proc -> Holding \cup Waiting \cup LockFree] /\ job \in [Proc -> Jobs]
      /\ inbox \in [Envelope -> Bundles] /\ read \in [Envelope -> Bundles]
      /\ tomb \in [Envelope -> Tombstones \cup {None}]
  BY DEF Typing, TypeOK
<1>a. job[p].env = e /\ pc[p] \in HasAt => Received(e) = job[p].at /\ job[p].at \in Nat
  BY DEF Typing, JobShape, Knows
<1>b. /\ job[p].env = e /\ pc[p] \in {"o_unlink", "o_note", "r_unpair"} =>
            tomb[e] = None /\ read[e] \in Nat
      /\ job[p].env = e /\ pc[p] \in {"s_body", "s_left", "x_inbox", "x_read"} => tomb[e] # None
  BY DEF Knows
<1>c. tomb[e] = None => Received(e) = Bundle(e)
  BY DEF Received
<1>1. CASE pc'[p] \in Waiting \cup {"idle", "c_inbox", "c_read", "c_done", "k_read", "r_pick", "s_pick"}
  BY <1>1 DEF HasAt, Waiting
<1>2. CASE DeliverReplay(p) /\ pc'[p] = "d_row"
  <2>1. job[p].env = e /\ tomb[e] = None /\ job'[p].at = Bundle(e) /\ UNCHANGED files
    BY <1>0, <1>2 DEF DeliverReplay, Goto, Return, Jobs
  <2> QED BY <1>2, <1>c, <2>1 DEF Received, Bundle, files
<1>3. CASE DeliverPublish(p)
  <2>1. PICK t \in Time : inbox' = [inbox EXCEPT ![job[p].env] = t]
                          /\ job' = [job EXCEPT ![p].at = t]
    BY <1>3 DEF DeliverPublish
  <2>2. job[p].env = e /\ job'[p].at = t /\ pc'[p] = "d_note"
    BY <1>0, <1>3, <2>1 DEF DeliverPublish, Goto, Jobs
  <2> QED BY <1>0, <1>3, <2>1, <2>2 DEF DeliverPublish, HasBody, Received, Bundle
<1>4. CASE DeliverNote(p) \/ RecoverUnpair(p)
  <2>1. job' = job /\ pc[p] \in {"d_note", "r_unpair"} /\ pc'[p] \in {"d_row", "r_row"}
    BY <1>0, <1>4 DEF DeliverNote, RecoverUnpair, Goto
  <2> QED BY <1>a, <2>1 DEF HasAt
<1>5. CASE OpenMove(p)
  <2>1. job' = job /\ pc'[p] \in {"o_note", "o_unlink"} /\ UNCHANGED tomb
        /\ State(e) = "unread" /\ inbox[e] # Torn /\ read'[e] = inbox[e]
    BY <1>0, <1>5 DEF OpenMove, Goto
  <2> QED BY <1>0, <2>1 DEF State, Bundles, HasAt
<1>6. CASE OpenUnlink(p)
  BY <1>0, <1>6, <1>b DEF OpenUnlink, Goto, HasAt
<1>7. CASE FinishExpiry(p)
  <2>1. PICK f \in Envelope : job' = [job EXCEPT ![p].env = f] /\ tomb[f] # None
    BY <1>7 DEF FinishExpiry
  <2>2. f = e
    BY <1>0, <2>1 DEF Jobs
  <2>3. pc'[p] \in {"x_inbox", "x_read"} /\ tomb' = tomb
    BY <1>0, <1>7 DEF FinishExpiry, Goto, files
  <2> QED BY <2>1, <2>2, <2>3 DEF HasAt
<1>12. CASE SweepTombstone(p)
  <2>1. PICK f \in Envelope :
          /\ Verifiable(f)
          /\ tomb' = [tomb EXCEPT ![f] = [received |-> Bundle(f), expired |-> job[p].instant,
                                          ttl |-> EffectiveTTL(p, f)]]
          /\ job' = [job EXCEPT ![p].env = f]
    BY <1>12 DEF SweepTombstone
  <2>2. f = e
    BY <1>0, <2>1 DEF Jobs
  <2>3. pc[p] = "s_pick" /\ pc'[p] = "s_body"
    BY <1>0, <1>12 DEF SweepTombstone, Goto
  <2>4. Bundle(e) \in Nat /\ job[p].instant \in Nat
    BY <2>1, <2>2, <2>3, BundleType DEF Typing, Verifiable, JobShape, HasInstant
  <2>5. tomb'[e] \in Tombstones
    BY <1>0, <2>1, <2>2, <2>4, TTLType DEF Tombstones
  <2> QED BY <2>3, <2>5, NoneAssumption DEF HasAt
<1>8. CASE FinishInbox(p) /\ pc'[p] = "x_read"
  <2>1. job' = job /\ pc[p] = "x_inbox" /\ tomb' = tomb
    BY <1>0, <1>8 DEF FinishInbox, Goto, Pick
  <2> QED BY <1>8, <1>b, <2>1 DEF HasAt
<1>9. CASE SweepBody(p) /\ pc'[p] = "s_left"
  <2>1. job' = job /\ pc[p] = "s_body" /\ tomb' = tomb
    BY <1>0, <1>9 DEF SweepBody, Goto
  <2> QED BY <1>9, <1>b, <2>1 DEF HasAt
<1>10. CASE RecoverBundle(p)
  <2>1. PICK f \in Envelope, t \in Nat :
          /\ tomb[f] = None /\ Verifiable(f) /\ t = Bundle(f)
          /\ Goto(p, "r_pick", IF HasPair(f) THEN "r_unpair" ELSE "r_row")
          /\ job'[p].env = f /\ job'[p].at = t
    BY <1>10, RecoverBundleTakes
  <2>3. f = e /\ job'[p].at = t
    BY <2>1
  <2>4. UNCHANGED files
    BY <1>10 DEF RecoverBundle
  <2>5. Received(e)' = t
    BY <1>c, <2>1, <2>3, <2>4 DEF Received, Bundle, files
  <2>6. HasPair(e) => read[e] \in Nat
    BY <2>1, <2>3, NoneAssumption DEF HasPair, Verifiable, Reconcilable, Bundle
  <2> QED BY <1>0, <2>1, <2>3, <2>4, <2>5, <2>6 DEF Goto, files
<1>11. CASE ReconcileRead(p) /\ pc'[p] = "k_row"
  <2>1. UNCHANGED files /\ job[p].env = e /\ job'[p].at \in {inbox[e], read[e]}
    BY <1>0, <1>11 DEF ReconcileRead, Return, Jobs
  <2>2. job'[p].at \in Nat
    BY <1>11 DEF Typing, JobShape, HasAt
  <2>3. Received(e) = job'[p].at
    BY <2>1, <2>2 DEF Agrees
  <2> QED BY <1>11, <2>2, <2>3
<1>14. CASE Deliver(p)
  <2> USE DEF Goto, Return
  <2>1. \/ DeliverReplay(p) /\ pc'[p] = "d_row"
        \/ DeliverPublish(p) \/ DeliverNote(p)
        \/ pc'[p] \in Waiting \cup {"idle"}
    BY <1>0, <1>14 DEF Deliver, DeliverGate, DeliverExpired, DeliverReplay, DeliverRow,
       Waiting
  <2> QED BY <1>1, <1>2, <1>3, <1>4, <2>1
<1>15. CASE Open(p)
  <2>1. OpenMove(p) \/ OpenUnlink(p) \/ pc'[p] \in Waiting \cup {"idle"}
    BY <1>0, <1>15 DEF Open, OpenBegin, OpenRefuse, OpenNote, Goto, Return, Waiting
  <2> QED BY <1>1, <1>5, <1>6, <2>1
<1>16. CASE Recover(p)
  <2>1. RecoverBundle(p) \/ RecoverUnpair(p) \/ pc'[p] \in Waiting \cup {"idle", "r_pick"}
    BY <1>0, <1>16 DEF Recover, RecoverBegin, RecoverList, RecoverRow, Goto, Return, Waiting
  <2> QED BY <1>1, <1>4, <1>10, <2>1
<1>17. CASE Sweep(p)
  <2>1. \/ SweepTombstone(p)
        \/ SweepBody(p) /\ pc'[p] = "s_left"
        \/ pc'[p] \in Waiting \cup {"idle", "s_pick"}
    <3>1. CASE SweepBody(p)
      BY <1>0, <3>1 DEF SweepBody, Goto
    <3>2. CASE SweepBegin(p)
      BY <1>0, <3>2 DEF SweepBegin, Goto, Waiting
    <3>3. CASE SweepList(p)
      BY <1>0, <3>3 DEF SweepList, Goto
    <3>4. CASE SweepRetain(p)
      BY <1>0, <3>4 DEF SweepRetain, Goto
    <3>5. CASE SweepLeftover(p)
      BY <1>0, <3>5 DEF SweepLeftover, Goto
    <3> QED BY <1>17, <3>1, <3>2, <3>3, <3>4, <3>5 DEF Sweep
  <2> QED BY <1>1, <1>9, <1>12, <2>1
<1>18. CASE Scan(p) \/ Reconcile(p)
  <2>1. \/ ReconcileRead(p) /\ pc'[p] = "k_row"
        \/ pc'[p] \in {"idle", "c_inbox", "c_read", "c_done", "k_read"}
    BY <1>0, <1>18 DEF Scan, ScanTombstone, ScanInbox, ScanRead, ScanReport, Reconcile,
       ReconcileState, ReconcileRead, ReconcileRow, Goto, Return
  <2> QED BY <1>1, <1>11, <2>1
<1>19. CASE FinishInbox(p) \/ FinishRead(p)
  <2>1. \/ FinishInbox(p) /\ pc'[p] = "x_read"
        \/ pc'[p] \in {"r_pick", "s_pick"}
    BY <1>0, <1>19 DEF FinishInbox, FinishRead, Goto, Pick
  <2> QED BY <1>1, <1>8, <2>1
<1>20. CASE PassDone(p) \/ PassRefuse(p) \/ LockTimeout(p) \/ Crash(p)
  <2>1. pc'[p] = "idle"
    BY <1>0, <1>20 DEF PassDone, PassRefuse, LockTimeout, Crash, Return
  <2> QED BY <1>1, <2>1
<1> QED BY <1>7, <1>14, <1>15, <1>16, <1>17, <1>18, <1>19, <1>20 DEF Moved, Step

LEMMA NextIInv == IInv /\ [Next]_vars => IInv'
<1> SUFFICES ASSUME IInv, [Next]_vars PROVE IInv'
  OBVIOUS
<1>0. Typing'
  BY NextTyping DEF IInv
<1>1. CASE UNCHANGED vars
  BY <1>0, <1>1 DEF vars, IInv, LockInv, ReceiptsAgree, IndexTruth, TombstoneTruth,
     JobInv, JobOne, Knows, Received, Bundle, RowIs
<1>2. CASE Next
  <2>1. PICK p \in Proc : Moved(p)
    BY <1>2 DEF Next, Moved
  <2>2. Frame(p) /\ LockStep(p) /\ FilesStep(p) /\ RowStep
    BY <2>1, StepFrame, StepLock, StepFiles, StepRow DEF IInv
  <2>3. /\ ReceiptsAgree'
        /\ \A f \in Envelope : Received(f) \in Nat => Received(f)' = Received(f)
        /\ \A f \in Envelope : tomb[f] # None => tomb'[f] = tomb[f]
    BY <2>2, EvidenceKept
  <2>4. /\ IndexTruth'
        /\ \A f \in Envelope, t \in Nat : RowIs(f, t) => RowIs(f, t)'
    BY <2>2, <2>3, IndexKept
  <2>5. TombstoneTruth'
    BY <2>2, <2>4, TombstoneKept
  <2>6. LockInv'
    BY <2>2, NoneAssumption DEF IInv, LockInv, Frame, LockStep
  <2>7. JobInv'
    <3>1. \A f \in Envelope : Agrees(f) /\ \A q \in Proc : Knows(q, f)
      BY DEF IInv, ReceiptsAgree, Agrees, JobInv, JobOne
    <3>2. ASSUME NEW f \in Envelope PROVE Knows(p, f)'
      BY <1>0, <2>1, <2>3, <3>1, OwnKnow DEF IInv
    <3>3. ASSUME NEW f \in Envelope, NEW q \in Proc \ {p} PROVE Knows(q, f)'
      <4>1. lock = q => Quiet
        BY <2>2, NoneAssumption DEF FilesStep
      <4>2. Spared(q, f)
        BY <2>3, <4>1 DEF Spared, Quiet, Same
      <4> QED BY <2>2, <3>1, <4>2, OthersKnow DEF IInv, Frame
    <3> QED BY <3>2, <3>3 DEF JobInv, JobOne
  <2> QED BY <1>0, <2>3, <2>4, <2>5, <2>6, <2>7 DEF IInv
<1> QED BY <1>1, <1>2

LEMMA InitIInv == Init => IInv
  BY InitTyping, NoneAssumption, TornAssumption
     DEF Init, IInv, LockInv, ReceiptsAgree, IndexTruth, TombstoneTruth, JobInv, JobOne,
         Knows, Received, Bundle, RowIs, Holding, HasAt

LEMMA Inductive == Spec => []IInv
  BY InitIInv, NextIInv, PTL DEF Spec

\* The lifecycle lock is held exactly while its holder is inside a critical
\* section: no refusal, timeout or death leaves it behind, and nobody writes to
\* the bundles past another holder.
THEOREM LockHeldInside == Spec => []LockInv
  BY Inductive, PTL DEF IInv

\* However many processes die wherever they die, no damaged directory is the
\* only evidence of a message, and every whole copy of it, in inbox/ or read/,
\* carries the instant at which it was first received.
THEOREM ReceiptsNeverDisagree == Spec => []ReceiptsAgree
  BY Inductive, PTL DEF IInv

\* index.jsonl never gets a second row for an envelope, a row that disagrees
\* with the mailbox, or a row for a message that is not there, although
\* ledger.reconcile appends to it without the lifecycle lock.
THEOREM IndexAlwaysTrue == Spec => []IndexTruth
  BY Inductive, PTL DEF IInv

\* A tombstone always stands over an indexed message that was old enough.
THEOREM TombstonesAlwaysTrue == Spec => []TombstoneTruth
  BY Inductive, PTL DEF IInv

-----------------------------------------------------------------------------
(* Refinement: each of the five writes is one step of the life cycle or none,
   and everything else a process does is invisible in it. *)

LEMMA Elsewhere ==
    ASSUME Typing, NEW p \in Proc, NEW e \in Envelope, Writes(p, e)
    PROVE \A f \in Envelope \ {e} : State(f)' = State(f) /\ Received(f)' = Received(f)
  BY WriteIsLocal, SameKeeps

\* What a write does to the message it is about.
LEMMA WriteLifecycle ==
    ASSUME Typing, NEW p \in Proc, NEW e \in Envelope, Agrees(e), Writes(p, e)
    PROVE \/ State(e) = "absent" /\ State(e)' = "unread" /\ Received(e)' \in Nat
          \/ State(e) = "unread" /\ State(e)' = "read" /\ Received(e)' = Received(e)
          \/ /\ State(e) \in {"unread", "read"} /\ State(e)' = "expired"
             /\ Received(e)' = Received(e)
          \/ State(e)' = State(e) /\ Received(e)' = Received(e)
<1> USE NoneAssumption, TornAssumption
        DEF Typing, TypeOK, Agrees, State, Received, Bundle, Bundles
<1>1. CASE Publishes(e)
  BY <1>1 DEF Publishes, HasBody
<1>2. CASE Moves(e)
  BY <1>2 DEF Moves
<1>3. CASE DropsInbox(e)
  BY <1>3 DEF DropsInbox
<1>4. CASE DropsRead(e)
  BY <1>4 DEF DropsRead
<1>5. CASE Buries(p, e)
  <2>1. PICK r \in Tombstones : r.received = Bundle(e) /\ tomb' = [tomb EXCEPT ![e] = r]
    BY <1>5, TTLType DEF Buries, Tombstones
  <2>2. r # None
    BY DEF Tombstones
  <2> QED BY <1>5, <2>1, <2>2 DEF Buries
<1> QED BY <1>1, <1>2, <1>3, <1>4, <1>5 DEF Writes

LEMMA StepLifecycle == IInv /\ [Next]_vars => [Lifecycle!Next]_(Lifecycle!vars)
<1> SUFFICES ASSUME IInv, [Next]_vars PROVE [Lifecycle!Next]_(Lifecycle!vars)
  OBVIOUS
<1>1. CASE Quiet
  BY <1>1 DEF Quiet, Lifecycle!vars, State, Received, Bundle
<1>2. ASSUME NEW p \in Proc, NEW e \in Envelope, Writes(p, e)
      PROVE [Lifecycle!Next]_(Lifecycle!vars)
  <2>1. \A f \in Envelope \ {e} : State(f)' = State(f) /\ Received(f)' = Received(f)
    BY <1>2, Elsewhere DEF IInv
  <2>2. CASE State(e) = "absent" /\ State(e)' = "unread" /\ Received(e)' \in Nat
    <3>1. Lifecycle!Receive(e)
      BY <2>1, <2>2 DEF Lifecycle!Receive
    <3> QED BY <3>1 DEF Lifecycle!Next
  <2>3. CASE State(e) = "unread" /\ State(e)' = "read" /\ Received(e)' = Received(e)
    <3>1. Lifecycle!Open(e)
      BY <2>1, <2>3 DEF Lifecycle!Open
    <3> QED BY <3>1 DEF Lifecycle!Next
  <2>4. CASE /\ State(e) \in {"unread", "read"} /\ State(e)' = "expired"
             /\ Received(e)' = Received(e)
    <3>1. Lifecycle!Expire(e)
      BY <2>1, <2>4 DEF Lifecycle!Expire
    <3> QED BY <3>1 DEF Lifecycle!Next
  <2>5. CASE State(e)' = State(e) /\ Received(e)' = Received(e)
    BY <2>1, <2>5 DEF Lifecycle!vars
  <2>6. Agrees(e)
    BY DEF IInv, ReceiptsAgree, Agrees
  <2> QED BY <1>2, <2>2, <2>3, <2>4, <2>5, <2>6, WriteLifecycle DEF IInv
<1>3. CASE UNCHANGED vars
  BY <1>1, <1>3 DEF vars, Quiet
<1>4. CASE Next
  <2>1. PICK p \in Proc : Moved(p)
    BY <1>4 DEF Next, Moved
  <2> QED BY <1>1, <1>2, <2>1, StepFiles DEF FilesStep
<1> QED BY <1>3, <1>4

LEMMA InitLifecycle == Init => Lifecycle!Init
  BY DEF Init, Lifecycle!Init, State, Received, Bundle

\* Every mailbox, under any number of processes, crashes, replays and races,
\* implements the promised life cycle: one receipt instant, one opening, and no
\* way back from read or expired.
THEOREM MailboxImplementsLifecycle == Spec => LifecycleRefined
<1>1. Init => Lifecycle!Init
  BY InitLifecycle
<1>2. IInv /\ [Next]_vars => [Lifecycle!Next]_(Lifecycle!vars)
  BY StepLifecycle
<1> QED BY <1>1, <1>2, Inductive, PTL DEF Spec, LifecycleRefined, Lifecycle!Spec

\* The index beside the life cycle: a row stays; a new one is of a live message,
\* which it leaves where it is, and carries the instant of its receipt; and no
\* message expires without its row.
RowsFollowBodies == [][\A e \in Envelope :
    /\ HasRow(e) => HasRow(e)'
    /\ ~HasRow(e) /\ HasRow(e)' =>
          /\ State(e) \in {"unread", "read"} /\ State(e)' = State(e)
          /\ RowIs(e, Received(e))'
    /\ State(e)' = "expired" => HasRow(e)]_vars

LEMMA AppendRow ==
    ASSUME Typing, NEW e \in Envelope, NEW t \in Nat, RowAccepted(e, t),
           index' = WithRow(e, t)
    PROVE /\ \A f \in Envelope \ {e} : HasRow(f)' <=> HasRow(f)
          /\ HasRow(e)' /\ RowIs(e, t)'
<1>1. index \in Seq(Rows)
  BY DEF Typing, TypeOK
<1>2. CASE HasRow(e)
  BY <1>2 DEF RowAccepted, WithRow, HasRow, RowIs
<1>3. CASE ~HasRow(e)
  <2>1. index' = Append(index, [id |-> e, at |-> t])
    BY <1>3 DEF WithRow
  <2>2. /\ DOMAIN index' = 1..(Len(index) + 1) /\ DOMAIN index = 1..Len(index)
        /\ \A i \in 1..Len(index) : index'[i] = index[i]
        /\ index'[Len(index) + 1] = [id |-> e, at |-> t]
        /\ Len(index) \in Nat
    BY <1>1, <2>1
  <2>3. HasRow(e)' /\ RowIs(e, t)'
    BY <2>2 DEF HasRow, RowIs
  <2>4. ASSUME NEW f \in Envelope \ {e} PROVE HasRow(f)' <=> HasRow(f)
    <3>1. \A i \in DOMAIN index' : index'[i].id = f => i \in DOMAIN index
      BY <2>2
    <3> QED BY <2>2, <3>1 DEF HasRow
  <2> QED BY <2>3, <2>4
<1> QED BY <1>2, <1>3

LEMMA OneRowOnly ==
    ASSUME Typing, RowStep, NEW e \in Envelope, ~HasRow(e), HasRow(e)'
    PROVE Received(e) \in Nat /\ Quiet /\ RowIs(e, Received(e))'
<1>1. index' # index
  BY DEF HasRow
<1>2. PICK f \in Envelope, t \in Nat :
          Received(f) = t /\ RowAccepted(f, t) /\ index' = WithRow(f, t) /\ Quiet
  BY <1>1 DEF RowStep
<1>3. f = e
  BY <1>2, AppendRow
<1>4. Received(e)' = Received(e)
  BY <1>2 DEF Quiet, Received, Bundle
<1> QED BY <1>2, <1>3, <1>4, AppendRow

\* No body leaves the index behind it: what the sender's side and the future
\* letters take for granted of a mailbox beyond MailLifecycle.
THEOREM RowsFollow == Spec => RowsFollowBodies
<1> DEFINE Good(e) ==
      /\ HasRow(e) => HasRow(e)'
      /\ ~HasRow(e) /\ HasRow(e)' =>
            /\ State(e) \in {"unread", "read"} /\ State(e)' = State(e)
            /\ RowIs(e, Received(e))'
      /\ State(e)' = "expired" => HasRow(e)
<1>1. ASSUME IInv, NEW p \in Proc, Moved(p), NEW e \in Envelope PROVE Good(e)
  <2>1. RowStep /\ FilesStep(p) /\ Typing
    BY <1>1, StepRow, StepFiles DEF IInv
  <2>2. tomb[e] # None => HasRow(e)
    BY <1>1 DEF IInv, TombstoneTruth, RowIs, HasRow
  <2>3. HasRow(e) => HasRow(e)'
    <3>1. CASE index' = index
      BY <3>1 DEF HasRow
    <3>2. CASE index' # index
      BY <2>1, <3>2, AppendRow DEF RowStep
    <3> QED BY <3>1, <3>2
  <2>4. ASSUME ~HasRow(e), HasRow(e)'
        PROVE  /\ State(e) \in {"unread", "read"} /\ State(e)' = State(e)
               /\ RowIs(e, Received(e))'
    <3>1. Received(e) \in Nat /\ Quiet /\ RowIs(e, Received(e))'
      BY <2>1, <2>4, OneRowOnly
    <3>2. tomb[e] = None
      BY <2>2, <2>4
    <3> QED BY <3>1, <3>2, NoneAssumption DEF State, Received, Bundle, Quiet
  <2>5. ASSUME State(e)' = "expired" PROVE HasRow(e)
    <3>1. tomb'[e] # None
      BY <2>5 DEF State
    <3>2. CASE tomb[e] # None
      BY <2>2, <3>2
    <3>3. CASE tomb[e] = None
      <4>1. PICK f \in Envelope : Writes(p, f)
        BY <2>1, <3>1, <3>3 DEF FilesStep, Quiet
      <4>2. f = e
        BY <2>1, <3>1, <3>3, <4>1, WriteIsLocal DEF Same
      <4>3. Buries(p, e)
        BY <3>1, <3>3, <4>1, <4>2 DEF Writes, Publishes, Moves, DropsInbox, DropsRead
      <4> QED BY <4>3 DEF Buries, RowIs, HasRow
    <3> QED BY <3>2, <3>3
  <2> QED BY <2>3, <2>4, <2>5
<1>2. IInv /\ [Next]_vars => [\A e \in Envelope : Good(e)]_vars
  BY <1>1 DEF Next, Moved
<1> QED BY <1>2, Inductive, PTL DEF Spec, RowsFollowBodies

-----------------------------------------------------------------------------
(* The ledger and the lock-free scan.  Both speak of a message's state at an
   earlier instant, so both rest on the states never going back. *)

Opened == {"read", "expired"}

Onward == \A e \in Envelope :
    /\ State(e) # "absent" => State(e)' # "absent"
    /\ State(e) \in Opened => State(e)' \in Opened
    /\ State(e) = "expired" => State(e)' = "expired"

LEMMA StepOnward ==
    ASSUME IInv, NEW p \in Proc, FilesStep(p)
    PROVE Onward
<1>1. CASE Quiet
  BY <1>1 DEF Quiet, Onward, State
<1>2. ASSUME NEW e \in Envelope, Writes(p, e) PROVE Onward
  <2>1. \A f \in Envelope \ {e} : State(f)' = State(f)
    BY <1>2, Elsewhere DEF IInv
  <2>2. \/ State(e) = "absent" /\ State(e)' = "unread"
        \/ State(e) = "unread" /\ State(e)' = "read"
        \/ State(e) \in {"unread", "read"} /\ State(e)' = "expired"
        \/ State(e)' = State(e)
    <3>1. Agrees(e)
      BY DEF IInv, ReceiptsAgree, Agrees
    <3> QED BY <1>2, <3>1, WriteLifecycle DEF IInv
  <2> QED BY <2>1, <2>2 DEF Onward, Opened
<1> QED BY <1>1, <1>2 DEF FilesStep

\* A received message is somewhere.
LEMMA ReceivedIsSomewhere ==
    ASSUME Typing, NEW e \in Envelope, Received(e) \in Nat
    PROVE State(e) # "absent"
  BY NoneAssumption DEF Typing, TypeOK, State, Received, Bundle

\* Whoever notes a fact of e stands behind the file change that made it true.
Noting(e) == \A event \in Events :
    <<event, e>> \in ledger' => \/ <<event, e>> \in ledger
                                \/ event = "RECEIPT_OBSERVED" /\ State(e) # "absent"
                                \/ event = "OPENED" /\ State(e) \in Opened
                                \/ event = "QUARANTINED" /\ e \in quarantine'

LEMMA StepNote ==
    ASSUME Typing, NEW p \in Proc, Moved(p), NEW e \in Envelope, Knows(p, e)
    PROVE Noting(e) /\ quarantine \subseteq quarantine'
<1>1. ASSUME NEW f \in Envelope, DeliverGate(p, f)
      PROVE Noting(e) /\ quarantine \subseteq quarantine'
  BY <1>1 DEF DeliverGate, Note, Noting, files
<1>2. CASE DeliverNote(p)
  <2>1. job[p].env = e => State(e) # "absent"
    <3>1. pc[p] \in HasAt
      BY <1>2 DEF DeliverNote, Goto, HasAt
    <3>2. job[p].env = e => Received(e) \in Nat
      BY <3>1 DEF Typing, JobShape, Knows
    <3> QED BY <3>2, ReceivedIsSomewhere
  <2> QED BY <1>2, <2>1 DEF DeliverNote, Note, Noting
<1>3. CASE OpenNote(p)
  <2>1. job[p].env = e => State(e) = "read"
    BY <1>3, NoneAssumption DEF OpenNote, Knows, State
  <2> QED BY <1>3, <2>1 DEF OpenNote, Note, Noting, Opened
<1>4. CASE UNCHANGED <<ledger, quarantine>>
  BY <1>4 DEF Noting
<1>5. CASE Deliver(p)
  BY <1>1, <1>2, <1>4, <1>5 DEF Deliver, DeliverExpired, DeliverReplay, DeliverPublish,
     DeliverRow, files
<1>6. CASE Open(p)
  BY <1>3, <1>4, <1>6 DEF Open, OpenBegin, OpenRefuse, OpenMove, OpenUnlink, files
<1>7. CASE Recover(p) \/ Sweep(p)
  BY <1>4, <1>7 DEF files, Recover, RecoverBegin, RecoverList, RecoverBundle,
     RecoverUnpair, RecoverRow, Sweep, SweepBegin, SweepList, SweepRetain,
     SweepTombstone, SweepBody, SweepLeftover
<1>8. CASE ~(Deliver(p) \/ Open(p) \/ Recover(p) \/ Sweep(p))
  BY <1>4, <1>8 DEF Moved, Step, files, Scan, ScanTombstone, ScanInbox, ScanRead,
     ScanReport, Reconcile, ReconcileState, ReconcileRead, ReconcileRow, PassDone,
     PassRefuse, LockTimeout, FinishExpiry, FinishInbox, FinishRead, Crash
<1> QED BY <1>5, <1>6, <1>7, <1>8

LEMMA NextLedger == IInv /\ LedgerTruth /\ [Next]_vars => LedgerTruth'
<1> SUFFICES ASSUME IInv, LedgerTruth, [Next]_vars PROVE LedgerTruth'
  OBVIOUS
<1>1. CASE UNCHANGED vars
  BY <1>1 DEF vars, LedgerTruth, State
<1>2. CASE Next
  <2>1. PICK p \in Proc : Moved(p)
    BY <1>2 DEF Next, Moved
  <2>2. Onward
    BY <2>1, StepFiles, StepOnward
  <2>3. ASSUME NEW e \in Envelope
        PROVE  /\ <<"RECEIPT_OBSERVED", e>> \in ledger' => State(e)' # "absent"
               /\ <<"OPENED", e>> \in ledger' => State(e)' \in {"read", "expired"}
               /\ <<"QUARANTINED", e>> \in ledger' => e \in quarantine'
    <3>1. Noting(e) /\ quarantine \subseteq quarantine'
      BY <2>1, StepNote DEF IInv, JobInv, JobOne
    <3> QED BY <2>2, <3>1 DEF Onward, Noting, LedgerTruth, Opened, Events
  <2> QED BY <2>3 DEF LedgerTruth
<1> QED BY <1>1, <1>2

\* The ledger is never ahead of the files, however many processes die between a
\* file change and the note about it.
THEOREM LedgerNeverAhead == Spec => []LedgerTruth
<1>1. Init => LedgerTruth
  BY DEF Init, LedgerTruth
<1> QED BY <1>1, NextLedger, Inductive, PTL DEF Spec

-----------------------------------------------------------------------------
(* The scan.  What its earlier looks told it stays true only because nothing
   brings back a copy that is gone, and for that every deleter must have a copy
   to delete: an rmtree cut short would otherwise make a directory out of none. *)

HasCopy(p) == \A e \in Envelope : job[p].env = e =>
    /\ pc[p] \in {"o_unlink", "r_unpair", "s_left", "x_inbox"} => inbox[e] # None
    /\ pc[p] = "x_read" => read[e] # None
    /\ pc[p] = "s_body" => HasBody(e)

CopyInv == \A p \in Proc : HasCopy(p)

\* Copies that are gone stay gone, except before the message is buried.
Gone == \A e \in Envelope : tomb[e] # None =>
    /\ inbox[e] = None => inbox'[e] = None
    /\ read[e] = None => read'[e] = None

Looking == {"c_inbox", "c_read", "c_done"}

\* What the looks of a scan told it is still so.
Saw(p) == \A e \in Envelope : (job[p].env = e /\ pc[p] \in Looking) =>
    /\ State(e) # "absent"
    /\ "tomb" \in job[p].seen => tomb[e] # None
    /\ "read" \in job[p].seen => State(e) \in Opened
    /\ (pc[p] \in {"c_read", "c_done"} /\ "inbox" \notin job[p].seen) =>
          /\ State(e) \in Opened
          /\ "tomb" \in job[p].seen => inbox[e] = None
    /\ pc[p] = "c_done" =>
          /\ ("read" \notin job[p].seen /\ "inbox" \notin job[p].seen) => State(e) = "expired"
          /\ ("read" \notin job[p].seen /\ "tomb" \in job[p].seen) => read[e] = None

SawInv == \A p \in Proc : Saw(p)

ScanInv == IInv /\ CopyInv /\ SawInv

LEMMA StepGone ==
    ASSUME IInv, CopyInv, NEW p \in Proc, Moved(p)
    PROVE Gone
<1>0. /\ inbox \in [Envelope -> Bundles] /\ read \in [Envelope -> Bundles]
      /\ pc[p] \in HasEnv => job[p].env \in Envelope
  BY DEF IInv, Typing, TypeOK, JobShape
<1>1. CASE UNCHANGED <<inbox, read>>
  BY <1>1 DEF Gone
<1>2. CASE DeliverPublish(p) \/ OpenMove(p)
  BY <1>0, <1>2 DEF Gone, DeliverPublish, OpenMove, State
<1>3. CASE OpenUnlink(p) \/ RecoverUnpair(p) \/ FinishInbox(p) \/ FinishRead(p)
           \/ SweepBody(p) \/ SweepLeftover(p)
  BY <1>0, <1>3 DEF Gone, OpenUnlink, RecoverUnpair, FinishInbox, FinishRead, SweepBody,
     SweepLeftover
<1>4. CASE Crash(p)
  <2> DEFINE e == job[p].env
  <2>1. CASE DeletesInbox(p) /\ inbox' = [inbox EXCEPT ![e] = Torn] /\ UNCHANGED read
    <3>1. e \in Envelope /\ inbox[e] # None
      BY <1>0, <2>1 DEF DeletesInbox, HasEnv, CopyInv, HasCopy, HasBody
    <3> QED BY <1>0, <2>1, <3>1 DEF Gone
  <2>2. CASE DeletesRead(p) /\ read' = [read EXCEPT ![e] = Torn] /\ UNCHANGED inbox
    <3>1. e \in Envelope /\ read[e] # None
      BY <1>0, <2>2 DEF DeletesRead, HasEnv, CopyInv, HasCopy
    <3> QED BY <1>0, <2>2, <3>1 DEF Gone
  <2> QED BY <1>1, <1>4, <2>1, <2>2 DEF Crash
<1>5. CASE Deliver(p) \/ Open(p)
  BY <1>1, <1>2, <1>3, <1>5 DEF Deliver, DeliverGate, DeliverExpired, DeliverReplay,
     DeliverNote, DeliverRow, Open, OpenBegin, OpenRefuse, OpenNote, files
<1>6. CASE Recover(p) \/ Sweep(p)
  BY <1>1, <1>3, <1>6 DEF files, Recover, RecoverBegin, RecoverList, RecoverBundle,
     RecoverRow, Sweep, SweepBegin, SweepList, SweepRetain, SweepTombstone
<1>7. CASE ~(Deliver(p) \/ Open(p) \/ Recover(p) \/ Sweep(p))
  BY <1>1, <1>3, <1>4, <1>7 DEF Moved, Step, files, Scan, ScanTombstone, ScanInbox,
     ScanRead, ScanReport, Reconcile, ReconcileState, ReconcileRead, ReconcileRow,
     PassDone, PassRefuse, LockTimeout, FinishExpiry
<1> QED BY <1>5, <1>6, <1>7

\* The copies a deleter has in hand are nobody else's to touch.
LEMMA OthersCopy ==
    ASSUME IInv, CopyInv, NEW p \in Proc, NEW q \in Proc \ {p}, Frame(p), FilesStep(p)
    PROVE HasCopy(q)'
<1>1. pc'[q] = pc[q] /\ job'[q] = job[q]
  BY DEF Frame
<1>2. pc[q] \in Holding => Quiet
  BY NoneAssumption DEF FilesStep, IInv, LockInv
<1> QED BY <1>1, <1>2 DEF CopyInv, HasCopy, Holding, Quiet, HasBody

\* A deleter takes up a message only with its copies before it.
LEMMA OwnCopy ==
    ASSUME IInv, CopyInv, NEW p \in Proc, Moved(p)
    PROVE HasCopy(p)'
<1> SUFFICES ASSUME NEW e \in Envelope, job'[p].env = e
             PROVE  /\ pc'[p] \in {"o_unlink", "r_unpair", "s_left", "x_inbox"} => inbox'[e] # None
                    /\ pc'[p] = "x_read" => read'[e] # None
                    /\ pc'[p] = "s_body" => HasBody(e)'
  BY DEF HasCopy
<1>0. /\ pc \in [Proc -> Holding \cup Waiting \cup LockFree] /\ job \in [Proc -> Jobs]
      /\ inbox \in [Envelope -> Bundles] /\ read \in [Envelope -> Bundles]
      /\ tomb \in [Envelope -> Tombstones \cup {None}]
  BY DEF IInv, Typing, TypeOK
<1>1. CASE pc'[p] \notin {"o_unlink", "r_unpair", "s_left", "x_inbox", "x_read", "s_body"}
  BY <1>1
<1>2. CASE OpenMove(p)
  <2>1. job' = job /\ pc'[p] \in {"o_note", "o_unlink"} /\ State(e) = "unread"
        /\ (pc'[p] = "o_unlink" => inbox' = inbox)
    BY <1>0, <1>2 DEF OpenMove, Goto
  <2> QED BY <1>0, <2>1 DEF State
<1>3. CASE FinishExpiry(p)
  <2>1. PICK f \in Envelope :
          /\ tomb[f] # None /\ Finishable(p, f)
          /\ Goto(p, Pick(p), IF inbox[f] # None THEN "x_inbox" ELSE "x_read")
          /\ job' = [job EXCEPT ![p].env = f]
    BY <1>3 DEF FinishExpiry
  <2>2. f = e /\ UNCHANGED files
    BY <1>0, <1>3, <2>1 DEF Jobs, FinishExpiry
  <2>3. pc'[p] = IF inbox[e] # None THEN "x_inbox" ELSE "x_read"
    BY <1>0, <2>1, <2>2 DEF Goto
  <2>4. Bundle(e) \in Nat
    BY <1>0, <2>1, <2>2 DEF Finishable, Tombstones
  <2> QED BY <2>2, <2>3, <2>4, NoneAssumption DEF files, Bundle
<1>4. CASE FinishInbox(p)
  <2>1. \/ read[job[p].env] # None /\ pc'[p] = "x_read" /\ job' = job
        \/ pc'[p] \in {"r_pick", "s_pick"}
    BY <1>0, <1>4 DEF FinishInbox, Goto, Pick
  <2>2. UNCHANGED read
    BY <1>4 DEF FinishInbox
  <2> QED BY <2>1, <2>2
<1>5. CASE RecoverBundle(p)
  <2>1. PICK f \in Envelope, t \in Nat :
          /\ Goto(p, "r_pick", IF HasPair(f) THEN "r_unpair" ELSE "r_row")
          /\ job'[p].env = f /\ job'[p].at = t
    BY <1>5, RecoverBundleTakes DEF IInv
  <2>2. f = e /\ UNCHANGED files
    BY <1>5, <2>1 DEF RecoverBundle
  <2>3. pc'[p] = IF HasPair(e) THEN "r_unpair" ELSE "r_row"
    BY <1>0, <2>1, <2>2 DEF Goto
  <2> QED BY <2>2, <2>3 DEF files, HasPair
<1>6. CASE SweepTombstone(p)
  <2>1. PICK f \in Envelope : Verifiable(f) /\ job' = [job EXCEPT ![p].env = f]
    BY <1>6 DEF SweepTombstone
  <2>2. f = e /\ UNCHANGED <<inbox, read>> /\ pc'[p] = "s_body"
    BY <1>0, <1>6, <2>1 DEF Jobs, SweepTombstone, Goto
  <2> QED BY <2>1, <2>2 DEF Verifiable, Bundle, HasBody
<1>7. CASE SweepBody(p)
  <2>1. \/ inbox[job[p].env] # None /\ inbox' = inbox /\ pc'[p] = "s_left" /\ job' = job
        \/ pc'[p] = "s_pick"
    BY <1>0, <1>7 DEF SweepBody, Goto
  <2> QED BY <2>1
<1>8. CASE Deliver(p) \/ Scan(p) \/ Reconcile(p) \/ PassDone(p) \/ PassRefuse(p)
           \/ LockTimeout(p) \/ Crash(p) \/ FinishRead(p)
  <2>1. CASE Deliver(p)
    BY <1>0, <1>1, <2>1 DEF Deliver, DeliverGate, DeliverExpired, DeliverReplay,
       DeliverPublish, DeliverNote, DeliverRow, Goto, Return, CopyInv, HasCopy, files, HasBody
  <2>2. CASE Scan(p) \/ Reconcile(p)
    BY <1>0, <1>1, <2>2 DEF Scan, ScanTombstone, ScanInbox, ScanRead, ScanReport,
       Reconcile, ReconcileState, ReconcileRead, ReconcileRow, Goto, Return
  <2>3. CASE PassDone(p) \/ PassRefuse(p) \/ LockTimeout(p) \/ Crash(p) \/ FinishRead(p)
    BY <1>0, <1>1, <2>3 DEF PassDone, PassRefuse, LockTimeout, Crash, FinishRead, Goto,
       Return, Pick
  <2> QED BY <1>8, <2>1, <2>2, <2>3
<1>9. CASE Open(p)
  <2>1. OpenMove(p) \/ pc'[p] \in {"o_lock", "o_note", "idle"}
    BY <1>0, <1>9 DEF Open, OpenBegin, OpenRefuse, OpenUnlink, OpenNote, Goto, Return
  <2> QED BY <1>1, <1>2, <2>1
<1>10. CASE Recover(p)
  <2>1. RecoverBundle(p) \/ pc'[p] \in {"r_lock", "r_pick", "r_row", "idle"}
    BY <1>0, <1>10 DEF Recover, RecoverBegin, RecoverList, RecoverUnpair, RecoverRow, Goto,
       Return
  <2> QED BY <1>1, <1>5, <2>1
<1>11. CASE Sweep(p)
  <2>1. SweepTombstone(p) \/ SweepBody(p) \/ pc'[p] \in {"s_lock", "s_pick"}
    BY <1>0, <1>11 DEF Sweep, SweepBegin, SweepList, SweepRetain, SweepLeftover, Goto
  <2> QED BY <1>1, <1>6, <1>7, <2>1
<1> QED BY <1>3, <1>4, <1>8, <1>9, <1>10, <1>11 DEF Moved, Step

\* What a scan saw stays so under everybody else's steps.
LEMMA OthersSaw ==
    ASSUME IInv, SawInv, NEW p \in Proc, NEW q \in Proc \ {p}, Frame(p), Onward, Gone,
           \A f \in Envelope : tomb[f] # None => tomb'[f] = tomb[f]
    PROVE Saw(q)'
<1>1. pc'[q] = pc[q] /\ job'[q] = job[q]
  BY DEF Frame
<1> SUFFICES ASSUME NEW e \in Envelope, job[q].env = e, pc[q] \in Looking
             PROVE  /\ State(e)' # "absent"
                    /\ "tomb" \in job[q].seen => tomb'[e] # None
                    /\ "read" \in job[q].seen => State(e)' \in Opened
                    /\ (pc[q] \in {"c_read", "c_done"} /\ "inbox" \notin job[q].seen) =>
                          /\ State(e)' \in Opened
                          /\ "tomb" \in job[q].seen => inbox'[e] = None
                    /\ pc[q] = "c_done" =>
                          /\ ("read" \notin job[q].seen /\ "inbox" \notin job[q].seen)
                                => State(e)' = "expired"
                          /\ ("read" \notin job[q].seen /\ "tomb" \in job[q].seen)
                                => read'[e] = None
  BY <1>1 DEF Saw
<1> QED BY DEF SawInv, Saw, Onward, Gone

\* An indexed message is somewhere.
LEMMA IndexedIsSomewhere ==
    ASSUME IInv, NEW e \in Envelope, HasRow(e)
    PROVE State(e) # "absent"
<1>1. PICK i \in DOMAIN index : index[i].id = e
  BY DEF HasRow
<1>2. index[i] \in Rows
  BY <1>1 DEF IInv, Typing, TypeOK
<1>3. Received(e) \in Nat
  BY <1>1, <1>2 DEF IInv, IndexTruth, Rows
<1> QED BY <1>3, ReceivedIsSomewhere DEF IInv

\* Each look of a scan adds what the files say at that instant.
LEMMA OwnSaw ==
    ASSUME IInv, SawInv, NEW p \in Proc, Moved(p)
    PROVE Saw(p)'
<1>0. /\ pc \in [Proc -> Holding \cup Waiting \cup LockFree] /\ job \in [Proc -> Jobs]
      /\ inbox \in [Envelope -> Bundles] /\ read \in [Envelope -> Bundles]
  BY DEF IInv, Typing, TypeOK
<1>1. CASE pc'[p] \notin Looking
  BY <1>1 DEF Saw
<1>2. ASSUME NEW f \in Envelope, ScanTombstone(p, f) PROVE Saw(p)'
  <2>1. /\ pc'[p] = "c_inbox" /\ UNCHANGED files
        /\ job'[p].env = f /\ job'[p].seen = IF tomb[f] # None THEN {"tomb"} ELSE {}
    BY <1>0, <1>2 DEF ScanTombstone, Goto, Jobs
  <2>2. State(f) # "absent"
    BY <1>2, IndexedIsSomewhere DEF ScanTombstone
  <2> QED BY <2>1, <2>2 DEF Saw, State, files
<1>3. CASE ScanInbox(p)
  <2> DEFINE e == job[p].env
  <2>1. /\ pc[p] = "c_inbox" /\ pc'[p] = "c_read" /\ UNCHANGED files
        /\ job'[p].env = e
        /\ job'[p].seen = IF inbox[e] # None THEN job[p].seen \cup {"inbox"} ELSE job[p].seen
    BY <1>0, <1>3 DEF ScanInbox, Goto, Jobs
  <2>2. e \in Envelope
    BY <2>1 DEF IInv, Typing, JobShape, HasEnv
  <2>3. /\ State(e) # "absent" /\ ("tomb" \in job[p].seen => tomb[e] # None)
        /\ "read" \in job[p].seen => State(e) \in Opened
    BY <2>1, <2>2 DEF SawInv, Saw, Looking
  <2>4. inbox[e] = None => State(e) \in Opened
    BY <2>3 DEF State, Opened
  <2>5. "inbox" \notin job'[p].seen => inbox[e] = None
    BY <2>1
  <2>6. job'[p].seen \subseteq job[p].seen \cup {"inbox"}
    BY <2>1
  <2>7. State(e)' = State(e)
    BY <2>1 DEF State, files
  <2> QED BY <2>1, <2>3, <2>4, <2>5, <2>6, <2>7 DEF Saw, files
<1>4. CASE ScanRead(p)
  <2> DEFINE e == job[p].env
  <2>1. /\ pc[p] = "c_read" /\ pc'[p] = "c_done" /\ UNCHANGED files
        /\ job'[p].env = e
        /\ job'[p].seen = IF read[e] # None THEN job[p].seen \cup {"read"} ELSE job[p].seen
    BY <1>0, <1>4 DEF ScanRead, Goto, Jobs
  <2>2. e \in Envelope
    BY <2>1 DEF IInv, Typing, JobShape, HasEnv
  <2>3. /\ State(e) # "absent" /\ ("tomb" \in job[p].seen => tomb[e] # None)
        /\ "inbox" \notin job[p].seen =>
              State(e) \in Opened /\ ("tomb" \in job[p].seen => inbox[e] = None)
    BY <2>1, <2>2 DEF SawInv, Saw, Looking
  <2>4. read[e] # None => State(e) \in Opened
    BY DEF State, Opened
  <2>5. read[e] = None /\ State(e) \in Opened => State(e) = "expired"
    BY DEF State, Opened
  <2>6. /\ "read" \notin job'[p].seen => read[e] = None
        /\ "tomb" \in job'[p].seen => "tomb" \in job[p].seen
        /\ "inbox" \notin job'[p].seen => "inbox" \notin job[p].seen
    BY <2>1
  <2>7. State(e)' = State(e)
    BY <2>1 DEF State, files
  <2>8. "read" \in job'[p].seen => State(e) \in Opened
    <3>1. "read" \in job'[p].seen => read[e] # None \/ "read" \in job[p].seen
      BY <2>1
    <3> QED BY <2>1, <2>2, <2>4, <3>1 DEF SawInv, Saw, Looking
  <2> QED BY <2>1, <2>3, <2>5, <2>6, <2>7, <2>8 DEF Saw, files
<1>5. CASE Scan(p)
  <2>1. CASE ScanReport(p)
    <3>1. pc'[p] = "idle"
      BY <1>0, <2>1 DEF ScanReport, Return
    <3> QED BY <1>1, <3>1 DEF Looking
  <2> QED BY <1>2, <1>3, <1>4, <1>5, <2>1 DEF Scan
<1>6. CASE ~Scan(p)
  <2> USE DEF Goto, Return, Looking
  <2>1. CASE Deliver(p)
    <3>1. pc'[p] \notin Looking \/ (pc' = pc /\ pc[p] = "idle")
      BY <1>0, <2>1 DEF Deliver, DeliverGate, DeliverExpired, DeliverReplay,
         DeliverPublish, DeliverNote, DeliverRow
    <3> QED BY <1>1, <3>1
  <2>2. CASE Open(p)
    BY <1>0, <1>1, <2>2 DEF Open, OpenBegin, OpenRefuse, OpenMove, OpenUnlink, OpenNote
  <2>3. CASE Recover(p)
    <3>1. pc'[p] \in {"r_lock", "r_pick", "r_unpair", "r_row", "idle"}
      BY <1>0, <2>3 DEF Recover, RecoverBegin, RecoverList, RecoverBundle, RecoverUnpair,
         RecoverRow
    <3> QED BY <1>1, <3>1
  <2>4. CASE Sweep(p)
    <3>1. pc'[p] \in {"s_lock", "s_pick", "s_body", "s_left"}
      BY <1>0, <2>4 DEF Sweep, SweepBegin, SweepList, SweepRetain, SweepTombstone,
         SweepBody, SweepLeftover
    <3> QED BY <1>1, <3>1
  <2>5. CASE Reconcile(p) \/ PassDone(p) \/ PassRefuse(p) \/ LockTimeout(p) \/ Crash(p)
    BY <1>0, <1>1, <2>5 DEF Reconcile, ReconcileState, ReconcileRead, ReconcileRow,
       PassDone, PassRefuse, LockTimeout, Crash
  <2>6. CASE FinishExpiry(p) \/ FinishInbox(p) \/ FinishRead(p)
    <3>1. pc'[p] \in {"x_inbox", "x_read", "r_pick", "s_pick"}
      BY <1>0, <2>6 DEF FinishExpiry, FinishInbox, FinishRead, Pick
    <3> QED BY <1>1, <3>1
  <2> QED BY <1>6, <2>1, <2>2, <2>3, <2>4, <2>5, <2>6 DEF Moved, Step
<1> QED BY <1>5, <1>6

LEMMA NextScanInv == ScanInv /\ [Next]_vars => ScanInv'
<1> SUFFICES ASSUME ScanInv, [Next]_vars PROVE ScanInv'
  OBVIOUS
<1>0. IInv /\ IInv'
  BY NextIInv DEF ScanInv
<1>1. CASE UNCHANGED vars
  BY <1>0, <1>1 DEF vars, ScanInv, CopyInv, HasCopy, HasBody, SawInv, Saw, State
<1>2. CASE Next
  <2>1. PICK p \in Proc : Moved(p)
    BY <1>2 DEF Next, Moved
  <2>2. Frame(p) /\ FilesStep(p)
    BY <1>0, <2>1, StepFrame, StepFiles DEF IInv
  <2>3. Onward /\ \A f \in Envelope : tomb[f] # None => tomb'[f] = tomb[f]
    BY <1>0, <2>2, StepOnward, EvidenceKept
  <2>4. Gone
    BY <1>0, <2>1, StepGone DEF ScanInv
  <2>5. ASSUME NEW q \in Proc PROVE HasCopy(q)' /\ Saw(q)'
    BY <1>0, <2>1, <2>2, <2>3, <2>4, OthersCopy, OwnCopy, OthersSaw, OwnSaw DEF ScanInv
  <2> QED BY <1>0, <2>5 DEF ScanInv, CopyInv, SawInv
<1> QED BY <1>1, <1>2

LEMMA ScanInvTells == ScanInv => ScanTruth
<1> SUFFICES ASSUME ScanInv, NEW p \in Proc, pc[p] = "c_done"
             PROVE  /\ job[p].seen = {"tomb"} => ~HasBody(job[p].env)
                    /\ job[p].seen = {"read"} => State(job[p].env) \in {"read", "expired"}
                    /\ job[p].seen = {} => State(job[p].env) = "expired"
  BY DEF ScanTruth
<1>1. PICK e \in Envelope : job[p].env = e
  BY DEF ScanInv, IInv, Typing, JobShape, HasEnv
<1> QED BY <1>1 DEF ScanInv, SawInv, Saw, Looking, HasBody, Opened

\* The scan takes no lock and looks three times, and what it reports is true
\* nevertheless: an expired message has no body left, a read one was opened, and
\* one it finds nowhere has expired.
THEOREM ScanTellsTruth == Spec => []ScanTruth
<1>1. Init => ScanInv
  BY InitIInv DEF Init, ScanInv, CopyInv, HasCopy, SawInv, Saw, Looking
<1> QED BY <1>1, NextScanInv, ScanInvTells, PTL DEF Spec

-----------------------------------------------------------------------------
(* What a recover leaves behind.  While it holds the lock only it touches the
   bundles, and rows are only ever added, so what it has crossed off its list
   stays clean. *)

CleanOne(e) == ~HasPair(e) /\ (HasBody(e) => (tomb[e] = None /\ HasRow(e)))

\* The message in hand is still on the list; it leaves it clean.
Swept(p) ==
    /\ InRecover(p) => \A e \in Envelope : e \in job[p].todo \/ CleanOne(e)
    /\ \A e \in Envelope : job[p].env = e =>
          /\ pc[p] = "r_row" => ~HasPair(e) /\ tomb[e] = None
          /\ pc[p] = "x_read" => inbox[e] = None

SweptInv == \A p \in Proc : Swept(p)

RecoverInv == IInv /\ SweptInv

LEMMA DoneTakes ==
    ASSUME job \in [Proc -> Jobs], NEW p \in Proc, NEW e \in Envelope, Done(p, e)
    PROVE job'[p].todo = job[p].todo \ {e} /\ job'[p].env = None
<1> DEFINE j1 == [job EXCEPT ![p].todo = @ \ {e}]
           j2 == [j1 EXCEPT ![p].env = None]
<1>1. job' = [j2 EXCEPT ![p].at = None]
  BY DEF Done
<1>2. j1 \in [Proc -> Jobs] /\ j1[p].todo = job[p].todo \ {e}
  BY DEF Jobs
<1>3. j2 \in [Proc -> Jobs] /\ j2[p].todo = job[p].todo \ {e} /\ j2[p].env = None
  <2> HIDE DEF j1
  <2> QED BY <1>2 DEF Jobs
<1> HIDE DEF j2
<1> QED BY <1>1, <1>3 DEF Jobs

\* Rows are never taken away.
LEMMA RowsStay ==
    ASSUME IInv, RowStep, NEW e \in Envelope, HasRow(e)
    PROVE HasRow(e)'
<1>1. CASE index' = index
  BY <1>1 DEF HasRow
<1>2. ASSUME NEW f \in Envelope, NEW t \in Nat, index' = Append(index, [id |-> f, at |-> t])
      PROVE HasRow(e)'
  <2>1. index \in Seq(Rows) /\ [id |-> f, at |-> t] \in Rows
    BY DEF IInv, Typing, TypeOK, Rows
  <2>2. \A i \in DOMAIN index : i \in DOMAIN index' /\ index'[i] = index[i]
    BY <1>2, <2>1
  <2> QED BY <2>2 DEF HasRow
<1> QED BY <1>1, <1>2 DEF RowStep, WithRow

LEMMA OthersSwept ==
    ASSUME IInv, SweptInv, NEW p \in Proc, NEW q \in Proc \ {p}, Frame(p), FilesStep(p), RowStep
    PROVE Swept(q)'
<1>1. pc'[q] = pc[q] /\ job'[q] = job[q]
  BY DEF Frame
<1>2. pc[q] \in Holding => Quiet
  BY NoneAssumption DEF FilesStep, IInv, LockInv
<1>3. ASSUME InRecover(q), NEW e \in Envelope, CleanOne(e) PROVE CleanOne(e)'
  BY <1>2, <1>3, RowsStay DEF InRecover, Holding, Quiet, CleanOne, HasPair, HasBody
<1>4. InRecover(q)' => InRecover(q)
  BY <1>1 DEF InRecover
<1> QED BY <1>1, <1>2, <1>3, <1>4 DEF SweptInv, Swept, Holding, Quiet, HasPair

LEMMA OwnSwept ==
    ASSUME IInv, SweptInv, NEW p \in Proc, Moved(p), RowStep
    PROVE Swept(p)'
<1>0. /\ pc \in [Proc -> Holding \cup Waiting \cup LockFree] /\ job \in [Proc -> Jobs]
      /\ inbox \in [Envelope -> Bundles] /\ read \in [Envelope -> Bundles]
      /\ pc[p] \in HasEnv => job[p].env \in Envelope
      /\ pc[p] \in HasInstant => job[p].instant \in Nat
  BY DEF IInv, Typing, TypeOK, JobShape
<1>1. CASE pc'[p] \notin {"r_pick", "r_unpair", "r_row", "x_inbox", "x_read"}
  BY <1>1 DEF Swept, InRecover
<1>2. CASE RecoverList(p)
  <2>1. pc'[p] = "r_pick" /\ job'[p].todo = Live /\ UNCHANGED <<inbox, read, tomb, index>>
    BY <1>0, <1>2 DEF RecoverList, Goto, Jobs
  <2> QED BY <2>1 DEF Swept, Live, CleanOne, HasPair, HasBody
<1>3. CASE RecoverBundle(p)
  <2>1. PICK f \in Envelope, t \in Nat :
          /\ tomb[f] = None
          /\ Goto(p, "r_pick", IF HasPair(f) THEN "r_unpair" ELSE "r_row")
          /\ job'[p].env = f /\ job'[p].todo = job[p].todo
    <3>1. PICK f \in Envelope :
            /\ tomb[f] = None /\ Verifiable(f)
            /\ Goto(p, "r_pick", IF HasPair(f) THEN "r_unpair" ELSE "r_row")
            /\ job' = [job EXCEPT ![p].env = f, ![p].at = Bundle(f)]
      BY <1>3 DEF RecoverBundle
    <3>2. Bundle(f) \in Nat
      BY <3>1, BundleType DEF IInv, Typing, Verifiable
    <3>3. job'[p].env = f
      BY <1>0, <3>1, <3>2, JobEnvAt
    <3>4. job'[p].todo = job[p].todo
      BY <1>0, <3>1 DEF Jobs
    <3> QED BY <3>1, <3>2, <3>3, <3>4
  <2>2. UNCHANGED files /\ pc[p] = "r_pick"
        /\ pc'[p] = IF HasPair(f) THEN "r_unpair" ELSE "r_row"
    BY <1>0, <1>3, <2>1 DEF RecoverBundle, Goto
  <2>3. \A e \in Envelope : e \in job[p].todo \/ CleanOne(e)
    BY <2>2 DEF SweptInv, Swept, InRecover
  <2> QED BY <2>1, <2>2, <2>3 DEF Swept, files, CleanOne, HasPair, HasBody, HasRow
<1>4. CASE RecoverUnpair(p)
  <2>1. /\ pc[p] = "r_unpair" /\ pc'[p] = "r_row" /\ job' = job /\ job[p].env \in Envelope
        /\ inbox' = [inbox EXCEPT ![job[p].env] = None] /\ UNCHANGED <<read, tomb, index>>
    BY <1>0, <1>4 DEF RecoverUnpair, Goto, HasEnv
  <2>2. tomb[job[p].env] = None
    BY <2>1 DEF IInv, JobInv, JobOne, Knows
  <2>3. \A e \in Envelope : e \in job[p].todo \/ CleanOne(e)
    BY <2>1 DEF SweptInv, Swept, InRecover
  <2> QED BY <1>0, <2>1, <2>2, <2>3 DEF Swept, CleanOne, HasPair, HasBody, HasRow
<1>5. CASE RecoverRow(p)
  <2>1. CASE pc'[p] = "idle"
    BY <1>1, <2>1
  <2>2. CASE pc'[p] # "idle"
    <3>0. PICK e \in Envelope : e = job[p].env
      BY <1>0, <1>5 DEF RecoverRow, HasEnv
    <3>1. /\ pc[p] = "r_row" /\ pc'[p] = "r_pick" /\ e \in Envelope /\ Done(p, e)
          /\ index' = WithRow(e, job[p].at) /\ UNCHANGED <<inbox, read, tomb>>
      BY <1>0, <1>5, <2>2, <3>0 DEF RecoverRow, Goto, Return
    <3>2. job'[p].todo = job[p].todo \ {e}
      BY <1>0, <3>1, DoneTakes
    <3>3. ~HasPair(e) /\ tomb[e] = None
      BY <3>0, <3>1 DEF SweptInv, Swept
    <3>4. HasRow(e)'
      <4>1. CASE HasRow(e)
        BY <4>1, <3>1, RowsStay
      <4>2. CASE ~HasRow(e)
        <5>1. index \in Seq(Rows) /\ job[p].at \in Nat
          BY <3>1 DEF IInv, Typing, TypeOK, JobShape, HasAt
        <5>2. index' = Append(index, [id |-> e, at |-> job[p].at])
          BY <3>1, <4>2 DEF WithRow
        <5>3. index'[Len(index) + 1].id = e /\ Len(index) + 1 \in DOMAIN index'
          BY <5>1, <5>2
        <5> QED BY <5>3 DEF HasRow
      <4> QED BY <4>1, <4>2
    <3>5. CleanOne(e)'
      BY <3>1, <3>3, <3>4 DEF CleanOne, HasPair, HasBody
    <3>6. \A f \in Envelope : CleanOne(f) => CleanOne(f)'
      BY <3>1, RowsStay DEF CleanOne, HasPair, HasBody
    <3>7. \A f \in Envelope : f \in job[p].todo \/ CleanOne(f)
      BY <3>1 DEF SweptInv, Swept, InRecover
    <3> QED BY <3>1, <3>2, <3>5, <3>6, <3>7 DEF Swept
  <2> QED BY <2>1, <2>2
<1>6. CASE FinishExpiry(p)
  <2>1. PICK f \in Envelope :
          /\ Goto(p, Pick(p), IF inbox[f] # None THEN "x_inbox" ELSE "x_read")
          /\ job' = [job EXCEPT ![p].env = f]
    BY <1>6 DEF FinishExpiry
  <2>2. /\ job'[p].env = f /\ job'[p].todo = job[p].todo /\ job'[p].instant = job[p].instant
        /\ UNCHANGED files /\ pc[p] = Pick(p)
        /\ pc'[p] = IF inbox[f] # None THEN "x_inbox" ELSE "x_read"
    BY <1>0, <1>6, <2>1 DEF Jobs, FinishExpiry, Goto
  <2>3. job[p].instant = None => InRecover(p)
    BY <2>2 DEF Pick, InRecover
  <2>4. job[p].instant = None => \A e \in Envelope : e \in job[p].todo \/ CleanOne(e)
    BY <2>3 DEF SweptInv, Swept
  <2> QED BY <2>2, <2>4 DEF Swept, InRecover, files, CleanOne, HasPair, HasBody, HasRow
<1>7. CASE FinishInbox(p)
  <2>0. PICK e \in Envelope : e = job[p].env
    BY <1>0, <1>7 DEF FinishInbox, Goto, HasEnv
  <2>1. /\ pc[p] = "x_inbox" /\ e \in Envelope
        /\ inbox' = [inbox EXCEPT ![e] = None] /\ UNCHANGED <<read, tomb, index>>
        /\ \/ pc'[p] = "x_read" /\ job' = job
           \/ read[e] = None /\ pc'[p] = Pick(p) /\ Done(p, e)
    BY <1>0, <1>7, <2>0 DEF FinishInbox, Goto
  <2>2. job[p].instant = None => \A f \in Envelope : f \in job[p].todo \/ CleanOne(f)
    BY <2>1 DEF SweptInv, Swept, InRecover
  <2>3. \A f \in Envelope : CleanOne(f) => CleanOne(f)'
    BY <1>0, <2>1 DEF CleanOne, HasPair, HasBody, HasRow
  <2>4. CASE pc'[p] = "x_read" /\ job' = job
    BY <1>0, <2>0, <2>1, <2>2, <2>3, <2>4 DEF Swept, InRecover
  <2>5. CASE read[e] = None /\ pc'[p] = Pick(p) /\ Done(p, e)
    <3>1. job'[p].todo = job[p].todo \ {e}
      BY <1>0, <2>1, <2>5, DoneTakes
    <3>2. CleanOne(e)'
      BY <1>0, <2>1, <2>5 DEF CleanOne, HasPair, HasBody
    <3>3. pc'[p] = "s_pick" \/ (pc'[p] = "r_pick" /\ job[p].instant = None)
      BY <2>5 DEF Pick
    <3> QED BY <2>2, <2>3, <3>1, <3>2, <3>3 DEF Swept, InRecover
  <2> QED BY <2>1, <2>4, <2>5
<1>8. CASE FinishRead(p)
  <2>0. PICK e \in Envelope : e = job[p].env
    BY <1>0, <1>8 DEF FinishRead, Goto, HasEnv
  <2>1. /\ pc[p] = "x_read" /\ pc'[p] = Pick(p) /\ e \in Envelope /\ Done(p, e)
        /\ read' = [read EXCEPT ![e] = None] /\ UNCHANGED <<inbox, tomb, index>>
    BY <1>0, <1>8, <2>0 DEF FinishRead, Goto
  <2>2. job[p].instant = None => \A f \in Envelope : f \in job[p].todo \/ CleanOne(f)
    BY <2>1 DEF SweptInv, Swept, InRecover
  <2>3. \A f \in Envelope : CleanOne(f) => CleanOne(f)'
    BY <1>0, <2>1 DEF CleanOne, HasPair, HasBody, HasRow
  <2>4. job'[p].todo = job[p].todo \ {e}
    BY <1>0, <2>1, DoneTakes
  <2>5. CleanOne(e)'
    BY <1>0, <2>0, <2>1 DEF SweptInv, Swept, CleanOne, HasPair, HasBody
  <2>6. pc'[p] = "s_pick" \/ (pc'[p] = "r_pick" /\ job[p].instant = None)
    BY <2>1 DEF Pick
  <2> QED BY <2>2, <2>3, <2>4, <2>5, <2>6 DEF Swept, InRecover
<1>9. CASE Deliver(p) \/ Open(p)
  <2>1. pc'[p] \in {"idle", "d_lock", "d_note", "d_row", "o_lock", "o_unlink", "o_note"}
    BY <1>0, <1>9 DEF Deliver, DeliverGate, DeliverExpired, DeliverReplay, DeliverPublish,
       DeliverNote, DeliverRow, Open, OpenBegin, OpenRefuse, OpenMove, OpenUnlink, OpenNote,
       Goto, Return
  <2> QED BY <1>1, <2>1
<1>10. CASE Recover(p)
  <2>1. CASE RecoverBegin(p)
    BY <1>0, <1>1, <2>1 DEF RecoverBegin, Goto
  <2> QED BY <1>2, <1>3, <1>4, <1>5, <1>10, <2>1 DEF Recover
<1>11. CASE Sweep(p)
  <2>1. pc'[p] \in {"s_lock", "s_pick", "s_body", "s_left"}
    BY <1>0, <1>11 DEF Sweep, SweepBegin, SweepList, SweepRetain, SweepTombstone,
       SweepBody, SweepLeftover, Goto
  <2> QED BY <1>1, <2>1
<1>12. CASE Scan(p) \/ Reconcile(p)
  <2>1. pc'[p] \in {"idle", "c_inbox", "c_read", "c_done", "k_read", "k_row"}
    BY <1>0, <1>12 DEF Scan, ScanTombstone, ScanInbox, ScanRead, ScanReport, Reconcile,
       ReconcileState, ReconcileRead, ReconcileRow, Goto, Return
  <2> QED BY <1>1, <2>1
<1>13. CASE PassDone(p) \/ PassRefuse(p) \/ LockTimeout(p) \/ Crash(p)
  <2>1. pc'[p] = "idle"
    BY <1>0, <1>13 DEF PassDone, PassRefuse, LockTimeout, Crash, Return
  <2> QED BY <1>1, <2>1
<1> QED BY <1>6, <1>7, <1>8, <1>9, <1>10, <1>11, <1>12, <1>13 DEF Moved, Step

LEMMA NextRecoverInv == RecoverInv /\ [Next]_vars => RecoverInv'
<1> SUFFICES ASSUME RecoverInv, [Next]_vars PROVE RecoverInv'
  OBVIOUS
<1>0. IInv /\ IInv'
  BY NextIInv DEF RecoverInv
<1>1. CASE UNCHANGED vars
  BY <1>0, <1>1 DEF vars, RecoverInv, SweptInv, Swept, InRecover, CleanOne, HasPair,
     HasBody, HasRow
<1>2. CASE Next
  <2>1. PICK p \in Proc : Moved(p)
    BY <1>2 DEF Next, Moved
  <2>2. Frame(p) /\ FilesStep(p) /\ RowStep
    BY <1>0, <2>1, StepFrame, StepFiles, StepRow DEF IInv
  <2>3. ASSUME NEW q \in Proc PROVE Swept(q)'
    BY <1>0, <2>1, <2>2, OthersSwept, OwnSwept DEF RecoverInv
  <2> QED BY <1>0, <2>3 DEF RecoverInv, SweptInv
<1> QED BY <1>1, <1>2

LEMMA RecoverInvKept == Spec => []RecoverInv
<1>1. Init => RecoverInv
  BY InitIInv DEF Init, RecoverInv, SweptInv, Swept, InRecover
<1> QED BY <1>1, NextRecoverInv, PTL DEF Spec

\* A recover that gets through its list leaves a clean mailbox, whatever crashed
\* before it and although rows are repaired beside it without the lock.
THEOREM RecoverLeavesClean == Spec => RecoverEndsClean
<1>1. ASSUME RecoverInv
      PROVE \A p \in Proc : (pc[p] = "r_pick" /\ job[p].todo = {}) => Clean
  BY <1>1 DEF RecoverInv, SweptInv, Swept, InRecover, CleanOne, Clean
<1>2. RecoverInv => (\A p \in Proc :
          (pc[p] = "r_pick" /\ job[p].todo = {} /\ pc'[p] = "idle" /\ crashes' = crashes)
              => Clean)
  BY <1>1
<1> QED BY <1>2, RecoverInvKept, PTL DEF RecoverEndsClean

-----------------------------------------------------------------------------
(* When a recover may promise not to refuse: no death lands inside an rmtree,
   no registry changes its mind, and all processes were given one policy. *)

OnePolicy ==
    /\ Refusable = {}
    /\ TearsDeletes = FALSE
    /\ \A p, q \in Proc : DefaultTTL[p] = DefaultTTL[q]

Undamaged == \A e \in Envelope : inbox[e] # Torn /\ read[e] # Torn

\* Every tombstone is what any process would write now.
OneTTL == \A e \in Envelope, p \in Proc : tomb[e] # None =>
    /\ tomb[e].ttl = EffectiveTTL(p, e)
    /\ tomb[e].expired >= tomb[e].received + tomb[e].ttl

Listed(p) == InRecover(p) => job[p].todo \subseteq Live

ConvergeInv ==
    /\ RecoverInv /\ CopyInv
    /\ Undamaged /\ OneTTL /\ \A p \in Proc : Listed(p)

LEMMA StepUndamaged ==
    ASSUME OnePolicy, IInv, Undamaged, NEW p \in Proc, Moved(p)
    PROVE Undamaged'
<1>0. /\ inbox \in [Envelope -> Bundles] /\ read \in [Envelope -> Bundles]
      /\ pc[p] \in HasEnv => job[p].env \in Envelope
  BY DEF IInv, Typing, TypeOK, JobShape
<1>1. CASE UNCHANGED <<inbox, read>>
  BY <1>1 DEF Undamaged
<1>2. CASE DeliverPublish(p)
  <2>1. PICK t \in Time : inbox' = [inbox EXCEPT ![job[p].env] = t] /\ UNCHANGED read
    BY <1>2 DEF DeliverPublish
  <2>2. t # Torn
    BY TimeAssumption, TornAssumption
  <2> QED BY <1>0, <2>1, <2>2 DEF Undamaged
<1>3. CASE OpenMove(p)
  BY <1>0, <1>3, TornAssumption DEF OpenMove, Undamaged, HasEnv
<1>4. CASE OpenUnlink(p) \/ RecoverUnpair(p) \/ FinishInbox(p) \/ FinishRead(p)
           \/ SweepBody(p) \/ SweepLeftover(p)
  BY <1>0, <1>4, TornAssumption DEF Undamaged, OpenUnlink, RecoverUnpair, FinishInbox,
     FinishRead, SweepBody, SweepLeftover
<1>5. CASE Deliver(p) \/ Open(p)
  BY <1>1, <1>2, <1>3, <1>4, <1>5 DEF Deliver, DeliverGate, DeliverExpired, DeliverReplay,
     DeliverNote, DeliverRow, Open, OpenBegin, OpenRefuse, OpenNote, files
<1>6. CASE Recover(p) \/ Sweep(p)
  BY <1>1, <1>4, <1>6 DEF files, Recover, RecoverBegin, RecoverList, RecoverBundle,
     RecoverRow, Sweep, SweepBegin, SweepList, SweepRetain, SweepTombstone
<1>7. CASE ~(Deliver(p) \/ Open(p) \/ Recover(p) \/ Sweep(p))
  BY <1>1, <1>4, <1>7 DEF OnePolicy, Moved, Step, files, Scan, ScanTombstone, ScanInbox,
     ScanRead, ScanReport, Reconcile, ReconcileState, ReconcileRead, ReconcileRow,
     PassDone, PassRefuse, LockTimeout, FinishExpiry, Crash
<1> QED BY <1>5, <1>6, <1>7

LEMMA StepOneTTL ==
    ASSUME OnePolicy, IInv, OneTTL, NEW p \in Proc, FilesStep(p)
    PROVE OneTTL'
<1>1. CASE tomb' = tomb
  BY <1>1 DEF OneTTL, EffectiveTTL
<1>2. ASSUME NEW e \in Envelope, Buries(p, e) PROVE OneTTL'
  <2>1. PICK t \in Nat :
          /\ t >= Bundle(e) + EffectiveTTL(p, e)
          /\ tomb' = [tomb EXCEPT ![e] = [received |-> Bundle(e), expired |-> t,
                                          ttl |-> EffectiveTTL(p, e)]]
    BY <1>2 DEF Buries
  <2>2. tomb \in [Envelope -> Tombstones \cup {None}]
    BY DEF IInv, Typing, TypeOK
  <2>3. \A q \in Proc : EffectiveTTL(q, e) = EffectiveTTL(p, e)
    BY DEF OnePolicy, EffectiveTTL
  <2>4. \A f \in Envelope \ {e} : tomb'[f] = tomb[f]
    BY <2>1, <2>2
  <2>5. /\ tomb'[e].ttl = EffectiveTTL(p, e)
        /\ tomb'[e].expired >= tomb'[e].received + tomb'[e].ttl
    BY <2>1, <2>2
  <2> QED BY <2>3, <2>4, <2>5 DEF OneTTL, EffectiveTTL
<1> QED BY <1>1, <1>2 DEF FilesStep, Writes, Quiet, Publishes, Moves, DropsInbox, DropsRead

LEMMA OthersListed ==
    ASSUME IInv, NEW p \in Proc, NEW q \in Proc \ {p}, Listed(q), Frame(p), FilesStep(p)
    PROVE Listed(q)'
<1>1. pc'[q] = pc[q] /\ job'[q] = job[q]
  BY DEF Frame
<1>2. pc[q] \in Holding => Quiet
  BY NoneAssumption DEF FilesStep, IInv, LockInv
<1> QED BY <1>1, <1>2 DEF Listed, InRecover, Holding, Quiet, Live, HasBody

LEMMA OwnListed ==
    ASSUME IInv, CopyInv, NEW p \in Proc, Listed(p), Moved(p)
    PROVE Listed(p)'
<1>0. /\ pc \in [Proc -> Holding \cup Waiting \cup LockFree] /\ job \in [Proc -> Jobs]
      /\ inbox \in [Envelope -> Bundles] /\ read \in [Envelope -> Bundles]
      /\ pc[p] \in HasEnv => job[p].env \in Envelope
  BY DEF IInv, Typing, TypeOK, JobShape
<1>1. CASE pc'[p] \notin {"r_pick", "r_unpair", "r_row", "x_inbox", "x_read"}
  BY <1>1 DEF Listed, InRecover
<1>2. CASE RecoverList(p)
  <2>1. job'[p].todo = Live /\ UNCHANGED <<inbox, read>>
    BY <1>0, <1>2 DEF RecoverList, Jobs
  <2> QED BY <2>1 DEF Listed, Live, HasBody
<1>3. CASE RecoverBundle(p)
  <2>1. PICK f \in Envelope :
          /\ tomb[f] = None /\ Verifiable(f)
          /\ job' = [job EXCEPT ![p].env = f, ![p].at = Bundle(f)]
    BY <1>3 DEF RecoverBundle
  <2>2. job'[p].todo = job[p].todo
    BY <1>0, <2>1 DEF Jobs
  <2>3. pc[p] = "r_pick" /\ UNCHANGED files
    BY <1>3 DEF RecoverBundle, Goto
  <2> QED BY <2>2, <2>3 DEF Listed, InRecover, Live, HasBody, files
<1>4. CASE RecoverUnpair(p)
  <2>1. /\ pc[p] = "r_unpair" /\ job' = job /\ job[p].env \in Envelope
        /\ inbox' = [inbox EXCEPT ![job[p].env] = None] /\ UNCHANGED read
    BY <1>0, <1>4 DEF RecoverUnpair, Goto, HasEnv
  <2>2. read[job[p].env] # None
    BY <2>1, NoneAssumption DEF IInv, JobInv, JobOne, Knows
  <2> QED BY <1>0, <2>1, <2>2 DEF Listed, InRecover, Live, HasBody
<1>5. CASE RecoverRow(p)
  <2>1. \/ pc'[p] = "idle"
        \/ /\ pc[p] = "r_row" /\ job[p].env \in Envelope /\ Done(p, job[p].env)
           /\ UNCHANGED <<inbox, read>>
    BY <1>0, <1>5 DEF RecoverRow, Goto, Return, HasEnv
  <2>2. CASE pc'[p] = "idle"
    BY <1>1, <2>2
  <2>3. CASE /\ pc[p] = "r_row" /\ job[p].env \in Envelope /\ Done(p, job[p].env)
             /\ UNCHANGED <<inbox, read>>
    <3>1. job'[p].todo \subseteq job[p].todo
      BY <1>0, <2>3, DoneTakes
    <3> QED BY <2>3, <3>1 DEF Listed, InRecover, Live, HasBody
  <2> QED BY <2>1, <2>2, <2>3
<1>6. CASE FinishExpiry(p)
  <2>1. PICK f \in Envelope : job' = [job EXCEPT ![p].env = f]
    BY <1>6 DEF FinishExpiry
  <2>2. /\ job'[p].todo = job[p].todo /\ job'[p].instant = job[p].instant
        /\ UNCHANGED files /\ pc[p] = Pick(p) /\ pc'[p] \in {"x_inbox", "x_read"}
    BY <1>0, <1>6, <2>1 DEF Jobs, FinishExpiry, Goto
  <2> QED BY <2>2 DEF Listed, InRecover, Pick, Live, HasBody, files
<1>7. CASE FinishInbox(p)
  <2>0. PICK e \in Envelope : e = job[p].env
    BY <1>0, <1>7 DEF FinishInbox, Goto, HasEnv
  <2>1. /\ pc[p] = "x_inbox"
        /\ inbox' = [inbox EXCEPT ![e] = None] /\ UNCHANGED read
        /\ \/ read[e] # None /\ pc'[p] = "x_read" /\ job' = job
           \/ pc'[p] = Pick(p) /\ Done(p, e)
    BY <1>0, <1>7, <2>0 DEF FinishInbox, Goto
  <2>2. job[p].instant = None => job[p].todo \subseteq Live
    BY <2>1 DEF Listed, InRecover
  <2>3. \A f \in Envelope \ {e} : f \in Live => HasBody(f)'
    BY <1>0, <2>1 DEF Live, HasBody
  <2>4. CASE read[e] # None /\ pc'[p] = "x_read" /\ job' = job
    <3>1. HasBody(e)'
      BY <2>1, <2>4 DEF HasBody
    <3>2. job[p].instant = None => \A f \in job[p].todo : f \in Envelope /\ HasBody(f)'
      BY <2>2, <2>3, <3>1 DEF Live
    <3>3. InRecover(p)' => job[p].instant = None
      BY <2>4 DEF InRecover
    <3> QED BY <2>4, <3>2, <3>3 DEF Listed, Live
  <2>5. CASE pc'[p] = Pick(p) /\ Done(p, e)
    <3>1. job'[p].todo = job[p].todo \ {e}
      BY <1>0, <2>5, DoneTakes
    <3>2. pc'[p] = "s_pick" \/ job[p].instant = None
      BY <2>5 DEF Pick
    <3>3. job[p].instant = None => \A f \in job'[p].todo : f \in Envelope /\ HasBody(f)'
      BY <2>2, <2>3, <3>1 DEF Live
    <3> QED BY <3>2, <3>3 DEF Listed, InRecover, Live
  <2> QED BY <2>1, <2>4, <2>5
<1>8. CASE FinishRead(p)
  <2>0. PICK e \in Envelope : e = job[p].env
    BY <1>0, <1>8 DEF FinishRead, Goto, HasEnv
  <2>1. /\ pc[p] = "x_read" /\ pc'[p] = Pick(p) /\ Done(p, e)
        /\ read' = [read EXCEPT ![e] = None] /\ UNCHANGED inbox
    BY <1>0, <1>8, <2>0 DEF FinishRead, Goto
  <2>2. job[p].instant = None => job[p].todo \subseteq Live
    BY <2>1 DEF Listed, InRecover
  <2>3. job'[p].todo = job[p].todo \ {e}
    BY <1>0, <2>1, DoneTakes
  <2>4. pc'[p] = "s_pick" \/ job[p].instant = None
    BY <2>1 DEF Pick
  <2>5. \A f \in Envelope \ {e} : f \in Live => HasBody(f)'
    BY <1>0, <2>1 DEF Live, HasBody
  <2>6. job[p].instant = None => \A f \in job'[p].todo : f \in Envelope /\ HasBody(f)'
    BY <2>2, <2>3, <2>5 DEF Live
  <2> QED BY <2>4, <2>6 DEF Listed, InRecover, Live
<1>9. CASE Deliver(p) \/ Open(p)
  <2>1. pc'[p] \in {"idle", "d_lock", "d_note", "d_row", "o_lock", "o_unlink", "o_note"}
    BY <1>0, <1>9 DEF Deliver, DeliverGate, DeliverExpired, DeliverReplay, DeliverPublish,
       DeliverNote, DeliverRow, Open, OpenBegin, OpenRefuse, OpenMove, OpenUnlink, OpenNote,
       Goto, Return
  <2> QED BY <1>1, <2>1
<1>10. CASE Recover(p)
  <2>1. CASE RecoverBegin(p)
    BY <1>0, <1>1, <2>1 DEF RecoverBegin, Goto
  <2> QED BY <1>2, <1>3, <1>4, <1>5, <1>10, <2>1 DEF Recover
<1>11. CASE Sweep(p)
  <2>1. pc'[p] \in {"s_lock", "s_pick", "s_body", "s_left"}
    BY <1>0, <1>11 DEF Sweep, SweepBegin, SweepList, SweepRetain, SweepTombstone,
       SweepBody, SweepLeftover, Goto
  <2> QED BY <1>1, <2>1
<1>12. CASE Scan(p) \/ Reconcile(p)
  <2>1. pc'[p] \in {"idle", "c_inbox", "c_read", "c_done", "k_read", "k_row"}
    BY <1>0, <1>12 DEF Scan, ScanTombstone, ScanInbox, ScanRead, ScanReport, Reconcile,
       ReconcileState, ReconcileRead, ReconcileRow, Goto, Return
  <2> QED BY <1>1, <2>1
<1>13. CASE PassDone(p) \/ PassRefuse(p) \/ LockTimeout(p) \/ Crash(p)
  <2>1. pc'[p] = "idle"
    BY <1>0, <1>13 DEF PassDone, PassRefuse, LockTimeout, Crash, Return
  <2> QED BY <1>1, <2>1
<1> QED BY <1>6, <1>7, <1>8, <1>9, <1>10, <1>11, <1>12, <1>13 DEF Moved, Step

LEMMA NextConvergeInv ==
    ASSUME OnePolicy
    PROVE ConvergeInv /\ [Next]_vars => ConvergeInv'
<1> SUFFICES ASSUME ConvergeInv, [Next]_vars PROVE ConvergeInv'
  OBVIOUS
<1>0. IInv /\ RecoverInv'
  BY NextRecoverInv DEF ConvergeInv, RecoverInv
<1>1. CASE UNCHANGED vars
  BY <1>0, <1>1 DEF vars, ConvergeInv, CopyInv, HasCopy, HasBody, Undamaged, OneTTL,
     EffectiveTTL, Listed, InRecover, Live
<1>2. CASE Next
  <2>1. PICK p \in Proc : Moved(p)
    BY <1>2 DEF Next, Moved
  <2>2. Frame(p) /\ FilesStep(p)
    BY <1>0, <2>1, StepFrame, StepFiles DEF IInv
  <2>3. Undamaged' /\ OneTTL'
    BY <1>0, <2>1, <2>2, StepUndamaged, StepOneTTL DEF ConvergeInv
  <2>4. ASSUME NEW q \in Proc PROVE HasCopy(q)' /\ Listed(q)'
    BY <1>0, <2>1, <2>2, OthersCopy, OwnCopy, OthersListed, OwnListed DEF ConvergeInv
  <2> QED BY <1>0, <2>3, <2>4 DEF ConvergeInv, CopyInv
<1> QED BY <1>1, <1>2

\* The object in hand has no reason to refuse.
LEMMA Acceptable ==
    ASSUME OnePolicy, ConvergeInv, NEW p \in Proc, NEW e \in Envelope, HasBody(e)
    PROVE /\ tomb[e] = None => Verifiable(e)
          /\ (tomb[e] # None /\ ~tail) => Finishable(p, e)
<1>1. inbox[e] \in Nat \cup {None} /\ read[e] \in Nat \cup {None}
  BY DEF ConvergeInv, Undamaged, RecoverInv, IInv, Typing, TypeOK, Bundles
<1>2. /\ inbox[e] \in Nat => inbox[e] = Received(e)
      /\ read[e] \in Nat => read[e] = Received(e)
  BY DEF ConvergeInv, RecoverInv, IInv, ReceiptsAgree
<1>3. Bundle(e) \in Nat /\ Bundle(e) = Received(e) /\ Reconcilable(e)
  BY <1>1, <1>2, TornAssumption, NoneAssumption DEF HasBody, Bundle, Reconcilable, HasPair
<1>4. tomb[e] = None => Verifiable(e)
  BY <1>3, TornAssumption, NoneAssumption DEF Verifiable
<1>5. ASSUME tomb[e] # None, ~tail PROVE Finishable(p, e)
  <2>1. Bundle(e) = tomb[e].received
    BY <1>3, <1>5 DEF Received
  <2>2. RowIs(e, tomb[e].received)
    BY <1>5 DEF ConvergeInv, RecoverInv, IInv, TombstoneTruth
  <2>3. tomb[e].ttl = EffectiveTTL(p, e) /\ tomb[e].expired >= tomb[e].received + tomb[e].ttl
    BY <1>5 DEF ConvergeInv, OneTTL
  <2> QED BY <1>3, <1>5, <2>1, <2>2, <2>3 DEF Finishable
<1> QED BY <1>4, <1>5

LEMMA RecoverEnds ==
    ASSUME OnePolicy, ConvergeInv, [Next]_vars, NEW p \in Proc, InRecover(p), pc'[p] = "idle",
           crashes' = crashes
    PROVE Clean \/ tail
<1>0. /\ IInv /\ pc \in [Proc -> Holding \cup Waiting \cup LockFree] /\ job \in [Proc -> Jobs]
      /\ crashes \in Nat
  BY DEF ConvergeInv, RecoverInv, IInv, Typing, TypeOK
<1>1. pc[p] \in {"r_pick", "r_unpair", "r_row", "x_inbox", "x_read"}
  BY DEF InRecover
<1>2. PICK q \in Proc : Moved(q)
  BY <1>1 DEF Next, Moved, vars
<1>3. q = p
  <2>1. q # p => pc'[p] = pc[p]
    BY <1>0, <1>2, StepFrame DEF IInv, Frame
  <2> QED BY <1>1, <2>1
<1>4. PassDone(p) \/ PassRefuse(p) \/ RecoverRow(p)
  <2>1. ~Deliver(p) /\ ~Open(p) /\ ~Scan(p) /\ ~Reconcile(p) /\ ~LockTimeout(p)
    BY <1>1 DEF Deliver, DeliverGate, DeliverExpired, DeliverReplay, DeliverPublish,
       DeliverNote, DeliverRow, Open, OpenBegin, OpenRefuse, OpenMove, OpenUnlink,
       OpenNote, Scan, ScanTombstone, ScanInbox, ScanRead, ScanReport, Reconcile,
       ReconcileState, ReconcileRead, ReconcileRow, LockTimeout, Waiting, Goto
  <2>2. ~Sweep(p) /\ ~Crash(p)
    BY <1>0, <1>1 DEF Sweep, SweepBegin, SweepList, SweepRetain, SweepTombstone, SweepBody,
       SweepLeftover, Crash, Goto
  <2>3. ~FinishExpiry(p) /\ ~FinishInbox(p) /\ ~FinishRead(p)
    BY <1>0 DEF FinishExpiry, FinishInbox, FinishRead, Goto, Pick
  <2>4. ~RecoverBegin(p) /\ ~RecoverList(p) /\ ~RecoverBundle(p) /\ ~RecoverUnpair(p)
    BY <1>0 DEF RecoverBegin, RecoverList, RecoverBundle, RecoverUnpair, Goto
  <2> QED BY <1>2, <1>3, <2>1, <2>2, <2>3, <2>4 DEF Moved, Step, Recover
<1>5. CASE PassDone(p)
  <2>1. job[p].todo = {}
    BY <1>5 DEF PassDone
  <2> QED BY <2>1 DEF ConvergeInv, RecoverInv, SweptInv, Swept, CleanOne, Clean
<1>6. CASE PassRefuse(p)
  <2>1. pc[p] = "r_pick"
    BY <1>1, <1>6 DEF PassRefuse
  <2>2. PICK e \in Envelope :
          /\ First(p, e)
          /\ \/ e \in Refusable
             \/ tomb[e] # None /\ ~Finishable(p, e)
             \/ tomb[e] = None /\ ~Verifiable(e)
    BY <1>6, <2>1 DEF PassRefuse
  <2>3. HasBody(e)
    BY <2>2 DEF First, ConvergeInv, Listed, Live
  <2>4. e \notin Refusable
    BY DEF OnePolicy
  <2> QED BY <2>2, <2>3, <2>4, Acceptable
<1>7. CASE RecoverRow(p)
  <2>1. ~RowAccepted(job[p].env, job[p].at) /\ pc[p] = "r_row"
    BY <1>0, <1>7 DEF RecoverRow, Goto
  <2>2. PICK e \in Envelope : e = job[p].env
    BY <1>0, <2>1 DEF IInv, Typing, JobShape, HasEnv
  <2>3. Received(e) = job[p].at
    BY <1>0, <2>1, <2>2 DEF IInv, JobInv, JobOne, Knows, HasAt
  <2>4. HasRow(e) => RowIs(e, job[p].at)
    <3>1. SUFFICES ASSUME NEW i \in DOMAIN index, index[i].id = e
                   PROVE index[i] = [id |-> e, at |-> job[p].at]
      BY DEF HasRow, RowIs
    <3>2. index[i].at = job[p].at /\ index[i] \in Rows
      BY <1>0, <2>3, <3>1 DEF IInv, IndexTruth, Typing, TypeOK
    <3> QED BY <3>1, <3>2 DEF Rows
  <2> QED BY <2>1, <2>2, <2>4 DEF RowAccepted
<1> QED BY <1>4, <1>5, <1>6, <1>7

\* Where no death lands inside an rmtree and every process accepts the same keys
\* under the same policy, one recover that is not killed itself leaves a clean
\* mailbox, whatever the crashes before it left, unless ledger.reconcile died in
\* an append beside it.
THEOREM OneRecoverConverges == ASSUME OnePolicy PROVE Spec => RecoverConverges
<1>1. Init => ConvergeInv
  BY InitIInv, TornAssumption, NoneAssumption
     DEF Init, ConvergeInv, RecoverInv, SweptInv, Swept, InRecover, CopyInv, HasCopy,
         Undamaged, OneTTL, Listed
<1>2. ConvergeInv /\ [Next]_vars => ConvergeInv'
  BY NextConvergeInv
<1>3. ConvergeInv /\ [Next]_vars =>
        (\A p \in Proc : (InRecover(p) /\ pc'[p] = "idle" /\ crashes' = crashes)
            => (Clean \/ tail))
  BY RecoverEnds
<1> QED BY <1>1, <1>2, <1>3, PTL DEF Spec, RecoverConverges
=============================================================================
