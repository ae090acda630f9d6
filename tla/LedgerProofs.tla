---------------------------- MODULE LedgerProofs ----------------------------
(***************************************************************************)
(* Proofs about Ledger, for every set of processes, messages and bounds:   *)
(* the hash chain never breaks, the feed's follower misses nothing, and    *)
(* only faults cost a note.                                                *)
(*                                                                         *)
(* Readers take no OS lock, so the argument is about stamps: with the same *)
(* number of rows the last line only ever goes from "no newline yet" to    *)
(* something else, never back, hence a stamp that is the same before and   *)
(* after a load proves that the loaded value is the file (CallOK).         *)
(***************************************************************************)
EXTENDS Ledger, TLAPS, SequenceTheorems

\* What the call p is in has established so far.
CallOK(p) ==
    /\ job[p].kind = "append" /\ job[p].step # "idle" =>
          lock = p /\ errand[p] # None /\ errand[p].notes # <<>>
    /\ job[p].step \in {"open", "write"} => job[p].kind = "append" /\ cache[p] # None
    /\ job[p].step = "window" => job[p].kind # "append" /\ cache[p] # None
    /\ job[p].step \in {"read", "confirm"} => job[p].before # None
    /\ job[p].step = "read" =>
          /\ job[p].before.rows <= Len(file)
          /\ job[p].before.rows = Len(file) /\ job[p].before.tail # "bare" => tail # "bare"
    /\ job[p].step = "confirm" =>
          /\ job[p].value # None
          /\ job[p].before.rows <= job[p].value.rows
          /\ job[p].value.rows <= Len(file)
          /\ job[p].value.rows > 0 => job[p].value.first = file[1].seq
          /\ job[p].value.rows = Len(file) /\ tail = "bare" => ~job[p].value.ended
          /\ job[p].before.rows = job[p].value.rows /\ job[p].before.tail # "bare"
                => job[p].value.ended
    /\ job[p].step = "write" =>
          /\ tail = "bare" => Len(file) = cache[p].value.rows + 1
          /\ tail # "bare" => Len(file) = cache[p].value.rows
          /\ tail = "bare" /\ cache[p].value.rows = 0 => file[1].seq = 1

\* A snapshot tells the truth about the prefix it was made from.
CacheOK(p) ==
    cache[p] # None =>
       /\ cache[p].value.rows = cache[p].stamp.rows
       /\ cache[p].stamp.rows <= Len(file)
       /\ cache[p].stamp.rows > 0 => cache[p].value.first = file[1].seq
       /\ cache[p].value.ended = (cache[p].stamp.tail # "bare")

FileOK == Chained /\ (file # <<>> => file[1].seq >= 1)

FollowOK ==
    /\ FollowerMissesNothing
    /\ follower.heard # <<>> =>
          /\ file # <<>> /\ file[1].seq <= follower.cursor
          /\ follower.cursor <= file[1].seq + (Len(file) - 1)

IInv ==
    /\ LedgerTypeOK
    /\ \A p \in Proc : CallOK(p) /\ CacheOK(p)
    /\ FileOK
    /\ FollowOK

-----------------------------------------------------------------------------
\* What a step of p may do to the shared file while others are in their calls.
Moves(p) ==
    /\ \/ file' = file /\ (tail' = tail \/ tail' # "bare")
       \/ \E r \in Rows : file' = Append(file, r)
    /\ (file' = file /\ tail' = tail) \/ lock = p
    /\ lock' = lock \/ lock = None \/ lock = p

\* A step of p leaves the calls and snapshots of the others as good as they were.
LEMMA OthersKeep ==
    ASSUME NEW p \in Proc, NEW q \in Proc, q # p, LedgerTypeOK, Moves(p),
           CallOK(q), CacheOK(q), job'[q] = job[q], cache'[q] = cache[q],
           errand'[q] = errand[q]
    PROVE  CallOK(q)' /\ CacheOK(q)'
<1>0. q # None
  BY NoneAssumption
<1>1. /\ file \in Seq(Rows) /\ Len(file) \in Nat
      /\ job[q] \in Jobs /\ cache[q] \in Caches \cup {None}
  BY DEF LedgerTypeOK
<1>2. CASE file' = file /\ (tail' = tail \/ tail' # "bare")
  <2>1. CacheOK(q)'
    BY <1>2 DEF CacheOK
  <2>2. CallOK(q)'
    BY <1>0, <1>2 DEF CallOK, Moves
  <2> QED BY <2>1, <2>2
<1>3. ASSUME NEW r \in Rows, file' = Append(file, r)
      PROVE  CallOK(q)' /\ CacheOK(q)'
  <2>1. /\ Len(file') = Len(file) + 1
        /\ Len(file) > 0 => file'[1] = file[1]
    BY <1>1, <1>3
  <2>2. file' # file
    BY <2>1, <1>1
  <2>3. lock = p
    BY <2>2 DEF Moves
  <2>4. /\ cache[q] # None => cache[q].stamp.rows \in Nat
        /\ job[q].before # None => job[q].before.rows \in Nat
        /\ job[q].value # None => job[q].value.rows \in Nat
    BY <1>1 DEF Caches, Stamps, Jobs, Snapshots
  <2>5. CacheOK(q)'
    BY <2>1, <2>4, <1>1 DEF CacheOK
  <2>6. ~(job[q].kind = "append" /\ job[q].step # "idle")
    BY <2>3 DEF CallOK
  <2>7. job[q].step \notin {"open", "write"}
    BY <2>6 DEF CallOK
  <2>8. CallOK(q)'
    BY <2>1, <2>4, <2>6, <2>7, <1>1 DEF CallOK
  <2> QED BY <2>5, <2>8
<1> QED BY <1>2, <1>3 DEF Moves

\* The follower's account is about rows that are never removed.
LEMMA FollowerKept ==
    ASSUME LedgerTypeOK, FollowOK, UNCHANGED follower,
           file' = file \/ \E r \in Rows : file' = Append(file, r)
    PROVE  FollowOK'
<1>1. file \in Seq(Rows) /\ follower.heard \in Seq(Nat)
      /\ follower.cursor \in Nat
  BY DEF LedgerTypeOK
<1>2. FollowerMissesNothing'
  BY DEF FollowOK, FollowerMissesNothing
<1>3. CASE file' = file
  BY <1>2, <1>3 DEF FollowOK
<1>4. ASSUME NEW r \in Rows, file' = Append(file, r)
      PROVE  FollowOK'
  <2>0. file # <<>> => file[1] \in Rows
    BY <1>1
  <2>1. /\ Len(file') = Len(file) + 1 /\ Len(file) \in Nat
        /\ file # <<>> => file'[1] = file[1]
        /\ file # <<>> => file[1].seq \in Nat
    <3>1. file # <<>> => file[1].seq \in Nat
      BY <2>0 DEF Rows
    <3> QED BY <1>1, <1>4, <3>1
  <2>2. file' # <<>>
    BY <2>1, <1>4, <1>1
  <2> QED BY <1>1, <1>2, <2>1, <2>2 DEF FollowOK
<1> QED BY <1>3, <1>4

\* A row built from a snapshot of the whole file continues the chain.
LEMMA AppendChains ==
    ASSUME NEW r \in Rows, LedgerTypeOK, FileOK, r.prev = Len(file),
           r.seq = IF file = <<>> THEN 1 ELSE file[1].seq + Len(file),
           file' = Append(file, r)
    PROVE  FileOK'
<1>1. file \in Seq(Rows) /\ Len(file) \in Nat
  BY DEF LedgerTypeOK
<1>2. /\ Len(file') = Len(file) + 1
      /\ \A i \in 1 .. Len(file) : file'[i] = file[i]
      /\ file'[Len(file) + 1] = r
  BY <1>1
<1>3. file = <<>> <=> Len(file) = 0
  BY <1>1
<1>4. \A i \in 1 .. Len(file) : file[i].seq \in Nat
  <2>1. \A i \in 1 .. Len(file) : file[i] \in Rows
    BY <1>1
  <2> QED BY <2>1 DEF Rows
<1>5. \A i \in 1 .. Len(file') :
         file'[i].prev = i - 1 /\ file'[i].seq = file'[1].seq + (i - 1)
  <2> SUFFICES ASSUME NEW i \in 1 .. Len(file) + 1
               PROVE  file'[i].prev = i - 1 /\ file'[i].seq = file'[1].seq + (i - 1)
    BY <1>2
  <2>1. CASE i \in 1 .. Len(file)
    BY <1>1, <1>2, <2>1 DEF FileOK, Chained
  <2>2. CASE i = Len(file) + 1
    <3>1. CASE file = <<>>
      BY <1>2, <1>3, <2>2, <3>1
    <3>2. CASE file # <<>>
      BY <1>1, <1>2, <1>3, <1>4, <2>2, <3>2
    <3> QED BY <3>1, <3>2
  <2> QED BY <2>1, <2>2, <1>1
<1>6. file'[1].seq >= 1
  BY <1>1, <1>2, <1>3, <1>4 DEF FileOK
<1> QED BY <1>5, <1>6 DEF FileOK, Chained

\* What is left to show of a step of p.
LEMMA Combine ==
    ASSUME NEW p \in Proc, IInv, LedgerTypeOK', Moves(p),
           \A q \in Proc \ {p} :
              job'[q] = job[q] /\ cache'[q] = cache[q] /\ errand'[q] = errand[q],
           CallOK(p)', CacheOK(p)', FileOK', FollowOK'
    PROVE  IInv'
<1>1. ASSUME NEW q \in Proc, q # p
      PROVE  CallOK(q)' /\ CacheOK(q)'
  BY <1>1, OthersKeep DEF IInv
<1> QED BY <1>1 DEF IInv

\* FileOK speaks of the file alone.
LEMMA FileKept == ASSUME FileOK, file' = file PROVE FileOK'
BY DEF FileOK, Chained

-----------------------------------------------------------------------------
(* Deeds and calls that leave the file alone *)

LEMMA ActKeeps ==
    ASSUME NEW p \in Proc, NEW m \in Message, NEW notes \in Seq(Event),
           NEW now \in States, NEW goal \in States, IInv, Act(p, m, notes, now, goal)
    PROVE  IInv'
<1>1. /\ job[p].step = "idle" /\ UNCHANGED <<file, tail, lock, cache, job, follower>>
      /\ errand' = [errand EXCEPT ![p] = [msg |-> m, notes |-> notes, goal |-> goal]]
  BY DEF Act, At, ledgerVars
<1>2. LedgerTypeOK'
  BY DEF IInv, LedgerTypeOK, Act, ledgerVars, Errands
<1>3. CallOK(p)' /\ CacheOK(p)'
  BY <1>1 DEF IInv, CallOK, CacheOK
<1>4. FileOK' /\ FollowOK'
  BY <1>1, FileKept, FollowerKept DEF IInv
<1>5. Moves(p) /\ \A q \in Proc \ {p} : errand'[q] = errand[q]
  BY <1>1 DEF Moves, IInv, LedgerTypeOK
<1> QED BY <1>1, <1>2, <1>3, <1>4, <1>5, Combine

LEMMA FinishKeeps ==
    ASSUME NEW p \in Proc, IInv, Finish(p)
    PROVE  IInv'
<1>1. /\ job[p].step = "idle" /\ UNCHANGED <<file, tail, lock, cache, job, follower>>
      /\ errand' = [errand EXCEPT ![p] = None]
  BY DEF Finish, At, ledgerVars
<1>2. LedgerTypeOK'
  <2>1. errand[p] \in Errands
    BY DEF Finish, IInv, LedgerTypeOK
  <2>2. errand[p].goal \in States
    BY <2>1 DEF Errands
  <2> QED BY <2>2 DEF Finish, IInv, LedgerTypeOK, ledgerVars
<1>3. CallOK(p)' /\ CacheOK(p)'
  BY <1>1 DEF IInv, CallOK, CacheOK
<1>4. FileOK' /\ FollowOK'
  BY <1>1, FileKept, FollowerKept DEF IInv
<1>5. Moves(p) /\ \A q \in Proc \ {p} : errand'[q] = errand[q]
  BY <1>1 DEF Moves, IInv, LedgerTypeOK
<1> QED BY <1>1, <1>2, <1>3, <1>4, <1>5, Combine

LEMMA DeedKeeps ==
    ASSUME NEW p \in Proc, IInv, Deed(p)
    PROVE  IInv'
<1>0. /\ "CREATED" \in Event /\ "SEALED" \in Event /\ "OUTBOX_COMMITTED" \in Event
      /\ "DELIVERY_ATTEMPTED" \in Event /\ "DELIVERED" \in Event /\ "FAILED" \in Event
      /\ "RECEIPT_OBSERVED" \in Event /\ "OPENED" \in Event
      /\ "PENDING" \in States /\ "SEALED" \in States /\ "UNREAD" \in States
      /\ "READ" \in States /\ "DELIVERED" \in States /\ "FAILED" \in States
  BY DEF Event, States
<1>1. PICK m \in Message :
         \/ Submit(p, m) \/ Seal(p, m) \/ Retry(p, m) \/ Receive(p, m) \/ OpenMessage(p, m)
         \/ \E outcome \in {"SEALED", "DELIVERED", "FAILED"} : Deliver(p, m, outcome)
  BY DEF Deed
<1>2. CASE Submit(p, m)
  <2>1. Act(p, m, <<"CREATED">>, "PENDING", "PENDING")
    BY <1>2 DEF Submit
  <2>2. <<"CREATED">> \in Seq(Event)
    BY <1>0
  <2> QED BY <1>0, <2>1, <2>2, ActKeeps
<1>3. CASE Seal(p, m)
  <2>1. Act(p, m, <<"SEALED", "OUTBOX_COMMITTED">>, "SEALED", "SEALED")
    BY <1>3 DEF Seal
  <2>2. <<"SEALED", "OUTBOX_COMMITTED">> \in Seq(Event)
    BY <1>0
  <2> QED BY <1>0, <2>1, <2>2, ActKeeps
<1>4. CASE Retry(p, m)
  <2>1. Act(p, m, <<>>, "SEALED", "SEALED")
    BY <1>4 DEF Retry
  <2>2. <<>> \in Seq(Event)
    BY <1>0
  <2> QED BY <1>0, <2>1, <2>2, ActKeeps
<1>5. CASE Receive(p, m)
  <2>1. Act(p, m, <<"RECEIPT_OBSERVED">>, "UNREAD", "UNREAD")
    BY <1>5 DEF Receive
  <2>2. <<"RECEIPT_OBSERVED">> \in Seq(Event)
    BY <1>0
  <2> QED BY <1>0, <2>1, <2>2, ActKeeps
<1>6. CASE OpenMessage(p, m)
  <2>1. Act(p, m, <<"OPENED">>, "READ", "READ")
    BY <1>6 DEF OpenMessage
  <2>2. <<"OPENED">> \in Seq(Event)
    BY <1>0
  <2> QED BY <1>0, <2>1, <2>2, ActKeeps
<1>7. ASSUME NEW outcome \in {"SEALED", "DELIVERED", "FAILED"}, Deliver(p, m, outcome)
      PROVE  IInv'
  <2> DEFINE notes == IF outcome = "SEALED" THEN <<"DELIVERY_ATTEMPTED">>
                                            ELSE <<"DELIVERY_ATTEMPTED", outcome>>
  <2>1. Act(p, m, notes, "SEALED", outcome)
    BY <1>7 DEF Deliver
  <2>2. notes \in Seq(Event) /\ outcome \in States
    <3>1. outcome \in Event /\ outcome \in States
      BY <1>0
    <3>2. <<"DELIVERY_ATTEMPTED">> \in Seq(Event)
      BY <1>0
    <3>3. <<"DELIVERY_ATTEMPTED", outcome>> \in Seq(Event)
      BY <1>0, <3>1
    <3> QED BY <3>1, <3>2, <3>3
  <2> HIDE DEF notes
  <2> QED BY <1>0, <2>1, <2>2, ActKeeps
<1> QED BY <1>1, <1>2, <1>3, <1>4, <1>5, <1>6, <1>7

\* Dropping the note that was to be appended keeps the errand an errand.
LEMMA NotedTyped ==
    ASSUME NEW p \in Proc, LedgerTypeOK, errand[p] # None, errand[p].notes # <<>>, Noted(p)
    PROVE  /\ errand' \in [Proc -> Errands \cup {None}]
           /\ \A q \in Proc \ {p} : errand'[q] = errand[q]
<1>1. errand[p] \in Errands
  BY DEF LedgerTypeOK
<1>2. Tail(errand[p].notes) \in Seq(Event)
  BY <1>1 DEF Errands
<1>3. [errand[p] EXCEPT !.notes = Tail(@)] \in Errands
  BY <1>1, <1>2 DEF Errands
<1> QED BY <1>3 DEF Noted, LedgerTypeOK

LEMMA AppendBeginKeeps ==
    ASSUME NEW p \in Proc, IInv, AppendBegin(p) \/ AppendTimesOut(p)
    PROVE  IInv'
<1> USE DEF senderVars, ledgerVars, At
<1>1. CASE AppendBegin(p)
  <2>1. LedgerTypeOK'
    BY <1>1 DEF AppendBegin, IInv, LedgerTypeOK, Jobs, Steps, Idle
  <2>2. job'[p].step = "load" /\ job'[p].kind = "append"
    BY <1>1 DEF AppendBegin, IInv, LedgerTypeOK, Idle
  <2>3. CallOK(p)' /\ CacheOK(p)'
    BY <1>1, <2>2 DEF AppendBegin, IInv, CallOK, CacheOK
  <2>4. FileOK' /\ FollowOK'
    BY <1>1, FileKept, FollowerKept DEF AppendBegin, IInv
  <2>5. Moves(p) /\ \A q \in Proc \ {p} : job'[q] = job[q]
    BY <1>1 DEF AppendBegin, Moves, IInv, LedgerTypeOK
  <2> QED BY <1>1, <2>1, <2>3, <2>4, <2>5, Combine DEF AppendBegin
<1>2. CASE AppendTimesOut(p)
  <2>1. /\ errand' \in [Proc -> Errands \cup {None}]
        /\ \A q \in Proc \ {p} : errand'[q] = errand[q]
    BY <1>2, NotedTyped DEF AppendTimesOut, IInv
  <2>2. LedgerTypeOK'
    BY <1>2, <2>1 DEF AppendTimesOut, Fault, IInv, LedgerTypeOK
  <2>3. CallOK(p)' /\ CacheOK(p)'
    BY <1>2 DEF AppendTimesOut, IInv, CallOK, CacheOK
  <2>4. FileOK' /\ FollowOK'
    BY <1>2, FileKept, FollowerKept DEF AppendTimesOut, IInv
  <2>5. Moves(p)
    BY <1>2 DEF AppendTimesOut, Moves
  <2> QED BY <1>2, <2>1, <2>2, <2>3, <2>4, <2>5, Combine DEF AppendTimesOut
<1> QED BY <1>1, <1>2

LEMMA ReadBeginKeeps ==
    ASSUME NEW p \in Proc, NEW kind \in {"read", "feed"}, IInv, ReadBegin(p, kind)
    PROVE  IInv'
<1> USE DEF senderVars, ledgerVars, At, ReadBegin
<1>1. LedgerTypeOK'
  BY DEF IInv, LedgerTypeOK, Jobs, Steps, Idle
<1>2. job'[p].step = "load" /\ job'[p].kind = kind
  BY DEF IInv, LedgerTypeOK, Idle
<1>3. CallOK(p)' /\ CacheOK(p)'
  BY <1>2 DEF IInv, CallOK, CacheOK
<1>4. FileOK' /\ FollowOK'
  BY FileKept, FollowerKept DEF IInv
<1>5. Moves(p) /\ \A q \in Proc \ {p} : job'[q] = job[q]
  BY DEF Moves, IInv, LedgerTypeOK
<1> QED BY <1>1, <1>3, <1>4, <1>5, Combine

-----------------------------------------------------------------------------
(* Loading, and giving up *)

LEMMA LoadKeeps ==
    ASSUME NEW p \in Proc, IInv, Load(p)
    PROVE  IInv'
<1> USE DEF senderVars, ledgerVars, At, Load
<1>0. Stamp \in Stamps /\ Stamp # None
  BY NoneAssumption DEF IInv, LedgerTypeOK, Stamp, Stamps
<1>1. FileOK' /\ FollowOK'
  BY FileKept, FollowerKept DEF IInv
<1>2. Moves(p) /\ \A q \in Proc \ {p} :
         job'[q] = job[q] /\ cache'[q] = cache[q] /\ errand'[q] = errand[q]
  BY DEF Moves, IInv, LedgerTypeOK, Goto
<1>3. CASE Current(p) /\ Goto(p, Onward(p)) /\ UNCHANGED cache
  <2>1. /\ job'[p].step = Onward(p) /\ job'[p].kind = job[p].kind
        /\ cache[p] # None /\ Onward(p) \in {"open", "window"}
        /\ Onward(p) = "open" <=> job[p].kind = "append"
    BY <1>3 DEF Goto, Onward, Current, IInv, LedgerTypeOK, Jobs
  <2>2. LedgerTypeOK'
    BY <1>3, <2>1 DEF Goto, IInv, LedgerTypeOK, Jobs, Steps
  <2>3. CallOK(p)' /\ CacheOK(p)'
    BY <1>3, <2>1 DEF IInv, CallOK, CacheOK
  <2> QED BY <1>1, <1>2, <2>2, <2>3, Combine
<1>4. CASE /\ job' = [job EXCEPT ![p].step = "read", ![p].before = Stamp]
           /\ cache' = [cache EXCEPT ![p] = None]
  <2>1. /\ job'[p].step = "read" /\ job'[p].kind = job[p].kind
        /\ job'[p].before = Stamp /\ cache'[p] = None
    BY <1>4 DEF IInv, LedgerTypeOK, Jobs
  <2>2. LedgerTypeOK'
    <3>1. job[p] \in Jobs
      BY DEF IInv, LedgerTypeOK
    <3>2. [job[p] EXCEPT !.step = "read", !.before = Stamp] \in Jobs
      BY <1>0, <3>1 DEF Jobs, Steps
    <3>3. job' \in [Proc -> Jobs] /\ cache' \in [Proc -> Caches \cup {None}]
      BY <1>4, <3>2 DEF IInv, LedgerTypeOK
    <3> QED BY <3>3 DEF IInv, LedgerTypeOK
  <2>3. Stamp.rows = Len(file) /\ Stamp.tail = tail
    BY DEF Stamp
  <2>4. CallOK(p)' /\ CacheOK(p)'
    BY <1>0, <2>1, <2>3 DEF IInv, LedgerTypeOK, CallOK, CacheOK
  <2> QED BY <1>1, <1>2, <2>2, <2>4, Combine
<1> QED BY <1>3, <1>4

LEMMA ReadKeeps ==
    ASSUME NEW p \in Proc, IInv, Read(p)
    PROVE  IInv'
<1> USE DEF senderVars, ledgerVars, At, Read
<1>0. file \in Seq(Rows) /\ Len(file) \in Nat
  BY DEF IInv, LedgerTypeOK
<1>1. FileOK' /\ FollowOK'
  BY FileKept, FollowerKept DEF IInv
<1>2. Moves(p) /\ \A q \in Proc \ {p} :
         job'[q] = job[q] /\ cache'[q] = cache[q] /\ errand'[q] = errand[q]
  BY DEF Moves, IInv, LedgerTypeOK
<1>3. /\ Loaded \in Snapshots /\ Loaded # None
      /\ Loaded.rows = Len(file)
      /\ tail = "bare" => ~Loaded.ended
      /\ tail # "bare" => Loaded.ended
      /\ Loaded.rows > 0 => Loaded.first = file[1].seq
  <2>1. file # <<>> => file[1] \in Rows
    BY <1>0
  <2>2. file # <<>> => file[1].seq \in Nat
    BY <2>1 DEF Rows
  <2>3. Loaded \in Snapshots
    BY <1>0, <2>2 DEF Loaded, Snapshots
  <2>4. Loaded # None
    BY <2>3, NoneAssumption
  <2>5. Loaded.rows > 0 => Loaded.first = file[1].seq
    BY <1>0 DEF Loaded
  <2>6. Loaded.rows = Len(file) /\ Loaded.ended = (tail # "bare")
    BY DEF Loaded
  <2> QED BY <2>3, <2>4, <2>5, <2>6
<1>4. /\ job'[p].step = "confirm" /\ job'[p].kind = job[p].kind
      /\ job'[p].before = job[p].before /\ job'[p].value = Loaded
  BY DEF IInv, LedgerTypeOK, Jobs
<1>5. LedgerTypeOK'
  BY <1>3 DEF IInv, LedgerTypeOK, Jobs, Steps
<1>6. CallOK(p)' /\ CacheOK(p)'
  <2>1. job[p].before # None /\ job[p].before.rows \in Nat
    BY DEF IInv, LedgerTypeOK, CallOK, Jobs, Stamps
  <2>2. CacheOK(p)'
    BY DEF IInv, CacheOK
  <2>3. CallOK(p)'
    BY <1>0, <1>3, <1>4, <2>1 DEF IInv, CallOK
  <2> QED BY <2>2, <2>3
<1> QED BY <1>1, <1>2, <1>5, <1>6, Combine

LEMMA ConfirmKeeps ==
    ASSUME NEW p \in Proc, IInv, Confirm(p)
    PROVE  IInv'
<1> USE DEF senderVars, ledgerVars, At, Confirm
<1>0. file \in Seq(Rows) /\ Len(file) \in Nat
  BY DEF IInv, LedgerTypeOK
<1>1. FileOK' /\ FollowOK'
  BY FileKept, FollowerKept DEF IInv
<1>2. Moves(p) /\ \A q \in Proc \ {p} :
         job'[q] = job[q] /\ cache'[q] = cache[q] /\ errand'[q] = errand[q]
  BY DEF Moves, IInv, LedgerTypeOK, Goto
<1>3. /\ job[p].before \in Stamps /\ job[p].value \in Snapshots
      /\ job[p].before.rows = Len(file) /\ job[p].before.tail = tail
  BY DEF IInv, LedgerTypeOK, CallOK, Jobs, Stamp
<1>4. [stamp |-> job[p].before, value |-> job[p].value] \in Caches
  BY <1>3 DEF Caches
<1>5. /\ job'[p].step = Onward(p) /\ job'[p].kind = job[p].kind
      /\ cache'[p] = [stamp |-> job[p].before, value |-> job[p].value]
      /\ cache'[p] # None /\ Onward(p) \in {"open", "window"}
      /\ Onward(p) = "open" <=> job[p].kind = "append"
  BY <1>4, NoneAssumption DEF Goto, Onward, IInv, LedgerTypeOK, Jobs
<1>6. LedgerTypeOK'
  BY <1>4, <1>5 DEF Goto, IInv, LedgerTypeOK, Jobs, Steps
<1>7. CallOK(p)'
  BY <1>5 DEF IInv, CallOK
<1>8. CacheOK(p)'
  <2>1. /\ job[p].value.rows = Len(file) /\ job[p].value.ended \in BOOLEAN
        /\ job[p].value.rows > 0 => job[p].value.first = file[1].seq
        /\ tail = "bare" => ~job[p].value.ended
        /\ tail # "bare" => job[p].value.ended
    <3>1. job[p].value.rows \in Nat /\ job[p].value.ended \in BOOLEAN
      BY <1>3 DEF Snapshots
    <3> QED BY <1>0, <1>3, <3>1 DEF IInv, CallOK
  <2>2. job[p].value.ended = (tail # "bare")
    BY <2>1
  <2> QED BY <1>0, <1>3, <1>5, <2>1, <2>2 DEF CacheOK
<1> QED BY <1>1, <1>2, <1>6, <1>7, <1>8, Combine

LEMMA RefuseKeeps ==
    ASSUME NEW p \in Proc, NEW snapshot \in {None, cache[p]}, IInv, Refuse(p, snapshot),
           job[p].step # "idle"
    PROVE  IInv'
<1> USE DEF Refuse, Return
<1>1. FileOK' /\ FollowOK'
  BY FileKept, FollowerKept DEF IInv
<1>2. /\ errand' \in [Proc -> Errands \cup {None}]
      /\ \A q \in Proc \ {p} : errand'[q] = errand[q]
  <2>1. CASE job[p].kind = "append"
    BY <2>1, NotedTyped DEF IInv, CallOK, Answered
  <2>2. CASE job[p].kind # "append"
    BY <2>2 DEF IInv, LedgerTypeOK, Answered
  <2> QED BY <2>1, <2>2
<1>3. LedgerTypeOK'
  BY <1>2 DEF IInv, LedgerTypeOK, Jobs, Steps, Idle, Unlock
<1>4. job'[p] = Idle /\ cache'[p] = snapshot
  BY DEF IInv, LedgerTypeOK
<1>5. CallOK(p)' /\ CacheOK(p)'
  BY <1>4 DEF IInv, CallOK, CacheOK, Idle
<1>6. Moves(p) /\ \A q \in Proc \ {p} : job'[q] = job[q] /\ cache'[q] = cache[q]
  BY DEF Moves, IInv, LedgerTypeOK, Unlock
<1> QED BY <1>1, <1>2, <1>3, <1>5, <1>6, Combine

-----------------------------------------------------------------------------
(* Writing: the holder of ledger.lock knows the whole file *)

LEMMA OpenKeeps ==
    ASSUME NEW p \in Proc, IInv, Open(p)
    PROVE  IInv'
<1> USE DEF senderVars, At, Open
<1>1. FileOK' /\ FollowOK'
  BY FileKept, FollowerKept DEF IInv
<1>2. Moves(p) /\ \A q \in Proc \ {p} :
         job'[q] = job[q] /\ cache'[q] = cache[q] /\ errand'[q] = errand[q]
  BY DEF Moves, IInv, LedgerTypeOK, Goto, CallOK
<1>3. LedgerTypeOK'
  BY DEF IInv, LedgerTypeOK, Jobs, Steps, Goto, Tails
<1>4. /\ cache[p] # None /\ cache[p] \in Caches /\ job[p].kind = "append" /\ lock = p
      /\ Len(file) = cache[p].stamp.rows /\ tail = cache[p].stamp.tail
  BY DEF IInv, CallOK, LedgerTypeOK, Unmoved, Stamp
<1>5. Len(file) = cache[p].value.rows /\ tail # "bare" /\ tail' # "bare"
  BY <1>4 DEF IInv, CacheOK, Value
<1>6. job'[p].step = "write" /\ job'[p].kind = "append"
  BY <1>4 DEF IInv, LedgerTypeOK, Jobs, Goto
<1>7. CallOK(p)' /\ CacheOK(p)'
  BY <1>4, <1>5, <1>6 DEF IInv, CallOK, CacheOK
<1> QED BY <1>1, <1>2, <1>3, <1>7, Combine

\* The row p writes follows the last one.
LEMMA NewRowFollows ==
    ASSUME NEW p \in Proc, IInv, At(p, "write"), tail # "bare"
    PROVE  /\ NewRow(p) \in Rows
           /\ NewRow(p).prev = Len(file)
           /\ NewRow(p).seq = IF file = <<>> THEN 1 ELSE file[1].seq + Len(file)
<1>1. /\ file \in Seq(Rows) /\ Len(file) \in Nat /\ (file = <<>> <=> Len(file) = 0)
      /\ errand[p] \in Errands \cup {None} /\ cache[p] \in Caches \cup {None}
  BY DEF IInv, LedgerTypeOK
<1>2. /\ job[p].kind = "append" /\ cache[p] # None /\ errand[p] # None
      /\ errand[p].notes # <<>> /\ Len(file) = cache[p].value.rows
  BY DEF IInv, CallOK, At
<1>3. /\ cache[p].value.rows \in Nat /\ cache[p].value.first \in Nat
      /\ cache[p].value.rows > 0 => cache[p].value.first = file[1].seq
  BY <1>1, <1>2 DEF IInv, CacheOK, Caches, Snapshots
<1>4. errand[p].msg \in Message /\ Head(errand[p].notes) \in Event
  <2>1. errand[p].msg \in Message /\ errand[p].notes \in Seq(Event)
    BY <1>1, <1>2 DEF Errands
  <2> QED BY <1>2, <2>1
<1>5. NextSeq(p) \in Nat /\ NextSeq(p) = IF file = <<>> THEN 1 ELSE file[1].seq + Len(file)
  BY <1>1, <1>2, <1>3 DEF NextSeq, Value
<1> QED BY <1>1, <1>2, <1>3, <1>4, <1>5 DEF NewRow, Rows, Value

LEMMA WriteSomeKeeps ==
    ASSUME NEW p \in Proc, IInv, WriteSome(p)
    PROVE  IInv'
<1> USE DEF senderVars, At, WriteSome
<1>0. /\ tail # "bare" /\ job[p].kind = "append" /\ cache[p] # None /\ lock = p
      /\ Len(file) = cache[p].value.rows /\ file \in Seq(Rows) /\ Len(file) \in Nat
      /\ cache[p] \in Caches
  BY DEF IInv, CallOK, LedgerTypeOK
<1>1. CASE tail' = "cut" /\ UNCHANGED file
  <2>1. FileOK' /\ FollowOK'
    BY <1>1, FileKept, FollowerKept DEF IInv
  <2>2. Moves(p)
    BY <1>0, <1>1 DEF Moves
  <2>3. LedgerTypeOK'
    BY <1>1 DEF IInv, LedgerTypeOK, Tails
  <2>4. CallOK(p)' /\ CacheOK(p)'
    BY <1>0, <1>1 DEF IInv, CallOK, CacheOK
  <2> QED BY <2>1, <2>2, <2>3, <2>4, Combine
<1>2. CASE tail' = "bare" /\ file' = Append(file, NewRow(p))
  <2>1. /\ NewRow(p) \in Rows /\ NewRow(p).prev = Len(file)
        /\ NewRow(p).seq = IF file = <<>> THEN 1 ELSE file[1].seq + Len(file)
    BY <1>0, NewRowFollows
  <2>2. FileOK'
    BY <1>2, <2>1, AppendChains DEF IInv
  <2>3. FollowOK'
    BY <1>2, <2>1, FollowerKept DEF IInv
  <2>4. Moves(p)
    BY <1>0, <1>2, <2>1 DEF Moves
  <2>5. LedgerTypeOK'
    <3>1. file' \in Seq(Rows)
      BY <1>0, <1>2, <2>1
    <3> QED BY <1>2, <3>1 DEF IInv, LedgerTypeOK, Tails
  <2>6. /\ Len(file') = Len(file) + 1
        /\ Len(file) > 0 => file'[1] = file[1]
        /\ Len(file) = 0 => file'[1].seq = 1
    <3>1. Len(file) = 0 => file = <<>> /\ file'[1] = NewRow(p)
      BY <1>0, <1>2, <2>1
    <3> QED BY <1>0, <1>2, <2>1, <3>1
  <2>7. cache[p].stamp.rows \in Nat /\ cache[p].value.rows \in Nat
    BY <1>0 DEF Caches, Stamps, Snapshots
  <2>8. CallOK(p)'
    BY <1>0, <1>2, <2>6, <2>7 DEF IInv, CallOK
  <2>9. CacheOK(p)'
    BY <1>0, <2>6, <2>7 DEF IInv, CacheOK
  <2> QED BY <2>2, <2>3, <2>4, <2>5, <2>8, <2>9, Combine
<1> QED BY <1>1, <1>2

LEMMA WriteKeeps ==
    ASSUME NEW p \in Proc, IInv, Write(p)
    PROVE  IInv'
<1> USE DEF At, Write, Return
<1> DEFINE entry == [stamp |-> [rows |-> Value(p).rows + 1, tail |-> "clean"],
                     value |-> Advanced(p)]
<1>0. /\ job[p].kind = "append" /\ cache[p] # None /\ lock = p /\ cache[p] \in Caches
      /\ file \in Seq(Rows) /\ Len(file) \in Nat
      /\ errand[p] # None /\ errand[p].notes # <<>>
  BY DEF IInv, CallOK, LedgerTypeOK
<1>1. Value(p).rows \in Nat /\ Value(p).first \in Nat
  BY <1>0 DEF Value, Caches, Snapshots
<1>2. /\ FileOK' /\ FollowOK' /\ Moves(p) /\ file' \in Seq(Rows)
      /\ Len(file') = Value(p).rows + 1
      /\ file'[1].seq = Advanced(p).first
  <2>1. CASE tail = "bare"
    <3>1. file' = file /\ Len(file) = Value(p).rows + 1
      BY <2>1 DEF IInv, CallOK, Value
    <3>2. FileOK' /\ FollowOK'
      BY <3>1, FileKept, FollowerKept DEF IInv
    <3>3. Moves(p)
      BY <1>0, <3>1 DEF Moves, Unlock
    <3>4. file'[1].seq = Advanced(p).first
      <4>1. CASE Value(p).rows = 0
        BY <2>1, <3>1, <4>1 DEF IInv, CallOK, Value, Advanced, NextSeq
      <4>2. CASE Value(p).rows > 0
        BY <1>0, <1>1, <3>1, <4>2 DEF IInv, CacheOK, Value, Advanced
      <4> QED BY <1>1, <4>1, <4>2
    <3> QED BY <1>0, <3>1, <3>2, <3>3, <3>4
  <2>2. CASE tail # "bare"
    <3>1. file' = Append(file, NewRow(p)) /\ Len(file) = Value(p).rows
      BY <2>2 DEF IInv, CallOK, Value
    <3>2. /\ NewRow(p) \in Rows /\ NewRow(p).prev = Len(file)
          /\ NewRow(p).seq = IF file = <<>> THEN 1 ELSE file[1].seq + Len(file)
      BY <2>2, NewRowFollows
    <3>3. FileOK' /\ FollowOK'
      BY <3>1, <3>2, AppendChains, FollowerKept DEF IInv
    <3>4. Moves(p)
      BY <1>0, <3>1, <3>2 DEF Moves, Unlock
    <3>5. file'[1].seq = Advanced(p).first
      <4>1. CASE Value(p).rows = 0
        <5>0. file = <<>>
          BY <1>0, <3>1, <4>1
        <5>1. file'[1] = NewRow(p)
          BY <3>1, <3>2, <5>0
        <5>2. NewRow(p).seq = 1
          BY <3>2, <5>0
        <5>3. Advanced(p).first = 1
          BY <4>1 DEF Advanced, NextSeq
        <5> QED BY <5>1, <5>2, <5>3
      <4>2. CASE Value(p).rows > 0
        <5>1. file'[1] = file[1]
          BY <1>0, <3>1, <3>2, <4>2
        <5> QED BY <1>0, <1>1, <3>1, <4>2, <5>1 DEF IInv, CacheOK, Value, Advanced
      <4> QED BY <1>1, <4>1, <4>2
    <3> QED BY <1>0, <3>1, <3>2, <3>3, <3>4, <3>5
  <2> QED BY <2>1, <2>2
<1>3. /\ entry \in Caches /\ entry # None
      /\ entry.stamp.rows = Len(file') /\ entry.value.rows = Len(file')
      /\ entry.value.ended = (entry.stamp.tail # "bare")
  <2>1. Advanced(p) \in Snapshots
    BY <1>1 DEF Advanced, NextSeq, Snapshots
  <2>2. entry \in Caches
    BY <1>1, <2>1 DEF Caches, Stamps, Tails
  <2>3. entry # None
    BY <2>2, NoneAssumption
  <2> QED BY <1>2, <2>2, <2>3 DEF Advanced
<1>4. /\ errand' \in [Proc -> Errands \cup {None}]
      /\ \A q \in Proc \ {p} : errand'[q] = errand[q]
  BY <1>0, NotedTyped DEF IInv
<1>5. job'[p] = Idle /\ cache'[p] = entry
  BY DEF IInv, LedgerTypeOK
<1>6. LedgerTypeOK'
  BY <1>2, <1>3, <1>4 DEF IInv, LedgerTypeOK, Unlock, Jobs, Steps, Idle, Tails
<1> HIDE DEF entry
<1>7. CallOK(p)' /\ CacheOK(p)'
  <2>1. CallOK(p)'
    BY <1>5 DEF CallOK, Idle
  <2>2. entry.value.first = Advanced(p).first
    BY DEF entry
  <2>3. CacheOK(p)'
    BY <1>0, <1>1, <1>2, <1>3, <1>5, <2>2 DEF CacheOK
  <2> QED BY <2>1, <2>3
<1>8. \A q \in Proc \ {p} : job'[q] = job[q] /\ cache'[q] = cache[q]
  BY DEF IInv, LedgerTypeOK
<1> QED BY <1>2, <1>4, <1>6, <1>7, <1>8, Combine

\* A failed write and a death leave the file and forget the snapshot.
LEMMA StopKeeps ==
    ASSUME NEW p \in Proc, IInv, WriteFails(p) \/ Die(p)
    PROVE  IInv'
<1> USE DEF Return, Unlock, Fault, At
<1>1. /\ file' = file /\ tail' = tail /\ follower' = follower /\ status' = status
      /\ job' = [job EXCEPT ![p] = Idle] /\ cache' = [cache EXCEPT ![p] = None]
      /\ lock' = (IF lock = p THEN None ELSE lock)
      /\ faults' = faults + 1 /\ lost' \in BOOLEAN
  BY DEF WriteFails, Die, IInv, LedgerTypeOK
<1>2. FileOK' /\ FollowOK'
  BY <1>1, FileKept, FollowerKept DEF IInv
<1>3. /\ errand' \in [Proc -> Errands \cup {None}]
      /\ \A q \in Proc \ {p} : errand'[q] = errand[q]
  <2>1. CASE WriteFails(p)
    BY <2>1, NotedTyped DEF WriteFails, IInv, CallOK
  <2>2. CASE Die(p)
    BY <2>2 DEF Die, IInv, LedgerTypeOK
  <2> QED BY <2>1, <2>2
<1>4. LedgerTypeOK'
  <2>1. Idle \in Jobs
    BY DEF Idle, Jobs, Steps
  <2>2. /\ job' \in [Proc -> Jobs] /\ cache' \in [Proc -> Caches \cup {None}]
        /\ lock' \in Proc \cup {None} /\ faults' \in Nat
    BY <1>1, <2>1 DEF IInv, LedgerTypeOK
  <2> QED BY <1>1, <1>3, <2>2 DEF IInv, LedgerTypeOK
<1>5. job'[p] = Idle /\ cache'[p] = None
  BY <1>1 DEF IInv, LedgerTypeOK
<1>6. CallOK(p)' /\ CacheOK(p)'
  BY <1>5 DEF CallOK, CacheOK, Idle
<1>7. Moves(p) /\ \A q \in Proc \ {p} : job'[q] = job[q] /\ cache'[q] = cache[q]
  BY <1>1 DEF Moves, IInv, LedgerTypeOK
<1> QED BY <1>2, <1>3, <1>4, <1>6, <1>7, Combine

-----------------------------------------------------------------------------
(* The feed *)

\* A page is the retained records right after the cursor.
LEMMA PageFollows ==
    ASSUME NEW p \in Proc, IInv, At(p, "window"), Unmoved(p)
    PROVE  /\ Page(p) \in Seq(Rows)
           /\ Page(p) # <<>> => file # <<>>
           /\ \A i \in 1 .. Len(Page(p)) :
                 Page(p)[i].seq = Page(p)[1].seq + (i - 1)
           /\ Page(p) # <<>> =>
                 /\ Page(p)[1].seq >= file[1].seq
                 /\ Page(p)[1].seq + (Len(Page(p)) - 1) <= file[1].seq + (Len(file) - 1)
                 /\ follower.heard # <<>> => Page(p)[1].seq = follower.cursor + 1
                 /\ follower.heard = <<>> => Page(p)[1].seq = file[1].seq
           /\ Page(p) # <<>> /\ file[1].seq > 1 /\ follower.heard = <<>> => Gap(p)
<1>1. /\ file \in Seq(Rows) /\ Len(file) \in Nat /\ (file = <<>> <=> Len(file) = 0)
      /\ cache[p] \in Caches \cup {None} /\ cache[p] # None
      /\ follower.cursor \in Nat /\ follower.heard \in Seq(Nat)
  BY DEF IInv, LedgerTypeOK, CallOK, At
<1>2. /\ Value(p).rows = Len(file) /\ Value(p).first \in Nat
      /\ Len(file) > 0 => Value(p).first = file[1].seq
  BY <1>1 DEF IInv, CacheOK, Unmoved, Stamp, Value, Caches, Snapshots
<1>3. Limit \in Nat /\ Limit > 0
  BY BoundAssumption
<1>4. CASE Len(file) = 0
  <2>1. Start(p) = 0 /\ PageEnd(p) = 0
    BY <1>2, <1>3, <1>4 DEF Start, PageEnd
  <2>2. Page(p) = <<>>
    BY <1>1, <1>4, <2>1 DEF Page
  <2> QED BY <2>2, EmptySeq
<1>5. CASE Len(file) > 0
  <2>1. /\ file[1] \in Rows /\ file[1].seq \in Nat /\ file[1].seq >= 1
        /\ Value(p).first = file[1].seq
    <3>1. file[1] \in Rows
      BY <1>1, <1>5
    <3>2. file[1].seq \in Nat
      BY <3>1 DEF Rows
    <3> QED BY <1>1, <1>2, <1>5, <3>1, <3>2 DEF IInv, FileOK
  <2>2. /\ follower.heard # <<>> => /\ file[1].seq <= follower.cursor
                                    /\ follower.cursor <= file[1].seq + (Len(file) - 1)
        /\ follower.heard = <<>> => follower.cursor = 0
    BY DEF IInv, FollowOK, FollowerMissesNothing
  <2>3. /\ Start(p) \in 0 .. Len(file) /\ PageEnd(p) \in Start(p) .. Len(file)
        /\ follower.heard # <<>> => file[1].seq + Start(p) = follower.cursor + 1
        /\ follower.heard = <<>> => Start(p) = 0
    <3>1. CASE follower.heard = <<>>
      BY <1>2, <1>3, <1>5, <2>1, <2>2, <3>1 DEF Start, PageEnd
    <3>2. CASE follower.heard # <<>>
      <4>1. Start(p) = follower.cursor + 1 - file[1].seq
        BY <1>1, <1>2, <1>5, <2>1, <2>2, <3>2 DEF Start
      <4>0. file[1].seq <= follower.cursor /\ follower.cursor <= file[1].seq + (Len(file) - 1)
        BY <2>2, <3>2
      <4>2. Start(p) \in 0 .. Len(file) /\ file[1].seq + Start(p) = follower.cursor + 1
        <5> DEFINE c == follower.cursor
                   f == file[1].seq
                   n == Len(file)
        <5>1. c \in Nat /\ f \in Nat /\ n \in Nat /\ f <= c /\ c <= f + (n - 1)
              /\ Start(p) = c + 1 - f
          BY <1>1, <2>1, <4>0, <4>1
        <5> HIDE DEF c, f, n
        <5>2. Start(p) \in 0 .. n /\ f + Start(p) = c + 1
          BY <5>1
        <5> QED BY <5>2 DEF c, f, n
      <4>3. PageEnd(p) \in Start(p) .. Len(file)
        BY <1>1, <1>2, <1>3, <4>2 DEF PageEnd
      <4> QED BY <3>2, <4>2, <4>3
    <3> QED BY <3>1, <3>2
  <2>4. /\ Page(p) \in Seq(Rows) /\ Len(Page(p)) = PageEnd(p) - Start(p)
        /\ \A i \in 1 .. PageEnd(p) - Start(p) : Page(p)[i] = file[Start(p) + i]
    <3>1. CASE PageEnd(p) = Start(p)
      <4>1. Page(p) = <<>>
        BY <1>1, <2>3, <3>1 DEF Page
      <4> QED BY <2>3, <3>1, <4>1
    <3>2. CASE PageEnd(p) > Start(p)
      <4>1. /\ Start(p) + 1 \in Int /\ PageEnd(p) \in Int /\ Start(p) + 1 <= PageEnd(p)
            /\ \A i \in Start(p) + 1 .. PageEnd(p) : file[i] \in Rows
        BY <1>1, <2>3, <3>2
      <4>2. /\ SubSeq(file, Start(p) + 1, PageEnd(p)) \in Seq(Rows)
            /\ Len(SubSeq(file, Start(p) + 1, PageEnd(p))) = PageEnd(p) - (Start(p) + 1) + 1
            /\ \A i \in 1 .. PageEnd(p) - (Start(p) + 1) + 1 :
                  SubSeq(file, Start(p) + 1, PageEnd(p))[i] = file[Start(p) + 1 + i - 1]
        BY <4>1, SubSeqProperties
      <4>3. /\ PageEnd(p) - (Start(p) + 1) + 1 = PageEnd(p) - Start(p)
            /\ \A i \in Nat : Start(p) + 1 + i - 1 = Start(p) + i
        BY <1>1, <2>3
      <4>4. \A i \in 1 .. PageEnd(p) - Start(p) :
               SubSeq(file, Start(p) + 1, PageEnd(p))[i] = file[Start(p) + i]
        <5> TAKE i \in 1 .. PageEnd(p) - Start(p)
        <5>1. i \in Nat
          OBVIOUS
        <5> QED BY <4>2, <4>3, <5>1
      <4> QED BY <4>2, <4>3, <4>4 DEF Page
    <3> QED BY <2>3, <3>1, <3>2
  <2>5. \A i \in 1 .. Len(Page(p)) : Page(p)[i].seq = file[1].seq + (Start(p) + i - 1)
    BY <1>1, <2>3, <2>4 DEF IInv, FileOK, Chained
  <2>6. Page(p) # <<>> => Len(Page(p)) > 0 /\ Page(p)[1].seq = file[1].seq + Start(p)
    BY <2>1, <2>3, <2>4, <2>5
  <2>7. \A i \in 1 .. Len(Page(p)) : Page(p)[i].seq = Page(p)[1].seq + (i - 1)
    <3> TAKE i \in 1 .. Len(Page(p))
    <3>1. Page(p) # <<>> /\ Start(p) \in Nat /\ i \in Nat
      BY <2>3, <2>4
    <3>2. Page(p)[1].seq = file[1].seq + Start(p)
      BY <2>6, <3>1
    <3>3. Page(p)[i].seq = file[1].seq + (Start(p) + i - 1)
      BY <2>5
    <3> QED BY <2>1, <3>1, <3>2, <3>3
  <2>8. Page(p) # <<>> =>
           /\ Page(p)[1].seq >= file[1].seq
           /\ Page(p)[1].seq + (Len(Page(p)) - 1) <= file[1].seq + (Len(file) - 1)
           /\ follower.heard # <<>> => Page(p)[1].seq = follower.cursor + 1
           /\ follower.heard = <<>> => Page(p)[1].seq = file[1].seq
    BY <1>1, <2>1, <2>3, <2>4, <2>6
  <2>9. file[1].seq > 1 /\ follower.heard = <<>> => Gap(p)
    BY <1>2, <1>5, <2>1, <2>2 DEF Gap
  <2> QED BY <1>1, <1>5, <2>4, <2>7, <2>8, <2>9
<1>6. Len(file) = 0 \/ Len(file) > 0
  BY <1>1
<1> QED BY <1>4, <1>5, <1>6

\* The follower takes in a page.
Hears(p) ==
    follower' = [cursor |-> Cursor(p),
                 heard |-> follower.heard \o [i \in 1 .. Len(Page(p)) |-> Page(p)[i].seq],
                 gap |-> follower.gap \/ Gap(p)]

LEMMA PageKeeps ==
    ASSUME NEW p \in Proc, IInv, At(p, "window"), Unmoved(p), file' = file, Hears(p)
    PROVE  FollowOK' /\ follower' \in [cursor : Nat, heard : Seq(Nat), gap : BOOLEAN]
<1> DEFINE pg == Page(p)
           new == [i \in 1 .. Len(pg) |-> pg[i].seq]
           old == follower.heard
<1>1. /\ pg \in Seq(Rows) /\ Len(pg) \in Nat /\ old \in Seq(Nat) /\ Len(old) \in Nat
      /\ follower.cursor \in Nat /\ follower.gap \in BOOLEAN /\ Gap(p) \in BOOLEAN
      /\ file \in Seq(Rows) /\ Len(file) \in Nat
  <2>1. pg \in Seq(Rows)
    BY PageFollows
  <2>2. /\ old \in Seq(Nat) /\ follower.cursor \in Nat /\ follower.gap \in BOOLEAN
        /\ file \in Seq(Rows)
    BY DEF IInv, LedgerTypeOK
  <2>3. Gap(p) \in BOOLEAN
    BY DEF Gap
  <2> HIDE DEF pg, old
  <2> QED BY <2>1, <2>2, <2>3, LenProperties
<1>2. \A i \in 1 .. Len(pg) : pg[i].seq \in Nat
  <2>1. \A i \in 1 .. Len(pg) : pg[i] \in Rows
    BY <1>1
  <2> QED BY <2>1 DEF Rows
<1>3. new \in Seq(Nat) /\ Len(new) = Len(pg)
  <2>1. new \in [1 .. Len(pg) -> Nat]
    BY <1>2
  <2> HIDE DEF new, pg
  <2>2. new \in Seq(Nat)
    BY <1>1, <2>1, SeqDef
  <2>3. DOMAIN new = 1 .. Len(pg)
    BY <2>1
  <2> QED BY <1>1, <2>2, <2>3, LenProperties
<1>4. /\ old \o new \in Seq(Nat) /\ Len(old \o new) = Len(old) + Len(pg)
      /\ \A i \in 1 .. Len(old) : (old \o new)[i] = old[i]
      /\ \A i \in 1 .. Len(pg) : (old \o new)[Len(old) + i] = pg[i].seq
  <2> HIDE DEF new
  <2>0. /\ old \o new \in Seq(Nat) /\ Len(old \o new) = Len(old) + Len(new)
        /\ \A i \in 1 .. Len(old) + Len(new) :
              (old \o new)[i] = IF i <= Len(old) THEN old[i] ELSE new[i - Len(old)]
    <3> HIDE DEF old
    <3> QED BY <1>1, <1>3, ConcatProperties
  <2>1. /\ old \o new \in Seq(Nat) /\ Len(old \o new) = Len(old) + Len(new)
        /\ \A i \in 1 .. Len(old) : (old \o new)[i] = old[i]
        /\ \A i \in 1 .. Len(new) : (old \o new)[Len(old) + i] = new[i]
    <3>1. Len(old) \in Nat /\ Len(new) \in Nat
      BY <1>1, <1>3
    <3>2. \A i \in 1 .. Len(old) : (old \o new)[i] = old[i]
      BY <2>0, <3>1
    <3>3. ASSUME NEW i \in 1 .. Len(new) PROVE (old \o new)[Len(old) + i] = new[i]
      <4>1. /\ Len(old) + i \in 1 .. Len(old) + Len(new) /\ ~(Len(old) + i <= Len(old))
            /\ Len(old) + i - Len(old) = i
        BY <3>1
      <4> QED BY <2>0, <4>1
    <3> QED BY <2>0, <3>2, <3>3
  <2>2. \A i \in 1 .. Len(pg) : new[i] = pg[i].seq
    BY DEF new
  <2> QED BY <1>3, <2>1, <2>2
<1>5. /\ \A i \in 1 .. Len(old) : old[i] = follower.cursor - Len(old) + i
      /\ old = <<>> => follower.cursor = 0
      /\ follower.gap \/ Len(old) = follower.cursor
      /\ old # <<>> => /\ file # <<>> /\ file[1].seq <= follower.cursor
                       /\ follower.cursor <= file[1].seq + (Len(file) - 1)
  BY DEF IInv, FollowOK, FollowerMissesNothing
<1>6. CASE pg = <<>>
  <2>1. Len(pg) = 0 /\ Cursor(p) = follower.cursor
    BY <1>6 DEF Cursor
  <2>2. old \o new = old
    BY <1>1, <1>3, <2>1
  <2>3. follower'.cursor = follower.cursor /\ follower'.heard = old
        /\ follower'.gap = (follower.gap \/ Gap(p))
    BY <2>1, <2>2 DEF Hears
  <2>4. FollowOK'
    BY <1>5, <2>3 DEF FollowOK, FollowerMissesNothing
  <2> QED BY <1>1, <2>1, <2>2, <2>4 DEF Hears
<1>7. CASE pg # <<>>
  <2>1. Len(pg) > 0 /\ file # <<>> /\ file[1].seq \in Nat
    <3>1. Len(pg) > 0 /\ file # <<>>
      BY <1>1, <1>7, PageFollows
    <3>2. file[1] \in Rows
      BY <1>1, <3>1
    <3> QED BY <3>1, <3>2 DEF Rows
  <2>2. Cursor(p) = pg[1].seq + (Len(pg) - 1) /\ pg[1].seq \in Nat /\ Cursor(p) \in Nat
    <3>1. Cursor(p) = pg[Len(pg)].seq
      BY <1>7 DEF Cursor
    <3>2. pg[Len(pg)].seq = pg[1].seq + (Len(pg) - 1)
      BY <1>1, <2>1, PageFollows
    <3> QED BY <1>1, <1>2, <2>1, <3>1, <3>2
  <2>3. /\ old # <<>> => pg[1].seq = follower.cursor + 1
        /\ old = <<>> => pg[1].seq = file[1].seq
        /\ pg[1].seq >= file[1].seq
        /\ pg[1].seq + (Len(pg) - 1) <= file[1].seq + (Len(file) - 1)
        /\ file[1].seq > 1 /\ old = <<>> => Gap(p)
        /\ file[1].seq >= 1
    BY <1>7, <2>1, PageFollows DEF IInv, FileOK
  <2>4. \A i \in 1 .. Len(pg) : pg[i].seq = pg[1].seq + (i - 1)
    BY PageFollows
  <2>5. \A i \in 1 .. Len(old \o new) :
           (old \o new)[i] = Cursor(p) - Len(old \o new) + i
    <3> SUFFICES ASSUME NEW i \in 1 .. Len(old) + Len(pg)
                 PROVE  (old \o new)[i] = Cursor(p) - (Len(old) + Len(pg)) + i
      BY <1>4
    <3> HIDE DEF pg, new, old
    <3>0. /\ Len(pg) \in Nat /\ Len(old) \in Nat /\ follower.cursor \in Nat
          /\ pg[1].seq \in Nat /\ Cursor(p) = pg[1].seq + (Len(pg) - 1)
      BY <1>1, <2>2
    <3>1. CASE i <= Len(old)
      <4>1. old # <<>>
        BY <1>1, <3>1
      <4>2. Cursor(p) = follower.cursor + Len(pg)
        <5>1. pg[1].seq = follower.cursor + 1
          BY <2>3, <4>1
        <5> QED BY <3>0, <5>1
      <4>3. (old \o new)[i] = follower.cursor - Len(old) + i
        BY <1>1, <1>4, <1>5, <3>1
      <4> QED BY <1>1, <4>2, <4>3
    <3>2. CASE i > Len(old)
      <4>1. i - Len(old) \in 1 .. Len(pg) /\ Len(old) + (i - Len(old)) = i
        BY <1>1, <3>2
      <4>2. (old \o new)[i] = pg[i - Len(old)].seq
        BY <1>4, <4>1
      <4>3. pg[i - Len(old)].seq = pg[1].seq + (i - Len(old) - 1)
        BY <2>4, <4>1
      <4>4. pg[1].seq + (i - Len(old) - 1)
              = pg[1].seq + (Len(pg) - 1) - (Len(old) + Len(pg)) + i
        BY <3>0, <4>1
      <4>5. (old \o new)[i] = pg[1].seq + (Len(pg) - 1) - (Len(old) + Len(pg)) + i
        BY <4>2, <4>3, <4>4
      <4>6. Cursor(p) = pg[1].seq + (Len(pg) - 1)
        BY <3>0
      <4>7. pg[1].seq + (Len(pg) - 1) - (Len(old) + Len(pg)) + i
              = Cursor(p) - (Len(old) + Len(pg)) + i
        BY <3>0, <4>1
      <4> QED BY <4>5, <4>7
    <3>3. i <= Len(old) \/ i > Len(old)
      BY <1>1
    <3> QED BY <3>1, <3>2, <3>3
  <2>6. old \o new # <<>>
    BY <1>1, <1>4, <2>1
  <2>7. (follower.gap \/ Gap(p)) \/ Len(old \o new) = Cursor(p)
    <3> HIDE DEF pg, new, old
    <3>1. CASE old = <<>>
      BY <1>1, <1>4, <2>1, <2>2, <2>3, <3>1
    <3>2. CASE old # <<>>
      <4>1. pg[1].seq = follower.cursor + 1
        BY <2>3, <3>2
      <4>2. Cursor(p) = follower.cursor + Len(pg)
        <5>1. /\ Len(pg) \in Nat /\ follower.cursor \in Nat
              /\ pg[1].seq \in Nat /\ Cursor(p) = pg[1].seq + (Len(pg) - 1)
          BY <1>1, <2>2
        <5> QED BY <4>1, <5>1
      <4>3. CASE Len(old) = follower.cursor
        BY <1>1, <1>4, <4>2, <4>3
      <4> QED BY <1>5, <4>3
    <3> QED BY <3>1, <3>2
  <2>8. /\ follower'.cursor = Cursor(p) /\ follower'.heard = old \o new
        /\ follower'.gap = (follower.gap \/ Gap(p))
    BY DEF Hears
  <2> HIDE DEF pg, new, old
  <2>9. FollowerMissesNothing'
    BY <2>5, <2>6, <2>7, <2>8 DEF FollowerMissesNothing
  <2>10. FollowOK'
    BY <1>1, <2>1, <2>2, <2>3, <2>8, <2>9 DEF FollowOK
  <2>11. follower' \in [cursor : Nat, heard : Seq(Nat), gap : BOOLEAN]
    BY <1>1, <1>4, <2>2 DEF pg, new, old, Hears
  <2> QED BY <2>10, <2>11
<1> QED BY <1>6, <1>7

LEMMA WindowKeeps ==
    ASSUME NEW p \in Proc, IInv, WindowRead(p)
    PROVE  IInv'
<1> USE DEF senderVars, ledgerVars, Return, WindowRead
<1>1. FollowOK' /\ follower' \in [cursor : Nat, heard : Seq(Nat), gap : BOOLEAN]
  <2>1. CASE job[p].kind = "feed"
    BY <2>1, PageKeeps DEF Hears
  <2>2. CASE job[p].kind = "read" /\ UNCHANGED follower
    BY <2>2, FollowerKept DEF IInv, LedgerTypeOK
  <2> QED BY <2>1, <2>2
<1>2. FileOK'
  BY FileKept DEF IInv
<1>3. LedgerTypeOK'
  <2>1. Idle \in Jobs
    BY DEF Idle, Jobs, Steps
  <2> QED BY <1>1, <2>1 DEF IInv, LedgerTypeOK
<1>4. job'[p] = Idle /\ \A q \in Proc \ {p} : job'[q] = job[q]
  BY DEF IInv, LedgerTypeOK
<1>5. CallOK(p)' /\ CacheOK(p)'
  BY <1>4 DEF IInv, CallOK, CacheOK, Idle
<1>6. Moves(p)
  BY DEF Moves
<1> QED BY <1>1, <1>2, <1>3, <1>4, <1>5, <1>6, Combine

-----------------------------------------------------------------------------
LEMMA InitKeeps == Init => IInv
<1> SUFFICES ASSUME Init PROVE IInv
  OBVIOUS
<1>0. Idle \in Jobs
  BY DEF Idle, Jobs, Steps
<1>1. file \in Seq(Rows) /\ tail \in Tails /\ status \in [Message -> States] /\ FileOK
  <2>1. CASE file = <<>> /\ tail = "absent" /\ status = [m \in Message |-> "none"]
    BY <2>1 DEF Tails, States, FileOK, Chained
  <2>2. ASSUME NEW s \in Retained, NEW m \in Sent,
               file = <<[seq |-> s, prev |-> 0, msg |-> m, event |-> "CREATED"]>>,
               tail = "clean",
               status = [n \in Message |-> IF n = m THEN "PENDING" ELSE "none"]
        PROVE  file \in Seq(Rows) /\ tail \in Tails /\ status \in [Message -> States] /\ FileOK
    <3>1. [seq |-> s, prev |-> 0, msg |-> m, event |-> "CREATED"] \in Rows /\ s >= 1 /\ s \in Nat
      BY RetainedAssumption DEF Rows, Message, Event
    <3>2. FileOK
      BY <2>2, <3>1 DEF FileOK, Chained
    <3> QED BY <2>2, <3>1, <3>2 DEF Tails, States
  <2> QED BY <2>1, <2>2 DEF Init
<1>2. LedgerTypeOK
  <2>1. <<>> \in Seq(Nat)
    OBVIOUS
  <2>2. /\ lock = None /\ cache = [p \in Proc |-> None] /\ job = [p \in Proc |-> Idle]
        /\ errand = [p \in Proc |-> None] /\ faults = 0 /\ lost = FALSE
        /\ follower = [cursor |-> 0, heard |-> <<>>, gap |-> FALSE]
    BY DEF Init
  <2> QED BY <1>0, <1>1, <2>1, <2>2 DEF LedgerTypeOK
<1>3. FollowOK
  BY DEF Init, FollowOK, FollowerMissesNothing
<1>4. \A p \in Proc : CallOK(p) /\ CacheOK(p)
  BY DEF Init, CallOK, CacheOK, Idle
<1> QED BY <1>1, <1>2, <1>3, <1>4 DEF IInv

LEMMA NextKeeps == IInv /\ [Next]_vars => IInv'
<1> SUFFICES ASSUME IInv, [Next]_vars PROVE IInv'
  OBVIOUS
<1>1. CASE UNCHANGED vars
  BY <1>1 DEF vars, IInv, LedgerTypeOK, CallOK, CacheOK, FileOK, Chained, FollowOK,
              FollowerMissesNothing
<1>2. ASSUME NEW p \in Proc, Deed(p) \/ Finish(p) \/ Call(p) \/ Die(p)
      PROVE  IInv'
  <2>1. CASE Deed(p) \/ Finish(p) \/ Die(p)
    BY <2>1, DeedKeeps, FinishKeeps, StopKeeps
  <2>2. CASE Call(p)
    <3>1. CASE AppendBegin(p) \/ AppendTimesOut(p)
      BY <3>1, AppendBeginKeeps
    <3>2. CASE \E kind \in {"read", "feed"} : ReadBegin(p, kind)
      BY <3>2, ReadBeginKeeps
    <3>3. CASE Load(p) \/ Read(p) \/ Confirm(p)
      BY <3>3, LoadKeeps, ReadKeeps, ConfirmKeeps
    <3>4. CASE ReadRefused(p) \/ ConfirmRefused(p) \/ OpenRefused(p) \/ WindowRefused(p)
      <4>1. job[p].step # "idle" /\ (Refuse(p, None) \/ Refuse(p, cache[p]))
        BY <3>4 DEF ReadRefused, ConfirmRefused, OpenRefused, WindowRefused, At
      <4> QED BY <4>1, RefuseKeeps
    <3>5. CASE Open(p) \/ WriteSome(p) \/ Write(p) \/ WriteFails(p)
      BY <3>5, OpenKeeps, WriteSomeKeeps, WriteKeeps, StopKeeps
    <3>6. CASE WindowRead(p)
      BY <3>6, WindowKeeps
    <3> QED BY <2>2, <3>1, <3>2, <3>3, <3>4, <3>5, <3>6 DEF Call
  <2> QED BY <1>2, <2>1, <2>2
<1> QED BY <1>1, <1>2 DEF Next

LEMMA AlwaysIInv == Spec => []IInv
BY InitKeeps, NextKeeps, PTL DEF Spec

\* Files, snapshots, calls and errands keep their shapes.
THEOREM LedgerTypeCorrect == Spec => []LedgerTypeOK
<1>1. IInv => LedgerTypeOK
  BY DEF IInv
<1> QED BY <1>1, AlwaysIInv, PTL

\* append, _load_ledger and ValidatedFile together: no interleaving of writers,
\* readers, stale snapshots, deaths and full disks ever breaks the hash chain or
\* leaves a hole in the numbering.
THEOREM ChainNeverBroken == Spec => []ChainIntact
<1>1. IInv => ChainIntact
  BY DEF IInv, FileOK, ChainIntact
<1> QED BY <1>1, AlwaysIInv, PTL

\* feed: whoever follows the cursor hears every retained record once, in order,
\* and is told of what was trimmed away before it came.
THEOREM FollowerHearsAll == Spec => []FollowerMissesNothing
<1>1. IInv => FollowerMissesNothing
  BY DEF IInv, FollowOK
<1> QED BY <1>1, AlwaysIInv, PTL

-----------------------------------------------------------------------------
(* Nothing but faults costs a note. *)

\* ledger.lock keeps the file still under an append that is still checking.
Undisturbed(p) ==
    job[p].kind = "append" =>
        /\ job[p].step \in {"read", "confirm"} => job[p].before = Stamp
        /\ job[p].step = "open" => cache[p].stamp = Stamp

\* Without faults an unfinished last line is one that is being written.
FaultFree ==
    faults = 0 =>
        /\ ~lost
        /\ tail \in {"cut", "bare"} => \E p \in Proc : job[p].step = "write"
        /\ \A p \in Proc : Undisturbed(p)

\* What is left to show of a step of p that is no fault.
LEMMA StaysFaultFree ==
    ASSUME NEW p \in Proc, IInv, FaultFree, faults = 0, ~lost',
           \A q \in Proc \ {p} : job'[q] = job[q] /\ cache'[q] = cache[q],
           (file' = file /\ tail' = tail) \/ lock = p,
           tail' \in {"cut", "bare"} =>
              job'[p].step = "write" \/ (tail' = tail /\ job[p].step # "write"),
           Undisturbed(p)'
    PROVE  FaultFree'
<1>1. ASSUME NEW q \in Proc, q # p
      PROVE  Undisturbed(q)'
  <2>1. CASE file' = file /\ tail' = tail
    BY <1>1, <2>1 DEF FaultFree, Undisturbed, Stamp
  <2>2. CASE lock = p
    BY <1>1, <2>2 DEF IInv, CallOK, Undisturbed
  <2> QED BY <2>1, <2>2
<1>2. tail' \in {"cut", "bare"} => \E q \in Proc : job'[q].step = "write"
  <2>1. ASSUME tail \in {"cut", "bare"}, job[p].step # "write"
        PROVE  \E q \in Proc : job'[q].step = "write"
    <3>1. PICK q \in Proc : job[q].step = "write"
      BY <2>1 DEF FaultFree
    <3> QED BY <2>1, <3>1
  <2> QED BY <2>1
<1> QED BY <1>1, <1>2 DEF FaultFree

\* An append refuses nothing while nothing fails: the file it checks is still,
\* whole and chained.
LEMMA AppendsNotRefused ==
    ASSUME NEW p \in Proc, IInv, FaultFree, faults = 0,
           ReadRefused(p) \/ ConfirmRefused(p) \/ OpenRefused(p) \/ WindowRefused(p)
    PROVE  job[p].kind # "append"
<1> SUFFICES ASSUME job[p].kind = "append" PROVE FALSE
  OBVIOUS
<1>0. Undisturbed(p) /\ CallOK(p) /\ CacheOK(p)
  BY DEF IInv, FaultFree
<1>1. tail \in {"cut", "bare"} => job[p].step \in {"idle", "write"}
  <2>1. ASSUME tail \in {"cut", "bare"}, job[p].step # "idle" PROVE job[p].step = "write"
    <3>1. PICK q \in Proc : job[q].step = "write"
      BY <2>1 DEF FaultFree
    <3>2. lock = q /\ lock = p
      BY <3>1, <2>1 DEF IInv, CallOK
    <3> QED BY <3>1, <3>2
  <2> QED BY <2>1
<1>2. CASE ReadRefused(p)
  BY <1>1, <1>2 DEF ReadRefused, At, Loads, IInv, FileOK
<1>3. CASE ConfirmRefused(p)
  BY <1>0, <1>3 DEF ConfirmRefused, At, Undisturbed
<1>4. CASE OpenRefused(p)
  <2>1. cache[p] # None /\ cache[p].stamp = Stamp /\ tail # "bare"
    BY <1>0, <1>1, <1>4 DEF OpenRefused, At, Undisturbed, CallOK
  <2>2. Stamp.tail = tail
    BY DEF Stamp
  <2>3. cache[p].value.ended
    BY <1>0, <2>1, <2>2 DEF CacheOK
  <2>4. Value(p).ended /\ Unmoved(p)
    BY <2>1, <2>3 DEF Value, Unmoved
  <2> QED BY <1>4, <2>4 DEF OpenRefused
<1>5. CASE WindowRefused(p)
  BY <1>0, <1>5 DEF WindowRefused, At, CallOK
<1> QED BY <1>2, <1>3, <1>4, <1>5

LEMMA CheckingFaultFree ==
    ASSUME NEW p \in Proc, IInv, FaultFree, faults = 0, Load(p) \/ Read(p) \/ Confirm(p)
    PROVE  FaultFree'
<1> USE DEF senderVars, ledgerVars, At
<1>0. Undisturbed(p) /\ CallOK(p) /\ job[p] \in Jobs
  BY DEF FaultFree, IInv, LedgerTypeOK
<1>1. /\ UNCHANGED <<file, tail, lost>> /\ job[p].step # "write"
      /\ \A q \in Proc \ {p} : job'[q] = job[q] /\ cache'[q] = cache[q]
  BY DEF Load, Read, Confirm, Goto, IInv, LedgerTypeOK
<1>2. Stamp' = Stamp
  BY <1>1 DEF Stamp
<1>3. Undisturbed(p)'
  <2>1. CASE Load(p)
    <3>1. CASE Current(p) /\ Goto(p, Onward(p)) /\ UNCHANGED cache
      <4>1. job'[p].kind = job[p].kind /\ job'[p].step \in {"open", "window"}
        BY <3>1, <1>0 DEF Goto, Onward, Jobs, IInv, LedgerTypeOK
      <4> QED BY <3>1, <4>1, <1>2 DEF Undisturbed, Current
    <3>2. CASE job' = [job EXCEPT ![p].step = "read", ![p].before = Stamp]
      <4>1. job'[p].before = Stamp /\ job'[p].step = "read"
        BY <3>2, <1>0 DEF Jobs, IInv, LedgerTypeOK
      <4> QED BY <4>1, <1>2 DEF Undisturbed
    <3> QED BY <2>1, <3>1, <3>2 DEF Load
  <2>2. CASE Read(p)
    <3>1. job'[p].before = job[p].before /\ job'[p].kind = job[p].kind
          /\ job'[p].step = "confirm"
      BY <2>2, <1>0 DEF Read, Jobs, IInv, LedgerTypeOK
    <3> QED BY <2>2, <3>1, <1>0, <1>2 DEF Undisturbed, Read
  <2>3. CASE Confirm(p)
    <3>1. /\ job'[p].step \in {"open", "window"} /\ Stamp = job[p].before
          /\ cache'[p] = [stamp |-> job[p].before, value |-> job[p].value]
      BY <2>3, <1>0 DEF Confirm, Goto, Onward, Jobs, IInv, LedgerTypeOK
    <3> QED BY <3>1, <1>2 DEF Undisturbed
  <2> QED BY <2>1, <2>2, <2>3
<1>4. ~lost'
  BY <1>1 DEF FaultFree
<1> QED BY <1>1, <1>3, <1>4, StaysFaultFree

LEMMA WritingFaultFree ==
    ASSUME NEW p \in Proc, IInv, FaultFree, faults = 0, Open(p) \/ WriteSome(p) \/ Write(p)
    PROVE  FaultFree'
<1> USE DEF senderVars, ledgerVars, At
<1>0. CallOK(p) /\ job[p] \in Jobs
  BY DEF IInv, LedgerTypeOK
<1>1. lock = p
  BY <1>0 DEF Open, WriteSome, Write, CallOK
<1>2. ~lost' /\ \A q \in Proc \ {p} : job'[q] = job[q] /\ cache'[q] = cache[q]
  BY DEF Open, WriteSome, Write, Goto, Return, FaultFree, IInv, LedgerTypeOK
<1>3. CASE Open(p) \/ WriteSome(p)
  <2>1. job'[p].step = "write"
    BY <1>0, <1>3 DEF Open, WriteSome, Goto, Jobs, IInv, LedgerTypeOK
  <2> QED BY <1>1, <1>2, <2>1, StaysFaultFree DEF Undisturbed
<1>4. CASE Write(p)
  <2>1. job'[p] = Idle /\ tail' = "clean"
    BY <1>4 DEF Write, Return, IInv, LedgerTypeOK
  <2>2. Undisturbed(p)'
    BY <2>1 DEF Undisturbed, Idle
  <2> QED BY <1>1, <1>2, <2>1, <2>2, StaysFaultFree
<1> QED BY <1>3, <1>4

\* Calls that begin or end without touching the file.
LEMMA OutsideFaultFree ==
    ASSUME NEW p \in Proc, IInv, FaultFree, faults = 0,
           \/ AppendBegin(p) \/ \E kind \in {"read", "feed"} : ReadBegin(p, kind)
           \/ ReadRefused(p) \/ ConfirmRefused(p) \/ OpenRefused(p) \/ WindowRefused(p)
           \/ WindowRead(p)
    PROVE  FaultFree'
<1> USE DEF senderVars, ledgerVars, At
<1>1. CASE AppendBegin(p) \/ \E kind \in {"read", "feed"} : ReadBegin(p, kind)
  <2>1. job'[p].step = "load"
    BY <1>1 DEF AppendBegin, ReadBegin, Idle, IInv, LedgerTypeOK
  <2>2. /\ UNCHANGED <<file, tail, lost>> /\ job[p].step # "write"
        /\ \A q \in Proc \ {p} : job'[q] = job[q] /\ cache'[q] = cache[q]
    BY <1>1 DEF AppendBegin, ReadBegin, IInv, LedgerTypeOK
  <2>3. Undisturbed(p)' /\ ~lost'
    BY <2>1, <2>2 DEF Undisturbed, FaultFree
  <2> QED BY <2>2, <2>3, StaysFaultFree
<1>2. CASE ReadRefused(p) \/ ConfirmRefused(p) \/ OpenRefused(p) \/ WindowRefused(p)
  <2>1. job[p].kind # "append"
    BY <1>2, AppendsNotRefused
  <2>2. job[p].step # "write" /\ (Refuse(p, None) \/ Refuse(p, cache[p]))
    BY <1>2 DEF ReadRefused, ConfirmRefused, OpenRefused, WindowRefused
  <2>3. /\ UNCHANGED <<file, tail>> /\ ~lost' /\ job'[p] = Idle
        /\ \A q \in Proc \ {p} : job'[q] = job[q] /\ cache'[q] = cache[q]
    BY <2>1, <2>2 DEF Refuse, Return, FaultFree, IInv, LedgerTypeOK
  <2>4. Undisturbed(p)'
    BY <2>3 DEF Undisturbed, Idle
  <2> QED BY <2>2, <2>3, <2>4, StaysFaultFree
<1>3. CASE WindowRead(p)
  <2>1. /\ UNCHANGED <<file, tail>> /\ ~lost' /\ job'[p] = Idle /\ job[p].step # "write"
        /\ \A q \in Proc \ {p} : job'[q] = job[q] /\ cache'[q] = cache[q]
    BY <1>3 DEF WindowRead, Return, FaultFree, IInv, LedgerTypeOK
  <2>2. Undisturbed(p)'
    BY <2>1 DEF Undisturbed, Idle
  <2> QED BY <2>1, <2>2, StaysFaultFree
<1> QED BY <1>1, <1>2, <1>3

LEMMA FaultFreeStep == IInv /\ FaultFree /\ [Next]_vars => FaultFree'
<1> SUFFICES ASSUME IInv, FaultFree, [Next]_vars, faults' = 0 PROVE FaultFree'
  BY DEF FaultFree
<1> USE DEF senderVars, ledgerVars
<1>1. faults \in Nat
  BY DEF IInv, LedgerTypeOK
<1>2. CASE UNCHANGED <<file, tail, cache, job, faults, lost>>
  BY <1>2 DEF FaultFree, Undisturbed, Stamp
<1>3. ASSUME NEW p \in Proc, Deed(p) \/ Finish(p)
      PROVE  UNCHANGED <<file, tail, cache, job, faults, lost>>
  BY <1>3 DEF Deed, Submit, Seal, Deliver, Retry, Receive, OpenMessage, Act, Finish
<1>4. ASSUME NEW p \in Proc, AppendTimesOut(p) \/ WriteFails(p) \/ Die(p)
      PROVE  FALSE
  BY <1>1, <1>4 DEF AppendTimesOut, WriteFails, Die, Fault
<1>5. ASSUME NEW p \in Proc, Call(p), ~(AppendTimesOut(p) \/ WriteFails(p))
      PROVE  FaultFree'
  <2>1. faults = 0
    BY <1>5 DEF Call, AppendBegin, ReadBegin, Load, Read, ReadRefused, Confirm, ConfirmRefused,
       Open, OpenRefused, WriteSome, Write, WindowRead, WindowRefused, Refuse
  <2> QED
    BY <1>5, <2>1, CheckingFaultFree, WritingFaultFree, OutsideFaultFree DEF Call
<1> QED BY <1>2, <1>3, <1>4, <1>5 DEF Next, vars

\* ledger.append under ledger.lock and ValidatedFile's three looks at the stamp:
\* concurrent readers and writers never cost a note; every lost one was lost to
\* a death, a failed write or a lock timeout.
THEOREM FaultsAloneLose == Spec => []OnlyFaultsLose
<1>1. Init => FaultFree
  BY DEF Init, FaultFree, Undisturbed, Idle
<1>2. FaultFree => OnlyFaultsLose
  BY DEF FaultFree, OnlyFaultsLose
<1> QED BY <1>1, <1>2, FaultFreeStep, AlwaysIInv, PTL DEF Spec
=============================================================================
