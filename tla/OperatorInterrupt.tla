------------------------- MODULE OperatorInterrupt -------------------------
(***************************************************************************)
(* src/saimail/operator_interrupt.py: the receiver's ledger of operator    *)
(* decisions, composed with its attention queue (HumanAttention).          *)
(*                                                                         *)
(* Several processes run the Receiver's commands.  Each command takes      *)
(* interrupt.lock and attention.lock in turn and gives each up in between: *)
(* admit looks, counts, enqueues and records in four sections; reserve and *)
(* acknowledge change the queue first and the ledger afterwards.  Only the *)
(* hand-back of an orphan candidate holds both.  A process may die between *)
(* any two steps; a refusal on the way ends the command like a death.      *)
(***************************************************************************)
EXTENDS HumanAttention

CONSTANTS Proc,        \* processes that run the Receiver's commands
          Text,        \* what a letter about a decision says
          Letters,     \* the settled, eligible declarations that may arrive
          MaxPending   \* MAX_PENDING_DECISIONS

Entries == [state : {"PENDING", "PRESENTED"}, letter : Letters,
            reservation : 0 .. MaxTokens]

\* A decision is its queue candidate, a class is its allocation; the envelope and
\* the visible body are one with the text.
ASSUME LetterAssumption == Letters \subseteq [decision : Candidate, class : Rank, text : Text]
ASSUME ProcAssumption == IsFiniteSet(Proc) /\ Proc # {}
ASSUME PendingAssumption == MaxPending \in Nat \ {0}
ASSUME NoLetterAssumption == None \notin Letters \cup Entries

VARIABLES
    entry,     \* entry[d]: the ledger file of decision d, or None
    shown,     \* shown[t]: the letter reserve returned with token t, or None
    call       \* call[p]: where p's command is

interruptVars == <<vars, entry, shown, call>>

\* Steps that hold attention.lock.
Queueing == {"reserving", "acking", "releasing", "returning"}

CallSteps == {"idle", "room", "enqueue", "record", "reserved", "handback",
              "acked", "released"} \cup Queueing

Calls == [step : CallSteps, letter : Letters \cup {None},
          decision : Candidate \cup {None}, token : 0 .. MaxTokens]

Idle == [step |-> "idle", letter |-> None, decision |-> None, token |-> 0]

InterruptTypeOK ==
    /\ AttentionTypeOK
    /\ entry \in [Candidate -> Entries \cup {None}]
    /\ \A d \in Candidate : entry[d] # None => entry[d].letter.decision = d
    /\ shown \in [1 .. MaxTokens -> Letters \cup {None}]
    /\ call \in [Proc -> Calls]
    /\ \A p \in Proc :
          /\ call[p].step \in {"room", "enqueue", "record"} => call[p].letter # None
          /\ call[p].step \in {"reserved", "acked"} => call[p].decision # None
          /\ call[p].step \in {"reserved", "handback", "acking", "acked", "releasing",
                               "released", "returning"} => call[p].token \in 1 .. issued

InterruptInit ==
    /\ Init
    /\ entry = [d \in Candidate |-> None]
    /\ shown = [t \in 1 .. MaxTokens |-> None]
    /\ call = [p \in Proc |-> Idle]

-----------------------------------------------------------------------------
Goes(p, next) == call' = [call EXCEPT ![p] = next]
At(p, step) == call[p].step = step

\* interrupt.lock is free: its sections are one step each, but for the one that
\* gives a candidate back to the queue.
Unlocked == \A p \in Proc : call[p].step \notin {"handback", "returning"}

Waiting == {d \in Candidate : entry[d] # None /\ entry[d].state = "PENDING"}

Leasing(token) == {c \in Leased : lease[c].token = token}
Receipted(token) == {c \in Presented : presented[c].token = token}

-----------------------------------------------------------------------------
(* admit *)

\* Not presented, not of another class, and not the very letter on record.
Considered(letter) ==
    LET e == entry[letter.decision] IN
    e # None => e.state = "PENDING" /\ e.letter.class = letter.class /\ e.letter # letter

AdmitLook(p, letter) ==
    /\ At(p, "idle") /\ Unlocked
    /\ Considered(letter)
    /\ Goes(p, [Idle EXCEPT !.step = "room", !.letter = letter])
    /\ UNCHANGED <<vars, entry, shown>>

\* Fault: the cap is off by one.
RoomAtCap(decision) == Cardinality(Waiting) <= MaxPending \/ decision \in Waiting

\* _require_pending_room: PENDING_FULL ends the command.
Room(decision) == Cardinality(Waiting) < MaxPending \/ decision \in Waiting

AdmitRoom(p) ==
    /\ At(p, "room") /\ Unlocked
    /\ Goes(p, IF Room(call[p].letter.decision)
               THEN [call[p] EXCEPT !.step = "enqueue"] ELSE Idle)
    /\ UNCHANGED <<vars, entry, shown>>

\* Fault: the queue's answer about another class is ignored.
AdmitEnqueueAnyway(p, now) ==
    LET letter == call[p].letter
        d == letter.decision
    IN  /\ At(p, "enqueue")
        /\ \/ Admit(d, letter.class, now)
           \/ job.step = "free" /\ admitted[d] # None /\ UNCHANGED vars
        /\ Goes(p, [call[p] EXCEPT !.step = "record"])
        /\ UNCHANGED <<entry, shown>>

\* admit_receiver_candidate: new, the same again, or refused for its class.
AdmitEnqueue(p, now) ==
    LET letter == call[p].letter
        d == letter.decision
    IN  /\ At(p, "enqueue")
        /\ \/ Admit(d, letter.class, now) /\ Goes(p, [call[p] EXCEPT !.step = "record"])
           \/ /\ job.step = "free" /\ admitted[d] # None
              /\ Goes(p, IF admitted[d].rank = letter.class
                         THEN [call[p] EXCEPT !.step = "record"] ELSE Idle)
              /\ UNCHANGED vars
        /\ UNCHANGED <<entry, shown>>

\* The entry is read again, but only for its reservation.
AdmitRecord(p) ==
    LET letter == call[p].letter
        e == entry[letter.decision]
    IN  /\ At(p, "record") /\ Unlocked
        /\ entry' = [entry EXCEPT ![letter.decision] =
                        [state |-> "PENDING", letter |-> letter,
                         reservation |-> IF e = None THEN 0 ELSE e.reservation]]
        /\ Goes(p, Idle)
        /\ UNCHANGED <<vars, shown>>

-----------------------------------------------------------------------------
(* reserve *)

Propose(p, now) ==
    /\ At(p, "idle")
    /\ ReserveBegin(now)
    /\ Goes(p, [Idle EXCEPT !.step = "reserving"])
    /\ UNCHANGED <<entry, shown>>

ProposeNothing(p) ==
    /\ At(p, "reserving")
    /\ ReserveNothing
    /\ Goes(p, Idle)
    /\ UNCHANGED <<entry, shown>>

ProposeReserved(p) ==
    /\ At(p, "reserving")
    /\ Reserve
    /\ \E c \in Candidate :
          /\ lease'[c] # None /\ lease'[c].token = issued'
          /\ Goes(p, [Idle EXCEPT !.step = "reserved", !.decision = c, !.token = issued'])
    /\ UNCHANGED <<entry, shown>>

\* The letter on record is what the caller is told to show.
ProposeShow(p) ==
    LET d == call[p].decision
        t == call[p].token
    IN  /\ At(p, "reserved") /\ Unlocked
        /\ d \in Waiting
        /\ entry' = [entry EXCEPT ![d].reservation = t]
        /\ shown' = [shown EXCEPT ![t] = entry[d].letter]
        /\ Goes(p, Idle)
        /\ UNCHANGED vars

\* No admitted decision behind the candidate: NOTHING_PENDING, and the lease
\* goes back while interrupt.lock is held.
ProposeHandBack(p) ==
    /\ At(p, "reserved") /\ Unlocked
    /\ call[p].decision \notin Waiting
    /\ Goes(p, [call[p] EXCEPT !.step = "handback"])
    /\ UNCHANGED <<vars, entry, shown>>

HandBackBegin(p, now) ==
    /\ At(p, "handback")
    /\ ReleaseBegin(now, call[p].token)
    /\ Goes(p, [call[p] EXCEPT !.step = "returning"])
    /\ UNCHANGED <<entry, shown>>

HandBack(p) ==
    /\ At(p, "returning")
    /\ Release
    /\ Goes(p, Idle)
    /\ UNCHANGED <<entry, shown>>

-----------------------------------------------------------------------------
(* acknowledge: of a token that some reserve returned *)

\* Fault: the ledger says presented before the queue has a receipt.
AcknowledgeEarly(p, now, token) ==
    /\ At(p, "idle")
    /\ token \in DOMAIN shown /\ shown[token] # None
    /\ AckBegin(now, token)
    /\ Goes(p, [Idle EXCEPT !.step = "acking", !.token = token])
    /\ entry' = [entry EXCEPT ![shown[token].decision].state = "PRESENTED"]
    /\ UNCHANGED shown

Acknowledge(p, now, token) ==
    /\ At(p, "idle")
    /\ token \in DOMAIN shown /\ shown[token] # None
    /\ AckBegin(now, token)
    /\ Goes(p, [Idle EXCEPT !.step = "acking", !.token = token])
    /\ UNCHANGED <<entry, shown>>

Acked(p, c) == Goes(p, [call[p] EXCEPT !.step = "acked", !.decision = c])

\* Nothing to publish: ALREADY_ACKED goes on to the ledger, a refusal does not.
AckAnswered(p) ==
    /\ At(p, "acking")
    /\ AckUnknown \/ AckSpent
    /\ \/ \E c \in Receipted(call[p].token) : Acked(p, c)
       \/ Receipted(call[p].token) = {} /\ Goes(p, Idle)
    /\ UNCHANGED <<entry, shown>>

AckPublished(p) ==
    /\ At(p, "acking")
    /\ AckPublish
    /\ UNCHANGED <<entry, shown, call>>

AckUnlinked(p) ==
    /\ At(p, "acking")
    /\ AckUnlink
    /\ \E c \in Receipted(call[p].token) : Acked(p, c)
    /\ UNCHANGED <<entry, shown>>

\* The answer names the letter that is on record now.
AckRecord(p) ==
    LET d == call[p].decision IN
    /\ At(p, "acked") /\ Unlocked
    /\ IF entry[d] = None
       THEN UNCHANGED entry
       ELSE entry' = [entry EXCEPT ![d].state = "PRESENTED", ![d].reservation = 0]
    /\ Goes(p, Idle)
    /\ UNCHANGED <<vars, shown>>

-----------------------------------------------------------------------------
(* release *)

GiveUp(p, now, token) ==
    /\ At(p, "idle")
    /\ token \in DOMAIN shown /\ shown[token] # None
    /\ ReleaseBegin(now, token)
    /\ Goes(p, [Idle EXCEPT !.step = "releasing", !.token = token])
    /\ UNCHANGED <<entry, shown>>

\* An unknown reservation refuses, and the ledger keeps its pointer.
GiveUpReleased(p) ==
    /\ At(p, "releasing")
    /\ Release
    /\ Goes(p, IF Leasing(call[p].token) # {}
               THEN [call[p] EXCEPT !.step = "released"] ELSE Idle)
    /\ UNCHANGED <<entry, shown>>

GiveUpRecord(p) ==
    /\ At(p, "released") /\ Unlocked
    /\ entry' = [d \in Candidate |->
                    IF entry[d] # None /\ entry[d].reservation = call[p].token
                    THEN [entry[d] EXCEPT !.reservation = 0] ELSE entry[d]]
    /\ Goes(p, Idle)
    /\ UNCHANGED <<vars, shown>>

-----------------------------------------------------------------------------
\* The queue's own clean-up on behalf of the command that holds its lock.
QueueCleanup == Cleanup /\ UNCHANGED <<entry, shown, call>>

\* A death or a refusal: both locks are free again.
Fall(p) ==
    /\ ~At(p, "idle")
    /\ IF call[p].step \in Queueing THEN Die ELSE UNCHANGED vars
    /\ Goes(p, Idle)
    /\ UNCHANGED <<entry, shown>>

Command(p) ==
    \/ \E letter \in Letters : AdmitLook(p, letter)
    \/ AdmitRoom(p)
    \/ \E now \in Time : AdmitEnqueue(p, now)
    \/ AdmitRecord(p)
    \/ \E now \in Time : Propose(p, now)
    \/ ProposeNothing(p)
    \/ ProposeReserved(p)
    \/ ProposeShow(p)
    \/ ProposeHandBack(p)
    \/ \E now \in Time : HandBackBegin(p, now)
    \/ HandBack(p)
    \/ \E now \in Time, token \in 1 .. issued : Acknowledge(p, now, token)
    \/ AckAnswered(p)
    \/ AckPublished(p)
    \/ AckUnlinked(p)
    \/ AckRecord(p)
    \/ \E now \in Time, token \in 1 .. issued : GiveUp(p, now, token)
    \/ GiveUpReleased(p)
    \/ GiveUpRecord(p)
    \/ Fall(p)

InterruptNext == QueueCleanup \/ \E p \in Proc : Command(p)

InterruptSpec == InterruptInit /\ [][InterruptNext]_interruptVars

-----------------------------------------------------------------------------
(* Properties *)

\* "the ledger and the scheduler can never disagree": whatever admissions of one
\* decision interleave, an entry has a queue candidate, and of its own class, so
\* admit never leaves "a ledger entry without a candidate".  It does not say that
\* the candidate is still to be served: a death between the receipt and AckRecord
\* leaves PENDING over a presented one, and so does AdmitRecord (PresentedStays).
CandidateBehindEntry ==
    \A d \in Candidate :
        entry[d] # None =>
            /\ admitted[d] # None
            /\ admitted[d].rank = entry[d].letter.class

\* Nothing is presented on the ledger alone: an entry says PRESENTED only over an
\* immutable receipt, wherever acknowledge, admit and release interleave.
PresentedHasReceipt ==
    \A d \in Candidate :
        entry[d] # None /\ entry[d].state = "PRESENTED" => presented[d] # None

\* "One decision gets one interruption", as far as the two locks carry it: a
\* caller that still holds the lease it reserved under is never handed a letter
\* about a decision that has its receipt.  A caller whose lease has run out
\* before ProposeShow may be.
OfferedOnce ==
    [][\A t \in DOMAIN shown :
         shown[t] = None /\ shown'[t] # None /\ presented[shown'[t].decision] # None
            => Leasing(t) = {}]_interruptVars

\* Decisions some process has found room for and not recorded yet.
InFlight == {call[p].letter.decision : p \in {q \in Proc : call[q].step \in {"enqueue", "record"}}}

\* MAX_PENDING_DECISIONS is checked in one section and used two sections later,
\* so concurrent admissions overshoot it, but by at most one per other process.
PendingAlmostBounded ==
    Cardinality(Waiting \cup InFlight) <= MaxPending + Cardinality(Proc) - 1

\* Claimed by spec/35, 4b: the hand-back of a candidate without a decision heals
\* the queue, so NOTHING_PENDING is said only when nothing is pending.
NothingMeansNothing ==
    [][\A p \in Proc : At(p, "reserved") /\ call'[p].step = "handback"
          => Waiting \subseteq Presented]_interruptVars

\* Claimed by spec/35, 4: after presentation a newer letter is ALREADY_PRESENTED.
\* An admission that looked before the acknowledgement records afterwards and
\* turns the entry back to PENDING, over a candidate the queue never serves again
\* (MCInterruptPresented.cfg).
PresentedStays ==
    [][\A d \in Candidate : entry[d] # None /\ entry[d].state = "PRESENTED"
          => entry'[d].state = "PRESENTED"]_interruptVars

=============================================================================
