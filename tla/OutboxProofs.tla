--------------------------- MODULE OutboxProofs ---------------------------
(***************************************************************************)
(* One message per key, kept before it leaves, claimed only when it        *)
(* arrived: proved for every number of keys, requests, containers, deaths  *)
(* and receiver's instants.                                                *)
(***************************************************************************)
EXTENDS Outbox, TLAPS

-----------------------------------------------------------------------------
(* The inductive invariant *)

\* Files on disk.
OneFile == \A k \in Key :
    /\ Unambiguous(k)
    /\ terminal[k] # None => terminal[k].state \in Settled

RecordedKept == \A k \in Key : \A n \in 1 .. Len(recorded) :
    recorded[n] = k => Intent(k) # None

\* A container belongs to a key exactly when the key's intent names it.
Owned == \A e \in Envelope, k \in Key :
    owner[e] = k <=> (Intent(k) # None /\ Intent(k).env = e)

\* What arrived is kept, what is kept was sealed.
Kept == \A e \in Envelope :
    /\ received[e] # None => e \in copies
    /\ e \in copies => owner[e] # None

WellFormed(i) ==
    /\ i.state = "PENDING" => i.env = None
    /\ i.state \in {"SEALED", "DELIVERED"} => i.env # None
    /\ i.state \in Settled => i.due

Shaped == \A k \in Key : Intent(k) # None => WellFormed(Intent(k))

Claimed == \A k \in Key, e \in Envelope :
    Intent(k) # None /\ Intent(k).state = "DELIVERED" /\ Intent(k).env = e
    => received[e] # None

Told == \A k \in Key : <<"DELIVERED", k>> \in ledger =>
    \E e \in Envelope : owner[e] = k /\ received[e] # None

Evidence == /\ OneFile
            /\ RecordedKept
            /\ Owned
            /\ Kept
            /\ Shaped
            /\ Claimed
            /\ Told

\* The lock holder's program counter against the files.
Working == {"advance", "store", "copy", "attempt", "answer", "commit", "retire"}
Sending == {"store", "copy", "attempt", "answer"}

\* The intent a job is about to write.
Decided(k) ==
    /\ active[k] # None
    /\ job.intent \in Intents
    /\ job.intent.env = active[k].env
    /\ WellFormed(job.intent)
    /\ \A e \in Envelope : job.intent.state = "DELIVERED" /\ job.intent.env = e
                           => received[e] # None
    /\ job.intent.request = active[k].request
    /\ active[k].state = "SEALED" \/ (job.force /\ active[k].state = "FAILED")
    /\ job.then \in {"next", "advance"}

AtWork(k) ==
    /\ job.step \in Working => Intent(k) # None
    /\ job.step \in Sending => active[k] # None /\ active[k].state = "SEALED"
    /\ job.step \in {"attempt", "answer"} => active[k].env \in copies
    /\ job.step = "answer" => \A e \in Envelope : active[k].env = e => received[e] # None
    /\ job.step = "commit" => Decided(k)
    /\ job.step = "retire" => active[k] # None /\ active[k].state \in Settled

Tidied == \A k \in Key :
    job.todo # {} /\ job.step # "tidy" /\ active[k] # None /\ active[k].state \in Settled
    => job.step = "retire" /\ job.key = k

JobOK ==
    /\ job.step \in Working => job.key \in Key
    /\ \A k \in Key : job.key = k => AtWork(k)
    /\ \A k \in Key : k \in job.todo => Intent(k) # None
    /\ Tidied

OutboxInv == OutboxTypeOK /\ Evidence /\ JobOK

\* The receiver dates what it holds.
Dated == \A e \in Envelope : state[e] # "absent" => received[e] # None

-----------------------------------------------------------------------------
(* Records and the job *)

LEMMA NoneIsNothing ==
    None \notin Intents /\ None \notin Key /\ None \notin Envelope /\ None \notin Time
  BY NoneAssumption

LEMMA IdleJob == /\ NoJob \in Jobs
                 /\ NoJob.step = "free" /\ NoJob.todo = {} /\ NoJob.key = None
  BY BoundsAssumption DEF NoJob, Jobs, JobSteps

LEMMA GoneTo ==
    ASSUME job \in Jobs, NEW name \in JobSteps, Goto(name)
    PROVE /\ job' \in Jobs
          /\ job'.step = name
          /\ job'.key = job.key /\ job'.todo = job.todo /\ job'.force = job.force
  BY DEF Goto, Jobs

LEMMA Deciding ==
    ASSUME job \in Jobs, NEW i \in Intents, WriteNext(i, "next")
    PROVE /\ job' \in Jobs
          /\ job'.step = "commit" /\ job'.intent = i /\ job'.then = "next"
          /\ job'.key = job.key /\ job'.todo = job.todo /\ job'.force = job.force
  BY DEF WriteNext, Jobs, JobSteps

LEMMA HasWritten ==
    ASSUME job \in Jobs, NEW then \in JobSteps, Written(then)
    PROVE /\ job' \in Jobs
          /\ job'.step = then
          /\ job'.key = job.key /\ job'.todo = job.todo /\ job'.force = job.force
  BY DEF Written, Jobs, JobSteps

LEMMA Rewritten ==
    ASSUME NEW i \in Intents
    PROVE /\ Fail(i) \in Intents /\ Fail(i).env = i.env /\ Fail(i).state = "FAILED"
          /\ Fail(i).due
          /\ Backoff(i) \in Intents /\ Backoff(i).env = i.env /\ Backoff(i).state = i.state
          /\ Delivered(i) \in Intents /\ Delivered(i).env = i.env
          /\ Delivered(i).state = "DELIVERED" /\ Delivered(i).due
          /\ Due(i) \in Intents /\ Due(i).env = i.env /\ Due(i).state = i.state /\ Due(i).due
          /\ Rearmed(i) \in Intents /\ Rearmed(i).env = i.env
          /\ Rearmed(i).state = (IF i.env # None THEN "SEALED" ELSE "PENDING")
          /\ Fail(i).request = i.request /\ Backoff(i).request = i.request
          /\ Delivered(i).request = i.request /\ Due(i).request = i.request
          /\ Rearmed(i).request = i.request
          /\ \A e \in Envelope : /\ Sealed(i, e) \in Intents
                                 /\ Sealed(i, e).request = i.request
                                 /\ Sealed(i, e).env = e
                                 /\ Sealed(i, e).state = "SEALED"
  BY DEF Intents, Queued, Settled, Fail, Backoff, Delivered, Due, Rearmed, Sealed

LEMMA Fresh ==
    ASSUME NEW r \in Request
    PROVE /\ NewIntent(r) \in Intents
          /\ NewIntent(r).env = None /\ NewIntent(r).state = "PENDING"
  BY DEF NewIntent, Intents, Queued

LEMMA States4 ==
    ASSUME NEW i \in Intents
    PROVE /\ i.state \in Queued \cup Settled
          /\ i.env \in Envelope \cup {None}
          /\ i.due \in BOOLEAN
          /\ i.state \in Settled <=> i.state \notin Queued
          /\ i.state \in Queued <=> i.state \in {"PENDING", "SEALED"}
          /\ i.state \in Settled <=> i.state \in {"DELIVERED", "FAILED"}
  BY DEF Intents, Queued, Settled

LEMMA OneOfTwo ==
    ASSUME OutboxTypeOK, OneFile, NEW k \in Key
    PROVE /\ active[k] \in Intents \cup {None}
          /\ Intent(k) \in Intents \cup {None}
          /\ active[k] # None => Intent(k) = active[k] /\ terminal[k] = None
          /\ Intent(k) # None /\ Intent(k).state \in Queued => active[k] = Intent(k)
  BY States4 DEF OutboxTypeOK, OneFile, Unambiguous, Intent

-----------------------------------------------------------------------------
(* What keeps the evidence *)

\* Steps that leave every intent as it is.
LEMMA Frame ==
    ASSUME Evidence, OneFile',
           \A k \in Key : Intent(k)' = Intent(k),
           recorded' = recorded, owner' = owner,
           \A e \in Envelope : e \in copies' => owner[e] # None,
           \A e \in Envelope : received[e] # None => received'[e] # None,
           \A e \in Envelope : received'[e] # None => e \in copies',
           Told'
    PROVE Evidence'
<1>1. RecordedKept'
  BY DEF Evidence, RecordedKept
<1>2. Owned'
  BY DEF Evidence, Owned
<1>3. Kept'
  BY DEF Evidence, Kept
<1>4. Shaped'
  BY DEF Evidence, Shaped, WellFormed
<1>5. Claimed'
  BY DEF Evidence, Claimed
<1> QED
  BY <1>1, <1>2, <1>3, <1>4, <1>5 DEF Evidence

\* Steps that leave every file of the sender's queue as it is.
LEMMA FilesKept ==
    ASSUME Evidence, UNCHANGED <<files, owner>>,
           \A e \in Envelope : e \in copies' => owner[e] # None,
           \A e \in Envelope : received[e] # None => received'[e] # None,
           \A e \in Envelope : received'[e] # None => e \in copies',
           Told'
    PROVE /\ Evidence'
          /\ \A k \in Key : Intent(k)' = Intent(k)
<1>1. \A k \in Key : Intent(k)' = Intent(k)
  BY DEF Intent, files
<1>2. OneFile'
  BY DEF Evidence, OneFile, Unambiguous, files
<1>3. recorded' = recorded /\ owner' = owner
  BY DEF files
<1> QED
  BY <1>1, <1>2, <1>3, Frame

\* Steps that only read.
LEMMA EvidenceRead ==
    ASSUME Evidence, UNCHANGED <<sender, received>>
    PROVE /\ Evidence'
          /\ \A k \in Key : Intent(k)' = Intent(k)
<1>1. UNCHANGED <<files, owner>> /\ UNCHANGED <<copies, ledger>>
  BY DEF sender
<1>2. Told'
  BY <1>1 DEF Evidence, Told
<1>3. Kept
  BY DEF Evidence
<1> QED
  BY <1>1, <1>2, <1>3, FilesKept DEF Kept

\* os.replace to terminal history changes no intent.
LEMMA Moved ==
    ASSUME OutboxTypeOK, Evidence, NEW k \in Key,
           active[k] # None, active[k].state \in Settled, Retire(k),
           UNCHANGED <<recorded, copies, owner, ledger, mailbox>>
    PROVE /\ Evidence'
          /\ \A j \in Key : Intent(j)' = Intent(j)
          /\ \A j \in Key : active'[j] # None => active[j] # None /\ active'[j] = active[j]
<1>1. /\ terminal' = [terminal EXCEPT ![k] = active[k]]
      /\ active' = [active EXCEPT ![k] = None]
  BY DEF Retire
<1>2. \A j \in Key : /\ active'[j] = IF j = k THEN None ELSE active[j]
                     /\ terminal'[j] = IF j = k THEN active[k] ELSE terminal[j]
  BY <1>1 DEF OutboxTypeOK
<1>3. terminal[k] = None
  BY OneOfTwo DEF Evidence
<1>4. \A j \in Key : Intent(j)' = Intent(j)
  BY <1>2, <1>3 DEF Intent
<1>5. OneFile'
  BY <1>2 DEF Evidence, OneFile, Unambiguous
<1>6. Told'
  BY DEF Evidence, Told, mailbox
<1>7. received' = received /\ Kept
  BY DEF mailbox, Evidence
<1>8. Evidence'
  BY <1>4, <1>5, <1>6, <1>7, Frame DEF Kept
<1> QED
  BY <1>2, <1>4, <1>8

\* One intent is written anew, for the same container.
LEMMA Rewrite ==
    ASSUME OutboxTypeOK, Evidence, NEW k \in Key, NEW i \in Intents,
           active[k] # None, active' = [active EXCEPT ![k] = i],
           i.env = active[k].env, WellFormed(i),
           \A e \in Envelope : i.state = "DELIVERED" /\ i.env = e => received[e] # None,
           UNCHANGED <<terminal, recorded, copies, owner, ledger, received>>
    PROVE /\ Evidence'
          /\ \A j \in Key : active'[j] = IF j = k THEN i ELSE active[j]
          /\ \A j \in Key : Intent(j)' = IF j = k THEN i ELSE Intent(j)
<1> USE NoneIsNothing
<1>1. \A j \in Key : active'[j] = IF j = k THEN i ELSE active[j]
  BY DEF OutboxTypeOK
<1>2. terminal[k] = None /\ Intent(k) = active[k] /\ i # None
  BY OneOfTwo DEF Evidence
<1>3. \A j \in Key : Intent(j)' = IF j = k THEN i ELSE Intent(j)
  BY <1>1, <1>2 DEF Intent
<1>4. OneFile'
  BY <1>1, <1>2 DEF Evidence, OneFile, Unambiguous
<1>5. RecordedKept'
  BY <1>3, <1>2 DEF Evidence, RecordedKept
<1>6. Owned'
  BY <1>3, <1>2 DEF Evidence, Owned
<1>7. Kept' /\ Told'
  BY DEF Evidence, Kept, Told
<1>8. Shaped'
  BY <1>3, <1>2 DEF Evidence, Shaped, WellFormed
<1>9. Claimed'
  BY <1>3, <1>2 DEF Evidence, Claimed
<1> QED
  BY <1>1, <1>3, <1>4, <1>5, <1>6, <1>7, <1>8, <1>9 DEF Evidence

-----------------------------------------------------------------------------
(* What keeps the job *)

\* A step to where nothing is being worked on.
LEMMA AtRest ==
    ASSUME job'.step \notin Working,
           \A k \in Key : k \in job'.todo => Intent(k)' # None,
           Tidied'
    PROVE JobOK'
  BY DEF JobOK, AtWork, Working, Sending

LEMMA Ended ==
    ASSUME job' = NoJob
    PROVE JobOK'
<1>1. job'.step \notin Working /\ job'.todo = {}
  BY IdleJob DEF Working
<1> QED
  BY <1>1, AtRest DEF Tidied

\* The job begins to advance an intent.
LEMMA Advancing ==
    ASSUME NEW k \in Key, job'.step = "advance", job'.key = k, Intent(k)' # None,
           \A j \in Key : j \in job'.todo => Intent(j)' # None,
           Tidied'
    PROVE JobOK'
<1>1. \A j \in Key : job'.key = j => AtWork(j)'
  BY DEF AtWork, Working, Sending
<1> QED
  BY <1>1 DEF JobOK

\* Nothing is settled and queued when a job with work left goes on.
LEMMA TidiedOn ==
    ASSUME Tidied, job.step \notin {"tidy", "retire"}, job'.todo \subseteq job.todo,
           \A k \in Key : active'[k] # None => active[k] # None
                              /\ (active'[k].state \in Settled => active[k].state \in Settled)
    PROVE Tidied'
  BY DEF Tidied

-----------------------------------------------------------------------------
(* The steps *)

LEMMA InitInv == Init => OutboxInv
<1> SUFFICES ASSUME Init PROVE OutboxInv
  OBVIOUS
<1>1. OutboxTypeOK
  BY IdleJob, BoundsAssumption DEF Init, OutboxTypeOK, MailStates
<1>2. \A k \in Key : Intent(k) = None
  BY DEF Init, Intent
<1>3. Evidence
  BY <1>2, NoneIsNothing DEF Init, Evidence, OneFile, Unambiguous, RecordedKept, Owned,
        Kept, Shaped, Claimed, Told
<1>4. JobOK
  BY IdleJob DEF Init, JobOK, AtWork, Tidied, Working, Sending
<1> QED
  BY <1>1, <1>3, <1>4 DEF OutboxInv

LEMMA SubmitInv ==
    ASSUME OutboxInv, NEW k \in Key, NEW r \in Request,
           NEW deliver \in BOOLEAN, NEW keyed \in BOOLEAN,
           Submit(k, r, deliver, keyed)
    PROVE OutboxInv'
<1> USE DEF OutboxInv
<1>1. /\ job' \in Jobs /\ job'.step = "advance" /\ job'.key = k /\ job'.todo = {}
  BY IdleJob, BoundsAssumption DEF Submit, Jobs, JobSteps
<1>2. UNCHANGED <<terminal, copies, owner, ledger, mailbox, crashes>>
  BY DEF Submit
<1>3. Tidied'
  BY <1>1 DEF Tidied
<1>4. CASE /\ Intent(k) = None
           /\ active' = [active EXCEPT ![k] = NewIntent(r)]
           /\ recorded' = Append(recorded, k)
  <2>1. NewIntent(r) \in Intents /\ NewIntent(r) # None /\ NewIntent(r).env = None
        /\ NewIntent(r).state = "PENDING"
    BY Fresh, NoneIsNothing
  <2>2. \A j \in Key : active'[j] = IF j = k THEN NewIntent(r) ELSE active[j]
    BY <1>4 DEF OutboxTypeOK
  <2>3. terminal[k] = None /\ active[k] = None
    BY <1>4 DEF Intent
  <2>4. \A j \in Key : Intent(j)' = IF j = k THEN NewIntent(r) ELSE Intent(j)
    BY <1>2, <2>2, <2>3 DEF Intent
  <2>5. recorded \in Seq(Key)
    BY DEF OutboxTypeOK
  <2>6. /\ recorded' \in Seq(Key)
        /\ Len(recorded') = Len(recorded) + 1
        /\ \A n \in 1 .. Len(recorded') :
              recorded'[n] = IF n = Len(recorded) + 1 THEN k ELSE recorded[n]
    BY <1>4, <2>5
  <2>7. \A n \in 1 .. Len(recorded) : recorded[n] # k
    BY <1>4 DEF Evidence, RecordedKept
  <2>8. \A m, n \in 1 .. Len(recorded') : recorded'[m] = recorded'[n] => m = n
    <3>1. Len(recorded) \in Nat
      BY <2>5
    <3> QED
      BY <2>6, <2>7, <3>1 DEF OutboxTypeOK
  <2>9. active' \in [Key -> Intents \cup {None}]
    BY <1>4, <2>1 DEF OutboxTypeOK
  <2>10. OutboxTypeOK'
    BY <1>1, <1>2, <2>6, <2>8, <2>9 DEF OutboxTypeOK, mailbox
  <2>11. OneFile'
    BY <1>2, <2>2, <2>3 DEF Evidence, OneFile, Unambiguous
  <2>12. RecordedKept'
    <3>1. Len(recorded) \in Nat
      BY <2>5
    <3> QED
      BY <2>1, <2>4, <2>6, <3>1 DEF Evidence, RecordedKept
  <2>13. Owned'
    BY <1>2, <1>4, <2>1, <2>4, NoneIsNothing DEF Evidence, Owned
  <2>14. Kept' /\ Told'
    BY <1>2 DEF Evidence, Kept, Told, mailbox
  <2>15. Shaped'
    <3>1. WellFormed(NewIntent(r))
      BY <2>1 DEF WellFormed, Settled
    <3> QED
      BY <2>4, <3>1 DEF Evidence, Shaped, WellFormed
  <2>16. Claimed'
    BY <1>2, <2>1, <2>4 DEF Evidence, Claimed, mailbox
  <2>17. JobOK'
    BY <1>1, <1>3, <2>1, <2>4, Advancing
  <2> QED
    BY <2>10, <2>11, <2>12, <2>13, <2>14, <2>15, <2>16, <2>17 DEF Evidence
<1>5. CASE Intent(k) # None /\ UNCHANGED <<active, recorded>>
  <2>1. UNCHANGED <<sender, received>>
    BY <1>2, <1>5 DEF sender, files, mailbox
  <2>2. Evidence' /\ \A j \in Key : Intent(j)' = Intent(j)
    BY <2>1, EvidenceRead
  <2>3. OutboxTypeOK'
    BY <1>1, <1>2, <1>5 DEF OutboxTypeOK, mailbox
  <2>4. JobOK'
    BY <1>1, <1>3, <1>5, <2>2, Advancing
  <2> QED
    BY <2>2, <2>3, <2>4
<1> QED
  BY <1>4, <1>5 DEF Submit

LEMMA ResumeInv ==
    ASSUME OutboxInv, NEW keyed \in BOOLEAN, Resume(keyed)
    PROVE OutboxInv'
<1> USE DEF OutboxInv
<1>1. UNCHANGED <<sender, mailbox, crashes>>
  BY DEF Resume
<1> DEFINE T == {k \in Key : Workable(k, keyed)}
<1>2. /\ job' \in Jobs /\ job'.step = "tidy"
      /\ job'.todo = T
  <2>1. T \in SUBSET Key
    OBVIOUS
  <2>2. job' = [NoJob EXCEPT !.step = "tidy", !.todo = T, !.left = Budget,
                             !.deliver = TRUE, !.keyed = keyed]
    BY DEF Resume
  <2>3. Budget \in 0 .. Budget
    BY BoundsAssumption
  <2> HIDE DEF T
  <2> QED
    BY <2>1, <2>2, <2>3, IdleJob DEF Jobs, JobSteps
<1>3. Evidence' /\ \A k \in Key : Intent(k)' = Intent(k)
  BY <1>1, EvidenceRead DEF mailbox
<1>4. OutboxTypeOK'
  BY <1>1, <1>2 DEF OutboxTypeOK, sender, files, mailbox
<1>5. \A k \in Key : k \in job'.todo => Intent(k)' # None
  BY <1>2, <1>3, OneOfTwo DEF Workable, Evidence
<1>6. JobOK'
  BY <1>2, <1>5, AtRest DEF Working, Tidied
<1> QED
  BY <1>3, <1>4, <1>6

LEMMA TidyInv == ASSUME OutboxInv, Tidy PROVE OutboxInv'
<1> USE DEF OutboxInv
<1>1. UNCHANGED <<recorded, copies, owner, ledger, mailbox, crashes>> /\ job.step = "tidy"
  BY DEF Tidy, Step
<1>2. CASE /\ \A k \in Key : active[k] # None => active[k].state \in Queued
           /\ Goto("next")
           /\ UNCHANGED <<active, terminal>>
  <2>1. job' \in Jobs /\ job'.step = "next" /\ job'.todo = job.todo
    BY <1>2, GoneTo DEF OutboxTypeOK, JobSteps
  <2>2. UNCHANGED <<sender, received>>
    BY <1>1, <1>2 DEF sender, files, mailbox
  <2>3. Evidence' /\ \A k \in Key : Intent(k)' = Intent(k)
    BY <2>2, EvidenceRead
  <2>4. OutboxTypeOK'
    BY <1>1, <1>2, <2>1 DEF OutboxTypeOK, mailbox
  <2>5. Tidied'
    BY <1>2 DEF Tidied, Queued, Settled
  <2>6. JobOK'
    BY <2>1, <2>3, <2>5, AtRest DEF Working, JobOK
  <2> QED
    BY <2>3, <2>4, <2>6
<1>3. ASSUME NEW k \in Key, active[k] # None, active[k].state \in Settled, Retire(k),
             UNCHANGED job
      PROVE OutboxInv'
  <2>1. Evidence' /\ \A j \in Key : Intent(j)' = Intent(j)
    BY <1>1, <1>3, Moved
  <2>2. /\ terminal' \in [Key -> Intents \cup {None}]
        /\ active' \in [Key -> Intents \cup {None}]
    BY <1>3 DEF OutboxTypeOK, Retire
  <2>3. OutboxTypeOK'
    BY <1>1, <1>3, <2>2 DEF OutboxTypeOK, mailbox
  <2>4. JobOK'
    BY <1>1, <1>3, <2>1, AtRest DEF Working, JobOK, Tidied
  <2> QED
    BY <2>1, <2>3, <2>4
<1> QED
  BY <1>2, <1>3 DEF Tidy

LEMMA RetryInv ==
    ASSUME OutboxInv, NEW k \in Key, NEW keyed \in BOOLEAN, Retry(k, keyed)
    PROVE OutboxInv'
<1> USE NoneIsNothing DEF OutboxInv
<1> DEFINE i == Intent(k)
<1>1. /\ UNCHANGED <<recorded, copies, owner, ledger, mailbox, crashes>>
      /\ i # None /\ i.state = "FAILED"
      /\ active' = [active EXCEPT ![k] = i]
      /\ terminal' = [terminal EXCEPT ![k] = None]
  BY DEF Retry
<1>2. i \in Intents /\ Rearmed(i) \in Intents
  BY <1>1, OneOfTwo, Rewritten DEF Evidence
<1>3. /\ job' \in Jobs /\ job'.step = "commit" /\ job'.key = k /\ job'.todo = {}
      /\ job'.force = TRUE /\ job'.intent = Rearmed(i) /\ job'.then = "advance"
  BY <1>2, IdleJob DEF Retry, Jobs, JobSteps, i
<1> HIDE DEF i
<1>4. \A j \in Key : /\ active'[j] = IF j = k THEN i ELSE active[j]
                     /\ terminal'[j] = IF j = k THEN None ELSE terminal[j]
  BY <1>1 DEF OutboxTypeOK
<1>5. \A j \in Key : Intent(j)' = Intent(j)
  BY <1>4 DEF Intent, i
<1>6. OneFile'
  BY <1>4 DEF Evidence, OneFile, Unambiguous
<1>7. received' = received /\ Kept /\ Told'
  BY <1>1 DEF mailbox, Evidence, Told
<1>8. Evidence'
  BY <1>1, <1>5, <1>6, <1>7, Frame DEF Kept
<1>9. /\ active' \in [Key -> Intents \cup {None}]
      /\ terminal' \in [Key -> Intents \cup {None}]
  BY <1>1, <1>2 DEF OutboxTypeOK
<1>10. OutboxTypeOK'
  BY <1>1, <1>3, <1>9 DEF OutboxTypeOK, mailbox
<1>11. /\ WellFormed(Rearmed(i)) /\ Rearmed(i).state # "DELIVERED"
       /\ Rearmed(i).env = i.env /\ Rearmed(i).request = i.request
  BY <1>2, Rewritten, States4 DEF WellFormed, Settled
<1>12. AtWork(k)'
  BY <1>1, <1>2, <1>3, <1>4, <1>5, <1>11 DEF AtWork, Decided, WellFormed, Working, Sending, i
<1>13. JobOK'
  BY <1>3, <1>12 DEF JobOK, Tidied
<1> QED
  BY <1>8, <1>10, <1>13

\* Steps of a working job that leave the files as they are.
LEMMA QueueRead ==
    ASSUME OutboxInv, UNCHANGED <<files, owner>>, UNCHANGED <<mailbox, crashes, ledger>>,
           \A e \in Envelope : e \in copies' <=> e \in copies
                \/ (job.step \in Sending /\ e = active[job.key].env),
           copies' \subseteq Envelope, job' \in Jobs
    PROVE /\ OutboxTypeOK' /\ Evidence'
          /\ \A k \in Key : Intent(k)' = Intent(k)
<1> USE DEF OutboxInv
<1>1. Kept /\ received' = received /\ Told'
  BY DEF Evidence, Told, mailbox
<1>2. \A e \in Envelope : e \in copies' => owner[e] # None
  <2> SUFFICES ASSUME NEW e \in Envelope, job.step \in Sending, e = active[job.key].env
               PROVE owner[e] # None
    BY <1>1 DEF Kept
  <2> DEFINE k == job.key
  <2>1. k \in Key /\ active[k] # None
    BY DEF JobOK, AtWork, Working, Sending
  <2>2. Intent(k) # None /\ Intent(k).env = e
    BY <2>1, OneOfTwo DEF Evidence
  <2>3. owner[e] = k
    BY <2>1, <2>2 DEF Evidence, Owned
  <2> QED
    BY <2>1, <2>3, NoneIsNothing
<1>3. Evidence' /\ \A k \in Key : Intent(k)' = Intent(k)
  BY <1>1, <1>2, FilesKept DEF Kept
<1>4. OutboxTypeOK'
  BY DEF OutboxTypeOK, files, mailbox
<1> QED
  BY <1>3, <1>4

LEMMA NextIntentInv == ASSUME OutboxInv, NextIntent PROVE OutboxInv'
<1> USE DEF OutboxInv
<1>1. PICK k \in job.todo :
          job' = [job EXCEPT !.step = "advance", !.key = k, !.todo = @ \ {k}, !.left = @ - 1]
  BY DEF NextIntent
<1>2. UNCHANGED <<sender, mailbox, crashes>> /\ job.step = "next" /\ job.left > 0
  BY DEF NextIntent, Step
<1>3. k \in Key /\ job \in Jobs
  BY DEF OutboxTypeOK, Jobs
<1>4. job.left - 1 \in 0 .. Budget /\ job.todo \ {k} \in SUBSET Key
  BY <1>2, <1>3, BoundsAssumption DEF Jobs
<1>5. /\ job' \in Jobs /\ job'.step = "advance" /\ job'.key = k
      /\ job'.todo = job.todo \ {k}
  BY <1>1, <1>3, <1>4 DEF Jobs, JobSteps
<1>6. Evidence' /\ \A j \in Key : Intent(j)' = Intent(j)
  BY <1>2, EvidenceRead DEF mailbox
<1>7. OutboxTypeOK'
  BY <1>2, <1>5 DEF OutboxTypeOK, sender, files, mailbox
<1>8. Tidied'
  BY <1>2, <1>5, TidiedOn DEF JobOK, sender, files
<1>9. JobOK'
  BY <1>3, <1>5, <1>6, <1>8, Advancing DEF JobOK
<1> QED
  BY <1>6, <1>7, <1>9

LEMMA EndInv ==
    ASSUME OutboxInv, UNCHANGED <<sender, mailbox>>, job' = NoJob, crashes' \in 0 .. MaxCrashes
    PROVE OutboxInv'
<1> USE DEF OutboxInv
<1>1. Evidence'
  BY EvidenceRead DEF mailbox
<1>2. OutboxTypeOK'
  BY IdleJob DEF OutboxTypeOK, sender, files, mailbox
<1> QED
  BY <1>1, <1>2, Ended

LEMMA FinishInv == ASSUME OutboxInv, Finish PROVE OutboxInv'
  BY EndInv DEF Finish, OutboxInv, OutboxTypeOK

LEMMA DieInv == ASSUME OutboxInv, Die PROVE OutboxInv'
<1>1. crashes' \in 0 .. MaxCrashes
  BY BoundsAssumption DEF Die, OutboxInv, OutboxTypeOK
<1> QED
  BY <1>1, EndInv DEF Die

LEMMA SealInv == ASSUME OutboxInv, Seal PROVE OutboxInv'
<1> USE NoneIsNothing DEF OutboxInv
<1>0. job.step = "advance" /\ job.key \in Key
  BY DEF Seal, Step, JobOK, Working
<1> PICK k \in Key : job.key = k
  BY <1>0
<1>1. /\ job.step = "advance" /\ Intent(k).state = "PENDING"
      /\ SealRefused(k) \/ \E e \in Envelope : SealAs(k, e)
      /\ UNCHANGED <<terminal, recorded, copies, ledger, mailbox, crashes>>
  BY <1>0 DEF Seal
<1>2. k \in Key /\ Intent(k) # None
  BY <1>1 DEF JobOK, AtWork, Working
<1>3. /\ active[k] # None /\ active[k] \in Intents
      /\ active[k].state = "PENDING" /\ active[k].env = None /\ terminal[k] = None
      /\ active[k] = Intent(k)
  BY <1>1, <1>2, OneOfTwo DEF Evidence, Queued, Shaped, WellFormed
<1>4. CASE SealRefused(k)
  <2>1. /\ active' = [active EXCEPT ![k] = Fail(active[k])] /\ owner' = owner
        /\ job' \in Jobs /\ job'.step = "retire" /\ job'.key = k /\ job'.todo = job.todo
    BY <1>4, GoneTo DEF SealRefused, OutboxTypeOK, JobSteps
  <2>2. /\ Fail(active[k]) \in Intents /\ Fail(active[k]).env = None
        /\ Fail(active[k]).state = "FAILED" /\ WellFormed(Fail(active[k]))
    BY <1>3, Rewritten DEF WellFormed
  <2>3. /\ Evidence'
        /\ \A j \in Key : active'[j] = IF j = k THEN Fail(active[k]) ELSE active[j]
        /\ \A j \in Key : Intent(j)' = IF j = k THEN Fail(active[k]) ELSE Intent(j)
    BY <1>1, <1>2, <1>3, <2>1, <2>2, Rewrite DEF mailbox
  <2>4. active' \in [Key -> Intents \cup {None}]
    BY <2>1, <2>2 DEF OutboxTypeOK
  <2>5. OutboxTypeOK'
    BY <1>1, <2>1, <2>4 DEF OutboxTypeOK, mailbox
  <2>6. AtWork(k)'
    BY <1>2, <2>1, <2>2, <2>3 DEF AtWork, Working, Sending, Settled
  <2>7. Tidied'
    BY <1>1, <2>1, <2>3 DEF Tidied, JobOK
  <2>8. JobOK'
    BY <1>2, <2>1, <2>2, <2>3, <2>6, <2>7 DEF JobOK
  <2> QED
    BY <2>3, <2>5, <2>8
<1>5. ASSUME NEW e \in Envelope, SealAs(k, e) PROVE OutboxInv'
  <2> DEFINE i == Sealed(active[k], e)
  <2>1. /\ active' = [active EXCEPT ![k] = i] /\ owner' = [owner EXCEPT ![e] = k]
        /\ owner[e] = None
        /\ job' \in Jobs /\ job'.step = "store" /\ job'.key = k /\ job'.todo = job.todo
    BY <1>5, GoneTo DEF SealAs, OutboxTypeOK, JobSteps
  <2>2. i \in Intents /\ i.env = e /\ i.state = "SEALED" /\ i # None
    BY <1>3, Rewritten
  <2> HIDE DEF i
  <2>3. /\ \A j \in Key : active'[j] = IF j = k THEN i ELSE active[j]
        /\ \A d \in Envelope : owner'[d] = IF d = e THEN k ELSE owner[d]
    BY <2>1 DEF OutboxTypeOK
  <2>4. \A j \in Key : Intent(j)' = IF j = k THEN i ELSE Intent(j)
    BY <1>1, <1>3, <2>3 DEF Intent
  <2>5. OneFile'
    BY <1>1, <1>3, <2>2, <2>3 DEF Evidence, OneFile, Unambiguous
  <2>6. RecordedKept'
    BY <1>1, <2>2, <2>4 DEF Evidence, RecordedKept
  <2>7. Owned'
    BY <1>2, <1>3, <2>1, <2>2, <2>3, <2>4 DEF Evidence, Owned
  <2>8. Kept'
    BY <1>1, <1>2, <2>3 DEF Evidence, Kept, mailbox
  <2>9. Told'
    BY <1>1, <2>1, <2>3 DEF Evidence, Told, mailbox
  <2>10. Shaped'
    <3>1. WellFormed(i)
      BY <2>2 DEF WellFormed, Settled
    <3> QED
      BY <2>4, <3>1 DEF Evidence, Shaped, WellFormed
  <2>11. Claimed'
    BY <1>1, <2>2, <2>4 DEF Evidence, Claimed, mailbox
  <2>12. /\ active' \in [Key -> Intents \cup {None}]
         /\ owner' \in [Envelope -> Key \cup {None}]
    BY <1>2, <2>1, <2>2 DEF OutboxTypeOK
  <2>13. OutboxTypeOK'
    BY <1>1, <2>1, <2>12 DEF OutboxTypeOK, mailbox
  <2>14. AtWork(k)'
    BY <1>2, <2>1, <2>2, <2>3, <2>4 DEF AtWork, Working, Sending
  <2>15. Tidied'
    BY <1>1, <2>1, <2>2, <2>3 DEF Tidied, JobOK, Settled
  <2>16. JobOK'
    BY <1>2, <2>1, <2>2, <2>4, <2>14, <2>15 DEF JobOK
  <2> QED
    BY <2>5, <2>6, <2>7, <2>8, <2>9, <2>10, <2>11, <2>13, <2>16 DEF Evidence
<1> QED
  BY <1>1, <1>4, <1>5

\* Store and Copy: the outbox copy of the intent at work.
LEMMA CopyInv ==
    ASSUME OutboxInv, NEW name \in {"copy", "next", "attempt"},
           job.step \in {"store", "copy"},
           copies' = copies \cup {active[job.key].env},
           Goto(name),
           UNCHANGED <<files, owner, ledger, mailbox, crashes>>
    PROVE OutboxInv'
<1> USE NoneIsNothing DEF OutboxInv
<1>1. job.key \in Key
  BY DEF JobOK, Working
<1> PICK k \in Key : job.key = k
  BY <1>1
<1>2. /\ active[k] # None /\ active[k].state = "SEALED"
      /\ active[k] \in Intents /\ Intent(k) = active[k]
  BY OneOfTwo DEF JobOK, AtWork, Sending, Evidence
<1>3. active[k].env \in Envelope
  BY <1>2, States4 DEF Evidence, Shaped, WellFormed
<1>4. /\ job' \in Jobs /\ job'.step = name /\ job'.key = k /\ job'.todo = job.todo
  BY GoneTo DEF OutboxTypeOK, JobSteps
<1>5. /\ \A e \in Envelope : e \in copies' <=> e \in copies
              \/ (job.step \in Sending /\ e = active[job.key].env)
      /\ copies' \subseteq Envelope
  BY <1>3 DEF Sending, OutboxTypeOK
<1>6. OutboxTypeOK' /\ Evidence' /\ \A j \in Key : Intent(j)' = Intent(j)
  BY <1>4, <1>5, QueueRead
<1>7. active' = active
  BY DEF files
<1>8. Tidied'
  BY <1>4, <1>7, TidiedOn DEF JobOK
<1>9. AtWork(k)'
  BY <1>2, <1>4, <1>6, <1>7 DEF AtWork, Working, Sending
<1>10. JobOK'
  BY <1>4, <1>6, <1>8, <1>9 DEF JobOK
<1> QED
  BY <1>6, <1>10

LEMMA StoreInv == ASSUME OutboxInv, Store PROVE OutboxInv'
  BY CopyInv DEF Store, Step

LEMMA CopyStepInv == ASSUME OutboxInv, Copy PROVE OutboxInv'
  BY CopyInv DEF Copy, Step

LEMMA AdvanceInv == ASSUME OutboxInv, Advance PROVE OutboxInv'
<1> USE DEF OutboxInv
<1>1. job.step = "advance" /\ UNCHANGED <<sender, mailbox, crashes>> /\ job.key \in Key
  BY DEF Advance, Step, JobOK, Working
<1> PICK k \in Key : job.key = k
  BY <1>1
<1>2. PICK name \in {"next", "copy"} :
          /\ Goto(name)
          /\ name = "copy" => Intent(k).state = "SEALED"
  BY DEF Advance
<1>3. /\ job' \in Jobs /\ job'.step = name /\ job'.key = k /\ job'.todo = job.todo
  BY <1>2, GoneTo DEF OutboxTypeOK, JobSteps
<1>4. Evidence' /\ \A j \in Key : Intent(j)' = Intent(j)
  BY <1>1, EvidenceRead DEF mailbox
<1>5. OutboxTypeOK'
  BY <1>1, <1>3 DEF OutboxTypeOK, sender, files, mailbox
<1>6. active' = active
  BY <1>1 DEF sender, files
<1>7. Tidied'
  BY <1>1, <1>3, <1>6, TidiedOn DEF JobOK
<1>8. name = "copy" => active[k] # None /\ active[k].state = "SEALED"
  BY <1>1, <1>2, OneOfTwo DEF Evidence, Queued, JobOK, AtWork, Working
<1>9. AtWork(k)'
  BY <1>1, <1>3, <1>4, <1>6, <1>8 DEF AtWork, Working, Sending, JobOK
<1>10. JobOK'
  BY <1>3, <1>4, <1>7, <1>9 DEF JobOK
<1> QED
  BY <1>4, <1>5, <1>10

\* What is known of a job that is talking to the receiver.
LEMMA Talking ==
    ASSUME OutboxInv, NEW k \in Key, job.key = k, job.step \in {"attempt", "answer"}
    PROVE /\ active[k] # None /\ active[k] \in Intents /\ Intent(k) = active[k]
          /\ active[k].state = "SEALED"
          /\ active[k].env \in Envelope /\ active[k].env \in copies
          /\ owner[active[k].env] = k
<1> USE NoneIsNothing DEF OutboxInv
<1>1. /\ active[k] # None /\ active[k].state = "SEALED" /\ active[k].env \in copies
      /\ active[k] \in Intents /\ Intent(k) = active[k]
  BY OneOfTwo DEF JobOK, AtWork, Sending, Evidence
<1>2. active[k].env \in Envelope
  BY <1>1, States4 DEF Evidence, Shaped, WellFormed
<1> QED
  BY <1>1, <1>2 DEF Evidence, Owned

\* A job that talked to the receiver decides what to write.
LEMMA DecideInv ==
    ASSUME OutboxInv, job.step \in {"attempt", "answer"}, NEW k \in Key, job.key = k,
           NEW i \in {Backoff(active[k]), Fail(active[k]), Delivered(active[k])},
           WriteNext(i, "next"),
           i = Delivered(active[k]) => job.step = "answer",
           ledger' \subseteq ledger \cup {<<"FAILED", k>>}
              \/ (job.step = "answer" /\ ledger' \subseteq ledger \cup {<<"DELIVERED", k>>}),
           ledger' \subseteq {"DELIVERED", "FAILED"} \X Key,
           row' \in [Envelope -> Time \cup {None}],
           UNCHANGED <<files, copies, owner, state, received, crashes>>
    PROVE OutboxInv'
<1> USE NoneIsNothing DEF OutboxInv
<1>1. /\ active[k] # None /\ active[k] \in Intents /\ Intent(k) = active[k]
      /\ active[k].state = "SEALED"
      /\ active[k].env \in Envelope /\ active[k].env \in copies
      /\ owner[active[k].env] = k
  BY Talking
<1>2. /\ i \in Intents /\ i.env = active[k].env /\ i.request = active[k].request
      /\ i.state \in {"SEALED", "FAILED", "DELIVERED"}
      /\ i.state \in Settled => i.due
      /\ i.state = "DELIVERED" => job.step = "answer"
  BY <1>1, Rewritten DEF Settled
<1>3. /\ job' \in Jobs /\ job'.step = "commit" /\ job'.intent = i /\ job'.then = "next"
      /\ job'.key = k /\ job'.todo = job.todo
  BY <1>2, Deciding DEF OutboxTypeOK
<1>4. job.step = "answer" => received[active[k].env] # None
  BY <1>1 DEF JobOK, AtWork
<1>5. Told'
  <2> SUFFICES ASSUME NEW j \in Key, <<"DELIVERED", j>> \in ledger'
               PROVE \E e \in Envelope : owner[e] = j /\ received[e] # None
    BY DEF Told
  <2>1. <<"DELIVERED", j>> # <<"FAILED", k>>
    OBVIOUS
  <2>2. CASE <<"DELIVERED", j>> \in ledger
    BY <2>2 DEF Evidence, Told
  <2>3. CASE job.step = "answer" /\ j = k
    BY <1>1, <1>4, <2>3
  <2> QED
    BY <2>1, <2>2, <2>3
<1>6. Kept
  BY DEF Evidence
<1>7. Evidence' /\ \A j \in Key : Intent(j)' = Intent(j)
  BY <1>5, <1>6, FilesKept DEF Kept
<1>8. OutboxTypeOK'
  BY <1>3 DEF OutboxTypeOK, files
<1>9. active' = active
  BY DEF files
<1>10. Tidied'
  BY <1>3, <1>9, TidiedOn DEF JobOK
<1>11. WellFormed(i)
  BY <1>1, <1>2 DEF WellFormed
<1>12. AtWork(k)'
  BY <1>1, <1>2, <1>3, <1>4, <1>7, <1>9, <1>11
     DEF AtWork, Decided, WellFormed, Working, Sending
<1>13. JobOK'
  BY <1>3, <1>7, <1>10, <1>12 DEF JobOK
<1> QED
  BY <1>7, <1>8, <1>13

LEMMA PublishEffect ==
    ASSUME OutboxTypeOK, NEW e \in Envelope, Publish(e)
    PROVE /\ state' \in [Envelope -> MailStates]
          /\ received' \in [Envelope -> Time \cup {None}]
          /\ row' = row
          /\ \A d \in Envelope : received[d] # None => received'[d] # None
          /\ \A d \in Envelope : received'[d] # None => received[d] # None \/ d = e
          /\ state[e] = "absent" => received'[e] # None
  BY NoneIsNothing DEF OutboxTypeOK, Publish, mailbox, MailStates

LEMMA AttemptInv == ASSUME OutboxInv, Dated, Attempt PROVE OutboxInv'
<1> USE NoneIsNothing DEF OutboxInv
<1>1. /\ job.step = "attempt" /\ job.key \in Key
      /\ UNCHANGED <<files, copies, owner, crashes>>
  BY DEF Attempt, Step, JobOK, Working
<1> PICK k \in Key : job.key = k
  BY <1>1
<1>2. ledger \subseteq {"DELIVERED", "FAILED"} \X Key /\ row \in [Envelope -> Time \cup {None}]
  BY DEF OutboxTypeOK
<1>3. CASE WriteNext(Backoff(active[k]), "next") /\ UNCHANGED <<ledger, mailbox>>
  <2>1. Backoff(active[k]) = Delivered(active[k]) => FALSE
    BY <1>1, Talking, Rewritten
  <2> QED
    BY <1>1, <1>2, <1>3, <2>1, DecideInv DEF mailbox
<1>4. CASE /\ WriteNext(Fail(active[k]), "next") /\ Note("FAILED", k)
           /\ UNCHANGED mailbox
  <2>1. Fail(active[k]) = Delivered(active[k]) => FALSE
    BY <1>1, Talking, Rewritten
  <2>2. /\ ledger' \subseteq ledger \cup {<<"FAILED", k>>}
        /\ ledger' \subseteq {"DELIVERED", "FAILED"} \X Key
    BY <1>2, <1>4 DEF Note
  <2> QED
    BY <1>1, <1>2, <1>4, <2>1, <2>2, DecideInv DEF mailbox
<1>5. CASE Publish(active[k].env) /\ Goto("answer") /\ UNCHANGED ledger
  <2>1. /\ active[k] # None /\ Intent(k) = active[k] /\ active[k].state = "SEALED"
        /\ active[k].env \in Envelope /\ active[k].env \in copies
        /\ owner[active[k].env] = k
    BY <1>1, Talking
  <2> PICK e \in Envelope : active[k].env = e
    BY <2>1
  <2>2. /\ state' \in [Envelope -> MailStates]
        /\ received' \in [Envelope -> Time \cup {None}]
        /\ row' = row
        /\ \A d \in Envelope : received[d] # None => received'[d] # None
        /\ \A d \in Envelope : received'[d] # None => received[d] # None \/ d = e
        /\ state[e] = "absent" => received'[e] # None
    BY <1>5, PublishEffect
  <2>3. received'[e] # None
    BY <2>2 DEF Dated
  <2>4. /\ job' \in Jobs /\ job'.step = "answer" /\ job'.key = k /\ job'.todo = job.todo
    BY <1>5, GoneTo DEF OutboxTypeOK, JobSteps
  <2>5. Told'
    BY <1>1, <1>5, <2>2 DEF Evidence, Told
  <2>6. Kept
    BY DEF Evidence
  <2>7. Evidence' /\ \A j \in Key : Intent(j)' = Intent(j)
    BY <1>1, <2>1, <2>2, <2>5, <2>6, FilesKept DEF Kept
  <2>8. OutboxTypeOK'
    BY <1>1, <1>5, <2>2, <2>4 DEF OutboxTypeOK, files
  <2>9. active' = active /\ copies' = copies
    BY <1>1 DEF files
  <2>10. Tidied'
    BY <1>1, <2>4, <2>9, TidiedOn DEF JobOK
  <2>11. AtWork(k)'
    BY <2>1, <2>3, <2>4, <2>7, <2>9 DEF AtWork, Working, Sending
  <2>12. JobOK'
    BY <2>4, <2>7, <2>10, <2>11 DEF JobOK
  <2> QED
    BY <2>7, <2>8, <2>12
<1> QED
  BY <1>3, <1>4, <1>5 DEF Attempt

LEMMA AnswerInv == ASSUME OutboxInv, Answer PROVE OutboxInv'
<1> USE NoneIsNothing DEF OutboxInv
<1>1. /\ job.step = "answer" /\ job.key \in Key
      /\ UNCHANGED <<files, copies, owner, state, received, crashes>>
  BY DEF Answer, Step, JobOK, Working
<1> PICK k \in Key : job.key = k
  BY <1>1
<1>2. ledger \subseteq {"DELIVERED", "FAILED"} \X Key /\ row \in [Envelope -> Time \cup {None}]
  BY DEF OutboxTypeOK
<1>3. CASE WriteNext(Backoff(active[k]), "next") /\ UNCHANGED <<ledger, row>>
  BY <1>1, <1>2, <1>3, DecideInv
<1>4. CASE WriteNext(Fail(active[k]), "next") /\ Note("FAILED", k) /\ UNCHANGED row
  <2>1. /\ ledger' \subseteq ledger \cup {<<"FAILED", k>>}
        /\ ledger' \subseteq {"DELIVERED", "FAILED"} \X Key
    BY <1>2, <1>4 DEF Note
  <2> QED
    BY <1>1, <1>2, <1>4, <2>1, DecideInv
<1>5. CASE Answered
  <2>1. /\ WriteNext(Delivered(active[k]), "next") /\ Note("DELIVERED", k)
        /\ row' = [row EXCEPT ![active[k].env] = received[active[k].env]]
    BY <1>5 DEF Answered
  <2>2. active[k].env \in Envelope
    BY <1>1, Talking
  <2>3. row' \in [Envelope -> Time \cup {None}]
    BY <1>2, <2>1, <2>2 DEF OutboxTypeOK
  <2>4. /\ ledger' \subseteq ledger \cup {<<"DELIVERED", k>>}
        /\ ledger' \subseteq {"DELIVERED", "FAILED"} \X Key
    BY <1>2, <2>1 DEF Note
  <2> QED
    BY <1>1, <2>1, <2>3, <2>4, DecideInv
<1> QED
  BY <1>3, <1>4, <1>5 DEF Answer

LEMMA CommitInv == ASSUME OutboxInv, Commit PROVE OutboxInv'
<1> USE NoneIsNothing DEF OutboxInv
<1>1. /\ job.step = "commit" /\ job.key \in Key
      /\ UNCHANGED <<recorded, copies, owner, ledger, mailbox, crashes>>
  BY DEF Commit, Step, JobOK, Working
<1> PICK k \in Key : job.key = k
  BY <1>1
<1> PICK i \in Intents : job.intent = i
  BY <1>1 DEF JobOK, AtWork, Decided
<1>2. /\ active[k] # None /\ i.env = active[k].env /\ WellFormed(i)
      /\ \A e \in Envelope : i.state = "DELIVERED" /\ i.env = e => received[e] # None
  BY <1>1 DEF JobOK, AtWork, Decided
<1>3. terminal[k] = None
  BY <1>2, OneOfTwo DEF Evidence
<1> DEFINE then == IF i.state \in Settled THEN "retire" ELSE job.then
<1>4. active' = [active EXCEPT ![k] = i] /\ Written(then) /\ terminal' = terminal
  BY <1>3 DEF Commit
<1>5. /\ then \in {"next", "advance", "retire"}
      /\ i.state \in Settled <=> then = "retire"
  BY <1>1 DEF JobOK, AtWork, Decided
<1> HIDE DEF then
<1>6. /\ job' \in Jobs /\ job'.step = then /\ job'.key = k /\ job'.todo = job.todo
  BY <1>4, <1>5, HasWritten DEF OutboxTypeOK, JobSteps
<1>7. /\ Evidence'
      /\ \A j \in Key : active'[j] = IF j = k THEN i ELSE active[j]
      /\ \A j \in Key : Intent(j)' = IF j = k THEN i ELSE Intent(j)
  BY <1>1, <1>2, <1>4, Rewrite DEF mailbox
<1>8. active' \in [Key -> Intents \cup {None}]
  BY <1>4 DEF OutboxTypeOK
<1>9. OutboxTypeOK'
  BY <1>1, <1>4, <1>6, <1>8 DEF OutboxTypeOK, mailbox
<1>10. Tidied'
  BY <1>1, <1>5, <1>6, <1>7 DEF Tidied, JobOK
<1>11. AtWork(k)'
  BY <1>5, <1>6, <1>7 DEF AtWork, Working, Sending
<1>12. JobOK'
  BY <1>6, <1>7, <1>10, <1>11 DEF JobOK
<1> QED
  BY <1>7, <1>9, <1>12

LEMMA RetireSettledInv == ASSUME OutboxInv, RetireSettled PROVE OutboxInv'
<1> USE NoneIsNothing DEF OutboxInv
<1>1. /\ job.step = "retire" /\ job.key \in Key /\ Goto("next")
      /\ UNCHANGED <<recorded, copies, owner, ledger, mailbox, crashes>>
  BY DEF RetireSettled, Step, JobOK, Working
<1> PICK k \in Key : job.key = k
  BY <1>1
<1>2. Retire(k) /\ active[k] # None /\ active[k].state \in Settled
  BY <1>1 DEF RetireSettled, JobOK, AtWork
<1>3. /\ Evidence'
      /\ \A j \in Key : Intent(j)' = Intent(j)
      /\ \A j \in Key : active'[j] # None => active[j] # None /\ active'[j] = active[j]
  BY <1>1, <1>2, Moved
<1>4. /\ job' \in Jobs /\ job'.step = "next" /\ job'.todo = job.todo
  BY <1>1, GoneTo DEF OutboxTypeOK, JobSteps
<1>5. /\ terminal' \in [Key -> Intents \cup {None}]
      /\ active' \in [Key -> Intents \cup {None}]
      /\ active'[k] = None
  BY <1>2 DEF OutboxTypeOK, Retire
<1>6. OutboxTypeOK'
  BY <1>1, <1>4, <1>5 DEF OutboxTypeOK, mailbox
<1>7. Tidied'
  BY <1>1, <1>3, <1>4, <1>5 DEF Tidied, JobOK
<1>8. JobOK'
  BY <1>3, <1>4, <1>7, AtRest DEF Working, JobOK
<1> QED
  BY <1>3, <1>6, <1>8

\* Steps beside the job: what the job knows of its intent stays so.
LEMMA Beside ==
    ASSUME JobOK, job' = job, copies' = copies,
           \A e \in Envelope : received[e] # None => received'[e] # None,
           \A k \in Key : Intent(k) # None => Intent(k)' # None,
           \A k \in Key : (active[k] # None) <=> (active'[k] # None),
           \A k \in Key : active[k] # None => /\ active'[k].state = active[k].state
                                              /\ active'[k].env = active[k].env
                                              /\ active'[k].request = active[k].request
    PROVE JobOK'
<1>1. \A k \in Key : AtWork(k) => AtWork(k)'
  <2> SUFFICES ASSUME NEW k \in Key, AtWork(k) PROVE AtWork(k)'
    OBVIOUS
  <2>1. job.step = "commit" => Decided(k)'
    BY DEF AtWork, Decided, WellFormed
  <2> QED
    BY <2>1 DEF AtWork, Working, Sending
<1>2. Tidied'
  BY DEF Tidied, JobOK
<1> QED
  BY <1>1, <1>2 DEF JobOK

LEMMA BackoffEndsInv ==
    ASSUME OutboxInv, NEW k \in Key, BackoffEnds(k)
    PROVE OutboxInv'
<1> USE NoneIsNothing DEF OutboxInv
<1> DEFINE i == Due(active[k])
<1>1. /\ active[k] # None /\ active' = [active EXCEPT ![k] = i]
      /\ UNCHANGED <<terminal, recorded, copies, owner, ledger, mailbox, job, crashes>>
  BY DEF BackoffEnds
<1>2. active[k] \in Intents /\ Intent(k) = active[k]
  BY <1>1, OneOfTwo DEF Evidence
<1>3. /\ i \in Intents /\ i.env = active[k].env /\ i.request = active[k].request
      /\ i.state = active[k].state /\ i.due
  BY <1>2, Rewritten
<1> HIDE DEF i
<1>4. WellFormed(i)
  BY <1>1, <1>2, <1>3 DEF WellFormed, Evidence, Shaped
<1>5. \A e \in Envelope : i.state = "DELIVERED" /\ i.env = e => received[e] # None
  BY <1>1, <1>2, <1>3 DEF Evidence, Claimed
<1>6. /\ Evidence'
      /\ \A j \in Key : active'[j] = IF j = k THEN i ELSE active[j]
      /\ \A j \in Key : Intent(j)' = IF j = k THEN i ELSE Intent(j)
  BY <1>1, <1>3, <1>4, <1>5, Rewrite DEF mailbox
<1>7. active' \in [Key -> Intents \cup {None}]
  BY <1>1, <1>3 DEF OutboxTypeOK
<1>8. OutboxTypeOK'
  BY <1>1, <1>7 DEF OutboxTypeOK, mailbox
<1>9. JobOK'
  BY <1>1, <1>3, <1>6, Beside DEF mailbox
<1> QED
  BY <1>6, <1>8, <1>9

\* Steps of the receiver and of redeliver.
LEMMA MailboxStep ==
    ASSUME OutboxInv, UNCHANGED <<sender, job, crashes>>,
           state' \in [Envelope -> MailStates],
           received' \in [Envelope -> Time \cup {None}],
           row' \in [Envelope -> Time \cup {None}],
           \A e \in Envelope : received[e] # None => received'[e] # None,
           \A e \in Envelope : received'[e] # None => e \in copies
    PROVE OutboxInv'
<1> USE DEF OutboxInv
<1>1. UNCHANGED <<files, owner>> /\ copies' = copies /\ ledger' = ledger /\ active' = active
  BY DEF sender, files
<1>2. Told' /\ Kept
  BY <1>1 DEF Evidence, Told
<1>3. Evidence' /\ \A k \in Key : Intent(k)' = Intent(k)
  BY <1>1, <1>2, FilesKept DEF Kept
<1>4. OutboxTypeOK'
  BY <1>1 DEF OutboxTypeOK, files
<1>5. JobOK'
  BY <1>1, <1>3, Beside
<1> QED
  BY <1>3, <1>4, <1>5

LEMMA ReceiverInv ==
    ASSUME OutboxInv, NEW e \in Envelope,
           Redeliver(e) \/ ReceiverMoves(e)
    PROVE OutboxInv'
<1> USE DEF OutboxInv
<1>1. Kept /\ OutboxTypeOK
  BY DEF Evidence
<1>2. CASE Redeliver(e)
  <2>1. e \in copies /\ Publish(e) /\ UNCHANGED <<sender, job, crashes>>
    BY <1>2 DEF Redeliver
  <2>2. row \in [Envelope -> Time \cup {None}]
    BY DEF OutboxTypeOK
  <2> QED
    BY <1>1, <2>1, <2>2, PublishEffect, MailboxStep DEF Kept
<1>3. CASE ReceiverMoves(e)
  <2>1. UNCHANGED <<sender, job, crashes>> /\ received' = received
    BY <1>3 DEF ReceiverMoves, ReceiverOpens, ReceiverRepairs, ReceiverExpires,
       ReceiverPrunes
  <2>2. state' \in [Envelope -> MailStates]
    BY <1>3 DEF ReceiverMoves, ReceiverOpens, ReceiverRepairs, ReceiverExpires,
       ReceiverPrunes, OutboxTypeOK, MailStates
  <2>3. row' \in [Envelope -> Time \cup {None}]
    BY <1>3 DEF ReceiverMoves, ReceiverOpens, ReceiverRepairs, ReceiverExpires,
       ReceiverPrunes, OutboxTypeOK
  <2> QED
    BY <1>1, <2>1, <2>2, <2>3, MailboxStep DEF Kept, OutboxTypeOK
<1> QED
  BY <1>2, <1>3

LEMMA DatedStep == ASSUME OutboxInv, Dated, [Next]_vars PROVE Dated'
<1>1. CASE UNCHANGED mailbox
  BY <1>1 DEF Dated, mailbox
<1>2. ASSUME NEW e \in Envelope, Publish(e) PROVE Dated'
  BY <1>2, NoneIsNothing DEF Publish, Dated, OutboxInv, OutboxTypeOK, mailbox
<1>3. ASSUME NEW e \in Envelope, ReceiverMoves(e) PROVE Dated'
  BY <1>3 DEF ReceiverMoves, ReceiverOpens, ReceiverRepairs, ReceiverExpires,
     ReceiverPrunes, Dated, OutboxInv, OutboxTypeOK
<1>4. CASE Attempt
  <2>1. job.key \in Key /\ job.step = "attempt"
    BY <1>4 DEF Attempt, Step, OutboxInv, JobOK, Working
  <2>2. active[job.key].env \in Envelope
    BY <2>1, Talking
  <2> QED
    BY <1>1, <1>2, <1>4, <2>2 DEF Attempt
<1>5. CASE Answer
  BY <1>5 DEF Answer, Dated
<1>6. CASE Receiver
  BY <1>2, <1>3, <1>6 DEF Receiver, Redeliver
<1>7. CASE UNCHANGED vars
  BY <1>1, <1>7 DEF vars
<1>8. CASE Command
  BY <1>1, <1>8 DEF Command, Submit, Resume, Retry
<1>9. ASSUME JobStep, ~Attempt, ~Answer PROVE Dated'
  BY <1>1, <1>9 DEF JobStep, Commit, RetireSettled, Tidy, NextIntent, Finish, Seal, Store,
        Advance, Copy
<1>10. CASE Die \/ \E k \in Key : BackoffEnds(k)
  BY <1>1, <1>10 DEF Die, BackoffEnds
<1> QED
  BY <1>4, <1>5, <1>6, <1>7, <1>8, <1>9, <1>10 DEF Next

LEMMA NextInv == ASSUME OutboxInv, Dated, [Next]_vars PROVE OutboxInv'
<1>1. CASE Command
  BY <1>1, SubmitInv, ResumeInv, RetryInv DEF Command
<1>2. CASE JobStep
  BY <1>2, CommitInv, RetireSettledInv, TidyInv, NextIntentInv, FinishInv, SealInv, StoreInv,
     AdvanceInv, CopyStepInv, AttemptInv, AnswerInv DEF JobStep
<1>3. CASE Die
  BY <1>3, DieInv
<1>4. CASE Receiver
  BY <1>4, ReceiverInv DEF Receiver
<1>5. CASE \E k \in Key : BackoffEnds(k)
  BY <1>5, BackoffEndsInv
<1>6. CASE UNCHANGED vars
  <2>1. UNCHANGED <<sender, received>> /\ UNCHANGED <<sender, mailbox, job, crashes>>
    BY <1>6 DEF vars, mailbox
  <2>2. OutboxTypeOK' /\ Evidence' /\ \A k \in Key : Intent(k)' = Intent(k)
    BY <2>1, EvidenceRead DEF OutboxInv, OutboxTypeOK, sender, files, mailbox
  <2>3. JobOK'
    BY <2>1, <2>2, Beside DEF OutboxInv, sender, files, mailbox
  <2> QED
    BY <2>2, <2>3 DEF OutboxInv
<1> QED
  BY <1>1, <1>2, <1>3, <1>4, <1>5, <1>6 DEF Next

-----------------------------------------------------------------------------
(* The safety properties follow *)

LEMMA SafetyFollows ==
    ASSUME OutboxInv
    PROVE OneMessage /\ CopyBeforeDelivery /\ DeliveredTruly /\ NeverStranded
<1> USE NoneIsNothing DEF OutboxInv
<1>1. OneMessage
  BY DEF Evidence, Kept, Owned, OneMessage, Arrived, OutboxTypeOK
<1>2. CopyBeforeDelivery
  BY DEF Evidence, Kept, CopyBeforeDelivery, Arrived
<1>3. DeliveredTruly
  <2> SUFFICES ASSUME NEW k \in Key
               PROVE /\ Intent(k) # None /\ Intent(k).state = "DELIVERED" =>
                           Arrived(Intent(k).env)
                     /\ <<"DELIVERED", k>> \in ledger =>
                           Intent(k).env # None /\ Arrived(Intent(k).env)
    BY DEF DeliveredTruly
  <2>1. Intent(k) # None /\ Intent(k).state = "DELIVERED" => Arrived(Intent(k).env)
    <3> SUFFICES ASSUME Intent(k) # None, Intent(k).state = "DELIVERED"
                 PROVE received[Intent(k).env] # None
      BY DEF Arrived
    <3>1. Intent(k) \in Intents /\ Intent(k).env # None
      BY OneOfTwo DEF Evidence, Shaped, WellFormed
    <3>2. Intent(k).env \in Envelope
      BY <3>1, States4
    <3> QED
      BY <3>2 DEF Evidence, Claimed
  <2>2. <<"DELIVERED", k>> \in ledger => Intent(k).env # None /\ Arrived(Intent(k).env)
    BY DEF Evidence, Told, Owned, Arrived
  <2> QED
    BY <2>1, <2>2
<1>4. NeverStranded
  <2>1. \A k \in Key : active[k] # None => active[k] \in Intents
    BY DEF OutboxTypeOK
  <2> QED
    BY <2>1, States4 DEF NeverStranded, Evidence, OneFile, JobOK, Tidied
<1> QED
  BY <1>1, <1>2, <1>3, <1>4

\* What a FAILED intent is changed by.
LEMMA FailedStep ==
    ASSUME OutboxInv, [Next]_vars, NEW k \in Key,
           Intent(k) # None, Intent(k).state = "FAILED", Intent(k)' # Intent(k)
    PROVE job.force /\ job.key = k
<1> USE NoneIsNothing DEF OutboxInv
<1>1. ~ UNCHANGED <<active, terminal>>
  BY DEF Intent
<1>2. ASSUME NEW j \in Key, NEW r \in Request, NEW deliver \in BOOLEAN, NEW keyed \in BOOLEAN,
             Submit(j, r, deliver, keyed)
      PROVE FALSE
  <2>1. /\ Intent(j) = None /\ active' = [active EXCEPT ![j] = NewIntent(r)]
        /\ terminal' = terminal
    BY <1>1, <1>2 DEF Submit
  <2>2. j # k
    BY <2>1
  <2> QED
    BY <2>1, <2>2 DEF Intent, OutboxTypeOK
<1>3. ASSUME NEW keyed \in BOOLEAN, Resume(keyed) PROVE FALSE
  BY <1>1, <1>3 DEF Resume, sender, files
<1>4. ASSUME NEW j \in Key, NEW keyed \in BOOLEAN, Retry(j, keyed) PROVE FALSE
  <2>1. /\ active' = [active EXCEPT ![j] = Intent(j)]
        /\ terminal' = [terminal EXCEPT ![j] = None]
        /\ Intent(j) # None
    BY <1>4 DEF Retry
  <2> QED
    BY <2>1 DEF Intent, OutboxTypeOK
<1>5. CASE Commit
  <2>1. /\ job.step = "commit" /\ job.key \in Key
    BY <1>5 DEF Commit, Step, JobOK, Working
  <2> PICK j \in Key : job.key = j
    BY <2>1
  <2>2. active[j] # None /\ (job.force \/ active[j].state = "SEALED")
    BY <2>1 DEF JobOK, AtWork, Decided
  <2>3. Intent(j) = active[j] /\ terminal[j] = None
    BY <2>2, OneOfTwo DEF Evidence
  <2>4. active' = [active EXCEPT ![j] = job.intent] /\ terminal' = terminal
    BY <1>5, <2>3 DEF Commit
  <2>5. j = k
    BY <2>4 DEF Intent, OutboxTypeOK
  <2> QED
    BY <2>2, <2>3, <2>5 DEF OutboxTypeOK, Jobs
<1>6. CASE RetireSettled
  <2>1. /\ job.step = "retire" /\ job.key \in Key /\ Retire(job.key)
        /\ UNCHANGED <<recorded, copies, owner, ledger, mailbox, crashes>>
    BY <1>6 DEF RetireSettled, Step, JobOK, Working
  <2> PICK j \in Key : job.key = j
    BY <2>1
  <2>2. active[j] # None /\ active[j].state \in Settled
    BY <2>1 DEF JobOK, AtWork
  <2>3. Intent(k)' = Intent(k)
    BY <2>1, <2>2, Moved
  <2> QED
    BY <2>3
<1>7. CASE Tidy
  <2>1. UNCHANGED <<recorded, copies, owner, ledger, mailbox, crashes>>
    BY <1>7 DEF Tidy
  <2>2. PICK j \in Key : active[j] # None /\ active[j].state \in Settled /\ Retire(j)
    BY <1>1, <1>7 DEF Tidy
  <2>3. Intent(k)' = Intent(k)
    BY <2>1, <2>2, Moved
  <2> QED
    BY <2>3
<1>8. CASE Seal
  <2>1. job.step = "advance" /\ job.key \in Key /\ terminal' = terminal
    BY <1>8 DEF Seal, Step, JobOK, Working
  <2> PICK j \in Key : job.key = j
    BY <2>1
  <2>2. Intent(j).state = "PENDING"
    BY <1>8 DEF Seal
  <2>3. PICK i : active' = [active EXCEPT ![j] = i]
    BY <1>8 DEF Seal, SealRefused, SealAs
  <2>4. j # k
    BY <2>2
  <2> QED
    BY <2>1, <2>3, <2>4 DEF Intent, OutboxTypeOK
<1>9. ASSUME NEW j \in Key, BackoffEnds(j) PROVE FALSE
  <2>1. /\ active[j] # None /\ ~active[j].due /\ terminal' = terminal
        /\ active' = [active EXCEPT ![j] = Due(active[j])]
    BY <1>9 DEF BackoffEnds
  <2>2. Intent(j) = active[j]
    BY <2>1, OneOfTwo DEF Evidence
  <2>3. j # k
    BY <2>1, <2>2 DEF Evidence, Shaped, WellFormed, Settled
  <2> QED
    BY <2>1, <2>3 DEF Intent, OutboxTypeOK
<1>10. CASE NextIntent \/ Finish \/ Store \/ Advance \/ Copy \/ Attempt \/ Answer
  BY <1>1, <1>10 DEF NextIntent, Finish, Store, Advance, Copy, Attempt, Answer, sender, files
<1>11. CASE Die \/ Receiver \/ UNCHANGED vars
  BY <1>1, <1>11 DEF Die, Receiver, Redeliver, ReceiverMoves, ReceiverOpens,
     ReceiverRepairs, ReceiverExpires, ReceiverPrunes, vars, sender, files
<1> QED
  BY <1>2, <1>3, <1>4, <1>5, <1>6, <1>7, <1>8, <1>9, <1>10, <1>11 DEF Next, Command, JobStep

\* What any step may do to a recorded intent.
LEMMA KeyStep ==
    ASSUME OutboxInv, [Next]_vars, NEW k \in Key, Intent(k) # None
    PROVE /\ Intent(k)' # None
          /\ Intent(k)'.request = Intent(k).request
          /\ Intent(k).env # None => Intent(k)'.env = Intent(k).env
          /\ Intent(k).state = "DELIVERED" => Intent(k)' = Intent(k)
<1> USE NoneIsNothing DEF OutboxInv
<1> DEFINE Keeps == /\ Intent(k)' # None
                    /\ Intent(k)'.request = Intent(k).request
                    /\ Intent(k).env # None => Intent(k)'.env = Intent(k).env
                    /\ Intent(k).state = "DELIVERED" => Intent(k)' = Intent(k)
<1> SUFFICES Keeps
  OBVIOUS
<1>1. CASE Intent(k)' = Intent(k)
  BY <1>1
<1>2. CASE UNCHANGED <<active, terminal>>
  BY <1>1, <1>2 DEF Intent
\* One file of the queue is rewritten, for the same request.
<1>3. ASSUME NEW j \in Key, NEW i \in Intents, active[j] # None,
             active' = [active EXCEPT ![j] = i], terminal' = terminal,
             i.request = active[j].request,
             active[j].env # None => i.env = active[j].env,
             active[j].state = "DELIVERED" => i = active[j]
      PROVE Keeps
  <2>1. Intent(j) = active[j] /\ terminal[j] = None
    BY <1>3, OneOfTwo DEF Evidence
  <2>2. Intent(k)' = IF j = k THEN i ELSE Intent(k)
    BY <1>3, <2>1 DEF Intent, OutboxTypeOK
  <2> QED
    BY <1>1, <1>3, <2>1, <2>2
<1>4. ASSUME NEW j \in Key, NEW r \in Request, NEW deliver \in BOOLEAN, NEW keyed \in BOOLEAN,
             Submit(j, r, deliver, keyed)
      PROVE Keeps
  <2>1. CASE UNCHANGED active
    BY <1>2, <1>4, <2>1 DEF Submit
  <2>2. CASE Intent(j) = None /\ active' = [active EXCEPT ![j] = NewIntent(r)]
    <3>1. j # k /\ terminal' = terminal
      BY <1>4, <2>2 DEF Submit
    <3>2. Intent(k)' = Intent(k)
      BY <2>2, <3>1 DEF Intent, OutboxTypeOK
    <3> QED
      BY <1>1, <3>2
  <2> QED
    BY <1>4, <2>1, <2>2 DEF Submit
<1>5. ASSUME NEW j \in Key, NEW keyed \in BOOLEAN, Retry(j, keyed) PROVE Keeps
  <2>1. /\ active' = [active EXCEPT ![j] = Intent(j)]
        /\ terminal' = [terminal EXCEPT ![j] = None]
        /\ Intent(j) # None
    BY <1>5 DEF Retry
  <2>2. Intent(k)' = Intent(k)
    BY <2>1 DEF Intent, OutboxTypeOK
  <2> QED
    BY <1>1, <2>2
<1>6. CASE Commit
  <2>1. /\ job.step = "commit" /\ job.key \in Key
    BY <1>6 DEF Commit, Step, JobOK, Working
  <2> PICK j \in Key : job.key = j
    BY <2>1
  <2>2. /\ active[j] # None /\ job.intent \in Intents
        /\ job.intent.env = active[j].env /\ job.intent.request = active[j].request
        /\ active[j].state # "DELIVERED"
    BY <2>1 DEF JobOK, AtWork, Decided
  <2>3. active' = [active EXCEPT ![j] = job.intent] /\ terminal' = terminal
    BY <1>6, <2>2, OneOfTwo DEF Commit, Evidence
  <2> QED
    BY <1>3, <2>2, <2>3
<1>7. CASE RetireSettled
  <2>1. /\ job.step = "retire" /\ job.key \in Key /\ Retire(job.key)
        /\ UNCHANGED <<recorded, copies, owner, ledger, mailbox, crashes>>
    BY <1>7 DEF RetireSettled, Step, JobOK, Working
  <2> PICK j \in Key : job.key = j
    BY <2>1
  <2>2. active[j] # None /\ active[j].state \in Settled
    BY <2>1 DEF JobOK, AtWork
  <2> QED
    BY <1>1, <2>1, <2>2, Moved
<1>8. CASE Tidy
  <2>1. UNCHANGED <<recorded, copies, owner, ledger, mailbox, crashes>>
    BY <1>8 DEF Tidy
  <2>2. CASE \E j \in Key : active[j] # None /\ active[j].state \in Settled /\ Retire(j)
    BY <1>1, <2>1, <2>2, Moved
  <2> QED
    BY <1>2, <1>8, <2>2 DEF Tidy
<1>9. CASE Seal
  <2>1. job.step = "advance" /\ job.key \in Key /\ terminal' = terminal
    BY <1>9 DEF Seal, Step, JobOK, Working
  <2> PICK j \in Key : job.key = j
    BY <2>1
  <2>2. Intent(j).state = "PENDING" /\ Intent(j) # None
    BY <1>9, <2>1 DEF Seal, JobOK, AtWork, Working
  <2>3. /\ active[j] = Intent(j) /\ active[j] \in Intents
        /\ active[j] # None /\ active[j].env = None
    BY <2>2, OneOfTwo DEF Evidence, Shaped, WellFormed, Queued
  <2>4. PICK i \in {Fail(active[j])} \cup {Sealed(active[j], e) : e \in Envelope} :
            active' = [active EXCEPT ![j] = i]
    BY <1>9 DEF Seal, SealRefused, SealAs
  <2>5. i \in Intents /\ i.request = active[j].request
    BY <2>3, <2>4, Rewritten
  <2> QED
    BY <1>3, <2>1, <2>2, <2>3, <2>4, <2>5
<1>10. ASSUME NEW j \in Key, BackoffEnds(j) PROVE Keeps
  <2>1. /\ active[j] # None /\ ~active[j].due /\ terminal' = terminal
        /\ active' = [active EXCEPT ![j] = Due(active[j])]
    BY <1>10 DEF BackoffEnds
  <2>2. Intent(j) = active[j] /\ active[j] \in Intents
    BY <2>1, OneOfTwo DEF Evidence
  <2>3. active[j].state # "DELIVERED"
    BY <2>1, <2>2 DEF Evidence, Shaped, WellFormed, Settled
  <2>4. /\ Due(active[j]) \in Intents /\ Due(active[j]).env = active[j].env
        /\ Due(active[j]).request = active[j].request
    BY <2>2, Rewritten
  <2> QED
    BY <1>3, <2>1, <2>3, <2>4
<1>11. CASE \E keyed \in BOOLEAN : Resume(keyed)
  BY <1>2, <1>11 DEF Resume, sender, files
<1>12. CASE NextIntent \/ Finish \/ Store \/ Advance \/ Copy \/ Attempt \/ Answer
  BY <1>2, <1>12 DEF NextIntent, Finish, Store, Advance, Copy, Attempt, Answer, sender, files
<1>13. CASE Die \/ Receiver \/ UNCHANGED vars
  BY <1>2, <1>13 DEF Die, Receiver, Redeliver, ReceiverMoves, ReceiverOpens,
     ReceiverRepairs, ReceiverExpires, ReceiverPrunes, vars, sender, files
<1> HIDE DEF Keeps
<1> QED
  BY <1>4, <1>5, <1>6, <1>7, <1>8, <1>9, <1>10, <1>11, <1>12, <1>13 DEF Next, Command, JobStep

-----------------------------------------------------------------------------
(* The theorems *)

LEMMA InvHolds == Spec => [](OutboxInv /\ Dated)
<1>1. Init => Dated
  BY DEF Init, Dated
<1>2. OutboxInv /\ Dated /\ [Next]_vars => (OutboxInv /\ Dated)'
  BY NextInv, DatedStep
<1> QED
  BY <1>1, <1>2, InitInv, PTL DEF Spec

\* Intents, copies, ledger and the lock holder's program counter keep their
\* shapes, and a key is recorded once.
THEOREM OutboxTypeCorrect == Spec => []OutboxTypeOK
<1>1. OutboxInv => OutboxTypeOK
  BY DEF OutboxInv
<1> QED
  BY <1>1, InvHolds, PTL

\* One key, one message: submit, resume, retry, redeliver and any number of
\* deaths between them never bring a second container to the receiver.
THEOREM OneMessagePerKey == Spec => []OneMessage
<1>1. OutboxInv => OneMessage
  BY SafetyFollows
<1> QED
  BY <1>1, InvHolds, PTL

\* The sender holds a copy of whatever the receiver has.
THEOREM CopiesPrecede == Spec => []CopyBeforeDelivery
<1>1. OutboxInv => CopyBeforeDelivery
  BY SafetyFollows
<1> QED
  BY <1>1, InvHolds, PTL

\* A DELIVERED intent and a DELIVERED ledger line speak of a received message.
THEOREM DeliveryClaimsTrue == Spec => []DeliveredTruly
<1>1. OutboxInv => DeliveredTruly
  BY SafetyFollows
<1> QED
  BY <1>1, InvHolds, PTL

\* One file per key, and no settled file in the queue when resume goes on.
THEOREM QueueNeverStranded == Spec => []NeverStranded
<1>1. OutboxInv => NeverStranded
  BY SafetyFollows
<1> QED
  BY <1>1, InvHolds, PTL

\* Only retry_intent takes a key out of FAILED.
THEOREM FailureIsFinal == Spec => FailedStays
<1>1. OutboxInv /\ [Next]_vars =>
        [\A k \in Key :
             /\ Intent(k) # None /\ Intent(k).state = "FAILED"
             /\ Intent(k)' # Intent(k)
             => job.force /\ job.key = k]_vars
  BY FailedStep
<1> QED
  BY <1>1, InvHolds, PTL DEF Spec, FailedStays

\* The binding of an idempotency key to its request and its container outlives
\* every command and every death, and DELIVERED is final.
THEOREM KeysKeepTheirMessage == Spec => KeyKeepsItsMessage
<1>1. OutboxInv /\ [Next]_vars =>
        [\A k \in Key : Intent(k) # None =>
             /\ Intent(k)' # None
             /\ Intent(k)'.request = Intent(k).request
             /\ Intent(k).env # None => Intent(k)'.env = Intent(k).env
             /\ Intent(k).state = "DELIVERED" => Intent(k)' = Intent(k)]_vars
  BY KeyStep
<1> QED
  BY <1>1, InvHolds, PTL DEF Spec, KeyKeepsItsMessage
=============================================================================
