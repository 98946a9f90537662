------------------------ MODULE VerificationRunProofs ------------------------
(***************************************************************************)
(* What a verification run reports was so, and it asks a bounded number of *)
(* times: for every registry, every event file, every store, every policy. *)
(***************************************************************************)
EXTENDS VerificationRun, FiniteSetTheorems, TLAPS

-----------------------------------------------------------------------------
(* The statuses of a step. *)

\* A step's status is "verified" exactly when all its readings are: in the rollup of
\* several checks as in the report of one.
LEMMA SettledVerified ==
    ASSUME NEW readings
    PROVE  Settled(readings) = "verified"
              <=> \A c \in DOMAIN readings : readings[c] = "verified"
<1> DEFINE All == With("verified", readings) = DOMAIN readings
           Unread == With("incomplete_verification", readings) # {}
           Forbidden == With("present_when_forbidden", readings) # {}
           Absent == With("missing", readings) # {}
<1>1. All <=> \A c \in DOMAIN readings : readings[c] = "verified"
    BY DEF With
<1>2. All => ~Unread /\ ~Forbidden /\ ~Absent
    BY <1>1 DEF With
<1>3. Rollup(readings) = "verified" <=> ~Unread /\ All
  <2>1. CASE Unread
    BY <2>1 DEF Rollup
  <2>2. CASE ~Unread /\ All
    BY <2>2 DEF Rollup
  <2>3. CASE ~Unread /\ ~All
    BY <2>3 DEF Rollup
  <2> QED
    BY <2>1, <2>2, <2>3
<1>4. CASE Cardinality(DOMAIN readings) > 1
    BY <1>1, <1>2, <1>3, <1>4 DEF Settled
<1>5. CASE ~(Cardinality(DOMAIN readings) > 1)
  <2>1. CASE Forbidden
    BY <1>1, <1>2, <1>5, <2>1 DEF Settled
  <2>2. CASE ~Forbidden /\ Absent
    BY <1>1, <1>2, <1>5, <2>2 DEF Settled
  <2>3. CASE ~Forbidden /\ ~Absent
    BY <1>1, <1>2, <1>3, <1>5, <2>3 DEF Settled
  <2> QED
    BY <2>1, <2>2, <2>3
<1> QED
    BY <1>4, <1>5

\* A step that waits has no verified reading, and a step with checks has one to wait for.
LEMMA PendingReadings ==
    ASSUME NEW readings, Pending(readings)
    PROVE  \A c \in DOMAIN readings : readings[c] # "verified"
BY DEF Pending, With

\* No status of a finished attempt is "uncertain".
LEMMA SettledDeterminate ==
    ASSUME NEW readings
    PROVE  Settled(readings) # "uncertain"
BY DEF Settled, Rollup, With

\* The window and the interval are natural numbers, and only strong mode has no interval.
LEMMA PolicyNumbers ==
    ASSUME policy \in Policies
    PROVE  /\ Window \in Nat /\ Poll \in Nat
           /\ Polls => Poll > 0 /\ Poll <= Window
BY VerificationRunAssumption DEF VerificationRunAssumption, Polls, Mode, Window, Poll

\* A step that can be verified has a check.
LEMMA ChecksExist ==
    ASSUME NEW file, NEW s, ~Unverifiable(file, s)
    PROVE  ChecksOf(file, s) # {}
BY VerificationRunAssumption DEF VerificationRunAssumption, Unverifiable, ChecksOf

-----------------------------------------------------------------------------
(* The number of attempts. *)

\* An attempt after the first starts a poll interval after the one before, and a
\* sleep starts before the window ends.
PollClock ==
    /\ policy \in Policies
    /\ attempts \in Nat /\ elapsed \in Nat /\ wake \in Nat
    /\ phase = "poll" => attempts >= 1 /\ (attempts - 1) * Poll <= elapsed
    /\ phase = "sleep" => /\ attempts >= 1 /\ (attempts - 1) * Poll < Window
                          /\ wake >= attempts * Poll
    /\ AttemptsBounded

LEMMA PollClockInit == Init => PollClock
BY DEF Init, PollClock, AttemptsBounded

LEMMA PolicyStays == [Next]_vars => policy' = policy /\ Window' = Window /\ Poll' = Poll
<1> SUFFICES ASSUME [Next]_vars PROVE policy' = policy
    BY DEF Window, Poll
<1> QED
    BY DEF Next, Run, vars, inputs, Write, Tick, Reject, Begin, Read, Settle, GiveUp, End, Sleep,
           Wake, Record, Aggregate

LEMMA PollClockStep == PollClock /\ [Next]_vars => PollClock'
<1> SUFFICES ASSUME PollClock, [Next]_vars PROVE PollClock'
    OBVIOUS
<1>0. policy' = policy /\ Window' = Window /\ Poll' = Poll /\ policy \in Policies
    BY PolicyStays DEF PollClock
<1> USE <1>0, PolicyNumbers
<1>1. ASSUME NEW i \in Items, NEW v \in Cells, Write(i, v) PROVE PollClock'
    BY <1>1 DEF Write, PollClock, AttemptsBounded, clock
<1>2. CASE Tick
    BY <1>2 DEF Tick, PollClock, AttemptsBounded
<1>3. ASSUME NEW s, Reject(s) PROVE PollClock'
    BY <1>3 DEF Reject, PollClock, AttemptsBounded, clock
<1>4. ASSUME NEW s, Begin(s) PROVE PollClock'
    BY <1>4 DEF Begin, PollClock, AttemptsBounded
<1>5. ASSUME NEW c, Read(c) PROVE PollClock'
    BY <1>5 DEF Read, PollClock, AttemptsBounded, clock
<1>6. CASE Settle
    BY <1>6 DEF Settle, End, PollClock, AttemptsBounded, clock
<1>7. CASE GiveUp
    BY <1>7 DEF GiveUp, End, PollClock, AttemptsBounded, clock
<1>8. CASE Sleep
  <2>1. (attempts - 1) * Poll <= elapsed /\ elapsed < Window /\ attempts >= 1
    BY <1>8 DEF Sleep, AllRead, WindowOver, PollClock
  <2>2. attempts * Poll = (attempts - 1) * Poll + Poll
    BY DEF PollClock
  <2>3. wake' >= attempts * Poll /\ wake' \in Nat
    BY <1>8, <2>1, <2>2 DEF Sleep, WakeAt, PollClock
  <2> QED
    BY <1>8, <2>1, <2>3 DEF Sleep, PollClock, AttemptsBounded
<1>9. CASE Wake
  <2>1. elapsed >= attempts * Poll /\ (attempts - 1) * Poll < Window /\ attempts >= 1
    BY <1>9 DEF Wake, PollClock
  <2>2. attempts' - 1 = attempts /\ attempts' - 2 = attempts - 1
    BY <1>9 DEF Wake, PollClock
  <2> QED
    BY <1>9, <2>1, <2>2 DEF Wake, PollClock, AttemptsBounded, clock
<1>10. CASE Record
    BY <1>10 DEF Record, PollClock, AttemptsBounded, clock
<1>11. CASE Aggregate
    BY <1>11 DEF Aggregate, PollClock, AttemptsBounded, clock
<1>12. CASE UNCHANGED vars
    BY <1>12 DEF vars, PollClock, AttemptsBounded, clock
<1> QED
    BY <1>1, <1>2, <1>3, <1>4, <1>5, <1>6, <1>7, <1>8, <1>9, <1>10, <1>11, <1>12 DEF Next, Run

\* The number of attempts is bounded by the policy, however the store behaves
\* (the polling loops of verificationPolicy.ts).
THEOREM AttemptsSafe == Spec => []AttemptsBounded
<1>1. PollClock => AttemptsBounded
    BY DEF PollClock
<1> QED
    BY <1>1, PollClockInit, PollClockStep, PTL DEF Spec

-----------------------------------------------------------------------------
(* The evidence for a verdict. *)

\* The check c was seen as status at some moment of the attempt.
Seen(c, status) == IF status = "verified" THEN c \in held ELSE c \in broke

\* During an attempt, the history covers what the store holds now and everything
\* that was read; at its end, the verdict is justified.
Evidence ==
    /\ phase = "poll" =>
          /\ ~Unverifiable(capture, current)
          /\ held \subseteq ChecksOf(capture, current)
          /\ \A c \in ChecksOf(capture, current) : Seen(c, Observe(c, cell))
          /\ \A c \in DOMAIN recs : Seen(c, recs[c])
    /\ phase = "sleep" => ~Unverifiable(capture, current)
    /\ VerifiedWasTrue
    /\ SteadyStateIsVerified
    /\ UncertainAfterWindow

LEMMA EvidenceInit == Init => Evidence
BY DEF Init, Evidence, VerifiedWasTrue, SteadyStateIsVerified, UncertainAfterWindow

\* A new witness of an attempt covers the store, and keeps what was seen before.
LEMMA WitnessCovers ==
    ASSUME NEW checks, NEW cells, NEW before, Witness(checks, cells, before),
           before.held \subseteq checks
    PROVE  /\ held' \subseteq checks
           /\ before.held \subseteq held' /\ before.broke \subseteq broke'
           /\ \A c \in checks : IF Observe(c, cells) = "verified" THEN c \in held' ELSE c \in broke'
BY DEF Witness, Holding

\* The attempt that begins now has only the store to show.
LEMMA AttemptBegins ==
    ASSUME NEW s, ~Unverifiable(capture, s), UNCHANGED <<capture, cell>>,
           current' = s, phase' = "poll", DOMAIN recs' = {},
           Witness(ChecksOf(capture, s), cell, Nothing)
    PROVE  Evidence'
<1>1. Nothing.held \subseteq ChecksOf(capture, s)
    BY DEF Nothing
<1>2. held' \subseteq ChecksOf(capture, s)
      /\ \A c \in ChecksOf(capture, s) :
            IF Observe(c, cell) = "verified" THEN c \in held' ELSE c \in broke'
    BY <1>1, WitnessCovers
<1> QED
    BY <1>2 DEF Evidence, VerifiedWasTrue, SteadyStateIsVerified, UncertainAfterWindow, Seen

LEMMA EvidenceStep == Evidence /\ [Next]_vars => Evidence'
<1> SUFFICES ASSUME Evidence, [Next]_vars PROVE Evidence'
    OBVIOUS
<1>0. Window' = Window
    BY PolicyStays
<1> USE <1>0 DEF VerifiedWasTrue, SteadyStateIsVerified, UncertainAfterWindow, inputs
<1>1. ASSUME NEW i \in Items, NEW v \in Cells, Write(i, v) PROVE Evidence'
  <2>1. CASE phase = "poll"
    <3> DEFINE K == ChecksOf(capture, current)
    <3>1. Witness(K, cell', SoFar) /\ UNCHANGED <<capture, phase, current, recs>>
      BY <1>1, <2>1 DEF Write
    <3>2. SoFar.held = held /\ SoFar.broke = broke /\ held \subseteq K
      BY <2>1 DEF SoFar, Evidence
    <3>3. /\ held' \subseteq K /\ held \subseteq held' /\ broke \subseteq broke'
          /\ \A c \in K : IF Observe(c, cell') = "verified" THEN c \in held' ELSE c \in broke'
      BY <3>1, <3>2, WitnessCovers
    <3>4. \A c \in DOMAIN recs : IF recs[c] = "verified" THEN c \in held ELSE c \in broke
      BY <2>1 DEF Evidence, Seen
    <3>5. (\A c \in DOMAIN recs : Seen(c, recs[c]))'
      BY <3>1, <3>3, <3>4 DEF Seen
    <3>6. (phase = "poll" /\ ~Unverifiable(capture, current) /\ ChecksOf(capture, current) = K)'
      BY <2>1, <3>1 DEF Evidence
    <3>7. (\A c \in ChecksOf(capture, current) : Seen(c, Observe(c, cell)))'
      BY <3>1, <3>3 DEF Seen
    <3>8. (held \subseteq ChecksOf(capture, current))'
      BY <3>1, <3>3
    <3>9. (VerifiedWasTrue /\ SteadyStateIsVerified /\ UncertainAfterWindow)'
      BY <2>1, <3>1
    <3> HIDE DEF VerifiedWasTrue, SteadyStateIsVerified, UncertainAfterWindow
    <3> QED
      BY <2>1, <3>1, <3>5, <3>6, <3>7, <3>8, <3>9 DEF Evidence
  <2>2. CASE phase # "poll"
    BY <1>1, <2>2 DEF Write, Evidence, history, clock, Seen
  <2> QED
    BY <2>1, <2>2
<1>2. CASE Tick
    BY <1>2 DEF Tick, Evidence, history, Seen
<1>3. ASSUME NEW s, Reject(s) PROVE Evidence'
    BY <1>3 DEF Reject, Evidence, history, clock
<1>4. ASSUME NEW s, Begin(s) PROVE Evidence'
    BY <1>4, AttemptBegins DEF Begin
<1>5. ASSUME NEW c, Read(c) PROVE Evidence'
  <2>1. phase = "poll" /\ c \in ChecksOf(capture, current)
        /\ UNCHANGED <<cell, capture, phase, current, history>>
        /\ DOMAIN recs' = DOMAIN recs \cup {c}
        /\ \A d \in DOMAIN recs' : recs'[d] = IF d = c THEN Observe(c, cell) ELSE recs[d]
    BY <1>5 DEF Read
  <2>2. \A d \in DOMAIN recs' : Seen(d, recs'[d])
    BY <2>1 DEF Evidence
  <2> QED
    BY <2>1, <2>2 DEF Evidence, history, Seen
<1>6. CASE Settle
  <2> DEFINE K == ChecksOf(capture, current)
  <2>1. phase = "poll" /\ DOMAIN recs = K /\ phase' = "settled" /\ verdict' = Settled(recs)
        /\ UNCHANGED <<capture, current, recs, held, broke>>
    BY <1>6 DEF Settle, AllRead, End, history
  <2>2. verdict' = "verified" <=> \A c \in K : recs[c] = "verified"
    BY <2>1, SettledVerified
  <2>3. verdict' # "uncertain"
    BY <2>1, SettledDeterminate
  <2>4. held \subseteq K /\ \A c \in K : IF recs[c] = "verified" THEN c \in held ELSE c \in broke
    BY <2>1 DEF Evidence, Seen
  <2> QED
    BY <2>1, <2>2, <2>3, <2>4 DEF Evidence
<1>7. CASE GiveUp
  <2> DEFINE K == ChecksOf(capture, current)
  <2>1. phase = "poll" /\ DOMAIN recs = K /\ phase' = "settled" /\ verdict' = "uncertain"
        /\ elapsed >= Window /\ UNCHANGED <<capture, current, elapsed, broke>>
    BY <1>7 DEF GiveUp, AllRead, End, history, clock, WindowOver
  <2>2. K # {}
    BY <2>1, ChecksExist DEF Evidence
  <2>3. \A c \in K : recs[c] # "verified"
    BY <1>7, <2>1, PendingReadings DEF GiveUp
  <2>4. broke # {}
    BY <2>1, <2>2, <2>3 DEF Evidence, Seen
  <2> QED
    BY <2>1, <2>4 DEF Evidence
<1>8. CASE Sleep
    BY <1>8 DEF Sleep, AllRead, Evidence
<1>9. CASE Wake
  <2>1. DOMAIN recs' = {}
    BY <1>9 DEF Wake, Fresh
  <2> QED
    BY <1>9, <2>1, AttemptBegins DEF Wake, Evidence
<1>10. CASE Record
    BY <1>10 DEF Record, Evidence
<1>11. CASE Aggregate
    BY <1>11 DEF Aggregate, Evidence
<1>12. CASE UNCHANGED vars
    BY <1>12 DEF vars, Evidence, history, clock, Seen
<1> QED
    BY <1>1, <1>2, <1>3, <1>4, <1>5, <1>6, <1>7, <1>8, <1>9, <1>10, <1>11, <1>12 DEF Next, Run

\* Each check of a verified step held at some moment of its last attempt
\* (classifyMultiEffectAfterReconcile, computeMultiCheckRollupStatus).
THEOREM VerifiedSafe == Spec => []VerifiedWasTrue
<1>1. Evidence => VerifiedWasTrue
    BY DEF Evidence
<1> QED
    BY <1>1, EvidenceInit, EvidenceStep, PTL DEF Spec

\* A step whose checks all held during its last attempt is verified.
THEOREM SteadySafe == Spec => []SteadyStateIsVerified
<1>1. Evidence => SteadyStateIsVerified
    BY DEF Evidence
<1> QED
    BY <1>1, EvidenceInit, EvidenceStep, PTL DEF Spec

\* Uncertainty comes after the window, with a check that failed in the last attempt.
THEOREM UncertainSafe == Spec => []UncertainAfterWindow
<1>1. Evidence => UncertainAfterWindow
    BY DEF Evidence
<1> QED
    BY <1>1, EvidenceInit, EvidenceStep, PTL DEF Spec

-----------------------------------------------------------------------------
(* Types, and what each mode may report. *)

\* A step's status is one of those the rollup knows, whatever was read.
LEMMA SettledStatus ==
    ASSUME NEW readings, \A c \in DOMAIN readings : readings[c] \in Readings
    PROVE  Settled(readings) \in StepStatuses
BY DEF Settled, Rollup, StepStatuses

\* Absence alone is never a step's status where a later reading may put it right.
LEMMA SettledPresent ==
    ASSUME NEW readings, IsFiniteSet(DOMAIN readings), ~Pending(readings)
    PROVE  Settled(readings) # "missing"
<1> SUFFICES ASSUME Settled(readings) = "missing" PROVE FALSE
    OBVIOUS
<1>1. Rollup(readings) # "missing"
    BY DEF Rollup
<1>2. ~(Cardinality(DOMAIN readings) > 1) /\ With("missing", readings) # {}
    BY <1>1 DEF Settled
<1>3. PICK c \in DOMAIN readings : readings[c] = "missing"
    BY <1>2 DEF With
<1>4. Cardinality(DOMAIN readings) = 1
    BY <1>2, <1>3, FS_CardinalityType, FS_EmptySet
<1>5. \A d \in DOMAIN readings : d = c
    BY <1>3, <1>4, FS_Singleton
<1> QED
    BY <1>3, <1>5 DEF Pending, With

\* A step that can be verified has finitely many checks.
LEMMA ChecksFinite ==
    ASSUME NEW file, NEW s, ~Unverifiable(file, s)
    PROVE  IsFiniteSet(ChecksOf(file, s))
BY VerificationRunAssumption DEF VerificationRunAssumption, Unverifiable, ChecksOf

LEMMA ObserveType ==
    ASSUME NEW c, NEW cells PROVE Observe(c, cells) \in Readings
BY DEF Observe, Readings

\* TypeOK with what it rests on: the policy is a valid one, a step in progress is one of
\* the capture that can be read, and only a policy that polls sleeps.
TypeInv ==
    /\ TypeOK
    /\ policy \in Policies
    /\ phase \in {"poll", "sleep", "settled"} => current \in Seqs(capture)
    /\ phase \in {"poll", "sleep"} => ~Unverifiable(capture, current)
    /\ phase = "sleep" => Polls

LEMMA TypeInvInit == Init => TypeInv
<1> SUFFICES ASSUME Init PROVE TypeInv
    OBVIOUS
<1>1. policy \in Policies /\ Window \in Nat /\ Poll \in Nat
    BY PolicyNumbers DEF Init
<1>2. cell \in [Items -> Cells]
    BY DEF Init, Cells
<1> QED
    BY <1>1, <1>2 DEF Init, TypeInv, TypeOK

LEMMA TypeInvStep == TypeInv /\ [Next]_vars => TypeInv'
<1> SUFFICES ASSUME TypeInv, [Next]_vars PROVE TypeInv'
    OBVIOUS
<1>0. /\ policy' = policy /\ Window' = Window /\ Poll' = Poll
      /\ Mode' = Mode /\ (Polls' <=> Polls)
      /\ Window \in Nat /\ Poll \in Nat
    BY PolicyStays, PolicyNumbers DEF TypeInv, Mode, Polls
<1> USE <1>0 DEF TypeInv, TypeOK, inputs, clock, history
<1>1. ASSUME NEW i \in Items, NEW v \in Cells, Write(i, v) PROVE TypeInv'
    BY <1>1 DEF Write
<1>2. CASE Tick
    BY <1>2 DEF Tick
<1>3. ASSUME NEW s \in Seqs(capture), Reject(s) PROVE TypeInv'
    BY <1>3 DEF Reject, StepStatuses
<1>4. ASSUME NEW s \in Seqs(capture), Begin(s) PROVE TypeInv'
    BY <1>4 DEF Begin
<1>5. ASSUME NEW c, Read(c) PROVE TypeInv'
  <2>1. phase = "poll" /\ c \in ChecksOf(capture, current) /\ DOMAIN recs' = DOMAIN recs \cup {c}
        /\ \A d \in DOMAIN recs' : recs'[d] = IF d = c THEN Observe(c, cell) ELSE recs[d]
    BY <1>5 DEF Read
  <2>2. \A d \in DOMAIN recs' : recs'[d] \in Readings
    BY <2>1, ObserveType
  <2> QED
    BY <1>5, <2>1, <2>2 DEF Read
<1>6. CASE Settle
  <2>1. DOMAIN recs = ChecksOf(capture, current) /\ phase = "poll" /\ ~(Polls /\ Pending(recs))
        /\ verdict' = Settled(recs)
    BY <1>6 DEF Settle, AllRead, End
  <2>2. Settled(recs) \in StepStatuses \ {"uncertain"}
    BY SettledStatus, SettledDeterminate
  <2>3. Polls => Settled(recs) # "missing"
    BY <2>1, ChecksFinite, SettledPresent
  <2> QED
    BY <1>6, <2>1, <2>2, <2>3 DEF Settle, End, Polls
<1>7. CASE GiveUp
    BY <1>7 DEF GiveUp, AllRead, End, Polls, StepStatuses
<1>8. CASE Sleep
    BY <1>8 DEF Sleep, AllRead, WakeAt
<1>9. CASE Wake
    BY <1>9 DEF Wake, Fresh, Polls
<1>10. CASE Record
    BY <1>10 DEF Record
<1>11. CASE Aggregate
    BY <1>11 DEF Aggregate, WorkflowStatus
<1>12. CASE UNCHANGED vars
    BY <1>12 DEF vars
<1> QED
    BY <1>1, <1>2, <1>3, <1>4, <1>5, <1>6, <1>7, <1>8, <1>9, <1>10, <1>11, <1>12 DEF Next, Run

\* Every variable has its type; a strong run reads each step once and is never uncertain,
\* and one that polls never reports a row as missing.
THEOREM TypeCorrect == Spec => []TypeOK
<1>1. TypeInv => TypeOK
    BY DEF TypeInv
<1> QED
    BY <1>1, TypeInvInit, TypeInvStep, PTL DEF Spec

-----------------------------------------------------------------------------
(* The workflow status. *)

\* A verified step is one whose observations agree, and the result sums up what was
\* recorded for every step.
Recorded ==
    /\ phase = "settled" /\ verdict = "verified" => ~Unverifiable(capture, current)
    /\ phase = "settled" => verdict \in StepStatuses
    /\ outcomes \in [DOMAIN outcomes -> StepStatuses]
    /\ \A s \in DOMAIN outcomes : outcomes[s] = "verified" => ~Unverifiable(capture, s)
    /\ result # "none" => phase = "done"
    /\ result = "complete" =>
          /\ Seqs(capture) = DOMAIN outcomes
          /\ WorkflowStatus = "complete"

LEMMA RecordedInit == Init => Recorded
BY DEF Init, Recorded

LEMMA RecordedStep == TypeInv /\ Recorded /\ [Next]_vars => Recorded'
<1> SUFFICES ASSUME TypeInv, Recorded, [Next]_vars PROVE Recorded'
    OBVIOUS
<1> USE DEF Recorded, WorkflowStatus, RunLevelReasons, inputs
<1>1. ASSUME NEW i \in Items, NEW v \in Cells, Write(i, v) PROVE Recorded'
    BY <1>1 DEF Write
<1>2. CASE Tick
    BY <1>2 DEF Tick
<1>3. ASSUME NEW s, Reject(s) PROVE Recorded'
    BY <1>3 DEF Reject, StepStatuses
<1>4. ASSUME NEW s, Begin(s) PROVE Recorded'
    BY <1>4 DEF Begin
<1>5. ASSUME NEW c, Read(c) PROVE Recorded'
    BY <1>5 DEF Read
<1>6. CASE Settle
  <2>1. phase = "poll" /\ ~Unverifiable(capture, current) /\ Settled(recs) \in StepStatuses
    BY <1>6, SettledStatus DEF Settle, AllRead, TypeInv, TypeOK
  <2> QED
    BY <1>6, <2>1 DEF Settle, End
<1>7. CASE GiveUp
    BY <1>7 DEF GiveUp, AllRead, End, StepStatuses
<1>8. CASE Sleep
    BY <1>8 DEF Sleep, AllRead
<1>9. CASE Wake
    BY <1>9 DEF Wake
<1>10. CASE Record
    BY <1>10 DEF Record
<1>11. CASE Aggregate
  <2>1. phase = "plan" /\ Seqs(capture) = DOMAIN outcomes /\ phase' = "done"
        /\ result' = WorkflowStatus /\ UNCHANGED <<capture, outcomes>>
    BY <1>11 DEF Aggregate
  <2>2. WorkflowStatus' = WorkflowStatus
    BY <2>1
  <2> HIDE DEF WorkflowStatus
  <2> QED
    BY <2>1, <2>2
<1>12. CASE UNCHANGED vars
    BY <1>12 DEF vars
<1> QED
    BY <1>1, <1>2, <1>3, <1>4, <1>5, <1>6, <1>7, <1>8, <1>9, <1>10, <1>11, <1>12 DEF Next, Run

\* The observations of a step that can be verified repeat one call.
LEMMA SameCall ==
    ASSUME NEW file, NEW i \in Tools(file), NEW j \in Tools(file), file[j].seq = file[i].seq,
           ~Unverifiable(file, file[i].seq)
    PROVE  file[j].call = file[i].call
BY DEF Unverifiable, Divergent, Observations

\* What was recorded of a complete workflow.
LEMMA CompleteRecorded == Recorded => CompleteMeansVerified
<1> SUFFICES ASSUME Recorded, result = "complete"
             PROVE  /\ Tools(capture) # {}
                    /\ \A i \in DOMAIN capture : capture[i] # Malformed
                    /\ \A i \in Tools(capture) :
                          /\ outcomes[capture[i].seq] = "verified"
                          /\ \A j \in Tools(capture) : capture[j].seq = capture[i].seq
                                => capture[j].call = capture[i].call
    BY DEF CompleteMeansVerified
<1>1. /\ Seqs(capture) = DOMAIN outcomes /\ ~RunLevelReasons /\ outcomes # <<>>
      /\ \A s \in DOMAIN outcomes : outcomes[s] = "verified"
    BY DEF Recorded, WorkflowStatus, StepStatuses
<1>2. \A i \in Tools(capture) : capture[i].seq \in DOMAIN outcomes
    BY <1>1 DEF Seqs
<1>3. DOMAIN outcomes # {}
  <2>1. outcomes \in [DOMAIN outcomes -> StepStatuses]
    BY DEF Recorded
  <2> QED
    BY <1>1, <2>1
<1>4. Tools(capture) # {}
    BY <1>1, <1>3 DEF Seqs
<1>5. ASSUME NEW i \in Tools(capture), NEW j \in Tools(capture),
             capture[j].seq = capture[i].seq
      PROVE  capture[j].call = capture[i].call
    BY <1>1, <1>2, <1>5, SameCall DEF Recorded
<1> QED
    BY <1>1, <1>2, <1>4, <1>5 DEF RunLevelReasons

\* A complete workflow has a well-formed capture whose every tool observation repeats
\* the call its step was verified for (aggregateWorkflow, planLogicalSteps).
THEOREM CompleteSafe == Spec => []CompleteMeansVerified
<1>1. Spec => []TypeInv
    BY TypeInvInit, TypeInvStep, PTL DEF Spec
<1> QED
    BY <1>1, CompleteRecorded, RecordedInit, RecordedStep, PTL DEF Spec
=============================================================================
