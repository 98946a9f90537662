--------------------------- MODULE VerificationRun ---------------------------
(***************************************************************************)
(* One verification run of the kernel (src/src/pipeline.ts): the captured  *)
(* tool events are grouped into logical steps, each step's expectations    *)
(* are read from a store that others keep writing, and the step verdicts   *)
(* are rolled up into the workflow status.                                 *)
(*                                                                         *)
(* In strong mode a step is read once.  In eventual (and bounded) mode     *)
(* absence is not believed before a window has elapsed: the step is read   *)
(* again every poll interval (src/src/verificationPolicy.ts).              *)
(***************************************************************************)
EXTENDS Integers, Sequences, FiniteSets, FiniteSetsExt

CONSTANTS Items,         \* things the store may hold
          Calls,         \* a tool with its parameters
          Registry,      \* resolved calls: the checks each of them expects
          Captures,      \* event files, as sequences of lines of the workflow
          Malformed,     \* a line that is no event
          Control,       \* an event that is no tool observation
          Policies       \* verification policies a run may be given

Wants == {"row", "absent", "exists", "count"}
Checks == [item : Items, want : Wants]
Observed == [seq : Nat, call : Calls]
Lines == Observed \cup {Control, Malformed}

ASSUME VerificationRunAssumption ==
    /\ DOMAIN Registry \subseteq Calls
    /\ \A c \in DOMAIN Registry :
          Registry[c] \in SUBSET Checks /\ Registry[c] # {} /\ IsFiniteSet(Registry[c])
    /\ Control \notin Observed /\ Malformed \notin Observed \cup {Control}
    /\ Captures \subseteq Seq(Lines)
    /\ \A p \in Policies :
          /\ p.mode \in {"strong", "eventual", "bounded"}
          /\ IF p.mode = "strong" THEN p.window = 0 /\ p.poll = 0
             ELSE p.poll \in Nat \ {0} /\ p.window \in Nat /\ p.poll <= p.window

VARIABLES cell,                  \* the store: what each item holds
          capture, policy,       \* the event file and the policy of the run
          phase, current,        \* where the run is, and the seq it works on
          recs,                  \* what the attempt has read: check to status
          attempts,              \* reads of the whole step so far
          elapsed, wake,         \* time since the step began; end of the sleep
          verdict, outcomes,     \* of the current step; of the finished ones
          result,                \* the workflow status
          held, broke            \* history: see Witness

inputs == <<capture, policy>>
clock == <<elapsed, wake>>
history == <<held, broke>>
vars == <<cell, inputs, phase, current, recs, attempts, clock, verdict, outcomes,
          result, history>>

Mode == policy.mode       \* consistencyMode
Window == policy.window   \* verificationWindowMs
Poll == policy.poll       \* pollIntervalMs

\* "wrong" is a row without the expected value (for a row check, also one row too
\* many); "down" cannot be read.
Cells == {"none", "right", "wrong", "down"}

-----------------------------------------------------------------------------
(* Logical steps: planLogicalSteps. *)

\* The lines that are tool observations.
Tools(file) == {i \in DOMAIN file : file[i] \notin {Control, Malformed}}

\* They are grouped by seq, in capture order.
Observations(file, s) == {i \in Tools(file) : file[i].seq = s}

Seqs(file) == {file[i].seq : i \in Tools(file)}

Last(file, s) == file[Max(Observations(file, s))]

\* Mutant: only the first observation is compared with the last.
Divergent_FirstOnly(file, s) == file[Min(Observations(file, s))].call # Last(file, s).call

\* Retries of a step must repeat its call.
Divergent(file, s) ==
    \E i \in Observations(file, s) : file[i].call # Last(file, s).call

\* A divergent step, an unknown tool or a request that does not resolve.
Unverifiable(file, s) == Divergent(file, s) \/ Last(file, s).call \notin DOMAIN Registry

ChecksOf(file, s) == Registry[Last(file, s).call]

-----------------------------------------------------------------------------
(* Reading one check, and what the readings of a step amount to. *)

\* reconcileFromRows, reconcileSqlRowAbsent, reconcileRelationalRow.
Observe(c, cells) ==
    LET found == cells[c.item] IN
    CASE found = "down" -> "incomplete_verification"
      [] c.want = "row" /\ found = "none" -> "missing"
      [] c.want = "exists" /\ found \in {"none", "wrong"} -> "missing"
      [] c.want = "absent" /\ found \in {"right", "wrong"} -> "present_when_forbidden"
      [] c.want = "row" /\ found = "wrong" -> "inconsistent"
      [] c.want = "count" /\ found \in {"none", "wrong"} -> "inconsistent"
      [] OTHER -> "verified"

Readings == {"verified", "missing", "inconsistent", "incomplete_verification",
             "present_when_forbidden"}
StepStatuses == {"verified", "missing", "inconsistent", "incomplete_verification",
                 "partially_verified", "uncertain"}

With(status, readings) == {c \in DOMAIN readings : readings[c] = status}

\* Mutant: one verified effect suffices.
Rollup_AnyVerified(readings) ==
    IF With("incomplete_verification", readings) # {} THEN "incomplete_verification"
    ELSE IF With("verified", readings) # {} THEN "verified"
    ELSE "inconsistent"

\* computeMultiCheckRollupStatus.
Rollup(readings) ==
    IF With("incomplete_verification", readings) # {} THEN "incomplete_verification"
    ELSE IF With("verified", readings) = DOMAIN readings THEN "verified"
    ELSE IF With("verified", readings) = {} THEN "inconsistent"
    ELSE "partially_verified"

\* A single check reports its own status, several report their rollup.
Settled(readings) ==
    IF Cardinality(DOMAIN readings) > 1 THEN Rollup(readings)
    ELSE IF With("present_when_forbidden", readings) # {} THEN "inconsistent"
    ELSE IF With("missing", readings) # {} THEN "missing"
    ELSE Rollup(readings)

\* Mutant: only forbidden rows are waited for.
Pending_ForbiddenOnly(readings) == With("present_when_forbidden", readings) = DOMAIN readings

\* Absence, or a forbidden row: the readings a later one may put right.
Pending(readings) ==
    With("missing", readings) \cup With("present_when_forbidden", readings) = DOMAIN readings

\* Mutant: strong mode waits for absent rows as well.
Polls_EveryMode == TRUE

Polls == Mode # "strong"

\* Mutant: the window is over after one interval.
WindowOver_OneInterval == elapsed >= Poll

\* Mutant: the window never ends.
WindowOver_Never == elapsed > Window + Poll

WindowOver == elapsed >= Window

\* Mutant: the next attempt is due at once.
WakeAt_AtOnce == elapsed

WakeAt == elapsed + Poll

\* Mutant: an attempt goes on with the readings of the one before.
Fresh_Kept == recs

Fresh == <<>>

RunLevelReasons == Malformed \in {capture[i] : i \in DOMAIN capture}

\* aggregateWorkflow.
WorkflowStatus ==
    LET Some(statuses) == \E s \in DOMAIN outcomes : outcomes[s] \in statuses
    IN  IF RunLevelReasons \/ outcomes = <<>> \/ Some({"incomplete_verification"})
        THEN "incomplete"
        ELSE IF Some({"missing", "inconsistent", "partially_verified"}) THEN "inconsistent"
        ELSE IF Some({"uncertain"}) THEN "incomplete"
        ELSE "complete"

-----------------------------------------------------------------------------
(* History of the attempt: the checks that held at some moment since it    *)
(* began and those that failed at some moment.  The program does not keep  *)
(* it; the properties compare verdicts with it.                            *)

Holding(checks, cells) == {c \in checks : Observe(c, cells) = "verified"}

Witness(checks, cells, before) ==
    /\ held' = before.held \cup Holding(checks, cells)
    /\ broke' = before.broke \cup (checks \ Holding(checks, cells))

Nothing == [held |-> {}, broke |-> {}]
SoFar == [held |-> held, broke |-> broke]

-----------------------------------------------------------------------------
Init ==
    /\ cell \in [Items -> {"none", "right"}]
    /\ capture \in Captures /\ policy \in Policies
    /\ phase = "plan" /\ current = 0
    /\ recs = <<>> /\ attempts = 0 /\ elapsed = 0 /\ wake = 0
    /\ verdict = "none" /\ outcomes = <<>> /\ result = "none"
    /\ held = {} /\ broke = {}

\* Replication, other writers, an outage of the store.
Write(i, v) ==
    /\ phase # "done" /\ cell[i] # v
    /\ cell' = [cell EXCEPT ![i] = v]
    /\ IF phase = "poll" THEN Witness(ChecksOf(capture, current), cell', SoFar)
       ELSE UNCHANGED history
    /\ UNCHANGED <<inputs, phase, current, recs, attempts, clock, verdict, outcomes, result>>

\* Time counts only against the window and the end of a sleep: no sleep ends later
\* than Window + Poll, so the clock of a step stops there.
Tick ==
    /\ phase \in {"poll", "sleep"} /\ elapsed < Window + Poll
    /\ elapsed' = elapsed + 1
    /\ UNCHANGED <<cell, inputs, phase, current, recs, attempts, wake, verdict, outcomes,
                   result, history>>

\* Steps are taken in the order of their seq.
NextSeq(s) ==
    /\ s \in Seqs(capture) \ DOMAIN outcomes
    /\ \A t \in Seqs(capture) \ DOMAIN outcomes : s <= t

\* A step that is not read: buildDivergentStepOutcome, unknown tool, no request.
Reject(s) ==
    /\ phase = "plan" /\ NextSeq(s) /\ Unverifiable(capture, s)
    /\ current' = s /\ phase' = "settled" /\ verdict' = "incomplete_verification"
    /\ recs' = <<>> /\ attempts' = 0
    /\ UNCHANGED <<cell, inputs, clock, outcomes, result, history>>

Begin(s) ==
    /\ phase = "plan" /\ NextSeq(s) /\ ~Unverifiable(capture, s)
    /\ current' = s /\ phase' = "poll" /\ recs' = <<>> /\ attempts' = 1
    /\ elapsed' = 0 /\ wake' = 0
    /\ Witness(ChecksOf(capture, s), cell, Nothing)
    /\ UNCHANGED <<cell, inputs, verdict, outcomes, result>>

\* One read; those of a step are issued together and return in any order.
Read(c) ==
    /\ phase = "poll" /\ c \in ChecksOf(capture, current) \ DOMAIN recs
    /\ recs' = [d \in DOMAIN recs \cup {c} |-> IF d = c THEN Observe(c, cell) ELSE recs[d]]
    /\ UNCHANGED <<cell, inputs, phase, current, attempts, clock, verdict, outcomes, result,
                   history>>

AllRead == phase = "poll" /\ DOMAIN recs = ChecksOf(capture, current)

End(status) ==
    /\ verdict' = status /\ phase' = "settled"
    /\ UNCHANGED <<cell, inputs, current, recs, attempts, clock, outcomes, result, history>>

Settle == AllRead /\ ~(Polls /\ Pending(recs)) /\ End(Settled(recs))

GiveUp == AllRead /\ Polls /\ Pending(recs) /\ WindowOver /\ End("uncertain")

Sleep ==
    /\ AllRead /\ Polls /\ Pending(recs) /\ ~WindowOver
    /\ phase' = "sleep" /\ wake' = WakeAt
    /\ UNCHANGED <<cell, inputs, current, recs, attempts, elapsed, verdict, outcomes, result,
                   history>>

Wake ==
    /\ phase = "sleep" /\ elapsed >= wake
    /\ phase' = "poll" /\ recs' = Fresh /\ attempts' = attempts + 1
    /\ Witness(ChecksOf(capture, current), cell, Nothing)
    /\ UNCHANGED <<cell, inputs, current, clock, verdict, outcomes, result>>

Record ==
    /\ phase = "settled"
    /\ outcomes' = [s \in DOMAIN outcomes \cup {current} |->
                      IF s = current THEN verdict ELSE outcomes[s]]
    /\ phase' = "plan" /\ verdict' = "none" /\ recs' = <<>>
    /\ held' = {} /\ broke' = {}
    /\ UNCHANGED <<cell, inputs, current, attempts, clock, result>>

Aggregate ==
    /\ phase = "plan" /\ Seqs(capture) = DOMAIN outcomes
    /\ result' = WorkflowStatus /\ phase' = "done"
    /\ UNCHANGED <<cell, inputs, current, recs, attempts, clock, verdict, outcomes, history>>

Run ==
    \/ \E s \in Seqs(capture) : Reject(s) \/ Begin(s)
    \/ phase = "poll" /\ \E c \in ChecksOf(capture, current) : Read(c)
    \/ Settle
    \/ GiveUp
    \/ Sleep
    \/ Wake
    \/ Record
    \/ Aggregate

Next ==
    \/ \E i \in Items, v \in Cells : Write(i, v)
    \/ Tick
    \/ Run

Spec == Init /\ [][Next]_vars

\* The event loop keeps running the program and the clock advances.  The store
\* owes nothing: it may change, or stay down, for ever.
Fairness == WF_vars(Run) /\ WF_vars(Tick)
FairSpec == Spec /\ Fairness
-----------------------------------------------------------------------------
(* Properties. *)

\* Types.  A strong run reads each step once and is never uncertain; one that
\* polls never reports a row as missing (docs/agentskeptic.md).
TypeOK ==
    /\ cell \in [Items -> Cells]
    /\ phase \in {"plan", "poll", "sleep", "settled", "done"}
    /\ phase \in {"poll", "sleep"} => DOMAIN recs \subseteq ChecksOf(capture, current)
    /\ \A c \in DOMAIN recs : recs[c] \in Readings
    /\ attempts \in Nat /\ wake \in Nat /\ elapsed \in 0 .. Window + Poll
    /\ verdict \in (StepStatuses \cup {"none"}) \ {IF Mode # "strong" THEN "missing" ELSE "uncertain"}
    /\ Mode = "strong" => attempts <= 1
    /\ DOMAIN outcomes \subseteq Seqs(capture)
    /\ result \in {"none", "complete", "inconsistent", "incomplete"}

\* A step is verified only if each of its checks held at some moment of the last
\* attempt: no reading of an earlier attempt, and no effect, is taken for granted.
VerifiedWasTrue ==
    phase = "settled" /\ verdict = "verified" => held = ChecksOf(capture, current)

\* A step whose checks all held while the last attempt ran is verified, whatever
\* the earlier attempts saw.
SteadyStateIsVerified ==
    phase = "settled" /\ ~Unverifiable(capture, current) /\ broke = {} => verdict = "verified"

\* Uncertainty is reported only once the window has elapsed, and only if some check
\* still failed at some moment of the last attempt.
UncertainAfterWindow ==
    phase = "settled" /\ verdict = "uncertain" => elapsed >= Window /\ broke # {}

\* The number of attempts is bounded by the policy, however the store behaves: the
\* last one but one began before the window ended.
AttemptsBounded == attempts >= 2 => (attempts - 2) * Poll < Window

\* A complete workflow has a well-formed capture with at least one tool observation,
\* and each of them repeats the call its step was verified for.
CompleteMeansVerified ==
    result = "complete" =>
        /\ Tools(capture) # {}
        /\ \A i \in DOMAIN capture : capture[i] # Malformed
        /\ \A i \in Tools(capture) :
              /\ outcomes[capture[i].seq] = "verified"
              /\ \A j \in Tools(capture) :
                    capture[j].seq = capture[i].seq => capture[j].call = capture[i].call

\* The run ends, even if the store never converges or never answers well.
RunFinishes == phase # "done" ~> phase = "done"
=============================================================================
