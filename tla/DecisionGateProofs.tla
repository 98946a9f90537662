------------------------- MODULE DecisionGateProofs -------------------------
(***************************************************************************)
(* A gate lets an action through, or refuses it, for what the kernel saw   *)
(* since it was asked: for every registry, policy, store and buffer.       *)
(***************************************************************************)
EXTENDS DecisionGate, VerificationRunProofs, WellFoundedInduction

-----------------------------------------------------------------------------
(* The buffer as the kernel's capture. *)

\* Some place of a sequence is the last of a set of them.
LEMMA LastPosition ==
    ASSUME NEW n \in Nat, NEW S \in SUBSET (1 .. n), S # {}
    PROVE  Max(S) \in S
<1> DEFINE Less == {p \in Nat \X Nat : p[1] < p[2]}
           D == {n - i : i \in S}
<1>1. IsWellFoundedOn(Less, Nat)
    BY NatLessThanWellFounded DEF OpToRel
<1>2. D \subseteq Nat /\ D # {}
  <2>1. \A i \in S : i \in Nat /\ n - i \in Nat
      OBVIOUS
  <2> QED
      BY <2>1
<1>3. PICK d \in D : \A m \in D : ~(<<m, d>> \in Less)
  <2> HIDE DEF D, Less
  <2> QED
      BY <1>1, <1>2, WFMin
<1>4. PICK i \in S : d = n - i
    BY <1>3
<1>5. ASSUME NEW j \in S PROVE i >= j
  <2>1. PICK m \in D : m = n - j
      OBVIOUS
  <2>2. m \in Nat /\ d \in Nat /\ i \in Nat /\ j \in Nat
      BY <1>2, <2>1
  <2>3. <<m, d>> \in Nat \X Nat /\ <<m, d>>[1] = m /\ <<m, d>>[2] = d
      BY <2>2
  <2>4. ~(m < d)
      BY <1>3, <2>3
  <2> QED
      BY <1>4, <2>1, <2>2, <2>4
<1> QED
    BY <1>5 DEF Max

\* The snapshot shows the kernel the tool events of the buffer, at their places, and
\* whether anything malformed was appended.
LEMMA SnapshotLines ==
    ASSUME NEW events \in Seq(GateEvents), NEW reasons \in BOOLEAN
    PROVE  LET file == Snapshot(events, reasons) IN
           /\ Tools(file) = ToolEvents(events)
           /\ \A i \in ToolEvents(events) :
                 file[i].seq = events[i].seq /\ file[i].call = events[i].call
           /\ (\E i \in DOMAIN file : file[i] = Malformed) <=> reasons
<1> DEFINE lines == [i \in 1 .. Len(events) |-> LineOf(events[i])]
           file == Snapshot(events, reasons)
<1>1. \A i \in 1 .. Len(events) :
         /\ events[i].type = "tool_observed" =>
               /\ LineOf(events[i]) \notin {Control, Malformed}
               /\ LineOf(events[i]).seq = events[i].seq
               /\ LineOf(events[i]).call = events[i].call
         /\ events[i].type # "tool_observed" => LineOf(events[i]) = Control
         /\ LineOf(events[i]) # Malformed
  <2> SUFFICES ASSUME NEW i \in 1 .. Len(events)
               PROVE  /\ events[i].type = "tool_observed" =>
                            /\ LineOf(events[i]) \notin {Control, Malformed}
                            /\ LineOf(events[i]).seq = events[i].seq
                            /\ LineOf(events[i]).call = events[i].call
                      /\ events[i].type # "tool_observed" => LineOf(events[i]) = Control
                      /\ LineOf(events[i]) # Malformed
      OBVIOUS
  <2>1. events[i] \in GateEvents
      OBVIOUS
  <2>2. events[i].seq \in Nat /\ events[i].call \in Calls
      BY <2>1, GateAssumption DEF GateAssumption
  <2>3. [seq |-> events[i].seq, call |-> events[i].call] \in Observed
      BY <2>2 DEF Observed
  <2> QED
      BY <2>3, VerificationRunAssumption DEF VerificationRunAssumption, LineOf
<1>2. lines \in Seq({LineOf(events[i]) : i \in 1 .. Len(events)}) /\ Len(lines) = Len(events)
    OBVIOUS
<1>3. file = IF reasons THEN Append(lines, Malformed) ELSE lines
    BY DEF Snapshot
<1>4. /\ DOMAIN file = IF reasons THEN 1 .. Len(events) + 1 ELSE 1 .. Len(events)
      /\ \A i \in 1 .. Len(events) : file[i] = LineOf(events[i])
      /\ reasons => file[Len(events) + 1] = Malformed
  <2>1. CASE reasons
      BY <1>2, <1>3, <2>1
  <2>2. CASE ~reasons
      BY <1>2, <1>3, <2>2
  <2> QED
      BY <2>1, <2>2
<1>5. DOMAIN events = 1 .. Len(events) /\ Len(events) \in Nat
    OBVIOUS
<1> HIDE DEF file, lines
<1>6. Tools(file) = ToolEvents(events)
    BY <1>1, <1>4, <1>5 DEF Tools, ToolEvents
<1>7. \A i \in ToolEvents(events) :
         file[i].seq = events[i].seq /\ file[i].call = events[i].call
    BY <1>1, <1>4, <1>5 DEF ToolEvents
<1>8. (\E i \in DOMAIN file : file[i] = Malformed) <=> reasons
    BY <1>1, <1>4, <1>5
<1> QED
    BY <1>6, <1>7, <1>8 DEF file

\* A step that can be verified is one of the buffer's known calls: each of its tool
\* events makes it, and its checks are among those that are followed.
LEMMA StepChecks ==
    ASSUME NEW events \in Seq(GateEvents), NEW reasons \in BOOLEAN,
           NEW s \in Seqs(Snapshot(events, reasons)), ~Unverifiable(Snapshot(events, reasons), s)
    PROVE  LET checks == ChecksOf(Snapshot(events, reasons), s) IN
           /\ checks \subseteq ChecksIn(events)
           /\ \A i \in ToolEvents(events) : events[i].seq = s =>
                 events[i].call \in DOMAIN Registry /\ Registry[events[i].call] = checks
           /\ \E i \in ToolEvents(events) : events[i].seq = s
<1> DEFINE file == Snapshot(events, reasons)
           checks == ChecksOf(file, s)
<1>1. /\ Tools(file) = ToolEvents(events)
      /\ \A i \in ToolEvents(events) :
            file[i].seq = events[i].seq /\ file[i].call = events[i].call
    BY SnapshotLines
<1>2. ~Unverifiable(file, s) /\ s \in Seqs(file)
    OBVIOUS
<1> HIDE DEF file
<1>3. \A i \in Tools(file) : file[i].seq = s => file[i].call = Last(file, s).call
    BY <1>2 DEF Unverifiable, Divergent, Observations
<1>4. Last(file, s).call \in DOMAIN Registry /\ checks = Registry[Last(file, s).call]
    BY <1>2 DEF Unverifiable, ChecksOf
<1>5. \A i \in ToolEvents(events) : events[i].seq = s =>
         events[i].call \in DOMAIN Registry /\ Registry[events[i].call] = checks
    BY <1>1, <1>3, <1>4
<1>6. PICK i \in ToolEvents(events) : events[i].seq = s
    BY <1>1, <1>2 DEF Seqs
<1>7. checks \subseteq ChecksIn(events)
    BY <1>5, <1>6 DEF ChecksIn
<1> QED
    BY <1>5, <1>6, <1>7 DEF file

-----------------------------------------------------------------------------
(* The kernel behind the gate. *)

KernelInv == TypeInv /\ Evidence /\ Recorded

LEMMA KernelStep == KernelInv /\ [Next]_vars => KernelInv'
BY TypeInvStep, EvidenceStep, RecordedStep DEF KernelInv

\* The history of the attempt goes on with the store as the step leaves it, or starts
\* anew with it, or is dropped.
LEMMA HistoryStep ==
    ASSUME KernelInv, [Next]_vars
    PROVE  LET checks == ChecksOf(capture, current') IN
           \/ held' = {} /\ broke' = {}
           \/ held' = held /\ broke' = broke
           \/ /\ current' \in Seqs(capture) /\ ~Unverifiable(capture, current')
              /\ held' \subseteq held \cup Holding(checks, cell')
              /\ broke' \subseteq broke \cup (checks \ Holding(checks, cell'))
<1> USE DEF inputs, history
<1>1. ASSUME NEW i \in Items, NEW v \in Cells, Write(i, v)
      PROVE  LET checks == ChecksOf(capture, current') IN
             \/ held' = held /\ broke' = broke
             \/ /\ current' \in Seqs(capture) /\ ~Unverifiable(capture, current')
                /\ held' \subseteq held \cup Holding(checks, cell')
                /\ broke' \subseteq broke \cup (checks \ Holding(checks, cell'))
    BY <1>1 DEF Write, Witness, SoFar, KernelInv, TypeInv
<1>2. CASE \/ Tick \/ Settle \/ GiveUp \/ Sleep \/ Aggregate \/ UNCHANGED vars
           \/ \E s : Reject(s) \/ \E c : Read(c)
    BY <1>2 DEF Tick, Settle, GiveUp, End, Sleep, Aggregate, Reject, Read, vars
<1>3. ASSUME NEW s \in Seqs(capture), Begin(s)
      PROVE  LET checks == ChecksOf(capture, current') IN
             /\ current' \in Seqs(capture) /\ ~Unverifiable(capture, current')
             /\ held' \subseteq held \cup Holding(checks, cell')
             /\ broke' \subseteq broke \cup (checks \ Holding(checks, cell'))
    BY <1>3 DEF Begin, Witness, Nothing
<1>4. ASSUME Wake
      PROVE  LET checks == ChecksOf(capture, current') IN
             /\ current' \in Seqs(capture) /\ ~Unverifiable(capture, current')
             /\ held' \subseteq held \cup Holding(checks, cell')
             /\ broke' \subseteq broke \cup (checks \ Holding(checks, cell'))
    BY <1>4 DEF Wake, Witness, Nothing, KernelInv, TypeInv
<1>5. CASE Record
    BY <1>5 DEF Record
<1> QED
    BY <1>1, <1>2, <1>3, <1>4, <1>5 DEF Next, Run

\* Between steps there is no history, and the checks that failed are those of the step.
Attempted ==
    /\ phase \in {"plan", "done"} => held = {} /\ broke = {}
    /\ phase \in {"poll", "sleep", "settled"} => broke \subseteq ChecksOf(capture, current)

LEMMA AttemptedStep == KernelInv /\ Attempted /\ [Next]_vars => Attempted'
<1> SUFFICES ASSUME KernelInv, Attempted, [Next]_vars PROVE Attempted'
    OBVIOUS
<1> USE DEF inputs, history, Attempted
<1>1. ASSUME NEW i \in Items, NEW v \in Cells, Write(i, v) PROVE Attempted'
    BY <1>1 DEF Write, Witness, SoFar
<1>2. CASE \/ Tick \/ Settle \/ GiveUp \/ Sleep \/ Aggregate \/ UNCHANGED vars
           \/ \E c : Read(c)
    BY <1>2 DEF Tick, Settle, GiveUp, AllRead, End, Sleep, Aggregate, Read, vars
<1>3. ASSUME NEW s, Reject(s) PROVE Attempted'
    BY <1>3 DEF Reject
<1>4. ASSUME NEW s, Begin(s) PROVE Attempted'
    BY <1>4 DEF Begin, Witness, Nothing
<1>5. CASE Wake
    BY <1>5 DEF Wake, Witness, Nothing
<1>6. CASE Record
    BY <1>6 DEF Record
<1> QED
    BY <1>1, <1>2, <1>3, <1>4, <1>5, <1>6 DEF Next, Run

\* The outcome of a step, new or recorded before.
LEMMA OutcomesStep ==
    ASSUME KernelInv, [Next]_vars
    PROVE  /\ policy' = policy /\ capture' = capture
           /\ \/ outcomes' = outcomes
              \/ /\ phase = "settled"
                 /\ outcomes' = [s \in DOMAIN outcomes \cup {current} |->
                                   IF s = current THEN verdict ELSE outcomes[s]]
BY DEF Next, Run, vars, inputs, Write, Tick, Reject, Begin, Read, Settle, GiveUp, End, Sleep,
       Wake, Record, Aggregate

\* Once it is done, the run has a status of every step.
LEMMA DoneStep ==
    ASSUME KernelInv, [Next]_vars,
           phase = "done" => result = WorkflowStatus /\ Seqs(capture) = DOMAIN outcomes
    PROVE  phase' = "done" =>
              result' = WorkflowStatus' /\ Seqs(capture') = DOMAIN outcomes'
<1> USE DEF WorkflowStatus, RunLevelReasons, inputs
<1>1. ASSUME NEW i \in Items, NEW v \in Cells, Write(i, v)
      PROVE  phase' # "done"
    BY <1>1 DEF Write
<1>2. CASE UNCHANGED vars
    BY <1>2 DEF vars
<1>3. CASE Aggregate
  <2>1. Seqs(capture) = DOMAIN outcomes /\ result' = WorkflowStatus
        /\ capture' = capture /\ outcomes' = outcomes
    BY <1>3 DEF Aggregate
  <2>2. WorkflowStatus' = WorkflowStatus
    BY <2>1
  <2> HIDE DEF WorkflowStatus
  <2> QED
    BY <2>1, <2>2
<1>4. CASE Tick \/ Settle \/ GiveUp \/ Sleep \/ Wake \/ Record
    BY <1>4 DEF Tick, Settle, GiveUp, AllRead, End, Sleep, Wake, Record
<1>5. ASSUME NEW s, Reject(s) \/ Begin(s) PROVE phase' # "done"
    BY <1>5 DEF Reject, Begin
<1>6. ASSUME NEW c, Read(c) PROVE phase' # "done"
    BY <1>6 DEF Read
<1> QED
    BY <1>1, <1>2, <1>3, <1>4, <1>5, <1>6 DEF Next, Run

-----------------------------------------------------------------------------
(* The gate while the kernel runs. *)

\* A status is backed by what was seen since the gate was asked.
Justified(s, status) ==
    IF status = "verified"
    THEN ~Unverifiable(capture, s) /\ ChecksOf(capture, s) \subseteq trueSince
    ELSE Unverifiable(capture, s) \/ ChecksOf(capture, s) \cap falseSince # {}

\* The kernel works on what the gate was asked about, and what it has seen and recorded
\* was so since.
Evaluation ==
    /\ capture = Snapshot(asserted.events, asserted.malformed)
    /\ kind = "langgraph" =>
          /\ ~asserted.malformed /\ ToolEvents(asserted.events) # {}
          /\ \A i \in ToolEvents(asserted.events) : asserted.events[i].wire = 3
    /\ held \subseteq trueSince /\ broke \subseteq falseSince
    /\ \A s \in DOMAIN outcomes : Justified(s, outcomes[s])
    /\ phase = "done" => result = WorkflowStatus /\ Seqs(capture) = DOMAIN outcomes

GateInv ==
    /\ KernelInv /\ Attempted
    /\ buffer \in Seq(GateEvents) /\ malformed \in BOOLEAN
    /\ asserted.events \in Seq(GateEvents) /\ asserted.malformed \in BOOLEAN
    /\ IF gate = "evaluating" THEN Evaluation ELSE phase = "done"
    /\ ReleasedWasVerified /\ BlockedForCause

\* The status of a finished step is backed by the history of its attempt.
LEMMA VerdictJustified ==
    ASSUME KernelInv, Attempted, Evaluation, phase = "settled"
    PROVE  Justified(current, verdict)
<1>1. CASE verdict = "verified"
  <2>1. ~Unverifiable(capture, current) /\ held = ChecksOf(capture, current)
      BY <1>1 DEF KernelInv, Recorded, Evidence, VerifiedWasTrue
  <2> QED
      BY <1>1, <2>1 DEF Justified, Evaluation
<1>2. CASE verdict # "verified"
  <2>1. Unverifiable(capture, current) \/ broke # {}
      BY <1>2 DEF KernelInv, Evidence, SteadyStateIsVerified
  <2>2. broke \subseteq ChecksOf(capture, current) /\ broke \subseteq falseSince
      BY DEF Attempted, Evaluation
  <2> QED
      BY <1>2, <2>1, <2>2 DEF Justified
<1> QED
    BY <1>1, <1>2

\* A step of the kernel, of the clock or of the store keeps the evaluation going.
LEMMA EvaluatingStep ==
    ASSUME GateInv, Evaluating(Next)
    PROVE  Evaluation'
<1> DEFINE K == ChecksIn(asserted.events)
           C == ChecksOf(capture, current')
<1>1. /\ KernelInv /\ Attempted /\ Evaluation /\ [Next]_vars
      /\ UNCHANGED <<kind, asserted>>
      /\ trueSince' = trueSince \cup Holding(K, cell')
      /\ falseSince' = falseSince \cup (K \ Holding(K, cell'))
    BY DEF Evaluating, GateInv, Follow
<1>2. capture' = capture /\ capture = Snapshot(asserted.events, asserted.malformed)
    BY <1>1, OutcomesStep DEF Evaluation
<1>3. held' \subseteq trueSince' /\ broke' \subseteq falseSince'
  <2>1. CASE held' = {} /\ broke' = {}
      BY <2>1
  <2>2. CASE held' = held /\ broke' = broke
      BY <1>1, <2>2 DEF Evaluation
  <2>3. CASE /\ current' \in Seqs(capture) /\ ~Unverifiable(capture, current')
             /\ held' \subseteq held \cup Holding(C, cell')
             /\ broke' \subseteq broke \cup (C \ Holding(C, cell'))
    <3>1. PICK events \in Seq(GateEvents), reasons \in BOOLEAN, s \in {current'} :
            events = asserted.events /\ reasons = asserted.malformed /\ s = current'
        BY DEF GateInv
    <3>2. ChecksOf(Snapshot(events, reasons), s) \subseteq ChecksIn(events)
        BY <1>2, <2>3, <3>1, StepChecks
    <3>3. C \subseteq K
        BY <1>2, <3>1, <3>2
    <3>4. Holding(C, cell') \subseteq Holding(K, cell')
          /\ C \ Holding(C, cell') \subseteq K \ Holding(K, cell')
        BY <3>3 DEF Holding
    <3> HIDE DEF K, C
    <3> QED
        BY <1>1, <2>3, <3>4 DEF Evaluation
  <2> QED
      BY <1>1, <2>1, <2>2, <2>3, HistoryStep
<1>4. ASSUME NEW s, NEW status, Justified(s, status)
      PROVE  IF status = "verified"
             THEN ~Unverifiable(capture', s) /\ ChecksOf(capture', s) \subseteq trueSince'
             ELSE Unverifiable(capture', s) \/ ChecksOf(capture', s) \cap falseSince' # {}
    BY <1>1, <1>2, <1>4 DEF Justified
<1>5. \A s \in DOMAIN outcomes' : Justified(s, outcomes[s])'
  <2>1. CASE outcomes' = outcomes
      BY <1>1, <1>4, <2>1 DEF Evaluation, Justified
  <2>2. CASE /\ phase = "settled"
             /\ outcomes' = [s \in DOMAIN outcomes \cup {current} |->
                               IF s = current THEN verdict ELSE outcomes[s]]
    <3>1. \A s \in DOMAIN outcomes' : Justified(s, outcomes'[s])
        BY <1>1, <2>2, VerdictJustified DEF Evaluation
    <3> QED
        BY <1>4, <3>1 DEF Justified
  <2> QED
      BY <1>1, <2>1, <2>2, OutcomesStep
<1>6. (phase = "done" => result = WorkflowStatus /\ Seqs(capture) = DOMAIN outcomes)'
    BY <1>1, DoneStep DEF Evaluation
<1>7. (capture = Snapshot(asserted.events, asserted.malformed))'
    BY <1>1, <1>2
<1>8. (kind = "langgraph" =>
          /\ ~asserted.malformed /\ ToolEvents(asserted.events) # {}
          /\ \A i \in ToolEvents(asserted.events) : asserted.events[i].wire = 3)'
    BY <1>1 DEF Evaluation
<1> QED
    BY <1>3, <1>5, <1>6, <1>7, <1>8 DEF Evaluation

-----------------------------------------------------------------------------
(* The decision. *)

LEMMA ReleaseJustified ==
    ASSUME GateInv, gate = "evaluating", phase = "done", Safe
    PROVE  /\ ~asserted.malformed
           /\ ToolEvents(asserted.events) # {}
           /\ \A i \in ToolEvents(asserted.events) :
                 /\ asserted.events[i].call \in DOMAIN Registry
                 /\ Called(asserted.events[i]) \subseteq trueSince
                 /\ kind = "langgraph" => asserted.events[i].wire = 3
<1>1. PICK events \in Seq(GateEvents), reasons \in BOOLEAN :
        events = asserted.events /\ reasons = asserted.malformed
    BY DEF GateInv
<1>2. CompleteMeansVerified /\ result = "complete" /\ Evaluation /\ Recorded
    BY CompleteRecorded DEF GateInv, KernelInv, Safe
<1>3. capture = Snapshot(events, reasons) /\ Seqs(capture) = DOMAIN outcomes
    BY <1>1, <1>2 DEF Evaluation
<1>4. /\ Tools(capture) = ToolEvents(events)
      /\ \A i \in ToolEvents(events) : capture[i].seq = events[i].seq
      /\ (\E i \in DOMAIN capture : capture[i] = Malformed) <=> reasons
    BY <1>3, SnapshotLines
<1>5. ASSUME NEW i \in ToolEvents(events)
      PROVE  /\ events[i].call \in DOMAIN Registry
             /\ Registry[events[i].call] \subseteq trueSince
  <2>1. PICK s : s = events[i].seq /\ s \in Seqs(capture)
      BY <1>4 DEF Seqs
  <2>2. outcomes[s] = "verified"
      BY <1>2, <1>4, <2>1 DEF CompleteMeansVerified
  <2>3. ~Unverifiable(capture, s) /\ ChecksOf(capture, s) \subseteq trueSince
      BY <1>2, <1>3, <2>1, <2>2 DEF Evaluation, Justified
  <2>4. events[i].call \in DOMAIN Registry /\ Registry[events[i].call] = ChecksOf(capture, s)
    <3>1. \A e \in Seq(GateEvents), m \in BOOLEAN :
             s \in Seqs(Snapshot(e, m)) /\ ~Unverifiable(Snapshot(e, m), s) =>
               \A j \in ToolEvents(e) : e[j].seq = s =>
                  e[j].call \in DOMAIN Registry
                  /\ Registry[e[j].call] = ChecksOf(Snapshot(e, m), s)
        BY StepChecks
    <3> QED
        BY <1>3, <2>1, <2>3, <3>1
  <2> QED
      BY <2>3, <2>4
<1> QED
    BY <1>1, <1>2, <1>4, <1>5 DEF CompleteMeansVerified, Called, Evaluation

LEMMA BlockJustified ==
    ASSUME GateInv, gate = "evaluating", phase = "done", ~Safe
    PROVE  LET events == asserted.events
               tools == ToolEvents(events)
           IN  \/ asserted.malformed \/ tools = {}
               \/ \E i, j \in tools :
                     events[i].seq = events[j].seq /\ events[i].call # events[j].call
               \/ \E i \in tools :
                     \/ events[i].call \notin DOMAIN Registry
                     \/ Called(events[i]) \cap falseSince # {}
<1>1. PICK events \in Seq(GateEvents), reasons \in BOOLEAN :
        events = asserted.events /\ reasons = asserted.malformed
    BY DEF GateInv
<1>2. Evaluation /\ Recorded /\ result = WorkflowStatus /\ Seqs(capture) = DOMAIN outcomes
      /\ capture = Snapshot(events, reasons)
    BY <1>1 DEF GateInv, KernelInv, Evaluation
<1>3. /\ Tools(capture) = ToolEvents(events)
      /\ \A i \in ToolEvents(events) :
            capture[i].seq = events[i].seq /\ capture[i].call = events[i].call
      /\ (\E i \in DOMAIN capture : capture[i] = Malformed) <=> reasons
    BY <1>2, SnapshotLines
<1>4. RunLevelReasons <=> reasons
    BY <1>3 DEF RunLevelReasons
<1>5. CASE outcomes = <<>>
  <2>1. Seqs(capture) = {}
      BY <1>2, <1>5
  <2> QED
      BY <1>1, <1>3, <2>1 DEF Seqs
<1>6. CASE RunLevelReasons
    BY <1>1, <1>4, <1>6
<1>7. CASE outcomes # <<>> /\ ~RunLevelReasons
  <2>1. \E s \in DOMAIN outcomes : outcomes[s] # "verified"
    <3>1. CASE result # "complete"
        BY <1>2, <1>7, <3>1 DEF WorkflowStatus
    <3>2. CASE result = "complete"
        BY <1>7, <3>2 DEF Safe
    <3> QED
        BY <3>1, <3>2
  <2>2. PICK s \in DOMAIN outcomes : outcomes[s] # "verified"
      BY <2>1
  <2>3. Unverifiable(capture, s) \/ ChecksOf(capture, s) \cap falseSince # {}
      BY <1>2, <2>2 DEF Evaluation, Justified
  <2>4. PICK i \in ToolEvents(events) : events[i].seq = s
      BY <1>2, <1>3, <2>2 DEF Seqs
  <2>5. CASE Divergent(capture, s)
    <3>1. PICK j \in Observations(capture, s) : capture[j].call # Last(capture, s).call
        BY <2>5 DEF Divergent
    <3>2. i \in Observations(capture, s)
        BY <1>3, <2>4 DEF Observations
    <3>3. j \in ToolEvents(events) /\ events[j].seq = s
        BY <1>3, <3>1 DEF Observations
    <3>4. CASE events[i].call # events[j].call
        BY <1>1, <2>4, <3>3, <3>4
    <3>5. CASE events[i].call = events[j].call
      <4>1. \A k \in ToolEvents(events) : events[k].seq = s =>
               k \in Observations(capture, s) /\ capture[k].call = events[k].call
          BY <1>3 DEF Observations
      <4>2. \A k \in Observations(capture, s) : k \in ToolEvents(events) /\ events[k].seq = s
          BY <1>3 DEF Observations
      <4>3. Max(Observations(capture, s)) \in Observations(capture, s)
        <5>1. Observations(capture, s) \subseteq 1 .. Len(events)
            BY <1>3 DEF Observations, ToolEvents
        <5> QED
            BY <3>2, <5>1, LastPosition
      <4>4. PICK k \in Observations(capture, s) : Last(capture, s).call = capture[k].call
          BY <4>3 DEF Last
      <4>5. events[k].call # events[j].call /\ events[k].seq = events[j].seq
          BY <3>1, <3>3, <4>1, <4>2, <4>4
      <4> QED
          BY <1>1, <3>3, <4>2, <4>5
    <3> QED
        BY <3>4, <3>5
  <2>6. CASE ~Divergent(capture, s)
    <3>1. capture[i].call = Last(capture, s).call
        BY <1>3, <2>4, <2>6 DEF Divergent, Observations
    <3>2. events[i].call = Last(capture, s).call
        BY <1>3, <3>1
    <3>3. \/ events[i].call \notin DOMAIN Registry
          \/ Called(events[i]) \cap falseSince # {}
        BY <2>3, <2>6, <3>2 DEF Unverifiable, ChecksOf, Called
    <3> QED
        BY <1>1, <3>3
  <2> QED
      BY <2>5, <2>6
<1> QED
    BY <1>5, <1>6, <1>7

-----------------------------------------------------------------------------
(* The gate. *)

LEMMA GateInvInit == GateInit => GateInv
<1> SUFFICES ASSUME GateInit PROVE GateInv
    OBVIOUS
<1>1. policy \in Policies /\ Window \in Nat /\ Poll \in Nat
    BY PolicyNumbers DEF GateInit
<1>2. cell \in [Items -> Cells]
    BY DEF GateInit, Cells
<1>3. TypeInv
    BY <1>1, <1>2 DEF GateInit, TypeInv, TypeOK
<1>4. Evidence /\ Recorded
    BY DEF GateInit, Evidence, VerifiedWasTrue, SteadyStateIsVerified, UncertainAfterWindow,
           Recorded
<1>5. <<>> \in Seq(GateEvents)
    OBVIOUS
<1> QED
    BY <1>3, <1>4, <1>5 DEF GateInit, GateInv, KernelInv, Attempted, ReleasedWasVerified,
       BlockedForCause

\* An assert hands the kernel a fresh run.
LEMMA AssertStep ==
    ASSUME GateInv, AssertSafe
    PROVE  KernelInv' /\ Attempted' /\ Evaluation'
<1>1. /\ policy' = policy /\ phase' = "plan" /\ outcomes' = <<>> /\ result' = "none"
      /\ recs' = <<>> /\ attempts' = 0 /\ elapsed' = 0 /\ wake' = 0 /\ verdict' = "none"
      /\ held' = held /\ broke' = broke /\ cell' \in [Items -> Cells]
    BY DEF AssertSafe
<1>2. policy' \in Policies /\ Window' \in Nat /\ Poll' \in Nat
    BY <1>1, PolicyNumbers DEF GateInv, KernelInv, TypeInv, Window, Poll
<1>3. TypeInv'
  <2>1. Len(outcomes') = 0
      BY <1>1
  <2>2. elapsed' \in 0 .. Window' + Poll'
    <3>1. \A w \in Nat, p \in Nat : 0 \in 0 .. w + p
        OBVIOUS
    <3> QED
        BY <1>1, <1>2, <3>1, Zenon
  <2>3. TypeOK'
      BY <1>1, <2>1, <2>2 DEF TypeOK
  <2> QED
      BY <1>1, <1>2, <2>3 DEF TypeInv
<1>4. Evidence' /\ Recorded'
    BY <1>1 DEF Evidence, VerifiedWasTrue, SteadyStateIsVerified, UncertainAfterWindow,
                Recorded
<1>5. held = {} /\ broke = {}
    BY DEF AssertSafe, Assertable, GateInv, Attempted
<1>6. Attempted'
    BY <1>1, <1>5 DEF Attempted
<1>7. Evaluation'
  <2>1. /\ asserted' = [events |-> buffer, malformed |-> malformed] /\ kind' = kind
        /\ capture' = Snapshot(buffer, malformed) /\ Eligible
      BY DEF AssertSafe
  <2>2. asserted'.events = buffer /\ asserted'.malformed = malformed
      BY <2>1
  <2> QED
      BY <1>1, <1>5, <2>1, <2>2 DEF Evaluation, Eligible
<1> QED
    BY <1>3, <1>4, <1>6, <1>7 DEF KernelInv

\* Nothing the kernel or the decision rests on has changed.
LEMMA IdleStep ==
    ASSUME GateInv, UNCHANGED <<vars, kind, gate, asserted, trueSince, falseSince>>,
           buffer' \in Seq(GateEvents), malformed' \in BOOLEAN
    PROVE  GateInv'
<1>1. UNCHANGED vars
    OBVIOUS
<1>2. UNCHANGED <<capture, policy, phase, outcomes, result, held, broke>>
    BY <1>1 DEF vars, inputs, history
<1>3. KernelInv' /\ Attempted'
    BY <1>1, KernelStep, AttemptedStep DEF GateInv
<1>4. WorkflowStatus' = WorkflowStatus
    BY <1>2 DEF WorkflowStatus, RunLevelReasons
<1>5. UNCHANGED <<kind, gate, asserted, trueSince, falseSince>>
    OBVIOUS
<1>6. Evaluation' <=> Evaluation
    BY <1>2, <1>4, <1>5 DEF Evaluation, Justified
<1>7. ReleasedWasVerified' /\ BlockedForCause'
    BY <1>5 DEF GateInv, ReleasedWasVerified, BlockedForCause
<1> QED
    BY <1>2, <1>3, <1>5, <1>6, <1>7 DEF GateInv

LEMMA GateStep == GateInv /\ [GateNext]_<<vars, gateVars>> => GateInv'
<1> SUFFICES ASSUME GateInv, [GateNext]_<<vars, gateVars>> PROVE GateInv'
    OBVIOUS
<1>1. ASSUME NEW ev \in GateEvents, AppendRunEvent(ev) PROVE GateInv'
  <2>1. UNCHANGED <<vars, kind, malformed, gate, asserted, trueSince, falseSince>>
        /\ buffer' = Append(buffer, ev)
      BY <1>1 DEF AppendRunEvent
  <2>2. buffer' \in Seq(GateEvents) /\ malformed' \in BOOLEAN
      BY <2>1 DEF GateInv
  <2> QED
      BY <2>1, <2>2, IdleStep
<1>2. CASE AppendMalformed
  <2>1. UNCHANGED <<vars, kind, buffer, gate, asserted, trueSince, falseSince>>
        /\ malformed' = TRUE
      BY <1>2 DEF AppendMalformed
  <2>2. buffer' \in Seq(GateEvents) /\ malformed' \in BOOLEAN
      BY <2>1 DEF GateInv
  <2> QED
      BY <2>1, <2>2, IdleStep
<1>3. CASE AssertSafe
  <2>1. gate' = "evaluating" /\ buffer' = buffer /\ malformed' = malformed
        /\ asserted' = [events |-> buffer, malformed |-> malformed]
      BY <1>3 DEF AssertSafe
  <2> QED
      BY <1>3, <2>1, AssertStep DEF GateInv, ReleasedWasVerified, BlockedForCause
<1>4. CASE AssertIneligible
  <2>1. /\ gate # "evaluating" /\ gate' = "blocked" /\ kind' = kind
        /\ buffer' = buffer /\ malformed' = malformed
        /\ asserted' = [events |-> buffer, malformed |-> malformed]
        /\ UNCHANGED vars /\ ~Eligible
      BY <1>4 DEF AssertIneligible, Assertable
  <2>2. KernelInv' /\ Attempted' /\ phase' = "done"
      BY <2>1, KernelStep, AttemptedStep DEF GateInv, vars
  <2>3. asserted'.events = buffer /\ asserted'.malformed = malformed
      BY <2>1
  <2>4. BlockedForCause'
      BY <2>1, <2>3 DEF BlockedForCause, Eligible
  <2> QED
      BY <2>1, <2>2, <2>3, <2>4 DEF GateInv, ReleasedWasVerified
<1>5. CASE Evaluating(Next)
  <2>1. gate' = "evaluating" /\ buffer' = buffer /\ malformed' = malformed
        /\ asserted' = asserted /\ [Next]_vars
      BY <1>5 DEF Evaluating
  <2>2. KernelInv' /\ Attempted'
      BY <2>1, KernelStep, AttemptedStep DEF GateInv
  <2> QED
      BY <1>5, <2>1, <2>2, EvaluatingStep DEF GateInv, ReleasedWasVerified, BlockedForCause
<1>6. CASE Decide
  <2>1. /\ gate = "evaluating" /\ phase = "done"
        /\ gate' = IF Safe THEN "released" ELSE "blocked"
        /\ UNCHANGED vars
        /\ UNCHANGED <<kind, buffer, malformed, asserted, trueSince, falseSince>>
      BY <1>6 DEF Decide
  <2>2. KernelInv' /\ Attempted' /\ phase' = "done"
      BY <2>1, KernelStep, AttemptedStep DEF GateInv, vars
  <2>3. ReleasedWasVerified'
      BY <2>1, ReleaseJustified DEF ReleasedWasVerified, Called
  <2>4. BlockedForCause'
      BY <2>1, BlockJustified DEF BlockedForCause, Called
  <2> QED
      BY <2>1, <2>2, <2>3, <2>4 DEF GateInv
<1>7. CASE UNCHANGED <<vars, gateVars>>
  <2>1. UNCHANGED <<kind, buffer, malformed, gate, asserted, trueSince, falseSince>>
        /\ UNCHANGED vars
      BY <1>7 DEF gateVars
  <2>2. buffer' \in Seq(GateEvents) /\ malformed' \in BOOLEAN
      BY <2>1 DEF GateInv
  <2> QED
      BY <2>1, <2>2, IdleStep
<1> QED
    BY <1>1, <1>2, <1>3, <1>4, <1>5, <1>6, <1>7 DEF GateNext

\* The action is let through only if every tool event that was in the buffer when the gate
\* was asked makes a known call whose checks all held at some moment since
\* (assertSafeForIrreversibleAction, assertLangGraphCheckpointProductionGate).
THEOREM ReleaseSafe == GateSpec => []ReleasedWasVerified
<1>1. GateInv => ReleasedWasVerified
    BY DEF GateInv
<1> QED
    BY <1>1, GateInvInit, GateStep, PTL DEF GateSpec

\* The action is refused only for a cause: something malformed or not eligible, an unknown
\* or contradictory step, or a check that failed at some moment since the gate was asked.
THEOREM BlockSafe == GateSpec => []BlockedForCause
<1>1. GateInv => BlockedForCause
    BY DEF GateInv
<1> QED
    BY <1>1, GateInvInit, GateStep, PTL DEF GateSpec
=============================================================================
