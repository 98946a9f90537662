---------------------------- MODULE DecisionGate ----------------------------
(***************************************************************************)
(* The gates in front of an irreversible action: src/src/decisionGate.ts   *)
(* (contract_sql) and src/src/langGraphCheckpointTrustGate.ts (langgraph). *)
(* A gate buffers the run's events; an assert snapshots the buffer, has    *)
(* the kernel (VerificationRun) verify it against a store that others keep *)
(* writing, and lets the action through or throws.  Events may be appended *)
(* while the kernel runs, and an assert may be made again.                 *)
(***************************************************************************)
EXTENDS VerificationRun

CONSTANTS GateKinds,    \* subset of {"contract_sql", "langgraph"}
          GateEvents,   \* events of the workflow that may be appended
          MaxBuffer     \* bound: events buffered

ASSUME GateAssumption ==
    /\ GateKinds \subseteq {"contract_sql", "langgraph"}
    /\ GateEvents \subseteq [type : {"tool_observed", "control"}, wire : {2, 3},
                            seq : Nat, call : Calls]
    /\ MaxBuffer \in Nat

VARIABLES kind,        \* which gate it is
          buffer,      \* bufferedRunEvents
          malformed,   \* runLevelReasons is not empty
          gate,        \* "open", "evaluating", "released" or "blocked"
          asserted,    \* history: the buffer and malformed flag at the assert
          trueSince,   \* history: checks that held at some moment since
          falseSince   \* history: checks that failed at some moment since

gateVars == <<kind, buffer, malformed, gate, asserted, trueSince, falseSince>>

\* Where the buffer holds tool observations.
ToolEvents(events) == {i \in DOMAIN events : events[i].type = "tool_observed"}

\* The checks of the known calls among the events.
ChecksIn(events) ==
    UNION {Registry[events[i].call] :
              i \in {j \in ToolEvents(events) : events[j].call \in DOMAIN Registry}}

\* The history starts anew, or goes on, with the store as it is after the step.
Follow(before) ==
    LET checks == ChecksIn(asserted'.events)
    IN  /\ trueSince' = before.held \cup Holding(checks, cell')
        /\ falseSince' = before.broke \cup (checks \ Holding(checks, cell'))

GateInit ==
    /\ cell \in [Items -> {"none", "right"}]
    /\ capture = <<>> /\ policy \in Policies
    /\ phase = "done" /\ current = 0
    /\ recs = <<>> /\ attempts = 0 /\ elapsed = 0 /\ wake = 0
    /\ verdict = "none" /\ outcomes = <<>> /\ result = "none"
    /\ held = {} /\ broke = {}
    /\ kind \in GateKinds
    /\ buffer = <<>> /\ malformed = FALSE /\ gate = "open"
    /\ asserted = [events |-> <<>>, malformed |-> FALSE]
    /\ trueSince = {} /\ falseSince = {}

\* appendRunEvent of a valid event of the workflow; one of another workflow is
\* dropped without a trace.
AppendRunEvent(ev) ==
    /\ Len(buffer) < MaxBuffer
    /\ buffer' = Append(buffer, ev)
    /\ UNCHANGED <<vars, kind, malformed, gate, asserted, trueSince, falseSince>>

\* appendRunEvent of anything else.
AppendMalformed ==
    /\ ~malformed /\ malformed' = TRUE
    /\ UNCHANGED <<vars, kind, buffer, gate, asserted, trueSince, falseSince>>

LineOf(ev) ==
    IF ev.type = "tool_observed" THEN [seq |-> ev.seq, call |-> ev.call] ELSE Control

\* Mutant: what is malformed is only for assertEmissionQuality to report.
Snapshot_Events(events, reasons) == [i \in 1 .. Len(events) |-> LineOf(events[i])]

\* What verifyRunStateFromBufferedRunEvents hands to the kernel.
Snapshot(events, reasons) ==
    LET lines == [i \in 1 .. Len(events) |-> LineOf(events[i])]
    IN  IF reasons THEN Append(lines, Malformed) ELSE lines

\* Mutant: every event must be of wire version 3, not only the tool calls.
Eligible_EveryEvent ==
    kind = "langgraph" =>
        /\ ~malformed
        /\ ToolEvents(buffer) # {}
        /\ \A i \in DOMAIN buffer : buffer[i].wire = 3

\* classifyLangGraphCheckpointTrustEligibility.
Eligible ==
    kind = "langgraph" =>
        /\ ~malformed
        /\ ToolEvents(buffer) # {}
        /\ \A i \in ToolEvents(buffer) : buffer[i].wire = 3

\* An assert on an empty gate throws before anything else.
Assertable == gate # "evaluating" /\ (buffer # <<>> \/ malformed)

\* assertSafeForIrreversibleAction, assertLangGraphCheckpointProductionGate: up to
\* the first await.  Meanwhile the store has become anything.
AssertSafe ==
    /\ Assertable /\ Eligible
    /\ gate' = "evaluating"
    /\ asserted' = [events |-> buffer, malformed |-> malformed]
    /\ cell' \in [Items -> Cells]
    /\ Follow(Nothing)
    /\ capture' = Snapshot(buffer, malformed)
    /\ phase' = "plan" /\ outcomes' = <<>> /\ result' = "none"
    /\ current' = 0 /\ recs' = <<>> /\ attempts' = 0 /\ elapsed' = 0 /\ wake' = 0
    /\ verdict' = "none"
    /\ UNCHANGED <<policy, held, broke, kind, buffer, malformed>>

\* Ineligible: the certificate says so without looking at the store.
AssertIneligible ==
    /\ Assertable /\ ~Eligible
    /\ gate' = "blocked"
    /\ asserted' = [events |-> buffer, malformed |-> malformed]
    /\ trueSince' = {} /\ falseSince' = {}
    /\ UNCHANGED <<vars, kind, buffer, malformed>>

\* A step of the kernel, of the clock or of another writer of the store.
Evaluating(step) ==
    /\ gate = "evaluating" /\ phase # "done"
    /\ step
    /\ UNCHANGED <<kind, buffer, malformed, gate, asserted>>
    /\ Follow([held |-> trueSince, broke |-> falseSince])

\* stateRelation, highStakesReliance and trustDecisionFromCertificate together; the
\* LangGraph gate also wants checkpoint verdicts, all of them verified (row B).
Safe ==
    /\ result = "complete"
    /\ kind = "langgraph" => /\ outcomes # <<>>
                             /\ \A s \in DOMAIN outcomes : outcomes[s] = "verified"

Decide ==
    /\ gate = "evaluating" /\ phase = "done"
    /\ gate' = IF Safe THEN "released" ELSE "blocked"
    /\ UNCHANGED <<vars, kind, buffer, malformed, asserted, trueSince, falseSince>>

GateNext ==
    \/ \E ev \in GateEvents : AppendRunEvent(ev)
    \/ AppendMalformed
    \/ AssertSafe
    \/ AssertIneligible
    \/ Evaluating(Next)
    \/ Decide

GateSpec == GateInit /\ [][GateNext]_<<vars, gateVars>>

-----------------------------------------------------------------------------
(* Properties. *)

Called(ev) == Registry[ev.call]

\* The action is let through only if every tool event that was in the buffer when
\* the gate was asked names a known call whose checks all held at some moment since,
\* nothing malformed had been appended, and, for the LangGraph gate, every one of
\* them identifies its checkpoint.
ReleasedWasVerified ==
    gate = "released" =>
        /\ ~asserted.malformed
        /\ ToolEvents(asserted.events) # {}
        /\ \A i \in ToolEvents(asserted.events) :
              /\ asserted.events[i].call \in DOMAIN Registry
              /\ Called(asserted.events[i]) \subseteq trueSince
              /\ kind = "langgraph" => asserted.events[i].wire = 3

\* The action is refused only for a cause: nothing to go by, something malformed or
\* not eligible, a step whose observations disagree or are unknown, or a check that
\* failed at some moment since the gate was asked.
BlockedForCause ==
    gate = "blocked" =>
        LET events == asserted.events
            tools == ToolEvents(events)
        IN  \/ asserted.malformed \/ tools = {}
            \/ \E i, j \in tools :
                  events[i].seq = events[j].seq /\ events[i].call # events[j].call
            \/ \E i \in tools :
                  \/ kind = "langgraph" /\ events[i].wire # 3
                  \/ events[i].call \notin DOMAIN Registry
                  \/ Called(events[i]) \cap falseSince # {}
=============================================================================
