---------------------------- MODULE MCKernelRuns ----------------------------
(***************************************************************************)
(* The kernel for TLC, in three parts that share no state, of which a      *)
(* behaviour follows one: a run over a captured file, the runs of a gate,  *)
(* and the emitters that write a capture.                                  *)
(***************************************************************************)
EXTENDS DecisionGate, TLC

CONSTANTS x, y                                     \* Items
CONSTANTS insert, delete, effects, related, totals, unknown   \* Calls
CONSTANTS Emitters, MaxEvents

VARIABLES part, nextSeq, parent, issued, writing, log

Emit == INSTANCE EventCapture

captured == <<nextSeq, parent, issued, writing, log>>

AllItems == {x, y}
AllCalls == {insert, delete, effects, related, totals, unknown}

OneCheck(i, w) == {[item |-> i, want |-> w]}

CallChecks ==
    insert  :> OneCheck(x, "row") @@
    delete  :> OneCheck(x, "absent") @@
    effects :> OneCheck(x, "row") \cup OneCheck(y, "row") @@
    related :> OneCheck(y, "exists") @@
    totals  :> OneCheck(x, "exists") \cup OneCheck(y, "count")

Strong == [mode |-> "strong", window |-> 0, poll |-> 0]

\* A run over a file also polls, twice within its window and once after.
FilePolicies == {Strong, [mode |-> "eventual", window |-> 3, poll |-> 2]}

\* A gate polls at most twice.
GatePolicies == {Strong, [mode |-> "eventual", window |-> 1, poll |-> 1]}

AllPolicies == FilePolicies \cup GatePolicies

Line(s, c) == [seq |-> s, call |-> c]

\* One step of every shape; two steps in and out of order; retries that repeat
\* and that change their call; a malformed line; a control event with and without a
\* step; an empty file.
EventFiles ==
    {<<>>} \cup {<<Line(1, c)>> : c \in AllCalls}
    \cup {<<Line(2, effects), Line(1, insert)>>,
          <<Line(1, insert), Line(2, delete)>>,
          <<Line(1, insert), Line(1, insert)>>,
          <<Line(1, insert), Line(1, delete), Line(1, insert)>>,
          <<Line(1, insert), Malformed>>,
          <<Control>>,
          <<Line(1, insert), Control>>}

\* A gate sees two steps that contradict each other, one of them in both wire
\* versions, a call it does not know, and an event that is no tool call.
GateInputs ==
    {[type |-> "tool_observed", seq |-> 1, call |-> insert, wire |-> w] : w \in {2, 3}}
    \cup {[type |-> "tool_observed", seq |-> s, call |-> delete, wire |-> 3] : s \in {1, 2}}
    \cup {[type |-> "tool_observed", seq |-> 2, call |-> unknown, wire |-> 3],
          [type |-> "control", seq |-> 0, call |-> unknown, wire |-> 2]}

GateIdle ==
    /\ kind = "contract_sql" /\ buffer = <<>> /\ malformed = FALSE /\ gate = "open"
    /\ asserted = [events |-> <<>>, malformed |-> FALSE]
    /\ trueSince = {} /\ falseSince = {}

KernelIdle ==
    /\ cell = [i \in Items |-> "none"] /\ capture = <<>>
    /\ policy = Strong
    /\ phase = "done" /\ current = 0
    /\ recs = <<>> /\ attempts = 0 /\ elapsed = 0 /\ wake = 0
    /\ verdict = "none" /\ outcomes = <<>> /\ result = "none"
    /\ held = {} /\ broke = {}

PartInit ==
    /\ \/ part = "file" /\ Init /\ GateIdle /\ policy \in FilePolicies
       \/ /\ part = "gate" /\ GateInit
          /\ policy \in GatePolicies /\ cell = [i \in Items |-> "none"]
       \/ part = "emit" /\ KernelIdle /\ GateIdle
    /\ Emit!Init

InFile(action) == part = "file" /\ action /\ UNCHANGED <<part, gateVars, captured>>

\* The calls of the gate's events are about the presence of x: y stays as it is, and
\* x is there, is not there or cannot be read.
InGate(action) ==
    /\ part = "gate" /\ action /\ UNCHANGED <<part, captured>>
    /\ cell'[y] = cell[y] /\ cell'[x] # "wrong"

PartNext ==
    \/ InFile(Next)
    \/ InGate(GateNext)
    \/ part = "emit" /\ Emit!Next /\ UNCHANGED <<part, vars, gateVars>>

all == <<part, vars, gateVars, captured>>

PartSpec ==
    /\ PartInit /\ [][PartNext]_all
    /\ WF_all(InFile(Run)) /\ WF_all(InFile(Tick))
    /\ WF_all(InGate(Evaluating(Run))) /\ WF_all(InGate(Evaluating(Tick)))

\* Of the capture: see EventCapture.
CaptureIsSound == Emit!CaptureIsSound
PathsAreNodes == Emit!PathsAreNodes
=============================================================================
