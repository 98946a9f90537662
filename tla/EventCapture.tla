---------------------------- MODULE EventCapture ----------------------------
(***************************************************************************)
(* The emitters of src/src/sdk/events/CanonicalEventEmitter.ts writing run *)
(* events to one capture, and the execution trace that src/executionTrace  *)
(* reconstructs from it.                                                   *)
(*                                                                         *)
(* An emit builds its event at once, with the next seq and the parent of   *)
(* the moment, and then awaits the sink; emits that overlap reach the sink *)
(* in any order, and a write may fail.  An emitter created later for the   *)
(* same capture (a restarted process) starts from seq 0 without a parent.  *)
(***************************************************************************)
EXTENDS Naturals, Sequences, FiniteSets, SequencesExt

CONSTANTS Emitters,   \* emitters of the capture, one per process life
          MaxEvents   \* bound: events ever emitted

VARIABLES nextSeq,    \* per emitter: seq of its next tool event
          parent,     \* per emitter: parentRunEventId, 0 when undefined
          issued,     \* runEventIds handed out (randomUUID never repeats)
          writing,    \* events whose write the sink has not finished
          log         \* the capture, in the order of arrival

captureVars == <<nextSeq, parent, issued, writing, log>>

Wires == {1, 2, 3}

\* What can be emitted: tool_observed (which alone carries a seq) in each wire
\* version, v3 being the LangGraph checkpoint form, and the other kinds, all v2.
Shapes == [type : {"tool_observed"}, wire : Wires] \cup [type : {"control"}, wire : {2}]

\* v2 and v3 events have a runEventId and may have a parent; v1 has neither.
Identified(ev) == ev.wire \in {2, 3}

Init ==
    /\ nextSeq = [e \in Emitters |-> 0]
    /\ parent = [e \in Emitters |-> 0]
    /\ issued = 0
    /\ writing = {}
    /\ log = <<>>

\* Mutant: the event becomes the parent before the sink has it.
ParentAfterEmit_AtOnce(e, shape) ==
    IF shape.wire = 1 THEN parent ELSE [parent EXCEPT ![e] = issued + 1]

ParentAfterEmit(e, shape) == parent

Emit(e, shape) ==
    /\ issued < MaxEvents
    /\ issued' = issued + 1
    /\ writing' = writing \cup
          {[emitter |-> e, type |-> shape.type, wire |-> shape.wire,
            id |-> issued + 1, seq |-> nextSeq[e],
            parent |-> IF shape.wire = 1 THEN 0 ELSE parent[e]]}
    /\ nextSeq' = IF shape.type = "tool_observed" THEN [nextSeq EXCEPT ![e] = @ + 1] ELSE nextSeq
    /\ parent' = ParentAfterEmit(e, shape)
    /\ UNCHANGED log

\* The sink has the event, and emit goes on after its await.
Written(ev) ==
    /\ ev \in writing
    /\ writing' = writing \ {ev}
    /\ log' = Append(log, ev)
    /\ parent' = IF Identified(ev) THEN [parent EXCEPT ![ev.emitter] = ev.id] ELSE parent
    /\ UNCHANGED <<nextSeq, issued>>

\* The write throws; the caller may emit again.
WriteFails(ev) ==
    /\ ev \in writing
    /\ writing' = writing \ {ev}
    /\ UNCHANGED <<nextSeq, parent, issued, log>>

Next ==
    \/ \E e \in Emitters, shape \in Shapes : Emit(e, shape)
    \/ \E ev \in writing : Written(ev) \/ WriteFails(ev)

Spec == Init /\ [][Next]_captureVars

-----------------------------------------------------------------------------
(* executionTrace.ts over a capture. *)

IdsBefore(i) == {log[j].id : j \in {k \in 1 .. i - 1 : Identified(log[k])}}

\* assertValidRunEventParentGraph: ids are unique, parents are earlier events.
ValidParentGraph ==
    \A i \in DOMAIN log :
        Identified(log[i]) =>
            /\ log[i].id \notin IdsBefore(i)
            /\ log[i].parent \in IdsBefore(i) \cup {0}

\* nodeRunEventId: <<"syn", index>> stands for the synthetic ids.
NodeId(i) == IF log[i].wire = 2 THEN <<"wire", log[i].id>> ELSE <<"syn", i>>

\* resolvedParentRunEventId; the empty tuple is null.
NodeParent(i) ==
    IF log[i].wire = 2 /\ log[i].parent # 0 THEN <<"wire", log[i].parent>> ELSE <<>>

NodeIds == {NodeId(i) : i \in DOMAIN log}

ParentOf(id) ==
    IF id \in NodeIds THEN NodeParent(CHOOSE i \in DOMAIN log : NodeId(i) = id) ELSE <<>>

\* buildAncestorChain: the walk ends at a null parent, or where it would repeat.
AncestorChain(seed) ==
    FoldLeft(LAMBDA chain, i :
                 LET up == ParentOf(Last(chain))
                 IN  IF up = <<>> \/ Contains(chain, up) THEN chain ELSE Append(chain, up),
             <<seed>>, log)

-----------------------------------------------------------------------------
(* Properties. *)

\* However the emits of a run overlap or fail, the capture passes the parent graph
\* check that gates and traces make (assertValidRunEventParentGraph), and no two
\* tool calls of one emitter share a seq, which would merge them into one step.
CaptureIsSound ==
    /\ ValidParentGraph
    /\ \A i, j \in DOMAIN log :
          /\ log[i].type = "tool_observed" /\ log[j].type = "tool_observed"
          /\ log[i].emitter = log[j].emitter /\ log[i].seq = log[j].seq
          => i = j

\* "[seed, parent(seed), ..., root] following parentRunEventId on nodes"
\* (docs/agentskeptic.md): a backward path consists of nodes of the trace.
PathsAreNodes ==
    \A i \in DOMAIN log : ToSet(AncestorChain(NodeId(i))) \subseteq NodeIds
=============================================================================
