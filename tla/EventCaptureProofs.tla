------------------------- MODULE EventCaptureProofs -------------------------
(***************************************************************************)
(* What holds of EventCapture for any number of emitters and of events     *)
(* under way at once.                                                      *)
(***************************************************************************)
EXTENDS MCKernelRuns, TLAPS

Events == [emitter : Emitters, type : {"tool_observed", "control"}, wire : Emit!Wires,
           id : Nat \ {0}, seq : Nat, parent : Nat]

TypeInv ==
    /\ nextSeq \in [Emitters -> Nat] /\ parent \in [Emitters -> Nat]
    /\ issued \in Nat
    /\ writing \subseteq Events
    /\ log \in Seq(Events)

\* No id is handed out twice.
IdsOnce ==
    /\ \A ev \in writing : ev.id <= issued
    /\ \A i \in DOMAIN log : log[i].id <= issued
    /\ \A ev, other \in writing : ev.id = other.id => ev = other
    /\ \A i, j \in DOMAIN log : log[i].id = log[j].id => i = j
    /\ \A ev \in writing, i \in DOMAIN log : ev.id # log[i].id

\* The id of an identified event that a capture has before position n.
Arrived(file, id, n) ==
    id = 0 \/ \E i \in 1 .. n - 1 : Emit!Identified(file[i]) /\ file[i].id = id

\* An event becomes a parent only after it has arrived.
ParentsArrived ==
    /\ \A e \in Emitters : Arrived(log, parent[e], Len(log) + 1)
    /\ \A ev \in writing : Arrived(log, ev.parent, Len(log) + 1)
    /\ \A i \in DOMAIN log : Arrived(log, log[i].parent, i)

Tool(ev) == ev.type = "tool_observed"
SameStep(ev, other) ==
    Tool(ev) /\ Tool(other) /\ ev.emitter = other.emitter /\ ev.seq = other.seq

\* An emitter counts a tool event when it builds it, written or not.
SeqsOnce ==
    /\ \A ev \in writing : Tool(ev) => ev.seq < nextSeq[ev.emitter]
    /\ \A i \in DOMAIN log : Tool(log[i]) => log[i].seq < nextSeq[log[i].emitter]
    /\ \A ev, other \in writing : SameStep(ev, other) => ev = other
    /\ \A i, j \in DOMAIN log : SameStep(log[i], log[j]) => i = j
    /\ \A ev \in writing, i \in DOMAIN log : ~SameStep(ev, log[i])

CaptureInv == TypeInv /\ IdsOnce /\ ParentsArrived /\ SeqsOnce

LEMMA CaptureInit == Emit!Init => CaptureInv
<1> SUFFICES ASSUME Emit!Init PROVE CaptureInv OBVIOUS
<1>1. writing = {} /\ issued = 0 BY DEF Emit!Init
<1>2. log \in Seq(Events) /\ DOMAIN log = {} /\ Len(log) = 0
  <2>1. log = <<>> BY DEF Emit!Init
  <2> QED BY <2>1
<1>3. nextSeq \in [Emitters -> Nat] /\ parent \in [Emitters -> Nat] /\ \A e \in Emitters : parent[e] = 0
  BY DEF Emit!Init
<1> QED BY <1>1, <1>2, <1>3 DEF CaptureInv, TypeInv, IdsOnce, ParentsArrived, Arrived, SeqsOnce

\* A new event: its id is new, and its parent has arrived.
LEMMA EmitStep ==
    ASSUME CaptureInv, NEW e \in Emitters, NEW shape \in Emit!Shapes, Emit!Emit(e, shape)
    PROVE  CaptureInv'
<1> DEFINE ev == [emitter |-> e, type |-> shape.type, wire |-> shape.wire,
                  id |-> issued + 1, seq |-> nextSeq[e],
                  parent |-> IF shape.wire = 1 THEN 0 ELSE parent[e]]
<1>1. shape.type \in {"tool_observed", "control"} /\ shape.wire \in Emit!Wires
  BY DEF Emit!Shapes, Emit!Wires
<1>2. nextSeq[e] \in Nat /\ parent[e] \in Nat /\ issued \in Nat
  BY DEF CaptureInv, TypeInv
<1> PICK new : new = ev OBVIOUS
<1>3. new \in Events BY <1>1, <1>2 DEF Events
<1>4. /\ new.emitter = e /\ new.type = shape.type /\ new.id = issued + 1
      /\ new.seq = nextSeq[e] /\ new.parent \in {0, parent[e]}
  OBVIOUS
<1>5. /\ writing' = writing \cup {new} /\ issued' = issued + 1 /\ UNCHANGED <<log, parent>>
      /\ nextSeq' = IF shape.type = "tool_observed" THEN [nextSeq EXCEPT ![e] = @ + 1]
                    ELSE nextSeq
  BY DEF Emit!Emit, Emit!ParentAfterEmit
<1> HIDE DEF ev
<1>6. TypeInv'
  BY <1>2, <1>3, <1>5 DEF CaptureInv, TypeInv
<1>7. IdsOnce'
  <2>1. \A o \in writing : o.id \in Nat /\ o.id <= issued
    BY DEF CaptureInv, TypeInv, Events, IdsOnce
  <2>2. \A i \in DOMAIN log : log[i].id \in Nat /\ log[i].id <= issued
    <3>1. \A i \in DOMAIN log : log[i] \in Events BY DEF CaptureInv, TypeInv
    <3> QED BY <3>1 DEF CaptureInv, IdsOnce, Events
  <2> QED BY <2>1, <2>2, <1>2, <1>4, <1>5 DEF CaptureInv, IdsOnce
<1>8. ParentsArrived'
  BY <1>4, <1>5 DEF CaptureInv, ParentsArrived, Arrived
<1>9. SeqsOnce'
  <2>1. \A o \in writing : o.emitter \in Emitters /\ o.seq \in Nat
    BY DEF CaptureInv, TypeInv, Events
  <2>2. \A i \in DOMAIN log : log[i].emitter \in Emitters /\ log[i].seq \in Nat
    <3>1. \A i \in DOMAIN log : log[i] \in Events BY DEF CaptureInv, TypeInv
    <3> QED BY <3>1 DEF Events
  <2>3. \A o \in Emitters :
            /\ nextSeq[o] \in Nat
            /\ nextSeq'[o] = IF o = e /\ Tool(new) THEN nextSeq[o] + 1 ELSE nextSeq[o]
    BY <1>4, <1>5 DEF CaptureInv, TypeInv, Tool
  <2>4. \A o \in writing : ~SameStep(o, new) /\ ~SameStep(new, o)
    BY <2>1, <2>3, <1>4 DEF CaptureInv, SeqsOnce, SameStep
  <2>5. \A i \in DOMAIN log : ~SameStep(new, log[i])
    BY <2>2, <2>3, <1>4 DEF CaptureInv, SeqsOnce, SameStep
  <2>6. /\ \A o \in writing' : Tool(o) => o.seq < nextSeq'[o.emitter]
        /\ \A i \in DOMAIN log : Tool(log[i]) => log[i].seq < nextSeq'[log[i].emitter]
    BY <2>1, <2>2, <2>3, <1>4, <1>5 DEF CaptureInv, SeqsOnce
  <2> QED BY <2>4, <2>5, <2>6, <1>5 DEF CaptureInv, SeqsOnce
<1> QED BY <1>6, <1>7, <1>8, <1>9 DEF CaptureInv

\* An event arrives: what is built from now on may name it as parent.
LEMMA WrittenStep ==
    ASSUME CaptureInv, NEW ev \in writing, Emit!Written(ev)
    PROVE  CaptureInv'
<1>1. /\ writing' = writing \ {ev} /\ UNCHANGED <<nextSeq, issued>>
      /\ parent' = IF Emit!Identified(ev) THEN [parent EXCEPT ![ev.emitter] = ev.id] ELSE parent
      /\ log' = Append(log, ev)
  BY DEF Emit!Written
<1>2. ev \in Events /\ ev.id \in Nat /\ ev.emitter \in Emitters
  BY DEF CaptureInv, TypeInv, Events
<1>3. log \in Seq(Events) /\ Len(log) \in Nat /\ DOMAIN log = 1 .. Len(log)
  BY DEF CaptureInv, TypeInv
<1> PICK n \in Nat : n = Len(log) + 1 BY <1>3
<1>4. /\ Len(log') = n /\ DOMAIN log' = 1 .. n /\ log'[n] = ev
      /\ \A i \in 1 .. n - 1 : log'[i] = log[i]
      /\ log' \in Seq(Events)
      /\ DOMAIN log = 1 .. n - 1 /\ n \notin DOMAIN log
      /\ \A i \in DOMAIN log' : i \in DOMAIN log \/ i = n
  BY <1>1, <1>2, <1>3
<1>5. TypeInv' BY <1>1, <1>2, <1>4 DEF CaptureInv, TypeInv
<1>6. IdsOnce'
  <2>1. IdsOnce BY DEF CaptureInv
  <2> QED BY <2>1, <1>1, <1>4 DEF IdsOnce
<1>7. ParentsArrived'
  <2>1. \A id, k \in Nat : k <= n /\ Arrived(log, id, k) => Arrived(log', id, k)
    BY <1>4 DEF Arrived
  <2>2. \A id \in Nat : Arrived(log, id, n) => Arrived(log', id, n + 1)
    BY <1>4 DEF Arrived
  <2>3. Emit!Identified(ev) => Arrived(log', ev.id, n + 1)
    BY <1>4 DEF Arrived
  <2>4. /\ \A e \in Emitters : Arrived(log, parent[e], n) /\ parent[e] \in Nat
        /\ \A o \in writing : Arrived(log, o.parent, n) /\ o.parent \in Nat
        /\ \A i \in DOMAIN log : Arrived(log, log[i].parent, i) /\ log[i].parent \in Nat
    <3>1. \A i \in DOMAIN log : log[i] \in Events BY <1>3
    <3>2. ParentsArrived BY DEF CaptureInv
    <3> QED BY <3>1, <3>2, <1>3 DEF CaptureInv, TypeInv, Events, ParentsArrived
  <2>5. \A e \in Emitters : Arrived(log', parent'[e], n + 1)
    <3>1. \A e \in Emitters : parent'[e] = parent[e] \/ (Emit!Identified(ev) /\ parent'[e] = ev.id)
      BY <1>1 DEF CaptureInv, TypeInv
    <3>2. \A e \in Emitters : Arrived(log', parent[e], n + 1) BY <2>2, <2>4
    <3> QED BY <3>1, <3>2, <2>3 DEF Arrived
  <2>6. \A o \in writing' : Arrived(log', o.parent, n + 1)
    BY <2>2, <2>4, <1>1
  <2>7. \A i \in DOMAIN log' : Arrived(log', log'[i].parent, i)
    <3> SUFFICES ASSUME NEW i \in DOMAIN log' PROVE Arrived(log', log'[i].parent, i)
      OBVIOUS
    <3>1. PICK id \in Nat : id = log'[i].parent /\ Arrived(log, id, i) /\ i \in Nat /\ i <= n
      <4>1. CASE i = n BY <4>1, <2>4, <1>2, <1>4 DEF Events
      <4>2. CASE i \in DOMAIN log BY <4>2, <2>4, <1>4
      <4> QED BY <4>1, <4>2, <1>4
    <3>2. Arrived(log', id, i) BY <3>1, <2>1
    <3> QED BY <3>1, <3>2 DEF Arrived
  <2>8. Len(log') + 1 = n + 1 BY <1>4
  <2> QED BY <2>5, <2>6, <2>7, <2>8 DEF ParentsArrived, Arrived
<1>8. SeqsOnce'
  <2>1. SeqsOnce BY DEF CaptureInv
  <2>2. \A o, p : SameStep(o, p) => SameStep(p, o) BY DEF SameStep
  <2> QED BY <2>1, <2>2, <1>1, <1>4 DEF SeqsOnce
<1> QED BY <1>5, <1>6, <1>7, <1>8 DEF CaptureInv

LEMMA WriteFailsStep ==
    ASSUME CaptureInv, NEW ev \in writing, Emit!WriteFails(ev)
    PROVE  CaptureInv'
<1>1. writing' \subseteq writing /\ UNCHANGED <<nextSeq, parent, issued, log>>
  BY DEF Emit!WriteFails
<1> QED BY <1>1 DEF CaptureInv, TypeInv, IdsOnce, ParentsArrived, Arrived, SeqsOnce

LEMMA CaptureStep == CaptureInv /\ [Emit!Next]_captured => CaptureInv'
<1> SUFFICES ASSUME CaptureInv, [Emit!Next]_captured PROVE CaptureInv' OBVIOUS
<1>1. CASE UNCHANGED captured
  BY <1>1 DEF captured, CaptureInv, TypeInv, IdsOnce, ParentsArrived, Arrived, SeqsOnce
<1>2. CASE Emit!Next BY <1>2, EmitStep, WrittenStep, WriteFailsStep DEF Emit!Next
<1> QED BY <1>1, <1>2

\* However the emits of a run overlap or fail, in however many processes, the parents of
\* identified events are earlier events, ids and seqs do not repeat
\* (CanonicalEventEmitter, assertValidRunEventParentGraph).
THEOREM CaptureSafe == Emit!Spec => []CaptureIsSound
<1>1. CaptureInv => CaptureIsSound
  <2> SUFFICES ASSUME CaptureInv PROVE CaptureIsSound OBVIOUS
  <2>1. DOMAIN log \subseteq Nat /\ \A i \in DOMAIN log : 1 .. i - 1 \subseteq DOMAIN log \ {i}
    BY DEF CaptureInv, TypeInv
  <2>2. Emit!ValidParentGraph
    <3>1. \A i \in DOMAIN log : log[i].id \notin Emit!IdsBefore(i)
      BY <2>1 DEF CaptureInv, IdsOnce, Emit!IdsBefore
    <3>2. \A i \in DOMAIN log : log[i].parent \in Emit!IdsBefore(i) \cup {0}
      BY <2>1 DEF CaptureInv, ParentsArrived, Arrived, Emit!IdsBefore
    <3> QED BY <3>1, <3>2 DEF Emit!ValidParentGraph
  <2>3. \A i, j \in DOMAIN log : SameStep(log[i], log[j]) => i = j
    BY DEF CaptureInv, SeqsOnce
  <2> QED BY <2>2, <2>3 DEF CaptureIsSound, Emit!CaptureIsSound, SameStep, Tool
<1> QED BY CaptureInit, CaptureStep, <1>1, PTL DEF Emit!Spec, Emit!captureVars, captured
=============================================================================
