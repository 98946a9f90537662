----------------------- MODULE EnforcementLanesProofs -----------------------
(***************************************************************************)
(* What the serial lane keeps, for any hashes, clock and number of         *)
(* requests that come one after the other.                                 *)
(***************************************************************************)
EXTENDS MCEnforcementLanes, EnforcementFsmProofs, WellFoundedInduction,
        SequenceTheorems

(* The lanes and the specification they restrict. *)

LEMMA LaneSteps == [LaneNext]_<<vars, lane>> => [Next]_vars
  BY DEF LaneNext

\* A lane restricts the requests that arrive, and every state it reaches is a state of
\* EnforcementFsm.
LEMMA LanesImplementFsm == LaneSpec => Spec
  <1>1. LaneSpec => Init /\ [][LaneNext]_<<vars, lane>>
    BY PTL DEF LaneSpec
  <1>2. QED BY <1>1, LaneSteps, PTL DEF Spec

\* The lane is chosen once, and its bound holds in every state.
LaneInv == lane \in {"serial", "parallel"} /\ LaneBound

LEMMA LaneInvariant == LaneSpec => []LaneInv
  <1>1. Init /\ lane \in {"serial", "parallel"} => LaneInv
    BY DEF Init, LaneInv, LaneBound, InFlight
  <1>2. LaneInv /\ [LaneNext]_<<vars, lane>> => LaneInv'
    <2>1. LaneInv /\ UNCHANGED <<vars, lane>> => LaneInv'
      BY DEF LaneInv, LaneBound, InFlight, vars
    <2>2. LaneInv /\ LaneNext => LaneInv'
      BY DEF LaneInv, LaneNext
    <2>3. QED BY <2>1, <2>2
  <1>3. QED BY <1>1, <1>2, PTL DEF LaneSpec

-----------------------------------------------------------------------------
(* One request at a time. *)

\* The only request in flight looks at the baseline in force, and gives up on an
\* expired acceptance only if there is one.
SerialViews ==
    \A r \in Requests :
        /\ pc[r] \notin {"idle", "read"} => seen[r] = baseline
        /\ pc[r] = "expire" => baseline.acc # 0

\* SerialBaseline with what it rests on: a trusted verdict leaves the workflow
\* active until the next transition, and only a stored posture has an acceptance.
SerialCore ==
    /\ audit # <<>> /\ audit[Len(audit)].decision = "decision_trusted"
          => life.exists /\ life.state = "baseline_active"
    /\ baseline.acc # 0 => life.exists
    /\ TrustedMatchesBaseline /\ PendingIsBaseline /\ PointerOnlyWhileCertifying

\* A posture with a baseline reaches the commit as it is stored.
LEMMA RowIsLife ==
    ASSUME TypeOK, OptimisticLockNeverMisses, NEW r \in Requests, pc[r] = "commit"
    PROVE  /\ row[r] \in LifeRows /\ row[r].exists
           /\ life.exists /\ life.state # "baseline_missing" => row[r] = life
           /\ ~(life.exists /\ life.state # "baseline_missing")
                => row[r].state \in {"baseline_missing", "baseline_active"}
  <1>1. life \in LifeRows /\ row[r] \in LifeRows
    BY DEF TypeOK
  <1>2. row[r] = IF life.exists THEN Repaired(life, seen[r].exists)
                 ELSE [exists |-> TRUE, state |-> InferLifecycle(seen[r].exists),
                       version |-> 0, pending |-> NoHash]
    BY DEF OptimisticLockNeverMisses
  <1>3. QED BY <1>1, <1>2 DEF Repaired, InferLifecycle, LifeRows

\* A serial request sees its baseline unchanged until it answers.
LEMMA ViewsStep ==
    ASSUME TypeOK, OptimisticLockNeverMisses, SerialViews, [Next]_vars,
           InFlight \subseteq {SerialSlot}, InFlight' \subseteq {SerialSlot}
    PROVE  SerialViews'
  <1>t. /\ pc \in [Requests -> PCs] /\ seen \in [Requests -> BaselineRows]
        /\ \A q \in Requests : pc[q] # "idle" => q = SerialSlot
        /\ \A q \in Requests : pc'[q] # "idle" => q = SerialSlot
    BY DEF TypeOK, InFlight
  <1>1. CASE Tick \/ UNCHANGED vars
    BY <1>1 DEF Tick, vars, db, SerialViews
  <1>2. ASSUME NEW r \in Requests, Receive(r) PROVE SerialViews'
    BY <1>2, <1>t DEF Receive, SerialViews
  <1>3. ASSUME NEW r \in Requests, ReadBaseline(r) PROVE SerialViews'
    BY <1>3, <1>t DEF ReadBaseline, AcceptanceExpired, db, SerialViews
  <1>4. ASSUME NEW r \in Requests, SelectLifecycle(r) \/ InsertLifecycle(r)
        PROVE  SerialViews'
    BY <1>4, <1>t DEF SelectLifecycle, InsertLifecycle, db, SerialViews
  <1>5. ASSUME NEW r \in Requests,
               \/ Expire(r) \/ InsertConflict(r) \/ Abort(r) \/ CheckNeedsRebaseline(r)
               \/ RefuseCreate(r) \/ RefuseAccept(r)
               \/ CommitCheck(r) \/ CommitCreate(r) \/ CommitAccept(r)
        PROVE  SerialViews'
    <2>1. pc[r] # "idle" /\ pc' = [pc EXCEPT ![r] = "idle"]
      <3>1. CASE Expire(r)
        BY <3>1 DEF Expire, Answer
      <3>2. CASE InsertConflict(r)
        BY <3>2 DEF InsertConflict, Answer
      <3>3. CASE Abort(r)
        BY <3>3 DEF Abort, Answer
      <3>4. CASE CheckNeedsRebaseline(r) \/ RefuseCreate(r) \/ RefuseAccept(r)
        BY <3>4 DEF CheckNeedsRebaseline, RefuseCreate, RefuseAccept, Refuse, Answer
      <3>5. CASE CommitCheck(r)
        BY <3>5 DEF CommitCheck, Answer
      <3>6. CASE CommitCreate(r)
        BY <3>6 DEF CommitCreate, Answer
      <3>7. CASE CommitAccept(r)
        BY <3>7 DEF CommitAccept, Answer
      <3>8. QED BY <1>5, <3>1, <3>2, <3>3, <3>4, <3>5, <3>6, <3>7
    <2>2. \A q \in Requests : pc'[q] = "idle"
      BY <1>t, <2>1
    <2>3. QED BY <2>2 DEF SerialViews
  <1>6. QED BY <1>1, <1>2, <1>3, <1>4, <1>5 DEF Next, Serve

\* A refused request leaves the baseline, the trail and a stored posture alone.
LEMMA RefusedSerial ==
    ASSUME TypeOK, OptimisticLockNeverMisses, SerialCore, NEW r \in Requests,
           pc[r] = "commit", life' = row[r], UNCHANGED <<baseline, acceptances, audit>>
    PROVE  SerialCore' /\ DriftStaysOpen
  <1>1. /\ row[r] \in LifeRows /\ row[r].exists
        /\ life.exists /\ life.state # "baseline_missing" => row[r] = life
        /\ ~(life.exists /\ life.state # "baseline_missing")
              => row[r].state \in {"baseline_missing", "baseline_active"}
    BY RowIsLife
  <1>2. SerialCore'
    BY <1>1 DEF SerialCore, TrustedMatchesBaseline, PendingIsBaseline,
                PointerOnlyWhileCertifying
  <1>3. DriftStaysOpen
    BY <1>1 DEF DriftStaysOpen
  <1>4. QED BY <1>2, <1>3

\* What a committed transition owes: its record closes the trail, a trusted one is for
\* the baseline it leaves, drift is open against that baseline, and an acceptance is
\* pointed at until its rerun.
LEMMA RecordedSerial ==
    ASSUME TypeOK, OptimisticLockNeverMisses, NEW r \in Requests, pc[r] = "commit",
           NEW kind, NEW after, NEW reason, NEW decision, NEW expected, NEW pending,
           Transition(r, kind, after, reason, decision, expected, pending),
           decision = "decision_trusted" =>
               /\ after = "baseline_active"
               /\ req[r].hash = baseline'.hash /\ ~baseline'.needsRebaseline,
           after = "action_required" => pending = baseline'.hash,
           baseline'.acc # 0 =>
               /\ after \in {"rerun_required", "action_required"}
               /\ acceptances'[baseline'.acc].hash = baseline'.hash,
           row[r].state = "action_required" /\ after # row[r].state
               => after = "rerun_required",
           row[r].state = "rerun_required"
               => after \in {"baseline_active", "action_required"}
    PROVE  SerialCore' /\ DriftStaysOpen
  <1> DEFINE rec == Record(r, kind, after, reason, decision, expected)
  <1>1. rec.decision = decision /\ rec.actual = req[r].hash
    BY DEF Record
  <1>2. audit' = Append(audit, rec)
    BY DEF Transition
  <1>3. life'.exists /\ life'.state = after /\ life'.pending = pending
    BY DEF Transition, NextLife
  <1> HIDE DEF rec
  <1>4. audit \in Seq(AuditRows)
    BY DEF TypeOK
  <1>5. audit' # <<>> /\ audit' # audit /\ audit'[Len(audit')] = rec
    BY <1>2, <1>4
  <1>6. SerialCore'
    BY <1>1, <1>3, <1>5 DEF SerialCore, TrustedMatchesBaseline, PendingIsBaseline,
                            PointerOnlyWhileCertifying
  <1>7. life.exists /\ life.state # "baseline_missing" => row[r] = life
    BY RowIsLife
  <1>8. DriftStaysOpen
    BY <1>3, <1>5, <1>7 DEF DriftStaysOpen
  <1>9. QED BY <1>6, <1>8

\* What evaluateCheck decides when there is a baseline to check against.
LEMMA CheckedPosture ==
    ASSUME NEW s \in LifecycleStates, NEW b \in BaselineRows, NEW a \in Hashes, b.exists
    PROVE  LET e == EvaluateCheck(s, b, a) IN
           /\ e.after \in {"baseline_active", "action_required"}
           /\ e.decision = "decision_trusted" =>
                  a = b.hash /\ e.after = "baseline_active"
           /\ s = "action_required" => e.after = "action_required"
           /\ s = "rerun_required" /\ e.after = "baseline_active"
                  => e.reason = "RERUN_PASS"
  <1>1. CASE s \in {"baseline_missing", "baseline_active"}
    BY <1>1 DEF EvaluateCheck, Evaluation, BaselineRows
  <1>2. CASE s = "action_required"
    BY <1>2 DEF EvaluateCheck, Evaluation, BaselineRows
  <1>3. CASE s = "rerun_required"
    BY <1>3 DEF EvaluateCheck, Evaluation, BaselineRows
  <1>4. QED BY <1>1, <1>2, <1>3 DEF LifecycleStates

\* Without a baseline there is nothing to trust and no drift.
LEMMA UncheckedPosture ==
    ASSUME NEW s \in LifecycleStates, NEW b \in BaselineRows, NEW a \in Hashes, ~b.exists
    PROVE  LET e == EvaluateCheck(s, b, a) IN
           e.after = "baseline_missing" /\ e.decision = "decision_blocked"
  BY DEF EvaluateCheck, Evaluation, BaselineRows

LEMMA CheckSerial ==
    ASSUME TypeOK, OptimisticLockNeverMisses, BackedInv, SerialViews, SerialCore,
           NEW r \in Requests, CommitCheck(r)
    PROVE  SerialCore' /\ DriftStaysOpen
  <1> DEFINE e == EvaluateCheck(row[r].state, seen[r], req[r].hash)
  <1>1. /\ row[r].state \in LifecycleStates /\ seen[r] \in BaselineRows
        /\ req[r].hash \in Hashes /\ pc[r] = "commit" /\ seen[r] = baseline
        /\ ~(baseline.exists /\ baseline.needsRebaseline)
    BY DEF CommitCheck, CheckPreconditionFails, TypeOK, LifeRows, SerialViews
  <1>2. e.after = "action_required" => e.pending = seen[r].hash
    BY <1>1, EvaluateCheckType
  <1>3. seen[r].exists =>
           /\ e.after \in {"baseline_active", "action_required"}
           /\ e.decision = "decision_trusted" =>
                  req[r].hash = seen[r].hash /\ e.after = "baseline_active"
           /\ row[r].state = "action_required" => e.after = "action_required"
           /\ row[r].state = "rerun_required" /\ e.after = "baseline_active"
                  => e.reason = "RERUN_PASS"
    BY <1>1, CheckedPosture
  <1>4. ~seen[r].exists => e.after = "baseline_missing" /\ e.decision = "decision_blocked"
    BY <1>1, UncheckedPosture
  <1>5. /\ Transition(r, "check", e.after, e.reason, e.decision, seen[r].hash, e.pending)
        /\ baseline' = IF e.reason = "RERUN_PASS" /\ seen[r].acc # 0
                       THEN [baseline EXCEPT !.acc = 0] ELSE baseline
        /\ acceptances' = acceptances
    BY DEF CommitCheck, RetiresPointer
  <1> HIDE DEF e
  <1>6. /\ baseline'.hash = baseline.hash
        /\ baseline'.needsRebaseline = baseline.needsRebaseline
        /\ baseline'.acc # 0 => /\ baseline'.acc = baseline.acc /\ baseline.acc # 0
                                /\ e.reason # "RERUN_PASS"
    BY <1>1, <1>5 DEF BaselineRows
  <1>7. /\ row[r].state # "baseline_missing" => baseline.exists
        /\ life.exists /\ life.state # "baseline_missing" => row[r] = life
    BY <1>1, EnsuredBacked, RowIsLife DEF Backed
  <1>8. baseline.acc # 0 =>
           /\ life.exists /\ life.state \in {"rerun_required", "action_required"}
           /\ acceptances[baseline.acc].hash = baseline.hash
    BY DEF SerialCore, PointerOnlyWhileCertifying
  <1>a. e.decision = "decision_trusted" =>
           /\ e.after = "baseline_active"
           /\ req[r].hash = baseline'.hash /\ ~baseline'.needsRebaseline
    BY <1>1, <1>3, <1>4, <1>6
  <1>b. e.after = "action_required" => e.pending = baseline'.hash
    BY <1>1, <1>2, <1>6
  <1>c. baseline'.acc # 0 =>
           /\ e.after \in {"rerun_required", "action_required"}
           /\ acceptances'[baseline'.acc].hash = baseline'.hash
    <2>1. SUFFICES ASSUME baseline'.acc # 0
                   PROVE  /\ e.after \in {"rerun_required", "action_required"}
                          /\ acceptances'[baseline'.acc].hash = baseline'.hash
      OBVIOUS
    <2>2. /\ baseline'.acc = baseline.acc /\ baseline.acc # 0 /\ e.reason # "RERUN_PASS"
      BY <1>6, <2>1
    <2>3. row[r].state \in {"rerun_required", "action_required"} /\ seen[r].exists
      BY <1>1, <1>7, <1>8, <2>2
    <2>4. QED BY <1>3, <1>5, <1>6, <1>8, <2>2, <2>3
  <1>d. /\ row[r].state = "action_required" /\ e.after # row[r].state
              => e.after = "rerun_required"
        /\ row[r].state = "rerun_required"
              => e.after \in {"baseline_active", "action_required"}
    BY <1>1, <1>3, <1>7
  <1>9. QED BY <1>1, <1>5, <1>a, <1>b, <1>c, <1>d, RecordedSerial

LEMMA SerialStep ==
    ASSUME TypeOK, OptimisticLockNeverMisses, BackedInv, SerialViews, SerialCore,
           [Next]_vars
    PROVE  SerialCore' /\ DriftStaysOpen
  <1>1. CASE UNCHANGED <<baseline, acceptances, life, audit>>
    BY <1>1 DEF SerialCore, TrustedMatchesBaseline, PendingIsBaseline,
                PointerOnlyWhileCertifying, DriftStaysOpen
  <1>2. CASE Tick \/ UNCHANGED vars
    BY <1>1, <1>2 DEF Tick, vars, db
  <1>3. ASSUME NEW r \in Requests,
               \/ Receive(r) \/ ReadBaseline(r) \/ SelectLifecycle(r)
               \/ InsertLifecycle(r) \/ InsertConflict(r) \/ Abort(r)
        PROVE  UNCHANGED <<baseline, acceptances, life, audit>>
    BY <1>3 DEF Receive, ReadBaseline, SelectLifecycle, InsertLifecycle,
       InsertConflict, Abort, db
  <1>4. ASSUME NEW r \in Requests, Expire(r) PROVE SerialCore' /\ DriftStaysOpen
    <2>1. /\ baseline'.hash = baseline.hash /\ baseline'.acc = 0
          /\ UNCHANGED <<acceptances, life, audit>>
      BY <1>4 DEF Expire
    <2>2. life.state # "baseline_active"
      BY <1>4 DEF Expire, SerialViews, SerialCore, PointerOnlyWhileCertifying
    <2>3. QED BY <2>1, <2>2 DEF SerialCore, TrustedMatchesBaseline, PendingIsBaseline,
                PointerOnlyWhileCertifying, DriftStaysOpen
  <1>5. ASSUME NEW r \in Requests,
               CheckNeedsRebaseline(r) \/ RefuseCreate(r) \/ RefuseAccept(r)
        PROVE  SerialCore' /\ DriftStaysOpen
    <2>1. /\ pc[r] = "commit" /\ life' = row[r]
          /\ UNCHANGED <<baseline, acceptances, audit>>
      BY <1>5 DEF CheckNeedsRebaseline, RefuseCreate, RefuseAccept, Refuse
    <2>2. QED BY <2>1, RefusedSerial
  <1>6. ASSUME NEW r \in Requests, CommitCreate(r) PROVE SerialCore' /\ DriftStaysOpen
    <2>1. /\ pc[r] = "commit" /\ row[r].state = "baseline_missing"
          /\ baseline' = [exists |-> TRUE, hash |-> req[r].hash, acc |-> 0,
                          needsRebaseline |-> FALSE]
          /\ Transition(r, "baseline_create", "baseline_active",
                        "BASELINE_ESTABLISHED", "decision_trusted", NoHash, NoHash)
      BY <1>6 DEF CommitCreate, EvaluateCreateBaseline
    <2>2. baseline'.hash = req[r].hash /\ baseline'.acc = 0 /\ ~baseline'.needsRebaseline
      BY <2>1
    <2>3. QED BY <2>1, <2>2, RecordedSerial
  <1>7. ASSUME NEW r \in Requests, CommitAccept(r) PROVE SerialCore' /\ DriftStaysOpen
    <2>1. /\ pc[r] = "commit" /\ acceptances' = Accepted(r)
          /\ baseline' = [exists |-> TRUE, hash |-> req[r].hash,
                          acc |-> Len(acceptances) + 1, needsRebaseline |-> FALSE]
          /\ Transition(r, "accept_drift", "rerun_required", "none", "none",
                        req[r].expected, NoHash)
      BY <1>7 DEF CommitAccept
    <2>2. row[r].state = "action_required"
      BY <1>7 DEF CommitAccept, AcceptVerdict, EvaluateAccept
    <2>3. acceptances'[baseline'.acc].hash = baseline'.hash
      <3>1. acceptances \in Seq([hash : Hashes, reviewBy : Nat])
        BY DEF TypeOK
      <3>2. QED BY <2>1, <3>1 DEF Accepted
    <2>4. QED BY <2>1, <2>2, <2>3, RecordedSerial
  <1>8. QED
    BY <1>1, <1>2, <1>3, <1>4, <1>5, <1>6, <1>7, CheckSerial DEF Next, Serve

-----------------------------------------------------------------------------
SerialInv == lane = "serial" => SerialViews /\ SerialCore

LEMMA SerialInvInit == Init => SerialInv
  <1> SUFFICES ASSUME Init PROVE SerialInv
    OBVIOUS
  <1>1. baseline.acc = 0
    BY DEF Init, NoBaseline, LegacyBaseline
  <1>2. QED BY <1>1 DEF Init, SerialInv, SerialViews, SerialCore, TrustedMatchesBaseline,
             PendingIsBaseline, PointerOnlyWhileCertifying, NoLife

LEMMA SerialInvStep ==
    TypeOK /\ OptimisticLockNeverMisses /\ BackedInv /\ LaneInv /\ LaneInv' /\ SerialInv
    /\ [LaneNext]_<<vars, lane>>
      => SerialInv' /\ (lane = "serial" => DriftStaysOpen)
  <1> SUFFICES ASSUME TypeOK, OptimisticLockNeverMisses, BackedInv, LaneInv, LaneInv',
                      SerialInv, [LaneNext]_<<vars, lane>>, lane = "serial"
               PROVE  SerialInv' /\ DriftStaysOpen
    BY DEF LaneNext, SerialInv
  <1>1. lane' = "serial" /\ [Next]_vars
    BY DEF LaneNext
  <1>2. InFlight \subseteq {SerialSlot} /\ InFlight' \subseteq {SerialSlot}
    BY <1>1 DEF LaneInv, LaneBound
  <1>3. SerialViews /\ SerialCore
    BY DEF SerialInv
  <1>4. SerialViews'
    BY <1>1, <1>2, <1>3, ViewsStep
  <1>5. SerialCore' /\ DriftStaysOpen
    BY <1>1, <1>3, SerialStep
  <1>6. QED BY <1>4, <1>5 DEF SerialInv

\* The invariants of all interleavings, in the lanes.
LEMMA LanesFacts ==
    LaneSpec => [](TypeOK /\ OptimisticLockNeverMisses /\ BackedInv)
  <1>1. Spec => [](TypeOK /\ OptimisticLockNeverMisses)
    BY TypeCorrect, OptimisticLockSafe, PTL
  <1>2. Spec => []BackedInv
    BY <1>1, BackedInit, BackedStep, PTL DEF Spec
  <1>3. QED BY <1>1, <1>2, LanesImplementFsm, PTL

\* When requests come one after the other, the last trusted verdict is for the baseline
\* in force, the hash offered for accept is that baseline's, and the acceptance of a
\* drift is pointed at until its rerun.
THEOREM SerialBaselineSafe == LaneSpec => []SerialBaseline
  <1>1. SerialInv => SerialBaseline
    BY DEF SerialInv, SerialCore, SerialBaseline
  <1>2. QED BY <1>1, SerialInvInit, SerialInvStep, LanesFacts, LaneInvariant, PTL
            DEF LaneSpec

\* When requests come one after the other, drift is closed only by an accept, and a
\* required rerun is answered only by a check.
THEOREM SerialLoopClosed == LaneSpec => SerialClosedLoop
  <1>1. TypeOK /\ OptimisticLockNeverMisses /\ BackedInv /\ LaneInv /\ LaneInv' /\ SerialInv
        /\ [LaneNext]_<<vars, lane>>
          => [lane = "serial" => DriftStaysOpen]_<<vars, lane>>
    BY SerialInvStep
  <1>2. LaneSpec => []SerialInv
    BY SerialInvInit, SerialInvStep, LanesFacts, LaneInvariant, PTL DEF LaneSpec
  <1>3. QED BY <1>1, <1>2, LanesFacts, LaneInvariant, PTL DEF LaneSpec, SerialClosedLoop

-----------------------------------------------------------------------------
(* The replay of a history, event by event. *)

\* A set of naturals has a least one: the inductions below look at the first event for
\* which they would fail.
LEMMA LeastNumber ==
    ASSUME NEW T \in SUBSET Nat, T # {} PROVE \E n \in T : \A k \in T : ~(k < n)
  <1>1. PICK Less : Less = OpToRel(<, Nat)
    OBVIOUS
  <1>2. IsWellFoundedOn(Less, Nat)
    BY <1>1, NatLessThanWellFounded
  <1>3. \A k, n \in Nat : k < n => <<k, n>> \in Less
    BY <1>1 DEF OpToRel
  <1>4. \E n \in T : \A k \in T : <<k, n>> \notin Less
    <2> HIDE <1>1
    <2> QED BY <1>2, WFMin
  <1>5. QED BY <1>3, <1>4

\* The postures after the first n events.
Follows(f, events, n) ==
    f = [i \in 0 .. n |-> IF i = 0 THEN Start ELSE ApplyEvent(f[i - 1], events[i])]

LEMMA ReplayedExists ==
    ASSUME NEW events, NEW n \in Nat PROVE \E f : Follows(f, events, n)
  <1> DEFINE T == {k \in Nat : ~\E f : Follows(f, events, k)}
  <1>1. ASSUME T # {} PROVE FALSE
    <2>1. PICK k \in T : \A j \in T : ~(j < k)
      <3>1. T \in SUBSET Nat
        OBVIOUS
      <3> HIDE DEF T
      <3> QED BY <1>1, <3>1, LeastNumber
    <2>2. k \in Nat /\ ~\E f : Follows(f, events, k)
      OBVIOUS
    <2>3. CASE k = 0
      <3> DEFINE f == [i \in 0 .. 0 |-> Start]
      <3>1. Follows(f, events, 0)
        BY DEF Follows
      <3> QED BY <2>2, <2>3, <3>1
    <2>4. CASE k # 0
      <3>1. k - 1 \in Nat /\ k - 1 < k
        BY <2>2, <2>4
      <3>2. k - 1 \notin T
        BY <2>1, <3>1
      <3>3. PICK f : Follows(f, events, k - 1)
        BY <3>1, <3>2
      <3> DEFINE g == [i \in 0 .. k |-> IF i = 0 THEN Start ELSE ApplyEvent(f[i - 1], events[i])]
      <3>4. ASSUME NEW i \in 0 .. k - 1 PROVE g[i] = f[i]
        BY <3>3, <2>2 DEF Follows
      <3>5. \A i \in 0 .. k : i # 0 => g[i - 1] = f[i - 1]
        BY <3>4, <2>2
      <3>6. g = [i \in 0 .. k |-> IF i = 0 THEN Start ELSE ApplyEvent(g[i - 1], events[i])]
        BY <3>5
      <3> QED BY <2>2, <3>6 DEF Follows
    <2> QED BY <2>3, <2>4
  <1>2. QED BY <1>1

\* The replay of one event more.
LEMMA ReplayAppend ==
    ASSUME NEW E, NEW events \in Seq(E), NEW ev \in E
    PROVE  Replay(Append(events, ev)) = ApplyEvent(Replay(events), ev)
  <1> DEFINE more == Append(events, ev)
  <1> PICK n \in Nat : n = Len(events)
    OBVIOUS
  <1>1. /\ Len(more) = n + 1 /\ more[n + 1] = ev
        /\ \A i \in 1 .. n : more[i] = events[i]
    OBVIOUS
  <1> HIDE DEF more
  <1> PICK f : f = Replayed(events)
    OBVIOUS
  <1> PICK g : g = Replayed(more)
    OBVIOUS
  <1>2. Follows(f, events, n)
    BY ReplayedExists DEF Replayed, Follows
  <1>3. Follows(g, more, n + 1)
    <2>1. \E h : Follows(h, more, n + 1)
      <3>1. n + 1 \in Nat
        OBVIOUS
      <3> QED BY ONLY <3>1, ReplayedExists
    <2> QED BY <1>1, <2>1 DEF Replayed, Follows
  <1>4. /\ f[0] = Start /\ g[0] = Start
        /\ \A i \in 1 .. n : f[i] = ApplyEvent(f[i - 1], events[i])
        /\ \A i \in 1 .. n + 1 : g[i] = ApplyEvent(g[i - 1], more[i])
    BY <1>2, <1>3 DEF Follows
  <1> DEFINE T == {i \in Nat : i <= n /\ g[i] # f[i]}
  <1>5. ASSUME T # {} PROVE FALSE
    <2>1. PICK k \in T : \A j \in T : ~(j < k)
      <3>1. T \in SUBSET Nat
        OBVIOUS
      <3> HIDE DEF T
      <3> QED BY <1>5, <3>1, LeastNumber
    <2>2. k \in 1 .. n /\ g[k] # f[k]
      BY <1>4
    <2>3. k - 1 \notin T
      BY <2>1, <2>2
    <2>4. g[k - 1] = f[k - 1]
      BY <2>2, <2>3
    <2> QED BY <1>1, <1>4, <2>2, <2>4
  <1>6. g[n] = f[n]
    BY <1>5
  <1>7. g[n + 1] = ApplyEvent(f[n], ev)
    BY <1>1, <1>4, <1>6
  <1>8. QED BY <1>1, <1>7 DEF Replay, more

LEMMA ReplayEmpty == Replay(<<>>) = Start
  <1>1. PICK f : f = Replayed(<<>>)
    OBVIOUS
  <1>2. Follows(f, <<>>, 0)
    BY <1>1, ReplayedExists DEF Replayed, Follows
  <1>3. f[0] = Start
    BY <1>2 DEF Follows
  <1>4. QED BY <1>1, <1>3 DEF Replay

-----------------------------------------------------------------------------
(* The history of a trail, and what its next record adds to it. *)

Kinds == {"baseline_created", "drift_accepted", "drift_detected", "check_pass"}
ReducerEvents ==
    [kind : Kinds, expected : Hashes \cup {NoHash}, hash : Hashes \cup {NoHash}]

LEMMA NormalizedType ==
    ASSUME NEW x \in AuditRows PROVE Normalized(x) \in ReducerEvents
  BY DEF AuditRows, Normalized, Event, ReducerEvents, Kinds

LEMMA LegacyType ==
    ASSUME NEW x \in AuditRows
    PROVE  /\ Legacy(x) \in Seq(ReducerEvents)
           /\ Replay(Legacy(x)) =
                 IF x.kind = "check" /\ x.expected # NoHash
                 THEN Posture("baseline_active", x.expected, NoHash) ELSE Start
  <1>1. CASE x.kind = "check" /\ x.expected # NoHash
    <2> DEFINE ev == Event("baseline_created", NoHash, x.expected)
    <2>1. ev \in ReducerEvents
      BY DEF AuditRows, Event, ReducerEvents, Kinds
    <2>2. ev.kind = "baseline_created" /\ ev.hash = x.expected
      BY DEF Event
    <2>3. Legacy(x) = <<ev>>
      BY <1>1 DEF Legacy
    <2> HIDE DEF ev
    <2>4. <<>> \in Seq(ReducerEvents) /\ Append(<<>>, ev) = <<ev>>
      BY <2>1
    <2>5. Replay(<<ev>>) = ApplyEvent(Start, ev)
      BY <2>1, <2>4, ReplayAppend, ReplayEmpty
    <2>6. ApplyEvent(Start, ev) = Posture("baseline_active", x.expected, NoHash)
      BY <2>2 DEF ApplyEvent, Start, Unmappable, Posture
    <2>7. QED BY <1>1, <2>1, <2>3, <2>5, <2>6
  <1>2. CASE ~(x.kind = "check" /\ x.expected # NoHash)
    BY <1>2, ReplayEmpty DEF Legacy
  <1>3. QED BY <1>1, <1>2

LEMMA AppendAfter ==
    ASSUME NEW E, NEW s \in Seq(E), NEW t \in Seq(E), NEW e \in E
    PROVE  s \o Append(t, e) = Append(s \o t, e)
  <1>1. <<e>> \in Seq(E) /\ s \o t \in Seq(E)
    OBVIOUS
  <1>2. Append(t, e) = t \o <<e>> /\ Append(s \o t, e) = (s \o t) \o <<e>>
    BY <1>1, AppendIsConcat
  <1>3. QED BY <1>1, <1>2, ConcatAssociative

\* One record more is one event more, and the first record may bring its baseline.
LEMMA HistoryGrows ==
    ASSUME NEW trail \in Seq(AuditRows), NEW rec \in AuditRows
    PROVE  LET before == IF trail = <<>> THEN Legacy(rec) ELSE History(trail) IN
           /\ before \in Seq(ReducerEvents)
           /\ History(Append(trail, rec)) = Append(before, Normalized(rec))
  <1> DEFINE norm(t) == [i \in DOMAIN t |-> Normalized(t[i])]
             more == Append(trail, rec)
  <1>1. ASSUME NEW t \in Seq(AuditRows) PROVE norm(t) \in Seq(ReducerEvents)
    <2>1. \A i \in DOMAIN t : t[i] \in AuditRows
      OBVIOUS
    <2>2. \A i \in DOMAIN t : Normalized(t[i]) \in ReducerEvents
      BY <2>1, NormalizedType
    <2>3. DOMAIN t = 1 .. Len(t) /\ Len(t) \in Nat
      OBVIOUS
    <2> QED BY <2>2, <2>3
  <1>2. norm(more) = Append(norm(trail), Normalized(rec))
    OBVIOUS
  <1>3. Normalized(rec) \in ReducerEvents /\ Legacy(rec) \in Seq(ReducerEvents)
    BY NormalizedType, LegacyType
  <1>4. CASE trail = <<>>
    <2>1. more[1] = rec /\ norm(trail) = <<>>
      BY <1>4
    <2>2. History(more) = Legacy(rec) \o Append(<<>>, Normalized(rec))
      BY <1>2, <2>1 DEF History
    <2> HIDE DEF norm, more
    <2>3. Legacy(rec) \o Append(<<>>, Normalized(rec)) = Append(Legacy(rec), Normalized(rec))
      BY <1>3
    <2> QED BY <1>3, <1>4, <2>2, <2>3 DEF more
  <1>5. CASE trail # <<>>
    <2>1. more[1] = trail[1] /\ trail[1] \in AuditRows
      BY <1>5
    <2>2. Legacy(trail[1]) \in Seq(ReducerEvents)
      BY <2>1, LegacyType
    <2>3. norm(trail) \in Seq(ReducerEvents)
      BY <1>1
    <2>4. History(more) = Legacy(trail[1]) \o norm(more) /\ History(trail) = Legacy(trail[1]) \o norm(trail)
      BY <2>1 DEF History
    <2> HIDE DEF norm, more
    <2>5. Legacy(trail[1]) \o Append(norm(trail), Normalized(rec))
             = Append(Legacy(trail[1]) \o norm(trail), Normalized(rec))
      BY ONLY <1>3, <2>2, <2>3, AppendAfter
    <2>6. History(trail) \in Seq(ReducerEvents)
      BY <2>2, <2>3, <2>4
    <2> QED BY <1>2, <1>5, <2>4, <2>5, <2>6 DEF more
  <1>6. QED BY <1>4, <1>5

\* A history that does not fit never fits again.
LEMMA UnmappableStays ==
    ASSUME NEW ev PROVE ApplyEvent(Unmappable, ev) = Unmappable
  BY DEF ApplyEvent

-----------------------------------------------------------------------------
(* The server and the reducer, transition by transition. *)

\* The stored history replays to the stored posture; before the first transition of a
\* workflow its posture is that of its baseline.
ReplayCore ==
    /\ ~baseline.exists => baseline.hash = NoHash
    /\ life.exists /\ life.state = "baseline_missing" => ~baseline.exists
    /\ audit = <<>> /\ life.exists => life.state \in {"baseline_missing", "baseline_active"}
    /\ audit # <<>> =>
          /\ life.exists
          /\ Replay(History(audit)) =
                IF Repeats(audit) THEN Unmappable
                ELSE Posture(life.state, baseline.hash, life.pending)

\* A check moves the server and the reducer alike.
LEMMA CheckReplayed ==
    ASSUME NEW s \in LifecycleStates, NEW b \in BaselineRows, NEW a \in Hashes,
           s = "baseline_missing" <=> ~b.exists,
           b.exists <=> b.hash # NoHash, NEW x \in AuditRows, x.kind = "check",
           NEW e, e = EvaluateCheck(s, b, a),
           x.reason = e.reason, x.expected = b.hash, x.actual = a
    PROVE  ApplyEvent(Posture(s, b.hash, IF s = "action_required" THEN b.hash ELSE NoHash),
                      Normalized(x))
             = IF x.reason = "REMEDIATION_ACK_REQUIRED" THEN Unmappable
               ELSE Posture(e.after, b.hash, e.pending)
  <1> DEFINE st == Posture(s, b.hash, IF s = "action_required" THEN b.hash ELSE NoHash)
  <1>1. st # Unmappable /\ st.lifecycle = s /\ st.hash = b.hash
        /\ st.pending = IF s = "action_required" THEN b.hash ELSE NoHash
    BY DEF Posture, Unmappable
  <1> HIDE DEF st
  <1>2. x.reason = "DRIFT_DETECTED" =>
           ApplyEvent(st, Normalized(x)) = Posture("action_required", b.hash, b.hash)
    <2>1. x.reason = "DRIFT_DETECTED" =>
             Normalized(x).kind = "drift_detected" /\ Normalized(x).expected = b.hash
      BY DEF Normalized, Event
    <2> QED BY <1>1, <2>1 DEF ApplyEvent
  <1>3. x.reason # "DRIFT_DETECTED" => ApplyEvent(st, Normalized(x)) = ApplyCheckPass(st, a)
    <2>1. x.reason # "DRIFT_DETECTED" =>
             Normalized(x).kind = "check_pass" /\ Normalized(x).hash = a
      BY DEF Normalized, Event
    <2> QED BY <1>1, <2>1 DEF ApplyEvent
  <1>4. CASE ~b.exists
    <2>1. e.reason = "BASELINE_MISSING" /\ e.after = "baseline_missing" /\ e.pending = NoHash
      BY <1>4 DEF EvaluateCheck, Evaluation
    <2>2. ApplyCheckPass(st, a) = Posture("baseline_missing", b.hash, NoHash)
      BY <1>1, <1>4 DEF ApplyCheckPass
    <2> QED BY <1>3, <2>1, <2>2 DEF st
  <1>5. CASE b.exists /\ a = b.hash
    <2>1. CASE s = "baseline_active"
      <3>1. e.reason = "CHECK_MATCH" /\ e.after = "baseline_active" /\ e.pending = NoHash
        BY <1>5, <2>1 DEF EvaluateCheck, Evaluation
      <3>2. ApplyCheckPass(st, a) = Posture("baseline_active", b.hash, NoHash)
        BY <1>1, <1>5, <2>1 DEF ApplyCheckPass
      <3> QED BY <1>3, <3>1, <3>2 DEF st
    <2>2. CASE s = "action_required"
      <3>1. e.reason = "REMEDIATION_ACK_REQUIRED"
        BY <1>5, <2>2 DEF EvaluateCheck, Evaluation
      <3>2. ApplyCheckPass(st, a) = Unmappable
        BY <1>1, <1>5, <2>2 DEF ApplyCheckPass
      <3> QED BY <1>3, <3>1, <3>2 DEF st
    <2>3. CASE s = "rerun_required"
      <3>1. e.reason = "RERUN_PASS" /\ e.after = "baseline_active" /\ e.pending = NoHash
        BY <1>5, <2>3 DEF EvaluateCheck, Evaluation
      <3>2. ApplyCheckPass(st, a) = Posture("baseline_active", b.hash, NoHash)
        BY <1>1, <1>5, <2>3 DEF ApplyCheckPass
      <3> QED BY <1>3, <3>1, <3>2 DEF st
    <2> QED BY <1>5, <2>1, <2>2, <2>3 DEF LifecycleStates
  <1>6. CASE b.exists /\ a # b.hash
    <2>1. /\ e.reason \in {"DRIFT_DETECTED", "RERUN_FAIL"}
          /\ e.after = "action_required" /\ e.pending = b.hash
      <3>1. CASE s = "baseline_active"
        BY <1>6, <3>1 DEF EvaluateCheck, Evaluation, PendingHash
      <3>2. CASE s = "action_required"
        BY <1>6, <3>2 DEF EvaluateCheck, Evaluation, PendingHash
      <3>3. CASE s = "rerun_required"
        BY <1>6, <3>3 DEF EvaluateCheck, Evaluation, PendingHash
      <3> QED BY <1>6, <3>1, <3>2, <3>3 DEF LifecycleStates
    <2>2. ApplyCheckPass(st, a) = Posture("action_required", b.hash, b.hash)
      BY <1>1, <1>6 DEF ApplyCheckPass
    <2> QED BY <1>2, <1>3, <2>1, <2>2 DEF st
  <1>7. QED BY <1>4, <1>5, <1>6

\* The posture a transition starts from, in the reducer's terms.
From(r) == Posture(row[r].state, baseline.hash, row[r].pending)

\* What a serial transition finds: a posture of its baseline, the one stored last.
LEMMA FoundSerial ==
    ASSUME TypeOK, OptimisticLockNeverMisses, BackedInv, SerialViews, SerialCore, ReplayCore,
           NEW r \in Requests, pc[r] = "commit"
    PROVE  /\ row[r] \in LifeRows /\ seen[r] = baseline /\ baseline \in BaselineRows
           /\ row[r].state = "baseline_missing" <=> ~baseline.exists
           /\ baseline.exists <=> baseline.hash # NoHash
           /\ row[r].pending =
                 IF row[r].state = "action_required" THEN baseline.hash ELSE NoHash
           /\ audit = <<>> => row[r].state \in {"baseline_missing", "baseline_active"}
           /\ audit # <<>> => row[r] = life
           /\ life.exists /\ life.state = "baseline_missing" => row[r] = life
  <1>1. /\ life \in LifeRows /\ row[r] \in LifeRows
        /\ seen[r] = baseline /\ baseline \in BaselineRows
    BY DEF TypeOK, SerialViews
  <1>2. row[r] = IF life.exists THEN Repaired(life, seen[r].exists)
                 ELSE [exists |-> TRUE, state |-> InferLifecycle(seen[r].exists),
                       version |-> 0, pending |-> NoHash]
    BY DEF OptimisticLockNeverMisses
  <1>3. Backed(row[r], baseline)
    BY EnsuredBacked
  <1>4. baseline.exists <=> baseline.hash # NoHash
    BY <1>1, FsmAssumption DEF BackedInv, ReplayCore, BaselineRows
  <1>5. life.exists => row[r] = life \/ (life.state = "baseline_missing" /\ baseline.exists)
    BY <1>1, <1>2 DEF Repaired
  <1>6. life.exists => row[r] = life
    BY <1>5 DEF ReplayCore
  <1>7. ~life.exists => row[r].state = InferLifecycle(baseline.exists)
    BY <1>1, <1>2
  <1>8. row[r].state = "baseline_missing" <=> ~baseline.exists
    BY <1>3, <1>6, <1>7 DEF Backed, InferLifecycle, ReplayCore
  <1>9. row[r].state = "action_required" => row[r].pending = baseline.hash
    BY <1>6, <1>7 DEF SerialCore, PendingIsBaseline, InferLifecycle
  <1>10. audit = <<>> => row[r].state \in {"baseline_missing", "baseline_active"}
    BY <1>6, <1>7 DEF ReplayCore, InferLifecycle
  <1>11. audit # <<>> => life.exists
    BY DEF ReplayCore
  <1>12. QED BY <1>1, <1>3, <1>4, <1>6, <1>8, <1>9, <1>10, <1>11 DEF Backed

\* A transition that moves the reducer as it moves the server keeps the two together.
LEMMA RecordedReplay ==
    ASSUME TypeOK, OptimisticLockNeverMisses, BackedInv, SerialViews, SerialCore, ReplayCore,
           NEW r \in Requests, pc[r] = "commit",
           NEW kind, NEW after, NEW reason, NEW decision, NEW expected, NEW pending,
           Transition(r, kind, after, reason, decision, expected, pending),
           TypeOK',
           kind = "check" => expected = baseline.hash,
           kind # "check" /\ audit = <<>> => row[r].state = "baseline_missing",
           after = "baseline_missing" => ~baseline'.exists,
           ~baseline'.exists => baseline'.hash = NoHash,
           ApplyEvent(From(r), Normalized(Record(r, kind, after, reason, decision, expected)))
             = IF reason = "REMEDIATION_ACK_REQUIRED" THEN Unmappable
               ELSE Posture(after, baseline'.hash, pending)
    PROVE  ReplayCore'
  <1> PICK rec \in AuditRows : rec = Record(r, kind, after, reason, decision, expected)
    <2> DEFINE x == Record(r, kind, after, reason, decision, expected)
    <2>1. audit \in Seq(AuditRows) /\ audit' \in Seq(AuditRows) /\ audit' = Append(audit, x)
      BY DEF TypeOK, Transition
    <2> HIDE DEF x
    <2>2. Len(audit) + 1 \in DOMAIN audit' /\ audit'[Len(audit) + 1] = x
      BY <2>1
    <2>3. x \in AuditRows
      BY <2>1, <2>2
    <2> QED BY <2>3 DEF x
  <1>1. rec.kind = kind /\ rec.reason = reason /\ rec.expected = expected
    BY DEF Record
  <1>2. /\ audit' = Append(audit, rec) /\ audit \in Seq(AuditRows)
        /\ life'.exists /\ life'.state = after /\ life'.pending = pending
    BY DEF Transition, NextLife, TypeOK
  <1>3. audit' # <<>>
    BY <1>2
  <1>4. Repeats(audit') <=> Repeats(audit) \/ reason = "REMEDIATION_ACK_REQUIRED"
    <2> PICK n \in Nat : n = Len(audit)
      BY <1>2
    <2>1. /\ DOMAIN audit = 1 .. n /\ DOMAIN audit' = 1 .. n + 1 /\ audit'[n + 1] = rec
          /\ \A i \in 1 .. n : audit'[i] = audit[i]
      BY <1>2
    <2> QED BY <1>1, <2>1 DEF Repeats
  <1>5. PICK before \in Seq(ReducerEvents) :
           /\ before = IF audit = <<>> THEN Legacy(rec) ELSE History(audit)
           /\ History(audit') = Append(before, Normalized(rec))
    BY <1>2, HistoryGrows
  <1>6. Replay(History(audit')) = ApplyEvent(Replay(before), Normalized(rec))
    BY <1>5, NormalizedType, ReplayAppend
  <1>7. Replay(before) = IF Repeats(audit) THEN Unmappable ELSE From(r)
    <2>1. CASE audit = <<>>
      <3>1. ~Repeats(audit)
        BY <2>1 DEF Repeats
      <3>2. Replay(before) = IF rec.kind = "check" /\ rec.expected # NoHash
                             THEN Posture("baseline_active", rec.expected, NoHash) ELSE Start
        BY <1>5, <2>1, LegacyType
      <3>3. Replay(before) = From(r)
        BY <1>1, <2>1, <3>2, FoundSerial DEF From, Start, Posture
      <3> QED BY <3>1, <3>3
    <2>2. CASE audit # <<>>
      BY <1>5, <2>2, FoundSerial DEF From, ReplayCore
    <2> QED BY <2>1, <2>2
  <1>8. Replay(History(audit')) = IF Repeats(audit') THEN Unmappable
                                  ELSE Posture(life'.state, baseline'.hash, life'.pending)
    BY <1>2, <1>4, <1>6, <1>7, UnmappableStays
  <1>9. QED BY <1>2, <1>3, <1>8 DEF ReplayCore

LEMMA CheckKeepsReplay ==
    ASSUME TypeOK, TypeOK', OptimisticLockNeverMisses, BackedInv, SerialViews, SerialCore,
           ReplayCore, NEW r \in Requests, CommitCheck(r)
    PROVE  ReplayCore'
  <1> PICK e : e = EvaluateCheck(row[r].state, seen[r], req[r].hash)
    OBVIOUS
  <1> DEFINE x == Record(r, "check", e.after, e.reason, e.decision, seen[r].hash)
  <1>1. /\ pc[r] = "commit" /\ req[r].hash \in Hashes
        /\ Transition(r, "check", e.after, e.reason, e.decision, seen[r].hash, e.pending)
        /\ baseline' = baseline \/ baseline' = [baseline EXCEPT !.acc = 0]
    BY DEF CommitCheck, TypeOK
  <1>2. /\ row[r].state \in LifecycleStates /\ seen[r] = baseline /\ baseline \in BaselineRows
        /\ row[r].state = "baseline_missing" <=> ~baseline.exists
        /\ baseline.exists <=> baseline.hash # NoHash
        /\ row[r].pending = IF row[r].state = "action_required" THEN baseline.hash ELSE NoHash
    BY <1>1, FoundSerial DEF LifeRows
  <1>3. baseline'.hash = baseline.hash /\ baseline'.exists = baseline.exists
    BY <1>1, <1>2 DEF BaselineRows
  <1>4. e.after = "baseline_missing" => ~baseline.exists
    BY <1>1, <1>2, CheckedPosture
  <1>5. /\ x \in AuditRows /\ x.kind = "check" /\ x.reason = e.reason
        /\ x.expected = baseline.hash /\ x.actual = req[r].hash
    <2>1. /\ x.kind = "check" /\ x.reason = e.reason
          /\ x.expected = baseline.hash /\ x.actual = req[r].hash
      BY <1>2 DEF Record
    <2>2. audit \in Seq(AuditRows) /\ audit' \in Seq(AuditRows) /\ audit' = Append(audit, x)
      BY <1>1 DEF TypeOK, Transition
    <2> HIDE DEF x
    <2>3. Len(audit) + 1 \in DOMAIN audit' /\ audit'[Len(audit) + 1] = x
      BY <2>2
    <2> QED BY <2>1, <2>2, <2>3
  <1> HIDE DEF x
  <1>6. ApplyEvent(From(r), Normalized(x))
          = IF e.reason = "REMEDIATION_ACK_REQUIRED" THEN Unmappable
            ELSE Posture(e.after, baseline.hash, e.pending)
    BY <1>1, <1>2, <1>5, CheckReplayed DEF From
  <1>7. ~baseline'.exists => baseline'.hash = NoHash
    BY <1>2, <1>3
  <1> QED BY <1>1, <1>2, <1>3, <1>4, <1>6, <1>7, RecordedReplay DEF x

\* Each step of a serial behaviour keeps the history and the posture together.
LEMMA ReplayStep ==
    ASSUME TypeOK, TypeOK', OptimisticLockNeverMisses, BackedInv, SerialViews, SerialCore,
           ReplayCore, [Next]_vars
    PROVE  ReplayCore'
  <1>1. CASE UNCHANGED <<baseline, life, audit>>
    BY <1>1 DEF ReplayCore
  <1>2. CASE Tick \/ UNCHANGED vars
    BY <1>1, <1>2 DEF Tick, vars, db
  <1>3. ASSUME NEW r \in Requests,
               \/ Receive(r) \/ ReadBaseline(r) \/ SelectLifecycle(r)
               \/ InsertLifecycle(r) \/ InsertConflict(r) \/ Abort(r)
        PROVE  UNCHANGED <<baseline, life, audit>>
    BY <1>3 DEF Receive, ReadBaseline, SelectLifecycle, InsertLifecycle,
       InsertConflict, Abort, db
  <1>4. ASSUME NEW r \in Requests, Expire(r) PROVE ReplayCore'
    <2>1. baseline'.hash = baseline.hash /\ baseline'.exists = baseline.exists
          /\ UNCHANGED <<life, audit>>
      BY <1>4 DEF Expire
    <2>2. QED BY <2>1 DEF ReplayCore
  <1>5. ASSUME NEW r \in Requests,
               CheckNeedsRebaseline(r) \/ RefuseCreate(r) \/ RefuseAccept(r)
        PROVE  ReplayCore'
    <2>1. pc[r] = "commit" /\ life' = row[r] /\ UNCHANGED <<baseline, audit>>
      BY <1>5 DEF CheckNeedsRebaseline, RefuseCreate, RefuseAccept, Refuse
    <2>2. row[r].exists
      BY <2>1, RowIsLife
    <2>3. QED BY <2>1, <2>2, FoundSerial DEF ReplayCore
  <1>6. ASSUME NEW r \in Requests, CommitCreate(r) PROVE ReplayCore'
    <2> DEFINE x == Record(r, "baseline_create", "baseline_active", "BASELINE_ESTABLISHED",
                           "decision_trusted", NoHash)
    <2>1. /\ pc[r] = "commit" /\ row[r].state = "baseline_missing"
          /\ baseline'.hash = req[r].hash /\ baseline'.exists
          /\ Transition(r, "baseline_create", "baseline_active",
                        "BASELINE_ESTABLISHED", "decision_trusted", NoHash, NoHash)
      BY <1>6 DEF CommitCreate, EvaluateCreateBaseline
    <2>2. Normalized(x).kind = "baseline_created" /\ Normalized(x).hash = req[r].hash
      BY DEF Record, Normalized, Event
    <2> HIDE DEF x
    <2>3. From(r) # Unmappable
      BY <2>1 DEF From, Posture, Unmappable
    <2>4. ApplyEvent(From(r), Normalized(x)) = Posture("baseline_active", req[r].hash, NoHash)
      BY <2>2, <2>3 DEF ApplyEvent
    <2>5. QED BY <2>1, <2>4, RecordedReplay DEF x
  <1>7. ASSUME NEW r \in Requests, CommitAccept(r) PROVE ReplayCore'
    <2> DEFINE x == Record(r, "accept_drift", "rerun_required", "none", "none", req[r].expected)
    <2>1. /\ pc[r] = "commit" /\ row[r].state = "action_required"
          /\ baseline'.hash = req[r].hash /\ baseline'.exists
          /\ Transition(r, "accept_drift", "rerun_required", "none", "none",
                        req[r].expected, NoHash)
      BY <1>7 DEF CommitAccept, AcceptVerdict, EvaluateAccept
    <2>2. Normalized(x).kind = "drift_accepted" /\ Normalized(x).hash = req[r].hash
      BY DEF Record, Normalized, Event
    <2> HIDE DEF x
    <2>3. From(r) # Unmappable
      BY <2>1 DEF From, Posture, Unmappable
    <2>4. ApplyEvent(From(r), Normalized(x)) = Posture("rerun_required", req[r].hash, NoHash)
      BY <2>2, <2>3 DEF ApplyEvent
    <2>5. audit # <<>>
      BY <2>1, FoundSerial
    <2>6. QED BY <2>1, <2>4, <2>5, RecordedReplay DEF x
  <1>8. QED
    BY <1>1, <1>2, <1>3, <1>4, <1>5, <1>6, <1>7, CheckKeepsReplay DEF Next, Serve

\* SerialInv with the replay.
ReplayInv == lane = "serial" => SerialViews /\ SerialCore /\ ReplayCore

LEMMA ReplayInvStep ==
    TypeOK /\ TypeOK' /\ OptimisticLockNeverMisses /\ BackedInv /\ LaneInv /\ LaneInv'
    /\ ReplayInv /\ [LaneNext]_<<vars, lane>> => ReplayInv'
  <1> SUFFICES ASSUME TypeOK, TypeOK', OptimisticLockNeverMisses, BackedInv, LaneInv, LaneInv',
                      ReplayInv, [LaneNext]_<<vars, lane>>
               PROVE  ReplayInv'
    OBVIOUS
  <1>1. lane' = lane /\ [Next]_vars
    BY DEF LaneNext
  <1>2. CASE lane # "serial"
    BY <1>1, <1>2 DEF ReplayInv
  <1>3. CASE lane = "serial"
    <2>1. SerialViews /\ SerialCore /\ ReplayCore
      BY <1>3 DEF ReplayInv
    <2>2. SerialViews' /\ SerialCore'
      BY <2>1, <1>1, <1>3, SerialInvStep DEF SerialInv
    <2>3. ReplayCore'
      BY <2>1, <1>1, ReplayStep
    <2>4. QED BY <2>2, <2>3 DEF ReplayInv
  <1>4. QED BY <1>2, <1>3

\* When requests come one after the other, the reducer of the backfill derives from the
\* stored history of a workflow the posture, the baseline and the pending hash that its
\* rows hold, or finds that the history repeats open drift (applyFsmNormalizedEvent).
THEOREM SerialReplaySafe == LaneSpec => []SerialReplay
  <1>1. Init => ReplayInv
    <2> SUFFICES ASSUME Init PROVE ReplayInv
      OBVIOUS
    <2>1. ReplayCore
      BY DEF Init, ReplayCore, NoLife, NoBaseline, LegacyBaseline
    <2>2. QED BY <2>1, SerialInvInit DEF SerialInv, ReplayInv
  <1>2. ReplayInv => SerialReplay
    BY DEF ReplayInv, ReplayCore, SerialReplay
  <1>3. QED BY <1>1, <1>2, ReplayInvStep, LanesFacts, LaneInvariant, PTL DEF LaneSpec

=============================================================================
