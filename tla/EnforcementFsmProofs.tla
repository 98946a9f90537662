------------------------ MODULE EnforcementFsmProofs ------------------------
(***************************************************************************)
(* Safety of EnforcementFsm for any number of request slots, any hashes    *)
(* and any bounds.                                                         *)
(***************************************************************************)
EXTENDS EnforcementFsm, TLAPS

USE DEF LifecycleStates, DecisionStates, TrustBlockedReasonCodes,
        DecisionReasonCodes, ResponseCodes

(* What the evaluators return. *)

LEMMA InferLifecycleType ==
    ASSUME NEW b \in BOOLEAN
    PROVE  InferLifecycle(b) \in LifecycleStates
  BY DEF InferLifecycle

LEMMA EvaluateCheckType ==
    ASSUME NEW s \in LifecycleStates, NEW b \in BaselineRows, NEW a \in Hashes
    PROVE  LET e == EvaluateCheck(s, b, a) IN
           /\ e.after \in LifecycleStates
           /\ e.decision \in DecisionStates
           /\ e.reason \in DecisionReasonCodes
           /\ e.http \in {200, 409}
           /\ e.pending \in Hashes \cup {NoHash}
           /\ e.after # "baseline_missing" => b.exists
           /\ e.pending # NoHash => e.after = "action_required"
           /\ e.after = "action_required" => e.pending = b.hash
  <1>1. CASE ~b.exists
    BY <1>1 DEF EvaluateCheck, Evaluation, PendingHash, BaselineRows
  <1>2. CASE b.exists
    <2>1. CASE s \in {"baseline_missing", "baseline_active"}
      BY <1>2, <2>1 DEF EvaluateCheck, Evaluation, PendingHash, BaselineRows
    <2>2. CASE s = "action_required"
      BY <1>2, <2>2 DEF EvaluateCheck, Evaluation, PendingHash, BaselineRows
    <2>3. CASE s = "rerun_required"
      BY <1>2, <2>3 DEF EvaluateCheck, Evaluation, PendingHash, BaselineRows
    <2>4. QED BY <2>1, <2>2, <2>3
  <1>3. QED BY <1>1, <1>2 DEF BaselineRows

-----------------------------------------------------------------------------
(* Type correctness. *)

LEMMA BodyType ==
    ASSUME TypeOK, evidence < MaxEvidence,
           NEW b \in CheckBodies \cup CreateBodies \cup AcceptBodies
    PROVE  b \in Inputs /\ b.kind # "none" /\ b.hash \in Hashes
  <1>1. evidence + 1 \in Nat /\ clock \in Nat
    BY FsmAssumption DEF TypeOK
  <1>2. CASE b \in CheckBodies
    <2>1. PICK h \in Hashes : b = Body("check", h, TRUE, 0, NoHash, 0)
      BY <1>2 DEF CheckBodies
    <2>2. QED BY <1>1, <2>1 DEF Body, Inputs
  <1>3. CASE b \in CreateBodies
    <2>1. PICK h \in Hashes, g \in BOOLEAN : b = Body("create", h, g, 0, NoHash, 0)
      BY <1>3 DEF CreateBodies
    <2>2. QED BY <1>1, <2>1 DEF Body, Inputs
  <1>4. CASE b \in AcceptBodies
    <2>1. PICK h \in Hashes, g \in BOOLEAN, v \in 0 .. life.version, x \in Hashes,
               d \in {0} \cup (clock + 1) .. MaxClock :
            b = Body("accept", h, g, v, x, d)
      BY <1>4 DEF AcceptBodies
    <2>2. v \in Nat /\ d \in Nat
      BY <1>1, FsmAssumption DEF TypeOK, LifeRows
    <2>3. QED BY <1>1, <2>1, <2>2 DEF Body, Inputs
  <1>5. QED BY <1>2, <1>3, <1>4

\* The types Answer restores.
LEMMA AnswerType ==
    ASSUME TypeOK, NEW r \in Requests, NEW http \in {0, 200, 409, 500},
           NEW code \in ResponseCodes, Answer(r, http, code)
    PROVE  /\ clock' \in 0 .. MaxClock
           /\ evidence' \in 0 .. MaxEvidence
           /\ pc' \in [Requests -> PCs]
           /\ req' \in [Requests -> Inputs]
           /\ \A q \in Requests : pc'[q] # "idle" =>
                 req'[q].kind # "none" /\ req'[q].hash \in Hashes
           /\ seen' \in [Requests -> BaselineRows]
           /\ row' \in [Requests -> LifeRows]
           /\ response' \in Responses
  <1>1. NoInput \in Inputs /\ NoBaseline \in BaselineRows /\ NoLife \in LifeRows
    BY DEF NoInput, Inputs, NoBaseline, BaselineRows, NoLife, LifeRows
  <1>2. req[r].kind \in {"none", "check", "create", "accept"} /\ req[r].evidence \in Nat
    BY DEF TypeOK, Inputs
  <1>3. QED BY <1>1, <1>2 DEF Answer, TypeOK, PCs, Responses

LEMMA RepairedType ==
    ASSUME NEW l \in LifeRows, NEW b \in BOOLEAN
    PROVE  Repaired(l, b) \in LifeRows
  BY DEF Repaired, LifeRows

LEMMA TransitionType ==
    ASSUME TypeOK, NEW r \in Requests, pc[r] = "commit",
           NEW kind \in {"check", "baseline_create", "accept_drift"},
           NEW after \in LifecycleStates,
           NEW reason \in DecisionReasonCodes \cup {"none"},
           NEW decision \in DecisionStates \cup {"none"},
           NEW expected \in Hashes \cup {NoHash}, NEW pending \in Hashes \cup {NoHash},
           Transition(r, kind, after, reason, decision, expected, pending)
    PROVE  audit' \in Seq(AuditRows) /\ life' \in LifeRows
           /\ rowLock' \in Requests \cup {NoRequest}
  <1>1. row[r] \in LifeRows /\ req[r] \in Inputs /\ req[r].hash \in Hashes
    BY DEF TypeOK
  <1>2. Record(r, kind, after, reason, decision, expected) \in AuditRows
    BY <1>1 DEF Record, AuditRows, LifeRows, Inputs
  <1>3. NextLife(r, after, pending) \in LifeRows
    BY <1>1 DEF NextLife, LifeRows
  <1>4. audit \in Seq(AuditRows)
    BY DEF TypeOK
  <1>5. QED BY <1>2, <1>3, <1>4 DEF Transition

\* The initial states are typed.
LEMMA TypeInit == Init => TypeOK
  <1> SUFFICES ASSUME Init PROVE TypeOK
    OBVIOUS
  <1>1. baseline \in BaselineRows /\ baseline.acc = 0
    <2>1. CASE baseline = NoBaseline
      BY <2>1 DEF NoBaseline, BaselineRows
    <2>2. CASE baseline \in LegacyBaseline
      <3>1. PICK h \in Hashes, n \in BOOLEAN :
              baseline = [exists |-> TRUE, hash |-> h, acc |-> 0, needsRebaseline |-> n]
        BY <2>2 DEF LegacyBaseline
      <3>2. QED BY <3>1 DEF BaselineRows
    <2>3. QED BY <2>1, <2>2 DEF Init
  <1>2. NoLife \in LifeRows /\ NoInput \in Inputs /\ NoBaseline \in BaselineRows
    BY DEF NoLife, LifeRows, NoInput, Inputs, NoBaseline, BaselineRows
  <1>3. NoResponse \in Responses
    BY DEF NoResponse, Responses
  <1>4. QED BY <1>1, <1>2, <1>3, FsmAssumption DEF Init, TypeOK, PCs

\* Every step keeps the types.
LEMMA TypeStep == TypeOK /\ [Next]_vars => TypeOK'
  <1> SUFFICES ASSUME TypeOK, [Next]_vars PROVE TypeOK'
    OBVIOUS
  <1>n. NoResponse \in Responses
    BY DEF NoResponse, Responses
  <1>1. CASE Tick
    BY <1>1, <1>n, FsmAssumption DEF Tick, TypeOK, db
  <1>2. ASSUME NEW r \in Requests, Receive(r) PROVE TypeOK'
    <2>1. PICK b \in CheckBodies \cup CreateBodies \cup AcceptBodies :
            req' = [req EXCEPT ![r] = b]
      BY <1>2 DEF Receive
    <2>2. b \in Inputs /\ b.kind # "none" /\ b.hash \in Hashes
      BY <1>2, BodyType DEF Receive
    <2>3. evidence' \in 0 .. MaxEvidence
      BY <1>2, FsmAssumption DEF Receive, TypeOK
    <2>4. QED BY <1>2, <1>n, <2>1, <2>2, <2>3 DEF Receive, TypeOK, PCs
  <1>3. ASSUME NEW r \in Requests, ReadBaseline(r) PROVE TypeOK'
    BY <1>3, <1>n DEF ReadBaseline, TypeOK, PCs, db
  <1>4. ASSUME NEW r \in Requests, Expire(r) PROVE TypeOK'
    <2>1. baseline' \in BaselineRows /\ baseline'.acc = 0
      BY <1>4 DEF Expire, TypeOK, BaselineRows
    <2>2. QED BY <1>4, <2>1, AnswerType DEF Expire, TypeOK
  <1>5. ASSUME NEW r \in Requests, SelectLifecycle(r) PROVE TypeOK'
    <2>1. Repaired(life, seen[r].exists) \in LifeRows
      BY RepairedType DEF TypeOK, BaselineRows
    <2>2. QED BY <1>5, <1>n, <2>1 DEF SelectLifecycle, TypeOK, PCs, db
  <1>6. ASSUME NEW r \in Requests, InsertLifecycle(r) PROVE TypeOK'
    <2>1. seen[r].exists \in BOOLEAN
      BY DEF TypeOK, BaselineRows
    <2>2. [exists |-> TRUE, state |-> InferLifecycle(seen[r].exists),
           version |-> 0, pending |-> NoHash] \in LifeRows
      BY <2>1, InferLifecycleType DEF LifeRows
    <2>3. QED BY <1>6, <1>n, <2>2 DEF InsertLifecycle, TypeOK, PCs, db
  <1>7. ASSUME NEW r \in Requests, InsertConflict(r) PROVE TypeOK'
    BY <1>7, AnswerType DEF InsertConflict, TypeOK
  <1>8. ASSUME NEW r \in Requests, NEW http \in {409}, NEW code \in ResponseCodes,
               Refuse(r, http, code)
        PROVE  TypeOK'
    BY <1>8, AnswerType DEF Refuse, TypeOK
  <1>9. ASSUME NEW r \in Requests, CommitCheck(r) PROVE TypeOK'
    <2> DEFINE e == EvaluateCheck(row[r].state, seen[r], req[r].hash)
    <2>0. row[r].state \in LifecycleStates /\ seen[r] \in BaselineRows
          /\ req[r].hash \in Hashes /\ Len(acceptances) \in Nat
      BY <1>9 DEF CommitCheck, TypeOK, LifeRows
    <2>1. /\ e.after \in LifecycleStates
          /\ e.decision \in DecisionStates
          /\ e.reason \in DecisionReasonCodes
          /\ e.http \in {200, 409}
          /\ e.pending \in Hashes \cup {NoHash}
      BY <2>0, EvaluateCheckType
    <2>2. seen[r].hash \in Hashes \cup {NoHash}
      BY DEF TypeOK, BaselineRows
    <2>3. /\ pc[r] = "commit"
          /\ Transition(r, "check", e.after, e.reason, e.decision,
                        seen[r].hash, e.pending)
          /\ Answer(r, e.http, e.reason)
          /\ acceptances' = acceptances
      BY <1>9 DEF CommitCheck
    <2>a. baseline' = baseline \/ baseline' = [baseline EXCEPT !.acc = 0]
      BY <1>9 DEF CommitCheck
    <2> HIDE DEF e
    <2>4. audit' \in Seq(AuditRows) /\ life' \in LifeRows
          /\ rowLock' \in Requests \cup {NoRequest}
      <3>1. e.reason \in DecisionReasonCodes \cup {"none"}
            /\ e.decision \in DecisionStates \cup {"none"}
            /\ "check" \in {"check", "baseline_create", "accept_drift"}
        BY <2>1
      <3>a. \A after \in LifecycleStates, reason \in DecisionReasonCodes \cup {"none"},
               decision \in DecisionStates \cup {"none"},
               expected, pending \in Hashes \cup {NoHash} :
              Transition(r, "check", after, reason, decision, expected, pending) =>
                /\ audit' \in Seq(AuditRows)
                /\ life' \in LifeRows
                /\ rowLock' \in Requests \cup {NoRequest}
        BY <2>3, <3>1, TransitionType
      <3> HIDE DEF LifecycleStates, DecisionStates, DecisionReasonCodes
      <3>2. QED BY <2>1, <2>2, <2>3, <3>1, <3>a
    <2>5. baseline' \in BaselineRows /\ baseline'.acc \in 0 .. Len(acceptances)
      <3>1. baseline \in BaselineRows /\ baseline.acc \in 0 .. Len(acceptances)
        BY DEF TypeOK
      <3>2. CASE baseline' = baseline
        BY <3>1, <3>2
      <3>3. CASE baseline' = [baseline EXCEPT !.acc = 0]
        <4>1. [baseline EXCEPT !.acc = 0] \in BaselineRows
              /\ [baseline EXCEPT !.acc = 0].acc = 0
          BY <3>1 DEF BaselineRows
        <4>2. QED BY <2>0, <3>3, <4>1
      <3>4. QED BY <2>a, <3>2, <3>3
    <2>6. QED BY <2>1, <2>3, <2>4, <2>5, AnswerType DEF TypeOK
  <1>10. ASSUME NEW r \in Requests, CommitCreate(r) PROVE TypeOK'
    <2>1. req[r].hash \in Hashes /\ pc[r] = "commit"
      BY <1>10 DEF CommitCreate, TypeOK
    <2>2. audit' \in Seq(AuditRows) /\ life' \in LifeRows
          /\ rowLock' \in Requests \cup {NoRequest}
      BY <1>10, <2>1, TransitionType DEF CommitCreate
    <2>3. baseline' \in BaselineRows /\ baseline'.acc = 0
      BY <1>10, <2>1 DEF CommitCreate, BaselineRows
    <2>4. QED BY <1>10, <2>2, <2>3, AnswerType DEF CommitCreate, TypeOK
  <1>11. ASSUME NEW r \in Requests, CommitAccept(r) PROVE TypeOK'
    <2>1. req[r] \in Inputs /\ req[r].hash \in Hashes /\ pc[r] = "commit"
      BY <1>11 DEF CommitAccept, TypeOK
    <2>2. audit' \in Seq(AuditRows) /\ life' \in LifeRows
          /\ rowLock' \in Requests \cup {NoRequest}
      BY <1>11, <2>1, TransitionType DEF CommitAccept, Inputs
    <2>3. /\ acceptances' \in Seq([hash : Hashes, reviewBy : Nat])
          /\ Len(acceptances') = Len(acceptances) + 1
          /\ Len(acceptances) \in Nat
      BY <1>11, <2>1 DEF CommitAccept, Accepted, TypeOK, Inputs
    <2>4. baseline' \in BaselineRows /\ baseline'.acc = Len(acceptances) + 1
      BY <1>11, <2>1, <2>3 DEF CommitAccept, BaselineRows
    <2>5. QED BY <1>11, <2>2, <2>3, <2>4, AnswerType DEF CommitAccept, TypeOK
  <1>12. ASSUME NEW r \in Requests, Abort(r) PROVE TypeOK'
    BY <1>12, AnswerType DEF Abort, TypeOK
  <1>13. CASE UNCHANGED vars
    BY <1>13 DEF TypeOK, vars
  <1>14. ASSUME NEW r \in Requests,
                CheckNeedsRebaseline(r) \/ RefuseCreate(r) \/ RefuseAccept(r)
         PROVE  TypeOK'
    <2>1. \E code \in ResponseCodes : Refuse(r, 409, code)
      BY <1>14 DEF CheckNeedsRebaseline, RefuseCreate, RefuseAccept, AcceptVerdict,
                   EvaluateCreateBaseline, EvaluateAccept
    <2>2. QED BY <1>8, <2>1
  <1>15. QED
    BY <1>1, <1>2, <1>3, <1>4, <1>5, <1>6, <1>7, <1>9, <1>10, <1>11, <1>12,
       <1>13, <1>14 DEF Next, Serve

\* Every variable keeps its type, and the acceptance pointer of the baseline
\* row always names an existing governance_acceptance row (executeFsmAcceptDrift).
THEOREM TypeCorrect == Spec => []TypeOK
  BY TypeInit, TypeStep, PTL DEF Spec

-----------------------------------------------------------------------------
(* The row lock and the optimistic lock. *)

\* What a refused and what a committed transaction do to the committed row.
LEMMA AnswerFrees ==
    ASSUME TypeOK, NEW r \in Requests, NEW http, NEW code, Answer(r, http, code)
    PROVE  /\ pc' = [pc EXCEPT ![r] = "idle"]
           /\ seen' = [seen EXCEPT ![r] = NoBaseline]
           /\ row' = [row EXCEPT ![r] = NoLife]
  BY DEF Answer

LEMMA LockInit == Init => OptimisticLockNeverMisses
  BY FsmAssumption DEF Init, OptimisticLockNeverMisses

LEMMA LockStep ==
    TypeOK /\ OptimisticLockNeverMisses /\ [Next]_vars => OptimisticLockNeverMisses'
  <1> SUFFICES ASSUME TypeOK, OptimisticLockNeverMisses, [Next]_vars
               PROVE  OptimisticLockNeverMisses'
    OBVIOUS
  <1> DEFINE Ensured(q) ==
         IF life.exists THEN Repaired(life, seen[q].exists)
         ELSE [exists |-> TRUE, state |-> InferLifecycle(seen[q].exists),
               version |-> 0, pending |-> NoHash]
  <1>t. /\ pc \in [Requests -> PCs] /\ seen \in [Requests -> BaselineRows]
        /\ row \in [Requests -> LifeRows] /\ NoRequest \notin Requests
    BY FsmAssumption DEF TypeOK
  <1>i. \A q \in Requests : /\ pc[q] = "commit" <=> rowLock = q
                            /\ pc[q] = "commit" => row[q] = Ensured(q)
    BY DEF OptimisticLockNeverMisses
  <1>1. CASE Tick \/ UNCHANGED vars
    BY <1>1 DEF Tick, vars, db, OptimisticLockNeverMisses
  <1>2. ASSUME NEW r \in Requests, Receive(r) PROVE OptimisticLockNeverMisses'
    BY <1>2, <1>t, <1>i DEF Receive, OptimisticLockNeverMisses
  <1>3. ASSUME NEW r \in Requests, ReadBaseline(r) PROVE OptimisticLockNeverMisses'
    BY <1>3, <1>t, <1>i DEF ReadBaseline, db, OptimisticLockNeverMisses
  <1>4. ASSUME NEW r \in Requests, SelectLifecycle(r) PROVE OptimisticLockNeverMisses'
    BY <1>4, <1>t, <1>i DEF SelectLifecycle, RowLockFree, db, OptimisticLockNeverMisses
  <1>5. ASSUME NEW r \in Requests, InsertLifecycle(r) PROVE OptimisticLockNeverMisses'
    BY <1>5, <1>t, <1>i DEF InsertLifecycle, RowLockFree, db, OptimisticLockNeverMisses
  <1>6. ASSUME NEW r \in Requests, pc[r] = "commit", rowLock' = NoRequest,
               NEW http, NEW code, Answer(r, http, code)
        PROVE  OptimisticLockNeverMisses'
    <2>1. \A q \in Requests : pc'[q] # "commit"
      BY <1>6, <1>t, <1>i, AnswerFrees
    <2>2. QED BY <1>6, <1>t, <2>1 DEF OptimisticLockNeverMisses
  <1>7. ASSUME NEW r \in Requests, Expire(r) \/ InsertConflict(r) \/ Abort(r)
        PROVE  OptimisticLockNeverMisses'
    <2>1. /\ pc' = [pc EXCEPT ![r] = "idle"] /\ seen' = [seen EXCEPT ![r] = NoBaseline]
          /\ row' = [row EXCEPT ![r] = NoLife] /\ life' = life
          /\ rowLock' = IF rowLock = r THEN NoRequest ELSE rowLock
      <3>1. CASE Expire(r)
        BY <1>i, <3>1 DEF Expire, Answer
      <3>2. CASE InsertConflict(r)
        BY <1>i, <3>2 DEF InsertConflict, RowLockFree, Answer
      <3>3. CASE Abort(r)
        BY <3>3 DEF Abort, Answer
      <3>4. QED BY <1>7, <3>1, <3>2, <3>3
    <2>2. \A q \in Requests : pc'[q] = "commit" <=> rowLock' = q
      BY <1>t, <1>i, <2>1
    <2>3. ASSUME NEW q \in Requests, pc'[q] = "commit"
          PROVE  q # r /\ pc[q] = "commit" /\ row'[q] = row[q] /\ seen'[q] = seen[q]
      BY <1>t, <2>1, <2>3
    <2>4. QED BY <1>i, <2>1, <2>2, <2>3 DEF OptimisticLockNeverMisses
  <1>8. ASSUME NEW r \in Requests,
                CheckNeedsRebaseline(r) \/ RefuseCreate(r) \/ RefuseAccept(r)
                \/ CommitCheck(r) \/ CommitCreate(r) \/ CommitAccept(r)
         PROVE  OptimisticLockNeverMisses'
    BY <1>6, <1>8 DEF CheckNeedsRebaseline, RefuseCreate, RefuseAccept, Refuse,
       CommitCheck, CommitCreate, CommitAccept, Transition
  <1>9. QED
    BY <1>1, <1>2, <1>3, <1>4, <1>5, <1>7, <1>8 DEF Next, Serve

\* A transaction about to commit holds the lifecycle row alone and its copy is the
\* committed row as ensureLifecycleRow leaves it, so "lifecycle optimistic lock
\* conflict" is unreachable.
THEOREM OptimisticLockSafe == Spec => []OptimisticLockNeverMisses
  <1>1. Init => TypeOK /\ OptimisticLockNeverMisses
    BY TypeInit, LockInit
  <1>2. TypeOK /\ OptimisticLockNeverMisses /\ [Next]_vars
          => (TypeOK /\ OptimisticLockNeverMisses)'
    BY TypeStep, LockStep
  <1>3. QED BY <1>1, <1>2, PTL DEF Spec

-----------------------------------------------------------------------------
(* Versions. *)

\* The three ways a step leaves the committed lifecycle row, and what the kinds of
\* transition have to do with drift.
LEMMA LifeStep ==
    ASSUME TypeOK, [Next]_vars
    PROVE  \/ life' = life /\ audit' = audit
           \/ \E r \in Requests :
                 /\ pc[r] = "commit" /\ life' = row[r] /\ audit' = audit
           \/ \E r \in Requests : \E kind, after, reason, decision, expected, pending :
                 /\ pc[r] = "commit"
                 /\ Transition(r, kind, after, reason, decision, expected, pending)
                 /\ after = "action_required" => kind = "check" /\ pending = expected
                 /\ kind = "accept_drift" => row[r].state = "action_required"
                                             /\ expected = row[r].pending
  <1>1. CASE Tick \/ UNCHANGED vars
    BY <1>1 DEF Tick, vars, db
  <1>2. ASSUME NEW r \in Requests,
               Receive(r) \/ ReadBaseline(r) \/ Expire(r) \/ SelectLifecycle(r)
               \/ InsertLifecycle(r) \/ InsertConflict(r) \/ Abort(r)
        PROVE  life' = life /\ audit' = audit
    BY <1>2 DEF Receive, ReadBaseline, Expire, SelectLifecycle, InsertLifecycle,
       InsertConflict, Abort, db
  <1>3. ASSUME NEW r \in Requests,
               CheckNeedsRebaseline(r) \/ RefuseCreate(r) \/ RefuseAccept(r)
        PROVE  pc[r] = "commit" /\ life' = row[r] /\ audit' = audit
    BY <1>3 DEF CheckNeedsRebaseline, RefuseCreate, RefuseAccept, Refuse
  <1>4. ASSUME NEW r \in Requests,
               CommitCheck(r) \/ CommitCreate(r) \/ CommitAccept(r)
        PROVE  \E kind, after, reason, decision, expected, pending :
                 /\ pc[r] = "commit"
                 /\ Transition(r, kind, after, reason, decision, expected, pending)
                 /\ after = "action_required" => kind = "check" /\ pending = expected
                 /\ kind = "accept_drift" => row[r].state = "action_required"
                                             /\ expected = row[r].pending
    <2>1. CASE CommitCheck(r)
      <3> DEFINE e == EvaluateCheck(row[r].state, seen[r], req[r].hash)
      <3>1. pc[r] = "commit" /\ Transition(r, "check", e.after, e.reason, e.decision,
                                           seen[r].hash, e.pending)
        BY <2>1 DEF CommitCheck
      <3>2. e.after = "action_required" => e.pending = seen[r].hash
        <4>1. /\ row[r].state \in LifecycleStates /\ seen[r] \in BaselineRows
              /\ req[r].hash \in Hashes
          BY <3>1 DEF TypeOK, LifeRows
        <4>2. QED BY <4>1, EvaluateCheckType
      <3> HIDE DEF e
      <3>3. QED BY <3>1, <3>2
    <2>2. CASE CommitCreate(r)
      BY <2>2 DEF CommitCreate
    <2>3. CASE CommitAccept(r)
      <3>1. /\ pc[r] = "commit"
            /\ Transition(r, "accept_drift", "rerun_required", "none", "none",
                          req[r].expected, NoHash)
        BY <2>3 DEF CommitAccept
      <3>2. row[r].state = "action_required" /\ req[r].expected = row[r].pending
        BY <2>3 DEF CommitAccept, AcceptVerdict, EvaluateAccept
      <3>3. QED BY <3>1, <3>2
    <2>4. QED BY <1>4, <2>1, <2>2, <2>3
  <1>5. QED BY <1>1, <1>2, <1>3, <1>4 DEF Next, Serve

\* The copy of a committing transaction is the committed row, or a newer one.
LEMMA EnsuredVersion ==
    ASSUME TypeOK, OptimisticLockNeverMisses,
           NEW r \in Requests, pc[r] = "commit"
    PROVE  /\ row[r] \in LifeRows /\ row[r].exists
           /\ life.exists => row[r] = life \/ row[r].version = life.version + 1
           /\ ~life.exists => row[r].version = 0
  <1>1. life \in LifeRows /\ row[r] \in LifeRows
    BY DEF TypeOK
  <1>2. row[r] = IF life.exists THEN Repaired(life, seen[r].exists)
                 ELSE [exists |-> TRUE, state |-> InferLifecycle(seen[r].exists),
                       version |-> 0, pending |-> NoHash]
    BY DEF OptimisticLockNeverMisses
  <1>3. CASE life.exists
    BY <1>1, <1>2, <1>3 DEF Repaired, LifeRows
  <1>4. CASE ~life.exists
    BY <1>1, <1>2, <1>4 DEF LifeRows
  <1>5. QED BY <1>1, <1>3, <1>4

\* No step changes an existing lifecycle row without raising its version: what a
\* client reads as lifecycle_state_version names one posture and pending hash.
THEOREM VersionsSafe == Spec => VersionsIdentifyPosture
  <1>1. TypeOK /\ OptimisticLockNeverMisses /\ [Next]_vars
          => [life.exists /\ life' # life => life'.version > life.version]_vars
    <2> SUFFICES ASSUME TypeOK, OptimisticLockNeverMisses, [Next]_vars,
                        life.exists, life' # life
                 PROVE  life'.version > life.version
      OBVIOUS
    <2>0. life \in LifeRows /\ life.version \in Nat
      BY DEF TypeOK, LifeRows
    <2>1. ASSUME NEW r \in Requests, pc[r] = "commit", life' = row[r]
          PROVE  life'.version > life.version
      BY <2>0, <2>1, EnsuredVersion
    <2>2. ASSUME NEW r \in Requests, pc[r] = "commit",
                 NEW kind, NEW after, NEW reason, NEW decision, NEW expected, NEW pending,
                 Transition(r, kind, after, reason, decision, expected, pending)
          PROVE  life'.version > life.version
      <3>1. life'.version = row[r].version + 1
        BY <2>2 DEF Transition, NextLife
      <3>2. row[r].version = life.version \/ row[r].version = life.version + 1
        BY <2>2, EnsuredVersion
      <3>3. QED BY <2>0, <3>1, <3>2
    <2>3. QED BY <2>1, <2>2, LifeStep
  <1>2. Spec => [](TypeOK /\ OptimisticLockNeverMisses)
    BY TypeCorrect, OptimisticLockSafe, PTL
  <1>3. QED BY <1>1, <1>2, PTL DEF Spec, VersionsIdentifyPosture

-----------------------------------------------------------------------------
(* The audit trail. *)

LEMMA AuditStep ==
    TypeOK /\ OptimisticLockNeverMisses /\ AuditVersionsIncrease /\ [Next]_vars
      => AuditVersionsIncrease'
  <1> SUFFICES ASSUME TypeOK, OptimisticLockNeverMisses, AuditVersionsIncrease, [Next]_vars
               PROVE  AuditVersionsIncrease'
    OBVIOUS
  <1>t. /\ audit \in Seq(AuditRows) /\ Len(audit) \in Nat
        /\ life \in LifeRows /\ life.version \in Nat
        /\ \A i \in 1 .. Len(audit) : audit[i] \in AuditRows /\ audit[i].ver \in Nat
    <2>1. audit \in Seq(AuditRows) /\ life \in LifeRows
      BY DEF TypeOK
    <2>2. Len(audit) \in Nat /\ \A i \in 1 .. Len(audit) : audit[i] \in AuditRows
      BY <2>1
    <2>3. \A a \in AuditRows : a.ver \in Nat
      BY DEF AuditRows
    <2>4. life.version \in Nat
      BY <2>1 DEF LifeRows
    <2>5. QED BY <2>1, <2>2, <2>3, <2>4
  <1>1. CASE life' = life /\ audit' = audit
    BY <1>1 DEF AuditVersionsIncrease
  <1>2. ASSUME NEW r \in Requests, pc[r] = "commit", life' = row[r], audit' = audit
        PROVE  AuditVersionsIncrease'
    <2>1. row[r] \in LifeRows /\ row[r].exists
          /\ (life.exists => row[r] = life \/ row[r].version = life.version + 1)
      BY <1>2, EnsuredVersion
    <2>2. CASE ~life.exists
      BY <1>2, <1>t, <2>2 DEF AuditVersionsIncrease
    <2>3. CASE life.exists /\ row[r] = life
      BY <1>2, <2>3 DEF AuditVersionsIncrease
    <2>4. CASE life.exists /\ row[r].version = life.version + 1
      <3>1. \A i \in 1 .. Len(audit) :
              audit[i].ver <= row[r].version /\ audit[i].ver # row[r].version
        BY <1>t, <2>4 DEF AuditVersionsIncrease
      <3>2. QED BY <1>2, <2>1, <3>1 DEF AuditVersionsIncrease
    <2>5. QED BY <2>1, <2>2, <2>3, <2>4
  <1>3. ASSUME NEW r \in Requests, pc[r] = "commit",
               NEW kind, NEW after, NEW reason, NEW decision, NEW expected, NEW pending,
               Transition(r, kind, after, reason, decision, expected, pending)
        PROVE  AuditVersionsIncrease'
    <2> DEFINE n == Len(audit)
               rec == Record(r, kind, after, reason, decision, expected)
    <2>1. /\ row[r] \in LifeRows /\ row[r].version \in Nat
          /\ life.exists => row[r].version >= life.version
      <3>1. row[r] \in LifeRows
            /\ (life.exists => row[r] = life \/ row[r].version = life.version + 1)
        BY <1>3, EnsuredVersion
      <3>2. QED BY <1>t, <3>1 DEF LifeRows
    <2>2. life'.exists /\ life'.version = row[r].version + 1 /\ life'.state = after
      BY <1>3 DEF Transition, NextLife
    <2>3. rec.ver = row[r].version + 1 /\ rec.to = after
      BY DEF Record
    <2>4. audit' = Append(audit, rec)
      BY <1>3 DEF Transition
    <2> HIDE DEF rec
    <2>5. /\ Len(audit') = n + 1 /\ audit'[n + 1] = rec
          /\ \A i \in 1 .. n : audit'[i] = audit[i]
      BY <1>t, <2>4
    <2>6. \A i \in 1 .. n : audit[i].ver < row[r].version + 1
      BY <1>t, <2>1 DEF AuditVersionsIncrease
    <2>7. \A i, j \in 1 .. Len(audit') : i < j => audit'[i].ver < audit'[j].ver
      <3> SUFFICES ASSUME NEW i \in 1 .. n + 1, NEW j \in 1 .. n + 1, i < j
                   PROVE  audit'[i].ver < audit'[j].ver
        BY <2>5
      <3>1. CASE j = n + 1
        <4>1. i \in 1 .. n
          BY <1>t, <3>1
        <4>2. QED BY <2>3, <2>5, <2>6, <3>1, <4>1
      <3>2. CASE j # n + 1
        <4>1. i \in 1 .. n /\ j \in 1 .. n
          BY <1>t, <3>2
        <4>2. QED BY <2>5, <4>1 DEF AuditVersionsIncrease
      <3>3. QED BY <3>1, <3>2
    <2>8. ASSUME NEW i \in 1 .. Len(audit')
          PROVE  /\ life'.exists /\ audit'[i].ver <= life'.version
                 /\ audit'[i].ver = life'.version => audit'[i].to = life'.state
      <3>1. i \in 1 .. n \/ i = n + 1
        BY <1>t, <2>5
      <3>2. CASE i = n + 1
        BY <2>1, <2>2, <2>3, <2>5, <3>2
      <3>3. CASE i \in 1 .. n
        BY <1>t, <2>1, <2>2, <2>5, <2>6, <3>3
      <3>4. QED BY <3>1, <3>2, <3>3
    <2>9. QED BY <2>7, <2>8 DEF AuditVersionsIncrease
  <1>4. QED BY <1>1, <1>2, <1>3, LifeStep

\* The transitions recorded for a workflow carry strictly increasing versions and
\* the newest agrees with the lifecycle row, under every interleaving.
THEOREM AuditSafe == Spec => []AuditVersionsIncrease
  <1>1. Init => AuditVersionsIncrease
    BY DEF Init, AuditVersionsIncrease
  <1>2. Spec => [](TypeOK /\ OptimisticLockNeverMisses)
    BY TypeCorrect, OptimisticLockSafe, PTL
  <1>3. QED BY <1>1, <1>2, AuditStep, PTL DEF Spec

-----------------------------------------------------------------------------
(* Postures are backed by a baseline and a pending hash. *)

\* A lifecycle row, committed or in a transaction, over a baseline.
Backed(l, b) ==
    /\ l.state # "baseline_missing" => b.exists
    /\ l.pending # NoHash <=> l.state = "action_required"

\* A stored baseline has a hash and stays; every snapshot that shows one has its
\* hash; every lifecycle row is backed.
BackedInv ==
    /\ baseline.exists => baseline.hash \in Hashes
    /\ \A r \in Requests :
          seen[r].exists => baseline.exists /\ seen[r].hash \in Hashes
    /\ life.exists => Backed(life, baseline)

LEMMA BackedInit == Init => BackedInv
  BY DEF Init, BackedInv, NoBaseline, LegacyBaseline, NoLife

\* The copy of a committing transaction is backed.
LEMMA EnsuredBacked ==
    ASSUME TypeOK, OptimisticLockNeverMisses, BackedInv,
           NEW r \in Requests, pc[r] = "commit"
    PROVE  Backed(row[r], baseline)
  <1>1. life \in LifeRows /\ seen[r] \in BaselineRows
    BY DEF TypeOK
  <1>2. row[r] = IF life.exists THEN Repaired(life, seen[r].exists)
                 ELSE [exists |-> TRUE, state |-> InferLifecycle(seen[r].exists),
                       version |-> 0, pending |-> NoHash]
    BY DEF OptimisticLockNeverMisses
  <1>3. seen[r].exists => baseline.exists
    BY DEF BackedInv
  <1>4. CASE life.exists
    BY <1>1, <1>2, <1>3, <1>4 DEF Repaired, LifeRows, Backed, BackedInv
  <1>5. CASE ~life.exists
    BY <1>1, <1>2, <1>3, <1>5 DEF InferLifecycle, Backed
  <1>6. QED BY <1>4, <1>5

LEMMA BackedStep ==
    TypeOK /\ OptimisticLockNeverMisses /\ BackedInv /\ [Next]_vars => BackedInv'
  <1> SUFFICES ASSUME TypeOK, OptimisticLockNeverMisses, BackedInv, [Next]_vars
               PROVE  BackedInv'
    OBVIOUS
  <1>t. /\ seen \in [Requests -> BaselineRows] /\ baseline \in BaselineRows
        /\ ~NoBaseline.exists
    BY DEF TypeOK, NoBaseline
  <1>1. CASE Tick \/ UNCHANGED vars
    BY <1>1 DEF Tick, vars, db, BackedInv
  <1>2. ASSUME NEW r \in Requests,
               Receive(r) \/ SelectLifecycle(r) \/ InsertLifecycle(r)
        PROVE  BackedInv'
    BY <1>2 DEF Receive, SelectLifecycle, InsertLifecycle, db, BackedInv
  <1>3. ASSUME NEW r \in Requests, ReadBaseline(r) PROVE BackedInv'
    BY <1>3, <1>t DEF ReadBaseline, db, BackedInv
  <1>4. ASSUME NEW r \in Requests, seen' = [seen EXCEPT ![r] = NoBaseline],
               baseline'.exists = baseline.exists, baseline'.hash = baseline.hash,
               life'.exists => Backed(life', baseline)
        PROVE  BackedInv'
    BY <1>4, <1>t DEF BackedInv, Backed
  <1>5. ASSUME NEW r \in Requests, InsertConflict(r) \/ Abort(r) \/ Expire(r)
        PROVE  BackedInv'
    <2>1. /\ seen' = [seen EXCEPT ![r] = NoBaseline] /\ life' = life
          /\ baseline'.exists = baseline.exists /\ baseline'.hash = baseline.hash
      BY <1>5 DEF InsertConflict, Abort, Expire, Answer
    <2>2. QED BY <1>4, <2>1 DEF BackedInv
  <1>6. ASSUME NEW r \in Requests,
               CheckNeedsRebaseline(r) \/ RefuseCreate(r) \/ RefuseAccept(r)
        PROVE  BackedInv'
    <2>1. /\ pc[r] = "commit" /\ seen' = [seen EXCEPT ![r] = NoBaseline]
          /\ life' = row[r] /\ baseline' = baseline
      BY <1>6 DEF CheckNeedsRebaseline, RefuseCreate, RefuseAccept, Refuse, Answer
    <2>2. QED BY <1>4, <2>1, EnsuredBacked
  <1>7. ASSUME NEW r \in Requests, CommitCheck(r) PROVE BackedInv'
    <2> DEFINE e == EvaluateCheck(row[r].state, seen[r], req[r].hash)
    <2>1. row[r].state \in LifecycleStates /\ seen[r] \in BaselineRows
          /\ req[r].hash \in Hashes
      BY <1>7 DEF CommitCheck, TypeOK, LifeRows
    <2>2. /\ e.after # "baseline_missing" => seen[r].exists
          /\ e.pending # NoHash => e.after = "action_required"
          /\ e.after = "action_required" => e.pending = seen[r].hash
      BY <2>1, EvaluateCheckType
    <2>3. /\ Transition(r, "check", e.after, e.reason, e.decision,
                        seen[r].hash, e.pending)
          /\ Answer(r, e.http, e.reason)
      BY <1>7 DEF CommitCheck
    <2>4. baseline' = baseline \/ baseline' = [baseline EXCEPT !.acc = 0]
      BY <1>7 DEF CommitCheck
    <2> HIDE DEF e
    <2>5. life'.state = e.after /\ life'.pending = e.pending
      BY <2>3 DEF Transition, NextLife
    <2>6. Backed(life', baseline)
      <3>1. e.after = "action_required" => seen[r].exists /\ seen[r].hash \in Hashes
        BY <2>2 DEF BackedInv
      <3>2. QED BY <2>2, <2>5, <3>1, FsmAssumption DEF Backed, BackedInv
    <2>7. seen' = [seen EXCEPT ![r] = NoBaseline]
      BY <2>3 DEF Answer
    <2>8. baseline'.exists = baseline.exists /\ baseline'.hash = baseline.hash
      BY <1>t, <2>4 DEF BaselineRows
    <2>9. QED BY <1>4, <2>6, <2>7, <2>8
  <1>8. ASSUME NEW r \in Requests, CommitCreate(r) \/ CommitAccept(r)
        PROVE  BackedInv'
    <2>1. req[r].hash \in Hashes
      BY <1>8 DEF CommitCreate, CommitAccept, TypeOK
    <2>2. /\ seen' = [seen EXCEPT ![r] = NoBaseline]
          /\ baseline'.exists /\ baseline'.hash = req[r].hash
          /\ life'.pending = NoHash /\ life'.state # "action_required"
      BY <1>8 DEF CommitCreate, CommitAccept, Answer, Transition, NextLife
    <2>3. QED BY <1>t, <2>1, <2>2 DEF BackedInv, Backed
  <1>9. QED
    BY <1>1, <1>2, <1>3, <1>5, <1>6, <1>7, <1>8 DEF Next, Serve

\* Every posture but baseline_missing has a baseline to check against, and an
\* expected hash for accept is stored exactly while drift is open.
THEOREM PostureSafe == Spec => []PostureIsBacked
  <1>1. BackedInv => PostureIsBacked
    BY DEF BackedInv, Backed, PostureIsBacked
  <1>2. Spec => [](TypeOK /\ OptimisticLockNeverMisses)
    BY TypeCorrect, OptimisticLockSafe, PTL
  <1>3. QED BY <1>1, <1>2, BackedInit, BackedStep, PTL DEF Spec

-----------------------------------------------------------------------------
(* What an accept answers. *)

\* Open drift is on record: the newest transition is the check that found it, at the
\* version and with the hash the lifecycle row shows its clients.
DriftRecorded ==
    life.exists /\ life.state = "action_required" =>
        /\ audit # <<>>
        /\ audit[Len(audit)].ver = life.version
        /\ audit[Len(audit)].kind = "check"
        /\ audit[Len(audit)].to = "action_required"
        /\ audit[Len(audit)].expected = life.pending

\* A repair or an insert opens no drift.
LEMMA EnsuredDrift ==
    ASSUME TypeOK, OptimisticLockNeverMisses, NEW r \in Requests, pc[r] = "commit",
           row[r].state = "action_required"
    PROVE  life.exists /\ row[r] = life
  <1>1. life \in LifeRows /\ seen[r].exists \in BOOLEAN
    BY DEF TypeOK, BaselineRows
  <1>2. row[r] = IF life.exists THEN Repaired(life, seen[r].exists)
                 ELSE [exists |-> TRUE, state |-> InferLifecycle(seen[r].exists),
                       version |-> 0, pending |-> NoHash]
    BY DEF OptimisticLockNeverMisses
  <1>3. QED BY <1>1, <1>2 DEF Repaired, InferLifecycle

LEMMA DriftStep ==
    TypeOK /\ OptimisticLockNeverMisses /\ DriftRecorded /\ AcceptAnswersRecordedDrift
    /\ [Next]_vars
      => DriftRecorded' /\ AcceptAnswersRecordedDrift'
  <1> SUFFICES ASSUME TypeOK, OptimisticLockNeverMisses, DriftRecorded,
                      AcceptAnswersRecordedDrift, [Next]_vars
               PROVE  DriftRecorded' /\ AcceptAnswersRecordedDrift'
    OBVIOUS
  <1>t. audit \in Seq(AuditRows) /\ Len(audit) \in Nat /\ life.version \in Nat
    <2>1. audit \in Seq(AuditRows) /\ life \in LifeRows
      BY DEF TypeOK
    <2>2. QED BY <2>1 DEF LifeRows
  <1>1. CASE life' = life /\ audit' = audit
    BY <1>1 DEF DriftRecorded, AcceptAnswersRecordedDrift
  <1>2. ASSUME NEW r \in Requests, pc[r] = "commit", life' = row[r], audit' = audit
        PROVE  DriftRecorded' /\ AcceptAnswersRecordedDrift'
    BY <1>2, EnsuredDrift DEF DriftRecorded, AcceptAnswersRecordedDrift
  <1>3. ASSUME NEW r \in Requests, pc[r] = "commit",
               NEW kind, NEW after, NEW reason, NEW decision, NEW expected, NEW pending,
               Transition(r, kind, after, reason, decision, expected, pending),
               after = "action_required" => kind = "check" /\ pending = expected,
               kind = "accept_drift" => row[r].state = "action_required"
                                        /\ expected = row[r].pending
        PROVE  DriftRecorded' /\ AcceptAnswersRecordedDrift'
    <2> DEFINE n == Len(audit)
               rec == Record(r, kind, after, reason, decision, expected)
    <2>1. /\ rec.ver = row[r].version + 1 /\ rec.to = after /\ rec.kind = kind
          /\ rec.expected = expected
      BY DEF Record
    <2>2. audit' = Append(audit, rec)
      BY <1>3 DEF Transition
    <2>3. life'.version = row[r].version + 1 /\ life'.state = after /\ life'.pending = pending
      BY <1>3 DEF Transition, NextLife
    <2> HIDE DEF rec
    <2>4. /\ Len(audit') = n + 1 /\ audit'[n + 1] = rec /\ audit' # <<>>
          /\ \A i \in 1 .. n : audit'[i] = audit[i]
      BY <1>t, <2>2
    <2>5. DriftRecorded'
      BY <1>3, <2>1, <2>3, <2>4 DEF DriftRecorded
    <2>6. ASSUME kind = "accept_drift"
          PROVE  /\ n \in 1 .. n /\ audit[n].ver + 1 = rec.ver
                 /\ audit[n].kind = "check" /\ audit[n].to = "action_required"
                 /\ audit[n].expected = rec.expected
      <3>1. life.exists /\ row[r] = life /\ life.state = "action_required"
        BY <1>3, <2>6, EnsuredDrift
      <3>2. audit # <<>> /\ n \in 1 .. n
        BY <1>t, <3>1 DEF DriftRecorded
      <3>3. QED BY <1>3, <1>t, <2>1, <2>6, <3>1, <3>2 DEF DriftRecorded
    <2>7. ASSUME NEW i \in 1 .. n + 1, audit'[i].kind = "accept_drift"
          PROVE  /\ i > 1 /\ audit'[i - 1].ver + 1 = audit'[i].ver
                 /\ audit'[i - 1].kind = "check"
                 /\ audit'[i - 1].to = "action_required"
                 /\ audit'[i - 1].expected = audit'[i].expected
      <3>1. CASE i = n + 1
        BY <1>t, <2>1, <2>4, <2>6, <2>7, <3>1
      <3>2. CASE i # n + 1
        <4>1. i \in 1 .. n /\ audit'[i] = audit[i]
          BY <1>t, <2>4, <3>2
        <4>2. i > 1 /\ i - 1 \in 1 .. n /\ audit'[i - 1] = audit[i - 1]
          BY <1>t, <2>4, <2>7, <4>1 DEF AcceptAnswersRecordedDrift
        <4>3. QED BY <2>7, <4>1, <4>2 DEF AcceptAnswersRecordedDrift
      <3>3. QED BY <3>1, <3>2
    <2>8. QED BY <2>4, <2>5, <2>7 DEF AcceptAnswersRecordedDrift
  <1>4. QED BY <1>1, <1>2, <1>3, LifeStep

\* Every committed accept answers the drift its client was shown: the check just before
\* it in the trail, at the version before its own and with the hash it quotes.
THEOREM AcceptSafe == Spec => []AcceptAnswersRecordedDrift
  <1>1. Init => DriftRecorded /\ AcceptAnswersRecordedDrift
    BY DEF Init, NoLife, DriftRecorded, AcceptAnswersRecordedDrift
  <1>2. Spec => [](TypeOK /\ OptimisticLockNeverMisses)
    BY TypeCorrect, OptimisticLockSafe, PTL
  <1>3. QED BY <1>1, <1>2, DriftStep, PTL DEF Spec

-----------------------------------------------------------------------------
(* One verdict per request. *)

\* The governance_evidence row a request cites is its own: numbered before the next
\* one to come, and cited by no other request in flight.
EvidenceIsOwn ==
    /\ \A i \in 1 .. Len(audit) : audit[i].evidence <= evidence
    /\ \A r \in Requests : pc[r] # "idle" => req[r].evidence <= evidence
    /\ \A r, q \in Requests :
          r # q /\ pc[r] # "idle" /\ pc[q] # "idle" => req[r].evidence # req[q].evidence

\* The trail grows by the record of a request that ends with it, or not at all.
LEMMA TrailStep ==
    ASSUME TypeOK, [Next]_vars
    PROVE  \/ audit' = audit
           \/ \E r \in Requests, rec \in AuditRows :
                 /\ pc[r] # "idle" /\ rec.evidence = req[r].evidence
                 /\ audit' = Append(audit, rec)
                 /\ pc' = [pc EXCEPT ![r] = "idle"]
                 /\ req' = [req EXCEPT ![r] = NoInput] /\ evidence' = evidence
  <1>1. CASE Tick \/ UNCHANGED vars
    BY <1>1 DEF Tick, vars, db
  <1>2. ASSUME NEW r \in Requests,
               \/ Receive(r) \/ ReadBaseline(r) \/ Expire(r) \/ SelectLifecycle(r)
               \/ InsertLifecycle(r) \/ InsertConflict(r) \/ Abort(r)
               \/ CheckNeedsRebaseline(r) \/ RefuseCreate(r) \/ RefuseAccept(r)
        PROVE  audit' = audit
    BY <1>2 DEF Receive, ReadBaseline, Expire, SelectLifecycle, InsertLifecycle,
       InsertConflict, Abort, CheckNeedsRebaseline, RefuseCreate, RefuseAccept, Refuse, db
  <1>3. ASSUME NEW r \in Requests,
               CommitCheck(r) \/ CommitCreate(r) \/ CommitAccept(r)
        PROVE  \E rec \in AuditRows :
                 /\ pc[r] # "idle" /\ rec.evidence = req[r].evidence
                 /\ audit' = Append(audit, rec)
                 /\ pc' = [pc EXCEPT ![r] = "idle"]
                 /\ req' = [req EXCEPT ![r] = NoInput] /\ evidence' = evidence
    <2>1. /\ pc[r] # "idle" /\ pc' = [pc EXCEPT ![r] = "idle"]
          /\ req' = [req EXCEPT ![r] = NoInput] /\ evidence' = evidence
      <3>1. PICK http, code : Answer(r, http, code) /\ pc[r] # "idle"
        <4>1. CASE CommitCheck(r)
          BY <4>1 DEF CommitCheck
        <4>2. CASE CommitCreate(r)
          BY <4>2 DEF CommitCreate
        <4>3. CASE CommitAccept(r)
          BY <4>3 DEF CommitAccept
        <4>4. QED BY <1>3, <4>1, <4>2, <4>3
      <3>2. QED BY <3>1 DEF Answer
    <2>2. \E rec : rec.evidence = req[r].evidence /\ audit' = Append(audit, rec)
      <3>1. \E kind, after, reason, decision, expected, pending :
              Transition(r, kind, after, reason, decision, expected, pending)
        <4>1. CASE CommitCheck(r)
          <5> DEFINE e == EvaluateCheck(row[r].state, seen[r], req[r].hash)
          <5>1. Transition(r, "check", e.after, e.reason, e.decision,
                           seen[r].hash, e.pending)
            BY <4>1 DEF CommitCheck
          <5> HIDE DEF e
          <5>2. QED BY <5>1
        <4>2. CASE CommitCreate(r)
          BY <4>2 DEF CommitCreate
        <4>3. CASE CommitAccept(r)
          BY <4>3 DEF CommitAccept
        <4>4. QED BY <1>3, <4>1, <4>2, <4>3
      <3>2. QED BY <3>1 DEF Transition, Record
    <2>3. PICK rec : rec.evidence = req[r].evidence /\ audit' = Append(audit, rec)
      BY <2>2
    <2>4. rec \in AuditRows
      <3>1. audit' \in Seq(AuditRows) /\ audit \in Seq(AuditRows)
        BY TypeStep DEF TypeOK
      <3>2. Len(audit) + 1 \in 1 .. Len(audit') /\ audit'[Len(audit) + 1] = rec
        BY <2>3, <3>1
      <3>3. QED BY <3>1, <3>2
    <2>5. QED BY <2>1, <2>3, <2>4
  <1>4. QED BY <1>1, <1>2, <1>3 DEF Next, Serve

\* A request gets its evidence number, the next one, as it arrives, and keeps it.
LEMMA RequestsMove ==
    ASSUME TypeOK, [Next]_vars
    PROVE  \/ /\ evidence' = evidence + 1 /\ audit' = audit
              /\ \E r \in Requests :
                    /\ req'[r].evidence = evidence + 1
                    /\ \A q \in Requests \ {r} : pc'[q] = pc[q] /\ req'[q] = req[q]
           \/ /\ evidence' = evidence
              /\ \A q \in Requests :
                    pc'[q] # "idle" => pc[q] # "idle" /\ req'[q] = req[q]
  <1>t. pc \in [Requests -> PCs] /\ req \in [Requests -> Inputs]
    BY DEF TypeOK
  <1>1. CASE Tick \/ UNCHANGED vars
    BY <1>1 DEF Tick, vars, db
  <1>2. ASSUME NEW r \in Requests, Receive(r)
        PROVE  /\ evidence' = evidence + 1 /\ audit' = audit
               /\ req'[r].evidence = evidence + 1
               /\ \A q \in Requests \ {r} : pc'[q] = pc[q] /\ req'[q] = req[q]
    <2>1. PICK b \in CheckBodies \cup CreateBodies \cup AcceptBodies :
            req' = [req EXCEPT ![r] = b]
      BY <1>2 DEF Receive
    <2>2. b.evidence = evidence + 1
      BY DEF CheckBodies, CreateBodies, AcceptBodies, Body
    <2>3. pc' = [pc EXCEPT ![r] = "read"] /\ evidence' = evidence + 1 /\ audit' = audit
      BY <1>2 DEF Receive
    <2>4. QED BY <1>t, <2>1, <2>2, <2>3
  <1>3. ASSUME NEW r \in Requests,
               ReadBaseline(r) \/ SelectLifecycle(r) \/ InsertLifecycle(r)
        PROVE  /\ evidence' = evidence
               /\ \A q \in Requests :
                     pc'[q] # "idle" => pc[q] # "idle" /\ req'[q] = req[q]
    <2>1. pc[r] # "idle" /\ req' = req /\ evidence' = evidence
          /\ \E s : pc' = [pc EXCEPT ![r] = s]
      BY <1>3 DEF ReadBaseline, SelectLifecycle, InsertLifecycle, db
    <2>2. QED BY <1>t, <2>1
  <1>4. ASSUME NEW r \in Requests,
               \/ Expire(r) \/ InsertConflict(r) \/ Abort(r) \/ CheckNeedsRebaseline(r)
               \/ RefuseCreate(r) \/ RefuseAccept(r)
               \/ CommitCheck(r) \/ CommitCreate(r) \/ CommitAccept(r)
        PROVE  /\ evidence' = evidence
               /\ \A q \in Requests :
                     pc'[q] # "idle" => pc[q] # "idle" /\ req'[q] = req[q]
    <2>1. \E http, code : Answer(r, http, code)
      <3>1. CASE Expire(r)
        BY <3>1 DEF Expire
      <3>2. CASE InsertConflict(r)
        BY <3>2 DEF InsertConflict
      <3>3. CASE Abort(r)
        BY <3>3 DEF Abort
      <3>4. CASE CheckNeedsRebaseline(r) \/ RefuseCreate(r) \/ RefuseAccept(r)
        BY <3>4 DEF CheckNeedsRebaseline, RefuseCreate, RefuseAccept, Refuse
      <3>5. CASE CommitCheck(r)
        BY <3>5 DEF CommitCheck
      <3>6. CASE CommitCreate(r)
        BY <3>6 DEF CommitCreate
      <3>7. CASE CommitAccept(r)
        BY <3>7 DEF CommitAccept
      <3>8. QED BY <1>4, <3>1, <3>2, <3>3, <3>4, <3>5, <3>6, <3>7
    <2>2. pc' = [pc EXCEPT ![r] = "idle"] /\ req' = [req EXCEPT ![r] = NoInput]
          /\ evidence' = evidence
      BY <2>1 DEF Answer
    <2>3. QED BY <1>t, <2>2
  <1>5. QED BY <1>1, <1>2, <1>3, <1>4 DEF Next, Serve

LEMMA VerdictStep ==
    TypeOK /\ EvidenceIsOwn /\ AtMostOneVerdict /\ [Next]_vars
      => EvidenceIsOwn' /\ AtMostOneVerdict'
  <1> SUFFICES ASSUME TypeOK, EvidenceIsOwn, AtMostOneVerdict, [Next]_vars
               PROVE  EvidenceIsOwn' /\ AtMostOneVerdict'
    OBVIOUS
  <1>t. /\ evidence \in Nat /\ audit \in Seq(AuditRows) /\ Len(audit) \in Nat
        /\ \A i \in 1 .. Len(audit) : audit[i].evidence \in Nat
        /\ \A r \in Requests : req[r].evidence \in Nat
        /\ pc \in [Requests -> PCs]
    <2>1. audit \in Seq(AuditRows)
      BY DEF TypeOK
    <2>2. \A i \in 1 .. Len(audit) : audit[i] \in AuditRows
      BY <2>1
    <2>3. QED BY <2>1, <2>2, FsmAssumption DEF TypeOK, AuditRows, Inputs
  <1>1. CASE audit' = audit
    <2>1. ASSUME NEW r \in Requests, req'[r].evidence = evidence + 1,
                 evidence' = evidence + 1,
                 \A q \in Requests \ {r} : pc'[q] = pc[q] /\ req'[q] = req[q]
          PROVE  EvidenceIsOwn' /\ AtMostOneVerdict'
      BY <1>1, <1>t, <2>1 DEF EvidenceIsOwn, AtMostOneVerdict
    <2>2. CASE evidence' = evidence /\ \A q \in Requests :
                 pc'[q] # "idle" => pc[q] # "idle" /\ req'[q] = req[q]
      BY <1>1, <2>2 DEF EvidenceIsOwn, AtMostOneVerdict
    <2>3. QED BY <2>1, <2>2, RequestsMove
  <1>2. ASSUME NEW r \in Requests, NEW rec \in AuditRows, pc[r] # "idle",
               rec.evidence = req[r].evidence, audit' = Append(audit, rec),
               pc' = [pc EXCEPT ![r] = "idle"], req' = [req EXCEPT ![r] = NoInput],
               evidence' = evidence
        PROVE  EvidenceIsOwn' /\ AtMostOneVerdict'
    <2>1. /\ Len(audit') = Len(audit) + 1 /\ audit'[Len(audit) + 1] = rec
          /\ \A i \in 1 .. Len(audit) : audit'[i] = audit[i]
      BY <1>2, <1>t
    <2>2. \A q \in Requests : pc'[q] # "idle" =>
             q # r /\ pc[q] # "idle" /\ req'[q] = req[q]
      <3>1. req \in [Requests -> Inputs]
        BY DEF TypeOK
      <3>2. QED BY <1>2, <1>t, <3>1
    <2>3. \A i \in 1 .. Len(audit') :
             i \in 1 .. Len(audit) \/ (i = Len(audit) + 1 /\ audit'[i] = rec)
      BY <1>t, <2>1
    <2>4. EvidenceIsOwn'
      BY <1>2, <1>t, <2>1, <2>2, <2>3 DEF EvidenceIsOwn
    <2>5. AtMostOneVerdict'
      BY <1>2, <1>t, <2>1, <2>2, <2>3 DEF EvidenceIsOwn, AtMostOneVerdict
    <2>6. QED BY <2>4, <2>5
  <1>3. QED BY <1>1, <1>2, TrailStep

\* No request leaves two verdicts in the trail, and none in flight has one yet, through
\* every conflict, refusal and rollback.
THEOREM VerdictSafe == Spec => []AtMostOneVerdict
  <1>1. Init => EvidenceIsOwn /\ AtMostOneVerdict
    BY DEF Init, EvidenceIsOwn, AtMostOneVerdict
  <1>2. Spec => []TypeOK
    BY TypeCorrect
  <1>3. QED BY <1>1, <1>2, VerdictStep, PTL DEF Spec

=============================================================================
