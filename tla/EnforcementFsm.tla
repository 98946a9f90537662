--------------------------- MODULE EnforcementFsm ---------------------------
(***************************************************************************)
(* Hosted stateful enforcement of one workflow of one account: the three   *)
(* transactions of website/src/lib/enforcementFsmPersistence.ts, run       *)
(* concurrently by the API routes check, baselines and accept.             *)
(*                                                                         *)
(* Every transaction runs at READ COMMITTED.  It reads the baseline row    *)
(* WITHOUT a lock, then takes the lifecycle row FOR UPDATE (or inserts     *)
(* it), then writes and commits.  Another transaction may commit between   *)
(* any two of these steps.  A transaction's writes are seen by the others  *)
(* only from its commit step, so the steps up to that one change nothing   *)
(* but the row lock and the transaction's own snapshot.                    *)
(***************************************************************************)
EXTENDS EnforcementLifecycle, Naturals, Sequences, FiniteSets

CONSTANTS Requests,     \* slots for concurrent HTTP requests
          NoRequest,    \* the row lock is free
          Hashes,       \* material truth (projection) hashes
          MaxInFlight,  \* bound: requests being served at the same time
          MaxEvidence,  \* bound: requests ever received
          MaxClock      \* bound: the clock of exception_review_by

ASSUME FsmAssumption ==
    /\ NoHash \notin Hashes
    /\ NoRequest \notin Requests
    /\ MaxInFlight \in Nat
    /\ MaxEvidence \in Nat
    /\ MaxClock \in Nat

VARIABLES clock,        \* wall clock, in units of exception_review_by
          baseline,     \* the enforcement_baselines row
          acceptances,  \* governance_acceptance rows; the id is the index
          life,         \* the committed enforcement_lifecycle row
          rowLock,      \* request holding the lifecycle row (or its key)
          audit,        \* transition + decision + event rows, commit order
          evidence,     \* number of governance_evidence rows
          pc, req,      \* per request: next step, parsed input
          seen, row,    \* per request: baseline snapshot, lifecycle in the tx
          response      \* the HTTP response the last step sent, if it sent one

db == <<baseline, acceptances, life, audit, evidence>>
vars == <<clock, baseline, acceptances, life, rowLock, audit, evidence,
          pc, req, seen, row, response>>

NoBaseline == [exists |-> FALSE, hash |-> NoHash, acc |-> 0,
               needsRebaseline |-> FALSE]
NoLife == [exists |-> FALSE, state |-> "baseline_missing", version |-> 0,
           pending |-> NoHash]
NoResponse == [kind |-> "none", http |-> 0, code |-> "none", evidence |-> 0]
NoInput == [kind |-> "none", hash |-> NoHash, grade |-> FALSE, ver |-> 0,
            expected |-> NoHash, reviewBy |-> 0, now |-> 0, evidence |-> 0]

\* A baseline that predates the lifecycle table, or nothing at all.
LegacyBaseline ==
    {[exists |-> TRUE, hash |-> h, acc |-> 0, needsRebaseline |-> n] :
        h \in Hashes, n \in BOOLEAN}

Init ==
    /\ clock = 0
    /\ baseline \in {NoBaseline} \cup LegacyBaseline
    /\ acceptances = <<>>
    /\ life = NoLife
    /\ rowLock = NoRequest
    /\ audit = <<>>
    /\ evidence = 0
    /\ pc = [r \in Requests |-> "idle"]
    /\ req = [r \in Requests |-> NoInput]
    /\ seen = [r \in Requests |-> NoBaseline]
    /\ row = [r \in Requests |-> NoLife]
    /\ response = NoResponse

InFlight == {r \in Requests : pc[r] # "idle"}

-----------------------------------------------------------------------------
(* What the request parsers let through. *)

Body(kind, hash, grade, ver, expected, reviewBy) ==
    [kind |-> kind, hash |-> hash, grade |-> grade, ver |-> ver,
     expected |-> expected, reviewBy |-> reviewBy,
     now |-> IF kind = "check" THEN clock ELSE 0, evidence |-> evidence + 1]

CheckBodies == {Body("check", h, TRUE, 0, NoHash, 0) : h \in Hashes}

CreateBodies ==
    {Body("create", h, g, 0, NoHash, 0) : h \in Hashes, g \in BOOLEAN}

\* An accept quotes a version some response has told its client, current or
\* stale; exception_review_by is absent (0) or strictly in the future.
AcceptBodies ==
    {Body("accept", h, g, v, x, d) :
        h \in Hashes, g \in BOOLEAN, v \in 0 .. life.version, x \in Hashes,
        d \in {0} \cup (clock + 1) .. MaxClock}

\* A route handler: the request passed authentication, scope, entitlement,
\* parsing and hash verification.  Its governance_evidence row commits on its
\* own, before the transaction; a check takes its `now' here.
Receive(r) ==
    /\ pc[r] = "idle"
    /\ Cardinality(InFlight) < MaxInFlight
    /\ evidence < MaxEvidence
    /\ \E b \in CheckBodies \cup CreateBodies \cup AcceptBodies :
          req' = [req EXCEPT ![r] = b]
    /\ evidence' = evidence + 1
    /\ pc' = [pc EXCEPT ![r] = "read"]
    /\ UNCHANGED <<clock, baseline, acceptances, life, rowLock, audit,
                   seen, row>>
    /\ response' = NoResponse

Tick ==
    /\ clock < MaxClock
    /\ clock' = clock + 1
    /\ response' = NoResponse
    /\ UNCHANGED <<db, rowLock, pc, req, seen, row>>

-----------------------------------------------------------------------------
(* The transactions. *)

\* The governed acceptance the snapshot points at is past its review date.
AcceptanceExpired(b, now) ==
    /\ b.acc # 0
    /\ acceptances[b.acc].reviewBy # 0
    /\ now >= acceptances[b.acc].reviewBy

\* Unlocked SELECT of the baseline; only check looks at the acceptance.
ReadBaseline(r) ==
    /\ pc[r] = "read"
    /\ seen' = [seen EXCEPT ![r] = baseline]
    /\ pc' = [pc EXCEPT ![r] =
                IF req[r].kind = "check" /\ AcceptanceExpired(baseline, req[r].now)
                THEN "expire" ELSE "select"]
    /\ response' = NoResponse
    /\ UNCHANGED <<clock, db, rowLock, req, row>>

\* Mutant: a refused request is run again by the server.
Answer_RetryRefused(r, http, code) ==
    /\ response' = [kind |-> req[r].kind, http |-> http, code |-> code,
                    evidence |-> req[r].evidence]
    /\ pc' = [pc EXCEPT ![r] = IF http = 409 THEN "read" ELSE "idle"]
    /\ seen' = [seen EXCEPT ![r] = NoBaseline]
    /\ row' = [row EXCEPT ![r] = NoLife]
    /\ UNCHANGED <<clock, evidence, req>>

\* The response leaves and the slot is free again.  The code of a check is its
\* decision_reason_code.
Answer(r, http, code) ==
    /\ response' = [kind |-> req[r].kind, http |-> http, code |-> code,
                    evidence |-> req[r].evidence]
    /\ pc' = [pc EXCEPT ![r] = "idle"]
    /\ req' = [req EXCEPT ![r] = NoInput]
    /\ seen' = [seen EXCEPT ![r] = NoBaseline]
    /\ row' = [row EXCEPT ![r] = NoLife]
    /\ UNCHANGED <<clock, evidence>>

\* An expired acceptance: UPDATE of the baseline by id, no lifecycle row, no
\* decision, answer 409.
Expire(r) ==
    /\ pc[r] = "expire"
    /\ baseline' = [exists |-> baseline.exists, hash |-> baseline.hash, acc |-> 0,
                    needsRebaseline |-> TRUE]
    /\ Answer(r, 409, "ENFORCE_BASELINE_REBASE_REQUIRED")
    /\ UNCHANGED <<acceptances, life, rowLock, audit>>

\* Mutant: the repair keeps the version.
Repaired_SameVersion(committed, baselineSeen) ==
    IF committed.state = "baseline_missing" /\ baselineSeen
    THEN [committed EXCEPT !.state = "baseline_active"]
    ELSE committed

\* The row ensureLifecycleRow hands on: a committed row, repaired when it says
\* baseline_missing although the caller saw a baseline.
Repaired(committed, baselineSeen) ==
    IF committed.state = "baseline_missing" /\ baselineSeen
    THEN [exists |-> TRUE, state |-> "baseline_active",
          version |-> committed.version + 1, pending |-> committed.pending]
    ELSE committed

\* Mutant: FOR UPDATE is forgotten.
RowLockFree_NoForUpdate == TRUE

RowLockFree == rowLock = NoRequest

\* SELECT ... FOR UPDATE: a committed row is waited for; a missing row, and one
\* another transaction has inserted but not committed, is not found at once.
SelectLifecycle(r) ==
    /\ pc[r] = "select"
    /\ IF life.exists
       THEN /\ RowLockFree
            /\ rowLock' = r
            /\ row' = [row EXCEPT ![r] = Repaired(life, seen[r].exists)]
            /\ pc' = [pc EXCEPT ![r] = "commit"]
       ELSE /\ pc' = [pc EXCEPT ![r] = "insert"]
            /\ UNCHANGED <<rowLock, row>>
    /\ response' = NoResponse
    /\ UNCHANGED <<clock, db, req, seen>>

\* INSERT waits for a concurrent inserter of the same key ...
InsertLifecycle(r) ==
    /\ pc[r] = "insert"
    /\ RowLockFree
    /\ ~life.exists
    /\ rowLock' = r
    /\ row' = [row EXCEPT ![r] = [exists |-> TRUE,
                                  state |-> InferLifecycle(seen[r].exists),
                                  version |-> 0, pending |-> NoHash]]
    /\ pc' = [pc EXCEPT ![r] = "commit"]
    /\ response' = NoResponse
    /\ UNCHANGED <<clock, db, req, seen>>

\* ... and fails with a unique violation once that inserter has committed.
InsertConflict(r) ==
    /\ pc[r] = "insert"
    /\ RowLockFree
    /\ life.exists
    /\ Answer(r, 500, "ERROR")
    /\ UNCHANGED <<baseline, acceptances, life, rowLock, audit>>

Record(r, kind, after, reason, decision, expected) ==
    [ver |-> row[r].version + 1, kind |-> kind, from |-> row[r].state,
     to |-> after, reason |-> reason, decision |-> decision,
     receipt |-> decision = "decision_blocked" /\ reason \in TrustBlockedReasonCodes,
     expected |-> expected, actual |-> req[r].hash, evidence |-> req[r].evidence]

\* Mutant: the version is raised only when the posture changes.
NextLife_KeptVersion(r, after, pending) ==
    [exists |-> TRUE, state |-> after, pending |-> pending,
     version |-> IF after = row[r].state THEN row[r].version ELSE row[r].version + 1]

\* Mutant: a null pending hash leaves the column alone.
NextLife_KeptPending(r, after, pending) ==
    [exists |-> TRUE, state |-> after, version |-> row[r].version + 1,
     pending |-> IF pending = NoHash THEN row[r].pending ELSE pending]

NextLife(r, after, pending) ==
    [exists |-> TRUE, state |-> after, version |-> row[r].version + 1,
     pending |-> pending]

\* The last writes of a transition and its COMMIT.  The UPDATE carries the
\* version it read; OptimisticLockNeverMisses says that it always matches.
Transition(r, kind, after, reason, decision, expected, pending) ==
    /\ audit' = Append(audit, Record(r, kind, after, reason, decision, expected))
    /\ life' = NextLife(r, after, pending)
    /\ rowLock' = NoRequest

\* Mutant: an early return leaves the transaction open.
Refuse_LeavesOpen(r, http, code) ==
    /\ life' = row[r]
    /\ Answer(r, http, code)
    /\ UNCHANGED <<baseline, acceptances, audit, rowLock>>

\* An early return commits too, with the repair or insert of the lifecycle row.
Refuse(r, http, code) ==
    /\ life' = row[r]
    /\ rowLock' = NoRequest
    /\ Answer(r, http, code)
    /\ UNCHANGED <<baseline, acceptances, audit>>

CheckNeedsRebaseline(r) ==
    /\ pc[r] = "commit" /\ req[r].kind = "check"
    /\ CheckPreconditionFails(seen[r])
    /\ Refuse(r, 409, "ENFORCE_BASELINE_REBASE_REQUIRED")

\* Mutant: the pointer is retired by the wrong outcome.
RetiresPointer_OnMatch(r, reason) == reason = "CHECK_MATCH" /\ seen[r].acc # 0

\* A passing rerun retires the acceptance pointer when it saw one at its start.
RetiresPointer(r, reason) == reason = "RERUN_PASS" /\ seen[r].acc # 0

CommitCheck(r) ==
    /\ pc[r] = "commit" /\ req[r].kind = "check"
    /\ ~CheckPreconditionFails(seen[r])
    /\ LET e == EvaluateCheck(row[r].state, seen[r], req[r].hash)
       IN  /\ Transition(r, "check", e.after, e.reason, e.decision,
                         seen[r].hash, e.pending)
           /\ baseline' = IF RetiresPointer(r, e.reason)
                          THEN [baseline EXCEPT !.acc = 0] ELSE baseline
           /\ Answer(r, e.http, e.reason)
    /\ UNCHANGED acceptances

RefuseCreate(r) ==
    /\ pc[r] = "commit" /\ req[r].kind = "create"
    /\ LET code == EvaluateCreateBaseline(row[r].state, req[r].grade)
       IN  code # "COMPLETED" /\ Refuse(r, 409, code)

CommitCreate(r) ==
    /\ pc[r] = "commit" /\ req[r].kind = "create"
    /\ EvaluateCreateBaseline(row[r].state, req[r].grade) = "COMPLETED"
    /\ baseline' = [exists |-> TRUE, hash |-> req[r].hash, acc |-> 0,
                    needsRebaseline |-> FALSE]
    /\ Transition(r, "baseline_create", "baseline_active",
                  "BASELINE_ESTABLISHED", "decision_trusted", NoHash, NoHash)
    /\ Answer(r, 200, "COMPLETED")
    /\ UNCHANGED acceptances

AcceptVerdict(r) ==
    EvaluateAccept(row[r], req[r].ver, req[r].expected, req[r].grade)

\* Mutant: only an acceptance with a review date is stored.
Accepted_OnlyReviewed(r) ==
    IF req[r].reviewBy = 0 THEN acceptances
    ELSE Append(acceptances, [hash |-> req[r].hash, reviewBy |-> req[r].reviewBy])

\* The governance_acceptance rows with the one this accept inserts.
Accepted(r) ==
    Append(acceptances, [hash |-> req[r].hash, reviewBy |-> req[r].reviewBy])

RefuseAccept(r) ==
    /\ pc[r] = "commit" /\ req[r].kind = "accept"
    /\ AcceptVerdict(r) # "COMPLETED"
    /\ Refuse(r, 409, AcceptVerdict(r))

CommitAccept(r) ==
    /\ pc[r] = "commit" /\ req[r].kind = "accept"
    /\ AcceptVerdict(r) = "COMPLETED"
    /\ acceptances' = Accepted(r)
    /\ baseline' = [exists |-> TRUE, hash |-> req[r].hash,
                    acc |-> Len(acceptances) + 1, needsRebaseline |-> FALSE]
    /\ Transition(r, "accept_drift", "rerun_required", "none", "none",
                  req[r].expected, NoHash)
    /\ Answer(r, 200, "COMPLETED")

\* A lost connection, a crash of the function or a statement error: ROLLBACK.
Abort(r) ==
    /\ pc[r] # "idle"
    /\ rowLock' = IF rowLock = r THEN NoRequest ELSE rowLock
    /\ Answer(r, 500, "ERROR")
    /\ UNCHANGED <<baseline, acceptances, life, audit>>

-----------------------------------------------------------------------------
Serve(r) ==
    \/ ReadBaseline(r)
    \/ Expire(r)
    \/ SelectLifecycle(r)
    \/ InsertLifecycle(r)
    \/ InsertConflict(r)
    \/ CheckNeedsRebaseline(r)
    \/ CommitCheck(r)
    \/ RefuseCreate(r)
    \/ CommitCreate(r)
    \/ RefuseAccept(r)
    \/ CommitAccept(r)

Next ==
    \/ Tick
    \/ \E r \in Requests : Receive(r) \/ Serve(r) \/ Abort(r)

\* A request in flight is not abandoned by its server process: each of its
\* steps is taken (or it aborts) once nothing blocks it.
Fairness == \A r \in Requests : WF_vars(Serve(r))

Spec == Init /\ [][Next]_vars
FairSpec == Spec /\ Fairness

-----------------------------------------------------------------------------
(* Types. *)

BaselineRows ==
    [exists : BOOLEAN, hash : Hashes \cup {NoHash}, acc : Nat,
     needsRebaseline : BOOLEAN]
LifeRows ==
    [exists : BOOLEAN, state : LifecycleStates, version : Nat,
     pending : Hashes \cup {NoHash}]
Inputs ==
    [kind : {"none", "check", "create", "accept"}, hash : Hashes \cup {NoHash},
     grade : BOOLEAN, ver : Nat, expected : Hashes \cup {NoHash},
     reviewBy : Nat, now : Nat, evidence : Nat]
AuditRows ==
    [ver : Nat, kind : {"check", "baseline_create", "accept_drift"},
     from : LifecycleStates, to : LifecycleStates,
     reason : DecisionReasonCodes \cup {"none"},
     decision : DecisionStates \cup {"none"}, receipt : BOOLEAN,
     expected : Hashes \cup {NoHash}, actual : Hashes, evidence : Nat]
ResponseCodes ==
    DecisionReasonCodes \cup
    {"none", "COMPLETED", "ERROR", "ENFORCE_INVALID_TRANSITION",
     "ENFORCE_STALE_STATE_VERSION", "ENFORCE_EXPECTED_HASH_MISMATCH",
     "ENFORCE_DECISION_GRADE_REQUIRED", "ENFORCE_BASELINE_REBASE_REQUIRED"}
Responses ==
    [kind : {"none", "check", "create", "accept"}, http : {0, 200, 409, 500},
     code : ResponseCodes, evidence : Nat]
PCs == {"idle", "read", "expire", "select", "insert", "commit"}

\* Every variable has its type; in particular the acceptance pointer of the
\* baseline row, and of every snapshot of it, names a governance_acceptance row.
TypeOK ==
    /\ clock \in 0 .. MaxClock
    /\ baseline \in BaselineRows
    /\ baseline.acc \in 0 .. Len(acceptances)
    /\ acceptances \in Seq([hash : Hashes, reviewBy : Nat])
    /\ life \in LifeRows
    /\ rowLock \in Requests \cup {NoRequest}
    /\ audit \in Seq(AuditRows)
    /\ evidence \in 0 .. MaxEvidence
    /\ pc \in [Requests -> PCs]
    /\ req \in [Requests -> Inputs]
    /\ \A r \in Requests :
          pc[r] # "idle" => req[r].kind # "none" /\ req[r].hash \in Hashes
    /\ seen \in [Requests -> BaselineRows]
    /\ row \in [Requests -> LifeRows]
    /\ response \in Responses

-----------------------------------------------------------------------------
(* Safety under every interleaving of the transactions. *)

\* The lifecycle row in a transaction that is about to commit is the committed
\* row (inserted or repaired by it), and only that transaction holds the lock:
\* so the UPDATE ... WHERE state_version = <version read> of enforcementFsm-
\* Persistence never misses and "lifecycle optimistic lock conflict" is never
\* thrown, however requests interleave, time out or roll back.
OptimisticLockNeverMisses ==
    \A r \in Requests :
        /\ pc[r] = "commit" <=> rowLock = r
        /\ pc[r] = "commit" =>
              row[r] = IF life.exists THEN Repaired(life, seen[r].exists)
                       ELSE [exists |-> TRUE,
                             state |-> InferLifecycle(seen[r].exists),
                             version |-> 0, pending |-> NoHash]

\* A committed posture other than baseline_missing always has a baseline row to
\* check against, and an expected hash for accept is recorded exactly while the
\* posture is action_required.
PostureIsBacked ==
    life.exists =>
        /\ life.state # "baseline_missing" => baseline.exists
        /\ life.pending # NoHash <=> life.state = "action_required"

\* The transitions of the audit trail carry strictly increasing versions in
\* commit order, none is ahead of the lifecycle row, and the row's posture is
\* the target of the transition that carries the row's version.
AuditVersionsIncrease ==
    /\ \A i, j \in 1 .. Len(audit) : i < j => audit[i].ver < audit[j].ver
    /\ \A i \in 1 .. Len(audit) :
          /\ life.exists /\ audit[i].ver <= life.version
          /\ audit[i].ver = life.version => audit[i].to = life.state

\* Every committed accept answers the drift its client was shown: the version
\* just before it was written by a check that moved (or kept) the posture in
\* action_required against exactly the expected hash the accept quotes.
AcceptAnswersRecordedDrift ==
    \A i \in 1 .. Len(audit) : audit[i].kind = "accept_drift" =>
        /\ i > 1
        /\ audit[i - 1].ver + 1 = audit[i].ver
        /\ audit[i - 1].kind = "check"
        /\ audit[i - 1].to = "action_required"
        /\ audit[i - 1].expected = audit[i].expected

\* Retries, conflicts and rollbacks never leave two verdicts for one request:
\* no two audit rows cite the same governance_evidence row, and a request still
\* in flight has none.
AtMostOneVerdict ==
    /\ \A i, j \in 1 .. Len(audit) :
          i # j => audit[i].evidence # audit[j].evidence
    /\ \A i \in 1 .. Len(audit), r \in Requests :
          pc[r] # "idle" => audit[i].evidence # req[r].evidence

\* A committed change of the lifecycle row after its insert raises the version:
\* a version a client read identifies one posture and one pending hash, so a
\* stale accept is recognised by its version alone.
VersionsIdentifyPosture ==
    [][life.exists /\ life' # life => life'.version > life.version]_vars

\* Every request is eventually answered: no transaction waits forever for the
\* lifecycle row, whatever the others do, fail to do or roll back.
EveryRequestAnswered ==
    \A r \in Requests : pc[r] # "idle" ~> pc[r] = "idle"

-----------------------------------------------------------------------------
(* Safety when the requests of a workflow come one after the other.         *)

\* The last verdict of the trail, when it is trusted, trusts the hash that is
\* the stored baseline, and the baseline does not await a rebaseline.
TrustedMatchesBaseline ==
    audit # <<>> /\ audit[Len(audit)].decision = "decision_trusted" =>
        audit[Len(audit)].actual = baseline.hash /\ ~baseline.needsRebaseline

DriftStaysOpen ==
    life.exists /\ life'.state # life.state =>
        /\ life.state = "action_required" => life'.state = "rerun_required"
        /\ life.state = "rerun_required" =>
              /\ life'.state \in {"baseline_active", "action_required"}
              /\ audit' # audit

\* Open drift is closed only by an accept: the posture leaves action_required
\* for rerun_required only, and leaves rerun_required only by a check.
ClosedLoop == [][DriftStaysOpen]_vars

\* The expected hash offered for accept is the hash of the stored baseline, so
\* the drift a client accepts is drift from the baseline in force.
PendingIsBaseline ==
    life.exists /\ life.state = "action_required" => life.pending = baseline.hash

\* The baseline points at a governed acceptance only between the accept and the
\* rerun that certifies it, and that acceptance is for the stored hash.
PointerOnlyWhileCertifying ==
    baseline.acc # 0 =>
        /\ life.state \in {"rerun_required", "action_required"}
        /\ acceptances[baseline.acc].hash = baseline.hash

-----------------------------------------------------------------------------
(* What the documents promise and the code does not keep. *)

\* Recreating the baseline is the way out of ENFORCE_BASELINE_REBASE_REQUIRED:
\* POST /baselines is never refused for its posture while the stored baseline is
\* flagged needs_rebaseline (docs/governance.md).
RebaselineAdmitted ==
    response.kind = "create" /\ response.code = "ENFORCE_INVALID_TRANSITION"
        => ~baseline.needsRebaseline
=============================================================================
