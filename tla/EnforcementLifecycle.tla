------------------------ MODULE EnforcementLifecycle ------------------------
(***************************************************************************)
(* The pure functions of website/src/lib/verificationLifecycle.ts: what    *)
(* POST /check, POST /baselines and POST /accept decide about one workflow *)
(* from the lifecycle posture, the stored baseline projection hash and the *)
(* evidence of the request.  Messages and next_action texts are left out;  *)
(* every code, posture, decision and pending hash is kept.                 *)
(***************************************************************************)
CONSTANT NoHash   \* SQL NULL in a projection-hash column

LifecycleStates ==
    {"baseline_missing", "baseline_active", "action_required", "rerun_required"}

DecisionStates == {"decision_trusted", "decision_blocked"}

\* Reason codes that also write a trust-block receipt and a funnel event.
TrustBlockedReasonCodes ==
    {"BASELINE_MISSING", "DRIFT_DETECTED", "RERUN_FAIL", "REMEDIATION_ACK_REQUIRED"}

\* The reason codes POST /check and POST /baselines can persist.
DecisionReasonCodes ==
    TrustBlockedReasonCodes \cup {"BASELINE_ESTABLISHED", "CHECK_MATCH", "RERUN_PASS"}

\* Posture of a workflow that has no enforcement_lifecycle row yet.
InferLifecycle(baselineRowExists) ==
    IF baselineRowExists THEN "baseline_active" ELSE "baseline_missing"

\* Mutant: the needs_rebaseline flag is not looked at.
CheckPreconditionFails_Ignored(baseline) == FALSE

\* needs_rebaseline blocks a check before any lifecycle evaluation.
CheckPreconditionFails(baseline) == baseline.exists /\ baseline.needsRebaseline

Evaluation(after, decision, reason, http, pending) ==
    [after |-> after, decision |-> decision, reason |-> reason,
     http |-> http, pending |-> pending]

\* Mutant: the accept must quote the observed hash.
PendingHash_Observed(baseline, actual) == actual

\* The hash an accept must quote to acknowledge a blocked check.
PendingHash(baseline, actual) == baseline.hash

\* evaluateCheck: `baseline' is the row the transaction read, `actual' the
\* material truth hash recomputed from the request's certificate.
EvaluateCheck(state, baseline, actual) ==
    LET lifeIn == IF state = "baseline_missing" /\ baseline.exists
                  THEN "baseline_active" ELSE state
        blocked(after, reason, http) ==
            Evaluation(after, "decision_blocked", reason, http,
                       PendingHash(baseline, actual))
        trusted(reason) ==
            Evaluation("baseline_active", "decision_trusted", reason, 200, NoHash)
        matches == actual = baseline.hash
    IN  CASE ~baseline.exists ->
               Evaluation("baseline_missing", "decision_blocked",
                          "BASELINE_MISSING", 409, NoHash)
          [] baseline.exists /\ lifeIn = "baseline_active" ->
               IF matches THEN trusted("CHECK_MATCH")
               ELSE blocked("action_required", "DRIFT_DETECTED", 200)
          [] baseline.exists /\ lifeIn = "action_required" ->
               IF matches
               THEN blocked("action_required", "REMEDIATION_ACK_REQUIRED", 409)
               ELSE blocked("action_required", "DRIFT_DETECTED", 200)
          [] baseline.exists /\ lifeIn = "rerun_required" ->
               IF matches THEN trusted("RERUN_PASS")
               ELSE blocked("action_required", "RERUN_FAIL", 200)

\* Mutant: a baseline may also be recreated over open drift.
EvaluateCreateBaseline_OverDrift(state, decisionGrade) ==
    CASE state \notin {"baseline_missing", "action_required"} ->
           "ENFORCE_INVALID_TRANSITION"
      [] state \in {"baseline_missing", "action_required"} /\ ~decisionGrade ->
           "ENFORCE_DECISION_GRADE_REQUIRED"
      [] OTHER -> "COMPLETED"

\* evaluateCreateBaseline: the response code; "COMPLETED" admits the baseline.
EvaluateCreateBaseline(state, decisionGrade) ==
    CASE state # "baseline_missing" -> "ENFORCE_INVALID_TRANSITION"
      [] state = "baseline_missing" /\ ~decisionGrade ->
           "ENFORCE_DECISION_GRADE_REQUIRED"
      [] OTHER -> "COMPLETED"

\* Mutant: the expected hash is only required, not compared.
EvaluateAccept_AnyHash(row, reqVersion, reqExpected, decisionGrade) ==
    CASE row.state # "action_required" -> "ENFORCE_INVALID_TRANSITION"
      [] row.state = "action_required" /\ reqVersion # row.version ->
           "ENFORCE_STALE_STATE_VERSION"
      [] OTHER -> "COMPLETED"

\* evaluateAccept: the response code; "COMPLETED" admits the acceptance.  The
\* parser has already refused a missing version or a missing expected hash.
EvaluateAccept(row, reqVersion, reqExpected, decisionGrade) ==
    CASE row.state # "action_required" -> "ENFORCE_INVALID_TRANSITION"
      [] row.state = "action_required" /\ reqVersion # row.version ->
           "ENFORCE_STALE_STATE_VERSION"
      [] /\ row.state = "action_required" /\ reqVersion = row.version
         /\ \/ row.pending = NoHash
            \/ reqExpected # row.pending -> "ENFORCE_EXPECTED_HASH_MISMATCH"
      [] /\ row.state = "action_required" /\ reqVersion = row.version
         /\ row.pending # NoHash /\ reqExpected = row.pending
         /\ ~decisionGrade -> "ENFORCE_DECISION_GRADE_REQUIRED"
      [] OTHER -> "COMPLETED"
=============================================================================
