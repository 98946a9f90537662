-------------------------- MODULE MCEnforcementLanes ------------------------
(***************************************************************************)
(* EnforcementFsm for TLC, with and without overlap of the requests:       *)
(* LaneSpec adds a choice made at the start: in the serial lane requests   *)
(* come one after the other, as many as MaxEvidence; in the parallel lane  *)
(* two of them overlap and no more come.                                   *)
(***************************************************************************)
EXTENDS EnforcementFsm, EnforcementReplay

CONSTANT SerialSlot   \* the slot of the serial lane

VARIABLE lane

LaneBound ==
    IF lane = "serial" THEN InFlight \subseteq {SerialSlot} ELSE evidence <= 2

LaneNext == Next /\ UNCHANGED lane /\ LaneBound'

LaneSpec ==
    /\ Init /\ lane \in {"serial", "parallel"}
    /\ [][LaneNext]_<<vars, lane>>
    /\ Fairness

\* Without overlap the last verdict, when it is trusted, trusts the stored baseline
\* (executeFsmCheck), the hash offered for accept is that of the baseline in force, and
\* the governed acceptance is pointed at until its rerun: see EnforcementFsm.
SerialBaseline ==
    lane = "serial" =>
        TrustedMatchesBaseline /\ PendingIsBaseline /\ PointerOnlyWhileCertifying

\* A stored event of the workflow in the reducer's terms.
Normalized(x) ==
    CASE x.kind = "baseline_create" -> Event("baseline_created", NoHash, x.actual)
      [] x.kind = "accept_drift" -> Event("drift_accepted", NoHash, x.actual)
      [] x.kind = "check" /\ x.reason = "DRIFT_DETECTED" ->
             Event("drift_detected", x.expected, x.actual)
      [] x.kind = "check" /\ x.reason # "DRIFT_DETECTED" ->
             Event("check_pass", NoHash, x.actual)

\* A baseline older than the lifecycle table shows in the first check.
Legacy(first) ==
    IF first.kind = "check" /\ first.expected # NoHash
    THEN <<Event("baseline_created", NoHash, first.expected)>> ELSE <<>>

History(trail) == Legacy(trail[1]) \o [i \in DOMAIN trail |-> Normalized(trail[i])]

\* A match that only repeats open drift, which has no place in a legacy history.
Repeats(trail) == \E i \in DOMAIN trail : trail[i].reason = "REMEDIATION_ACK_REQUIRED"

\* Without overlap, replaying the stored history (applyFsmNormalizedEvent) gives the
\* posture, baseline and pending hash the server has arrived at, or finds that it does
\* not fit a legacy history.
SerialReplay ==
    lane = "serial" /\ audit # <<>> =>
        Replay(History(audit)) =
            IF Repeats(audit) THEN Unmappable
            ELSE Posture(life.state, baseline.hash, life.pending)

\* Without overlap, only an accept closes drift: see ClosedLoop.
SerialClosedLoop == [][lane = "serial" => DriftStaysOpen]_<<vars, lane>>
=============================================================================
