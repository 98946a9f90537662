------------------------- MODULE EnforcementReplay --------------------------
(***************************************************************************)
(* applyFsmNormalizedEvent of website/src/lib/verificationLifecycle.ts:    *)
(* the reducer that derives the posture of a workflow from its history,    *)
(* for the backfill of enforcement_lifecycle rows.  It is a second version *)
(* of the rules of EnforcementLifecycle, written event by event.           *)
(***************************************************************************)
EXTENDS EnforcementLifecycle, Naturals, Sequences

Posture(lifecycle, hash, pending) ==
    [lifecycle |-> lifecycle, hash |-> hash, pending |-> pending]

\* The reducer's fatal result: the history does not fit the closed loop.
Unmappable == Posture("HISTORICAL_UNMAPPABLE", NoHash, NoHash)

Event(kind, expected, hash) == [kind |-> kind, expected |-> expected, hash |-> hash]

\* Mutant: a match closes open drift.
ApplyCheckPass_Closes(s, actual) ==
    IF s.hash = NoHash THEN Posture("baseline_missing", NoHash, s.pending)
    ELSE IF actual # s.hash THEN Posture("action_required", s.hash, s.hash)
    ELSE Posture("baseline_active", s.hash, NoHash)

\* A check whose outcome the reducer works out from the hashes.
ApplyCheckPass(s, actual) ==
    IF s.hash = NoHash \/ s.lifecycle = "baseline_missing"
    THEN Posture("baseline_missing", s.hash, s.pending)
    ELSE IF actual # s.hash THEN Posture("action_required", s.hash, s.hash)
    ELSE IF s.lifecycle = "action_required" THEN Unmappable
    ELSE Posture("baseline_active", s.hash, NoHash)

\* applyFsmNormalizedEvent; the replay stops at a fatal result.
ApplyEvent(s, ev) ==
    CASE s = Unmappable -> Unmappable
      [] s # Unmappable /\ ev.kind = "baseline_created" ->
             Posture("baseline_active", ev.hash, NoHash)
      [] s # Unmappable /\ ev.kind = "drift_accepted" ->
             Posture("rerun_required", ev.hash, NoHash)
      [] s # Unmappable /\ ev.kind = "drift_detected" ->
             Posture("action_required", s.hash, ev.expected)
      [] s # Unmappable /\ ev.kind = "check_pass" -> ApplyCheckPass(s, ev.hash)

Start == Posture("baseline_missing", NoHash, NoHash)

\* The postures of a workflow after each of its events, and after all of them.
Replayed(events) ==
    LET after[n \in 0 .. Len(events)] ==
            IF n = 0 THEN Start ELSE ApplyEvent(after[n - 1], events[n])
    IN  after

Replay(events) == Replayed(events)[Len(events)]
=============================================================================
