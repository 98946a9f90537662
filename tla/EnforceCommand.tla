---------------------------- MODULE EnforceCommand ---------------------------
(***************************************************************************)
(* `agentskeptic enforce' in the jobs of a pipeline (src/src/              *)
(* enforceStateful.ts): reserve usage with retries, verify, then ONE       *)
(* request to the hosted lifecycle, without retry, whose answer decides    *)
(* the exit code.  A job may be killed, its connection may break before or *)
(* after the server has worked on the request, and the request may arrive  *)
(* after the job has ended.                                                *)
(*                                                                         *)
(* The server's transaction is one step here; EnforcementFsm has its       *)
(* interleavings.  No acceptance has a review date.                        *)
(***************************************************************************)
EXTENDS EnforcementLifecycle, Naturals, Sequences

CONSTANTS Jobs, RunIds,
          Hashes,             \* material truth hashes
          Statuses,           \* of the workflow results: "complete" and others
          ReserveAttempts     \* 1 + Len(RETRY_MS) of sdk/transport.ts

VARIABLES charged,            \* run ids with a usage reservation
          posture, truth,     \* the lifecycle row; the baseline row
          records,            \* decisions and acceptances, in commit order
          jobs,               \* the commands
          request,            \* per job: its request on the way to the lifecycle
          answer,             \*   and the server's answer, while the job waits
          shown               \* versions and expected hashes that checks printed

server == <<posture, truth, records>>
vars == <<charged, server, jobs, request, answer, shown>>

Modes == {"check", "create-baseline", "accept-drift"}

NoQuote == [version |-> 0, expected |-> NoHash]
NewJob == [phase |-> "idle", mode |-> "check", run |-> "none", quote |-> NoQuote,
           attempts |-> 0, hash |-> NoHash, grade |-> FALSE, status |-> "none", exit |-> 0]
NoRequest == [mode |-> "none", run |-> "none", quote |-> NoQuote, hash |-> NoHash, grade |-> FALSE]
NoAnswer == [http |-> 0, code |-> "none", offer |-> NoQuote]

\* A workflow in any posture, as earlier jobs have left it.
Init ==
    /\ charged = {} /\ records = <<>>
    /\ \/ /\ truth = [exists |-> FALSE, hash |-> NoHash]
          /\ posture = [state |-> "baseline_missing", version |-> 0, pending |-> NoHash]
       \/ \E h \in Hashes, s \in LifecycleStates \ {"baseline_missing"} :
             /\ truth = [exists |-> TRUE, hash |-> h]
             /\ posture = [state |-> s, version |-> 1,
                           pending |-> IF s = "action_required" THEN h ELSE NoHash]
    /\ jobs = [j \in Jobs |-> NewJob]
    /\ request = [j \in Jobs |-> NoRequest] /\ answer = [j \in Jobs |-> NoAnswer]
    /\ shown = IF posture.state = "action_required"
               THEN {[version |-> 1, expected |-> posture.pending]} ELSE {}

Step(j, from, to) == jobs[j].phase = from /\ jobs' = [jobs EXCEPT ![j].phase = to]

\* The exit code, unless the receipt of the command cannot be written.
Exit(j, code) ==
    \/ jobs' = [jobs EXCEPT ![j] = [NewJob EXCEPT !.phase = "done", !.exit = 3]]
    \/ code # 3 /\ jobs' = [jobs EXCEPT ![j] =
           [NewJob EXCEPT !.phase = "done", !.exit = code, !.mode = jobs[j].mode,
                          !.hash = jobs[j].hash]]

-----------------------------------------------------------------------------
(* The command. *)

\* The run id comes from the environment, where retried jobs share it, or is new;
\* an accept quotes what an earlier check has printed, or lacks its variables.
Start(j) ==
    /\ jobs[j].phase = "idle"
    /\ \E mode \in Modes, run \in RunIds, q \in shown \cup {NoQuote} :
          /\ mode = "accept-drift" \/ q = NoQuote
          /\ jobs' = [jobs EXCEPT ![j] = [@ EXCEPT !.phase = "reserve", !.mode = mode,
                                                  !.run = run, !.quote = q]]
    /\ UNCHANGED <<charged, server, request, answer, shown>>

\* 200, also for a run that has a reservation.
Reserved(j) ==
    /\ Step(j, "reserve", "verify")
    /\ charged' = charged \cup {jobs[j].run}
    /\ UNCHANGED <<server, request, answer, shown>>

ReserveDenied(j) ==
    /\ jobs[j].phase = "reserve"
    /\ Exit(j, 3)
    /\ UNCHANGED <<charged, server, request, answer, shown>>

\* Mutant: verification goes on although the service could not be reached.
AfterAttempts_Proceed(j) ==
    jobs' = [jobs EXCEPT ![j].phase = "verify"]

\* LICENSE_USAGE_UNAVAILABLE.
AfterAttempts(j) == Exit(j, 3)

\* 429, 502, 503, 504 or no answer; the reservation may have been made all the same.
ReserveUnavailable(j) ==
    /\ jobs[j].phase = "reserve"
    /\ IF jobs[j].attempts + 1 < ReserveAttempts
       THEN jobs' = [jobs EXCEPT ![j].attempts = @ + 1]
       ELSE AfterAttempts(j)
    /\ charged' \in {charged, charged \cup {jobs[j].run}}
    /\ UNCHANGED <<server, request, answer, shown>>

\* Both kinds of run yield a certificate; only a contract run is decision-grade,
\* which a check does not ask.
Verify(j) ==
    /\ jobs[j].phase = "verify"
    /\ \E h \in Hashes, s \in Statuses, grade \in BOOLEAN :
          /\ jobs[j].mode = "check" => grade
          /\ jobs' = [jobs EXCEPT ![j] = [@ EXCEPT !.phase = "post", !.hash = h,
                                                  !.status = s, !.grade = grade]]
    /\ UNCHANGED <<charged, server, request, answer, shown>>

\* The verification fails, or an accept lacks the variables it quotes.
VerifyFails(j) ==
    /\ \/ jobs[j].phase = "verify"
       \/ jobs[j].phase = "post" /\ jobs[j].mode = "accept-drift" /\ jobs[j].quote = NoQuote
    /\ Exit(j, 3)
    /\ UNCHANGED <<charged, server, request, answer, shown>>

Post(j) ==
    /\ Step(j, "post", "await")
    /\ jobs[j].mode = "accept-drift" => jobs[j].quote # NoQuote
    /\ request' = [request EXCEPT ![j] =
           [mode |-> jobs[j].mode, run |-> jobs[j].run, quote |-> jobs[j].quote,
            hash |-> jobs[j].hash, grade |-> jobs[j].grade]]
    /\ UNCHANGED <<charged, server, answer, shown>>

\* Mutant: only DRIFT_DETECTED is reported as drift.
ReportsDrift_NotRerun(j) == answer[j].code = "DRIFT_DETECTED"

\* result_status drift or rerun_fail.
ReportsDrift(j) == answer[j].code \in {"DRIFT_DETECTED", "RERUN_FAIL"}

ExitCode(j) ==
    CASE answer[j].http # 200 -> 3
      [] answer[j].http = 200 /\ jobs[j].mode = "check" /\ ReportsDrift(j) -> 4
      [] OTHER -> CASE jobs[j].status = "complete" -> 0
                    [] jobs[j].status = "inconsistent" -> 1
                    [] jobs[j].status = "incomplete" -> 2

\* A 200 is printed in full; after a check it may hold what an accept has to quote.
AnswerArrives(j) ==
    /\ jobs[j].phase = "await" /\ answer[j] # NoAnswer
    /\ Exit(j, ExitCode(j))
    /\ shown' = IF answer[j].http = 200 /\ jobs[j].mode = "check" /\ answer[j].offer # NoQuote
                THEN shown \cup {answer[j].offer} ELSE shown
    /\ answer' = [answer EXCEPT ![j] = NoAnswer]
    /\ UNCHANGED <<charged, server, request>>

\* fetch throws: INTERNAL_ERROR.  The request is not taken back.
ConnectionBreaks(j) ==
    /\ jobs[j].phase = "await"
    /\ Exit(j, 3)
    /\ answer' = [answer EXCEPT ![j] = NoAnswer]
    /\ UNCHANGED <<charged, server, request, shown>>

Killed(j) ==
    /\ jobs[j].phase \notin {"idle", "done", "killed"}
    /\ jobs' = [jobs EXCEPT ![j] = [NewJob EXCEPT !.phase = "killed"]]
    /\ answer' = [answer EXCEPT ![j] = NoAnswer]
    /\ UNCHANGED <<charged, server, request, shown>>

-----------------------------------------------------------------------------
(* The server, whether or not the job still waits. *)

Answer(j, http, code, offer) ==
    /\ request' = [request EXCEPT ![j] = NoRequest]
    /\ answer' = IF jobs[j].phase = "await"
                 THEN [answer EXCEPT ![j] = [http |-> http, code |-> code, offer |-> offer]]
                 ELSE answer
    /\ UNCHANGED <<charged, jobs, shown>>

Commit(j, state, pending, code, decision) ==
    /\ posture' = [state |-> state, version |-> posture.version + 1, pending |-> pending]
    /\ records' = Append(records, [job |-> j, run |-> request[j].run, mode |-> request[j].mode,
                                   code |-> code, decision |-> decision, hash |-> request[j].hash])

HandleCheck(j) ==
    /\ request[j].mode = "check"
    /\ LET e == EvaluateCheck(posture.state, truth, request[j].hash)
       IN  /\ Commit(j, e.after, e.pending, e.reason, e.decision)
           /\ Answer(j, e.http, e.reason,
                     IF e.pending = NoHash THEN NoQuote
                     ELSE [version |-> posture.version + 1, expected |-> e.pending])
    /\ UNCHANGED truth

HandleCreate(j) ==
    /\ request[j].mode = "create-baseline"
    /\ LET code == EvaluateCreateBaseline(posture.state, request[j].grade)
       IN  IF code = "COMPLETED"
           THEN /\ Commit(j, "baseline_active", NoHash, "BASELINE_ESTABLISHED", "decision_trusted")
                /\ truth' = [exists |-> TRUE, hash |-> request[j].hash]
                /\ Answer(j, 200, code, NoQuote)
           ELSE Answer(j, 409, code, NoQuote) /\ UNCHANGED server

HandleAccept(j) ==
    /\ request[j].mode = "accept-drift"
    /\ LET code == EvaluateAccept(posture, request[j].quote.version, request[j].quote.expected,
                                  request[j].grade)
       IN  IF code = "COMPLETED"
           THEN /\ Commit(j, "rerun_required", NoHash, "none", "none")
                /\ truth' = [exists |-> TRUE, hash |-> request[j].hash]
                /\ Answer(j, 200, code, NoQuote)
           ELSE Answer(j, 409, code, NoQuote) /\ UNCHANGED server

Handle(j) ==
    HandleCheck(j) \/ HandleCreate(j) \/ HandleAccept(j)

\* Key, plan or body refused (400, 403), or a rolled back transaction.
Refuse(j) ==
    /\ request[j] # NoRequest
    /\ Answer(j, 500, "ERROR", NoQuote)
    /\ UNCHANGED server

Next ==
    \E j \in Jobs :
        \/ Start(j) \/ Reserved(j) \/ ReserveDenied(j) \/ ReserveUnavailable(j)
        \/ Verify(j) \/ VerifyFails(j) \/ Post(j)
        \/ AnswerArrives(j) \/ ConnectionBreaks(j) \/ Killed(j)
        \/ Handle(j) \/ Refuse(j)

Spec == Init /\ [][Next]_vars
-----------------------------------------------------------------------------
Own(j) == {i \in DOMAIN records : records[i].job = j}

\* What a pipeline may conclude from an exit code (runStatefulEnforce), whatever broke
\* on the way: 0 to 2 of a check means the server trusted what this job verified, 4
\* that it blocked it, 0 to 2 of the other modes that they took effect; each job has
\* left one record at most, under a run that is charged.  Exit 3 promises nothing.
ExitIsBacked ==
    /\ \A j \in Jobs :
          /\ \A i, k \in Own(j) : i = k
          /\ jobs[j].phase = "done" /\ jobs[j].exit # 3 =>
                \E i \in Own(j) :
                    /\ records[i].mode = jobs[j].mode /\ records[i].hash = jobs[j].hash
                    /\ jobs[j].mode = "check" =>
                          (records[i].decision = "decision_trusted" <=> jobs[j].exit # 4)
    /\ \A i \in DOMAIN records : records[i].run \in charged
=============================================================================
