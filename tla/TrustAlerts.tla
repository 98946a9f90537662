----------------------------- MODULE TrustAlerts -----------------------------
(***************************************************************************)
(* Blocked trust decisions and the digest mailed about them: the ingest    *)
(* route (website/src/app/api/v1/funnel/trust-decision-blocked) and the    *)
(* scheduled job of website/src/lib/runTrustAlertsCron.ts.                 *)
(*                                                                         *)
(* The job is no transaction: it counts, reads the checkpoints, and then   *)
(* for each account sends the mail BEFORE it records it.  Runs may overlap *)
(* (GET and POST both start one) and may end between any two steps.        *)
(* An account reports through one API key here.                            *)
(***************************************************************************)
EXTENDS Naturals, Sequences, FiniteSets, FiniteSetsExt

CONSTANTS Accounts, Runs,
          Decisions,          \* fingerprints of blocked decisions
          Day,                \* WINDOW_MS and DIGEST_SUPPRESS_MS
          Threshold,          \* TRUST_BLOCKED_ALERT_MIN_EVENTS
          MaxClock,           \* bound: ticks that pass
          MaxStarts           \* bound: runs of the job

VARIABLES clock,
          receipts,           \* trust_decision_receipt: <<account, decision>>
          events,             \* trust_decision_blocked rows of funnel_event
          checkpoint,         \* lastDigestSentAt of each account, 0 without a row
          job,                \* the runs under way
          starts,             \* runs ever started
          mails               \* history: the digests that were sent

vars == <<clock, receipts, events, checkpoint, job, starts, mails>>

NoRun == [phase |-> "idle", at |-> 0, accounts |-> {}, alone |-> TRUE]

Init ==
    /\ clock = 1
    /\ receipts = {} /\ events = {}
    /\ checkpoint = [a \in Accounts |-> 0]
    /\ job = [r \in Runs |-> NoRun]
    /\ starts = 0 /\ mails = <<>>

Tick ==
    /\ clock < MaxClock
    /\ clock' = clock + 1
    /\ UNCHANGED <<receipts, events, checkpoint, job, starts, mails>>

-----------------------------------------------------------------------------
(* Ingest. *)

\* Mutant: the receipt is written but not asked about.
AlreadyReceived_Ignored(a, d) == FALSE

AlreadyReceived(a, d) == <<a, d>> \in receipts

\* One transaction: a decision received before is answered 204 and adds no event.
\* (A transaction that fails, 503, changes nothing.)
Ingest(a, d) ==
    /\ receipts' = receipts \cup {<<a, d>>}
    /\ events' = IF AlreadyReceived(a, d) THEN events
                 ELSE events \cup {[account |-> a, decision |-> d, at |-> clock]}
    /\ UNCHANGED <<clock, checkpoint, job, starts, mails>>

-----------------------------------------------------------------------------
(* The job. *)

Active == {r \in Runs : job[r].phase # "idle"}

\* `now' is read; from here on the run is alone until another one starts.
Start(r) ==
    /\ job[r].phase = "idle" /\ starts < MaxStarts
    /\ starts' = starts + 1
    /\ job' = [q \in Runs |->
                 IF q = r THEN [phase |-> "count", at |-> clock, accounts |-> {},
                                alone |-> Active = {}]
                 ELSE [job[q] EXCEPT !.alone = FALSE]]
    /\ UNCHANGED <<clock, receipts, events, checkpoint, mails>>

\* The blocked decisions of the window of a run that started at t.
Blocked(a, t) ==
    {e \in events : e.account = a /\ e.at + Day >= t}

Proceed(r, phase, accounts) ==
    job' = [job EXCEPT ![r] = IF accounts = {} THEN NoRun
                              ELSE [@ EXCEPT !.phase = phase, !.accounts = accounts]]

CountBlocked(r) ==
    /\ job[r].phase = "count"
    /\ Proceed(r, "choose",
               {a \in Accounts : Cardinality(Blocked(a, job[r].at)) >= Threshold})
    /\ UNCHANGED <<clock, receipts, events, checkpoint, starts, mails>>

\* Mutant: half a day is enough.
Due_TooSoon(a, t) == checkpoint[a] = 0 \/ t > checkpoint[a]

Due(a, t) == checkpoint[a] = 0 \/ t >= checkpoint[a] + Day

ReadCheckpoints(r) ==
    /\ job[r].phase = "choose"
    /\ Proceed(r, "send", {a \in job[r].accounts : Due(a, job[r].at)})
    /\ UNCHANGED <<clock, receipts, events, checkpoint, starts, mails>>

\* The mail service has taken the digest; `mail' is its place in the history.
SendDigest(r) ==
    /\ job[r].phase = "send"
    /\ \E a \in job[r].accounts :
          mails' = Append(mails,
              [to |-> a, at |-> job[r].at, run |-> r, recorded |-> FALSE,
               about |-> Cardinality({e.decision : e \in Blocked(a, job[r].at)})])
    /\ job' = [job EXCEPT ![r].phase = "record"]
    /\ UNCHANGED <<clock, receipts, events, checkpoint, starts>>

\* The digest run r has sent last.
LastOf(r) == Max({i \in DOMAIN mails : mails[i].run = r})

\* Mutant: only the delivery row is written.
Checkpointed_Forgotten(a, t) == checkpoint

Checkpointed(a, t) == [checkpoint EXCEPT ![a] = t]

\* One transaction: the delivery row and the checkpoint, which takes the time the
\* run started.
RecordDigest(r) ==
    /\ job[r].phase = "record"
    /\ LET m == LastOf(r)
       IN  /\ checkpoint' = Checkpointed(mails[m].to, job[r].at)
           /\ mails' = [mails EXCEPT ![m].recorded = job[r].alone]
           /\ Proceed(r, "send", job[r].accounts \ {mails[m].to})
    /\ UNCHANGED <<clock, receipts, events, starts>>

\* The mail service refuses, a statement fails, the function is stopped after 60
\* seconds: the accounts that are left get nothing.
Fail(r) ==
    /\ job[r].phase # "idle"
    /\ job' = [job EXCEPT ![r] = NoRun]
    /\ UNCHANGED <<clock, receipts, events, checkpoint, starts, mails>>

RunStep(r) ==
    CountBlocked(r) \/ ReadCheckpoints(r) \/ SendDigest(r) \/ RecordDigest(r) \/ Fail(r)

Next ==
    \/ Tick
    \/ \E a \in Accounts, d \in Decisions : Ingest(a, d)
    \/ \E r \in Runs : Start(r) \/ RunStep(r)

Spec == Init /\ [][Next]_vars
-----------------------------------------------------------------------------
\* After a digest that was recorded by a run nothing overlapped, its account gets no
\* other for a day, whatever later runs overlap, crash or fail to record; and every
\* digest speaks of enough decisions that are really different ones, however often
\* the same block is reported (runTrustAlertsCron, the ingest route).
DigestsAreDue ==
    /\ \A i, j \in DOMAIN mails :
          i < j /\ mails[i].to = mails[j].to /\ mails[i].recorded
              => mails[j].at >= mails[i].at + Day
    /\ \A i \in DOMAIN mails : mails[i].about >= Threshold
=============================================================================
