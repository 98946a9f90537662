------------------------------- MODULE MCFlows -------------------------------
(***************************************************************************)
(* The flows around the core for TLC.  They share no row and no file, so a *)
(* behaviour follows one of them: a claim, whose sign-ins are free; the    *)
(* throttle of sign-in mails; trust alerts; the enforce commands of a      *)
(* pipeline; the local history; the files of a bundle; the comparison of   *)
(* runs; the daily report of overage.                                      *)
(***************************************************************************)
EXTENDS OssClaim, FiniteSets, TLC

CONSTANTS Emails, Client, EmailCap, ClientCap, MaxHour                \* mail
CONSTANTS Accounts, Runs, Decisions, Day, Threshold, MaxClock, MaxStarts  \* alert
CONSTANTS Jobs, RunIds, Hashes, NoHash, Statuses, ReserveAttempts     \* command
CONSTANTS Commands, Workflows, MaxRuns                                \* history
CONSTANTS Docs, NoDoc, SigningKeys, NoKey, MaxWrites                   \* bundle
CONSTANTS StepKeys, NoStepKey, StepSeqs, StepOutcomes, HighlightsMax  \* compare
CONSTANTS ApiKeys, Unset, Allowance, LastMonth, MaxCharges            \* report

VARIABLES part,
          hour, counters, asking, sends, overdue,
          clock, receipts, events, checkpoint, job, starts, mails,
          charged, posture, truth, records, jobs, request, answer, shown,
          index, files, loop,
          bundle, disk, writer, written, outcome, reader,
          runs,
          month, held, revoked, count, plan, item, meter, turn

ASSUME FlowsAssumption ==
    /\ {EmailCap, ClientCap, MaxHour, Day, Threshold} \subseteq Nat
    /\ MaxRuns \in Nat \ {0}
    /\ Statuses \subseteq {"complete", "inconsistent", "incomplete"}
    /\ NoDoc \notin Docs /\ NoKey \notin SigningKeys
    /\ \A p \in DOMAIN Allowance : Allowance[p] \in Nat
    /\ IsFiniteSet(ApiKeys) /\ LastMonth \in Nat \ {0} /\ MaxCharges \in Nat

Mail == INSTANCE SendGate
Alert == INSTANCE TrustAlerts
Enforce == INSTANCE EnforceCommand
History == INSTANCE LocalHistory
Bundle == INSTANCE EvidenceBundles

\* Verified, missing, inconsistent for the same reason, and two failures that differ
\* in an effect and in how often a reason is given.
Outcome(status, codes, effects) == [status |-> status, codes |-> codes, effects |-> effects]

Verified == [status |-> "verified", codes |-> <<>>]
AllOutcomes ==
    {Outcome("verified", <<>>, <<>>),
     Outcome("missing", <<"a">>, <<>>),
     Outcome("inconsistent", <<"a">>, <<>>),
     Outcome("inconsistent", <<"b", "b">>, <<Verified, [status |-> "missing", codes |-> <<"a">>]>>),
     Outcome("inconsistent", <<"b">>, <<[status |-> "missing", codes |-> <<"b">>]>>)}

Compare == INSTANCE RunComparison

\* Reasons are a list, and what is verified has none.
ASSUME OutcomesAssumption ==
    \A o \in StepOutcomes :
        /\ IsFiniteSet(DOMAIN o.codes)
        /\ \A id \in DOMAIN o.effects :
              /\ IsFiniteSet(DOMAIN o.effects[id].codes)
              /\ ~Compare!Failing(o.effects[id]) => o.effects[id].codes = <<>>

\* Two plans with overage, one of which includes a run.
PlanAllowance == [individual |-> 0, team |-> 1]
Report == INSTANCE OverageReport

mail == <<hour, counters, asking, sends, overdue>>
alert == <<clock, receipts, events, checkpoint, job, starts, mails>>
enforce == <<charged, posture, truth, records, jobs, request, answer, shown>>
history == <<index, files, loop>>
bundles == <<bundle, disk, writer, written, outcome, reader>>
report == <<month, held, revoked, count, plan, item, meter, turn>>

PartInit ==
    /\ part \in {"claim", "mail", "alert", "enforce", "history", "bundle", "compare", "report"}
    /\ Init /\ Mail!Init /\ Alert!Init /\ Enforce!Init /\ History!Init
    /\ Bundle!Init /\ Compare!Init /\ Report!Init
    /\ part # "enforce" => ~truth.exists
    /\ part # "bundle" => bundle = "run"

Claim(action) ==
    /\ part = "claim" /\ action
    /\ UNCHANGED <<part, mail, alert, enforce, history, bundles, runs, report>>

\* Two accounts and two runs of the job over a day, or one account and three runs
\* over a day and a half.
AlertBound ==
    \/ Cardinality({e.account : e \in events}) <= 1
    \/ clock <= 2 /\ starts <= 2

\* A reader meets two writes; three follow each other without one.
BundleBound == reader.kind # "none" => Len(written) <= 2

\* Two runs of two steps.
CompareBound == Len(runs) <= 2 /\ \A i \in DOMAIN runs : Len(runs[i]) <= 2

PartNext ==
    \/ Claim(Next)
    \/ /\ part = "mail" /\ Mail!Next
       /\ UNCHANGED <<part, vars, alert, enforce, history, bundles, runs, report>>
    \/ /\ part = "alert" /\ Alert!Next /\ AlertBound'
       /\ UNCHANGED <<part, vars, mail, enforce, history, bundles, runs, report>>
    \/ /\ part = "enforce" /\ Enforce!Next
       /\ UNCHANGED <<part, vars, mail, alert, history, bundles, runs, report>>
    \/ /\ part = "history" /\ History!Next
       /\ UNCHANGED <<part, vars, mail, alert, enforce, bundles, runs, report>>
    \/ /\ part = "bundle" /\ Bundle!Next /\ BundleBound'
       /\ UNCHANGED <<part, vars, mail, alert, enforce, history, runs, report>>
    \/ /\ part = "compare" /\ Compare!Next /\ CompareBound'
       /\ UNCHANGED <<part, vars, mail, alert, enforce, history, bundles, report>>
    \/ /\ part = "report" /\ Report!Next
       /\ UNCHANGED <<part, vars, mail, alert, enforce, history, bundles, runs>>

all == <<part, vars, mail, alert, enforce, history, bundles, runs, report>>

PartSpec == PartInit /\ [][PartNext]_all

\* Of the mails, alerts, commands and the history: see SendGate, TrustAlerts,
\* EnforceCommand, LocalHistory, EvidenceBundles, RunComparison, OverageReport.
SendsBounded == Mail!SendsBounded
DigestsAreDue == Alert!DigestsAreDue
ExitIsBacked == Enforce!ExitIsBacked
ComparedWithStored == History!ComparedWithStored
AcceptedIsOneWrite == Bundle!AcceptedIsOneWrite
WrittenIsAccepted == Bundle!WrittenIsAccepted
ReportIsSound == Compare!ReportIsSound
SetsWhatIsOwed == Report!SetsWhatIsOwed
=============================================================================
