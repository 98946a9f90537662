# AgentSkeptic: formal models

TLA+ models of the parts of AgentSkeptic whose correctness depends on order,
concurrency, failure or boundary cases, with the TLC configurations that check
them on small instances and the TLAPS proofs of what holds for every instance.
Paths below are relative to the repository root; `website/...` is the hosted
service, `src/...` the command line, SDK and verification kernel.

## The system

An agent (or CI job) runs tools; the kernel compares what the tools reported
with the state of a database and issues an outcome certificate; the hosted
service stores certificates as evidence, keeps a baseline per workflow and a
posture that drift closes and reruns reopen; commercial use is metered.

| Component | State it keeps | Operations | What is hard | Module |
|---|---|---|---|---|
| Verification kernel (`src/pipeline.ts`, `verificationPolicy.ts`, `reconciler.ts`, `multiEffectRollup.ts`, `planLogicalSteps.ts`, `aggregate.ts`) | attempt and deadline of a polling loop; outcomes of the steps | plan, reconcile, poll, roll up, fold | the store changes between polls and between effects; the deadline is looked at after a read | `VerificationRun` |
| Decision gates (`src/decisionGate.ts`, `langGraphCheckpointTrustGate.ts`) | buffer of run events, verdict | append, assert | events and writes while a gate evaluates | `DecisionGate` |
| Capture and trace (`src/sdk/events`, `executionTrace.ts`) | next seq, parent, log | emit, check the graph, walk back | emits that overlap or fail; three wire versions | `EventCapture` |
| Hosted enforcement (`website/src/lib/enforcementFsmPersistence.ts`, `verificationLifecycle.ts`, `enforcementState.ts`) | baseline, lifecycle row, acceptances, decisions, transitions, evidence | check, create baseline, accept drift, replay | concurrent transactions, stale reads, expiry | `EnforcementFsm`, `EnforcementLifecycle`, `EnforcementReplay` |
| Usage reservation (`api/v1/usage/reserve`, `quotaPolicy.ts`, `apiKeyLifecycle.ts`) | counters, reservations, keys | reserve; create, revoke, rotate a key | retries of a run, the last unit of a quota, the end of a month | `UsageReserve`, `UsageLedger` |
| Billing (`applyStripeWebhookDbSide.ts`, `api/webhooks/stripe`, checkout, portal) | account, processed events | webhook, checkout, portal | reordered and repeated events | `StripeBilling` |
| OSS claims (`api/oss/*`, `src/telemetry/postOssClaimTicket.ts`) | ticket, pending cookie, hourly caps | register, open, redeem, continue | late attempts, two accounts, rotated links | `OssClaim` |
| Sign-in send gate (`magicLinkSendGate.ts`) | counters per hour | reserve a mail | a transaction that outlives its hour | `SendGate` |
| Trust alerts (`runTrustAlertsCron.ts`, `trust-decision-blocked`) | receipts, events, checkpoints | ingest, daily digest | overlapping runs, failures after the mail | `TrustAlerts` |
| `agentskeptic enforce` (`src/enforceStateful.ts`, `sdk/transport.ts`) | what a job knows | reserve, verify, post, exit | lost answers, killed jobs | `EnforceCommand` |
| Local history (`src/loop/*`) | index and files of past runs | store, evict, compare | commands that overlap or are interrupted | `LocalHistory` |
| Run and evidence bundles (`src/agentRunBundle.ts`, `src/decisionEvidenceBundle/*`, their readers) | a directory of files | write, roll back, read, verify | crashes between files, readers meanwhile | `EvidenceBundles` |
| Run comparison (`src/runComparison.ts`) | none | pair steps, report changes | two steps with one key | `RunComparison` |
| Overage job (`overage-reconcile`, `usageSnapshot.ts`) | none of its own; the quantity at Stripe | list, count, retrieve, set | everything it reads changes under way | `OverageReport` |
| Entitlements, plan transitions, CI locks, quick verification, registry, certificates, pages, Python port | - | - | - | not modelled, see below |

How they interact. The command line reserves usage, runs the kernel, then posts
the certificate to the enforcement routes. A route authenticates the key,
looks at scope and entitlement, parses, recomputes both hashes, stores the
evidence row, and only then opens the enforcement transaction. Stripe's webhooks
change the entitlement both routes read. Routes share nothing but the database.

What makes each correct: *kernel* - a verified step was seen to hold and a
failure is never reported before the window closed; *enforcement* - trust means
"equals the baseline in force", drift is closed only by accept and rerun, each
version names one posture; *reservation* - a run is charged at most once and
never beyond the allowance; *billing* - an event is applied once, a
paid plan was paid for, the account follows the newest event; *claims* - a ticket yields one claim.

## Plan

Done: the core (`EnforcementFsm`, `UsageReserve`, `VerificationRun`,
`StripeBilling`, each with its proofs), the gates over the kernel, the ledger that
metering implements, and the flows around the core: claims, mails, alerts, the
enforce command, the local history, bundles, run comparison and the overage job.

Every invariant and action property that a passing run checks is a theorem about every
instance as well; so is the refinement `ImplementsLedger`. Worth modelling next: the
trends of `runComparison.ts`.

## Module by module

### EnforcementLifecycle

The pure functions of `verificationLifecycle.ts`: what a check, a baseline
creation and an accept decide. Texts are left out; every code, posture, decision
and pending hash is kept. Definitions named `X_Y` are alternatives of `X` with a
plausible defect (each is marked "Mutant"): the checks must notice them.

### EnforcementFsm

One workflow of one account. `baseline`, `life`, `acceptances`, `audit` and
`evidence` are database tables (`audit` merges the transition, decision and event
rows one transaction writes together; `receipt` says whether the trust-block
receipt is among them). `rowLock` is PostgreSQL's lock on the lifecycle row.
Each request has a program counter, its parsed input, the baseline row it read
(`seen`) and the lifecycle row inside its transaction (`row`).

| Code | Action |
|---|---|
| route: authenticate, parse, verify, `createGovernanceEvidence` | `Receive` |
| unlocked `SELECT` of the baseline (and acceptance) | `ReadBaseline` |
| expired acceptance: `UPDATE`, return 409 | `Expire` |
| `ensureLifecycleRow`: `SELECT ... FOR UPDATE`, repair | `SelectLifecycle` |
| `ensureLifecycleRow`: `INSERT`, unique violation | `InsertLifecycle`, `InsertConflict` |
| verdict, writes, `COMMIT` | `CheckNeedsRebaseline`, `CommitCheck`, `RefuseCreate`, `CommitCreate`, `RefuseAccept`, `CommitAccept` |
| rollback of any kind | `Abort` |

The writes of a transaction are one step because nobody sees them before the
commit; the one row they share with a transaction outside the lifecycle lock
(`Expire`'s baseline) is updated blindly on both sides, so the orders inside the
transaction are equal to one of the two orders of the steps. Requests that fail
authentication, parsing or hash checks change nothing and are left out.

Runs: `EnforcementConcurrent` (two slots, four requests, one clock tick: enough
for an insert race, a repair, drift, accept and its expiry, with any of them
rolled back) and `EnforcementLanes` (module `MCEnforcementLanes`), where a behaviour
first chooses its lane: in the serial lane five requests come one after the other
with a tick between them, a full create, drift, accept, rerun cycle and an expiry in
it; in the parallel lane two requests overlap. The serial properties are about the
first lane; `SerialBaseline` joins three of them (`TrustedMatchesBaseline`,
`PendingIsBaseline`, `PointerOnlyWhileCertifying`); `EveryRequestAnswered` is about
both lanes. Fairness is weak fairness of each request's own steps: the function
runtime keeps executing a request or the database ends its session. Deadlock
checking is off because the request bound ends every behaviour.

Two runs end in a counterexample that the documentation rules out:
`EnforcementLostDrift` (a check that saw no baseline erases drift found meanwhile)
and `EnforcementRebaseline` (a baseline flagged `needs_rebaseline` cannot be
recreated, because the repair of `baseline_missing` comes before the test of
`POST /baselines`). The first needs two requests in flight. For the same reason
`TrustedMatchesBaseline` holds serially only: a check that read the baseline
before an accept committed and gets the lifecycle row after it is answered
`RERUN_PASS` against the baseline the accept replaced.

### EnforcementReplay

The reducer of the backfill (`applyFsmNormalizedEvent`) derives the posture from
a history of events with rules of its own. `Replayed(events)` is its state after each
number of events (position 0 is `Start`), `Replay` the last of them. `History` in
`MCEnforcementLanes` reads the stored trail as those events, and `SerialReplay` says the
reducer arrives where the server did, but for one case (`Repeats`): a match that
repeats open drift (`REMEDIATION_ACK_REQUIRED`) is fatal to the reducer, which was
written for histories older than that answer.

### EnforcementFsmProofs

For any slots, hashes and bounds, assuming only `FsmAssumption` (the null hash is
not a hash, the free-lock marker is not a slot, the bounds are naturals):
`TypeCorrect`, `OptimisticLockSafe`, `VersionsSafe`, `AuditSafe`, `PostureSafe`.
`TypeOK /\ OptimisticLockNeverMisses` is inductive: a transaction at its commit
holds the lock, so the committed row has not moved since it was read. Everything
about versions rests on that: `LifeStep` reduces every step to "row unchanged",
"row becomes the transaction's copy" or "a transition is recorded", and
`EnsuredVersion` says the copy is never older. `PostureIsBacked` needs
`BackedInv`, which adds that a stored baseline is never deleted and that
snapshots of it carry a hash.

`AcceptSafe` (`AcceptAnswersRecordedDrift`) needs `DriftRecorded`: while drift is open the newest entry of
the trail is the check that found it, at the row's version and with the hash the row
offers. An accept commits only from such a row. `VerdictSafe` (`AtMostOneVerdict`) needs
`EvidenceIsOwn`: the evidence row a request in flight cites is older than the next one to
come and cited by no other request in flight. The trail grows by the record of a
request that ends in the same step, or not at all (`TrailStep`).

### EnforcementLanesProofs

For the two lanes of `MCEnforcementLanes`, again with `FsmAssumption` only. `LaneSpec`
implements `Spec` (a lane restricts arrivals), so everything above holds in it. In the
serial lane `SerialViews` adds that the only request in flight looks at the baseline in
force, and `SerialCore` what the trail's last verdicts say of that baseline and of the
acceptance pointer. Together they are inductive with the types and the lock, and they give
`SerialBaselineSafe` and the action property `SerialLoopClosed`. `SerialReplaySafe` adds
`ReplayCore`: the reducer's state after the stored history is the posture of the row,
unless the repeated match is in it. A new entry changes the reducer's state by one
step (`ReplayAppend`), a claim about all prefixes, proved by taking the least position
at which two histories would disagree (`LeastNumber`).

Only model-checked: `EveryRequestAnswered`, a liveness property.

### UsageReserve

One account on one plan. `keyState`, `counter` and `reservations` are tables,
`lock` the advisory lock of each month (`hashtext('usage-reserve:<user>:<month>')`;
two months that hash alike would only block each other more). Each request has a
program counter, its parsed input with the month it read before the transaction,
and what its transaction has read (`dup`, `active`).

| Code | Action |
|---|---|
| authentication of an active key, parse, `ymNow()` | `Arrive` |
| `pg_advisory_xact_lock` | `Lock` |
| `SELECT` of the reservation; of the active keys | `ReadDuplicate`, `ReadKeys` |
| counters summed, `computeAllowedNext`, writes, `COMMIT` | `AnswerDuplicate`, `Deny`, `Reserve`, `Conflict` |
| rollback of any kind | `Abort` |
| UTC midnight of the last day of a month | `Rollover` |
| `apiKeyLifecycle.ts` | `CreateKey`, `RevokeKey`, `RotateKey` |

Reading the counters is one step with the writes: under READ COMMITTED a counter
of the locked month is written only by the lock's holder. `Reserve` may answer
`SERVER_ERROR` although it committed, which is how the client comes to retry a run
that was charged; the flag `retry` marks such requests.

Run `ReserveConcurrent`: two request slots, two keys, two runs, two months, an
allowance of one. This is the smallest instance with a race for the last unit on
two keys, a retry across the end of a month under two locks (the unique constraint
then decides: `Conflict`) and a key revoked or rotated under way. Fairness: a
request's process keeps running it (weak, on `Serve`), and PostgreSQL queues the
waiters of an advisory lock (strong, on `Lock`). Deadlock checking is off because
an account whose keys are all revoked in the last month rests.

Run `ReserveAccountCap` ends in a counterexample: usage is summed over the keys
that are not revoked, so a revocation returns its key's usage to the account, where
the pricing page promises a hard cap pooled per account. `ActiveUsageWithinCap`
says what does hold. In the same way a request that was authenticated before its key was
revoked is charged to a key nobody counts any more.

### UsageLedger

What metering promises, without counters, locks and months read early: a set of
charged runs that grows in one step, at most one charge per key and run, and only
with room under the allowance of the keys the account holds at that moment.
`ImplementsLedger` of `ReserveConcurrent` checks that `UsageReserve` implements it:
`ledger` is the set of reservation rows, `answer` the code of the request that has
just been answered. A charge needs room among the active keys; a key that was revoked
after its request was authenticated may also be charged while its own usage leaves
room, which is what the code does and no more.

### UsageReserveProofs

Assuming only `ReserveAssumption` (the allowance is a natural or unlimited, keys
and runs are finite; an account has finitely many of both): `TypeCorrect`; `OneReservationSafe`, inductive with the types
because `Reserve` is guarded by the unique constraint, so it needs no lock (TLC
checks it as part of `ImplementsLedger`);
`CountersSafe`, with the finiteness of the ledger (`LedgerInv`) so that a row added
is a row counted; `RetriesSafe`, with `RetriesBacked`: the row a retry repeats
stays, and the transaction has seen it before it looks at the quota. `ChargeStep`
reduces every step to "nothing charged" or "one new row and its counter".

`AllowanceSafe` (`ActiveUsageWithinCap`) rests on `CapInv`. The code sums counters; the
invariant counts reservation rows instead (`UsageMatches`: `UsedTotal`, defined as the
number of units charged to the keys, is the number of rows charged to them), so a sum
over the keys is a cardinality and needs no induction. `Backed` says what the keys a
transaction has read are worth at its commit: they account for all that the active keys
have used by now, because keys revoked since only make the sum larger, keys created
since have used nothing (`AbsentUnused`), and the lock keeps everybody else from charging
the month.

`LedgerImplemented` is the refinement `ImplementsLedger`: `LedgerRefinementStep` shows,
for each action, that the step is a `Charge` of the ledger with room left at its commit
(`ReserveCharges`), an answer the ledger bears out (`DenyAnswers`), a change of keys, or
a stutter.

Only model-checked: liveness.

### VerificationRun

One run of the kernel over one event file. `cell` is the verified store: each item
is absent, right, wrong or unreadable, and `Write` (replication, other writers, an
outage) may change it at any moment; this is the one external action. `capture` is
the event file; `recs` what the attempt has read so far; `outcomes` the finished
steps. `held` and `broke` are history: the checks of the current step that held,
or failed, at some moment of the current attempt.

| Code | Definition |
|---|---|
| `planLogicalSteps` | `Observations`, `Last`, `Divergent`, `NextSeq`; a line that is another event is `Control` |
| divergent step, unknown tool, unresolved request | `Reject` |
| `reconcileFromRows`, `reconcileSqlRowAbsent`, `reconcileRelationalRow` | `Observe`, `Read` |
| `computeMultiCheckRollupStatus`, single-check statuses | `Rollup`, `Settled` |
| the `for(;;)` of each `execute...Eventual` | `Begin`, `Settle`, `GiveUp`, `Sleep`, `Wake` |
| `aggregateWorkflow` | `WorkflowStatus`, `Aggregate` |

The eventual loops differ only in what they call pending, which `Pending` and
`Settled` give for one check and for several. `bounded` takes the same path as
`eventual`. A state witness (object store, HTTP, ...) has the shape of a row check.
The registry's result is the constant `Registry`; a column mismatch is the value
`wrong`; a row check that finds more than one row is `wrong` too.

Run `KernelRuns` (module `MCKernelRuns`) has three parts that share no state, of
which a behaviour follows one. In part *file* the kernel runs over event files of up
to three lines with a call of every shape (row, absence, two effects, a relation, two
relational checks of one step, an unknown tool), repeated, changed and reordered
seqs, a malformed line and an empty file; once with one read per step, once with a
window of 3 and an interval of 2, so that a poll falls inside the window and one
after it. Parts *gate* and *emit* are described below. Fairness: the event loop keeps
running the program, reads return, and the clock advances (weak, on `Run` and `Tick`,
for a gate while it evaluates); the store owes nothing. `RunFinishes` therefore says
that a store that never converges cannot hang a run. It does not cover a read that
never returns: the kernel sets no timeout of its own on a database query. Deadlock
checking is off because a run ends.

The effects of a step are read by separate statements outside a transaction, so a
verified step's effects need not have held at the same moment, only at some moment
of the attempt each: `VerifiedWasTrue` claims no more.

### VerificationRunProofs

For every registry, set of event files, store and policy that meets
`VerificationRunAssumption`: `VerifiedSafe`, `SteadySafe`, `UncertainSafe`,
`AttemptsSafe` (the number of attempts, which no run checks by itself any more). Two inductive invariants carry them. The evidence invariant says
that `held` and `broke` cover what the store holds now and everything `recs` has
recorded, so a reading can be traced to a moment of the attempt; the poll-clock
invariant says that attempt n began no earlier than (n - 1) intervals into the step
and that a sleep starts only inside the window.

`TypeCorrect` (`TypeOK`) and `CompleteSafe` (`CompleteMeansVerified`) add `TypeInv` and
`Recorded`: the outcomes so far belong to the seqs the plan has passed, a step whose
retries differ is never verified, and a run is complete only after all of them. The
model names the observations of a file by their positions, so nothing has to be
proved of a filtered sequence.

Only model-checked: `RunFinishes`, a liveness property.

### DecisionGate

The two gates an SDK user puts before an irreversible action, over the same kernel.
Events are appended before, during and between asserts; `AssertSafe` takes the
snapshot the kernel works on and the store may have become anything since;
`Evaluating` is a step of the kernel, the clock or another writer; `Decide` ends the
assert. `trueSince` and `falseSince` are history: the checks that held, or failed, at
some moment since the gate was asked. `ReleasedWasVerified` and `BlockedForCause` say
what a verdict is worth: an event appended while the gate evaluates is not part of
it, and no verdict outlives the next assert. In `KernelRuns` a gate holds two events
of six kinds (contradicting calls of one item, both wire versions, an unknown
call, an event that is no tool call), polls at most twice, and only the presence of one
item changes.

### DecisionGateProofs

Assuming only `VerificationRunAssumption` and `GateAssumption`: `ReleaseSafe` and
`BlockSafe`, for every registry, policy, store and course of appends and asserts. The
kernel's invariants (`KernelInv`) hold inside a gate because every step of `GateSpec`
is a kernel step, an assert that starts one anew, or leaves it alone. `GateInv` adds
that the capture is the snapshot of what was asserted (`SnapshotLines`), that the
kernel's own history lies within `trueSince` and `falseSince` (`HistoryStep`), that each
outcome is justified by them (`Justified`), and that a verdict given was. `BlockSafe`
reads off what is left when a run is not complete: a malformed or ineligible buffer,
an unknown or changed call, or a check that failed.

### EventCapture

The emitters that write a capture and the readers that rely on it. `Emit` takes seq
and parent before the sink has the event, as custom sinks may be asynchronous;
`Written` and `WriteFails` end it. `CaptureIsSound`: the parent graph check passes
however emits overlap or fail, and no two tool calls of an emitter share a seq. In
`KernelRuns` two emitters write three events; a restarted process is another emitter.

Run `TracePaths` ends in a counterexample: the parent graph check counts the ids of
every wire version, the trace keeps only those of version 2, so a backward path from
an event that follows a LangGraph (v3) event ends in an id of no node.

### EventCaptureProofs

For any emitters, number of events and of writes under way, about the specification of
part *emit* of `MCKernelRuns`: `CaptureSafe` (`CaptureIsSound`). Inductive with the types:
ids are handed out once, a parent has arrived before its child is written
(`ParentsArrived`), and an emitter counts a tool event when it builds it (`SeqsOnce`).

### StripeBilling

One account. `sub` and `gone` are Stripe's own records, `sent` the events it has
created; `account` and `processed` are the user row and the `stripe_event` rows.
`visit` is a browser's request to the checkout or portal route between reading the
customer and writing. A delivery has a program counter, the event it carries, the
subscription it fetched and the plan it read.

| Code | Action |
|---|---|
| Stripe: payment, portal change, arrears, cancellation (external) | `Complete`, `Change`, `Cancel`, `DeleteCustomer` |
| checkout and portal: `SELECT stripe_customer_id` | `ReadCustomer` |
| the Stripe call, its missing-customer error and the `UPDATE` | `OpenCheckout`, `CloseVisit` |
| webhook request with a valid signature | `Deliver` |
| `subscriptions.retrieve` before the transaction | `Retrieve` |
| `INSERT ... ON CONFLICT DO NOTHING` | `Claim`, `Duplicate` |
| `SELECT` of the account; the write and `COMMIT` | `Read`, `Commit` |
| any failure | `Abort` |

Any event may be delivered at any time, again and in parallel: Stripe promises
neither order nor a single delivery. An event carries the subscription as it was
when it was created; only checkout events are completed by a fetch. A second
insert of one event id waits for the first transaction (`ClaimFree`). The updates
of a deletion (by subscription, else by customer) are one step, equal to the later
of the two. The five columns of the account that events write are kept; a price is one of two configured ones or one the configuration does not know.

Run `StripeWebhooks`: three events, two subscriptions, two customers, two delivery
slots: a purchase, a change and a cancellation in any order with one of them twice;
or two purchases under two customers. Deadlock checking is off because the event
bound ends every behaviour. No fairness and no liveness: whether an event is ever
delivered successfully is up to Stripe. The history variable `order` says how
deliveries came: the account can follow Stripe only if they come in order, which
`FollowsStripe` states; that no event is applied twice and that an active account
has a plan some subscription was active with hold in every order.

Run `StripeRetries` ends in a counterexample: "Retries after transient failures are
safe by design" holds for repetitions, but an update that fails, and is delivered
again after a newer event, puts the account back to a subscription of the past,
which may leave it active. The property asks for nothing else to go wrong: one
delivery at a time, first deliveries in order, no customer deleted.

Two more situations are reachable and contradict no statement of the repository: a
customer forgotten as missing while the deletion of its subscription is still on
its way leaves the account active; a deletion that matches no subscription ends the
account of the customer although it follows another subscription
(`docs/commercial.md` describes this fallback).

### StripeBillingProofs

Assuming only `BillingAssumption` (the markers are no identifiers or plans, every configured
price is a price of a paid plan, the event bound is a natural): `TypeCorrect`; `ExactlyOnceSafe`,
with `OwnedOnce`: an event is owned by one transaction, and only before it is
processed; `EntitledSafe`, with `CopiesBacked`: every copy of a subscription,
at Stripe, in an event or fetched, however old, was paid for when it was made.

`FollowsSafe` (`FollowsStripe`) is about the behaviours in which deliveries come one at a
time and in order (`OneByOne`). There `FollowInv` relates the copies of a
subscription: the newest event about it carries what Stripe holds (`SentRight`), and what
a delivery fetched for such an event is that too (`FetchedRight`); an account that was not
found is still not the one (`FoundRight`); the newest event about the account's customer
is shown as soon as it is processed (`ShownRight`). It
assumes of plan names that none is `starter`, the plan of an account that has none, or a
marker of the model (`BillingAssumption`).

### The flows around the core: MCFlows

Eight modules; no two of them write a row or file in common. Run `Flows` follows one
of them per behaviour; each has its own variables and bounds, and none assumes
fairness, because each of these flows may be abandoned at any step. Deadlock checking
is off for the same reason.

**OssClaim.** One `claim_secret`: the command that registers it, with a first attempt it
gives up on after 400 ms and others that arrive late; the link, opened in several
browsers; the pending cookie; sign-in; redeem by cookie or by secret; the continuation;
the caps of the hour, which other clients of one address use up too. `BoundOnce`: one
account, one event. `LinkOpensOnce`: a token becomes a cookie once, through every
repeated registration, and the printed link is not made stale by the command's own
late attempt. Bounds: two users, two browsers, three attempts, a clock of four values
in which tickets, cookies and the hour's caps all end.

**SendGate.** The counters of magic-link mails. A transaction reads the hour before
it begins and may wait for the row past its hour; it then writes its own hour back, and
the next request resets the count. More than the cap of
`docs/website-magic-link-rate-limit.md:17` may then be sent for one hour; `SendsBounded`
bounds it by the number of such transactions. (The same document speaks of five
retries within 80 ms; the code makes up to 64 attempts.) Bounds: two addresses of one
client, three hours.

**TrustAlerts.** Ingest with its receipt and the daily digest, step by step: a run may
overlap another, fail between any two steps, or send a mail it does not record.
`DigestsAreDue`: a recorded digest silences its account for a day, and every digest
counts different decisions. What the model also shows and no document forbids: the
fingerprint has no time in it, so a repeated block of one key counts once for ever; a
run slightly earlier in the day than the last is suppressed, and what it would have
reported is then too old for the next; overlapping runs can move the checkpoint back.

**EnforceCommand.** The jobs of a pipeline: reserve with retries, verify, one request to
the lifecycle, exit code; a connection breaks before or after the server worked, a
job is killed, a request arrives after its job has ended. The server's transaction is
one step, with the decision functions of `EnforcementLifecycle`. `ExitIsBacked`:
exits 0 to 2 and 4 are true of what the server recorded; exit 3 promises nothing, since a
lost answer and an unwritable receipt end in it too. Bounds: two jobs, two run ids,
two hashes, results that are complete or inconsistent.

**LocalHistory.** `loop` commands that share `index.json` and the directories of runs.
`ComparedWithStored`: a run in the index was stored completely, and no comparison uses
a half-written result. Bounds: three commands, two workflows, room for two runs.
Run `LoopHistory` ends in a counterexample: the index is read, changed and replaced
without a lock, and a read-back that finds another command's index unlinks it, so of
two commands that end well one is missing from the history.

**EvidenceBundles.** The run bundle (`writeAgentRunBundle`) and the decision bundle
(`writeDecisionEvidenceBundle`), file by file. A file is what it was made from, its key
and, if it carries a date, its write. `Replace` renames a file over the old one;
`RemoveOld` is the platform where that takes two steps; `Throw` rolls a signed run
bundle back as far as the removals go; `Killed` does not. `AcceptedIsOneWrite`: what
`loadCorpusRun`, `verifyRunBundleSignature` or `validateDecisionEvidenceBundle` accept
while this goes on is what one write was given. `WrittenIsAccepted`: after a write that
returned, its bundle is there and accepted with its key and no other. Bounds: three
writes of two documents with two keys or none; a reader meets two of the writes.
Beyond the properties: a decision bundle written unsigned where a signature was left
keeps the old `manifest.sig.json` and is refused; the exit record, human layer,
attestation and next action are not fingerprinted, so an accepted bundle may hold
those of an interrupted write; `writeContractProofArtifacts` reads the event file again
after the verification and writes the two directories one after the other.

**RunComparison.** The report of `compare` as operators: step keys, buckets A and B,
effect deltas, recurrence, highlights. `ReportIsSound`: no failing step of the current
run is lost, the report of the two runs in the other order says the opposite, and the
parts of the report do not contradict each other. Bounds: two runs of two steps with
two keys or none, five outcomes, a highlight limit of one. Beyond the property: the
later of two failing steps with one key is only named as dropped, and a failing
`structuralAddition` is not among the highlights.

**OverageReport.** The daily job's turn for one account: it lists the account with its
plan, reads the keys, then their counters, then the subscription, and sets the quantity
of the metered item, while runs are charged, keys come and go, webhooks write the
account, the subscription moves to another plan and the month ends. `SetsWhatIsOwed`:
the quantity an item is set to is never more than the runs charged exceed the allowance
of that item's plan by, and never less than what the keys still held had used when the
run began. The bounds differ because a key may be revoked between the readings. Turns
of other accounts, and of another run of the job, read and set for themselves: the later
write stays, even with the older reading. Bounds: two keys, two plans, two months, three
charges. The readings are sums over the keys (`SumFunction`). What the model also shows and no document forbids: usage after the last run of
a month is never reported, and a run that straddles the end of a month sets the old
month's quantity at a time of the new one.

### FlowsProofs

What the run `Flows` checks of each flow, as a theorem about the flow's own specification
with any users, browsers, commands, jobs, keys and bounds. `FlowsAssumption` (module
`MCFlows`) says that caps, hours and bounds are naturals, that `--max-history-runs` is an
integer of at least 1 (the command refuses others), that a result's status is one the
kernel gives, that the markers for no document and no key are neither, that a plan's
allowance is a natural, and that an account has finitely many keys.
`OutcomesAssumption` says of the steps of compared runs that the reasons of a step or an
effect are a finite list, and that a verified effect has none, which is how
`src/reconciler.ts` builds them.

| Theorem | Inductive invariant and why it is needed |
|---|---|
| `BoundSafe`, `LinkSafe` | `ClaimInv`. Nobody is bound without a ticket; a token is used up before the next is made, and what was printed was made (`TokensInv`), so a repeated registration cannot revive a link. |
| `SendsSafe` | `GateInv`. `SentWithin` bounds the mails of an hour by what its row counts and by the transactions that committed after their hour, each of which can reset the row once. |
| `HistorySafe` | `HistoryInv`. No entry of the index, no copy of the index a command holds, no victim of an eviction and no chosen prior run names a run that was not stored completely. A file being replaced may be half written only before its run counts as stored. |
| `AcceptedSafe`, `WrittenSafe` | `BundleInv`: what is on disk was given to a write (`WritersInv`), how far the current write is (`ProgressInv`), and that an accepting reader has seen what it accepts (`ReaderInv`). `Backed` is common to the disk and to what is read: a file that carries the number of its write is the file of that write. |
| `ExitSafe` | `PipelineInv`: for each job (`JobInv`), it posts once, under a charged run, and an answer or an exit code other than 3 has a record of what the job verified behind it (`Behind`), which no step of another job takes away. |
| `DigestsSafe` | `AlertInv`: a decision is an event once (`EventsInv`); the accounts a run goes on with are worth a digest at its time (`RunInv`); the account of a recorded digest has the checkpoint, and a run that is to send it another started a day later (`RecordedInv`). |
| `ReportSafe` | `RunsInv`: the steps of a run each have a seq of their own. The property is about the operators of the report, so the rest are lemmas about them; see below. |
| `OwedSafe` | `ReportInv`: the usage a turn has read lies between what its keys had been charged when it began and what all keys are charged by now, and keys it has not read had been charged nothing (`TurnInv`). |

`OwedSafe` is an action property over sums. `SumFunctionOnSet` is a fold, and its
recursion equation is proved here: a function on the subsets of a finite set that
satisfies the equation exists and is unique, by taking a smallest set without one
(`SmallestSubset`, `SumsExist`, `SumsAgree`). `SumFirst`, `SumTake` and `SumLess` are what
the proof of the flow then uses.

`ReportSafe` is about what `buildRunComparisonReport` computes from any two runs. `Kept`
says of the map after the first steps that a step with a key stands for it or is named as
dropped; `KeyMapIs` takes it to the whole run by the least-number principle. The counts
of `multisetSubtract` are positive naturals (`Bag`): what is gained and what is unchanged
add up to what there is (`UnresolvedRestored`). Two steps with one
signature gain nothing from each other (`SameReasons`, `SameEffect`, where
`OutcomesAssumption` is needed: the signature leaves out what a verified effect says),
and a signature that fails in both runs is a pattern (`Recurs`). Without seqs of their own
the steps an entry names could not be told apart.

## What is not modelled

`PROJECT.json` lists every component with its status. Left out for good: wording and
layout of certificates, reports and pages (they restate what `VerificationRun`
concludes); the SQL text and its dialects; the state-witness transports (one read per
attempt, in the shape of a row check); the registry and the resolution of expectations
(their result is the constant `Registry`); quick verification and plan transitions, which
are inference and rules over strings; the entitlement table, a stateless function its
unit tests cover row by row; telemetry no decision reads; CI locks, a projection and a
comparison of one document; schemas and generated code; the Python port, which is kept
equal to the TypeScript kernel by shared conformance scenarios.

Left for later: the trends, histogram and headline of `runComparison.ts`.

Out of reach of the prover, and therefore only model-checked: liveness (`RunFinishes`,
both `EveryRequestAnswered`). Induction over data is done where it is
needed by the least-number principle, because the library's induction theorems take an
operator the provers cannot instantiate.

## Running the checks

`tlc -workers 2 -config <run>.cfg <module>` for each run of `PROJECT.json`; `tlapm
<Module>Proofs.tla` for the proofs. With two workers `Flows` takes about three
minutes, `EnforcementConcurrent`, `EnforcementLanes`, `StripeWebhooks` and `KernelRuns`
about two, every other run less.
