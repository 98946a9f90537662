---------------------------- MODULE RunComparison ---------------------------
(***************************************************************************)
(* The report of agentskeptic compare (buildRunComparisonReport) as        *)
(* operators on a list of runs of one workflow, the last of which is       *)
(* compared with the one before it.  The runs grow step by step.           *)
(*                                                                         *)
(* A step has a seq, the key of what it is about (NoStepKey when nothing   *)
(* was resolved), a status, reason codes, and its effects with theirs.     *)
(***************************************************************************)
EXTENDS SequencesExt, FiniteSetsExt

CONSTANTS StepKeys,       \* logicalStepKeyFromStep; numbers, in their order
          NoStepKey, StepSeqs, StepOutcomes,
          HighlightsMax   \* COMPARE_HIGHLIGHTS_MAX

VARIABLE runs

Failing(x) == x.status # "verified"

\* map.set(key, step)
Put(map, step) ==
    [k \in DOMAIN map \cup {step.key} |-> IF k = step.key THEN step ELSE map[k]]

DroppedFor(chosen, other) ==
    [key |-> chosen.key, chosen |-> chosen.seq, dropped |-> other.seq]

\* Mutant: a step that gives way to an earlier one is forgotten.
Keep_Forgets(acc, step) ==
    IF step.key = NoStepKey THEN acc
    ELSE IF step.key \notin DOMAIN acc.map \/ step.seq < acc.map[step.key].seq
    THEN [acc EXCEPT !.map = Put(@, step)]
    ELSE [acc EXCEPT !.dropped = @ \cup {DroppedFor(acc.map[step.key], step)}]

\* buildLogicalStepKeyMap: of the steps with one key the lowest seq stands for it.
Keep(acc, step) ==
    IF step.key = NoStepKey THEN acc
    ELSE IF step.key \notin DOMAIN acc.map
    THEN [acc EXCEPT !.map = Put(@, step)]
    ELSE IF step.seq < acc.map[step.key].seq
    THEN [map |-> Put(acc.map, step),
          dropped |-> acc.dropped \cup {DroppedFor(step, acc.map[step.key])}]
    ELSE [acc EXCEPT !.dropped = @ \cup {DroppedFor(acc.map[step.key], step)}]

\* The map after each number of steps.
KeyMaps(steps) ==
    LET after[n \in 0 .. Len(steps)] ==
            IF n = 0 THEN [map |-> <<>>, dropped |-> {}] ELSE Keep(after[n - 1], steps[n])
    IN  after

KeyMap(steps) == KeyMaps(steps)[Len(steps)]

Change(prior, current) ==
    CASE ~Failing(prior) /\ ~Failing(current) -> "unchangedOk"
      [] ~Failing(prior) /\ Failing(current) -> "introducedFailure"
      [] Failing(prior) /\ ~Failing(current) -> "resolvedFailure"
      [] Failing(prior) /\ Failing(current) -> "bothFailing"

MultisetSubtract(a, b) == a (-) b

\* The reason codes of one step that the other does not have.
Gained(prior, current) == MultisetSubtract(ToBag(current.codes), ToBag(prior.codes))

\* An effect that only one of two failing steps lists counts as verified in the other.
Effect(step, id) ==
    IF id \in DOMAIN step.effects THEN step.effects[id] ELSE [status |-> "verified", codes |-> <<>>]

EffectDeltas(prior, current) ==
    {LET p == Effect(prior, id)
         c == Effect(current, id)
     IN  [effect |-> id, kind |-> Change(p, c),
          introduced |-> Gained(p, c), resolved |-> Gained(c, p)] :
        id \in DOMAIN prior.effects \cup DOMAIN current.effects}

NoDelta == [introduced |-> EmptyBag, resolved |-> EmptyBag, effects |-> {}]

\* What two failing steps differ in.
Delta(prior, current) ==
    IF Change(prior, current) # "bothFailing" THEN NoDelta
    ELSE [introduced |-> Gained(prior, current), resolved |-> Gained(current, prior),
          effects |-> EffectDeltas(prior, current)]

\* One entry of bucket A, for a key of either run; at is the seq in both, 0 for none.
Entry(key, prior, current) ==
    LET Row(kind, at, failing, delta) ==
            [key |-> key, kind |-> kind, at |-> at, failing |-> failing,
             introduced |-> delta.introduced, resolved |-> delta.resolved,
             effects |-> delta.effects]
        p == prior[key]
        c == current[key]
    IN  IF key \notin DOMAIN current
        THEN Row("structuralRemoval", <<p.seq, 0>>, Failing(p), NoDelta)
        ELSE IF key \notin DOMAIN prior
        THEN Row("structuralAddition", <<0, c.seq>>, Failing(c), NoDelta)
        ELSE Row(Change(p, c), <<p.seq, c.seq>>, Failing(c), Delta(p, c))

BucketA(prior, current) ==
    LET p == KeyMap(prior).map
        c == KeyMap(current).map
    IN  {Entry(key, p, c) : key \in DOMAIN p \cup DOMAIN c}

Dropped(steps) == KeyMap(steps).dropped

\* recurrenceSignature: the status, the codes, and the effects that fail.
Signature(step) ==
    [status |-> step.status, codes |-> ToBag(step.codes),
     effects |-> {<<id, step.effects[id].status, ToBag(step.effects[id].codes)>> :
                     id \in {e \in DOMAIN step.effects : Failing(step.effects[e])}}]

\* The signatures of the steps at these places, as a multiset.
Signatures(steps, places) ==
    [s \in {Signature(steps[i]) : i \in places} |->
        Cardinality({i \in places : Signature(steps[i]) = s})]

FailingAt(steps) == {i \in DOMAIN steps : Failing(steps[i])}

\* Bucket B: the failing steps without a request, by signature.
Unresolved(steps) ==
    Signatures(steps, {i \in FailingAt(steps) : steps[i].key = NoStepKey})

Introduced(prior, current) ==
    MultisetSubtract(Unresolved(current), Unresolved(prior))

Unchanged(prior, current) ==
    LET p == Unresolved(prior)
        c == Unresolved(current)
    IN  [s \in DOMAIN p \cap DOMAIN c |-> Min({p[s], c[s]})]

\* buildRecurrence: the signatures that fail in two runs or more.
Patterns ==
    LET failed(i) == {Signature(runs[i][j]) : j \in FailingAt(runs[i])}
        hits(s) == {i \in DOMAIN runs : s \in failed(i)}
    IN  {[signature |-> s, runs |-> hits(s)] :
            s \in {t \in UNION {failed(i) : i \in DOMAIN runs} : Cardinality(hits(t)) >= 2}}

\* buildCompareHighlights: the first keys of a kind.
Highlighted(kind, bucketA) ==
    LET keys == {e.key : e \in {x \in bucketA : x.kind = kind}}
    IN  {k \in keys : Cardinality({j \in keys : j < k}) < HighlightsMax}

-----------------------------------------------------------------------------
\* planLogicalSteps gives every step of a run a seq of its own; a file handed to
\* compare may list them in any order.
Init == runs = <<<<>>>>

AddStep(seq, key, outcome) ==
    LET last == runs[Len(runs)]
    IN  /\ \A i \in DOMAIN last : last[i].seq # seq
        /\ runs' = [runs EXCEPT ![Len(runs)] =
                       Append(@, [seq |-> seq, key |-> key, status |-> outcome.status,
                                  codes |-> outcome.codes, effects |-> outcome.effects])]

NextRun == runs' = Append(runs, <<>>)

Next ==
    \/ \E seq \in StepSeqs, key \in StepKeys \cup {NoStepKey}, outcome \in StepOutcomes :
          AddStep(seq, key, outcome)
    \/ NextRun

Spec == Init /\ [][Next]_runs

-----------------------------------------------------------------------------
(* Properties. *)

Current == runs[Len(runs)]
Prior == runs[Len(runs) - 1]

\* No failing step of the current run is lost: it is an entry of bucket A marked
\* failing, or named as dropped for a step with its key, or one of the introduced or
\* unchanged of bucket B, which add up (pairwiseBucketA, pairwiseBucketB).
FailuresAccounted ==
    LET bucketA == BucketA(Prior, Current)
    IN  /\ \A i \in DOMAIN Current :
              Failing(Current[i]) /\ Current[i].key # NoStepKey =>
                  \/ \E e \in bucketA : e.at[2] = Current[i].seq /\ e.failing
                  \/ \E d \in Dropped(Current) : d.dropped = Current[i].seq
        /\ Introduced(Prior, Current) (+) Unchanged(Prior, Current) = Unresolved(Current)

Opposite(kind) ==
    CASE kind = "introducedFailure" -> "resolvedFailure"
      [] kind = "resolvedFailure" -> "introducedFailure"
      [] kind = "structuralAddition" -> "structuralRemoval"
      [] kind = "structuralRemoval" -> "structuralAddition"
      [] OTHER -> kind

OppositeDelta(d) == [effect |-> d.effect, kind |-> Opposite(d.kind),
                     introduced |-> d.resolved, resolved |-> d.introduced]

\* An entry without the flag that is about the current run only; and its opposite.
View(e) == [key |-> e.key, kind |-> e.kind, at |-> e.at, effects |-> e.effects,
            introduced |-> e.introduced, resolved |-> e.resolved]

OppositeView(e) == [key |-> e.key, kind |-> Opposite(e.kind), at |-> <<e.at[2], e.at[1]>>,
                    effects |-> {OppositeDelta(d) : d \in e.effects},
                    introduced |-> e.resolved, resolved |-> e.introduced]

\* The report of the runs in the other order says the opposite: what was introduced is
\* resolved, added is removed, and what is unchanged stays so.
Mirrored ==
    /\ {View(e) : e \in BucketA(Current, Prior)}
          = {OppositeView(e) : e \in BucketA(Prior, Current)}
    /\ Unchanged(Current, Prior) = Unchanged(Prior, Current)

\* The parts of the report agree: a failure that stays the same, in either bucket, is a
\* recurring signature of both runs and shows no change of codes; and one key is
\* highlighted for one change only.
PartsAgree ==
    LET bucketA == BucketA(Prior, Current)
        both == {Len(runs) - 1, Len(runs)}
        recurring == {p.signature : p \in {q \in Patterns : both \subseteq q.runs}}
        SignatureAt(steps, seq) ==
            Signature(steps[CHOOSE i \in DOMAIN steps : steps[i].seq = seq])
    IN  /\ DOMAIN Unchanged(Prior, Current) \subseteq recurring
        /\ \A e \in {x \in bucketA : x.kind = "bothFailing"} :
              SignatureAt(Prior, e.at[1]) = SignatureAt(Current, e.at[2]) =>
                  /\ SignatureAt(Current, e.at[2]) \in recurring
                  /\ \A d \in e.effects \cup {e} : d.introduced = EmptyBag /\ d.resolved = EmptyBag
        /\ Highlighted("introducedFailure", bucketA)
              \cap Highlighted("resolvedFailure", bucketA) = {}

ReportIsSound == Len(runs) >= 2 => FailuresAccounted /\ Mirrored /\ PartsAgree
=============================================================================
