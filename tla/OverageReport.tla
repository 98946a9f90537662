---------------------------- MODULE OverageReport ---------------------------
(***************************************************************************)
(* The daily job of internal/usage/overage-reconcile in its turn for one   *)
(* account, over the keys and counters that lib/usageSnapshot.ts reads.    *)
(*                                                                         *)
(* Every step of the turn is a statement or a call of its own, and between *)
(* two of them runs are charged, keys created and revoked, webhooks write  *)
(* the account, the subscription changes at Stripe and the month ends.     *)
(* Another run of the job sets the same quantity after a turn of its own.  *)
(***************************************************************************)
EXTENDS Naturals, Functions

CONSTANTS ApiKeys,    \* the account's keys
          Allowance,  \* includedMonthly of each plan that allows overage
          Unset,      \* no quantity
          LastMonth,  \* bound: months
          MaxCharges  \* bound: runs charged

VARIABLES month,     \* the current UTC month
          held,      \* keys not revoked
          revoked,   \* keys revoked
          count,     \* usage_counter, per key and month
          plan,      \* the account's plan while its subscription is active, or "none"
          item,      \* at Stripe: the plan whose overage price is metered, or "none"
          meter,     \* at Stripe: the quantity of that item
          turn       \* the job's turn for the account

meterVars == <<month, held, revoked, count, plan, item, meter, turn>>

Plans == DOMAIN Allowance
Months == 1 .. LastMonth

Idle == [at |-> "idle", month |-> 1, plan |-> "none", keys |-> {}, used |-> 0,
         fetched |-> FALSE, before |-> [k \in ApiKeys |-> 0]]

Init ==
    /\ month = 1
    /\ held = {} /\ revoked = {}
    /\ count = [k \in ApiKeys |-> [m \in Months |-> 0]]
    /\ plan = "none" /\ item = "none" /\ meter = Unset
    /\ turn = Idle

Used(keys, m) == SumFunction([k \in keys |-> count[k][m]])

\* computeOverageCount.
Overage(p, used) == IF used > Allowance[p] THEN used - Allowance[p] ELSE 0

-----------------------------------------------------------------------------
(* Around the job. *)

NewMonth ==
    /\ month < LastMonth
    /\ month' = month + 1
    /\ UNCHANGED <<held, revoked, count, plan, item, meter, turn>>

CreateKey(k) ==
    /\ k \notin held \cup revoked
    /\ held' = held \cup {k}
    /\ UNCHANGED <<month, revoked, count, plan, item, meter, turn>>

RevokeKey(k) ==
    /\ k \in held
    /\ held' = held \ {k} /\ revoked' = revoked \cup {k}
    /\ UNCHANGED <<month, count, plan, item, meter, turn>>

\* A reserve transaction commits, for a month that was current when it arrived and
\* with a key that may be revoked meanwhile.
Charge(k, m) ==
    /\ k \in held \cup revoked /\ m <= month
    /\ SumFunction([n \in Months |-> Used(ApiKeys, n)]) < MaxCharges
    /\ count' = [count EXCEPT ![k][m] = @ + 1]
    /\ UNCHANGED <<month, held, revoked, plan, item, meter, turn>>

\* Webhooks follow the subscription in their own time: the account may hold any plan.
Webhook(p) ==
    /\ plan' = p
    /\ UNCHANGED <<month, held, revoked, count, item, meter, turn>>

\* The subscription is bought, moved to another plan or ended.  The item of before is
\* gone with its quantity, and a job that has fetched it is refused.
Resubscribe(p) ==
    /\ item' = p /\ p # item
    /\ meter' = Unset
    /\ turn' = [turn EXCEPT !.fetched = FALSE]
    /\ UNCHANGED <<month, held, revoked, count, plan>>

-----------------------------------------------------------------------------
(* runReconcile. *)

\* The month is taken and the paying accounts are listed with their plan.
List ==
    /\ turn.at = "idle" /\ plan \in Plans
    /\ turn' = [Idle EXCEPT !.at = "keys", !.month = month, !.plan = plan,
                            !.before = [k \in ApiKeys |-> count[k][month]]]
    /\ UNCHANGED <<month, held, revoked, count, plan, item, meter>>

\* Mutant: the snapshot counts for the newest key only.
KeysRead_One == IF held = {} THEN {} ELSE {CHOOSE k \in held : TRUE}

\* The keys that are not revoked.
KeysRead == held

ReadKeys ==
    /\ turn.at = "keys"
    /\ turn' = [turn EXCEPT !.at = "counters", !.keys = KeysRead]
    /\ UNCHANGED <<month, held, revoked, count, plan, item, meter>>

\* Mutant: the counters of every month are added up.
CountersRead_AnyMonth == SumFunction([m \in Months |-> Used(turn.keys, m)])

\* The sum of usage_counter for the keys just read and the month of the run.
CountersRead == Used(turn.keys, turn.month)

ReadCounters ==
    /\ turn.at = "counters"
    /\ turn' = [turn EXCEPT !.at = "retrieve", !.used = CountersRead]
    /\ UNCHANGED <<month, held, revoked, count, plan, item, meter>>

\* Mutant: any metered item of the subscription will do.
MeteredItem_Any == item # "none"

\* The item that is metered at the overage price of the listed plan.
MeteredItem == item = turn.plan

Retrieve ==
    /\ turn.at = "retrieve"
    /\ turn' = IF MeteredItem THEN [turn EXCEPT !.at = "set", !.fetched = TRUE] ELSE Idle
    /\ UNCHANGED <<month, held, revoked, count, plan, item, meter>>

\* createUsageRecord with action "set".
SetQuantity ==
    /\ turn.at = "set" /\ turn.fetched
    /\ meter' = Overage(turn.plan, turn.used)
    /\ turn' = Idle
    /\ UNCHANGED <<month, held, revoked, count, plan, item>>

\* A failing call of Stripe ends the turn, a failing statement or the time limit the
\* whole run.
Fail ==
    /\ turn.at # "idle"
    /\ turn' = Idle
    /\ UNCHANGED <<month, held, revoked, count, plan, item, meter>>

-----------------------------------------------------------------------------
Next ==
    \/ NewMonth
    \/ \E k \in ApiKeys : CreateKey(k) \/ RevokeKey(k)
    \/ \E k \in ApiKeys, m \in Months : Charge(k, m)
    \/ \E p \in Plans \cup {"none"} : Webhook(p) \/ Resubscribe(p)
    \/ List \/ ReadKeys \/ ReadCounters \/ Retrieve \/ SetQuantity \/ Fail

Spec == Init /\ [][Next]_meterVars
-----------------------------------------------------------------------------
(* Properties. *)

\* What an item is set to is owed under the plan of that item, whatever happened
\* since the accounts were listed: not more than the runs charged in the month of
\* the run exceed its allowance by, and not less than those that the keys still held
\* had been charged when the run began.
SetsWhatIsOwed ==
    [][SetQuantity =>
         /\ meter' <= Overage(item, Used(ApiKeys, turn.month))
         /\ meter' >= Overage(item, SumFunction([k \in held |-> turn.before[k]]))]_meterVars
=============================================================================
