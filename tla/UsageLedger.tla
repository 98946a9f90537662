----------------------------- MODULE UsageLedger ----------------------------
(***************************************************************************)
(* What metering promises about one account: a ledger of charged runs.  A  *)
(* run is charged in one step and at most once per key, in a month that    *)
(* has begun, and only while the keys the account holds leave room under   *)
(* its allowance.  An answer says nothing the ledger does not support.     *)
(* UsageReserve implements this with counters, locks and several steps.    *)
(***************************************************************************)
EXTENDS Naturals, FiniteSets

CONSTANTS Keys, Runs, Unlimited, Included, AllowOverage, MaxMonth

VARIABLES month,     \* the current UTC month
          keyState,  \* the account's keys
          ledger,    \* the charged runs, each with its key and month
          answer     \* the answer code of the last step

vars == <<month, keyState, ledger, answer>>

Init ==
    /\ month = 1
    /\ keyState = [k \in Keys |-> "absent"]
    /\ ledger = {}
    /\ answer = "none"

Charges(keys, m) == Cardinality({x \in ledger : x.key \in keys /\ x.month = m})

NewMonth ==
    /\ month < MaxMonth
    /\ month' = month + 1
    /\ answer' = "none"
    /\ UNCHANGED <<keyState, ledger>>

\* A key, once active, is never brought back.
ChangeKeys ==
    /\ keyState' \in [Keys -> {"absent", "active", "revoked"}]
    /\ \A k \in Keys : keyState[k] = "revoked" => keyState'[k] = "revoked"
    /\ \A k \in Keys : keyState'[k] = "absent" => keyState[k] = "absent"
    /\ answer' = "none"
    /\ UNCHANGED <<month, ledger>>

Metered == Included # Unlimited /\ ~AllowOverage

\* The keys that pay for a run of k: the active ones, and k itself when it is the
\* only one left to count.
RoomFor(k, m) ==
    Metered => LET active == {j \in Keys : keyState[j] = "active"}
               IN  Charges(active, m) < Included \/ (k \notin active /\ Charges({k}, m) < Included)

\* The client may not hear of the charge.
Charge ==
    /\ \E k \in Keys, run \in Runs, m \in 1 .. month :
          /\ keyState[k] # "absent"
          /\ \A x \in ledger : x.key # k \/ x.run # run
          /\ RoomFor(k, m)
          /\ ledger' = ledger \cup {[key |-> k, run |-> run, month |-> m]}
    /\ answer' \in {"RESERVED", "SERVER_ERROR"}
    /\ UNCHANGED <<month, keyState>>

\* DUPLICATE needs a charged run; a denial needs a month whose allowance the
\* account has used up, on keys it holds or on keys it has revoked meanwhile.
AnswerOnly ==
    /\ answer' \in {"none", "SERVER_ERROR"}
                   \cup (IF ledger # {} THEN {"DUPLICATE"} ELSE {})
                   \cup (IF Metered /\ \E m \in 1 .. month : Charges(Keys, m) >= Included
                         THEN {"QUOTA_EXCEEDED"} ELSE {})
    /\ UNCHANGED <<month, keyState, ledger>>

Next == NewMonth \/ ChangeKeys \/ Charge \/ AnswerOnly

Spec == Init /\ [][Next]_vars
=============================================================================
