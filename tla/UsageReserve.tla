---------------------------- MODULE UsageReserve ----------------------------
(***************************************************************************)
(* POST /api/v1/usage/reserve for one account: the metering transaction of *)
(* website/src/app/api/v1/usage/reserve/route.ts, run concurrently with    *)
(* itself, with the end of a month and with the creation, revocation and   *)
(* rotation of the account's keys (website/src/lib/apiKeyLifecycle.ts).    *)
(*                                                                         *)
(* The transaction runs at READ COMMITTED under an advisory lock of the    *)
(* account and the UTC month the request read before it.  Two requests     *)
(* that straddle the end of a month hold different locks.                  *)
(***************************************************************************)
EXTENDS Naturals, FiniteSets

CONSTANTS Keys,          \* API keys the account may ever own
          Runs,          \* run_id values
          Requests,      \* slots for concurrent HTTP requests
          NoRequest,     \* an advisory lock is free
          Unlimited,     \* includedMonthly = null
          Included,      \* includedMonthly of the account's plan
          AllowOverage,  \* allowOverage of the account's plan
          MaxMonth       \* bound: months that pass

ASSUME ReserveAssumption ==
    /\ NoRequest \notin Requests
    /\ Included \in Nat \cup {Unlimited}
    /\ AllowOverage \in BOOLEAN
    /\ MaxMonth \in Nat \ {0}
    /\ IsFiniteSet(Keys) /\ IsFiniteSet(Runs)

VARIABLES month,         \* the current UTC month
          keyState,      \* api_key rows: absent, active or revoked
          counter,       \* usage_counter; a missing row counts as 0
          reservations,  \* usage_reservation rows, with the month charged
          lock,          \* per month: holder of the advisory lock
          pc, req,       \* per request: next step, what it asks
          dup, active,   \* per request: what its transaction has read
          response       \* the HTTP response the last step sent, if it sent one

store == <<month, keyState, counter, reservations>>
vars == <<month, keyState, counter, reservations, lock, pc, req, dup, active, response>>

Months == 1 .. MaxMonth
NoInput == [key |-> "none", run |-> "none", month |-> 0, retry |-> FALSE]
NoResponse == [code |-> "none", retry |-> FALSE]

Init ==
    /\ month = 1
    /\ keyState = [k \in Keys |-> "absent"]
    /\ counter = [k \in Keys |-> [m \in Months |-> 0]]
    /\ reservations = {}
    /\ lock = [m \in Months |-> NoRequest]
    /\ pc = [r \in Requests |-> "idle"]
    /\ req = [r \in Requests |-> NoInput]
    /\ dup = [r \in Requests |-> FALSE]
    /\ active = [r \in Requests |-> {}]
    /\ response = NoResponse

-----------------------------------------------------------------------------
(* The environment: time and the account's keys. *)

Rollover ==
    /\ month < MaxMonth
    /\ month' = month + 1
    /\ response' = NoResponse
    /\ UNCHANGED <<keyState, counter, reservations, lock, pc, req, dup, active>>

SetKeys(states) ==
    /\ keyState' = states
    /\ response' = NoResponse
    /\ UNCHANGED <<month, counter, reservations, lock, pc, req, dup, active>>

CreateKey(k) ==
    /\ keyState[k] = "absent"
    /\ SetKeys([keyState EXCEPT ![k] = "active"])

RevokeKey(k) ==
    /\ keyState[k] = "active"
    /\ SetKeys([keyState EXCEPT ![k] = "revoked"])

\* A successor is created and the old key revoked in one transaction.
RotateKey(k, successor) ==
    /\ keyState[k] = "active" /\ keyState[successor] = "absent"
    /\ SetKeys([keyState EXCEPT ![k] = "revoked", ![successor] = "active"])

-----------------------------------------------------------------------------
(* Reading and quota arithmetic. *)

\* Mutant: the month is taken in a zone ahead of UTC.
YmNow_AheadOfUtc == month + 1

YmNow == month

\* Mutant: a run is looked up among the reservations of the request's month.
Reserved_ThisMonth(i) ==
    \E x \in reservations : x.key = i.key /\ x.run = i.run /\ x.month = i.month

\* The row (api_key_id, run_id) exists: the duplicate test, and what the unique
\* constraint refuses.
Reserved(i) == \E x \in reservations : x.key = i.key /\ x.run = i.run

ActiveKeys == {k \in Keys : keyState[k] = "active"}

\* totalUsedForMonth: the counters of the given keys, added up by counting the units
\* they stand for, each with its key.
Units(keys, m) == UNION {{k} \X (1 .. counter[k][m]) : k \in keys}
UsedTotal(keys, m) == Cardinality(Units(keys, m))

\* computeAllowedNext.
AllowedNext(usedTotal) ==
    \/ Included = Unlimited
    \/ AllowOverage
    \/ usedTotal < Included

-----------------------------------------------------------------------------
(* A request. *)

\* Authentication of an active key, parsing, entitlement, and yearMonth.  A
\* retry repeats a run that is already reserved for the key.
Arrive(r) ==
    /\ pc[r] = "idle"
    /\ \E k \in ActiveKeys, run \in Runs :
          req' = [req EXCEPT ![r] =
                    [key |-> k, run |-> run, month |-> YmNow,
                     retry |-> Reserved([key |-> k, run |-> run, month |-> YmNow])]]
    /\ pc' = [pc EXCEPT ![r] = "lock"]
    /\ response' = NoResponse
    /\ UNCHANGED <<store, lock, dup, active>>

\* Mutant: the advisory lock is not taken.
AdvisoryFree_NoLock(m) == TRUE

AdvisoryFree(m) == lock[m] = NoRequest

\* pg_advisory_xact_lock(hashtext('usage-reserve:<user>:<month>')).
Lock(r) ==
    /\ pc[r] = "lock"
    /\ AdvisoryFree(req[r].month)
    /\ lock' = [lock EXCEPT ![req[r].month] = r]
    /\ pc' = [pc EXCEPT ![r] = "dup"]
    /\ response' = NoResponse
    /\ UNCHANGED <<store, req, dup, active>>

ReadDuplicate(r) ==
    /\ pc[r] = "dup"
    /\ dup' = [dup EXCEPT ![r] = Reserved(req[r])]
    /\ pc' = [pc EXCEPT ![r] = "keys"]
    /\ response' = NoResponse
    /\ UNCHANGED <<store, lock, req, active>>

\* The keys whose counters make up the account's usage.
ReadKeys(r) ==
    /\ pc[r] = "keys"
    /\ active' = [active EXCEPT ![r] = IF ActiveKeys # {} THEN ActiveKeys
                                       ELSE {req[r].key}]
    /\ pc' = [pc EXCEPT ![r] = "quota"]
    /\ response' = NoResponse
    /\ UNCHANGED <<store, lock, req, dup>>

\* Mutant: the response leaves with the transaction still open.
Finish_KeepsLock(r, code) ==
    /\ response' = [code |-> code, retry |-> req[r].retry]
    /\ pc' = [pc EXCEPT ![r] = "idle"]
    /\ req' = [req EXCEPT ![r] = NoInput]
    /\ dup' = [dup EXCEPT ![r] = FALSE]
    /\ active' = [active EXCEPT ![r] = {}]
    /\ UNCHANGED lock

\* The transaction ends, by commit or rollback, and the request is answered.
Finish(r, code) ==
    /\ response' = [code |-> code, retry |-> req[r].retry]
    /\ pc' = [pc EXCEPT ![r] = "idle"]
    /\ req' = [req EXCEPT ![r] = NoInput]
    /\ dup' = [dup EXCEPT ![r] = FALSE]
    /\ active' = [active EXCEPT ![r] = {}]
    /\ lock' = [m \in Months |-> IF lock[m] = r THEN NoRequest ELSE lock[m]]

AnswerDuplicate(r) ==
    /\ pc[r] = "quota" /\ dup[r]
    /\ Finish(r, "DUPLICATE")
    /\ UNCHANGED store

\* Mutant: each key has an allowance of its own.
Admitted_PerKey(r) == AllowedNext(UsedTotal({req[r].key}, req[r].month))

Admitted(r) == AllowedNext(UsedTotal(active[r], req[r].month))

\* Mutant: the quota is tested before the duplicate.
OverQuota_First(r) == ~Admitted(r)

OverQuota(r) == ~dup[r] /\ ~Admitted(r)

Deny(r) ==
    /\ pc[r] = "quota" /\ OverQuota(r)
    /\ Finish(r, "QUOTA_EXCEEDED")
    /\ UNCHANGED store

\* Mutant: the counter of the month that is current when charging.
Charged_Now(i) == [counter EXCEPT ![i.key][month] = @ + 1]

Charged(i) == [counter EXCEPT ![i.key][i.month] = @ + 1]

\* INSERT of the reservation, UPDATE of the counter, COMMIT.  The connection can
\* break after the commit: the client then sees an error for a charged run.
Reserve(r) ==
    /\ pc[r] = "quota" /\ ~dup[r] /\ Admitted(r)
    /\ ~Reserved(req[r])
    /\ reservations' = reservations \cup
          {[key |-> req[r].key, run |-> req[r].run, month |-> req[r].month]}
    /\ counter' = Charged(req[r])
    /\ \E code \in {"RESERVED", "SERVER_ERROR"} : Finish(r, code)
    /\ UNCHANGED <<month, keyState>>

\* The same run was reserved meanwhile, under the lock of another month: the
\* unique constraint rolls the transaction back.
Conflict(r) ==
    /\ pc[r] = "quota" /\ ~dup[r] /\ Admitted(r)
    /\ Reserved(req[r])
    /\ Finish(r, "SERVER_ERROR")
    /\ UNCHANGED store

\* Lost connection, crash of the function, statement error: ROLLBACK.
Abort(r) ==
    /\ pc[r] # "idle"
    /\ Finish(r, "SERVER_ERROR")
    /\ UNCHANGED store

Serve(r) ==
    \/ Lock(r)
    \/ ReadDuplicate(r)
    \/ ReadKeys(r)
    \/ AnswerDuplicate(r)
    \/ Deny(r)
    \/ Reserve(r)
    \/ Conflict(r)

KeyChange ==
    \/ \E k \in Keys : CreateKey(k) \/ RevokeKey(k)
    \/ \E k, s \in Keys : RotateKey(k, s)

Next ==
    \/ Rollover
    \/ KeyChange
    \/ \E r \in Requests : Arrive(r) \/ Serve(r) \/ Abort(r)

Spec == Init /\ [][Next]_vars

\* A request's process keeps running it, and PostgreSQL grants an advisory lock
\* to its waiters in order of arrival, so none of them waits forever.
Fairness == \A r \in Requests : WF_vars(Serve(r)) /\ SF_vars(Lock(r))
FairSpec == Spec /\ Fairness
-----------------------------------------------------------------------------
(* Properties. *)

Rows == [key : Keys, run : Runs, month : Months]
Inputs == [key : Keys, run : Runs, month : Months, retry : BOOLEAN]
PCs == {"idle", "lock", "dup", "keys", "quota"}

\* Types; a request in flight asks for a key, a run and a month that has begun.
TypeOK ==
    /\ month \in Months
    /\ keyState \in [Keys -> {"absent", "active", "revoked"}]
    /\ counter \in [Keys -> [Months -> Nat]]
    /\ reservations \in SUBSET Rows
    /\ lock \in [Months -> Requests \cup {NoRequest}]
    /\ pc \in [Requests -> PCs]
    /\ \A r \in Requests :
          /\ req[r] \in Inputs \cup {NoInput}
          /\ pc[r] # "idle" => req[r] \in Inputs /\ req[r].month <= month
    /\ DOMAIN req = Requests
    /\ dup \in [Requests -> BOOLEAN]
    /\ active \in [Requests -> SUBSET Keys]
    /\ response.code \in {"none", "DUPLICATE", "QUOTA_EXCEEDED", "RESERVED", "SERVER_ERROR"}

\* A run is charged once: no two reservation rows of a key share the run, even
\* when its retries straddle the end of a month and hold different locks.
OneReservationPerRun ==
    \A x, y \in reservations : x.key = y.key /\ x.run = y.run => x = y

\* The counter of a key and month is the number of runs charged to them: neither
\* rollbacks, conflicts nor the end of a month lose or invent a charge.
CountersMatch ==
    \A k \in Keys, m \in Months :
        counter[k][m] = Cardinality({x \in reservations : x.key = k /\ x.month = m})

\* On a plan without overage the active keys of the account never have used more
\* than the included allowance together, whatever is created, revoked or rotated
\* while requests are under way.
ActiveUsageWithinCap ==
    Included # Unlimited /\ ~AllowOverage =>
        \A m \in Months : UsedTotal(ActiveKeys, m) <= Included

\* A retry of a reserved run is never refused for quota: it was paid for, even at
\* the cap.
RetryNotRefused == response.retry => response.code # "QUOTA_EXCEEDED"

\* Every request is answered, however many others want the lock.
EveryRequestAnswered ==
    \A r \in Requests : pc[r] # "idle" ~> pc[r] = "idle"

-----------------------------------------------------------------------------
(* The requests together implement a ledger that charges in one step. *)

Ledger == INSTANCE UsageLedger WITH ledger <- reservations, answer <- response.code

\* The steps of concurrent requests amount to charges made one at a time: each a
\* run not charged before, in a month that has begun, with room left for it at the
\* moment of the commit; no answer claims a charge or a denial the ledger does not
\* bear out.
ImplementsLedger == Ledger!Spec

-----------------------------------------------------------------------------
(* What the pricing promises and the code does not keep. *)

\* "hard cap, pooled per account": all runs charged in a month, whatever became
\* of the key they were charged to (buyerTruthProjection.snap.json).
AccountCap ==
    Included # Unlimited /\ ~AllowOverage =>
        \A m \in Months : UsedTotal(Keys, m) <= Included
=============================================================================
