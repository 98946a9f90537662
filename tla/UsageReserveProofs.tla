------------------------- MODULE UsageReserveProofs -------------------------
(***************************************************************************)
(* A run is charged once, to the counter its reservation names, a retry of *)
(* it is never refused for quota, the active keys stay within the          *)
(* allowance, and the requests implement the ledger (UsageLedger): for any *)
(* number of keys, runs, concurrent requests and months, for every plan.   *)
(***************************************************************************)
EXTENDS UsageReserve, TLAPS, FiniteSetTheorems

-----------------------------------------------------------------------------
(* Types. *)

\* Ending a request keeps the types of what it touches.
LEMMA FinishTypes ==
    ASSUME NEW r \in Requests, NEW code, TypeOK, Finish(r, code)
    PROVE  /\ pc' = [pc EXCEPT ![r] = "idle"]
           /\ req' = [req EXCEPT ![r] = NoInput]
           /\ pc' \in [Requests -> PCs]
           /\ DOMAIN req' = Requests
           /\ dup' \in [Requests -> BOOLEAN]
           /\ active' \in [Requests -> SUBSET Keys]
           /\ lock' \in [Months -> Requests \cup {NoRequest}]
           /\ response'.code = code
           /\ \A s \in Requests : pc'[s] # "idle" => s # r /\ pc'[s] = pc[s] /\ req'[s] = req[s]
           /\ \A s \in Requests : req'[s] \in {req[s], NoInput}
<1>1. /\ pc' = [pc EXCEPT ![r] = "idle"] /\ req' = [req EXCEPT ![r] = NoInput]
      /\ dup' = [dup EXCEPT ![r] = FALSE] /\ active' = [active EXCEPT ![r] = {}]
      /\ lock' = [m \in Months |-> IF lock[m] = r THEN NoRequest ELSE lock[m]]
      /\ response'.code = code
    BY DEF Finish
<1>2. pc' \in [Requests -> PCs] /\ DOMAIN req' = Requests
      /\ active' \in [Requests -> SUBSET Keys]
    BY <1>1 DEF TypeOK, PCs
<1>3. dup' \in [Requests -> BOOLEAN]
    BY <1>1 DEF TypeOK
<1>4. lock' \in [Months -> Requests \cup {NoRequest}]
    BY <1>1 DEF TypeOK
<1>5. \A s \in Requests :
          /\ pc'[s] = IF s = r THEN "idle" ELSE pc[s]
          /\ req'[s] = IF s = r THEN NoInput ELSE req[s]
    BY <1>1 DEF TypeOK
<1> QED
    BY <1>1, <1>2, <1>3, <1>4, <1>5

\* The types of the requests in flight survive the end of one of them.
LEMMA FinishTypeOK ==
    ASSUME NEW r \in Requests, NEW code, TypeOK, Finish(r, code),
           code \in {"DUPLICATE", "QUOTA_EXCEEDED", "RESERVED", "SERVER_ERROR"},
           UNCHANGED <<month, keyState>>,
           counter' \in [Keys -> [Months -> Nat]], reservations' \in SUBSET Rows
    PROVE  TypeOK'
<1>1. \A s \in Requests :
          /\ req'[s] \in Inputs \cup {NoInput}
          /\ pc'[s] # "idle" => req'[s] \in Inputs /\ req'[s].month <= month'
    BY FinishTypes DEF TypeOK
<1> QED
    BY <1>1, FinishTypes DEF TypeOK

LEMMA TypeInit == Init => TypeOK
BY ReserveAssumption
   DEF ReserveAssumption, Init, TypeOK, Months, Inputs, NoInput, NoResponse, PCs

\* Waiting, reading and arriving: one request takes a step and stays in flight.
LEMMA StepTypeOK ==
    ASSUME NEW r \in Requests, TypeOK, Lock(r) \/ ReadDuplicate(r) \/ ReadKeys(r)
    PROVE  TypeOK'
<1>1. CASE Lock(r)
    BY <1>1 DEF Lock, TypeOK, store, PCs, NoResponse, Inputs
<1>2. CASE ReadDuplicate(r)
  <2>1. Reserved(req[r]) \in BOOLEAN
    BY DEF Reserved
  <2>2. dup' \in [Requests -> BOOLEAN]
    BY <1>2, <2>1 DEF ReadDuplicate, TypeOK
  <2> QED
    BY <1>2, <2>2 DEF ReadDuplicate, TypeOK, store, PCs, NoResponse
<1>3. CASE ReadKeys(r)
  <2>1. ActiveKeys \in SUBSET Keys /\ {req[r].key} \in SUBSET Keys
    BY <1>3 DEF ActiveKeys, ReadKeys, TypeOK, Inputs
  <2>2. active' \in [Requests -> SUBSET Keys]
    BY <1>3, <2>1 DEF ReadKeys, TypeOK
  <2> QED
    BY <1>3, <2>2 DEF ReadKeys, TypeOK, store, PCs, NoResponse
<1> QED
    BY <1>1, <1>2, <1>3

LEMMA ArriveTypeOK ==
    ASSUME NEW r \in Requests, TypeOK, Arrive(r)
    PROVE  TypeOK'
<1>1. PICK k \in ActiveKeys, run \in Runs :
          req' = [req EXCEPT ![r] =
                    [key |-> k, run |-> run, month |-> YmNow,
                     retry |-> Reserved([key |-> k, run |-> run, month |-> YmNow])]]
    BY DEF Arrive
<1> DEFINE again == Reserved([key |-> k, run |-> run, month |-> YmNow])
           input == [key |-> k, run |-> run, month |-> YmNow, retry |-> again]
<1>2. again \in BOOLEAN /\ k \in Keys /\ YmNow \in Months /\ YmNow <= month
    BY ReserveAssumption DEF ReserveAssumption, Reserved, ActiveKeys, YmNow, TypeOK, Months
<1>3. req' = [req EXCEPT ![r] = input] /\ input.month = YmNow
    BY <1>1
<1> HIDE DEF again
<1>4. input \in Inputs
    BY <1>2 DEF Inputs
<1> HIDE DEF input
<1>5. \A s \in Requests :
          /\ req'[s] = IF s = r THEN input ELSE req[s]
          /\ pc'[s] = IF s = r THEN "lock" ELSE pc[s]
    BY <1>3 DEF Arrive, TypeOK
<1>6. /\ pc' \in [Requests -> PCs] /\ DOMAIN req' = Requests /\ response'.code = "none"
      /\ UNCHANGED <<month, keyState, counter, reservations, lock, dup, active>>
    BY <1>3 DEF Arrive, TypeOK, PCs, NoResponse, store
<1>7. \A s \in Requests :
          /\ req'[s] \in Inputs \cup {NoInput}
          /\ pc'[s] # "idle" => req'[s] \in Inputs /\ req'[s].month <= month'
    BY <1>2, <1>3, <1>4, <1>5, <1>6 DEF TypeOK
<1> QED
    BY <1>6, <1>7 DEF TypeOK

LEMMA KeyTypeOK ==
    ASSUME TypeOK, KeyChange
    PROVE  TypeOK'
<1> DEFINE States == [Keys -> {"absent", "active", "revoked"}]
<1>1. ASSUME NEW k \in Keys, CreateKey(k) \/ RevokeKey(k)
      PROVE  TypeOK'
  <2>1. keyState' \in States
    BY <1>1 DEF CreateKey, RevokeKey, SetKeys, TypeOK
  <2> QED
    BY <1>1, <2>1 DEF CreateKey, RevokeKey, SetKeys, TypeOK, NoResponse
<1>2. ASSUME NEW k \in Keys, NEW s \in Keys, RotateKey(k, s)
      PROVE  TypeOK'
  <2>1. keyState' \in States
    BY <1>2 DEF RotateKey, SetKeys, TypeOK
  <2> QED
    BY <1>2, <2>1 DEF RotateKey, SetKeys, TypeOK, NoResponse
<1> QED
    BY <1>1, <1>2 DEF KeyChange

\* The counter that a reservation raises, and no other.
LEMMA ChargedCounter ==
    ASSUME TypeOK, NEW i \in Inputs
    PROVE  /\ Charged(i) \in [Keys -> [Months -> Nat]]
           /\ \A k \in Keys, m \in Months :
                 Charged(i)[k][m] =
                    IF k = i.key /\ m = i.month THEN counter[k][m] + 1 ELSE counter[k][m]
<1> DEFINE old == counter[i.key]
           new == [old EXCEPT ![i.month] = old[i.month] + 1]
<1>1. i.key \in Keys /\ i.month \in Months
    BY DEF Inputs
<1>2. counter \in [Keys -> [Months -> Nat]] /\ old \in [Months -> Nat]
    BY <1>1 DEF TypeOK
<1>3. Charged(i) = [counter EXCEPT ![i.key] = new]
    BY <1>1, <1>2 DEF Charged
<1>4. /\ new \in [Months -> Nat]
      /\ \A m \in Months : new[m] = IF m = i.month THEN old[m] + 1 ELSE old[m]
    BY <1>1, <1>2
<1> HIDE DEF new
<1>5. \A k \in Keys : Charged(i)[k] = IF k = i.key THEN new ELSE counter[k]
    BY <1>1, <1>2, <1>3
<1>6. Charged(i) \in [Keys -> [Months -> Nat]]
    BY <1>1, <1>2, <1>3, <1>4
<1> QED
    BY <1>4, <1>5, <1>6

LEMMA ReserveTypeOK ==
    ASSUME NEW r \in Requests, TypeOK, Reserve(r)
    PROVE  TypeOK'
<1>1. req[r] \in Inputs
    BY DEF Reserve, TypeOK
<1>2. counter' \in [Keys -> [Months -> Nat]]
    BY <1>1, ChargedCounter DEF Reserve
<1>3. reservations' \in SUBSET Rows
    BY <1>1 DEF Reserve, TypeOK, Inputs, Rows
<1>4. PICK code \in {"RESERVED", "SERVER_ERROR"} : Finish(r, code)
    BY DEF Reserve
<1> QED
    BY <1>2, <1>3, <1>4, FinishTypeOK DEF Reserve

LEMMA TypeStep == TypeOK /\ [Next]_vars => TypeOK'
<1> SUFFICES ASSUME TypeOK, [Next]_vars PROVE TypeOK'
    OBVIOUS
<1>1. CASE Rollover
  <2>1. month' \in Months /\ month <= month'
    BY <1>1, ReserveAssumption DEF ReserveAssumption, Rollover, TypeOK, Months
  <2>2. \A r \in Requests : pc[r] # "idle" => req[r].month <= month'
    BY <1>1, <2>1, ReserveAssumption DEF ReserveAssumption, Rollover, TypeOK, Months, Inputs
  <2> QED
    BY <1>1, <2>1, <2>2 DEF Rollover, TypeOK, NoResponse
<1>2. CASE KeyChange
    BY <1>2, KeyTypeOK
<1>3. ASSUME NEW r \in Requests, Arrive(r) PROVE TypeOK'
    BY <1>3, ArriveTypeOK
<1>4. ASSUME NEW r \in Requests, Lock(r) \/ ReadDuplicate(r) \/ ReadKeys(r) PROVE TypeOK'
    BY <1>4, StepTypeOK
<1>5. ASSUME NEW r \in Requests, Reserve(r) PROVE TypeOK'
    BY <1>5, ReserveTypeOK
<1>6. ASSUME NEW r \in Requests, AnswerDuplicate(r) \/ Deny(r) \/ Conflict(r) \/ Abort(r)
      PROVE  TypeOK'
  <2>1. PICK code \in {"DUPLICATE", "QUOTA_EXCEEDED", "SERVER_ERROR"} : Finish(r, code)
    BY <1>6 DEF AnswerDuplicate, Deny, Conflict, Abort
  <2>2. UNCHANGED store
    BY <1>6 DEF AnswerDuplicate, Deny, Conflict, Abort
  <2>3. counter' \in [Keys -> [Months -> Nat]] /\ reservations' \in SUBSET Rows
    BY <2>2 DEF store, TypeOK
  <2> QED
    BY <2>1, <2>2, <2>3, FinishTypeOK DEF store
<1>7. CASE UNCHANGED vars
    BY <1>7 DEF vars, TypeOK
<1> QED
    BY <1>1, <1>2, <1>3, <1>4, <1>5, <1>6, <1>7 DEF Next, Serve

\* Every variable has its type, whatever the bounds; a request in flight has an input.
THEOREM TypeCorrect == Spec => []TypeOK
BY TypeInit, TypeStep, PTL DEF Spec

-----------------------------------------------------------------------------
(* Charges. *)

\* Only a reservation writes reservations and counters: it inserts a row for a
\* run the key has no row for and raises the counter that row names.
LEMMA ChargeStep ==
    ASSUME TypeOK, [Next]_vars
    PROVE  \/ UNCHANGED <<reservations, counter>>
           \/ \E i \in Inputs :
                 /\ ~Reserved(i)
                 /\ reservations' = reservations \cup
                       {[key |-> i.key, run |-> i.run, month |-> i.month]}
                 /\ counter' = Charged(i)
<1>1. ASSUME NEW r \in Requests, Reserve(r)
      PROVE  /\ req[r] \in Inputs /\ ~Reserved(req[r])
             /\ reservations' = reservations \cup
                   {[key |-> req[r].key, run |-> req[r].run, month |-> req[r].month]}
             /\ counter' = Charged(req[r])
    BY <1>1 DEF Reserve, TypeOK
<1>2. ASSUME NEW r \in Requests, ~Reserve(r), Arrive(r) \/ Serve(r) \/ Abort(r)
      PROVE  UNCHANGED <<reservations, counter>>
    BY <1>2 DEF Serve, Arrive, Lock, ReadDuplicate, ReadKeys, AnswerDuplicate, Deny,
                Conflict, Abort, store
<1>3. Rollover \/ KeyChange \/ UNCHANGED vars => UNCHANGED <<reservations, counter>>
    BY DEF Rollover, KeyChange, CreateKey, RevokeKey, RotateKey, SetKeys, vars
<1>4. CASE \E r \in Requests : Reserve(r)
    BY <1>1, <1>4
<1>5. CASE \A r \in Requests : ~Reserve(r)
    BY <1>2, <1>3, <1>5 DEF Next
<1> QED
    BY <1>4, <1>5

LEMMA OneReservationStep ==
    TypeOK /\ OneReservationPerRun /\ [Next]_vars => OneReservationPerRun'
BY ChargeStep DEF OneReservationPerRun, Reserved

\* No two reservation rows of a key share the run, even when its retries hold
\* the locks of different months.
THEOREM OneReservationSafe == Spec => []OneReservationPerRun
<1>1. Init => OneReservationPerRun
    BY DEF Init, OneReservationPerRun
<1> QED
    BY <1>1, OneReservationStep, TypeCorrect, PTL DEF Spec

\* The ledger is finite, which is what lets its rows be counted.
LedgerInv == IsFiniteSet(reservations) /\ CountersMatch

LEMMA LedgerInit == Init => LedgerInv
<1> SUFFICES ASSUME Init PROVE LedgerInv
    OBVIOUS
<1>1. reservations = {} /\ IsFiniteSet({}) /\ Cardinality({}) = 0
    BY FS_EmptySet DEF Init
<1>2. ASSUME NEW k \in Keys, NEW m \in Months
      PROVE  counter[k][m] = Cardinality({x \in reservations : x.key = k /\ x.month = m})
  <2>1. {x \in reservations : x.key = k /\ x.month = m} = {}
    BY <1>1
  <2> QED
    BY <1>1, <2>1 DEF Init
<1> QED
    BY <1>1, <1>2 DEF LedgerInv, CountersMatch

LEMMA LedgerStep == TypeOK /\ LedgerInv /\ [Next]_vars => LedgerInv'
<1> SUFFICES ASSUME TypeOK, LedgerInv, [Next]_vars PROVE LedgerInv'
    OBVIOUS
<1>1. CASE UNCHANGED <<reservations, counter>>
    BY <1>1 DEF LedgerInv, CountersMatch
<1>2. ASSUME NEW i \in Inputs, ~Reserved(i), counter' = Charged(i),
             reservations' = reservations \cup
                {[key |-> i.key, run |-> i.run, month |-> i.month]}
      PROVE  LedgerInv'
  <2> DEFINE row == [key |-> i.key, run |-> i.run, month |-> i.month]
  <2>1. row.key = i.key /\ row.run = i.run /\ row.month = i.month
    OBVIOUS
  <2>2. row \notin reservations
    BY <1>2, <2>1 DEF Reserved
  <2>3. reservations' = reservations \cup {row}
    BY <1>2
  <2> HIDE DEF row
  <2>4. IsFiniteSet(reservations')
    BY <2>3, FS_AddElement DEF LedgerInv
  <2>5. ASSUME NEW k \in Keys, NEW m \in Months
        PROVE  counter'[k][m]
                  = Cardinality({x \in reservations' : x.key = k /\ x.month = m})
    <3> DEFINE before == {x \in reservations : x.key = k /\ x.month = m}
               after == {x \in reservations' : x.key = k /\ x.month = m}
    <3>1. counter[k][m] = Cardinality(before)
      BY DEF LedgerInv, CountersMatch
    <3>2. IsFiniteSet(before)
      BY FS_Subset DEF LedgerInv
    <3>3. CASE k = i.key /\ m = i.month
      <4>1. after = before \cup {row} /\ row \notin before
        BY <2>1, <2>2, <2>3, <3>3
      <4>2. Cardinality(after) = Cardinality(before) + 1
        BY <3>2, <4>1, FS_AddElement
      <4>3. counter'[k][m] = counter[k][m] + 1
        BY <1>2, <3>3, ChargedCounter
      <4> QED
        BY <3>1, <4>2, <4>3
    <3>4. CASE ~(k = i.key /\ m = i.month)
      <4>1. after = before
        BY <2>1, <2>3, <3>4
      <4>2. counter'[k][m] = counter[k][m]
        BY <1>2, <3>4, ChargedCounter
      <4> QED
        BY <3>1, <4>1, <4>2
    <3> QED
      BY <3>3, <3>4
  <2> QED
    BY <2>4, <2>5 DEF LedgerInv, CountersMatch
<1> QED
    BY <1>1, <1>2, ChargeStep

\* The counter of a key and month is the number of runs charged to them.
THEOREM CountersSafe == Spec => []CountersMatch
<1>1. LedgerInv => CountersMatch
    BY DEF LedgerInv
<1> QED
    BY <1>1, LedgerInit, LedgerStep, TypeCorrect, PTL DEF Spec

-----------------------------------------------------------------------------
(* Retries. *)

\* What makes the answer to a retry right: its run stays reserved while the
\* request is under way, and the transaction has seen that before the quota.
RetriesBacked ==
    \A r \in Requests :
        pc[r] # "idle" /\ req[r].retry =>
            /\ \E x \in reservations : x.key = req[r].key /\ x.run = req[r].run
            /\ pc[r] \in {"keys", "quota"} => dup[r]

LEMMA RowsStay == TypeOK /\ [Next]_vars => reservations \subseteq reservations'
BY ChargeStep

\* The end of a request leaves the retries of the others as they were.
LEMMA FinishRetries ==
    ASSUME NEW r \in Requests, NEW code, TypeOK, RetriesBacked, Finish(r, code),
           reservations \subseteq reservations'
    PROVE  RetriesBacked'
<1>1. \A s \in Requests : dup'[s] = IF s = r THEN FALSE ELSE dup[s]
    BY DEF Finish, TypeOK
<1>2. ASSUME NEW s \in Requests, pc'[s] # "idle", req'[s].retry
      PROVE  /\ \E x \in reservations' : x.key = req'[s].key /\ x.run = req'[s].run
             /\ pc'[s] \in {"keys", "quota"} => dup'[s]
  <2>1. s # r /\ pc'[s] = pc[s] /\ req'[s] = req[s]
    BY <1>2, FinishTypes
  <2>2. /\ \E x \in reservations : x.key = req[s].key /\ x.run = req[s].run
        /\ pc[s] \in {"keys", "quota"} => dup[s]
    BY <1>2, <2>1 DEF RetriesBacked
  <2> QED
    BY <1>1, <2>1, <2>2
<1> QED
    BY <1>2 DEF RetriesBacked

LEMMA ArriveRetries ==
    ASSUME NEW r \in Requests, TypeOK, RetriesBacked, Arrive(r)
    PROVE  RetriesBacked'
<1>1. PICK k \in ActiveKeys, run \in Runs :
          req' = [req EXCEPT ![r] =
                    [key |-> k, run |-> run, month |-> YmNow,
                     retry |-> Reserved([key |-> k, run |-> run, month |-> YmNow])]]
    BY DEF Arrive
<1> DEFINE again == Reserved([key |-> k, run |-> run, month |-> YmNow])
           input == [key |-> k, run |-> run, month |-> YmNow, retry |-> again]
<1>2. again => \E x \in reservations : x.key = k /\ x.run = run
    BY DEF Reserved
<1>3. /\ req' = [req EXCEPT ![r] = input]
      /\ input.key = k /\ input.run = run /\ input.retry = again
    BY <1>1
<1> HIDE DEF again, input
<1>4. \A s \in Requests :
          /\ req'[s] = IF s = r THEN input ELSE req[s]
          /\ pc'[s] = IF s = r THEN "lock" ELSE pc[s]
    BY <1>3 DEF Arrive, TypeOK
<1>5. UNCHANGED <<reservations, dup>>
    BY DEF Arrive, store
<1>6. ASSUME NEW s \in Requests, pc'[s] # "idle", req'[s].retry
      PROVE  /\ \E x \in reservations' : x.key = req'[s].key /\ x.run = req'[s].run
             /\ pc'[s] \in {"keys", "quota"} => dup'[s]
  <2>1. CASE s = r
    <3>1. req'[s] = input /\ pc'[s] = "lock"
      BY <1>4, <2>1
    <3>2. again
      BY <1>3, <1>6, <3>1
    <3> QED
      BY <1>2, <1>3, <1>5, <3>1, <3>2
  <2>2. CASE s # r
    BY <1>4, <1>5, <1>6, <2>2 DEF RetriesBacked
  <2> QED
    BY <2>1, <2>2
<1> QED
    BY <1>6 DEF RetriesBacked

LEMMA ReadRetries ==
    ASSUME NEW r \in Requests, TypeOK, RetriesBacked, Lock(r) \/ ReadDuplicate(r) \/ ReadKeys(r)
    PROVE  RetriesBacked'
<1>1. CASE Lock(r)
    BY <1>1 DEF Lock, store, TypeOK, RetriesBacked
<1>2. CASE ReadDuplicate(r)
  <2>1. \A s \in Requests :
            /\ pc'[s] = IF s = r THEN "keys" ELSE pc[s]
            /\ dup'[s] = IF s = r THEN Reserved(req[r]) ELSE dup[s]
    BY <1>2 DEF ReadDuplicate, TypeOK
  <2>2. UNCHANGED <<req, reservations>> /\ pc[r] = "dup"
    BY <1>2 DEF ReadDuplicate, store
  <2> QED
    BY <2>1, <2>2 DEF RetriesBacked, Reserved
<1>3. CASE ReadKeys(r)
    BY <1>3 DEF ReadKeys, store, TypeOK, RetriesBacked
<1> QED
    BY <1>1, <1>2, <1>3

\* Every request that ends, and with what.
LEMMA EndOfRequest ==
    ASSUME NEW r \in Requests,
           AnswerDuplicate(r) \/ Deny(r) \/ Reserve(r) \/ Conflict(r) \/ Abort(r)
    PROVE  \E code : /\ Finish(r, code)
                     /\ code = "QUOTA_EXCEEDED" => pc[r] = "quota" /\ ~dup[r]
<1>1. CASE AnswerDuplicate(r)
    BY <1>1 DEF AnswerDuplicate
<1>2. CASE Deny(r)
    BY <1>2 DEF Deny, OverQuota
<1>3. CASE Reserve(r)
    BY <1>3 DEF Reserve
<1>4. CASE Conflict(r)
    BY <1>4 DEF Conflict
<1>5. CASE Abort(r)
    BY <1>5 DEF Abort
<1> QED
    BY <1>1, <1>2, <1>3, <1>4, <1>5

LEMMA RetryStep ==
    TypeOK /\ RetriesBacked /\ RetryNotRefused /\ [Next]_vars
        => RetriesBacked' /\ RetryNotRefused'
<1> SUFFICES ASSUME TypeOK, RetriesBacked, RetryNotRefused, [Next]_vars
             PROVE  RetriesBacked' /\ RetryNotRefused'
    OBVIOUS
<1>1. CASE Rollover \/ KeyChange
    BY <1>1 DEF Rollover, KeyChange, CreateKey, RevokeKey, RotateKey, SetKeys, NoResponse,
                RetriesBacked, RetryNotRefused
<1>2. ASSUME NEW r \in Requests,
             Arrive(r) \/ Lock(r) \/ ReadDuplicate(r) \/ ReadKeys(r)
      PROVE  RetriesBacked' /\ RetryNotRefused'
  <2>1. response' = NoResponse
    BY <1>2 DEF Arrive, Lock, ReadDuplicate, ReadKeys
  <2> QED
    BY <1>2, <2>1, ArriveRetries, ReadRetries DEF NoResponse, RetryNotRefused
<1>3. ASSUME NEW r \in Requests,
             AnswerDuplicate(r) \/ Deny(r) \/ Reserve(r) \/ Conflict(r) \/ Abort(r)
      PROVE  RetriesBacked' /\ RetryNotRefused'
  <2>1. PICK code : /\ Finish(r, code)
                    /\ code = "QUOTA_EXCEEDED" => pc[r] = "quota" /\ ~dup[r]
    BY <1>3, EndOfRequest
  <2>2. response'.code = code /\ response'.retry = req[r].retry
    BY <2>1 DEF Finish
  <2>3. RetriesBacked'
    BY <2>1, RowsStay, FinishRetries
  <2>4. code = "QUOTA_EXCEEDED" => ~req[r].retry
    BY <2>1 DEF RetriesBacked
  <2> QED
    BY <2>2, <2>3, <2>4 DEF RetryNotRefused
<1>4. CASE UNCHANGED vars
    BY <1>4 DEF vars, RetriesBacked, RetryNotRefused
<1> QED
    BY <1>1, <1>2, <1>3, <1>4 DEF Next, Serve

\* A retry of a reserved run is never refused for quota, even at the cap.
THEOREM RetriesSafe == Spec => []RetryNotRefused
<1>1. Init => RetriesBacked /\ RetryNotRefused
    BY DEF Init, NoResponse, RetriesBacked, RetryNotRefused
<1> QED
    BY <1>1, RetryStep, TypeCorrect, PTL DEF Spec

-----------------------------------------------------------------------------
(* The pooled usage: counters and ledger agree on every set of keys. *)

ChargedRows(keys, m) == {x \in reservations : x.key \in keys /\ x.month = m}

\* Added up over any keys, the counters are the runs charged to those keys.
UsageMatches ==
    \A keys \in SUBSET Keys, m \in Months :
        /\ IsFiniteSet(Units(keys, m)) /\ IsFiniteSet(ChargedRows(keys, m))
        /\ UsedTotal(keys, m) = Cardinality(ChargedRows(keys, m))

\* A charge adds one unit, of the key and month it names.
LEMMA ChargedUnits ==
    ASSUME TypeOK, NEW i \in Inputs, counter' = Charged(i),
           NEW keys \in SUBSET Keys, NEW m \in Months
    PROVE  Units(keys, m)' =
              IF i.key \in keys /\ m = i.month
              THEN Units(keys, m) \cup {<<i.key, counter[i.key][i.month] + 1>>}
              ELSE Units(keys, m)
<1>1. i.key \in Keys /\ i.month \in Months
    BY DEF Inputs
<1>2. \A k \in Keys : counter[k][m] \in Nat /\ counter'[k][m] \in Nat
    BY ChargedCounter DEF TypeOK
<1>3. \A k \in Keys : counter'[k][m] =
          IF k = i.key /\ m = i.month THEN counter[k][m] + 1 ELSE counter[k][m]
    BY ChargedCounter
<1> DEFINE unit == <<i.key, counter[i.key][i.month] + 1>>
<1>4. CASE i.key \in keys /\ m = i.month
  <2>1. ASSUME NEW k \in keys
        PROVE  {k} \X (1 .. counter'[k][m]) =
                  IF k = i.key THEN ({k} \X (1 .. counter[k][m])) \cup {unit}
                  ELSE {k} \X (1 .. counter[k][m])
    BY <1>2, <1>3, <1>4
  <2>2. Units(keys, m)' \subseteq Units(keys, m) \cup {unit}
    BY <2>1 DEF Units
  <2>3. Units(keys, m) \cup {unit} \subseteq Units(keys, m)'
    BY <2>1, <1>4 DEF Units
  <2> QED
    BY <1>4, <2>2, <2>3
<1>5. CASE ~(i.key \in keys /\ m = i.month)
  <2>1. \A k \in keys : counter'[k][m] = counter[k][m]
    BY <1>3, <1>5
  <2> QED
    BY <1>5, <2>1 DEF Units
<1> QED
    BY <1>4, <1>5

LEMMA UsageInit == Init => UsageMatches
<1> SUFFICES ASSUME Init, NEW keys \in SUBSET Keys, NEW m \in Months
             PROVE  /\ IsFiniteSet(Units(keys, m)) /\ IsFiniteSet(ChargedRows(keys, m))
                    /\ UsedTotal(keys, m) = Cardinality(ChargedRows(keys, m))
    BY DEF UsageMatches
<1>1. \A k \in keys : counter[k][m] = 0
    BY DEF Init
<1>2. Units(keys, m) = {}
    BY <1>1 DEF Units
<1>3. ChargedRows(keys, m) = {}
    BY DEF Init, ChargedRows
<1> QED
    BY <1>2, <1>3, FS_EmptySet DEF UsedTotal

LEMMA UsageStep == TypeOK /\ UsageMatches /\ [Next]_vars => UsageMatches'
<1> SUFFICES ASSUME TypeOK, UsageMatches, [Next]_vars,
                    NEW keys \in SUBSET Keys, NEW m \in Months
             PROVE  /\ IsFiniteSet(Units(keys, m)') /\ IsFiniteSet(ChargedRows(keys, m)')
                    /\ UsedTotal(keys, m)' = Cardinality(ChargedRows(keys, m)')
    BY DEF UsageMatches
<1>1. /\ IsFiniteSet(Units(keys, m)) /\ IsFiniteSet(ChargedRows(keys, m))
      /\ UsedTotal(keys, m) = Cardinality(ChargedRows(keys, m))
    BY DEF UsageMatches
<1>2. CASE UNCHANGED <<reservations, counter>>
    BY <1>1, <1>2 DEF UsedTotal, Units, ChargedRows
<1>3. ASSUME NEW i \in Inputs, ~Reserved(i), counter' = Charged(i),
             reservations' = reservations \cup
                {[key |-> i.key, run |-> i.run, month |-> i.month]}
      PROVE  /\ IsFiniteSet(Units(keys, m)') /\ IsFiniteSet(ChargedRows(keys, m)')
             /\ UsedTotal(keys, m)' = Cardinality(ChargedRows(keys, m)')
  <2> DEFINE row == [key |-> i.key, run |-> i.run, month |-> i.month]
             unit == <<i.key, counter[i.key][i.month] + 1>>
             units == Units(keys, m)
             rows == ChargedRows(keys, m)
  <2>1. row.key = i.key /\ row.run = i.run /\ row.month = i.month
    OBVIOUS
  <2>2. reservations' = reservations \cup {row} /\ row \notin reservations
    BY <1>3, <2>1 DEF Reserved
  <2> HIDE DEF row
  <2>3. CASE i.key \in keys /\ m = i.month
    <3>1. unit \notin units
      <4>1. counter[i.key][i.month] \in Nat
        BY DEF Inputs, TypeOK
      <4> QED
        BY <2>3, <4>1 DEF Units
    <3>2. Units(keys, m)' = units \cup {unit}
      BY <1>3, <2>3, ChargedUnits
    <3>3. ChargedRows(keys, m)' = rows \cup {row} /\ row \notin rows
      BY <2>1, <2>2, <2>3 DEF ChargedRows
    <3> HIDE DEF unit, units, rows
    <3>4. /\ IsFiniteSet(units \cup {unit}) /\ IsFiniteSet(rows \cup {row})
          /\ Cardinality(units \cup {unit}) = Cardinality(units) + 1
          /\ Cardinality(rows \cup {row}) = Cardinality(rows) + 1
      BY <1>1, <3>1, <3>3, FS_AddElement DEF units, rows
    <3>5. Cardinality(units) = Cardinality(rows)
      BY <1>1 DEF units, rows, UsedTotal
    <3> QED
      BY <3>2, <3>3, <3>4, <3>5 DEF UsedTotal
  <2>4. CASE ~(i.key \in keys /\ m = i.month)
    <3>1. Units(keys, m)' = units
      BY <1>3, <2>4, ChargedUnits
    <3>2. ChargedRows(keys, m)' = rows
      BY <2>1, <2>2, <2>4 DEF ChargedRows
    <3> QED
      BY <1>1, <3>1, <3>2 DEF UsedTotal
  <2> QED
    BY <2>3, <2>4
<1> QED
    BY <1>2, <1>3, ChargeStep

-----------------------------------------------------------------------------
(* The pooled allowance. *)

\* What the transaction that admits a run knows: it holds the lock of its month, its
\* key exists, a duplicate it has seen is still there, and the keys it has read
\* account for everything the active keys have used by now, since keys created
\* meanwhile have used nothing and nobody else charges the month.
Backed(r) ==
    pc[r] # "idle" =>
        /\ keyState[req[r].key] # "absent"
        /\ pc[r] \in {"dup", "keys", "quota"} => lock[req[r].month] = r
        /\ pc[r] \in {"keys", "quota"} /\ dup[r] => reservations # {}
        /\ pc[r] = "quota" =>
              UsedTotal(ActiveKeys, req[r].month) <= UsedTotal(active[r], req[r].month)

AbsentUnused == \A k \in Keys, m \in Months : keyState[k] = "absent" => counter[k][m] = 0

QuotaInv == AbsentUnused /\ \A r \in Requests : Backed(r)

CapInv == UsageMatches /\ QuotaInv /\ ActiveUsageWithinCap

\* Keys that count among others, or have used nothing, have used no more than those.
LEMMA UsageBound ==
    ASSUME UsageMatches, NEW S \in SUBSET Keys, NEW T \in SUBSET Keys, NEW m \in Months,
           \A k \in S : k \in T \/ counter[k][m] = 0
    PROVE  /\ UsedTotal(S, m) \in Nat /\ UsedTotal(T, m) \in Nat
           /\ UsedTotal(S, m) <= UsedTotal(T, m)
<1>1. IsFiniteSet(Units(S, m)) /\ IsFiniteSet(Units(T, m))
    BY DEF UsageMatches
<1>2. Units(S, m) \in SUBSET Units(T, m)
    BY DEF Units
<1> QED
    BY <1>1, <1>2, FS_Subset, FS_CardinalityType DEF UsedTotal

\* A request stays backed by a step that neither moves it, nor takes its lock, nor
\* charges its month, nor activates a key that has been charged.
LEMMA StaysBacked ==
    ASSUME NEW s \in Requests, TypeOK, UsageMatches, QuotaInv,
           pc'[s] = pc[s], req'[s] = req[s], dup'[s] = dup[s], active'[s] = active[s],
           \A m \in Months : lock[m] = s => lock'[m] = s,
           reservations \subseteq reservations',
           \A k \in Keys : keyState[k] # "absent" => keyState'[k] # "absent",
           \A k \in Keys : keyState'[k] = "active" => keyState[k] \in {"active", "absent"},
           pc[s] = "quota" =>
               \A k \in Keys : counter'[k][req[s].month] = counter[k][req[s].month]
    PROVE  Backed(s)'
<1> SUFFICES ASSUME pc[s] # "idle" PROVE Backed(s)'
    BY DEF Backed
<1> DEFINE m == req[s].month
<1>1. m \in Months /\ req[s].key \in Keys
    BY DEF TypeOK, Inputs
<1>2. Backed(s)
    BY DEF QuotaInv
<1>3. ASSUME pc[s] = "quota"
      PROVE  UsedTotal(ActiveKeys, m)' <= UsedTotal(active[s], m)'
  <2>1. active[s] \in SUBSET Keys /\ ActiveKeys \in SUBSET Keys /\ ActiveKeys' \in SUBSET Keys
    BY DEF TypeOK, ActiveKeys
  <2>2. \A k \in ActiveKeys' : k \in ActiveKeys \/ counter[k][m] = 0
    BY <1>1 DEF ActiveKeys, QuotaInv, AbsentUnused
  <2>3. /\ UsedTotal(ActiveKeys', m) \in Nat /\ UsedTotal(ActiveKeys, m) \in Nat
        /\ UsedTotal(active[s], m) \in Nat
        /\ UsedTotal(ActiveKeys', m) <= UsedTotal(ActiveKeys, m)
    BY <1>1, <2>1, <2>2, UsageBound
  <2>4. UsedTotal(ActiveKeys, m) <= UsedTotal(active[s], m)
    BY <1>2, <1>3 DEF Backed
  <2>5. Units(ActiveKeys, m)' = Units(ActiveKeys', m)
    BY <1>3, <2>1 DEF Units
  <2>6. Units(active[s], m)' = Units(active[s], m)
    BY <1>3, <2>1 DEF Units
  <2> QED
    BY <2>3, <2>4, <2>5, <2>6 DEF UsedTotal
<1> QED
    BY <1>1, <1>2, <1>3 DEF Backed

\* The end of a request leaves the others their locks and what they have read.
LEMMA FinishBacked ==
    ASSUME NEW r \in Requests, NEW code, TypeOK, UsageMatches, QuotaInv, Finish(r, code),
           reservations \subseteq reservations', UNCHANGED keyState,
           \A s \in Requests \ {r} : pc[s] = "quota" =>
               \A k \in Keys : counter'[k][req[s].month] = counter[k][req[s].month]
    PROVE  \A s \in Requests : Backed(s)'
<1> SUFFICES ASSUME NEW s \in Requests PROVE Backed(s)'
    OBVIOUS
<1>1. CASE s = r
  <2>1. pc'[s] = "idle"
    BY <1>1 DEF Finish, TypeOK
  <2> QED
    BY <2>1 DEF Backed
<1>2. CASE s # r
  <2>1. /\ pc'[s] = pc[s] /\ req'[s] = req[s] /\ dup'[s] = dup[s] /\ active'[s] = active[s]
        /\ \A m \in Months : lock[m] = s => lock'[m] = s
    BY <1>2 DEF Finish, TypeOK
  <2>2. \A k \in Keys : keyState[k] \in {"absent", "active", "revoked"}
    BY DEF TypeOK
  <2> QED
    BY <1>2, <2>1, <2>2, StaysBacked
<1> QED
    BY <1>1, <1>2

LEMMA ArriveBacked ==
    ASSUME NEW r \in Requests, TypeOK, UsageMatches, QuotaInv, Arrive(r)
    PROVE  \A s \in Requests : Backed(s)'
<1> SUFFICES ASSUME NEW s \in Requests PROVE Backed(s)'
    OBVIOUS
<1>1. CASE s = r
  <2>1. PICK k \in ActiveKeys, run \in Runs :
            req' = [req EXCEPT ![r] =
                      [key |-> k, run |-> run, month |-> YmNow,
                       retry |-> Reserved([key |-> k, run |-> run, month |-> YmNow])]]
    BY DEF Arrive
  <2>2. req'[s].key = k /\ pc'[s] = "lock" /\ UNCHANGED keyState
    BY <1>1, <2>1 DEF Arrive, TypeOK, store
  <2>3. keyState[k] = "active"
    BY DEF ActiveKeys
  <2> QED
    BY <2>2, <2>3 DEF Backed
<1>2. CASE s # r
  <2>1. /\ pc'[s] = pc[s] /\ req'[s] = req[s] /\ dup'[s] = dup[s] /\ active'[s] = active[s]
        /\ UNCHANGED <<lock, keyState, counter, reservations>>
    BY <1>2 DEF Arrive, TypeOK, store
  <2>2. \A k \in Keys : keyState[k] \in {"absent", "active", "revoked"}
    BY DEF TypeOK
  <2> QED
    BY <2>1, <2>2, StaysBacked
<1> QED
    BY <1>1, <1>2

LEMMA ReadBacked ==
    ASSUME NEW r \in Requests, TypeOK, UsageMatches, QuotaInv,
           Lock(r) \/ ReadDuplicate(r) \/ ReadKeys(r)
    PROVE  \A s \in Requests : Backed(s)'
<1> SUFFICES ASSUME NEW s \in Requests PROVE Backed(s)'
    OBVIOUS
<1> DEFINE m == req[r].month
<1>1. /\ UNCHANGED <<keyState, counter, reservations, req>>
      /\ pc[r] # "idle" /\ Backed(r)
    BY DEF Lock, ReadDuplicate, ReadKeys, store, QuotaInv
<1>2. req[r] \in Inputs /\ m \in Months /\ req[r].key \in Keys
    BY <1>1 DEF TypeOK, Inputs
<1>3. CASE s = r /\ Lock(r)
  <2>1. pc'[r] = "dup" /\ lock'[m] = r
    BY <1>2, <1>3 DEF Lock, TypeOK
  <2> QED
    BY <1>1, <1>3, <2>1 DEF Backed
<1>4. CASE s = r /\ ReadDuplicate(r)
  <2>1. pc[r] = "dup" /\ pc'[r] = "keys" /\ UNCHANGED lock /\ dup'[r] = Reserved(req[r])
    BY <1>4 DEF ReadDuplicate, TypeOK
  <2>2. dup'[r] => reservations # {}
    BY <2>1 DEF Reserved
  <2> QED
    BY <1>1, <1>4, <2>1, <2>2 DEF Backed
<1>5. CASE s = r /\ ReadKeys(r)
  <2>1. /\ pc[r] = "keys" /\ pc'[r] = "quota" /\ UNCHANGED <<lock, dup>>
        /\ active'[r] = IF ActiveKeys # {} THEN ActiveKeys ELSE {req[r].key}
    BY <1>5 DEF ReadKeys, TypeOK
  <2>2. ActiveKeys \in SUBSET Keys /\ active'[r] \in SUBSET Keys
    BY <1>2, <2>1 DEF ActiveKeys
  <2>3. UsedTotal(ActiveKeys, m) <= UsedTotal(active'[r], m)
    BY <1>2, <2>1, <2>2, UsageBound
  <2>4. UsedTotal(ActiveKeys, m)' <= UsedTotal(active[r], m)'
    BY <1>1, <2>3 DEF UsedTotal, Units, ActiveKeys
  <2> QED
    BY <1>1, <1>5, <2>1, <2>4 DEF Backed
<1>6. CASE s # r
  <2>1. pc'[s] = pc[s] /\ dup'[s] = dup[s] /\ active'[s] = active[s]
    BY <1>6 DEF Lock, ReadDuplicate, ReadKeys, TypeOK
  <2>2. \A n \in Months : lock[n] = s => lock'[n] = s
    BY <1>6, <1>2, ReserveAssumption
       DEF ReserveAssumption, Lock, AdvisoryFree, ReadDuplicate, ReadKeys, TypeOK
  <2>3. \A k \in Keys : keyState[k] \in {"absent", "active", "revoked"}
    BY DEF TypeOK
  <2> QED
    BY <1>1, <2>1, <2>2, <2>3, StaysBacked
<1> QED
    BY <1>3, <1>4, <1>5, <1>6

\* A charge is made under the lock of its month, so nobody else has read that month.
LEMMA ReserveBacked ==
    ASSUME NEW r \in Requests, TypeOK, UsageMatches, QuotaInv, Reserve(r)
    PROVE  AbsentUnused' /\ \A s \in Requests : Backed(s)'
<1>1. /\ req[r] \in Inputs /\ pc[r] = "quota" /\ Backed(r)
      /\ counter' = Charged(req[r]) /\ UNCHANGED keyState
      /\ reservations \subseteq reservations'
    BY DEF Reserve, TypeOK, QuotaInv
<1>2. PICK code : Finish(r, code)
    BY DEF Reserve
<1>3. ASSUME NEW s \in Requests \ {r}, pc[s] = "quota", NEW k \in Keys
      PROVE  counter'[k][req[s].month] = counter[k][req[s].month]
  <2>1. lock[req[s].month] = s /\ lock[req[r].month] = r
    BY <1>1, <1>3 DEF QuotaInv, Backed
  <2>2. req[s].month # req[r].month /\ req[s].month \in Months
    BY <1>3, <2>1 DEF TypeOK, Inputs
  <2> QED
    BY <1>1, <2>2, ChargedCounter
<1>4. AbsentUnused'
  <2>1. keyState[req[r].key] # "absent" /\ AbsentUnused
    BY <1>1 DEF Backed, QuotaInv
  <2> QED
    BY <1>1, <2>1, ChargedCounter DEF AbsentUnused
<1> QED
    BY <1>1, <1>2, <1>3, <1>4, FinishBacked

\* What a step may do to the keys: one that exists is never absent again, and one
\* that is revoked never active.
LEMMA KeysAge ==
    ASSUME TypeOK, KeyChange
    PROVE  /\ UNCHANGED <<month, counter, reservations, lock, pc, req, dup, active>>
           /\ \A k \in Keys : keyState[k] # "absent" => keyState'[k] # "absent"
           /\ \A k \in Keys : keyState'[k] = "active" => keyState[k] \in {"active", "absent"}
           /\ keyState' \in [Keys -> {"absent", "active", "revoked"}]
           /\ response' = NoResponse
<1>1. ASSUME NEW k \in Keys, CreateKey(k) \/ RevokeKey(k)
      PROVE  /\ \A j \in Keys : keyState[j] # "absent" => keyState'[j] # "absent"
             /\ \A j \in Keys : keyState'[j] = "active" => keyState[j] \in {"active", "absent"}
    BY <1>1 DEF CreateKey, RevokeKey, SetKeys, TypeOK
<1>2. ASSUME NEW k \in Keys, NEW s \in Keys, RotateKey(k, s)
      PROVE  /\ \A j \in Keys : keyState[j] # "absent" => keyState'[j] # "absent"
             /\ \A j \in Keys : keyState'[j] = "active" => keyState[j] \in {"active", "absent"}
    BY <1>2 DEF RotateKey, SetKeys, TypeOK
<1>3. /\ UNCHANGED <<month, counter, reservations, lock, pc, req, dup, active>>
      /\ response' = NoResponse
    BY DEF KeyChange, CreateKey, RevokeKey, RotateKey, SetKeys
<1>4. keyState' \in [Keys -> {"absent", "active", "revoked"}]
    BY KeyTypeOK DEF TypeOK
<1> QED
    BY <1>1, <1>2, <1>3, <1>4 DEF KeyChange

LEMMA QuotaStep == TypeOK /\ UsageMatches /\ QuotaInv /\ [Next]_vars => QuotaInv'
<1> SUFFICES ASSUME TypeOK, UsageMatches, QuotaInv, [Next]_vars PROVE QuotaInv'
    OBVIOUS
<1>1. \A k \in Keys : keyState[k] \in {"absent", "active", "revoked"}
    BY DEF TypeOK
<1>2. CASE Rollover \/ KeyChange \/ UNCHANGED vars
  <2>1. /\ UNCHANGED <<counter, reservations, lock, pc, req, dup, active>>
        /\ \A k \in Keys : keyState[k] # "absent" => keyState'[k] # "absent"
        /\ \A k \in Keys : keyState'[k] = "active" => keyState[k] \in {"active", "absent"}
    BY <1>1, <1>2, KeysAge DEF Rollover, vars
  <2>2. AbsentUnused'
    BY <2>1 DEF QuotaInv, AbsentUnused
  <2>3. \A s \in Requests : Backed(s)'
    BY <2>1, StaysBacked
  <2> QED
    BY <2>2, <2>3 DEF QuotaInv
<1>3. ASSUME NEW r \in Requests, Arrive(r) \/ Lock(r) \/ ReadDuplicate(r) \/ ReadKeys(r)
      PROVE  QuotaInv'
  <2>1. AbsentUnused'
    BY <1>3 DEF Arrive, Lock, ReadDuplicate, ReadKeys, store, QuotaInv, AbsentUnused
  <2> QED
    BY <1>3, <2>1, ArriveBacked, ReadBacked DEF QuotaInv
<1>4. ASSUME NEW r \in Requests, Reserve(r)
      PROVE  QuotaInv'
    BY <1>4, ReserveBacked DEF QuotaInv
<1>5. ASSUME NEW r \in Requests,
             AnswerDuplicate(r) \/ Deny(r) \/ Conflict(r) \/ Abort(r)
      PROVE  QuotaInv'
  <2>1. UNCHANGED <<keyState, counter, reservations>>
    BY <1>5 DEF AnswerDuplicate, Deny, Conflict, Abort, store
  <2>2. PICK code : Finish(r, code)
    BY <1>5 DEF AnswerDuplicate, Deny, Conflict, Abort
  <2>3. AbsentUnused'
    BY <2>1 DEF QuotaInv, AbsentUnused
  <2> QED
    BY <2>1, <2>2, <2>3, FinishBacked DEF QuotaInv
<1> QED
    BY <1>2, <1>3, <1>4, <1>5 DEF Next, Serve

\* What a charge finds at its commit: room for it among the keys active by now.
LEMMA RoomAtCommit ==
    ASSUME NEW r \in Requests, TypeOK, UsageMatches, QuotaInv, Reserve(r),
           Included # Unlimited, ~AllowOverage
    PROVE  UsedTotal(ActiveKeys, req[r].month) < Included
<1>1. UsedTotal(active[r], req[r].month) < Included
    BY DEF Reserve, Admitted, AllowedNext
<1>2. UsedTotal(ActiveKeys, req[r].month) <= UsedTotal(active[r], req[r].month)
    BY DEF Reserve, QuotaInv, Backed
<1>3. req[r].month \in Months /\ active[r] \in SUBSET Keys /\ ActiveKeys \in SUBSET Keys
    BY DEF Reserve, TypeOK, Inputs, ActiveKeys
<1>4. /\ UsedTotal(active[r], req[r].month) \in Nat
      /\ UsedTotal(ActiveKeys, req[r].month) \in Nat
    BY <1>3, FS_CardinalityType DEF UsageMatches, UsedTotal
<1>5. Included \in Nat
    BY ReserveAssumption DEF ReserveAssumption
<1> QED
    BY <1>1, <1>2, <1>4, <1>5

LEMMA CapStep ==
    TypeOK /\ UsageMatches /\ QuotaInv /\ ActiveUsageWithinCap /\ [Next]_vars
        => ActiveUsageWithinCap'
<1> SUFFICES ASSUME TypeOK, UsageMatches, QuotaInv, ActiveUsageWithinCap, [Next]_vars,
                    Included # Unlimited, ~AllowOverage, NEW m \in Months
             PROVE  UsedTotal(ActiveKeys, m)' <= Included
    BY DEF ActiveUsageWithinCap
<1>1. /\ UsedTotal(ActiveKeys, m) <= Included
      /\ ActiveKeys \in SUBSET Keys /\ ActiveKeys' \in SUBSET Keys
      /\ UsedTotal(ActiveKeys, m) \in Nat /\ IsFiniteSet(Units(ActiveKeys, m))
    BY FS_CardinalityType DEF ActiveUsageWithinCap, ActiveKeys, UsageMatches, UsedTotal
<1>2. Included \in Nat
    BY ReserveAssumption DEF ReserveAssumption
<1>3. ASSUME NEW r \in Requests, Reserve(r)
      PROVE  UsedTotal(ActiveKeys, m)' <= Included
  <2>1. req[r] \in Inputs /\ counter' = Charged(req[r]) /\ ActiveKeys' = ActiveKeys
    BY <1>3 DEF Reserve, TypeOK, ActiveKeys
  <2>2. PICK keys \in SUBSET Keys : keys = ActiveKeys /\ keys = ActiveKeys'
    BY <1>1, <2>1
  <2> DEFINE unit == <<req[r].key, counter[req[r].key][req[r].month] + 1>>
             added == Units(keys, m) \cup {unit}
  <2>3. Units(keys, m)' = IF req[r].key \in keys /\ m = req[r].month THEN added
                          ELSE Units(keys, m)
    BY <2>1, ChargedUnits
  <2>4. /\ UsedTotal(ActiveKeys, m) = Cardinality(Units(keys, m))
        /\ UsedTotal(ActiveKeys, m)' = Cardinality(Units(keys, m)')
        /\ IsFiniteSet(Units(keys, m))
    BY <1>1, <2>2 DEF UsedTotal, Units
  <2> HIDE DEF unit
  <2>5. CASE req[r].key \in keys /\ m = req[r].month
    <3>1. IsFiniteSet(added) /\ Cardinality(added) <= Cardinality(Units(keys, m)) + 1
      <4> DEFINE units == Units(keys, m)
      <4>1. IsFiniteSet(units) /\ Cardinality(units) \in Nat
        BY <1>1, <2>4
      <4> HIDE DEF units
      <4>2. IsFiniteSet(units \cup {unit})
        BY <4>1, FS_AddElement
      <4>3. Cardinality(units \cup {unit}) \in {Cardinality(units), Cardinality(units) + 1}
        BY <4>1, FS_AddElement
      <4> QED
        BY <4>1, <4>2, <4>3 DEF units
    <3>2. Cardinality(added) \in Nat
      BY <3>1, FS_CardinalityType
    <3>3. UsedTotal(ActiveKeys, m) < Included
      BY <1>3, <2>5, RoomAtCommit
    <3> QED
      BY <1>1, <1>2, <2>3, <2>4, <2>5, <3>1, <3>2, <3>3
  <2>6. CASE ~(req[r].key \in keys /\ m = req[r].month)
    BY <1>1, <2>3, <2>4, <2>6
  <2> QED
    BY <2>5, <2>6
<1>4. CASE \A r \in Requests : ~Reserve(r)
  <2>1. /\ UNCHANGED counter
        /\ \A k \in Keys : keyState'[k] = "active" => keyState[k] \in {"active", "absent"}
    <3>1. \A k \in Keys : keyState[k] \in {"absent", "active", "revoked"}
      BY DEF TypeOK
    <3>2. CASE KeyChange
      BY <3>2, KeysAge
    <3>3. CASE Rollover \/ UNCHANGED vars
      BY <3>1, <3>3 DEF Rollover, vars
    <3>4. ASSUME NEW r \in Requests, Arrive(r) \/ Serve(r) \/ Abort(r)
          PROVE  UNCHANGED <<counter, keyState>>
      BY <1>4, <3>4 DEF Arrive, Serve, Lock, ReadDuplicate, ReadKeys, AnswerDuplicate,
                        Deny, Conflict, Abort, store
    <3> QED
      BY <3>1, <3>2, <3>3, <3>4 DEF Next
  <2>2. \A k \in ActiveKeys' : k \in ActiveKeys \/ counter[k][m] = 0
    BY <2>1 DEF ActiveKeys, QuotaInv, AbsentUnused
  <2>3. UsedTotal(ActiveKeys', m) <= UsedTotal(ActiveKeys, m) /\ UsedTotal(ActiveKeys', m) \in Nat
    BY <1>1, <2>2, UsageBound
  <2>4. UsedTotal(ActiveKeys, m)' = UsedTotal(ActiveKeys', m)
    BY <2>1 DEF UsedTotal, Units
  <2> QED
    BY <1>1, <1>2, <2>3, <2>4
<1> QED
    BY <1>3, <1>4

LEMMA CapInvInit == Init => QuotaInv /\ ActiveUsageWithinCap
<1> SUFFICES ASSUME Init PROVE QuotaInv /\ ActiveUsageWithinCap
    OBVIOUS
<1>1. QuotaInv
    BY DEF Init, QuotaInv, AbsentUnused, Backed
<1>2. ASSUME NEW m \in Months, Included # Unlimited
      PROVE  UsedTotal(ActiveKeys, m) <= Included
  <2>1. Units(ActiveKeys, m) = {}
    BY DEF Init, ActiveKeys, Units
  <2> QED
    BY <1>2, <2>1, FS_EmptySet, ReserveAssumption DEF UsedTotal, ReserveAssumption
<1> QED
    BY <1>1, <1>2 DEF ActiveUsageWithinCap

\* The invariant that the allowance and the ledger rest on.
LEMMA CapInvariant == Spec => [](TypeOK /\ CapInv)
<1>1. Init => CapInv
    BY UsageInit, CapInvInit DEF CapInv
<1>2. TypeOK /\ CapInv /\ [Next]_vars => CapInv'
    BY UsageStep, QuotaStep, CapStep DEF CapInv
<1> QED
    BY <1>1, <1>2, TypeCorrect, PTL DEF Spec

\* On a plan without overage the active keys of the account never have used more than
\* the allowance together, whatever is created, revoked or rotated under way.
THEOREM AllowanceSafe == Spec => []ActiveUsageWithinCap
<1>1. CapInv => ActiveUsageWithinCap
    BY DEF CapInv
<1> QED
    BY <1>1, CapInvariant, PTL

-----------------------------------------------------------------------------
(* The ledger: every step of the requests is a step of UsageLedger, or none. *)

\* The cardinality that UsageLedger speaks of is the cardinality.
LEMMA LedgerCounts == \A S : Ledger!Cardinality(S) = Cardinality(S)
BY DEF Ledger!Cardinality, Cardinality

LEMMA ChargesAreUsage ==
    ASSUME UsageMatches, NEW keys \in SUBSET Keys, NEW m \in Months
    PROVE  Ledger!Charges(keys, m) = UsedTotal(keys, m) /\ UsedTotal(keys, m) \in Nat
<1>1. /\ UsedTotal(keys, m) = Cardinality(ChargedRows(keys, m))
      /\ IsFiniteSet(ChargedRows(keys, m))
    BY DEF UsageMatches
<1> QED
    BY <1>1, FS_CardinalityType, LedgerCounts DEF Ledger!Charges, ChargedRows

\* The commit of a reservation is a charge.
LEMMA ReserveCharges ==
    ASSUME NEW r \in Requests, TypeOK, CapInv, Reserve(r)
    PROVE  Ledger!Charge
<1> DEFINE k == req[r].key
           run == req[r].run
           m == req[r].month
<1>1. /\ k \in Keys /\ run \in Runs /\ m \in Months /\ m \in 1 .. month
      /\ keyState[k] # "absent"
    BY DEF Reserve, TypeOK, Inputs, Months, CapInv, QuotaInv, Backed
<1>2. \A x \in reservations : x.key # k \/ x.run # run
    BY DEF Reserve, Reserved
<1>3. Ledger!RoomFor(k, m)
  <2> SUFFICES ASSUME Ledger!Metered PROVE Ledger!Charges(ActiveKeys, m) < Included
    BY DEF Ledger!RoomFor, ActiveKeys
  <2>1. ActiveKeys \in SUBSET Keys
    BY DEF ActiveKeys
  <2>2. UsedTotal(ActiveKeys, m) < Included
    BY RoomAtCommit DEF CapInv, Ledger!Metered
  <2> QED
    BY <1>1, <2>1, <2>2, ChargesAreUsage DEF CapInv
<1>4. /\ reservations' = reservations \cup {[key |-> k, run |-> run, month |-> m]}
      /\ response'.code \in {"RESERVED", "SERVER_ERROR"}
      /\ UNCHANGED <<month, keyState>>
    BY DEF Reserve, Finish
<1> QED
    BY <1>1, <1>2, <1>3, <1>4 DEF Ledger!Charge

\* A denial is one the ledger bears out.
LEMMA DenyAnswers ==
    ASSUME NEW r \in Requests, TypeOK, CapInv, Deny(r)
    PROVE  Ledger!AnswerOnly
<1> DEFINE m == req[r].month
<1>1. /\ m \in Months /\ m \in 1 .. month /\ active[r] \in SUBSET Keys
      /\ \A k \in active[r] : k \in Keys \/ counter[k][m] = 0
    BY DEF Deny, TypeOK, Inputs, Months
<1>2. /\ Included # Unlimited /\ ~AllowOverage /\ Included \in Nat
      /\ ~(UsedTotal(active[r], m) < Included)
    BY ReserveAssumption DEF ReserveAssumption, Deny, OverQuota, Admitted, AllowedNext
<1>3. /\ UsedTotal(active[r], m) <= UsedTotal(Keys, m)
      /\ UsedTotal(active[r], m) \in Nat /\ UsedTotal(Keys, m) \in Nat
    BY <1>1, UsageBound DEF CapInv
<1>4. Ledger!Charges(Keys, m) >= Included
    BY <1>1, <1>2, <1>3, ChargesAreUsage DEF CapInv
<1>5. response'.code = "QUOTA_EXCEEDED" /\ UNCHANGED <<month, keyState, reservations>>
    BY DEF Deny, Finish, store
<1> QED
    BY <1>1, <1>2, <1>4, <1>5 DEF Ledger!AnswerOnly, Ledger!Metered

LEMMA LedgerRefinementStep ==
    ASSUME TypeOK, CapInv, [Next]_vars
    PROVE  [Ledger!Next]_Ledger!vars
<1>1. CASE Rollover
    BY <1>1 DEF Rollover, NoResponse, Ledger!NewMonth, Ledger!Next
<1>2. CASE KeyChange
  <2>1. \A k \in Keys : /\ keyState[k] = "revoked" => keyState'[k] = "revoked"
                        /\ keyState'[k] = "absent" => keyState[k] = "absent"
    BY <1>2, KeysAge
  <2> QED
    BY <1>2, <2>1, KeysAge DEF NoResponse, Ledger!ChangeKeys, Ledger!Next
<1>3. ASSUME NEW r \in Requests,
             Arrive(r) \/ Lock(r) \/ ReadDuplicate(r) \/ ReadKeys(r)
      PROVE  Ledger!AnswerOnly
    BY <1>3 DEF Arrive, Lock, ReadDuplicate, ReadKeys, NoResponse, store, Ledger!AnswerOnly
<1>4. ASSUME NEW r \in Requests, AnswerDuplicate(r)
      PROVE  Ledger!AnswerOnly
  <2>1. reservations # {}
    BY <1>4 DEF AnswerDuplicate, CapInv, QuotaInv, Backed
  <2>2. response'.code = "DUPLICATE" /\ UNCHANGED <<month, keyState, reservations>>
    BY <1>4 DEF AnswerDuplicate, Finish, store
  <2> QED
    BY <2>1, <2>2 DEF Ledger!AnswerOnly
<1>5. ASSUME NEW r \in Requests, Conflict(r) \/ Abort(r)
      PROVE  Ledger!AnswerOnly
    BY <1>5 DEF Conflict, Abort, Finish, store, Ledger!AnswerOnly
<1>6. CASE UNCHANGED vars
    BY <1>6 DEF vars, Ledger!vars
<1> QED
    BY <1>1, <1>2, <1>3, <1>4, <1>5, <1>6, ReserveCharges, DenyAnswers
    DEF Next, Serve, Ledger!Next

\* Requests that run concurrently, with locks, stale reads, rollbacks and lost answers,
\* amount to charges made one at a time, each with room for it at its commit, and to
\* answers the ledger bears out.
THEOREM LedgerImplemented == Spec => ImplementsLedger
<1>1. Init => Ledger!Init
    BY DEF Init, NoResponse, Ledger!Init
<1> QED
    BY <1>1, LedgerRefinementStep, CapInvariant, PTL DEF Spec, ImplementsLedger, Ledger!Spec

=============================================================================
