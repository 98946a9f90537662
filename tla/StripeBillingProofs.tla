------------------------- MODULE StripeBillingProofs -------------------------
(***************************************************************************)
(* What holds of StripeBilling for any subscriptions, customers, prices    *)
(* and number of overlapping deliveries.                                   *)
(***************************************************************************)
EXTENDS StripeBilling, TLAPS

\* Inside the transaction that owns an event.
Owns(d) == pc[d] \in {"read", "write"}

DeliveriesTyped ==
    /\ pc \in [Deliveries -> {"idle", "retrieve", "claim", "read", "write"}]
    /\ event \in [Deliveries -> Nat]
    /\ \A d \in Deliveries : pc[d] # "idle" => event[d] \in Events
    /\ processed \subseteq Events
    /\ applied \in [Events -> Nat]

\* The unique key: an event is owned by one transaction, and only before it is
\* processed.
OwnedOnce ==
    /\ \A d \in Deliveries : Owns(d) => event[d] \notin processed
    /\ \A d, other \in Deliveries :
          d # other /\ Owns(d) /\ Owns(other) => event[d] # event[other]

OnceInv == DeliveriesTyped /\ OwnedOnce /\ ProcessedExactlyOnce

LEMMA OnceInit == Init => OnceInv
<1> SUFFICES ASSUME Init PROVE OnceInv OBVIOUS
<1>1. /\ pc = [d \in Deliveries |-> "idle"] /\ event = [d \in Deliveries |-> 0]
      /\ applied = [e \in Events |-> 0] /\ processed = {}
  BY DEF Init
<1> QED BY <1>1 DEF OnceInv, DeliveriesTyped, OwnedOnce, Owns, ProcessedExactlyOnce

\* The end of a request gives up what it owns and touches no other.
LEMMA OnceRelease ==
    ASSUME OnceInv, NEW d \in Deliveries, Release(d),
           UNCHANGED <<processed, applied>>
    PROVE  OnceInv'
BY DEF OnceInv, DeliveriesTyped, OwnedOnce, Owns, ProcessedExactlyOnce, Release, Goto

\* A step inside a request that keeps its event, and does not gain one.
LEMMA OnceAdvance ==
    ASSUME OnceInv, NEW d \in Deliveries, NEW step \in {"claim", "write"},
           Goto(d, step), pc[d] # "idle", step = "write" => Owns(d),
           UNCHANGED <<processed, applied, event>>
    PROVE  OnceInv'
BY DEF OnceInv, DeliveriesTyped, OwnedOnce, Owns, ProcessedExactlyOnce, Goto

LEMMA OnceStep == OnceInv /\ [Next]_vars => OnceInv'
<1> SUFFICES ASSUME OnceInv, [Next]_vars PROVE OnceInv' OBVIOUS
<1> USE DEF OnceInv, DeliveriesTyped, OwnedOnce, Owns, ProcessedExactlyOnce
<1>1. CASE Stripe \/ Browser \/ UNCHANGED vars
  <2>1. UNCHANGED <<processed, pc, event, applied>>
    BY <1>1 DEF Stripe, Browser, Complete, Change, Cancel, DeleteCustomer, Emit, ReadCustomer,
               CloseVisit, OpenCheckout, vars, web, stripe, history
  <2> QED BY <2>1
<1>2. ASSUME NEW d \in Deliveries, Webhook(d) PROVE OnceInv'
  <2>1. CASE \E e \in Events : Deliver(d, e)
    BY <2>1 DEF Deliver, Goto, Events
  <2>2. CASE Retrieve(d)
    BY <2>2, OnceAdvance DEF Retrieve, history
  <2>3. CASE Claim(d)
    BY <2>3 DEF Claim, ClaimFree, Goto, history
  <2>4. CASE Duplicate(d)
    BY <2>4, OnceRelease DEF Duplicate, history
  <2>5. CASE Read(d)
    BY <2>5, OnceAdvance DEF Read, history
  <2>6. CASE Commit(d)
    <3>1. /\ event[d] \in Events \ processed
          /\ applied[event[d]] = 0
      BY <2>6 DEF Commit
    <3>2. /\ \A e \in Events : applied'[e] = IF e = event[d] THEN 1 ELSE applied[e]
          /\ applied' \in [Events -> Nat] /\ processed' = processed \cup {event[d]}
      BY <2>6, <3>1 DEF Commit
    <3>3. ProcessedExactlyOnce'
      BY <3>1, <3>2
    <3>4. DeliveriesTyped' /\ OwnedOnce'
      BY <2>6, <3>1, <3>2 DEF Commit, Release, Goto
    <3> QED BY <3>3, <3>4
  <2>7. CASE Abort(d)
    BY <2>7, OnceRelease DEF Abort, history
  <2> QED BY <1>2, <2>1, <2>2, <2>3, <2>4, <2>5, <2>6, <2>7 DEF Webhook
<1> QED BY <1>1, <1>2 DEF Next

\* However deliveries of an event repeat, overlap and fail, it changes the account at
\* most once, and it did if it is recorded as processed (the claim in route.ts).
THEOREM ExactlyOnceSafe == Spec => []ProcessedExactlyOnce
<1>1. OnceInv => ProcessedExactlyOnce BY DEF OnceInv
<1> QED BY OnceInit, OnceStep, <1>1, PTL DEF Spec
-----------------------------------------------------------------------------
(* Types. *)

LEMMA TypeInit == Init => TypeOK
<1> SUFFICES ASSUME Init PROVE TypeOK OBVIOUS
<1>1. NoSub \in SubRows BY DEF NoSub, SubRows, States
<1>2. account \in AccountRows
  <2>1. account = NewAccount BY DEF Init
  <2> QED BY <2>1 DEF NewAccount, AccountRows, Plans
<1>3. sent = <<>> BY DEF Init
<1>4. sent \in Seq(EventRows) /\ Len(sent) = 0 BY <1>3
<1>5. /\ sub \in [Subs -> SubRows] /\ fetched \in [Deliveries -> SubRows]
      /\ visit \in [Routes -> Customers \cup {Nobody, Unread}]
      /\ seen \in [Deliveries -> Plans \cup {Unread, NotFound}]
  BY <1>1 DEF Init
<1>6. /\ pc \in [Deliveries -> {"idle", "retrieve", "claim", "read", "write"}]
      /\ \A d \in Deliveries : pc[d] = "idle"
  <2>1. pc = [d \in Deliveries |-> "idle"] BY DEF Init
  <2> QED BY <2>1
<1>7. gone = {} /\ processed = {} /\ paid = {}
  BY DEF Init
<1>8. event \in [Deliveries -> 0 .. 0]
  <2>1. event = [d \in Deliveries |-> 0] BY DEF Init
  <2> QED BY <2>1
<1> QED BY <1>2, <1>4, <1>5, <1>6, <1>7, <1>8, BillingAssumption DEF BillingAssumption, TypeOK

\* A change at Stripe.
LEMMA EmitTypes ==
    ASSUME TypeOK, NEW s \in Subs, NEW kind \in {"completed", "updated", "deleted"},
           NEW new \in SubRows, Emit(kind, s, new)
    PROVE  TypeOK'
<1>1. /\ sent' = Append(sent, [kind |-> kind, sub |-> s, snapshot |-> new])
      /\ Len(sent) < MaxEvents
  BY DEF Emit
<1>2. [kind |-> kind, sub |-> s, snapshot |-> new] \in EventRows BY DEF EventRows
<1>3. /\ sent' \in Seq(EventRows) /\ Len(sent') = Len(sent) + 1 /\ Len(sent) \in Nat
      /\ DOMAIN sent \subseteq DOMAIN sent' /\ Len(sent') <= MaxEvents
  BY <1>1, <1>2, BillingAssumption DEF BillingAssumption, TypeOK
<1>4. sub' \in [Subs -> SubRows] BY DEF Emit, TypeOK
<1>5. paid' \subseteq Plans BY DEF Emit, TypeOK, Plans
<1>6. event \in [Deliveries -> 0 .. Len(sent')] BY <1>3 DEF TypeOK
<1>7. UNCHANGED <<gone, account, processed, visit, pc, event, fetched, seen>> BY DEF Emit, web
<1> QED BY <1>3, <1>4, <1>5, <1>6, <1>7 DEF TypeOK

\* The end of a request.
LEMMA ReleaseTypes ==
    ASSUME TypeOK, NEW d \in Deliveries, Release(d), UNCHANGED <<stripe, visit, paid>>,
           account' \in AccountRows, processed' \subseteq DOMAIN sent
    PROVE  TypeOK'
<1>1. NoSub \in SubRows BY DEF NoSub, SubRows, States
<1> QED BY <1>1 DEF TypeOK, Release, Goto, stripe

LEMMA WrittenTypes ==
    ASSUME TypeOK, NEW d \in Deliveries, pc[d] # "idle", seen[d] \in Plans \cup {NotFound}
    PROVE  Written(d) \in AccountRows
<1> DEFINE e == event[d]  s == Sent(e).sub
           x == IF Sent(e).kind = "completed" THEN fetched[d] ELSE Sent(e).snapshot
<1>1. sent[e] \in EventRows
  BY DEF TypeOK
<1>2. s \in Subs /\ x \in SubRows
  BY <1>1 DEF EventRows, Sent, TypeOK
<1>3. ASSUME seen[d] \in Plans PROVE Patch(s, x, seen[d]) \in AccountRows
  <2> HIDE DEF s, x
  <2>1. (IF x.price \in DOMAIN PlanOf THEN PlanOf[x.price] ELSE seen[d]) \in Plans
    BY <1>3 DEF Plans
  <2>2. StatusFromStripe(x.state) \in {"active", "inactive"} BY DEF StatusFromStripe
  <2>3. x.customer \in Customers \cup {Nobody} /\ x.price \in Prices \cup {Nobody}
    BY <1>2 DEF SubRows
  <2> QED BY <1>2, <2>1, <2>2, <2>3 DEF Patch, AccountRows
<1>4. Ended \in AccountRows BY DEF Ended, TypeOK, AccountRows, Plans
<1>5. account \in AccountRows BY DEF TypeOK
<1> QED BY <1>3, <1>4, <1>5 DEF Written

\* A delivery writes only after it has read.
HasRead == \A d \in Deliveries : pc[d] = "write" => seen[d] \in Plans \cup {NotFound}

LEMMA TypeStep == TypeOK /\ HasRead /\ [Next]_vars => TypeOK' /\ HasRead'
<1> SUFFICES ASSUME TypeOK, HasRead, [Next]_vars PROVE TypeOK' /\ HasRead' OBVIOUS
<1>1. CASE UNCHANGED vars
  BY <1>1 DEF vars, stripe, web, history, TypeOK, HasRead
<1>2. ASSUME NEW s \in Subs, NEW p \in Prices, NEW c \in Customers, Complete(s, p, c)
      PROVE  TypeOK' /\ HasRead'
  <2>1. [state |-> "active", price |-> p, customer |-> c] \in SubRows
    BY DEF SubRows, States
  <2> QED BY <1>2, <2>1, EmitTypes DEF Complete, Emit, web, HasRead
<1>3. ASSUME NEW s \in Subs, NEW state \in {"active", "unpaid"}, NEW p \in Prices,
             Change(s, state, p)
      PROVE  TypeOK' /\ HasRead'
  <2> DEFINE new == [sub[s] EXCEPT !.state = state, !.price = p]
  <2>1. new \in SubRows
    <3>1. sub[s] \in SubRows BY DEF TypeOK
    <3> QED BY <3>1 DEF SubRows, States
  <2>2. Emit("updated", s, new) BY <1>3 DEF Change
  <2> HIDE DEF new
  <2> QED BY <2>1, <2>2, EmitTypes DEF Emit, web, HasRead
<1>4. ASSUME NEW s \in Subs, Cancel(s) PROVE TypeOK' /\ HasRead'
  <2> DEFINE new == [sub[s] EXCEPT !.state = "canceled"]
  <2>1. new \in SubRows
    <3>1. sub[s] \in SubRows BY DEF TypeOK
    <3> QED BY <3>1 DEF SubRows, States
  <2>2. Emit("deleted", s, new) BY <1>4 DEF Cancel
  <2> HIDE DEF new
  <2> QED BY <2>1, <2>2, EmitTypes DEF Emit, web, HasRead
<1>5. ASSUME NEW c \in Customers, DeleteCustomer(c) PROVE TypeOK' /\ HasRead'
  BY <1>5 DEF DeleteCustomer, web, history, TypeOK, HasRead
<1>6. ASSUME NEW c, account' = IF Missing(c) THEN [account EXCEPT !.customer = Nobody]
                                             ELSE account
      PROVE  account' \in AccountRows
  BY <1>6 DEF TypeOK, AccountRows
<1>7. ASSUME NEW k \in Routes, ReadCustomer(k) \/ CloseVisit(k) PROVE TypeOK' /\ HasRead'
  <2>1. /\ account' \in AccountRows
        /\ visit' \in [Routes -> Customers \cup {Nobody, Unread}]
        /\ UNCHANGED <<stripe, processed, pc, event, fetched, seen, paid>>
    <3>1. CASE ReadCustomer(k)
      <4>1. account.customer \in Customers \cup {Nobody} /\ account \in AccountRows
        BY DEF TypeOK, AccountRows
      <4> QED BY <3>1, <4>1 DEF ReadCustomer, TypeOK, history
    <3>2. CASE CloseVisit(k)
      BY <3>2, <1>6 DEF CloseVisit, ForgetMissing, TypeOK, history
    <3> QED BY <1>7, <3>1, <3>2
  <2> QED BY <2>1 DEF TypeOK, HasRead, stripe
<1>8. ASSUME NEW s \in Subs, OpenCheckout(s) PROVE TypeOK' /\ HasRead'
  <2> DEFINE c == IF Missing(visit["checkout"]) THEN Nobody ELSE visit["checkout"]
  <2>1. c \in Customers \cup {Nobody} BY <1>8 DEF OpenCheckout, TypeOK, Routes
  <2>2. sub' = [sub EXCEPT ![s] = [state |-> "open", price |-> Nobody, customer |-> c]]
    BY <1>8 DEF OpenCheckout
  <2>3. sub' \in [Subs -> SubRows]
    <3> HIDE DEF c
    <3>1. [state |-> "open", price |-> Nobody, customer |-> c] \in SubRows
      BY <2>1 DEF SubRows, States
    <3> QED BY <2>2, <3>1 DEF TypeOK
  <2>4. account' \in AccountRows BY <1>6, <1>8 DEF OpenCheckout, ForgetMissing
  <2>5. visit' \in [Routes -> Customers \cup {Nobody, Unread}]
    BY <1>8 DEF OpenCheckout, TypeOK
  <2> QED BY <1>8, <2>3, <2>4, <2>5 DEF OpenCheckout, TypeOK, HasRead, history
<1>9. ASSUME NEW d \in Deliveries, Webhook(d) PROVE TypeOK' /\ HasRead'
  <2>1. ASSUME NEW e \in Events, Deliver(d, e) PROVE TypeOK' /\ HasRead'
    <3>1. e \in 0 .. Len(sent) /\ e # 0
      BY <2>1, BillingAssumption DEF BillingAssumption, Deliver, Events, TypeOK
    <3> QED BY <2>1, <3>1 DEF Deliver, Goto, TypeOK, HasRead, stripe
  <2>2. CASE Retrieve(d)
    <3>1. sent[event[d]] \in EventRows BY <2>2 DEF Retrieve, TypeOK
    <3>2. sub[Sent(event[d]).sub] \in SubRows BY <3>1 DEF TypeOK, EventRows, Sent
    <3> QED BY <2>2, <3>2 DEF Retrieve, Goto, TypeOK, HasRead, stripe, history
  <2>3. CASE Claim(d)
    BY <2>3 DEF Claim, Goto, TypeOK, HasRead, stripe, history
  <2>4. CASE Duplicate(d) \/ Abort(d)
    <3>1. TypeOK' BY <2>4, ReleaseTypes DEF Duplicate, Abort, history, TypeOK
    <3> QED BY <2>4, <3>1 DEF Duplicate, Abort, Release, Goto, HasRead, TypeOK
  <2>5. CASE Read(d)
    <3> DEFINE found == IF Found(event[d]) THEN account.plan ELSE NotFound
    <3>1. found \in Plans \cup {NotFound} BY DEF TypeOK, AccountRows
    <3>2. seen' = [seen EXCEPT ![d] = found] BY <2>5 DEF Read
    <3> HIDE DEF found
    <3> QED BY <2>5, <3>1, <3>2 DEF Read, Goto, TypeOK, HasRead, stripe, history
  <2>6. CASE Commit(d)
    <3>1. seen[d] \in Plans \cup {NotFound} BY <2>6 DEF Commit, HasRead
    <3>2. account' \in AccountRows BY <2>6, <3>1, WrittenTypes DEF Commit
    <3>3. processed' \subseteq DOMAIN sent
      BY <2>6 DEF Commit, TypeOK
    <3>4. TypeOK' BY <2>6, <3>2, <3>3, ReleaseTypes DEF Commit
    <3> QED BY <2>6, <3>4 DEF Commit, Release, Goto, HasRead, TypeOK
  <2> QED BY <1>9, <2>1, <2>2, <2>3, <2>4, <2>5, <2>6 DEF Webhook
<1> QED BY <1>1, <1>2, <1>3, <1>4, <1>5, <1>7, <1>8, <1>9 DEF Next, Stripe, Browser

\* The rows of Stripe, of the account and of the deliveries keep their types.
THEOREM TypeCorrect == Spec => []TypeOK
<1>1. Init => TypeOK /\ HasRead BY TypeInit DEF Init, HasRead
<1> QED BY <1>1, TypeStep, PTL DEF Spec
-----------------------------------------------------------------------------
(* Every copy of a subscription, however old, was paid for when it was made. *)

\* plans is a set of plans a subscription has been active with.
BackedBy(row, plans) ==
    row.state = "active" /\ row.price \in DOMAIN PlanOf => PlanOf[row.price] \in plans

CopiesBacked ==
    /\ \A s \in Subs : BackedBy(sub[s], paid)
    /\ \A i \in DOMAIN sent : BackedBy(sent[i].snapshot, paid)
    /\ \A d \in Deliveries : BackedBy(fetched[d], paid)

PaidInv == TypeOK /\ HasRead /\ CopiesBacked /\ EntitledWasPaid

\* What never was active is backed by nothing.
LEMMA NoSubBacked == ASSUME NEW plans PROVE BackedBy(NoSub, plans)
BY DEF BackedBy, NoSub

LEMMA PaidInit == Init => PaidInv
<1> SUFFICES ASSUME Init PROVE PaidInv OBVIOUS
<1>1. CopiesBacked
  <2>1. sub = [s \in Subs |-> NoSub] /\ fetched = [d \in Deliveries |-> NoSub] BY DEF Init
  <2>2. sent = <<>> BY DEF Init
  <2> QED BY <2>1, <2>2, NoSubBacked DEF CopiesBacked
<1>2. EntitledWasPaid
  <2>1. account = NewAccount BY DEF Init
  <2> QED BY <2>1 DEF NewAccount, EntitledWasPaid
<1>3. HasRead
  <2>1. pc = [d \in Deliveries |-> "idle"] BY DEF Init
  <2> QED BY <2>1 DEF HasRead
<1> QED BY <1>1, <1>2, <1>3, TypeInit DEF PaidInv

\* Stripe counts the plan of a subscription that becomes active before it sends it.
LEMMA EmitBacked ==
    ASSUME PaidInv, NEW s \in Subs, NEW kind, NEW new, Emit(kind, s, new)
    PROVE  CopiesBacked' /\ EntitledWasPaid'
<1>1. paid \subseteq paid' /\ BackedBy(new, paid')
  BY DEF Emit, BackedBy
<1>2. ASSUME NEW row, BackedBy(row, paid) PROVE BackedBy(row, paid')
  BY <1>1, <1>2 DEF BackedBy
<1>3. \A t \in Subs : sub'[t] \in {new, sub[t]}
  BY DEF Emit, PaidInv, TypeOK
<1>4. \A i \in DOMAIN sent' : sent'[i].snapshot = new \/ (i \in DOMAIN sent /\ sent'[i] = sent[i])
  <2> DEFINE row == [kind |-> kind, sub |-> s, snapshot |-> new]
  <2>1. sent' = Append(sent, row) /\ sent \in Seq(EventRows) BY DEF Emit, PaidInv, TypeOK
  <2>2. row.snapshot = new OBVIOUS
  <2> HIDE DEF row
  <2> QED BY <2>1, <2>2
<1>5. UNCHANGED <<account, fetched>> BY DEF Emit, web
<1>6. CopiesBacked'
  BY <1>1, <1>2, <1>3, <1>4, <1>5 DEF CopiesBacked, PaidInv
<1>7. EntitledWasPaid'
  BY <1>1, <1>5 DEF EntitledWasPaid, PaidInv
<1> QED BY <1>6, <1>7

\* A write that makes the account active takes plan and price from the same copy.
LEMMA WrittenPaid ==
    ASSUME PaidInv, NEW d \in Deliveries, pc[d] # "idle", account' = Written(d), paid' = paid
    PROVE  EntitledWasPaid'
<1> DEFINE e == event[d]  s == Sent(e).sub
           x == IF Sent(e).kind = "completed" THEN fetched[d] ELSE Sent(e).snapshot
<1>1. BackedBy(x, paid)
  BY DEF PaidInv, CopiesBacked, TypeOK, Sent
<1>2. CASE account' = Patch(s, x, seen[d])
  <2> HIDE DEF s, x
  <2>1. /\ account'.status = StatusFromStripe(x.state) /\ account'.price = x.price
        /\ account'.price \in DOMAIN PlanOf => account'.plan = PlanOf[x.price]
    BY <1>2 DEF Patch
  <2>2. account'.status = "active" => x.state = "active"
    BY <2>1 DEF StatusFromStripe
  <2> QED BY <1>1, <2>1, <2>2 DEF EntitledWasPaid, BackedBy
<1>3. CASE account' = Ended
  <2>1. account \in AccountRows BY DEF PaidInv, TypeOK
  <2>2. account'.status = "inactive" BY <1>3, <2>1 DEF Ended, AccountRows
  <2> QED BY <2>2 DEF EntitledWasPaid
<1>4. CASE account' = account
  BY <1>4 DEF PaidInv, EntitledWasPaid
<1>5. account' \in {Patch(s, x, seen[d]), Ended, account} BY DEF Written
<1> QED BY <1>2, <1>3, <1>4, <1>5

\* Forgetting the customer keeps plan, price and status.
LEMMA ForgetPaid ==
    ASSUME PaidInv, NEW c, ForgetMissing(c) \/ UNCHANGED account, paid' = paid
    PROVE  EntitledWasPaid'
<1>1. account \in AccountRows BY DEF PaidInv, TypeOK
<1>2. /\ account'.plan = account.plan /\ account'.status = account.status
      /\ account'.price = account.price
  BY <1>1 DEF ForgetMissing, AccountRows
<1> QED BY <1>2 DEF PaidInv, EntitledWasPaid
LEMMA PaidStep == PaidInv /\ [Next]_vars => PaidInv'
<1> SUFFICES ASSUME PaidInv, [Next]_vars PROVE CopiesBacked' /\ EntitledWasPaid'
  BY TypeStep DEF PaidInv
<1>1. CASE UNCHANGED vars
  BY <1>1 DEF vars, stripe, web, history, PaidInv, CopiesBacked, EntitledWasPaid
<1>2. ASSUME NEW s \in Subs, NEW kind, NEW new, Emit(kind, s, new)
      PROVE  CopiesBacked' /\ EntitledWasPaid'
  BY <1>2, EmitBacked
<1>3. CASE Stripe
  <2>1. CASE \E c \in Customers : DeleteCustomer(c)
    BY <2>1 DEF DeleteCustomer, web, history, PaidInv, CopiesBacked, EntitledWasPaid
  <2> QED BY <1>2, <1>3, <2>1 DEF Stripe, Complete, Change, Cancel
<1>4. ASSUME NEW k \in Routes, ReadCustomer(k) \/ CloseVisit(k)
      PROVE  CopiesBacked' /\ EntitledWasPaid'
  <2>1. UNCHANGED <<sub, sent, fetched, paid>>
    BY <1>4 DEF ReadCustomer, CloseVisit, stripe, history
  <2>2. ForgetMissing(visit[k]) \/ UNCHANGED account
    BY <1>4 DEF ReadCustomer, CloseVisit
  <2> QED BY <2>1, <2>2, ForgetPaid DEF PaidInv, CopiesBacked
<1>5. ASSUME NEW s \in Subs, OpenCheckout(s) PROVE CopiesBacked' /\ EntitledWasPaid'
  <2>1. \A t \in Subs : sub'[t].state = "open" \/ sub'[t] = sub[t]
    BY <1>5 DEF OpenCheckout, PaidInv, TypeOK
  <2>2. UNCHANGED <<sent, fetched, paid>> /\ ForgetMissing(visit["checkout"])
    BY <1>5 DEF OpenCheckout, history
  <2> QED BY <2>1, <2>2, ForgetPaid DEF PaidInv, CopiesBacked, BackedBy
<1>6. ASSUME NEW d \in Deliveries, Webhook(d) PROVE CopiesBacked' /\ EntitledWasPaid'
  <2>1. UNCHANGED <<sub, sent, paid>>
    BY <1>6 DEF Webhook, Deliver, Retrieve, Claim, Duplicate, Read, Commit, Abort, stripe, history
  <2>2. \A other \in Deliveries : BackedBy(fetched'[other], paid)
    <3>1. CASE Retrieve(d)
      <4>1. sent[event[d]] \in EventRows
        BY <3>1 DEF Retrieve, PaidInv, TypeOK
      <4>2. Sent(event[d]).sub \in Subs
        BY <4>1 DEF EventRows, Sent
      <4>3. \A other \in Deliveries :
                fetched'[other] \in {fetched[other], sub[Sent(event[d]).sub]}
        BY <3>1 DEF Retrieve, PaidInv, TypeOK
      <4> QED BY <4>2, <4>3 DEF PaidInv, CopiesBacked
    <3>2. CASE Duplicate(d) \/ Commit(d) \/ Abort(d)
      <4>1. \A other \in Deliveries : fetched'[other] \in {fetched[other], NoSub}
        BY <3>2 DEF Duplicate, Commit, Abort, Release, PaidInv, TypeOK
      <4> QED BY <4>1, NoSubBacked DEF PaidInv, CopiesBacked
    <3>3. CASE (\E e \in Events : Deliver(d, e)) \/ Claim(d) \/ Read(d)
      BY <3>3 DEF Deliver, Claim, Read, PaidInv, CopiesBacked
    <3> QED BY <1>6, <3>1, <3>2, <3>3 DEF Webhook
  <2>3. CopiesBacked' BY <2>1, <2>2 DEF PaidInv, CopiesBacked
  <2>4. CASE Commit(d)
    BY <2>1, <2>3, <2>4, WrittenPaid DEF Commit
  <2>5. CASE ~Commit(d)
    <3>1. UNCHANGED account
      BY <1>6, <2>5 DEF Webhook, Deliver, Retrieve, Claim, Duplicate, Read, Abort
    <3> QED BY <2>1, <2>3, <3>1 DEF PaidInv, EntitledWasPaid
  <2> QED BY <2>4, <2>5
<1> QED BY <1>1, <1>3, <1>4, <1>5, <1>6 DEF Next, Browser

\* In whatever order events arrive and repeat, an active account with a configured
\* price has a plan some subscription was active with (subscriptionPatchFromStripe
\* takes plan, price and status from one copy of the subscription).
THEOREM EntitledSafe == Spec => []EntitledWasPaid
<1>1. PaidInv => EntitledWasPaid BY DEF PaidInv
<1> QED BY PaidInit, PaidStep, <1>1, PTL DEF Spec
-----------------------------------------------------------------------------
(* While events come in order, the account shows what Stripe has. *)

Bought == {"active", "unpaid", "canceled"}

\* No later event tells of the same subscription.
Newest(e) == \A f \in DOMAIN sent : sent[f].sub = sent[e].sub => f <= e

SubOf(e) == sub[sent[e].sub]

\* Who has bought is known.
Buyers == \A s \in Subs : sub[s].state \in Bought => sub[s].customer \in Customers

\* What Stripe has sent agrees with the subscriptions as they are by now ...
SentRight ==
    \A e \in DOMAIN sent :
        /\ SubOf(e).customer \in Customers
        /\ SubOf(e).customer = sent[e].snapshot.customer
        /\ SubOf(e).state \in Bought /\ sent[e].snapshot.state \in Bought
        /\ sent[e].kind = "deleted" <=> sent[e].snapshot.state = "canceled"
        /\ Newest(e) => SubOf(e) = sent[e].snapshot

\* ... and so does what a delivery has retrieved.
FetchedRight ==
    \A d \in Deliveries :
        pc[d] \in {"claim", "read", "write"} /\ sent[event[d]].kind = "completed" =>
            /\ fetched[d].customer = SubOf(event[d]).customer
            /\ Newest(event[d]) => fetched[d] = SubOf(event[d])

\* One delivery at a time, and each event after all before it.
OneByOne ==
    order = "in order" =>
        /\ \A d, other \in Deliveries : pc[d] # "idle" /\ pc[other] # "idle" => d = other
        /\ \A d \in Deliveries : pc[d] # "idle" => 1 .. event[d] - 1 \subseteq processed
        /\ \A e \in processed : 1 .. e - 1 \subseteq processed

\* An account that was not found is still not the one.
FoundRight ==
    order = "in order" =>
        \A d \in Deliveries : pc[d] = "write" /\ seen[d] = NotFound =>
            /\ sent[event[d]].kind # "completed"
            /\ account.customer # SubOf(event[d]).customer

\* The newest event about the account's customer is shown as soon as it is processed.
ShownRight ==
    order = "in order" =>
        \A e \in processed :
            e \in AboutAccount /\ (\A f \in AboutAccount : f <= e) => Shows(sent[e].sub)

FollowInv ==
    /\ TypeOK /\ HasRead /\ OnceInv
    /\ Buyers /\ SentRight /\ FetchedRight
    /\ OneByOne /\ FoundRight /\ ShownRight

LEMMA FollowInit == Init => FollowInv
<1> SUFFICES ASSUME Init PROVE FollowInv OBVIOUS
<1>1. DOMAIN sent = {} /\ processed = {}
  <2>1. sent = <<>> /\ processed = {} BY DEF Init
  <2> QED BY <2>1
<1>2. \A d \in Deliveries : pc[d] = "idle" BY DEF Init
<1>3. HasRead BY <1>2 DEF HasRead
<1>4. SentRight BY <1>1 DEF SentRight
<1>5. FetchedRight BY <1>2 DEF FetchedRight
<1>6. OneByOne /\ FoundRight /\ ShownRight
  BY <1>1, <1>2 DEF OneByOne, FoundRight, ShownRight
<1>7. Buyers
  <2>1. \A s \in Subs : sub[s].state = "none" BY DEF Init, NoSub
  <2> QED BY <2>1 DEF Buyers, Bought
<1> QED BY <1>3, <1>4, <1>5, <1>6, <1>7, TypeInit, OnceInit DEF FollowInv

\* An event is one of those Stripe has sent about a subscription it knows.
LEMMA SentTyped ==
    ASSUME FollowInv
    PROVE  /\ DOMAIN sent \subseteq Nat \ {0}
           /\ \A e \in DOMAIN sent : sent[e] \in EventRows /\ sent[e].sub \in Subs
           /\ \A d \in Deliveries : pc[d] # "idle" => event[d] \in DOMAIN sent
           /\ processed \subseteq DOMAIN sent
           /\ account \in AccountRows
<1>1. TypeOK BY DEF FollowInv
<1>2. sent \in Seq(EventRows) /\ DOMAIN sent = 1 .. Len(sent) /\ Len(sent) \in Nat
  BY <1>1 DEF TypeOK
<1>3. \A e \in DOMAIN sent : sent[e] \in EventRows BY <1>2
<1>4. \A row \in EventRows : row.sub \in Subs BY DEF EventRows
<1>5. \A d \in Deliveries : pc[d] # "idle" => event[d] \in 0 .. Len(sent) /\ event[d] # 0
  BY <1>1 DEF TypeOK
<1>6. processed \subseteq DOMAIN sent /\ account \in AccountRows BY <1>1 DEF TypeOK
<1> QED BY <1>2, <1>3, <1>4, <1>5, <1>6

\* A change at Stripe is newer than what the account shows, or is not about it.
LEMMA FollowEmit ==
    ASSUME FollowInv, NEW s \in Subs, NEW kind, NEW new,
           Emit(kind, s, new), new.state \in Bought, new.customer \in Customers,
           kind = "deleted" <=> new.state = "canceled",
           sub[s].state \in Bought => sub[s].customer = new.customer
    PROVE  Buyers' /\ SentRight' /\ FetchedRight' /\ OneByOne' /\ FoundRight' /\ ShownRight'
<1> PICK n \in Nat : n = Len(sent) + 1
  BY DEF FollowInv, TypeOK
<1> DEFINE row == [kind |-> kind, sub |-> s, snapshot |-> new]
<1>1. /\ n \notin DOMAIN sent /\ \A e \in DOMAIN sent : ~(n <= e)
      /\ DOMAIN sent' = DOMAIN sent \cup {n}
      /\ sent'[n] = row
      /\ \A e \in DOMAIN sent : sent'[e] = sent[e]
  <2>1. sent' = Append(sent, row) /\ sent \in Seq(EventRows)
    BY DEF Emit, FollowInv, TypeOK
  <2> HIDE DEF row
  <2> QED BY <2>1
<1>2. row.kind = kind /\ row.sub = s /\ row.snapshot = new OBVIOUS
<1>3. /\ \A t \in Subs : sub'[t] = IF t = s THEN new ELSE sub[t]
      /\ UNCHANGED <<account, processed, pc, event, fetched, seen, order>>
  BY DEF Emit, web, FollowInv, TypeOK
<1> HIDE DEF row
<1>4. \A e \in DOMAIN sent : sent[e].sub \in Subs /\ SubOf(e).customer \in Customers
                             /\ SubOf(e).state \in Bought
  BY SentTyped DEF FollowInv, SentRight
<1>5. \A e \in DOMAIN sent :
          /\ SubOf(e)' = IF sent[e].sub = s THEN new ELSE SubOf(e)
          /\ SubOf(e)'.customer = SubOf(e).customer
          /\ Newest(e)' => Newest(e) /\ sent[e].sub # s
  <2> SUFFICES ASSUME NEW e \in DOMAIN sent
               PROVE  /\ SubOf(e)' = IF sent[e].sub = s THEN new ELSE SubOf(e)
                      /\ SubOf(e)'.customer = SubOf(e).customer
                      /\ Newest(e)' => Newest(e) /\ sent[e].sub # s
    OBVIOUS
  <2>1. SubOf(e)' = IF sent[e].sub = s THEN new ELSE SubOf(e)
    BY <1>1, <1>3, <1>4 DEF SubOf
  <2>2. SubOf(e)'.customer = SubOf(e).customer
    BY <2>1, <1>4 DEF SubOf
  <2>3. Newest(e)' => Newest(e)
    BY <1>1 DEF Newest
  <2>4. ASSUME Newest(e)' PROVE sent[e].sub # s
    <3>1. sent[e].sub = s => n <= e BY <1>1, <1>2, <2>4 DEF Newest
    <3> QED BY <1>1, <3>1
  <2> QED BY <2>1, <2>2, <2>3, <2>4
<1>6. SubOf(n)' = new BY <1>1, <1>2, <1>3 DEF SubOf
<1>7. SentRight'
  <2> SUFFICES ASSUME NEW e \in DOMAIN sent'
               PROVE  /\ SubOf(e)'.customer \in Customers
                      /\ SubOf(e)'.customer = sent'[e].snapshot.customer
                      /\ SubOf(e)'.state \in Bought /\ sent'[e].snapshot.state \in Bought
                      /\ sent'[e].kind = "deleted" <=> sent'[e].snapshot.state = "canceled"
                      /\ Newest(e)' => SubOf(e)' = sent'[e].snapshot
    BY DEF SentRight
  <2>1. CASE e = n BY <2>1, <1>1, <1>2, <1>6
  <2>2. CASE e \in DOMAIN sent
    BY <2>2, <1>1, <1>4, <1>5 DEF FollowInv, SentRight
  <2> QED BY <1>1, <2>1, <2>2
<1>8. \A d \in Deliveries : pc[d] # "idle" => event[d] \in DOMAIN sent BY SentTyped
<1>9. FetchedRight'
  <2> SUFFICES ASSUME NEW d \in Deliveries, pc[d] \in {"claim", "read", "write"},
                      sent'[event[d]].kind = "completed"
               PROVE  /\ fetched[d].customer = SubOf(event[d])'.customer
                      /\ Newest(event[d])' => fetched[d] = SubOf(event[d])'
    BY <1>3 DEF FetchedRight, SubOf, Newest
  <2>1. PICK e \in DOMAIN sent : e = event[d] /\ e = event'[d] BY <1>8, <1>3
  <2>2. sent[e].kind = "completed" BY <2>1, <1>1
  <2>3. fetched[d].customer = SubOf(e).customer /\ (Newest(e) => fetched[d] = SubOf(e))
    BY <2>1, <2>2 DEF FollowInv, FetchedRight
  <2>4. fetched[d].customer = SubOf(e)'.customer /\ (Newest(e)' => fetched[d] = SubOf(e)')
    BY <2>3, <1>5
  <2> QED BY <2>1, <2>4 DEF SubOf, Newest
<1>10. OneByOne' BY <1>3 DEF FollowInv, OneByOne
<1>11. FoundRight'
  <2> SUFFICES ASSUME order = "in order", NEW d \in Deliveries,
                      pc[d] = "write", seen[d] = NotFound
               PROVE  /\ sent'[event[d]].kind # "completed"
                      /\ account.customer # SubOf(event[d])'.customer
    BY <1>3 DEF FoundRight, SubOf
  <2>1. PICK e \in DOMAIN sent : e = event[d] /\ e = event'[d] BY <1>8, <1>3
  <2>2. sent[e].kind # "completed" /\ account.customer # SubOf(e).customer
    BY <2>1 DEF FollowInv, FoundRight
  <2>3. sent'[e].kind # "completed" /\ account.customer # SubOf(e)'.customer
    BY <2>2, <1>1, <1>5
  <2> QED BY <2>1, <2>3 DEF SubOf
<1>12. ShownRight'
  <2> SUFFICES ASSUME order = "in order", NEW e \in processed, e \in AboutAccount',
                      \A f \in AboutAccount' : f <= e
               PROVE  Shows(sent[e].sub)'
    BY <1>3 DEF ShownRight
  <2>1. e \in DOMAIN sent BY SentTyped
  <2> PICK t \in Subs : t = sent[e].sub BY <2>1, <1>4
  <2>2. AboutAccount' = {f \in DOMAIN sent' : SubOf(f)'.customer = account.customer}
    BY <1>3 DEF AboutAccount, Customer, Sent, SubOf
  <2>3. AboutAccount = {f \in DOMAIN sent : SubOf(f).customer = account.customer}
    BY DEF AboutAccount, Customer, Sent, SubOf
  <2>4. AboutAccount \subseteq AboutAccount' /\ e \in AboutAccount
    BY <2>1, <2>2, <2>3, <1>1, <1>5
  <2>5. t # s
    <3>1. ASSUME t = s PROVE FALSE
      <4>1. SubOf(e)' = new BY <2>1, <3>1, <1>5
      <4>2. n \in AboutAccount'
        <5>1. SubOf(e)'.customer = account.customer BY <2>2
        <5> QED BY <4>1, <5>1, <1>1, <1>6, <2>2
      <4>3. n <= e BY <4>2
      <4>4. ~(n <= e) BY <2>1, <1>1
      <4> QED BY <4>3, <4>4
    <3> QED BY <3>1
  <2>6. Shows(t) BY <2>4 DEF FollowInv, ShownRight
  <2>7. sub'[t] = sub[t] /\ t = sent'[e].sub BY <2>1, <2>5, <1>1, <1>3
  <2>8. Shows(t)' BY <2>6, <2>7, <1>3 DEF Shows, Live
  <2> QED BY <2>7, <2>8
<1>13. Buyers' BY <1>3 DEF FollowInv, Buyers
<1> QED BY <1>7, <1>9, <1>10, <1>11, <1>12, <1>13

\* A step that changes nothing Stripe has told of.
LEMMA FollowSent ==
    ASSUME FollowInv, UNCHANGED sent,
           \A e \in DOMAIN sent : sub'[sent[e].sub] = sub[sent[e].sub]
    PROVE  /\ SentRight'
           /\ \A e \in DOMAIN sent : SubOf(e)' = SubOf(e) /\ (Newest(e)' <=> Newest(e))
<1>1. \A e \in DOMAIN sent : SubOf(e)' = SubOf(e) /\ (Newest(e)' <=> Newest(e))
  BY DEF SubOf, Newest
<1>2. SentRight BY DEF FollowInv
<1> QED BY <1>1, <1>2 DEF SentRight

\* The account forgets its customer, or not: no event is about nobody.
LEMMA FollowForget ==
    ASSUME FollowInv, UNCHANGED <<sent, processed, pc, event, fetched, seen, order>>,
           \A e \in DOMAIN sent : sub'[sent[e].sub] = sub[sent[e].sub],
           account' \in {account, [account EXCEPT !.customer = Nobody]}
    PROVE  SentRight' /\ FetchedRight' /\ OneByOne' /\ FoundRight' /\ ShownRight'
<1>1. /\ SentRight'
      /\ \A e \in DOMAIN sent : SubOf(e)' = SubOf(e) /\ (Newest(e)' <=> Newest(e))
  BY FollowSent
<1>2. \A d \in Deliveries : pc[d] # "idle" => event[d] \in DOMAIN sent BY SentTyped
<1>3. account' = account \/ account'.customer = Nobody
  <2>1. account \in AccountRows BY SentTyped
  <2> QED BY <2>1 DEF AccountRows
<1>4. \A e \in DOMAIN sent : SubOf(e).customer # Nobody
  <2>1. SentRight BY DEF FollowInv
  <2> QED BY <2>1, BillingAssumption DEF BillingAssumption, SentRight
<1>5. FetchedRight'
  <2> SUFFICES ASSUME NEW d \in Deliveries, pc[d] \in {"claim", "read", "write"},
                      sent[event[d]].kind = "completed"
               PROVE  /\ fetched[d].customer = SubOf(event[d])'.customer
                      /\ Newest(event[d])' => fetched[d] = SubOf(event[d])'
    BY DEF FetchedRight, SubOf, Newest
  <2>1. PICK e \in DOMAIN sent : e = event[d] /\ e = event'[d] BY <1>2
  <2>2. fetched[d].customer = SubOf(e).customer /\ (Newest(e) => fetched[d] = SubOf(e))
    BY <2>1 DEF FollowInv, FetchedRight
  <2>3. fetched[d].customer = SubOf(e)'.customer /\ (Newest(e)' => fetched[d] = SubOf(e)')
    BY <2>2, <1>1
  <2> QED BY <2>1, <2>3 DEF SubOf, Newest
<1>6. OneByOne' BY DEF FollowInv, OneByOne
<1>7. FoundRight'
  <2> SUFFICES ASSUME order = "in order", NEW d \in Deliveries,
                      pc[d] = "write", seen[d] = NotFound
               PROVE  /\ sent[event[d]].kind # "completed"
                      /\ account'.customer # SubOf(event[d])'.customer
    BY DEF FoundRight, SubOf
  <2>1. PICK e \in DOMAIN sent : e = event[d] /\ e = event'[d] BY <1>2
  <2>2. sent[e].kind # "completed" /\ account.customer # SubOf(e).customer
    BY <2>1 DEF FollowInv, FoundRight
  <2>3. account'.customer # SubOf(e)'.customer BY <2>2, <1>1, <1>3, <1>4
  <2> QED BY <2>1, <2>2, <2>3 DEF SubOf
<1>8. ShownRight'
  <2>1. AboutAccount' = {f \in DOMAIN sent : SubOf(f)'.customer = account'.customer}
    BY DEF AboutAccount, Customer, Sent, SubOf
  <2>2. CASE account'.customer = Nobody
    <3>1. AboutAccount' = {} BY <2>1, <2>2, <1>1, <1>4
    <3> QED BY <3>1 DEF ShownRight
  <2>3. CASE account' = account
    <3> SUFFICES ASSUME order = "in order", NEW e \in processed, e \in AboutAccount',
                        \A f \in AboutAccount' : f <= e
                 PROVE  Shows(sent[e].sub)'
      BY DEF ShownRight
    <3>1. AboutAccount' = AboutAccount
      BY <2>1, <2>3, <1>1 DEF AboutAccount, Customer, Sent, SubOf
    <3>2. e \in DOMAIN sent /\ sent[e].sub \in Subs BY SentTyped
    <3> PICK t \in Subs : t = sent[e].sub BY <3>2
    <3>3. Shows(t) BY <3>1 DEF FollowInv, ShownRight
    <3>4. sub'[t] = sub[t] /\ t = sent'[e].sub BY <3>2
    <3>5. Shows(t)' BY <3>3, <3>4, <2>3 DEF Shows, Live
    <3> QED BY <3>4, <3>5
  <2> QED BY <1>3, <2>2, <2>3
<1> QED BY <1>1, <1>5, <1>6, <1>7, <1>8

\* A delivery goes on, or ends without a write.
LEMMA FollowAdvance ==
    ASSUME FollowInv, NEW d \in Deliveries, pc[d] # "idle",
           UNCHANGED <<sub, sent, account, processed, order>>,
           \A other \in Deliveries \ {d} :
               /\ pc'[other] = pc[other] /\ event'[other] = event[other]
               /\ fetched'[other] = fetched[other] /\ seen'[other] = seen[other],
           pc'[d] # "idle" => event'[d] = event[d],
           pc'[d] \in {"claim", "read", "write"} =>
               \/ fetched'[d] = SubOf(event[d])
               \/ pc[d] \in {"claim", "read", "write"} /\ fetched'[d] = fetched[d],
           pc'[d] = "write" /\ seen'[d] = NotFound => ~Found(event[d])
    PROVE  SentRight' /\ FetchedRight' /\ OneByOne' /\ FoundRight' /\ ShownRight'
<1>1. /\ SentRight'
      /\ \A e \in DOMAIN sent : SubOf(e)' = SubOf(e) /\ (Newest(e)' <=> Newest(e))
  BY FollowSent
<1>2. \A o \in Deliveries : pc'[o] # "idle" => pc[o] # "idle" /\ event'[o] = event[o]
  OBVIOUS
<1>3. \A o \in Deliveries : pc[o] # "idle" => event[o] \in DOMAIN sent BY SentTyped
<1>4. FetchedRight'
  <2> SUFFICES ASSUME NEW o \in Deliveries, pc'[o] \in {"claim", "read", "write"},
                      sent[event'[o]].kind = "completed"
               PROVE  /\ fetched'[o].customer = SubOf(event[o])'.customer
                      /\ Newest(event[o])' => fetched'[o] = SubOf(event[o])'
    BY DEF FetchedRight
  <2>1. PICK e \in DOMAIN sent : e = event[o] /\ e = event'[o] BY <1>2, <1>3
  <2>2. \/ fetched'[o] = SubOf(e)
        \/ pc[o] \in {"claim", "read", "write"} /\ fetched'[o] = fetched[o]
    BY <2>1
  <2>3. fetched'[o].customer = SubOf(e).customer /\ (Newest(e) => fetched'[o] = SubOf(e))
    BY <2>1, <2>2 DEF FollowInv, FetchedRight
  <2>4. fetched'[o].customer = SubOf(e)'.customer /\ (Newest(e)' => fetched'[o] = SubOf(e)')
    BY <2>3, <1>1
  <2> QED BY <2>1, <2>4 DEF SubOf, Newest
<1>5. OneByOne' BY <1>2 DEF FollowInv, OneByOne
<1>6. FoundRight'
  <2> SUFFICES ASSUME order = "in order", NEW o \in Deliveries,
                      pc'[o] = "write", seen'[o] = NotFound
               PROVE  /\ sent[event'[o]].kind # "completed"
                      /\ account.customer # SubOf(event[o])'.customer
    BY DEF FoundRight, SubOf
  <2>1. PICK e \in DOMAIN sent : e = event[o] /\ e = event'[o] BY <1>2, <1>3
  <2>2. sent[e].kind # "completed" /\ account.customer # SubOf(e).customer
    <3>1. CASE o = d BY <3>1, <2>1 DEF Found, Sent, Customer, SubOf
    <3>2. CASE o # d BY <3>2, <2>1 DEF FollowInv, FoundRight
    <3> QED BY <3>1, <3>2
  <2> QED BY <2>1, <2>2, <1>1 DEF SubOf
<1>7. ShownRight'
  <2>1. AboutAccount' = AboutAccount /\ \A t : Shows(t)' <=> Shows(t)
    BY DEF AboutAccount, Customer, Sent, Shows, Live
  <2> QED BY <2>1 DEF FollowInv, ShownRight
<1> QED BY <1>1, <1>4, <1>5, <1>6, <1>7

\* Deliveries that come in order come one at a time.
LEMMA FollowDeliver ==
    ASSUME FollowInv, NEW d \in Deliveries, NEW e \in Events, Deliver(d, e)
    PROVE  SentRight' /\ FetchedRight' /\ OneByOne' /\ FoundRight' /\ ShownRight'
<1>1. /\ SentRight'
      /\ \A f \in DOMAIN sent : SubOf(f)' = SubOf(f) /\ (Newest(f)' <=> Newest(f))
  BY FollowSent DEF Deliver, stripe
<1>2. UNCHANGED <<sub, sent, account, processed, fetched, seen>> BY DEF Deliver, stripe
<1>3. /\ event'[d] = e
      /\ pc'[d] = IF sent[e].kind = "completed" THEN "retrieve" ELSE "claim"
      /\ \A o \in Deliveries \ {d} : pc'[o] = pc[o] /\ event'[o] = event[o]
  BY DEF Deliver, Goto, Sent, FollowInv, TypeOK
<1>4. order' = "in order" => /\ order = "in order" /\ 1 .. e - 1 \subseteq processed
                             /\ \A o \in Deliveries : pc[o] = "idle"
  BY DEF Deliver, Arrival
<1>5. FetchedRight'
  <2> SUFFICES ASSUME NEW o \in Deliveries, pc'[o] \in {"claim", "read", "write"},
                      sent[event'[o]].kind = "completed"
               PROVE  /\ fetched[o].customer = SubOf(event[o])'.customer
                      /\ Newest(event[o])' => fetched[o] = SubOf(event[o])'
    BY <1>2 DEF FetchedRight
  <2>1. o # d BY <1>3
  <2>2. event[o] \in DOMAIN sent BY <2>1, <1>3, SentTyped
  <2>3. PICK f \in DOMAIN sent : f = event[o] /\ f = event'[o] BY <2>1, <2>2, <1>3
  <2>4. fetched[o].customer = SubOf(f).customer /\ (Newest(f) => fetched[o] = SubOf(f))
    BY <2>1, <2>3, <1>3 DEF FollowInv, FetchedRight
  <2>5. fetched[o].customer = SubOf(f)'.customer /\ (Newest(f)' => fetched[o] = SubOf(f)')
    BY <2>4, <1>1
  <2> QED BY <2>3, <2>5 DEF SubOf, Newest
<1>6. OneByOne' BY <1>2, <1>3, <1>4 DEF FollowInv, OneByOne
<1>7. FoundRight' BY <1>2, <1>3, <1>4 DEF FoundRight
<1>8. ShownRight'
  <2>1. AboutAccount' = AboutAccount /\ \A t : Shows(t)' <=> Shows(t)
    BY <1>2 DEF AboutAccount, Customer, Sent, Shows, Live
  <2> QED BY <1>2, <1>4, <2>1 DEF FollowInv, ShownRight
<1> QED BY <1>1, <1>5, <1>6, <1>7, <1>8

\* A patch with the subscription as it is shows it.
LEMMA PatchShows ==
    ASSUME NEW s, NEW row, NEW prior, account' = Patch(s, row, prior), row = sub'[s],
           Live(s)'
    PROVE  Shows(s)'
<1> DEFINE status == StatusFromStripe(row.state)
<1>1. account' =
        [plan |-> IF row.price \in DOMAIN PlanOf THEN PlanOf[row.price] ELSE prior,
         status |-> status, customer |-> row.customer, sub |-> s, price |-> row.price]
  BY DEF Patch
<1> HIDE DEF status
<1>2. account'.status = status BY <1>1
<1>3. account'.sub = s /\ account'.price = row.price BY <1>1
<1>4. row.price \in DOMAIN PlanOf => account'.plan = PlanOf[row.price] BY <1>1
<1>5. status = "active" <=> row.state = "active" BY DEF status, StatusFromStripe
<1> QED BY <1>2, <1>3, <1>4, <1>5 DEF Shows

\* What is written for the newest event about a customer shows its subscription.
LEMMA WrittenShows ==
    ASSUME FollowInv, NEW d \in Deliveries, pc[d] = "write", order = "in order",
           account' = Written(d), NEW e \in DOMAIN sent, e = event[d],
           NEW s \in Subs, s = sent[e].sub, Newest(e), SubOf(e).customer = account'.customer,
           UNCHANGED sub
    PROVE  Shows(s)'
<1>1. /\ SubOf(e) = sub[s] /\ sub[s] = sent[e].snapshot /\ sub[s].state \in Bought
      /\ sent[e].kind = "deleted" <=> sub[s].state = "canceled"
  BY DEF FollowInv, SentRight, SubOf
<1>2. CASE sent[e].kind = "deleted"
  <2>1. account' = IF account.customer = sub[s].customer THEN Ended ELSE account
    BY <1>2 DEF Written, Customer, Sent
  <2>2. account' = Ended BY <2>1, <1>1
  <2>3. account \in AccountRows BY SentTyped
  <2>4. account'.status = "inactive" /\ account'.plan = "starter" /\ account'.sub = Nobody
    BY <2>2, <2>3 DEF Ended, AccountRows
  <2>5. ~Live(s)' BY <1>1, <1>2 DEF Live
  <2> QED BY <2>4, <2>5 DEF Shows
<1>3. CASE sent[e].kind # "deleted"
  <2> DEFINE x == IF sent[e].kind = "completed" THEN fetched[d] ELSE sent[e].snapshot
  <2>1. account' = IF seen[d] = NotFound THEN account ELSE Patch(s, x, seen[d])
    BY <1>3 DEF Written, Sent
  <2>2. seen[d] # NotFound
    <3>1. seen[d] = NotFound => account.customer # SubOf(e).customer
      BY DEF FollowInv, FoundRight
    <3> QED BY <2>1, <3>1
  <2>3. x = sub[s]
    <3>1. sent[e].kind = "completed" => fetched[d] = SubOf(e)
      BY DEF FollowInv, FetchedRight
    <3> QED BY <1>1, <3>1
  <2> HIDE DEF x
  <2>4. account' = Patch(s, sub[s], seen[d]) BY <2>1, <2>2, <2>3
  <2>5. Live(s)' BY <1>1, <1>3 DEF Live, Bought
  <2> PICK row : row = sub[s] OBVIOUS
  <2> PICK prior : prior = seen[d] OBVIOUS
  <2>6. account' = Patch(s, row, prior) BY <2>4
  <2> QED BY <2>5, <2>6, PatchShows
<1> QED BY <1>2, <1>3

\* A write keeps or takes a customer: of its own event, if it changes anything.
LEMMA WrittenAbout ==
    ASSUME FollowInv, NEW d \in Deliveries, pc[d] = "write", account' = Written(d),
           NEW e \in DOMAIN sent, e = event[d]
    PROVE  account' = account \/ account'.customer = SubOf(e).customer
<1>1. account \in AccountRows BY SentTyped
<1>2. account'.customer = account.customer \/ account' # Ended
  BY <1>1 DEF Ended, AccountRows
<1>3. CASE sent[e].kind = "deleted"
  <2>1. account' = IF account.customer = SubOf(e).customer THEN Ended ELSE account
    BY <1>3 DEF Written, Customer, Sent, SubOf
  <2> QED BY <2>1, <1>2
<1>4. CASE sent[e].kind = "completed"
  <2>1. fetched[d].customer = SubOf(e).customer
    BY <1>4 DEF FollowInv, FetchedRight
  <2>2. account' = account \/ account' = Patch(sent[e].sub, fetched[d], seen[d])
    BY <1>4 DEF Written, Sent
  <2> QED BY <2>1, <2>2 DEF Patch
<1>5. CASE sent[e].kind \notin {"deleted", "completed"}
  <2>1. sent[e].snapshot.customer = SubOf(e).customer BY DEF FollowInv, SentRight
  <2>2. account' = account \/ account' = Patch(sent[e].sub, sent[e].snapshot, seen[d])
    BY <1>5 DEF Written, Sent
  <2> QED BY <2>1, <2>2 DEF Patch
<1> QED BY <1>3, <1>4, <1>5

LEMMA FollowCommit ==
    ASSUME FollowInv, NEW d \in Deliveries, Commit(d)
    PROVE  SentRight' /\ FetchedRight' /\ OneByOne' /\ FoundRight' /\ ShownRight'
<1>1. /\ SentRight'
      /\ \A f \in DOMAIN sent : SubOf(f)' = SubOf(f) /\ (Newest(f)' <=> Newest(f))
  BY FollowSent DEF Commit, stripe
<1>2. /\ UNCHANGED <<sub, sent, order>> /\ pc[d] = "write" /\ account' = Written(d)
      /\ processed' = processed \cup {event[d]}
  BY DEF Commit, stripe
<1>3. /\ pc'[d] = "idle"
      /\ \A o \in Deliveries \ {d} :
            /\ pc'[o] = pc[o] /\ event'[o] = event[o]
            /\ fetched'[o] = fetched[o] /\ seen'[o] = seen[o]
  BY DEF Commit, Release, Goto, FollowInv, TypeOK
<1>4. event[d] \in DOMAIN sent /\ DOMAIN sent \subseteq Nat BY <1>2, SentTyped
<1> PICK e \in DOMAIN sent : e = event[d] BY <1>4
<1>10. \A f \in DOMAIN sent : f # e => e \in 1 .. f - 1 \/ ~(e <= f)
  BY SentTyped
<1>5. FetchedRight'
  <2> SUFFICES ASSUME NEW o \in Deliveries, pc'[o] \in {"claim", "read", "write"},
                      sent[event'[o]].kind = "completed"
               PROVE  /\ fetched'[o].customer = SubOf(event[o])'.customer
                      /\ Newest(event[o])' => fetched'[o] = SubOf(event[o])'
    BY <1>2 DEF FetchedRight
  <2>1. o # d BY <1>3
  <2>2. event[o] \in DOMAIN sent BY <2>1, <1>3, SentTyped
  <2>3. PICK f \in DOMAIN sent : f = event[o] /\ f = event'[o] BY <2>1, <2>2, <1>3
  <2>4. fetched[o].customer = SubOf(f).customer /\ (Newest(f) => fetched[o] = SubOf(f))
    BY <2>1, <2>3, <1>3 DEF FollowInv, FetchedRight
  <2>5. fetched'[o].customer = SubOf(f)'.customer /\ (Newest(f)' => fetched'[o] = SubOf(f)')
    BY <2>1, <2>4, <1>1, <1>3
  <2> QED BY <2>3, <2>5 DEF SubOf, Newest
<1>6. order = "in order" => /\ 1 .. e - 1 \subseteq processed
                            /\ \A o \in Deliveries \ {d} : pc[o] = "idle"
                            /\ \A f \in processed : 1 .. f - 1 \subseteq processed
  BY <1>2 DEF FollowInv, OneByOne
<1>7. OneByOne' BY <1>2, <1>3, <1>6 DEF OneByOne
<1>8. FoundRight' BY <1>2, <1>3, <1>6 DEF FoundRight
<1>9. ShownRight'
  <2> SUFFICES ASSUME order = "in order", NEW f \in processed', f \in AboutAccount',
                      \A g \in AboutAccount' : g <= f
               PROVE  Shows(sent[f].sub)'
    BY <1>2 DEF ShownRight
  <2>1. AboutAccount' = {g \in DOMAIN sent : SubOf(g).customer = account'.customer}
    BY <1>1, <1>2 DEF AboutAccount, Customer, Sent, SubOf
  <2>2. f \in DOMAIN sent /\ sent[f].sub \in Subs BY <2>1, SentTyped
  <2> PICK t \in Subs : t = sent[f].sub BY <2>2
  <2>3. Newest(f)
    <3> SUFFICES ASSUME NEW g \in DOMAIN sent, sent[g].sub = sent[f].sub PROVE g <= f
      BY DEF Newest
    <3>1. SubOf(g) = SubOf(f) BY DEF SubOf
    <3> QED BY <2>1, <3>1
  <2>4. Shows(t)'
    <3>1. CASE f = e
      BY <3>1, <2>1, <2>2, <2>3, <1>2, WrittenShows
    <3>2. CASE f # e
      <4>1. f \in processed BY <3>2, <1>2
      <4>2. ~(e <= f)
        <5>1. e \notin processed BY <1>2 DEF FollowInv, OnceInv, OwnedOnce, Owns
        <5>2. e \notin 1 .. f - 1 BY <5>1, <1>6, <4>1
        <5> QED BY <5>2, <3>2, <1>10, <2>2
      <4>3. e \notin AboutAccount' BY <4>2
      <4>4. SubOf(e).customer # account'.customer BY <2>1, <4>3
      <4>5. account' = account BY <4>4, <1>2, WrittenAbout
      <4>6. AboutAccount' = AboutAccount
        BY <2>1, <4>5 DEF AboutAccount, Customer, Sent, SubOf
      <4>7. Shows(t) BY <4>1, <4>6 DEF FollowInv, ShownRight
      <4> QED BY <4>5, <4>7, <1>2 DEF Shows, Live
    <3> QED BY <3>1, <3>2
  <2>5. t = sent'[f].sub BY <1>2
  <2> QED BY <2>4, <2>5
<1> QED BY <1>1, <1>5, <1>7, <1>8, <1>9

LEMMA FollowStep == FollowInv /\ [Next]_vars => FollowInv'
<1> DEFINE Rest == SentRight /\ FetchedRight /\ OneByOne /\ FoundRight /\ ShownRight
<1> SUFFICES ASSUME FollowInv, [Next]_vars PROVE Buyers' /\ Rest'
  BY TypeStep, OnceStep DEF FollowInv
<1>1. CASE UNCHANGED vars
  <2>1. Rest' BY <1>1, FollowForget DEF vars, stripe, web, history
  <2> QED BY <1>1, <2>1 DEF vars, stripe, FollowInv, Buyers
<1>2. ASSUME NEW s \in Subs, NEW p \in Prices, NEW c \in Customers, Complete(s, p, c)
      PROVE  Buyers' /\ Rest'
  <2> DEFINE new == [state |-> "active", price |-> p, customer |-> c]
  <2>1. new.state = "active" /\ new.customer = c OBVIOUS
  <2>2. Emit("completed", s, new) /\ sub[s].state \notin Bought
    BY <1>2 DEF Complete, Bought
  <2> HIDE DEF new
  <2>3. new.state \in Bought /\ ("completed" = "deleted" <=> new.state = "canceled")
    BY <2>1 DEF Bought
  <2> QED BY <2>1, <2>2, <2>3, FollowEmit
<1>3. ASSUME NEW s \in Subs, NEW kind, NEW new, Live(s), Emit(kind, s, new),
             new.customer = sub[s].customer, new.state \in Bought,
             kind = "deleted" <=> new.state = "canceled"
      PROVE  Buyers' /\ Rest'
  <2>1. sub[s].customer \in Customers
    BY <1>3 DEF Live, FollowInv, Buyers, Bought
  <2> QED BY <1>3, <2>1, FollowEmit
<1>4. \A s \in Subs : sub[s] \in SubRows BY DEF FollowInv, TypeOK
<1>5. ASSUME NEW s \in Subs, NEW state \in {"active", "unpaid"}, NEW p \in Prices,
             Change(s, state, p)
      PROVE  Buyers' /\ Rest'
  <2> DEFINE new == [sub[s] EXCEPT !.state = state, !.price = p]
  <2>1. new.customer = sub[s].customer /\ new.state = state
    <3>1. sub[s] \in SubRows BY <1>4
    <3> QED BY <3>1 DEF SubRows
  <2>2. Live(s) /\ Emit("updated", s, new) BY <1>5 DEF Change
  <2> HIDE DEF new
  <2>3. new.state \in Bought /\ ("updated" = "deleted" <=> new.state = "canceled")
    BY <2>1 DEF Bought
  <2> QED BY <2>1, <2>2, <2>3, <1>3
<1>6. ASSUME NEW s \in Subs, Cancel(s) PROVE Buyers' /\ Rest'
  <2> DEFINE new == [sub[s] EXCEPT !.state = "canceled"]
  <2>1. new.customer = sub[s].customer /\ new.state = "canceled"
    <3>1. sub[s] \in SubRows BY <1>4
    <3> QED BY <3>1 DEF SubRows
  <2>2. Live(s) /\ Emit("deleted", s, new) BY <1>6 DEF Cancel
  <2> HIDE DEF new
  <2>3. new.state \in Bought /\ ("deleted" = "deleted" <=> new.state = "canceled")
    BY <2>1 DEF Bought
  <2> QED BY <2>1, <2>2, <2>3, <1>3
<1>7. ASSUME NEW c \in Customers, DeleteCustomer(c) PROVE Buyers' /\ Rest'
  <2>1. Rest' BY <1>7, FollowForget DEF DeleteCustomer, web, history
  <2> QED BY <1>7, <2>1 DEF DeleteCustomer, FollowInv, Buyers
<1>8. ASSUME NEW k \in Routes, ReadCustomer(k) \/ CloseVisit(k) PROVE Buyers' /\ Rest'
  <2>1. /\ UNCHANGED <<sub, sent, processed, pc, event, fetched, seen, order>>
        /\ account' \in {account, [account EXCEPT !.customer = Nobody]}
    BY <1>8 DEF ReadCustomer, CloseVisit, ForgetMissing, stripe, history
  <2>2. Rest' BY <2>1, FollowForget
  <2> QED BY <2>1, <2>2 DEF FollowInv, Buyers
<1>9. ASSUME NEW s \in Subs, OpenCheckout(s) PROVE Buyers' /\ Rest'
  <2>1. /\ UNCHANGED <<sent, processed, pc, event, fetched, seen, order>>
        /\ account' \in {account, [account EXCEPT !.customer = Nobody]}
        /\ sub[s].state = "none"
        /\ \A t \in Subs : t # s => sub'[t] = sub[t]
        /\ sub'[s].state = "open"
    BY <1>9 DEF OpenCheckout, ForgetMissing, history, FollowInv, TypeOK
  <2>2. \A e \in DOMAIN sent : sub'[sent[e].sub] = sub[sent[e].sub]
    <3>1. \A e \in DOMAIN sent : sent[e].sub \in Subs BY SentTyped
    <3>2. \A e \in DOMAIN sent : sub[sent[e].sub].state \in Bought
      BY DEF FollowInv, SentRight, SubOf
    <3> QED BY <2>1, <3>1, <3>2 DEF Bought
  <2>3. Rest' BY <2>1, <2>2, FollowForget
  <2>4. Buyers' BY <2>1 DEF FollowInv, Buyers, Bought
  <2> QED BY <2>3, <2>4
<1>10. ASSUME NEW d \in Deliveries, Webhook(d) PROVE Buyers' /\ Rest'
  <2>1. UNCHANGED <<sub, sent>>
    BY <1>10 DEF Webhook, Deliver, Retrieve, Claim, Duplicate, Read, Commit, Abort, stripe
  <2>2. Buyers' BY <2>1 DEF FollowInv, Buyers
  <2>3. TypeOK BY DEF FollowInv
  <2>4. CASE \E e \in Events : Deliver(d, e) BY <2>2, <2>4, FollowDeliver
  <2>5. CASE Commit(d) BY <2>2, <2>5, FollowCommit
  <2>6. CASE Duplicate(d) \/ Abort(d)
    <3>1. /\ pc[d] # "idle" /\ pc'[d] = "idle"
          /\ UNCHANGED <<account, processed, order>>
          /\ \A other \in Deliveries \ {d} :
               /\ pc'[other] = pc[other] /\ event'[other] = event[other]
               /\ fetched'[other] = fetched[other] /\ seen'[other] = seen[other]
      BY <2>3, <2>6 DEF Duplicate, Abort, Release, Goto, history, TypeOK
    <3>2. Rest' BY <2>1, <3>1, FollowAdvance
    <3> QED BY <2>2, <3>2
  <2>7. CASE Retrieve(d) \/ Claim(d)
    <3>1. /\ pc[d] # "idle" /\ event' = event
          /\ pc'[d] # "write"
          /\ UNCHANGED <<account, processed, order>>
          /\ fetched'[d] = SubOf(event[d]) \/ (pc[d] = "claim" /\ fetched'[d] = fetched[d])
          /\ \A other \in Deliveries \ {d} :
               /\ pc'[other] = pc[other] /\ event'[other] = event[other]
               /\ fetched'[other] = fetched[other] /\ seen'[other] = seen[other]
      BY <2>3, <2>7 DEF Retrieve, Claim, Goto, history, TypeOK, SubOf, Sent
    <3>2. Rest' BY <2>1, <3>1, FollowAdvance
    <3> QED BY <2>2, <3>2
  <2>8. CASE Read(d)
    <3>1. account.plan # NotFound
      <4>1. account.plan \in Plans BY SentTyped DEF AccountRows
      <4> QED BY <4>1, BillingAssumption DEF BillingAssumption, Plans, NotFound
    <3>2. /\ pc[d] = "read" /\ event' = event
          /\ UNCHANGED <<account, processed, order, fetched>>
          /\ \A other \in Deliveries \ {d} :
               /\ pc'[other] = pc[other] /\ event'[other] = event[other]
               /\ fetched'[other] = fetched[other] /\ seen'[other] = seen[other]
          /\ seen'[d] = IF Found(event[d]) THEN account.plan ELSE NotFound
      BY <2>3, <2>8 DEF Read, Goto, history, TypeOK
    <3>3. seen'[d] = NotFound => ~Found(event[d]) BY <3>1, <3>2
    <3>4. pc[d] \in {"claim", "read", "write"} /\ fetched'[d] = fetched[d] /\ pc[d] # "idle"
          /\ event'[d] = event[d]
      BY <3>2
    <3>5. Rest' BY <2>1, <3>2, <3>3, <3>4, FollowAdvance
    <3> QED BY <2>2, <3>5
  <2> QED BY <1>10, <2>4, <2>5, <2>6, <2>7, <2>8 DEF Webhook
<1> QED BY <1>1, <1>2, <1>5, <1>6, <1>7, <1>8, <1>9, <1>10 DEF Next, Stripe, Browser

\* While events are delivered one at a time and in order, with any number of
\* repetitions and failures, and whatever the user's browser does meanwhile, an account
\* whose events are all processed shows the newest of its customer's subscriptions
\* (applyStripeWebhookDbSide).
THEOREM FollowsSafe == Spec => []FollowsStripe
<1>1. FollowInv => FollowsStripe
  <2> SUFFICES ASSUME FollowInv, order = "in order", Quiet, NEW e \in AboutAccount,
                      \A f \in AboutAccount : f <= e
               PROVE  Shows(Sent(e).sub)
    BY DEF FollowsStripe, ShowsNewest
  <2>1. e \in processed BY DEF Quiet, AboutAccount
  <2> QED BY <2>1 DEF FollowInv, ShownRight, Sent
<1> QED BY FollowInit, FollowStep, <1>1, PTL DEF Spec
=============================================================================
