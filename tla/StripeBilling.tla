---------------------------- MODULE StripeBilling ----------------------------
(***************************************************************************)
(* The plan of one account as Stripe's webhooks write it                   *)
(* (website/src/app/api/webhooks/stripe/route.ts,                          *)
(* applyStripeWebhookDbSide.ts), and the two routes that open a Stripe     *)
(* session and forget a customer Stripe no longer knows (api/checkout,     *)
(* api/account/billing-portal).                                            *)
(*                                                                         *)
(* Stripe delivers an event at least once, in no particular order, and     *)
(* deliveries overlap.                                                     *)
(***************************************************************************)
EXTENDS Naturals, Sequences, FiniteSets

CONSTANTS Subs,        \* subscriptions the account may ever buy
          Customers,   \* Stripe customers
          Prices,      \* base prices a subscription may have
          PlanOf,      \* priceIdToPlanId: the plan of each configured price
          Deliveries,  \* slots for concurrent webhook requests
          Nobody,      \* no customer, no subscription, no price
          MaxEvents    \* bound: events Stripe sends

Unread == "unread"
NotFound == "not found"

ASSUME BillingAssumption ==
    /\ Nobody \notin Customers \cup Subs \cup Prices
    /\ DOMAIN PlanOf \subseteq Prices
    /\ {"starter", Unread, NotFound} \cap {PlanOf[p] : p \in DOMAIN PlanOf} = {}
    /\ MaxEvents \in Nat

VARIABLES sub,        \* Stripe: the subscriptions
          gone,       \* Stripe: deleted customers
          sent,       \* Stripe: events, in the order of their creation
          account,    \* the user row
          processed,  \* stripe_event rows, by position of the event in sent
          visit,      \* per route of the user's browser: the customer it has read
          pc, event,  \* per delivery: next step, the event it carries
          fetched,    \* per delivery: the subscription as retrieved from Stripe
          seen,       \* per delivery: the plan it read, if it found the account
          applied,    \* history: how often each event changed the account
          tried,      \* history: events delivered at least once, until order is "any"
          order,      \* history: how events came so far, see Arrival
          paid        \* history: plans a subscription has been active with

stripe == <<sub, gone, sent>>
web == <<account, processed, visit, pc, event, fetched, seen>>
history == <<applied, tried, order, paid>>
vars == <<stripe, web, history>>

Plans == {PlanOf[p] : p \in DOMAIN PlanOf} \cup {"starter"}
Routes == {"checkout", "portal"}
Events == 1 .. MaxEvents

\* A subscription that was never bought, and an account that never paid.
NoSub == [state |-> "none", price |-> Nobody, customer |-> Nobody]
NewAccount == [plan |-> "starter", status |-> "none", customer |-> Nobody,
               sub |-> Nobody, price |-> Nobody]

Init ==
    /\ sub = [s \in Subs |-> NoSub]
    /\ gone = {} /\ sent = <<>>
    /\ account = NewAccount /\ processed = {}
    /\ visit = [k \in Routes |-> Unread]
    /\ pc = [d \in Deliveries |-> "idle"]
    /\ event = [d \in Deliveries |-> 0]
    /\ fetched = [d \in Deliveries |-> NoSub]
    /\ seen = [d \in Deliveries |-> Unread]
    /\ applied = [e \in Events |-> 0] /\ tried = {}
    /\ order = "in order" /\ paid = {}

-----------------------------------------------------------------------------
(* Stripe. *)

\* A change of a subscription and the event that tells of it, with the subscription
\* as it is now; a checkout event names the subscription only.
Emit(kind, s, new) ==
    /\ Len(sent) < MaxEvents
    /\ sub' = [sub EXCEPT ![s] = new]
    /\ sent' = Append(sent, [kind |-> kind, sub |-> s, snapshot |-> new])
    /\ paid' = IF new.state = "active" /\ new.price \in DOMAIN PlanOf
               THEN paid \cup {PlanOf[new.price]} ELSE paid
    /\ UNCHANGED <<gone, web, applied, tried, order>>

\* The user pays: a session without a customer gets a new one.
Complete(s, p, c) ==
    /\ sub[s].state = "open" /\ c \notin gone
    /\ IF sub[s].customer = Nobody THEN \A t \in Subs : sub[t].customer # c
       ELSE c = sub[s].customer
    /\ Emit("completed", s, [state |-> "active", price |-> p, customer |-> c])

Live(s) == sub[s].state \in {"active", "unpaid"}

\* The portal, a payment that fails or a payment that arrives.
Change(s, state, p) ==
    /\ Live(s)
    /\ sub[s] # [sub[s] EXCEPT !.state = state, !.price = p]
    /\ Emit("updated", s, [sub[s] EXCEPT !.state = state, !.price = p])

Cancel(s) ==
    /\ Live(s)
    /\ Emit("deleted", s, [sub[s] EXCEPT !.state = "canceled"])

\* Deleting a customer cancels its subscriptions first.
DeleteCustomer(c) ==
    /\ c \notin gone /\ \E s \in Subs : sub[s].customer = c
    /\ \A s \in Subs : sub[s].customer = c => sub[s].state = "canceled"
    /\ gone' = gone \cup {c}
    /\ UNCHANGED <<sub, sent, web, history>>

-----------------------------------------------------------------------------
(* POST /api/checkout and POST /api/account/billing-portal. *)

\* The route reads stripe_customer_id; the portal needs one.
ReadCustomer(k) ==
    /\ visit[k] = Unread
    /\ k = "portal" => account.customer # Nobody
    /\ visit' = [visit EXCEPT ![k] = account.customer]
    /\ UNCHANGED <<stripe, account, processed, pc, event, fetched, seen, history>>

Missing(c) == c \in gone

\* Stripe answers that it does not know the customer: the account forgets whatever
\* customer it has by now.
ForgetMissing(c) ==
    account' = IF Missing(c) THEN [account EXCEPT !.customer = Nobody] ELSE account

\* A checkout session is opened for the customer or, without one, for the email.
OpenCheckout(s) ==
    /\ visit["checkout"] # Unread /\ sub[s].state = "none"
    /\ ForgetMissing(visit["checkout"])
    /\ sub' = [sub EXCEPT ![s] = [state |-> "open", price |-> Nobody,
         customer |-> IF Missing(visit["checkout"]) THEN Nobody ELSE visit["checkout"]]]
    /\ visit' = [visit EXCEPT !["checkout"] = Unread]
    /\ UNCHANGED <<gone, sent, processed, pc, event, fetched, seen, history>>

\* The portal opens, or either route fails.
CloseVisit(k) ==
    /\ visit[k] # Unread
    /\ \/ ForgetMissing(visit[k])
       \/ UNCHANGED account
    /\ visit' = [visit EXCEPT ![k] = Unread]
    /\ UNCHANGED <<stripe, processed, pc, event, fetched, seen, history>>

-----------------------------------------------------------------------------
(* POST /api/webhooks/stripe. *)

Sent(e) == sent[e]
Customer(e) == sub[Sent(e).sub].customer

Goto(d, step) == pc' = [pc EXCEPT ![d] = step]

\* The request ends, with an answer or without one, and its transaction with it.
Release(d) ==
    /\ Goto(d, "idle")
    /\ event' = [event EXCEPT ![d] = 0]
    /\ fetched' = [fetched EXCEPT ![d] = NoSub]
    /\ seen' = [seen EXCEPT ![d] = Unread]

\* History.  "in order": one at a time, each when all before it are processed.
\* "retried": one at a time, and in order but for those whose first delivery failed.
Arrival(e) ==
    IF order = "any" \/ \E d \in Deliveries : pc[d] # "idle" THEN "any"
    ELSE IF order = "in order" /\ 1 .. e - 1 \subseteq processed THEN "in order"
    ELSE IF 1 .. e - 1 \subseteq tried THEN "retried"
    ELSE "any"

\* First delivery or a repetition; checkout events are completed from Stripe first.
Deliver(d, e) ==
    /\ pc[d] = "idle" /\ e <= Len(sent)
    /\ event' = [event EXCEPT ![d] = e]
    /\ Goto(d, IF Sent(e).kind = "completed" THEN "retrieve" ELSE "claim")
    /\ order' = Arrival(e)
    /\ tried' = IF order' = "any" THEN {} ELSE tried \cup {e}
    /\ UNCHANGED <<stripe, account, processed, visit, fetched, seen, applied, paid>>

\* subscriptions.retrieve, before the transaction.
Retrieve(d) ==
    /\ pc[d] = "retrieve"
    /\ fetched' = [fetched EXCEPT ![d] = sub[Sent(event[d]).sub]]
    /\ Goto(d, "claim")
    /\ UNCHANGED <<stripe, account, processed, visit, event, seen, history>>

\* Mutant: a claim does not wait for an uncommitted one.
ClaimFree_NoWait(d) == TRUE

\* An uncommitted INSERT of the same event id makes the others wait.
ClaimFree(d) ==
    \A other \in Deliveries \ {d} :
        event[other] = event[d] => pc[other] \notin {"read", "write"}

\* INSERT ... ON CONFLICT DO NOTHING: this transaction owns the event ...
Claim(d) ==
    /\ pc[d] = "claim" /\ ClaimFree(d) /\ event[d] \notin processed
    /\ Goto(d, "read")
    /\ UNCHANGED <<stripe, account, processed, visit, event, fetched, seen, history>>

\* ... or it is a duplicate.
Duplicate(d) ==
    /\ pc[d] = "claim" /\ ClaimFree(d) /\ event[d] \in processed
    /\ Release(d)
    /\ UNCHANGED <<stripe, account, processed, visit, history>>

\* The account a completed checkout names, or the one of the subscription's customer
\* (the narrower match on the subscription picks among several accounts).
Found(e) == Sent(e).kind = "completed" \/ account.customer = Customer(e)

\* The account is selected for its plan.
Read(d) ==
    /\ pc[d] = "read"
    /\ seen' = [seen EXCEPT ![d] = IF Found(event[d]) THEN account.plan ELSE NotFound]
    /\ Goto(d, "write")
    /\ UNCHANGED <<stripe, account, processed, visit, event, fetched, history>>

\* Mutant: a subscription in arrears stays active.
StatusFromStripe_Arrears(state) == IF state = "canceled" THEN "inactive" ELSE "active"

\* Mutant: Stripe's word for the status is stored as it is.
StatusFromStripe_Raw(state) == state

\* subscriptionStatusFromStripe.
StatusFromStripe(state) == IF state = "active" THEN "active" ELSE "inactive"

\* subscriptionPatchFromStripe: an unknown price leaves the plan as it was read.
Patch(s, snapshot, priorPlan) ==
    [plan |-> IF snapshot.price \in DOMAIN PlanOf THEN PlanOf[snapshot.price] ELSE priorPlan,
     status |-> StatusFromStripe(snapshot.state),
     customer |-> snapshot.customer, sub |-> s, price |-> snapshot.price]

\* Mutant: the plan survives the subscription.
Ended_KeepsPlan ==
    [account EXCEPT !.status = "inactive", !.sub = Nobody, !.price = Nobody]

\* customer.subscription.deleted; the customer is kept for a later checkout.
Ended ==
    [account EXCEPT !.status = "inactive", !.plan = "starter", !.sub = Nobody,
                    !.price = Nobody]

\* applyStripeWebhookDbSide: an update goes to the account that was read, a deletion
\* to the account of the customer now (by subscription, else by customer).
Written(d) ==
    LET e == event[d]  s == Sent(e).sub IN
    IF Sent(e).kind = "deleted"
    THEN IF account.customer = Customer(e) THEN Ended ELSE account
    ELSE IF seen[d] = NotFound THEN account
    ELSE Patch(s, IF Sent(e).kind = "completed" THEN fetched[d] ELSE Sent(e).snapshot, seen[d])

\* The answer may be lost: Stripe then delivers again what is already processed.
Commit(d) ==
    /\ pc[d] = "write"
    /\ account' = Written(d)
    /\ processed' = processed \cup {event[d]}
    /\ applied' = [applied EXCEPT ![event[d]] = @ + 1]
    /\ Release(d)
    /\ UNCHANGED <<stripe, visit, tried, order, paid>>

\* Retrieval or a statement fails, or the function dies: nothing is kept, and Stripe
\* delivers again.
Abort(d) ==
    /\ pc[d] # "idle"
    /\ Release(d)
    /\ UNCHANGED <<stripe, account, processed, visit, history>>

Stripe ==
    \/ \E s \in Subs, p \in Prices, c \in Customers : Complete(s, p, c)
    \/ \E s \in Subs, state \in {"active", "unpaid"}, p \in Prices : Change(s, state, p)
    \/ \E s \in Subs : Cancel(s)
    \/ \E c \in Customers : DeleteCustomer(c)

Browser ==
    \/ \E k \in Routes : ReadCustomer(k) \/ CloseVisit(k)
    \/ \E s \in Subs : OpenCheckout(s)

Webhook(d) ==
    \/ \E e \in Events : Deliver(d, e)
    \/ Retrieve(d)
    \/ Claim(d)
    \/ Duplicate(d)
    \/ Read(d)
    \/ Commit(d)
    \/ Abort(d)

Next == Stripe \/ Browser \/ \E d \in Deliveries : Webhook(d)

Spec == Init /\ [][Next]_vars
-----------------------------------------------------------------------------
(* Properties. *)

States == {"none", "open", "active", "unpaid", "canceled"}
SubRows == [state : States, price : Prices \cup {Nobody}, customer : Customers \cup {Nobody}]
EventRows == [kind : {"completed", "updated", "deleted"}, sub : Subs, snapshot : SubRows]
AccountRows == [plan : Plans, status : {"none", "active", "inactive"},
                customer : Customers \cup {Nobody}, sub : Subs \cup {Nobody},
                price : Prices \cup {Nobody}]

\* Types; a delivery that has its transaction read nothing it was not sent.
TypeOK ==
    /\ sub \in [Subs -> SubRows]
    /\ gone \subseteq Customers
    /\ sent \in Seq(EventRows) /\ Len(sent) <= MaxEvents
    /\ account \in AccountRows
    /\ processed \subseteq DOMAIN sent
    /\ visit \in [Routes -> Customers \cup {Nobody, Unread}]
    /\ pc \in [Deliveries -> {"idle", "retrieve", "claim", "read", "write"}]
    /\ event \in [Deliveries -> 0 .. Len(sent)]
    /\ \A d \in Deliveries : pc[d] # "idle" => event[d] # 0
    /\ fetched \in [Deliveries -> SubRows]
    /\ seen \in [Deliveries -> Plans \cup {Unread, NotFound}]
    /\ paid \subseteq Plans

\* Each event changes the account at most once, and an event that is recorded as
\* processed did, however deliveries repeat, overlap and fail.
ProcessedExactlyOnce ==
    \A e \in Events : applied[e] = IF e \in processed THEN 1 ELSE 0

\* In whatever order events arrive, an active account with a configured price has a
\* plan that some subscription was active with.
EntitledWasPaid ==
    account.status = "active" /\ account.price \in DOMAIN PlanOf => account.plan \in paid

Quiet == processed = DOMAIN sent /\ \A d \in Deliveries : pc[d] = "idle"

\* Events about the customer the account now has.
AboutAccount == {e \in DOMAIN sent : Customer(e) = account.customer}

\* The account shows subscription s as it is, or that it is over.
Shows(s) ==
    IF Live(s)
    THEN /\ account.sub = s /\ account.price = sub[s].price
         /\ account.status = "active" <=> sub[s].state = "active"
         /\ sub[s].price \in DOMAIN PlanOf => account.plan = PlanOf[sub[s].price]
    ELSE account.sub = Nobody /\ account.plan = "starter" /\ account.status = "inactive"

\* The account shows the subscription of the newest event about its customer.
ShowsNewest ==
    \A e \in AboutAccount : (\A f \in AboutAccount : f <= e) => Shows(Sent(e).sub)

\* If events are delivered one at a time and in order, with any number of repetitions
\* and failures, the account shows what Stripe has.
FollowsStripe == order = "in order" /\ Quiet => ShowsNewest

-----------------------------------------------------------------------------
(* "Retries after transient failures are safe by design"                   *)
(* (docs/website-security-and-operations.md): if events come one at a time *)
(* and in order, but for those that fail and are retried later, and no     *)
(* customer is deleted, an account is not left active with a subscription  *)
(* that is not.                                                            *)
RetriesAreSafe ==
    order # "any" /\ gone = {} /\ Quiet /\ account.status = "active" =>
        sub[account.sub].state = "active"
=============================================================================
