---------------------------- MODULE Billing ----------------------------
(***************************************************************************)
(* The payments of one tenant and the subscription they extend             *)
(* (app/billing), between the customer, the payment gateway and the        *)
(* requests of several browser tabs. A save over the version that was read *)
(* is one step: it is refused when the record has moved on (RecordStore).  *)
(***************************************************************************)
EXTENDS Integers, Sequences, FiniteSets

CONSTANTS
    Payments,        \* the ids of the payments that may be made
    Requests,        \* HTTP requests under way
    ForSale,         \* the plans that are sold
    Price,           \* what a period of each of them costs
    PERIOD, TRIAL_LENGTH, RECHECK_AFTER, GIVE_UP_AFTER,
    CREDIT_ATTEMPTS,
    PageSize,        \* how many payments PaymentStore.for_tenant returns
    MaxClock,        \* bound: the clock stops here
    MaxFaults,       \* bound: gateway calls that fail or answer with an error
    MaxStops,        \* bound: requests that end half way
    NoPayment        \* what a request that handles no payment has

ASSUME TimesAssumption ==
    /\ {PERIOD, TRIAL_LENGTH, RECHECK_AFTER, GIVE_UP_AFTER} \subseteq Nat \ {0}
    /\ {CREDIT_ATTEMPTS, PageSize} \subseteq Nat \ {0}
    /\ {MaxClock, MaxFaults, MaxStops} \subseteq Nat
ASSUME PlansAssumption == Price \in [ForSale -> Nat \ {0}] /\ "trial" \notin ForSale
ASSUME NoPaymentAssumption == NoPayment \notin Payments

VARIABLES
    clock,
    payment,         \* payment[p]: the newest version of its record
    index,           \* the payments whose authority leads back to them
    order,           \* the payments by the time of their last write
    subscription,    \* the newest version of the subscription's record
    gateway,         \* gateway[p]: what the gateway knows of the payment
    at, of,          \* where each request is, and the payment it is about
    paymentRead, subscriptionRead,    \* the copies it works on
    tries,           \* how often it has tried to credit
    faults, stops

store == <<payment, index, order, subscription>>
local == <<at, of, paymentRead, subscriptionRead, tries>>
vars == <<clock, store, gateway, local, faults, stops>>
------------------------------------------------------------------------
PaymentStatus == {"pending", "paid", "failed"}
Failures == {"none", "request_refused", "cancelled", "not_paid", "gave_up"}
Places == {"idle", "ask", "link", "verify", "close", "mark", "credit", "commit"}
PlanId == ForSale \cup {"trial"}

Payment ==
    [status : PaymentStatus \cup {"absent"}, plan : PlanId, authority : BOOLEAN,
     tried : BOOLEAN, failure : Failures, created : Nat, version : Nat]

Absent == [status |-> "absent", plan |-> "trial", authority |-> FALSE, tried |-> FALSE,
           failure |-> "none", created |-> 0, version |-> 0]

Subscription == [plan : PlanId, ends : Nat, paidFor : SUBSET Payments, version : Nat]

\* Version 0: a tenant the operator set up, without a subscription or limits.
NoSubscription == [plan |-> "trial", ends |-> 0, paidFor |-> {}, version |-> 0]
Trial == [plan |-> "trial", ends |-> TRIAL_LENGTH, paidFor |-> {}, version |-> 1]

\* The time left, in the plan being bought: worth what was paid for it.
RemainingIn(current, plan, now) ==
    IF current.version = 0 \/ current.ends <= now THEN 0
    ELSE IF current.plan \in {plan, "trial"} THEN current.ends - now
         ELSE ((current.ends - now) * Price[current.plan]) \div Price[plan]

\* Faulty variant: a period counts from now, and what was left is lost.
RenewedFromNow(current, plan, p, now) ==
    [plan |-> plan, ends |-> now + PERIOD, paidFor |-> current.paidFor \cup {p},
     version |-> current.version + 1]

Renewed(current, plan, p, now) ==
    [plan    |-> plan,
     ends    |-> now + RemainingIn(current, plan, now) + PERIOD,
     paidFor |-> current.paidFor \cup {p},
     version |-> current.version + 1]

Entitled == subscription.version = 0 \/ clock < subscription.ends
------------------------------------------------------------------------
Init ==
    /\ clock = 0
    /\ payment = [p \in Payments |-> Absent]
    /\ index = {} /\ order = <<>>
    /\ subscription \in {NoSubscription, Trial}
    /\ gateway = [p \in Payments |-> "unknown"]
    /\ at = [r \in Requests |-> "idle"]
    /\ of = [r \in Requests |-> NoPayment]
    /\ paymentRead = [r \in Requests |-> Absent]
    /\ subscriptionRead = [r \in Requests |-> NoSubscription]
    /\ tries = [r \in Requests |-> 0]
    /\ faults = 0 /\ stops = 0

\* The request goes on at another place; it keeps nothing once it has answered.
Goto(r, place) ==
    /\ at' = [at EXCEPT ![r] = place]
    /\ IF place = "idle"
       THEN /\ of' = [of EXCEPT ![r] = NoPayment]
            /\ paymentRead' = [paymentRead EXCEPT ![r] = Absent]
            /\ subscriptionRead' = [subscriptionRead EXCEPT ![r] = NoSubscription]
            /\ tries' = [tries EXCEPT ![r] = 0]
       ELSE UNCHANGED <<of, paymentRead, subscriptionRead, tries>>

\* The payments but p, which is among them once at most, in their order.
Others(p) ==
    LET places == {i \in 1..Len(order) : order[i] = p}
        place == CHOOSE i \in places : TRUE
    IN  IF places = {} THEN order
        ELSE SubSeq(order, 1, place - 1) \o SubSeq(order, place + 1, Len(order))

\* One more version of the record of payment p.
Save(p, written) ==
    /\ payment' = [payment EXCEPT ![p] = [written EXCEPT !.version = @ + 1]]
    /\ order' = Append(Others(p), p)

\* The record the request read is still the newest version.
IsNewest(r) == payment[of[r]].version = paymentRead[r].version

\* Saved over the version that was read, or refused without a trace; both answer.
SaveAndAnswer(r, written) ==
    /\ IF IsNewest(r) THEN Save(of[r], written) ELSE UNCHANGED <<payment, order>>
    /\ Goto(r, "idle")
    /\ UNCHANGED <<clock, index, subscription, gateway, faults, stops>>
------------------------------------------------------------------------
\* checkout: the payment is saved before the gateway hears of it.
Checkout(r, p, plan) ==
    /\ at[r] = "idle" /\ payment[p] = Absent
    /\ subscription.version # 0
    /\ clock + RECHECK_AFTER <= MaxClock    \* bound: its recheck comes before the clock stops
    /\ LET pay == [Absent EXCEPT !.status = "pending", !.plan = plan, !.created = clock]
       IN  /\ Save(p, pay)
           /\ paymentRead' = [paymentRead EXCEPT ![r] = [pay EXCEPT !.version = 1]]
    /\ at' = [at EXCEPT ![r] = "ask"]
    /\ of' = [of EXCEPT ![r] = p]
    /\ UNCHANGED <<clock, index, subscription, gateway, subscriptionRead, tries, faults, stops>>

\* The gateway hands out an authority.
RequestPayment(r) ==
    /\ at[r] = "ask"
    /\ gateway' = [gateway EXCEPT ![of[r]] = "open"]
    /\ Goto(r, "link")
    /\ UNCHANGED <<clock, store, faults, stops>>

\* It refuses, or its answer is lost after it has opened a payment.
RequestRefused(r) ==
    /\ at[r] = "ask" /\ faults < MaxFaults
    /\ faults' = faults + 1
    /\ \E known \in {"unknown", "open"} : gateway' = [gateway EXCEPT ![of[r]] = known]
    /\ Save(of[r], [paymentRead[r] EXCEPT !.status = "failed", !.failure = "request_refused"])
    /\ Goto(r, "idle")
    /\ UNCHANGED <<clock, index, subscription, stops>>

\* The authority and its index land together, and the customer is sent off.
LinkAuthority(r) ==
    /\ at[r] = "link"
    /\ Save(of[r], [paymentRead[r] EXCEPT !.authority = TRUE])
    /\ index' = index \cup {of[r]}
    /\ Goto(r, "idle")
    /\ UNCHANGED <<clock, subscription, gateway, faults, stops>>

\* At the gateway: the customer pays, while the gateway still waits for it.
Pay(p) ==
    /\ p \in index /\ gateway[p] = "open"
    /\ clock - payment[p].created < RECHECK_AFTER
    /\ gateway' = [gateway EXCEPT ![p] = "paid"]
    /\ UNCHANGED <<clock, store, local, faults, stops>>

\* The customer turns back without paying.
TurnBack(p) ==
    /\ p \in index /\ gateway[p] = "open"
    /\ gateway' = [gateway EXCEPT ![p] = "over"]
    /\ UNCHANGED <<clock, store, local, faults, stops>>
------------------------------------------------------------------------
\* Faulty variant: what the return says is believed, and a cancelled one closes.
SettleAsSaid(r, p) ==
    /\ at[r] = "idle" /\ p \in index
    /\ payment[p].status = "pending"
    /\ of' = [of EXCEPT ![r] = p]
    /\ at' = [at EXCEPT ![r] = "close"]
    /\ paymentRead' = [paymentRead EXCEPT ![r] = [payment[p] EXCEPT !.failure = "cancelled"]]
    /\ UNCHANGED <<clock, store, gateway, subscriptionRead, tries, faults, stops>>

\* settle: the customer is back, and may reload the page. What the return says is
\* not taken for paid, and a payment that is settled is left alone.
Settle(r, p) ==
    /\ at[r] = "idle" /\ p \in index
    /\ gateway[p] \in {"paid", "verified", "over"}
    /\ payment[p].status = "pending"
    /\ of' = [of EXCEPT ![r] = p]
    /\ \/ /\ at' = [at EXCEPT ![r] = "verify"]
          /\ paymentRead' = [paymentRead EXCEPT ![r] = payment[p]]
       \/ /\ gateway[p] = "over"
          /\ at' = [at EXCEPT ![r] = "close"]
          /\ paymentRead' = [paymentRead EXCEPT ![r] = [payment[p] EXCEPT !.failure = "cancelled"]]
    /\ UNCHANGED <<clock, store, gateway, subscriptionRead, tries, faults, stops>>

\* The payments the billing page looks at: the latest written.
Page == {order[i] : i \in {k \in 1..Len(order) : k > Len(order) - PageSize}}

\* Faulty variant: only one whose verify failed is looked at again.
RecheckTried(r, p) ==
    /\ at[r] = "idle" /\ p \in Page
    /\ payment[p].status = "pending" /\ payment[p].authority /\ payment[p].tried
    /\ at' = [at EXCEPT ![r] = "verify"]
    /\ of' = [of EXCEPT ![r] = p]
    /\ paymentRead' = [paymentRead EXCEPT ![r] = payment[p]]
    /\ UNCHANGED <<clock, store, gateway, subscriptionRead, tries, faults, stops>>

\* recheck: one whose verify failed on the way, or one nobody came back from.
Recheck(r, p) ==
    /\ at[r] = "idle" /\ p \in Page
    /\ payment[p].status = "pending" /\ payment[p].authority
    /\ payment[p].tried \/ clock - payment[p].created >= RECHECK_AFTER
    /\ at' = [at EXCEPT ![r] = "verify"]
    /\ of' = [of EXCEPT ![r] = p]
    /\ paymentRead' = [paymentRead EXCEPT ![r] = payment[p]]
    /\ UNCHANGED <<clock, store, gateway, subscriptionRead, tries, faults, stops>>

\* The gateway says paid, now or before (codes 100 and 101).
VerifiedPaid(r) ==
    /\ at[r] = "verify" /\ gateway[of[r]] \in {"paid", "verified"}
    /\ gateway' = [gateway EXCEPT ![of[r]] = "verified"]
    /\ Goto(r, "credit")
    /\ UNCHANGED <<clock, store, faults, stops>>

\* The payment was not made (code -51): that settles it.
VerifiedUnpaid(r) ==
    /\ at[r] = "verify" /\ gateway[of[r]] \notin {"paid", "verified"}
    /\ gateway' = [gateway EXCEPT ![of[r]] = "over"]
    /\ at' = [at EXCEPT ![r] = "close"]
    /\ paymentRead' = [paymentRead EXCEPT ![r].failure = "not_paid"]
    /\ UNCHANGED <<clock, store, of, subscriptionRead, tries, faults, stops>>

\* No answer, or an error that may hide a payment: asked again later, until long
\* past the time any payment could be under way. The gateway may have verified it.
VerifyFails(r) ==
    /\ at[r] = "verify" /\ faults < MaxFaults
    /\ faults' = faults + 1
    /\ \/ UNCHANGED gateway
       \/ /\ gateway[of[r]] = "paid"
          /\ gateway' = [gateway EXCEPT ![of[r]] = "verified"]
    /\ \/ /\ at' = [at EXCEPT ![r] = "mark"]
          /\ UNCHANGED paymentRead
       \/ /\ clock - paymentRead[r].created >= GIVE_UP_AFTER
          /\ at' = [at EXCEPT ![r] = "close"]
          /\ paymentRead' = [paymentRead EXCEPT ![r].failure = "gave_up"]
    /\ UNCHANGED <<clock, store, of, subscriptionRead, tries, stops>>

\* Marked, so that the next look at the billing page asks again.
Mark(r) ==
    /\ at[r] = "mark"
    /\ IF paymentRead[r].tried
       THEN Goto(r, "idle") /\ UNCHANGED <<clock, store, gateway, faults, stops>>
       ELSE SaveAndAnswer(r, [paymentRead[r] EXCEPT !.tried = TRUE])

Close(r) ==
    /\ at[r] = "close"
    /\ SaveAndAnswer(r, [paymentRead[r] EXCEPT !.status = "failed"])
------------------------------------------------------------------------
\* A conflict rolled both writes back: another request settled the payment, or
\* the payment or the subscription moved and it is tried again.
Conflict(r) ==
    /\ IF payment[of[r]].status # "pending" \/ tries[r] + 1 >= CREDIT_ATTEMPTS
       THEN Goto(r, "idle")
       ELSE /\ at' = [at EXCEPT ![r] = "credit"]
            /\ paymentRead' = [paymentRead EXCEPT ![r] = payment[of[r]]]
            /\ subscriptionRead' = [subscriptionRead EXCEPT ![r] = NoSubscription]
            /\ tries' = [tries EXCEPT ![r] = @ + 1]
            /\ UNCHANGED of
    /\ UNCHANGED <<clock, store, gateway, faults, stops>>

\* The transaction has written the payment and reads the subscription.
CreditBegin(r) ==
    /\ at[r] = "credit"
    /\ IF IsNewest(r)
       THEN /\ at' = [at EXCEPT ![r] = "commit"]
            /\ subscriptionRead' = [subscriptionRead EXCEPT ![r] = subscription]
            /\ UNCHANGED <<clock, store, gateway, of, paymentRead, tries, faults, stops>>
       ELSE Conflict(r)

\* Both records are still the ones it read, or the transaction is rolled back.
MayCommit(r) == IsNewest(r) /\ subscription.version = subscriptionRead[r].version

\* The payment and its month land together, or neither does.
Credit(r) ==
    /\ at[r] = "commit"
    /\ IF MayCommit(r)
       THEN /\ Save(of[r], [paymentRead[r] EXCEPT !.status = "paid"])
            /\ subscription' = Renewed(subscriptionRead[r], paymentRead[r].plan, of[r], clock)
            /\ Goto(r, "idle")
            /\ UNCHANGED <<clock, index, gateway, faults, stops>>
       ELSE Conflict(r)

\* A request ends half way: the process is restarted.
StopRequest(r) ==
    /\ at[r] # "idle" /\ stops < MaxStops
    /\ stops' = stops + 1
    /\ Goto(r, "idle")
    /\ UNCHANGED <<clock, store, gateway, faults>>

\* Time passes. A tick is longer than a transaction.
Tick ==
    /\ clock < MaxClock
    /\ \A r \in Requests : at[r] # "commit"
    /\ clock' = clock + 1
    /\ UNCHANGED <<store, gateway, local, faults, stops>>

Serve(r) ==
    \/ RequestPayment(r) \/ LinkAuthority(r)
    \/ VerifiedPaid(r) \/ VerifiedUnpaid(r)
    \/ Mark(r) \/ Close(r) \/ CreditBegin(r) \/ Credit(r)

Next ==
    \/ \E r \in Requests, p \in Payments :
          Settle(r, p) \/ Recheck(r, p) \/ \E plan \in ForSale : Checkout(r, p, plan)
    \/ \E r \in Requests :
          Serve(r) \/ RequestRefused(r) \/ VerifyFails(r) \/ StopRequest(r)
    \/ \E p \in Payments : Pay(p) \/ TurnBack(p)
    \/ Tick

Spec == Init /\ [][Next]_vars
------------------------------------------------------------------------
(* Every variable keeps its type. *)
TypeOK ==
    /\ clock \in Nat
    /\ payment \in [Payments -> Payment]
    /\ index \subseteq Payments /\ order \in Seq(Payments)
    /\ subscription \in Subscription
    /\ gateway \in [Payments -> {"unknown", "open", "paid", "verified", "over"}]
    /\ at \in [Requests -> Places]
    /\ of \in [Requests -> Payments \cup {NoPayment}]
    /\ \A r \in Requests : at[r] # "idle" => of[r] \in Payments
    /\ paymentRead \in [Requests -> Payment]
    /\ subscriptionRead \in [Requests -> Subscription]
    /\ tries \in [Requests -> Nat]
    /\ faults \in Nat /\ stops \in Nat

(* A payment is paid exactly when its month is in the subscription, and only *)
(* then (Billing._credit: both writes or neither, whatever races).           *)
PaidMeansCounted ==
    /\ \A p \in Payments : payment[p].status = "paid" <=> p \in subscription.paidFor
    /\ \A p \in subscription.paidFor : gateway[p] = "verified"

(* A payment the customer made is called failed only when the gateway gave   *)
(* no usable answer for GIVE_UP_AFTER (Billing._verify): no cancelled return *)
(* and no early verify closes a payment that was made.                       *)
FailedWasNotPaid ==
    \A p \in Payments :
        payment[p].status = "failed" /\ gateway[p] \in {"paid", "verified"}
            => payment[p].failure = "gave_up"

(* What the customer can pay for can be found again by its authority         *)
(* (PaymentStore.link_authority in the checkout's transaction).              *)
PaidCanBeFound ==
    \A p \in Payments : gateway[p] \in {"paid", "verified"} => p \in index /\ payment[p].authority

(* What the records say of a payment is true of the gateway and of the       *)
(* subscription, whatever races, fails or stops half way (Billing.checkout,  *)
(* settle, recheck).                                                         *)
PaymentsAreTrue == PaidMeansCounted /\ FailedWasNotPaid /\ PaidCanBeFound

(* Under a customer who comes back to the billing page, a payment that was   *)
(* made is settled: "Money the gateway took is never left without an answer" *)
(* (app/billing/service.py).                                                 *)
PaidIsAnswered ==
    \A p \in Payments : gateway[p] = "paid" ~> payment[p].status \in {"paid", "failed"}

\* The process serves what it has begun, time passes, and the customer opens the
\* billing page again and again while a payment is pending.
FairSpec ==
    /\ Spec
    /\ WF_vars(Tick)
    /\ \A r \in Requests : WF_vars(Serve(r))
    /\ \A p \in Payments : SF_vars(\E r \in Requests : Recheck(r, p))
------------------------------------------------------------------------
Months == INSTANCE PaidMonths WITH counted <- subscription.paidFor

(* Checkout, return, recheck and credit implement the promise: every payment *)
(* counts one month, added to what was left of the ones before.              *)
ImplementsPaidMonths == Months!Spec
========================================================================
