------------------------ MODULE CustomerSide_proofs ------------------------
(***************************************************************************)
(* What the payments promise, alone and on the customer's side, and what   *)
(* the other parts of that side promise, each beside the payments that     *)
(* rest meanwhile: for any payments, accounts, numbers, links, sites,      *)
(* tenants, keys and requests, any times and limits.                       *)
(*                                                                         *)
(* Each part has an inductive invariant of its own, whose argument stands  *)
(* at the head of its section; the last section joins them by the part in  *)
(* focus. What they share: a save is refused unless the record is still    *)
(* the version that was read, so a copy with the version (or the stamp) of *)
(* the stored record is that record, and what is written over it differs   *)
(* from it in what the request is about and in nothing else.               *)
(***************************************************************************)
EXTENDS CustomerSide, FiniteSetTheorems, SequenceTheorems, TLAPS

(* The payments (Billing). What the records say of a payment is true, and    *)
(* the months it pays for are counted once: for any number of payments,      *)
(* requests and plans, any price, and any faults and stops.                  *)
(*                                                                           *)
(* The inductive invariant says three things the code relies on. A payment   *)
(* can be found by its authority before the customer can pay it, and one     *)
(* that is still being asked for belongs to a single request, whose          *)
(* unconditional saves therefore write over nobody. A copy that is still the *)
(* newest version is of a pending payment. And what a request has learned    *)
(* from the gateway stays true: a verified payment stays verified, one that  *)
(* is over stays over.                                                       *)
Gateway == {"unknown", "open", "paid", "verified", "over"}

\* The type invariant, but for the variables no property here is about.
Typed ==
    /\ clock \in Nat
    /\ payment \in [Payments -> Payment]
    /\ index \subseteq Payments
    /\ subscription \in Subscription
    /\ gateway \in [Payments -> Gateway]
    /\ at \in [Requests -> Places]
    /\ of \in [Requests -> Payments \cup {NoPayment}]
    /\ paymentRead \in [Requests -> Payment]
    /\ subscriptionRead \in [Requests -> Subscription]

\* Of one payment.
Findable(p) ==
    /\ payment[p].authority <=> p \in index
    /\ p \in index => payment[p].status # "absent"
    /\ payment[p].status # "absent" => payment[p].plan \in ForSale
    /\ p \notin index => gateway[p] \in {"unknown", "open"}
Counted(p) ==
    /\ payment[p].status = "paid" <=> p \in subscription.paidFor
    /\ p \in subscription.paidFor => gateway[p] = "verified"
    /\ payment[p].status = "failed" =>
          p \notin index \/ payment[p].failure = "gave_up" \/ gateway[p] = "over"

\* Of one request: while it asks the gateway for a payment, ...
Asks(r) == at[r] \in {"ask", "link"}
Alone(r) ==
    Asks(r) =>
        /\ of[r] \in Payments /\ of[r] \notin index
        /\ payment[of[r]].status = "pending"
        /\ paymentRead[r].status = "pending" /\ ~paymentRead[r].authority
        /\ paymentRead[r].plan \in ForSale
        /\ \A other \in Requests : Asks(other) /\ of[other] = of[r] => other = r

\* ... and while it settles one.
Settles(r) == at[r] \in {"verify", "close", "mark", "credit", "commit"}
Copied(r) ==
    Settles(r) =>
        /\ of[r] \in index
        /\ paymentRead[r].status = "pending" /\ paymentRead[r].authority
        /\ paymentRead[r].plan \in ForSale
        /\ paymentRead[r].version <= payment[of[r]].version
        /\ IsNewest(r) => payment[of[r]].status = "pending"
Learned(r) ==
    /\ at[r] = "close" => paymentRead[r].failure = "gave_up" \/ gateway[of[r]] = "over"
    /\ at[r] \in {"credit", "commit"} => gateway[of[r]] = "verified"
ReadWhole(r) ==
    at[r] = "commit" =>
        /\ subscriptionRead[r].version <= subscription.version
        /\ subscriptionRead[r].version = subscription.version => subscriptionRead[r] = subscription

IInv ==
    /\ Typed
    /\ \A p \in Payments : Findable(p) /\ Counted(p)
    /\ \A r \in Requests : Alone(r) /\ Copied(r) /\ Learned(r) /\ ReadWhole(r)
------------------------------------------------------------------------
LEMMA InitIInv == Init => IInv
  BY TimesAssumption, PlansAssumption
  DEF Init, IInv, Typed, Gateway, Findable, Counted, Asks, Alone, Settles, Copied,
     Learned, ReadWhole, Payment, Absent, Subscription, NoSubscription, Trial, Failures,
     Places, PlanId

\* What is left of a period is a number of moments.
LEMMA RemainingIsNat ==
  ASSUME NEW current \in Subscription, NEW plan \in ForSale, NEW since \in Nat
  PROVE  RemainingIn(current, plan, since) \in Nat
<1>1. CASE current.version = 0 \/ current.ends <= since
  BY <1>1 DEF RemainingIn
<1>2. CASE ~(current.version = 0 \/ current.ends <= since)
  <2> DEFINE left == current.ends - since
  <2>1. left \in Nat
    BY <1>2 DEF Subscription
  <2>2. CASE current.plan \in {plan, "trial"}
    BY <1>2, <2>1, <2>2 DEF RemainingIn
  <2>3. CASE current.plan \notin {plan, "trial"}
    <3>1. Price[current.plan] \in Nat /\ Price[plan] \in Nat \ {0}
      BY <2>3, PlansAssumption DEF Subscription, PlanId
    <3>2. left * Price[current.plan] \in Nat
      BY <2>1, <3>1
    <3>3. (left * Price[current.plan]) \div Price[plan] \in Nat
      <4> DEFINE whole == left * Price[current.plan]  part == Price[plan]
      <4> HIDE DEF whole, part
      <4>1. whole \in Nat /\ part \in Nat \ {0}
        BY <3>1, <3>2 DEF whole, part
      <4>2. whole \div part \in Nat
        BY <4>1, SMT
      <4> QED BY <4>2 DEF whole, part
    <3> QED BY <1>2, <2>3, <3>3 DEF RemainingIn
  <2> QED BY <2>2, <2>3
<1> QED BY <1>1, <1>2
------------------------------------------------------------------------
(* What each step of a request, of the customer and of the clock keeps.    *)

\* What is saved is a version of the record.
LEMMA SaveTyped ==
  ASSUME payment \in [Payments -> Payment], NEW p \in Payments, NEW written \in Payment,
         Save(p, written)
  PROVE  payment' \in [Payments -> Payment]
<1>1. [written EXCEPT !.version = @ + 1] \in Payment
  BY DEF Payment
<1> QED BY <1>1 DEF Save

\* A request that goes on keeps its copies; one that answers drops them.
LEMMA GotoTyped ==
  ASSUME Typed, NEW r \in Requests, NEW place \in Places, Goto(r, place)
  PROVE  /\ at' \in [Requests -> Places]
         /\ of' \in [Requests -> Payments \cup {NoPayment}]
         /\ paymentRead' \in [Requests -> Payment]
         /\ subscriptionRead' \in [Requests -> Subscription]
<1>1. Absent \in Payment
  BY DEF Absent, Payment, PaymentStatus, PlanId, Failures
<1>2. NoSubscription \in Subscription
  BY DEF NoSubscription, Subscription, PlanId
<1>3. CASE place = "idle"
  BY <1>1, <1>2, <1>3 DEF Goto, Typed
<1>4. CASE place # "idle"
  BY <1>4 DEF Goto, Typed
<1> QED BY <1>3, <1>4

\* A request that answers without writing leaves everything true.
LEMMA AnswerStep ==
  ASSUME IInv, NEW r \in Requests, Goto(r, "idle"), UNCHANGED <<clock, store, gateway>>
  PROVE  IInv'
<1> USE DEF IInv
<1>1. Typed'
  BY GotoTyped DEF Typed, Places, store
<1>2. \A q \in Payments : (Findable(q) /\ Counted(q))'
  BY DEF store, Findable, Counted
<1>3. \A s \in Requests : (Alone(s) /\ Copied(s) /\ Learned(s) /\ ReadWhole(s))'
  BY DEF Goto, Typed, store, Alone, Asks, Copied, Settles, IsNewest, Learned, ReadWhole
<1> QED BY <1>1, <1>2, <1>3

LEMMA CheckoutStep ==
  ASSUME IInv, NEW r \in Requests, NEW p \in Payments, NEW plan \in ForSale, Checkout(r, p, plan)
  PROVE  IInv'
<1> USE DEF IInv
<1>1. Typed'
  <2> DEFINE pay == [Absent EXCEPT !.status = "pending", !.plan = plan, !.created = clock]
  <2>1. pay \in Payment /\ [pay EXCEPT !.version = 1] \in Payment
    BY DEF Typed, Absent, Payment, PaymentStatus, PlanId, Failures
  <2>2. payment' \in [Payments -> Payment]
    BY <2>1, SaveTyped DEF Checkout, Typed
  <2>3. paymentRead' \in [Requests -> Payment]
    BY <2>1 DEF Checkout, Typed
  <2> QED BY <2>2, <2>3 DEF Checkout, Typed, Places
<1>2. \A q \in Payments : (Findable(q) /\ Counted(q))'
  BY DEF Checkout, Save, Absent, Findable, Counted
<1>3. \A s \in Requests : Alone(s)'
  BY DEF Checkout, Save, Absent, Typed, Gateway, Payment, PaymentStatus, Failures,
        Places, PlanId, Subscription, Findable, Alone, Asks, Copied, Settles,
        IsNewest, Absent
<1>4. \A s \in Requests : Copied(s)'
  BY DEF Checkout, Save, Absent, Typed, Gateway, Payment, PaymentStatus, Failures,
        Places, PlanId, Subscription, Findable, Alone, Asks, Copied, Settles,
        IsNewest, Absent
<1>5. \A s \in Requests : Learned(s)'
  BY DEF Checkout, Save, Absent, Typed, Gateway, Payment, PaymentStatus, Failures,
        Places, PlanId, Subscription, Findable, Alone, Asks, Copied, Settles, Learned
<1>6. \A s \in Requests : ReadWhole(s)'
  BY DEF Checkout, ReadWhole
<1> QED BY <1>1, <1>2, <1>3, <1>4, <1>5, <1>6

LEMMA RequestPaymentStep ==
  ASSUME IInv, NEW r \in Requests, RequestPayment(r)
  PROVE  IInv'
<1> USE DEF IInv
<1>1. Typed'
  BY GotoTyped DEF RequestPayment, Typed, Gateway, Places, store
<1>2. \A q \in Payments : (Findable(q) /\ Counted(q))'
  BY DEF RequestPayment, store, Findable, Counted, Alone, Asks
<1>3. \A s \in Requests : Alone(s)'
  BY DEF RequestPayment, Goto, store, Alone, Asks
<1>4. \A s \in Requests : Copied(s)'
  BY DEF RequestPayment, Goto, store, Copied, Settles, IsNewest
<1>5. \A s \in Requests : Learned(s)'
  BY DEF RequestPayment, Goto, Alone, Asks, Copied, Settles, Learned
<1>6. \A s \in Requests : ReadWhole(s)'
  BY DEF RequestPayment, Goto, store, ReadWhole
<1> QED BY <1>1, <1>2, <1>3, <1>4, <1>5, <1>6

LEMMA RequestRefusedStep ==
  ASSUME IInv, NEW r \in Requests, RequestRefused(r)
  PROVE  IInv'
<1> USE DEF IInv
<1>1. Typed'
  <2>1. [paymentRead[r] EXCEPT !.status = "failed", !.failure = "request_refused"] \in Payment
    BY DEF Typed, Payment, PaymentStatus, Failures
  <2>2. of[r] \in Payments
    BY DEF RequestRefused, Alone, Asks
  <2>3. payment' \in [Payments -> Payment]
    BY <2>1, <2>2, SaveTyped DEF RequestRefused, Typed
  <2> QED BY <2>3, GotoTyped DEF RequestRefused, Typed, Places, Gateway
<1>2. \A q \in Payments : (Findable(q) /\ Counted(q))'
  BY DEF RequestRefused, Save, Findable, Counted, Alone, Asks
<1>3. \A s \in Requests : Alone(s)'
  BY DEF RequestRefused, Goto, Save, Typed, Gateway, Payment, PaymentStatus, Failures,
        Places, PlanId, Subscription, Findable, Alone, Asks, Copied, Settles,
        IsNewest, Absent
<1>4. \A s \in Requests : Copied(s)'
  BY DEF RequestRefused, Goto, Save, Typed, Gateway, Payment, PaymentStatus, Failures,
        Places, PlanId, Subscription, Findable, Alone, Asks, Copied, Settles,
        IsNewest, Absent
<1>5. \A s \in Requests : Learned(s)'
  BY DEF RequestRefused, Goto, Save, Typed, Gateway, Payment, PaymentStatus, Failures,
        Places, PlanId, Subscription, Findable, Alone, Asks, Copied, Settles, Learned
<1>6. \A s \in Requests : ReadWhole(s)'
  BY DEF RequestRefused, Goto, Typed, ReadWhole
<1> QED BY <1>1, <1>2, <1>3, <1>4, <1>5, <1>6

LEMMA LinkAuthorityStep ==
  ASSUME IInv, NEW r \in Requests, LinkAuthority(r)
  PROVE  IInv'
<1> USE DEF IInv
<1>1. Typed'
  <2>1. [paymentRead[r] EXCEPT !.authority = TRUE] \in Payment
    BY DEF Typed, Payment
  <2>2. of[r] \in Payments
    BY DEF LinkAuthority, Alone, Asks
  <2>3. payment' \in [Payments -> Payment]
    BY <2>1, <2>2, SaveTyped DEF LinkAuthority, Typed
  <2> QED BY <2>2, <2>3, GotoTyped DEF LinkAuthority, Typed, Places
<1>2. \A q \in Payments : (Findable(q) /\ Counted(q))'
  BY DEF LinkAuthority, Goto, Save, Typed, Gateway, Payment, PaymentStatus, Failures,
        Places, PlanId, Subscription, Findable, Counted, Alone, Asks, Copied, Settles,
        Learned, IsNewest, Absent
<1>3. \A s \in Requests : Alone(s)'
  BY DEF LinkAuthority, Goto, Save, Typed, Gateway, Payment, PaymentStatus, Failures,
        Places, PlanId, Subscription, Findable, Alone, Asks, Copied, Settles,
        IsNewest, Absent
<1>4. \A s \in Requests : Copied(s)'
  BY DEF LinkAuthority, Goto, Save, Typed, Gateway, Payment, PaymentStatus, Failures,
        Places, PlanId, Subscription, Findable, Alone, Asks, Copied, Settles,
        IsNewest, Absent
<1>5. \A s \in Requests : Learned(s)'
  BY DEF LinkAuthority, Goto, Save, Typed, Gateway, Payment, PaymentStatus, Failures,
        Places, PlanId, Subscription, Findable, Alone, Asks, Copied, Settles, Learned
<1>6. \A s \in Requests : ReadWhole(s)'
  BY DEF LinkAuthority, Goto, Save, Typed, Gateway, Payment, PaymentStatus, Failures,
        Places, PlanId, Subscription, ReadWhole
<1> QED BY <1>1, <1>2, <1>3, <1>4, <1>5, <1>6

LEMMA PayStep ==
  ASSUME IInv, NEW p \in Payments, Pay(p)
  PROVE  IInv'
<1> USE DEF IInv
<1>1. Typed'
  BY DEF Pay, store, local, Typed, Gateway
<1>2. \A q \in Payments : (Findable(q) /\ Counted(q))'
  BY DEF Pay, store, Findable, Counted
<1>3. \A s \in Requests : Alone(s)'
  BY DEF Pay, store, local, Alone, Asks
<1>4. \A s \in Requests : Copied(s)'
  BY DEF Pay, store, local, Copied, Settles, IsNewest
<1>5. \A s \in Requests : Learned(s)'
  BY DEF Pay, local, Learned
<1>6. \A s \in Requests : ReadWhole(s)'
  BY DEF Pay, store, local, ReadWhole
<1> QED BY <1>1, <1>2, <1>3, <1>4, <1>5, <1>6

LEMMA TurnBackStep ==
  ASSUME IInv, NEW p \in Payments, TurnBack(p)
  PROVE  IInv'
<1> USE DEF IInv
<1>1. Typed'
  BY DEF TurnBack, store, local, Typed, Gateway
<1>2. \A q \in Payments : (Findable(q) /\ Counted(q))'
  BY DEF TurnBack, store, Findable, Counted
<1>3. \A s \in Requests : Alone(s)'
  BY DEF TurnBack, store, local, Alone, Asks
<1>4. \A s \in Requests : Copied(s)'
  BY DEF TurnBack, store, local, Copied, Settles, IsNewest
<1>5. \A s \in Requests : Learned(s)'
  BY DEF TurnBack, local, Learned
<1>6. \A s \in Requests : ReadWhole(s)'
  BY DEF TurnBack, store, local, ReadWhole
<1> QED BY <1>1, <1>2, <1>3, <1>4, <1>5, <1>6

LEMMA SettleStep ==
  ASSUME IInv, NEW r \in Requests, NEW p \in Payments, Settle(r, p)
  PROVE  IInv'
<1> USE DEF IInv
<1>1. Typed'
  <2>1. payment[p] \in Payment /\ [payment[p] EXCEPT !.failure = "cancelled"] \in Payment
    BY DEF Typed, Payment, Failures
  <2>2. paymentRead' \in [Requests -> Payment] /\ at' \in [Requests -> Places]
    BY <2>1 DEF Settle, Typed, Places
  <2> QED BY <2>2 DEF Settle, Typed, store
<1>2. \A q \in Payments : (Findable(q) /\ Counted(q))'
  BY DEF Settle, store, Findable, Counted
<1>3. \A s \in Requests : Alone(s)'
  BY DEF Settle, store, Typed, Alone, Asks
<1>4. \A s \in Requests : Copied(s)'
  <2>1. PICK read : /\ read \in {payment[p], [payment[p] EXCEPT !.failure = "cancelled"]}
                    /\ paymentRead' = [paymentRead EXCEPT ![r] = read]
    BY DEF Settle
  <2>2. /\ read.status = "pending" /\ read.authority /\ read.plan \in ForSale
        /\ read.version = payment[p].version /\ read.version \in Nat
    BY <2>1 DEF Settle, Typed, Payment, Findable
  <2>3. of' = [of EXCEPT ![r] = p] /\ p \in index /\ UNCHANGED <<payment, index>>
    BY DEF Settle, store
  <2>4. Copied(r)'
    BY <2>1, <2>2, <2>3 DEF Settle, Typed, Copied, IsNewest
  <2>5. ASSUME NEW s \in Requests, s # r PROVE Copied(s)'
    BY <2>1, <2>3, <2>5 DEF Settle, Typed, Copied, Settles, IsNewest
  <2> QED BY <2>4, <2>5
<1>5. \A s \in Requests : Learned(s)'
  BY DEF Settle, Typed, Learned
<1>6. \A s \in Requests : ReadWhole(s)'
  BY DEF Settle, store, Typed, ReadWhole
<1> QED BY <1>1, <1>2, <1>3, <1>4, <1>5, <1>6

LEMMA RecheckStep ==
  ASSUME IInv, NEW r \in Requests, NEW p \in Payments, Recheck(r, p)
  PROVE  IInv'
<1> USE DEF IInv
<1>1. Typed'
  BY DEF Recheck, store, Typed, Places
<1>2. \A q \in Payments : (Findable(q) /\ Counted(q))'
  BY DEF Recheck, store, Findable, Counted
<1>3. \A s \in Requests : Alone(s)'
  BY DEF Recheck, store, Alone, Asks
<1>4. \A s \in Requests : Copied(s)'
  BY DEF Recheck, store, Typed, Payment, Findable, Copied, Settles, IsNewest
<1>5. \A s \in Requests : Learned(s)'
  BY DEF Recheck, Learned
<1>6. \A s \in Requests : ReadWhole(s)'
  BY DEF Recheck, store, ReadWhole
<1> QED BY <1>1, <1>2, <1>3, <1>4, <1>5, <1>6

LEMMA VerifiedPaidStep ==
  ASSUME IInv, NEW r \in Requests, VerifiedPaid(r)
  PROVE  IInv'
<1> USE DEF IInv
<1>1. Typed'
  BY GotoTyped DEF VerifiedPaid, Typed, Gateway, Places, store
<1>2. \A q \in Payments : (Findable(q) /\ Counted(q))'
  BY DEF VerifiedPaid, store, Findable, Counted
<1>3. \A s \in Requests : Alone(s)'
  BY DEF VerifiedPaid, Goto, store, Alone, Asks
<1>4. \A s \in Requests : Copied(s)'
  BY DEF VerifiedPaid, Goto, store, Copied, Settles, IsNewest
<1>5. \A s \in Requests : Learned(s)'
  BY DEF VerifiedPaid, Goto, Typed, Copied, Settles, Learned
<1>6. \A s \in Requests : ReadWhole(s)'
  BY DEF VerifiedPaid, Goto, store, ReadWhole
<1> QED BY <1>1, <1>2, <1>3, <1>4, <1>5, <1>6

LEMMA VerifiedUnpaidStep ==
  ASSUME IInv, NEW r \in Requests, VerifiedUnpaid(r)
  PROVE  IInv'
<1> USE DEF IInv
<1>1. Typed'
  <2>1. [paymentRead[r] EXCEPT !.failure = "not_paid"] \in Payment
    BY DEF Typed, Payment, Failures
  <2>2. paymentRead' \in [Requests -> Payment]
    BY <2>1 DEF VerifiedUnpaid, Typed
  <2> QED BY <2>2 DEF VerifiedUnpaid, Typed, Places, Gateway, store
<1>2. \A q \in Payments : (Findable(q) /\ Counted(q))'
  BY DEF VerifiedUnpaid, store, Findable, Counted, Copied, Settles
<1>3. \A s \in Requests : Alone(s)'
  BY DEF VerifiedUnpaid, store, Alone, Asks
<1>4. \A s \in Requests : Copied(s)'
  BY DEF VerifiedUnpaid, store, Copied, Settles, IsNewest
<1>5. \A s \in Requests : Learned(s)'
  BY DEF VerifiedUnpaid, Typed, Copied, Settles, Learned
<1>6. \A s \in Requests : ReadWhole(s)'
  BY DEF VerifiedUnpaid, store, ReadWhole
<1> QED BY <1>1, <1>2, <1>3, <1>4, <1>5, <1>6

LEMMA VerifyFailsStep ==
  ASSUME IInv, NEW r \in Requests, VerifyFails(r)
  PROVE  IInv'
<1> USE DEF IInv
<1>1. Typed'
  <2>1. [paymentRead[r] EXCEPT !.failure = "gave_up"] \in Payment
    BY DEF Typed, Payment, Failures
  <2>2. paymentRead' \in [Requests -> Payment] /\ at' \in [Requests -> Places]
    BY <2>1 DEF VerifyFails, Typed, Places
  <2>3. gateway' \in [Payments -> Gateway]
    BY DEF VerifyFails, Typed, Gateway
  <2> QED BY <2>2, <2>3 DEF VerifyFails, Typed, store
<1>2. \A q \in Payments : (Findable(q) /\ Counted(q))'
  BY DEF VerifyFails, store, Typed, Findable, Counted
<1>3. \A s \in Requests : Alone(s)'
  BY DEF VerifyFails, store, Typed, Gateway, Payment, PaymentStatus, Failures, Places,
        PlanId, Subscription, Findable, Alone, Asks, Copied, Settles, IsNewest, Absent
<1>4. \A s \in Requests : Copied(s)'
  BY DEF VerifyFails, store, Typed, Gateway, Payment, PaymentStatus, Failures, Places,
        PlanId, Subscription, Findable, Alone, Asks, Copied, Settles, IsNewest, Absent
<1>5. \A s \in Requests : Learned(s)'
  BY DEF VerifyFails, Typed, Payment, Copied, Settles, Learned
<1>6. \A s \in Requests : ReadWhole(s)'
  BY DEF VerifyFails, store, Typed, ReadWhole
<1> QED BY <1>1, <1>2, <1>3, <1>4, <1>5, <1>6

\* A request that saves what it read, if nobody saved in between, and answers.
LEMMA SaveAndAnswerStep ==
  ASSUME IInv, NEW r \in Requests, Settles(r), NEW written \in Payment,
         written.authority, written.plan = paymentRead[r].plan,
         written.version = paymentRead[r].version, written.status \in {"pending", "failed"},
         written.status = "failed" => written.failure = "gave_up" \/ gateway[of[r]] = "over",
         SaveAndAnswer(r, written)
  PROVE  IInv'
<1> USE DEF IInv
<1>1. CASE ~IsNewest(r)
  BY <1>1, AnswerStep DEF SaveAndAnswer, store
<1>2. CASE IsNewest(r)
  <2>1. of[r] \in index /\ of[r] \in Payments
    BY DEF Copied, Typed
  <2>2. payment' = [payment EXCEPT ![of[r]] = [written EXCEPT !.version = @ + 1]]
    BY <1>2 DEF SaveAndAnswer, Save
  <2>3. payment[of[r]].status = "pending" /\ paymentRead[r].authority /\ paymentRead[r].plan \in ForSale
    BY <1>2 DEF Copied
  <2>4. written.version = payment[of[r]].version
    BY <1>2 DEF IsNewest
  <2>5. UNCHANGED <<clock, index, subscription, gateway>> /\ Goto(r, "idle")
    BY DEF SaveAndAnswer
  <2>6. Typed'
    <3>1. payment' \in [Payments -> Payment]
      BY <1>2, <2>1, SaveTyped DEF SaveAndAnswer, Typed
    <3> QED BY <2>5, <3>1, GotoTyped DEF Typed, Places
  <2>7. \A q \in Payments : (Findable(q) /\ Counted(q))'
    BY <2>1, <2>2, <2>3, <2>5 DEF Typed, Payment, Findable, Counted
  <2>8. \A s \in Requests : Alone(s)'
    BY <2>1, <2>2, <2>5 DEF Goto, Typed, Alone, Asks
  <2>9. \A s \in Requests : Copied(s)'
    BY <2>1, <2>2, <2>4, <2>5 DEF Goto, Typed, Payment, Copied, Settles, IsNewest
  <2>10. \A s \in Requests : (Learned(s) /\ ReadWhole(s))'
    BY <2>5 DEF Goto, Typed, Learned, ReadWhole
  <2> QED BY <2>6, <2>7, <2>8, <2>9, <2>10
<1> QED BY <1>1, <1>2

LEMMA MarkStep ==
  ASSUME IInv, NEW r \in Requests, Mark(r)
  PROVE  IInv'
<1>1. CASE paymentRead[r].tried
  BY <1>1, AnswerStep DEF Mark
<1>2. CASE ~paymentRead[r].tried
  <2> DEFINE written == [paymentRead[r] EXCEPT !.tried = TRUE]
  <2>1. Settles(r)
    BY DEF Mark, Settles
  <2>2. /\ written \in Payment
        /\ written.authority /\ written.plan = paymentRead[r].plan
        /\ written.version = paymentRead[r].version /\ written.status = "pending"
    BY <2>1 DEF IInv, Typed, Payment, Copied
  <2>3. SaveAndAnswer(r, written)
    BY <1>2 DEF Mark
  <2> HIDE DEF written
  <2> QED BY <2>1, <2>2, <2>3, SaveAndAnswerStep
<1> QED BY <1>1, <1>2

LEMMA CloseStep ==
  ASSUME IInv, NEW r \in Requests, Close(r)
  PROVE  IInv'
<1> DEFINE written == [paymentRead[r] EXCEPT !.status = "failed"]
<1>1. Settles(r)
  BY DEF Close, Settles
<1>2. /\ written \in Payment
      /\ written.authority /\ written.plan = paymentRead[r].plan
      /\ written.version = paymentRead[r].version /\ written.status = "failed"
  BY <1>1 DEF IInv, Typed, Payment, PaymentStatus, Copied
<1>3. written.failure = "gave_up" \/ gateway[of[r]] = "over"
  BY DEF Close, IInv, Typed, Payment, Learned
<1>4. SaveAndAnswer(r, written)
  BY DEF Close
<1> HIDE DEF written
<1> QED BY <1>1, <1>2, <1>3, <1>4, SaveAndAnswerStep

\* A transaction that is tried again reads a pending payment afresh.
LEMMA ConflictStep ==
  ASSUME IInv, NEW r \in Requests, at[r] \in {"credit", "commit"}, Conflict(r)
  PROVE  IInv'
<1> USE DEF IInv
<1>1. CASE payment[of[r]].status # "pending" \/ tries[r] + 1 >= CREDIT_ATTEMPTS
  BY <1>1, AnswerStep DEF Conflict
<1>2. CASE ~(payment[of[r]].status # "pending" \/ tries[r] + 1 >= CREDIT_ATTEMPTS)
  <2>1. of[r] \in index /\ of[r] \in Payments /\ payment[of[r]] \in Payment
    BY DEF Copied, Settles, Typed
  <2>2. /\ at' = [at EXCEPT ![r] = "credit"]
        /\ paymentRead' = [paymentRead EXCEPT ![r] = payment[of[r]]]
        /\ subscriptionRead' = [subscriptionRead EXCEPT ![r] = NoSubscription]
        /\ UNCHANGED <<of, clock, payment, index, subscription, gateway>>
    BY <1>2 DEF Conflict, store
  <2>3. Typed'
    BY <2>1, <2>2 DEF Typed, Places, Subscription, NoSubscription, PlanId
  <2>4. \A q \in Payments : (Findable(q) /\ Counted(q))'
    BY <2>2 DEF Findable, Counted
  <2>5. \A s \in Requests : Alone(s)'
    BY <2>2 DEF Typed, Alone, Asks
  <2>6. \A s \in Requests : Copied(s)'
    BY <1>2, <2>1, <2>2 DEF Typed, Payment, Findable, Copied, Settles, IsNewest
  <2>7. \A s \in Requests : (Learned(s) /\ ReadWhole(s))'
    BY <2>2 DEF Typed, Learned, ReadWhole
  <2> QED BY <2>3, <2>4, <2>5, <2>6, <2>7
<1> QED BY <1>1, <1>2

LEMMA CreditBeginStep ==
  ASSUME IInv, NEW r \in Requests, CreditBegin(r)
  PROVE  IInv'
<1> USE DEF IInv
<1>1. CASE ~IsNewest(r)
  BY <1>1, ConflictStep DEF CreditBegin
<1>2. CASE IsNewest(r)
  <2>1. /\ at[r] = "credit" /\ at' = [at EXCEPT ![r] = "commit"]
        /\ subscriptionRead' = [subscriptionRead EXCEPT ![r] = subscription]
        /\ UNCHANGED <<of, paymentRead, clock, payment, index, subscription, gateway>>
    BY <1>2 DEF CreditBegin, store
  <2>2. Typed'
    BY <2>1 DEF Typed, Places
  <2>3. \A q \in Payments : (Findable(q) /\ Counted(q))'
    BY <2>1 DEF Findable, Counted
  <2>4. \A s \in Requests : (Alone(s) /\ Copied(s))'
    BY <2>1 DEF Typed, Alone, Asks, Copied, Settles, IsNewest
  <2>5. \A s \in Requests : (Learned(s) /\ ReadWhole(s))'
    BY <2>1 DEF Typed, Subscription, Learned, ReadWhole
  <2> QED BY <2>2, <2>3, <2>4, <2>5
<1> QED BY <1>1, <1>2

\* The payment and its month land together: both records were the ones it read.
LEMMA CreditStep ==
  ASSUME IInv, NEW r \in Requests, Credit(r)
  PROVE  IInv'
<1> USE DEF IInv
<1>1. CASE ~MayCommit(r)
  BY <1>1, ConflictStep DEF Credit
<1>2. CASE MayCommit(r)
  <2> DEFINE p == of[r]
             written == [paymentRead[r] EXCEPT !.status = "paid"]
             plan == paymentRead[r].plan
  <2>1. /\ p \in index /\ p \in Payments /\ plan \in ForSale
        /\ payment[p].status = "pending" /\ paymentRead[r].authority
        /\ gateway[p] = "verified" /\ subscriptionRead[r] = subscription
    BY <1>2 DEF Credit, MayCommit, Copied, Settles, Learned, ReadWhole, Typed
  <2>2. /\ payment' = [payment EXCEPT ![p] = [written EXCEPT !.version = @ + 1]]
        /\ subscription' = Renewed(subscription, plan, p, clock)
        /\ UNCHANGED <<clock, index, gateway>> /\ Goto(r, "idle")
    BY <1>2, <2>1 DEF Credit, Save
  <2>3. written \in Payment /\ written.version = payment[p].version
    BY <1>2 DEF Typed, Payment, PaymentStatus, MayCommit, IsNewest
  <2>4. subscription' \in Subscription /\ subscription'.version = subscription.version + 1
        /\ subscription'.paidFor = subscription.paidFor \cup {p}
    <3>1. RemainingIn(subscription, plan, clock) \in Nat
      BY <2>1, RemainingIsNat DEF Typed
    <3>2. plan \in PlanId /\ PERIOD \in Nat
      BY <2>1, TimesAssumption DEF PlanId
    <3> QED BY <2>1, <2>2, <3>1, <3>2 DEF Typed, Subscription, Renewed
  <2>5. Typed'
    <3>1. payment' \in [Payments -> Payment]
      BY <1>2, <2>1, <2>3, SaveTyped DEF Credit, Typed
    <3> QED BY <2>2, <2>4, <3>1, GotoTyped DEF Typed, Places
  <2>6. \A q \in Payments : (Findable(q) /\ Counted(q))'
    BY <2>1, <2>2, <2>3, <2>4 DEF Typed, Payment, Findable, Counted
  <2>7. \A s \in Requests : Alone(s)'
    BY <2>1, <2>2 DEF Goto, Typed, Alone, Asks
  <2>8. \A s \in Requests : Copied(s)'
    BY <2>1, <2>2, <2>3 DEF Goto, Typed, Payment, Copied, Settles, IsNewest
  <2>9. \A s \in Requests : Learned(s)'
    BY <2>2 DEF Goto, Typed, Learned
  <2>10. \A s \in Requests : ReadWhole(s)'
    BY <2>2, <2>4 DEF Goto, Typed, Subscription, ReadWhole
  <2> QED BY <2>5, <2>6, <2>7, <2>8, <2>9, <2>10
<1> QED BY <1>1, <1>2

LEMMA StopRequestStep ==
  ASSUME IInv, NEW r \in Requests, StopRequest(r)
  PROVE  IInv'
  BY AnswerStep DEF StopRequest

LEMMA TickStep ==
  ASSUME IInv, Tick
  PROVE  IInv'
<1> USE DEF IInv
<1>1. Typed'
  BY DEF Tick, store, local, Typed
<1>2. \A q \in Payments : (Findable(q) /\ Counted(q))'
  BY DEF Tick, store, Findable, Counted
<1>3. \A s \in Requests : Alone(s)'
  BY DEF Tick, store, local, Alone, Asks
<1>4. \A s \in Requests : Copied(s)'
  BY DEF Tick, store, local, Copied, Settles, IsNewest
<1>5. \A s \in Requests : Learned(s)'
  BY DEF Tick, local, Learned
<1>6. \A s \in Requests : ReadWhole(s)'
  BY DEF Tick, local, ReadWhole
<1> QED BY <1>1, <1>2, <1>3, <1>4, <1>5, <1>6

------------------------------------------------------------------------
LEMMA NextIInv == IInv /\ [Next]_vars => IInv'
<1> SUFFICES ASSUME IInv, [Next]_vars PROVE IInv'
  OBVIOUS
<1>1. CASE Next
  BY <1>1, CheckoutStep, RequestPaymentStep, RequestRefusedStep, LinkAuthorityStep,
        PayStep,
     TurnBackStep, SettleStep, RecheckStep, VerifiedPaidStep, VerifiedUnpaidStep,
     VerifyFailsStep, MarkStep, CloseStep, CreditBeginStep, CreditStep, StopRequestStep,
     TickStep
  DEF Next, Serve
<1>2. CASE UNCHANGED vars
  BY <1>2 DEF IInv, vars, store, local, Typed, Findable, Counted, Alone, Asks, Copied,
     Settles, IsNewest, Learned, ReadWhole
<1> QED BY <1>1, <1>2

LEMMA IInvAlways == Spec => []IInv
  BY InitIInv, NextIInv, PTL DEF Spec

(* Whatever races, fails or stops half way, a payment is called paid exactly *)
(* when its month is counted, failed only when it was not made or the gateway *)
(* gave no answer, and can be found once it can be paid (Billing.checkout,   *)
(* settle, recheck): for any payments, requests, plans and bounds.           *)
THEOREM SpecPaymentsAreTrue == Spec => []PaymentsAreTrue
<1>1. IInv => PaymentsAreTrue
  <2> SUFFICES ASSUME IInv PROVE PaymentsAreTrue
    OBVIOUS
  <2>1. PaidMeansCounted
    BY DEF IInv, Typed, Subscription, Counted, PaidMeansCounted
  <2>2. FailedWasNotPaid
    BY DEF IInv, Findable, Counted, FailedWasNotPaid
  <2>3. PaidCanBeFound
    BY DEF IInv, Findable, PaidCanBeFound
  <2> QED BY <2>1, <2>2, <2>3 DEF PaymentsAreTrue
<1> QED BY <1>1, IInvAlways, PTL
------------------------------------------------------------------------
(* Checkout, return, recheck and credit implement the promise of PaidMonths: *)
(* each payment counts one month, on top of what was left of the ones before *)
(* (Billing._credit, renewed): for any payments, requests, plans and bounds. *)
THEOREM SpecImplementsPaidMonths == Spec => ImplementsPaidMonths
<1>1. Init => Months!Init
  BY DEF Init, Months!Init, NoSubscription, Trial
<1>2. IInv /\ [Next]_vars => [Months!Next]_<<clock, subscription, subscription.paidFor>>
  <2> SUFFICES ASSUME IInv, [Next]_vars
               PROVE  [Months!Next]_<<clock, subscription, subscription.paidFor>>
    OBVIOUS
  <2>1. CASE Tick
    BY <2>1 DEF Tick, store, Months!Next, Months!Tick
  <2>2. ASSUME NEW r \in Requests, Credit(r), MayCommit(r) PROVE Months!Next
    <3> DEFINE p == of[r]  plan == paymentRead[r].plan
    <3>1. /\ p \in Payments /\ plan \in ForSale /\ payment[p].status = "pending"
          /\ subscriptionRead[r] = subscription
      BY <2>2 DEF IInv, Credit, MayCommit, Copied, Settles, ReadWhole, Typed
    <3>2. p \notin subscription.paidFor
      BY <3>1 DEF IInv, Counted
    <3>3. subscription' = Renewed(subscription, plan, p, clock) /\ UNCHANGED clock
      BY <2>2, <3>1 DEF Credit
    <3>4. RemainingIn(subscription, plan, clock) = Months!Left(clock, plan)
      <4>1. CASE ~(subscription.version = 0 \/ subscription.ends <= clock)
        BY <4>1 DEF RemainingIn, Months!Left
      <4>2. CASE /\ subscription.version = 0 \/ subscription.ends <= clock
                 /\ subscription.plan \in {plan, "trial"}
        BY <4>2 DEF RemainingIn, Months!Left
      <4>3. CASE /\ subscription.version = 0 \/ subscription.ends <= clock
                 /\ subscription.plan \notin {plan, "trial"}
        <5> DEFINE theirs == Price[subscription.plan]  ours == Price[plan]
        <5>1. theirs \in Nat /\ ours \in Nat \ {0}
          BY <3>1, <4>3, PlansAssumption DEF IInv, Typed, Subscription, PlanId
        <5>2. (0 * theirs) \div ours = 0
          <6> HIDE DEF theirs, ours
          <6>1. 0 * theirs = 0
            BY <5>1
          <6>2. 0 \div ours = 0
            BY <5>1
          <6> QED BY <6>1, <6>2
        <5>3. RemainingIn(subscription, plan, clock) = 0
          BY <4>3 DEF RemainingIn
        <5>4. Months!Left(clock, plan) = (0 * theirs) \div ours
          BY <4>3 DEF Months!Left
        <5> QED BY <5>2, <5>3, <5>4
      <4> QED BY <4>1, <4>2, <4>3
    <3>5. Months!CountMonth(p, plan)
      BY <3>2, <3>3, <3>4 DEF Renewed, Months!CountMonth
    <3> QED BY <3>1, <3>5 DEF Months!Next
  <2>3. ASSUME ~Tick, ~\E r \in Requests : Credit(r) /\ MayCommit(r)
        PROVE  UNCHANGED <<clock, subscription, subscription.paidFor>>
    BY <2>3 DEF Next, vars, store, Serve, Checkout, RequestPayment, RequestRefused,
       LinkAuthority, Pay, TurnBack, Settle, Recheck, VerifiedPaid, VerifiedUnpaid,
       VerifyFails, Mark, SaveAndAnswer, Close, Conflict, CreditBegin, Credit, StopRequest
  <2> QED BY <2>1, <2>2, <2>3
<1> QED BY <1>1, <1>2, IInvAlways, PTL DEF Spec, ImplementsPaidMonths, Months!Spec
------------------------------------------------------------------------
(* The types of the variables that decide nothing above.                   *)
Counters ==
    /\ order \in Seq(Payments)
    /\ tries \in [Requests -> Nat] /\ faults \in Nat /\ stops \in Nat

LEMMA OthersTyped ==
  ASSUME order \in Seq(Payments), NEW p
  PROVE  Others(p) \in Seq(Payments)
<1> DEFINE places == {i \in 1..Len(order) : order[i] = p}
           place == CHOOSE i \in places : TRUE
<1>1. CASE places = {}
  BY <1>1 DEF Others
<1>2. CASE places # {}
  <2>1. place \in 1..Len(order)
    BY <1>2
  <2> HIDE DEF place
  <2>2. /\ SubSeq(order, 1, place - 1) \in Seq(Payments)
        /\ SubSeq(order, place + 1, Len(order)) \in Seq(Payments)
    BY <2>1, SubSeqProperties
  <2>3. Others(p) = SubSeq(order, 1, place - 1) \o SubSeq(order, place + 1, Len(order))
    BY <1>2 DEF Others, place
  <2> QED BY <2>2, <2>3
<1> QED BY <1>1, <1>2

\* A request under way is about a payment.
LEMMA BusyHasPayment ==
  ASSUME IInv, NEW r \in Requests, at[r] # "idle"
  PROVE  of[r] \in Payments
<1>1. Asks(r) \/ Settles(r)
  BY DEF IInv, Typed, Places, Asks, Settles
<1> QED BY <1>1 DEF IInv, Typed, Alone, Copied

\* What a step does to the order of the payments.
LEMMA OrderStep ==
  ASSUME IInv, Next
  PROVE  UNCHANGED order \/ \E p \in Payments : order' = Append(Others(p), p)
<1>1. \A r \in Requests : at[r] # "idle" => of[r] \in Payments
  BY BusyHasPayment
<1>2. CASE \E p \in Payments : Pay(p) \/ TurnBack(p)
  BY <1>2 DEF Pay, TurnBack, store
<1>3. CASE Tick
  BY <1>3 DEF Tick, store
<1>4. CASE \E r \in Requests, p \in Payments :
              Settle(r, p) \/ Recheck(r, p) \/ \E plan \in ForSale : Checkout(r, p, plan)
  BY <1>4 DEF Settle, Recheck, Checkout, Save, store
<1>5. CASE \E r \in Requests : RequestPayment(r) \/ VerifiedPaid(r) \/ VerifiedUnpaid(r)
                               \/ CreditBegin(r) \/ VerifyFails(r) \/ StopRequest(r)
  BY <1>5 DEF RequestPayment, VerifiedPaid, VerifiedUnpaid, CreditBegin, Conflict,
     VerifyFails, StopRequest, store
<1>6. CASE \E r \in Requests : LinkAuthority(r) \/ Mark(r) \/ Close(r) \/ Credit(r)
                               \/ RequestRefused(r)
  BY <1>1, <1>6 DEF LinkAuthority, Mark, Close, Credit, Conflict, RequestRefused,
     SaveAndAnswer, Save, store
<1> QED BY <1>2, <1>3, <1>4, <1>5, <1>6 DEF Next, Serve

\* What a step does to the number of attempts, of faults and of stops.
LEMMA CountStep ==
  ASSUME Next
  PROVE  /\ \/ UNCHANGED tries
            \/ \E r \in Requests : tries' = [tries EXCEPT ![r] = 0]
            \/ \E r \in Requests : tries' = [tries EXCEPT ![r] = @ + 1]
         /\ faults' \in {faults, faults + 1} /\ stops' \in {stops, stops + 1}
<1>1. CASE Tick \/ \E p \in Payments : Pay(p) \/ TurnBack(p)
  BY <1>1 DEF Pay, TurnBack, Tick, local
<1>2. CASE \E r \in Requests, p \in Payments :
              Settle(r, p) \/ Recheck(r, p) \/ \E plan \in ForSale : Checkout(r, p, plan)
  BY <1>2 DEF Settle, Recheck, Checkout
<1>3. CASE \E r \in Requests : RequestPayment(r) \/ VerifiedPaid(r) \/ VerifiedUnpaid(r)
                               \/ VerifyFails(r) \/ StopRequest(r)
                               \/ LinkAuthority(r) \/ RequestRefused(r)
  BY <1>3 DEF RequestPayment, VerifiedPaid, VerifiedUnpaid, VerifyFails, StopRequest,
     LinkAuthority, RequestRefused, Goto
<1>4. CASE \E r \in Requests : Mark(r) \/ Close(r) \/ CreditBegin(r) \/ Credit(r)
  BY <1>4 DEF Mark, Close, CreditBegin, Credit, Conflict, SaveAndAnswer, Goto
<1> QED BY <1>1, <1>2, <1>3, <1>4 DEF Next, Serve

LEMMA CountersStep == IInv /\ Counters /\ [Next]_vars => Counters'
<1> SUFFICES ASSUME IInv, Counters, [Next]_vars PROVE Counters'
  OBVIOUS
<1>1. CASE UNCHANGED vars
  BY <1>1 DEF Counters, vars, store, local
<1>2. CASE Next
  <2>1. \A p \in Payments : Append(Others(p), p) \in Seq(Payments)
    BY OthersTyped DEF Counters
  <2>2. order' \in Seq(Payments)
    BY <1>2, <2>1, OrderStep DEF Counters
  <2>3. tries' \in [Requests -> Nat] /\ faults' \in Nat /\ stops' \in Nat
    BY <1>2, CountStep DEF Counters
  <2> QED BY <2>2, <2>3 DEF Counters
<1> QED BY <1>1, <1>2

LEMMA InitCounters == Init => Counters
  BY DEF Init, Counters

LEMMA BillingTypes == IInv /\ Counters => TypeOK
  BY BusyHasPayment DEF IInv, Typed, Counters, TypeOK, Gateway

(* Every variable of the payments keeps its type; a request under way is     *)
(* about a payment (Billing.checkout, settle, recheck).                      *)
THEOREM SpecTypeOK == Spec => []TypeOK
<1>1. Init => IInv /\ Counters
  BY InitIInv, InitCounters
<1>2. IInv /\ Counters /\ [Next]_vars => (IInv /\ Counters)'
  BY NextIInv, CountersStep
<1>3. IInv /\ Counters => TypeOK
  BY BillingTypes
<1> QED BY <1>1, <1>2, <1>3, PTL DEF Spec
-----------------------------------------------------------------------------

(* A site's settings: a copy of the newest version is that version, so what *)
(* is written differs from it in the one setting the request is about.      *)
SettingsCopies ==
    \A r \in Requests : stage[r] # "idle" =>
        /\ copy[r].status = "active" /\ copy[r].stamp <= site.stamp
        /\ copy[r].stamp = site.stamp => copy[r] = site
        /\ stage[r] = "shared" => copy[r].owned
SettingsInv ==
    /\ S!TypeOK
    /\ vault = site.adapter
    /\ site.gsc = "shared" => site.owned
    /\ SettingsCopies
-----------------------------------------------------------------------------
LEMMA WrittenIsSite ==
  ASSUME NEW old \in S!Site, NEW write \in S!Writes, NEW config \in Adapters \cup {None}
  PROVE  LET new == S!Written(write, old, config) IN
         /\ new \in S!Site /\ new.stamp = old.stamp
         /\ new.adapter = IF write = "adapter" THEN config ELSE old.adapter
         /\ new.gsc = IF write \in {"own", "shared"} THEN write ELSE old.gsc
         /\ new.owned = (old.owned \/ write = "owned")
  <1> USE DEF S!Site
  <1>1. CASE write = "remove"
    BY <1>1 DEF S!Written
  <1>2. CASE write = "adapter"
    BY <1>2 DEF S!Written
  <1>3. CASE write \in {"own", "shared"}
    BY <1>3 DEF S!Written
  <1>4. CASE write = "tag"
    BY <1>4 DEF S!Written
  <1>5. CASE write = "owned"
    BY <1>5 DEF S!Written
  <1> QED
    BY <1>1, <1>2, <1>3, <1>4, <1>5 DEF S!Writes

LEMMA SettingsStart == S!Init => SettingsInv
  <1> SUFFICES ASSUME S!Init PROVE SettingsInv
    OBVIOUS
  <1> USE DEF S!Init, S!New
  <1>1. S!TypeOK
    BY DEF S!TypeOK, S!Site, S!Writes
  <1> QED
    BY <1>1 DEF SettingsInv, SettingsCopies

\* A write over the newest version.
LEMMA WriteSettings ==
  ASSUME SettingsInv, NEW r \in Requests, S!Write(r)
  PROVE  SettingsInv' /\ S!SettingsStep
  <1> DEFINE new == S!Written(stage[r], site, sent[r])
  <1>1. /\ stage[r] \in S!Writes /\ sent[r] \in Adapters \cup {None}
        /\ site \in S!Site /\ copy[r] = site /\ site.status = "active"
    BY DEF S!Write, SettingsInv, SettingsCopies, S!TypeOK
  <1>2. /\ new \in S!Site /\ new.stamp = site.stamp
        /\ new.adapter = IF stage[r] = "adapter" THEN sent[r] ELSE site.adapter
        /\ new.gsc = IF stage[r] \in {"own", "shared"} THEN stage[r] ELSE site.gsc
        /\ new.owned = (site.owned \/ stage[r] = "owned")
    BY <1>1, WrittenIsSite
  <1> HIDE DEF new
  <1>3. site' = [new EXCEPT !.stamp = site.stamp + 1]
    <2>1. site' = [S!Written(stage[r], copy[r], sent[r]) EXCEPT !.stamp = @ + 1]
      BY DEF S!Write
    <2> QED
      BY <2>1, <1>1, <1>2 DEF new, S!Site
  <1>4. /\ site' \in S!Site /\ site'.stamp = site.stamp + 1 /\ site.stamp \in Nat
        /\ site'.adapter = new.adapter /\ site'.gsc = new.gsc /\ site'.owned = new.owned
    BY <1>1, <1>2, <1>3 DEF S!Site
  <1>5. vault' = site'.adapter
    BY <1>2, <1>4 DEF S!Write, SettingsInv
  <1>6. site'.gsc = "shared" => site'.owned
    BY <1>1, <1>2, <1>4 DEF SettingsInv, SettingsCopies, S!Write, S!Writes
  <1>7. S!New \in S!Site
    BY DEF S!New, S!Site
  <1>8. S!TypeOK'
    BY <1>4, <1>5, <1>7 DEF SettingsInv, S!TypeOK, S!Write, S!Answer, S!Site
  <1>9. SettingsCopies'
    <2> SUFFICES ASSUME NEW q \in Requests, stage'[q] # "idle"
                 PROVE  /\ copy'[q].status = "active" /\ copy'[q].stamp <= site'.stamp
                        /\ copy'[q].stamp = site'.stamp => copy'[q] = site'
                        /\ stage'[q] = "shared" => copy'[q].owned
      BY DEF SettingsCopies
    <2>1. stage'[q] = stage[q] /\ copy'[q] = copy[q]
      BY DEF S!Write, S!Answer, SettingsInv, S!TypeOK
    <2>2. copy[q].stamp \in Nat /\ copy[q].stamp <= site.stamp
      BY <2>1 DEF SettingsInv, SettingsCopies, S!TypeOK, S!Site
    <2> QED
      BY <2>1, <2>2, <1>4 DEF SettingsInv, SettingsCopies
  <1> QED
    BY <1>1, <1>2, <1>3, <1>5, <1>6, <1>8, <1>9 DEF SettingsInv, S!SettingsStep, new

\* A request that begins, is refused or fails, and the change under way.
LEMMA SettingsRest ==
  ASSUME SettingsInv, UNCHANGED <<site, vault>>, S!TypeOK', SettingsCopies'
  PROVE  SettingsInv' /\ S!SettingsStep
  BY DEF SettingsInv, S!SettingsStep

LEMMA SettingsStepInv ==
  ASSUME SettingsInv, S!Next \/ UNCHANGED S!vars
  PROVE  SettingsInv' /\ S!SettingsStep
  <1>1. ASSUME NEW r \in Requests, NEW write \in S!Writes, NEW config \in Adapters \cup {None},
               S!Begin(r, write, config), write = "shared" => site.owned
        PROVE  SettingsInv' /\ S!SettingsStep
    <2>1. UNCHANGED <<site, vault>> /\ S!TypeOK'
      BY <1>1 DEF S!Begin, SettingsInv, S!TypeOK
    <2>2. SettingsCopies'
      BY <1>1 DEF S!Begin, SettingsInv, SettingsCopies, S!TypeOK, S!Site
    <2> QED
      BY <2>1, <2>2, SettingsRest
  <1>2. ASSUME NEW r \in Requests,
               \/ S!BeginRemove(r) \/ S!BeginAdapter(r) \/ S!BeginGsc(r)
               \/ S!BeginTag(r) \/ S!BeginVerify(r)
        PROVE  SettingsInv' /\ S!SettingsStep
    <2>1. PICK write \in S!Writes, config \in Adapters \cup {None} :
             S!Begin(r, write, config) /\ (write = "shared" => site.owned)
      BY <1>2 DEF S!BeginRemove, S!BeginAdapter, S!BeginGsc, S!BeginTag, S!BeginVerify, S!Writes
    <2> QED
      BY <2>1, <1>1
  <1>3. ASSUME NEW r \in Requests, S!Refused(r) \/ S!CheckFails(r)
        PROVE  SettingsInv' /\ S!SettingsStep
    <2>1. S!New \in S!Site
      BY DEF S!New, S!Site
    <2>2. UNCHANGED <<site, vault>> /\ S!TypeOK'
      BY <1>3, <2>1 DEF S!Refused, S!CheckFails, S!Answer, SettingsInv, S!TypeOK
    <2>3. SettingsCopies'
      BY <1>3 DEF S!Refused, S!CheckFails, S!Answer, SettingsInv, SettingsCopies, S!TypeOK
    <2> QED
      BY <2>2, <2>3, SettingsRest
  <1>4. CASE S!Approve \/ S!Take \/ S!CarryOut \/ S!Settle \/ UNCHANGED S!vars
    <2>1. UNCHANGED <<site, vault, stage, copy, sent>>
      BY <1>4 DEF S!Approve, S!Take, S!CarryOut, S!Settle, S!vars, S!request
    <2>2. S!TypeOK'
      BY <1>4, <2>1 DEF SettingsInv, S!TypeOK, S!Approve, S!Take, S!CarryOut, S!Settle, S!vars
    <2>3. SettingsCopies'
      BY <2>1 DEF SettingsInv, SettingsCopies
    <2> QED
      BY <2>1, <2>2, <2>3, SettingsRest
  <1> QED
    BY <1>2, <1>3, <1>4, WriteSettings DEF S!Next
-----------------------------------------------------------------------------
(* Keys: what a key is never changes once it is issued, and what was barred *)
(* when a request came stays so, unless the operator activates the tenant.  *)
KeyRecords ==
    [tenant : Tenants \cup {None}, active : BOOLEAN,
     digest : (Keys \X Keys) \cup {None}, version : Nat]
KeyCommands ==
    [at : {"idle", "issue", "revoke", "revoked", "update", "save"},
     tenant : Tenants \cup {None}, key : Keys \cup {None},
     status : {"active", "suspended"}, version : Nat]
Issued(k) == key[k].tenant \in Tenants /\ key[k].digest = K!Digest(k, k)
KeysTyped ==
    /\ K!TypeOK
    /\ key \in [Keys -> KeyRecords] /\ command \in [Commands -> KeyCommands]
    /\ \A k \in Keys : key[k] = K!NoKey \/ Issued(k)
Knows(given) ==
    /\ given.at \in {"issue", "update", "save"} => given.tenant \in Tenants
    /\ given.at \in {"revoke", "revoked"} => given.key \in Keys /\ Issued(given.key)
CommandsKnow == \A c \in Commands : Knows(command[c])
BarredStay ==
    \A r \in KeyRequests :
        /\ \A k \in Keys \cap barred[r] : Issued(k) /\ ~key[k].active
        /\ \A t \in Tenants \cap barred[r] : tenant[t].status = "suspended"
\* What a request has learnt of its key, and what it was let in as.
Learnt(r) ==
    /\ stage[r] = "tenant" =>
          /\ token[r] \in K!Shaped /\ token[r].id = token[r].secret
          /\ Issued(token[r].id) /\ principal[r] = key[token[r].id].tenant
          /\ token[r].id \notin barred[r]
    /\ stage[r] = "in" =>
          \/ token[r] = K!Configured /\ principal[r] = Admin
          \/ /\ token[r] \in K!Shaped /\ token[r].id = token[r].secret
             /\ Issued(token[r].id) /\ principal[r] = key[token[r].id].tenant
             /\ {token[r].id, principal[r]} \cap barred[r] = {}
RequestsLearnt == \A r \in KeyRequests : Learnt(r)
KeysInv == KeysTyped /\ CommandsKnow /\ BarredStay /\ RequestsLearnt
-----------------------------------------------------------------------------
LEMMA IssuedIsAKey ==
  ASSUME KeysInv, NEW k \in Keys
  PROVE  key[k] # K!NoKey <=> Issued(k)
  BY NoneAssumption DEF KeysInv, KeysTyped, K!NoKey, Issued

LEMMA KeysStart == K!Init => KeysInv
  <1> SUFFICES ASSUME K!Init PROVE KeysInv
    OBVIOUS
  <1> USE DEF K!Init, K!NoTenant, K!NoKey, K!NoCommand
  <1>1. KeysTyped
    BY KeysAssumption DEF KeysTyped, K!TypeOK, KeyRecords, KeyCommands, K!Presented
  <1> QED
    BY <1>1 DEF KeysInv, CommandsKnow, Knows, BarredStay, RequestsLearnt, Learnt

\* A step that leaves the requests alone, and every key that was issued as it was
\* but for being revoked.
LEMMA KeyCommandInv ==
  ASSUME KeysInv, KeysTyped', CommandsKnow',
         UNCHANGED <<stage, token, principal>>,
         \A k \in Keys : Issued(k) =>
            Issued(k)' /\ key'[k].tenant = key[k].tenant /\ (~key[k].active => ~key'[k].active),
         \A r \in KeyRequests :
            /\ barred'[r] \subseteq barred[r]
            /\ \A t \in Tenants \cap barred'[r] : tenant'[t].status = "suspended"
  PROVE  KeysInv'
  <1>1. BarredStay'
    BY DEF KeysInv, BarredStay
  <1>2. \A r \in KeyRequests : token[r] \in K!Shaped => token[r].id \in Keys
    BY DEF K!Shaped
  <1>3. RequestsLearnt'
    BY <1>2 DEF KeysInv, RequestsLearnt, Learnt
  <1> QED
    BY <1>1, <1>3 DEF KeysInv

TenantRecords == [status : {"absent", "active", "suspended"}, version : Nat]

LEMMA KeysTypes ==
  ASSUME KeysInv
  PROVE  /\ tenant \in [Tenants -> TenantRecords]
         /\ key \in [Keys -> KeyRecords] /\ command \in [Commands -> KeyCommands]
         /\ changes \in 0..MaxKeyCommands /\ MaxKeyCommands \in Nat
         /\ barred \in [KeyRequests -> SUBSET (Keys \cup Tenants)]
         /\ \A c \in Commands : Knows(command[c])
         /\ \A r \in KeyRequests : \A t \in Tenants \cap barred[r] : tenant[t].status = "suspended"
  BY KeysAssumption DEF KeysInv, KeysTyped, K!TypeOK, TenantRecords, CommandsKnow, BarredStay

LEMMA CommandGiven ==
  ASSUME KeysInv, NEW c \in Commands, NEW given \in KeyCommands, Knows(given)',
         command' = [command EXCEPT ![c] = given],
         \A k \in Keys : Issued(k) => Issued(k)'
  PROVE  command' \in [Commands -> KeyCommands] /\ CommandsKnow'
  <1>1. /\ command' \in [Commands -> KeyCommands] /\ command'[c] = given
        /\ \A d \in Commands : d # c => command'[d] = command[d]
    BY KeysTypes
  <1>2. \A d \in Commands : Knows(command[d])
    BY KeysTypes
  <1>3. ASSUME NEW d \in Commands, d # c
        PROVE  Knows(command[d])'
    BY <1>1, <1>2, <1>3 DEF Knows
  <1> QED
    BY <1>1, <1>3 DEF CommandsKnow

\* What a command that changes no key does.
LEMMA KeysLeftAlone ==
  ASSUME KeysInv, NEW c \in Commands, NEW given \in KeyCommands, Knows(given)',
         UNCHANGED <<stage, token, principal, key>>,
         command' = [command EXCEPT ![c] = given],
         changes' \in 0..MaxKeyCommands, tenant' \in [Tenants -> TenantRecords],
         barred' \in [KeyRequests -> SUBSET (Keys \cup Tenants)],
         \A r \in KeyRequests :
            /\ barred'[r] \subseteq barred[r]
            /\ \A t \in Tenants \cap barred'[r] : tenant'[t].status = "suspended"
  PROVE  KeysInv'
  <1>1. \A k \in Keys : (Issued(k) <=> Issued(k)')
    BY DEF Issued
  <1>2. command' \in [Commands -> KeyCommands] /\ CommandsKnow'
    BY <1>1, CommandGiven
  <1>3. K!TypeOK'
    BY DEF KeysInv, KeysTyped, K!TypeOK, TenantRecords, KeyCommands
  <1>4. KeysTyped'
    BY <1>1, <1>2, <1>3 DEF KeysInv, KeysTyped
  <1> QED
    BY <1>1, <1>2, <1>4, KeyCommandInv

LEMMA KeyGivenStep ==
  ASSUME KeysInv, NEW c \in Commands,
         \/ \E t \in Tenants :
               \/ K!CreateTenant(c, t) \/ K!FindForKey(c, t)
               \/ \E status \in {"suspended", "active"} : K!FindTenant(c, t, status)
         \/ \E k \in Keys : K!FindKeyToRevoke(c, k)
  PROVE  KeysInv'
  <1>1. ASSUME NEW t \in Tenants, K!CreateTenant(c, t)
        PROVE  KeysInv'
    <2>1. PICK next \in {"issue", "idle"} :
             K!Give(c, [K!NoCommand EXCEPT !.at = next, !.tenant = IF next = "issue" THEN t ELSE None])
      BY <1>1 DEF K!CreateTenant
    <2> DEFINE given ==
          [K!NoCommand EXCEPT !.at = next, !.tenant = IF next = "issue" THEN t ELSE None]
    <2>2. given \in KeyCommands /\ Knows(given)'
      BY DEF K!NoCommand, KeyCommands, Knows
    <2>3. tenant[t] = K!NoTenant /\ tenant' = [tenant EXCEPT ![t] = [status |-> "active", version |-> 1]]
      BY <1>1 DEF K!CreateTenant
    <2>4. tenant' \in [Tenants -> TenantRecords]
      BY <2>3, KeysTypes DEF TenantRecords
    <2>5. \A r \in KeyRequests : \A u \in Tenants \cap barred[r] : tenant'[u].status = "suspended"
      BY <2>3, KeysTypes DEF K!NoTenant
    <2>6. command' = [command EXCEPT ![c] = given] /\ changes' \in 0..MaxKeyCommands
      BY <2>1, KeysTypes DEF K!Give
    <2>7. UNCHANGED <<stage, token, principal, key, barred>>
      BY <1>1 DEF K!CreateTenant, K!request
    <2> HIDE DEF given
    <2> QED
      BY <2>2, <2>4, <2>5, <2>6, <2>7, KeysLeftAlone, KeysTypes
  <1>2. ASSUME NEW given \in KeyCommands, Knows(given)', K!Give(c, given),
               UNCHANGED <<K!records, K!request>>
        PROVE  KeysInv'
    <2>1. command' = [command EXCEPT ![c] = given] /\ changes' \in 0..MaxKeyCommands
      BY <1>2, KeysTypes DEF K!Give
    <2>2. UNCHANGED <<stage, token, principal, key, barred, tenant>>
      BY <1>2 DEF K!request, K!records
    <2> QED
      BY <1>2, <2>1, <2>2, KeysLeftAlone, KeysTypes
  <1>3. ASSUME NEW t \in Tenants, NEW status \in {"suspended", "active"},
               K!FindForKey(c, t) \/ K!FindTenant(c, t, status)
        PROVE  KeysInv'
    <2>1. PICK given \in KeyCommands :
             Knows(given)' /\ K!Give(c, given) /\ UNCHANGED <<K!records, K!request>>
      <3>1. /\ [K!NoCommand EXCEPT !.at = "issue", !.tenant = t] \in KeyCommands
            /\ Knows([K!NoCommand EXCEPT !.at = "issue", !.tenant = t])'
            /\ [K!NoCommand EXCEPT !.at = "update", !.tenant = t, !.status = status] \in KeyCommands
            /\ Knows([K!NoCommand EXCEPT !.at = "update", !.tenant = t, !.status = status])'
        BY DEF K!NoCommand, KeyCommands, Knows
      <3> QED
        BY <1>3, <3>1 DEF K!FindForKey, K!FindTenant
    <2> QED
      BY <2>1, <1>2
  <1>4. ASSUME NEW k \in Keys, K!FindKeyToRevoke(c, k)
        PROVE  KeysInv'
    <2> DEFINE given == [K!NoCommand EXCEPT !.at = "revoke", !.key = k]
    <2>1. Issued(k)
      BY <1>4, IssuedIsAKey DEF K!FindKeyToRevoke
    <2>2. given \in KeyCommands
      BY DEF K!NoCommand, KeyCommands
    <2>3. UNCHANGED key /\ K!Give(c, given) /\ UNCHANGED <<K!records, K!request>>
      BY <1>4 DEF K!FindKeyToRevoke, K!records
    <2>4. Knows(given)'
      BY <2>1, <2>3 DEF K!NoCommand, Knows, Issued
    <2> QED
      BY <2>2, <2>3, <2>4, <1>2
  <1> QED
    BY <1>1, <1>3, <1>4

LEMMA KeyReadStep ==
  ASSUME KeysInv, NEW c \in Commands,
         K!ReadKey(c) \/ K!ReadTenant(c) \/ K!Interrupt(c) \/ K!SaveTenant(c)
  PROVE  KeysInv'
  <1>1. ASSUME NEW given \in KeyCommands, Knows(given)', K!Step(c, given),
               UNCHANGED <<K!records, K!request>>
        PROVE  KeysInv'
    <2>1. UNCHANGED <<stage, token, principal, key, barred, tenant, changes>>
      BY <1>1 DEF K!request, K!records, K!Step
    <2> QED
      BY <1>1, <2>1, KeysLeftAlone, KeysTypes DEF K!Step
  <1>2. K!NoCommand \in KeyCommands /\ Knows(K!NoCommand)'
    BY DEF K!NoCommand, KeyCommands, Knows
  <1>3. command[c] \in KeyCommands /\ Knows(command[c])
    BY KeysTypes
  <1>4. CASE K!ReadKey(c)
    <2>1. command[c].key \in Keys /\ Issued(command[c].key) /\ UNCHANGED key
      BY <1>3, <1>4 DEF K!ReadKey, Knows, K!records
    <2>2. PICK given \in KeyCommands : /\ given.at = "revoked" /\ given.key = command[c].key
             /\ given = [command[c] EXCEPT !.at = "revoked", !.version = key[command[c].key].version]
      BY <1>3, <2>1, KeysTypes DEF KeyCommands, KeyRecords
    <2>3. Knows(given)'
      BY <2>1, <2>2 DEF Knows, Issued
    <2> QED
      BY <1>1, <1>2, <1>4, <2>2, <2>3 DEF K!ReadKey, K!Done
  <1>5. CASE K!ReadTenant(c)
    <2>1. command[c].tenant \in Tenants
      BY <1>3, <1>5 DEF K!ReadTenant, Knows
    <2>2. PICK given \in KeyCommands : /\ given.at = "save" /\ given.tenant = command[c].tenant
             /\ given = [command[c] EXCEPT !.at = "save", !.version = tenant[command[c].tenant].version]
      BY <1>3, <2>1, KeysTypes DEF KeyCommands, TenantRecords
    <2>3. Knows(given)'
      BY <2>1, <2>2 DEF Knows
    <2> QED
      BY <1>1, <1>5, <2>2, <2>3 DEF K!ReadTenant
  <1>6. CASE K!Interrupt(c)
    BY <1>1, <1>2, <1>6 DEF K!Interrupt, K!Done
  <1>7. CASE K!SaveTenant(c)
    <2> DEFINE t == command[c].tenant  status == command[c].status
    <2>1. t \in Tenants /\ status \in {"active", "suspended"}
      BY <1>3, <1>7 DEF K!SaveTenant, Knows, KeyCommands
    <2>2. /\ UNCHANGED <<stage, token, principal, key, changes>>
          /\ command' = [command EXCEPT ![c] = K!NoCommand]
      BY <1>7 DEF K!SaveTenant, K!Done, K!Step
    <2>3. \/ UNCHANGED <<tenant, barred>>
          \/ /\ tenant' = [tenant EXCEPT ![t] = [status |-> status, version |-> @.version + 1]]
             /\ barred' = [r \in KeyRequests |->
                   IF status = "active" THEN barred[r] \ {t} ELSE barred[r]]
      BY <1>7 DEF K!SaveTenant
    <2> HIDE DEF t, status
    <2>4. tenant' \in [Tenants -> TenantRecords]
      BY <2>1, <2>3, KeysTypes DEF TenantRecords
    <2>5. /\ barred' \in [KeyRequests -> SUBSET (Keys \cup Tenants)]
          /\ \A r \in KeyRequests : barred'[r] \subseteq barred[r]
      BY <2>3, KeysTypes
    <2>6. \A r \in KeyRequests : \A u \in Tenants \cap barred'[r] : tenant'[u].status = "suspended"
      BY <2>1, <2>3, KeysTypes
    <2> QED
      BY <1>2, <2>2, <2>4, <2>5, <2>6, KeysLeftAlone, KeysTypes
  <1> QED
    BY <1>4, <1>5, <1>6, <1>7

LEMMA KeyWriteStep ==
  ASSUME KeysInv, NEW c \in Commands,
         K!Revoke(c) \/ \E k \in Keys : K!Issue(c, k)
  PROVE  KeysInv'
  <1>1. /\ command[c] \in KeyCommands /\ Knows(command[c])
        /\ K!NoCommand \in KeyCommands /\ Knows(K!NoCommand)'
    BY KeysTypes DEF K!NoCommand, KeyCommands, Knows
  <1>2. /\ command' = [command EXCEPT ![c] = K!NoCommand]
        /\ UNCHANGED <<stage, token, principal, barred, tenant, changes>>
    BY DEF K!Revoke, K!Issue, K!request, K!Done, K!Step
  <1>3. SUFFICES /\ key' \in [Keys -> KeyRecords]
                 /\ \A q \in Keys : key'[q] = K!NoKey \/ Issued(q)'
                 /\ \A q \in Keys : Issued(q) =>
                       /\ Issued(q)' /\ key'[q].tenant = key[q].tenant
                       /\ ~key[q].active => ~key'[q].active
    <2>1. command' \in [Commands -> KeyCommands] /\ CommandsKnow'
      BY <1>1, <1>2, <1>3, CommandGiven
    <2>2. K!TypeOK'
      <3>1. \A k \in Keys : key'[k] = K!NoKey \/ key'[k].tenant \in Tenants
        BY <1>3 DEF Issued
      <3>2. \A d \in Commands : command'[d].at \in
                {"idle", "issue", "revoke", "revoked", "update", "save"}
        BY <2>1 DEF KeyCommands
      <3> QED
        BY <1>2, <3>1, <3>2 DEF KeysInv, KeysTyped, K!TypeOK
    <2>3. KeysTyped'
      BY <1>3, <2>1, <2>2 DEF KeysTyped
    <2> QED
      BY <1>2, <1>3, <2>1, <2>3, KeyCommandInv, KeysTypes
  <1>4. ASSUME NEW k \in Keys, K!Issue(c, k)
        PROVE  /\ key' \in [Keys -> KeyRecords]
               /\ \A q \in Keys : key'[q] = K!NoKey \/ Issued(q)'
               /\ \A q \in Keys : Issued(q) =>
                     /\ Issued(q)' /\ key'[q].tenant = key[q].tenant
                     /\ ~key[q].active => ~key'[q].active
    <2>1. /\ key[k] = K!NoKey /\ command[c].tenant \in Tenants
          /\ key' = [key EXCEPT ![k] = [tenant |-> command[c].tenant, active |-> TRUE,
                                        digest |-> <<k, k>>, version |-> 1]]
      BY <1>1, <1>4 DEF K!Issue, K!Digest, Knows
    <2>2. ~Issued(k)
      BY <2>1, IssuedIsAKey
    <2>3. [tenant |-> command[c].tenant, active |-> TRUE, digest |-> <<k, k>>, version |-> 1]
             \in KeyRecords
      BY <2>1 DEF KeyRecords
    <2>4. /\ key' \in [Keys -> KeyRecords] /\ Issued(k)'
          /\ \A q \in Keys : q # k => key'[q] = key[q]
      BY <2>1, <2>3, KeysTypes DEF Issued, K!Digest
    <2> QED
      BY <2>2, <2>4 DEF KeysInv, KeysTyped, Issued
  <1>5. CASE K!Revoke(c)
    <2> DEFINE k == command[c].key
    <2>1. /\ k \in Keys /\ Issued(k)
          /\ key' = key \/ key' = [key EXCEPT ![k].active = FALSE, ![k].version = @ + 1]
      BY <1>1, <1>5 DEF K!Revoke, Knows
    <2> HIDE DEF k
    <2>2. /\ key' \in [Keys -> KeyRecords]
          /\ \A q \in Keys : /\ key'[q].tenant = key[q].tenant /\ key'[q].digest = key[q].digest
                             /\ key'[q] = key[q] \/ (q = k /\ ~key'[q].active)
      BY <2>1, KeysTypes DEF KeyRecords
    <2> QED
      BY <2>1, <2>2 DEF KeysInv, KeysTyped, Issued
  <1> QED
    BY <1>4, <1>5

LEMMA KeyRequestInv ==
  ASSUME KeysInv, NEW r \in KeyRequests, UNCHANGED <<tenant, key, command, changes>>,
         NEW place \in {"idle", "key", "tenant", "in", "refused"},
         NEW presented \in K!Presented, NEW whom \in Tenants \cup {Admin, None},
         NEW bars \in SUBSET (Keys \cup Tenants),
         stage' = [stage EXCEPT ![r] = place], token' = [token EXCEPT ![r] = presented],
         principal' = [principal EXCEPT ![r] = whom], barred' = [barred EXCEPT ![r] = bars],
         \A k \in Keys \cap bars : Issued(k) /\ ~key[k].active,
         \A t \in Tenants \cap bars : tenant[t].status = "suspended",
         Learnt(r)'
  PROVE  KeysInv'
  <1> USE DEF KeysInv
  <1>1. /\ stage \in [KeyRequests -> {"idle", "key", "tenant", "in", "refused"}]
        /\ token \in [KeyRequests -> K!Presented]
        /\ principal \in [KeyRequests -> Tenants \cup {Admin, None}]
        /\ barred \in [KeyRequests -> SUBSET (Keys \cup Tenants)]
    BY DEF KeysTyped, K!TypeOK
  <1>2. KeysTyped' /\ CommandsKnow'
    BY <1>1 DEF KeysTyped, K!TypeOK, Issued, CommandsKnow, Knows
  <1>3. \A q \in KeyRequests : q # r =>
           /\ stage'[q] = stage[q] /\ token'[q] = token[q] /\ principal'[q] = principal[q]
           /\ barred'[q] = barred[q]
    BY <1>1
  <1>4. BarredStay'
    BY <1>1, <1>3 DEF BarredStay, Issued
  <1>5. RequestsLearnt'
    BY <1>3 DEF RequestsLearnt, Learnt, Issued
  <1> QED
    BY <1>2, <1>4, <1>5

LEMMA KeyRequestStep ==
  ASSUME KeysInv, NEW r \in KeyRequests,
         \/ \E presented \in K!Presented : K!Present(r, presented)
         \/ K!CompareConfigured(r) \/ K!LookUp(r) \/ K!CheckTenant(r) \/ K!Answer(r)
  PROVE  KeysInv'
  <1>1. /\ stage \in [KeyRequests -> {"idle", "key", "tenant", "in", "refused"}]
        /\ token \in [KeyRequests -> K!Presented]
        /\ principal \in [KeyRequests -> Tenants \cup {Admin, None}]
        /\ barred \in [KeyRequests -> SUBSET (Keys \cup Tenants)]
    BY DEF KeysInv, KeysTyped, K!TypeOK
  <1>2. /\ \A k \in Keys \cap barred[r] : Issued(k) /\ ~key[k].active
        /\ \A t \in Tenants \cap barred[r] : tenant[t].status = "suspended"
        /\ Learnt(r)
    BY DEF KeysInv, BarredStay, RequestsLearnt
  <1>3. UNCHANGED <<tenant, key, command, changes>>
    BY DEF K!Present, K!CompareConfigured, K!LookUp, K!CheckTenant, K!Answer, K!To, K!records
  <1>4. ASSUME NEW presented \in K!Presented, K!Present(r, presented)
        PROVE  KeysInv'
    <2>1. PICK bars \in SUBSET (Keys \cup Tenants) : bars = K!Barred
      BY DEF K!Barred
    <2>2. /\ stage' = [stage EXCEPT ![r] = "key"] /\ token' = [token EXCEPT ![r] = presented]
          /\ principal' = [principal EXCEPT ![r] = principal[r]]
          /\ barred' = [barred EXCEPT ![r] = bars]
      BY <1>1, <1>4, <2>1 DEF K!Present
    <2>3. \A k \in Keys \cap bars : Issued(k) /\ ~key[k].active
      BY <2>1, KeysAssumption, IssuedIsAKey DEF K!Barred
    <2>4. \A t \in Tenants \cap bars : tenant[t].status = "suspended"
      BY <2>1, KeysAssumption DEF K!Barred
    <2>5. Learnt(r)'
      BY <1>1, <2>2 DEF Learnt
    <2>6. PICK whom \in Tenants \cup {Admin, None} : whom = principal[r]
      BY <1>1
    <2> QED
      BY <1>3, <2>2, <2>3, <2>4, <2>5, <2>6, KeyRequestInv
  <1>5. ASSUME NEW place \in {"tenant", "in", "refused"}, NEW whom \in Tenants \cup {Admin, None},
               K!To(r, place, whom), Learnt(r)'
        PROVE  KeysInv'
    <2>1. PICK presented \in K!Presented, bars \in SUBSET (Keys \cup Tenants) :
             presented = token[r] /\ bars = barred[r]
      BY <1>1
    <2>2. /\ stage' = [stage EXCEPT ![r] = place] /\ token' = [token EXCEPT ![r] = presented]
          /\ principal' = [principal EXCEPT ![r] = whom]
          /\ barred' = [barred EXCEPT ![r] = bars]
      BY <1>1, <1>5, <2>1 DEF K!To
    <2> QED
      BY <1>2, <1>3, <1>5, <2>1, <2>2, KeyRequestInv
  <1>6. ASSUME NEW place, NEW whom, K!To(r, place, whom)
        PROVE  /\ stage'[r] = place /\ principal'[r] = whom /\ token'[r] = token[r]
               /\ barred'[r] = barred[r]
    BY <1>1, <1>6 DEF K!To
  <1>7. CASE K!CompareConfigured(r)
    <2>1. CASE token[r] = K!Configured /\ K!To(r, "in", Admin)
      <3>1. Learnt(r)'
        BY <1>6, <2>1 DEF Learnt
      <3> QED
        BY <1>5, <2>1, <3>1
    <2>2. CASE K!To(r, "refused", None)
      <3>1. Learnt(r)'
        BY <1>6, <2>2 DEF Learnt
      <3> QED
        BY <1>5, <2>2, <3>1
    <2> QED
      BY <1>7, <2>1, <2>2 DEF K!CompareConfigured
  <1>8. CASE K!LookUp(r)
    <2> DEFINE k == token[r].id
    <2>1. k \in Keys /\ token[r].secret \in Keys
      BY <1>8 DEF K!LookUp, K!Shaped
    <2>2. CASE key[k].active /\ K!Matches(k, token[r].secret) /\ K!To(r, "tenant", key[k].tenant)
      <3>1. Issued(k) /\ k \notin barred[r]
        BY <1>2, <2>1, <2>2, IssuedIsAKey DEF K!NoKey
      <3>2. k = token[r].secret
        BY <2>1, <2>2, <3>1 DEF K!Matches, K!Digest, Issued
      <3>3. PICK whom \in Tenants : whom = key[k].tenant
        BY <3>1 DEF Issued
      <3>4. Learnt(r)'
        BY <1>3, <1>6, <1>8, <2>2, <3>1, <3>2, <3>3 DEF Learnt, K!LookUp, Issued
      <3> QED
        BY <1>5, <2>2, <3>3, <3>4
    <2>3. CASE K!To(r, "refused", None)
      <3>1. Learnt(r)'
        BY <1>6, <2>3 DEF Learnt
      <3> QED
        BY <1>5, <2>3, <3>1
    <2> QED
      BY <1>8, <2>2, <2>3 DEF K!LookUp
  <1>9. CASE K!CheckTenant(r)
    <2>1. PICK whom \in Tenants : whom = principal[r]
      BY <1>2, <1>9 DEF K!CheckTenant, Learnt, Issued, K!Shaped
    <2>2. CASE tenant[whom].status = "active" /\ K!To(r, "in", whom)
      <3>1. whom \notin barred[r]
        BY <1>2, <2>2
      <3>2. Learnt(r)'
        BY <1>2, <1>3, <1>6, <1>9, <2>1, <2>2, <3>1 DEF Learnt, K!CheckTenant, Issued
      <3> QED
        BY <1>5, <2>2, <3>2
    <2>3. CASE K!To(r, "refused", None)
      <3>1. Learnt(r)'
        BY <1>6, <2>3 DEF Learnt
      <3> QED
        BY <1>5, <2>3, <3>1
    <2> QED
      BY <1>9, <2>1, <2>2, <2>3 DEF K!CheckTenant
  <1>10. CASE K!Answer(r)
    <2>1. /\ stage' = [stage EXCEPT ![r] = "idle"] /\ token' = [token EXCEPT ![r] = K!Other]
          /\ principal' = [principal EXCEPT ![r] = None]
          /\ barred' = [barred EXCEPT ![r] = {}]
      BY <1>10 DEF K!Answer
    <2>2. K!Other \in K!Presented
      BY DEF K!Presented
    <2>3. Learnt(r)'
      BY <1>1, <2>1 DEF Learnt
    <2>4. PICK bars \in SUBSET (Keys \cup Tenants), whom \in Tenants \cup {Admin, None},
               presented \in K!Presented : bars = {} /\ whom = None /\ presented = K!Other
      BY <2>2
    <2> QED
      BY <1>3, <2>1, <2>3, <2>4, KeyRequestInv
  <1> QED
    BY <1>4, <1>7, <1>8, <1>9, <1>10

LEMMA KeysStep ==
  ASSUME KeysInv, K!Next \/ UNCHANGED K!vars
  PROVE  KeysInv'
  <1>1. CASE UNCHANGED K!vars
    <2>1. UNCHANGED <<tenant, key, command, changes, stage, token, principal, barred>>
      BY <1>1 DEF K!vars, K!records, K!request
    <2> QED
      BY <2>1 DEF KeysInv, KeysTyped, K!TypeOK, Issued, CommandsKnow, Knows, BarredStay,
                  RequestsLearnt, Learnt
  <1>2. CASE K!Next
    BY <1>2, KeyGivenStep, KeyReadStep, KeyWriteStep, KeyRequestStep DEF K!Next
  <1> QED
    BY <1>1, <1>2

LEMMA KeysPromise == KeysInv => K!TypeOK /\ K!KeyHasItsTenant
  BY DEF KeysInv, KeysTyped, RequestsLearnt, Learnt, K!KeyHasItsTenant
-----------------------------------------------------------------------------
(* The connection to Google: whoever spends a link is alone with it, and a  *)
(* link is exchanged once, so that a grant once revoked never comes back.   *)
LinksTell ==
    \A l \in G!AllLinks :
        /\ exchanges[l] <= 1 /\ (exchanges[l] = 1 => link[l].step = "used")
        /\ grant[l] # "none" => exchanges[l] = 1
        /\ link[l].step = "none" => link[l].version = 0
Spending(c) ==
    /\ stage[c] = "spend" =>
          /\ for[c] \in G!AllLinks /\ copy[c] <= link[for[c]].version
          /\ copy[c] = link[for[c]].version => link[for[c]].step # "used"
    /\ stage[c] = "exchange" =>
          for[c] \in G!AllLinks /\ link[for[c]].step = "used" /\ exchanges[for[c]] = 0
    /\ stage[c] \in {"put", "connect"} => for[c] \in Links /\ grant[for[c]] # "none"
Disconnecting(d) ==
    /\ stage[d] = "revoke" => token[d] # None
    /\ token[d] # None => grant[token[d]] # "none"
    /\ stage[d] = "erase" /\ token[d] # None => grant[token[d]] = "revoked"
RequestsTell ==
    /\ \A c \in Requests :
          stage[c] \in {"idle", "spend", "exchange", "put", "connect"} /\ Spending(c)
    /\ \A d \in Disconnects :
          /\ stage[d] \in {"idle", "take", "revoke", "erase", "save", "detach"}
          /\ Disconnecting(d)
SpentAlone ==
    \A c, other \in Requests :
        stage[c] = "exchange" /\ stage[other] = "exchange" /\ for[c] = for[other] => c = other
VaultTells == vault # None => grant[vault] # "none"
GoogleInv == G!TypeOK /\ LinksTell /\ RequestsTell /\ SpentAlone /\ VaultTells
-----------------------------------------------------------------------------
LEMMA GoogleStart == G!Init => GoogleInv
  <1> SUFFICES ASSUME G!Init PROVE GoogleInv
    OBVIOUS
  <1> USE DEF G!Init
  <1>1. G!TypeOK
    <2>1. googleFaults \in 0..MaxFaults
      BY TimesAssumption
    <2>2. link \in [G!AllLinks -> G!LinkState] /\ connection \in G!Connection
      BY DEF G!LinkState, G!Connection
    <2> QED
      BY <2>1, <2>2 DEF G!TypeOK, G!Places
  <1> QED
    BY <1>1 DEF GoogleInv, LinksTell, RequestsTell, SpentAlone, Spending, Disconnecting,
                VaultTells, G!HttpRequests, G!AllLinks

LEMMA GoogleTypes ==
  ASSUME GoogleInv
  PROVE  /\ link \in [G!AllLinks -> G!LinkState]
         /\ grant \in [G!AllLinks -> {"none", "live", "revoked"}]
         /\ exchanges \in [G!AllLinks -> Nat]
         /\ vault \in Links \cup {None} /\ connection \in G!Connection /\ sites \in BOOLEAN
         /\ stage \in [G!HttpRequests -> G!Places]
         /\ for \in [G!HttpRequests -> G!AllLinks \cup {None}]
         /\ copy \in [G!HttpRequests -> Nat]
         /\ token \in [G!HttpRequests -> Links \cup {None}]
         /\ googleFaults \in 0..MaxFaults
         /\ Links \subseteq G!AllLinks /\ None \notin G!AllLinks
         /\ \A c \in Requests : c \in G!HttpRequests /\ c \notin Disconnects
         /\ \A d \in Disconnects : d \in G!HttpRequests /\ d \notin Requests
  BY NoneAssumption, LinksAssumption DEF GoogleInv, G!TypeOK, G!AllLinks, G!HttpRequests

\* Wherever a request goes, the others stay where they are.
LEMMA GotoTypes ==
  ASSUME GoogleInv, NEW r \in G!HttpRequests, NEW place \in G!Places, G!Goto(r, place)
  PROVE  /\ stage' \in [G!HttpRequests -> G!Places]
         /\ for' \in [G!HttpRequests -> G!AllLinks \cup {None}]
         /\ copy' \in [G!HttpRequests -> Nat]
         /\ token' \in [G!HttpRequests -> Links \cup {None}]
         /\ stage'[r] = place
         /\ place # "idle" => for' = for /\ copy' = copy /\ token' = token
         /\ place = "idle" => token'[r] = None
         /\ \A q \in G!HttpRequests : q # r =>
               /\ stage'[q] = stage[q] /\ for'[q] = for[q]
               /\ copy'[q] = copy[q] /\ token'[q] = token[q]
  BY GoogleTypes DEF G!Goto

\* What a step may do to the links: nothing that a request at work on one must fear.
LinksMoveOn ==
    \A l \in G!AllLinks :
        /\ link'[l].version >= link[l].version
        /\ link'[l].version = link[l].version => link'[l] = link[l]
        /\ link[l].step = "used" => link'[l].step = "used"
        /\ grant[l] # "none" => grant'[l] # "none"
        /\ grant[l] = "revoked" => grant'[l] = "revoked"

LEMMA OthersStay ==
  ASSUME GoogleInv, G!TypeOK', NEW q \in G!HttpRequests, LinksMoveOn,
         /\ stage'[q] = stage[q] /\ for'[q] = for[q]
         /\ copy'[q] = copy[q] /\ token'[q] = token[q],
         q \in Requests /\ stage[q] = "exchange" => exchanges'[for[q]] = exchanges[for[q]]
  PROVE  /\ q \in Requests => Spending(q)'
         /\ q \in Disconnects => Disconnecting(q)'
  <1>1. /\ link' \in [G!AllLinks -> G!LinkState] /\ Links \subseteq G!AllLinks
        /\ link \in [G!AllLinks -> G!LinkState] /\ copy[q] \in Nat
        /\ token[q] \in Links \cup {None} /\ for[q] \in G!AllLinks \cup {None}
    BY GoogleTypes DEF G!TypeOK
  <1>2. q \in Requests => Spending(q)
    BY DEF GoogleInv, RequestsTell
  <1>3. ASSUME q \in Requests PROVE Spending(q)'
    <2>1. ASSUME stage[q] = "spend"
          PROVE  /\ for[q] \in G!AllLinks /\ copy[q] <= link'[for[q]].version
                 /\ copy[q] = link'[for[q]].version => link'[for[q]].step # "used"
      <3>1. for[q] \in G!AllLinks /\ copy[q] <= link[for[q]].version
        BY <1>2, <1>3, <2>1 DEF Spending
      <3>2. link[for[q]].version \in Nat /\ link'[for[q]].version \in Nat
        BY <1>1, <3>1 DEF G!LinkState
      <3>3. /\ link'[for[q]].version >= link[for[q]].version
            /\ link'[for[q]].version = link[for[q]].version => link'[for[q]] = link[for[q]]
        BY <3>1 DEF LinksMoveOn
      <3>4. copy[q] = link[for[q]].version => link[for[q]].step # "used"
        BY <1>2, <1>3, <2>1 DEF Spending
      <3> QED
        BY <1>1, <3>1, <3>2, <3>3, <3>4
    <2> QED
      BY <1>1, <1>2, <1>3, <2>1 DEF Spending, LinksMoveOn
  <1>4. ASSUME q \in Disconnects PROVE Disconnecting(q)'
    BY <1>1, <1>4 DEF GoogleInv, RequestsTell, Disconnecting, LinksMoveOn
  <1> QED
    BY <1>3, <1>4

\* A step of one request, from place to place.
LEMMA RequestStep ==
  ASSUME GoogleInv, G!TypeOK', NEW r \in G!HttpRequests, LinksMoveOn, LinksTell', VaultTells',
         \A q \in G!HttpRequests : q # r =>
               /\ stage'[q] = stage[q] /\ for'[q] = for[q]
               /\ copy'[q] = copy[q] /\ token'[q] = token[q],
         \A q \in Requests : q # r /\ stage[q] = "exchange" =>
               exchanges'[for[q]] = exchanges[for[q]],
         r \in Requests =>
               stage'[r] \in {"idle", "spend", "exchange", "put", "connect"} /\ Spending(r)',
         r \in Disconnects =>
               /\ stage'[r] \in {"idle", "take", "revoke", "erase", "save", "detach"}
               /\ Disconnecting(r)',
         r \in Requests /\ stage'[r] = "exchange" =>
               \A q \in Requests : q # r => ~(stage[q] = "exchange" /\ for[q] = for'[r])
  PROVE  GoogleInv'
  <1>1. RequestsTell'
    BY OthersStay, GoogleTypes DEF RequestsTell, GoogleInv
  <1>2. SpentAlone'
    BY GoogleTypes DEF GoogleInv, SpentAlone
  <1> QED
    BY <1>1, <1>2 DEF GoogleInv

LEMMA LinkStep ==
  ASSUME GoogleInv, NEW l \in G!AllLinks, G!Start(l) \/ G!Begin(l)
  PROVE  GoogleInv'
  <1>1. /\ link[l].step \in {"none", "started"} /\ link[l].version \in Nat
        /\ UNCHANGED <<grant, exchanges, vault, connection, sites, stage, for, copy, token, googleFaults>>
    BY GoogleTypes DEF G!Start, G!Begin, G!request, G!LinkState
  <1>2. PICK new \in G!LinkState : /\ link' = [link EXCEPT ![l] = new]
                                   /\ new.step \in {"started", "begun"}
                                   /\ new.version > link[l].version
    BY GoogleTypes DEF G!Start, G!Begin, G!LinkState, GoogleInv, LinksTell
  <1>3. G!TypeOK'
    BY <1>1, <1>2 DEF GoogleInv, G!TypeOK
  <1>4. /\ link'[l] = new /\ \A q \in G!AllLinks : q # l => link'[q] = link[q]
        /\ \A q \in G!AllLinks : link[q].version \in Nat
        /\ new.version \in Nat
    BY <1>2, GoogleTypes DEF G!LinkState
  <1>5. LinksMoveOn
    BY <1>1, <1>2, <1>4 DEF LinksMoveOn
  <1>6. LinksTell' /\ VaultTells'
    BY <1>1, <1>2, <1>4 DEF GoogleInv, LinksTell, VaultTells
  <1>7. RequestsTell'
    BY <1>1, <1>3, <1>5, OthersStay, GoogleTypes DEF RequestsTell, GoogleInv
  <1>8. SpentAlone'
    BY <1>1 DEF GoogleInv, SpentAlone
  <1> QED
    BY <1>3, <1>6, <1>7, <1>8 DEF GoogleInv

LEMMA ReturnStep ==
  ASSUME GoogleInv, NEW c \in Requests, NEW l \in G!AllLinks, G!Return(c, l)
  PROVE  GoogleInv'
  <1>1. /\ UNCHANGED <<link, grant, exchanges, vault, connection, sites, token, googleFaults>>
        /\ stage' = [stage EXCEPT ![c] = "spend"] /\ for' = [for EXCEPT ![c] = l]
        /\ copy' = [copy EXCEPT ![c] = link[l].version]
        /\ link[l].step # "used" /\ link[l].version \in Nat
    BY GoogleTypes DEF G!Return, G!MayComplete, G!LinkState
  <1>2. /\ stage'[c] = "spend" /\ for'[c] = l /\ copy'[c] = link[l].version
        /\ \A q \in G!HttpRequests : q # c =>
               /\ stage'[q] = stage[q] /\ for'[q] = for[q] /\ copy'[q] = copy[q]
    BY <1>1, GoogleTypes
  <1>3. G!TypeOK'
    BY <1>1 DEF GoogleInv, G!TypeOK, G!Places
  <1>4. LinksMoveOn /\ LinksTell' /\ VaultTells'
    BY <1>1, GoogleTypes DEF GoogleInv, LinksMoveOn, LinksTell, VaultTells, G!LinkState
  <1>5. Spending(c)'
    BY <1>1, <1>2 DEF Spending
  <1> QED
    BY <1>1, <1>2, <1>3, <1>4, <1>5, RequestStep, GoogleTypes

LEMMA SpendStep ==
  ASSUME GoogleInv, NEW c \in Requests, G!Spend(c)
  PROVE  GoogleInv'
  <1> DEFINE l == for[c]
  <1>1. /\ UNCHANGED <<grant, exchanges, vault, connection, sites, googleFaults>>
        /\ l \in G!AllLinks /\ Spending(c) /\ link[l].version \in Nat
    BY GoogleTypes DEF G!Spend, GoogleInv, RequestsTell, Spending, G!LinkState
  <1>2. CASE /\ link[l].version = copy[c] /\ G!Goto(c, "exchange")
             /\ link' = [link EXCEPT ![l] = [step |-> "used", version |-> @.version + 1]]
    <2>1. link[l].step # "used" /\ exchanges[l] = 0
      <3>1. link[l].step # "used"
        BY <1>1, <1>2 DEF G!Spend, Spending
      <3>2. exchanges[l] \in Nat /\ exchanges[l] <= 1 /\ exchanges[l] # 1
        BY <1>1, <3>1, GoogleTypes DEF GoogleInv, LinksTell
      <3> QED
        BY <3>1, <3>2
    <2>2. /\ stage'[c] = "exchange" /\ for' = for /\ copy' = copy /\ token' = token
          /\ \A q \in G!HttpRequests : q # c => stage'[q] = stage[q]
          /\ stage' \in [G!HttpRequests -> G!Places]
      BY <1>2, GotoTypes, GoogleTypes DEF G!Places
    <2>3. /\ link' \in [G!AllLinks -> G!LinkState]
          /\ link'[l].step = "used" /\ link'[l].version = link[l].version + 1
          /\ \A q \in G!AllLinks : q # l => link'[q] = link[q]
      BY <1>1, <1>2, GoogleTypes DEF G!LinkState
    <2>4. G!TypeOK'
      BY <1>1, <2>2, <2>3 DEF GoogleInv, G!TypeOK
    <2>5. LinksMoveOn /\ LinksTell' /\ VaultTells'
      BY <1>1, <2>3, GoogleTypes DEF GoogleInv, LinksMoveOn, LinksTell, VaultTells, G!LinkState
    <2>6. Spending(c)'
      BY <1>1, <2>1, <2>2, <2>3 DEF Spending
    <2>7. \A q \in Requests : stage[q] = "exchange" => for[q] # l
      BY <2>1 DEF GoogleInv, RequestsTell, Spending
    <2> QED
      BY <1>1, <2>2, <2>4, <2>5, <2>6, <2>7, RequestStep, GoogleTypes
  <1>3. CASE G!Goto(c, "idle") /\ UNCHANGED link
    <2>1. /\ stage'[c] = "idle"
          /\ \A q \in G!HttpRequests : q # c =>
               /\ stage'[q] = stage[q] /\ for'[q] = for[q]
               /\ copy'[q] = copy[q] /\ token'[q] = token[q]
      BY <1>3, GotoTypes, GoogleTypes DEF G!Places
    <2>2. G!TypeOK'
      BY <1>1, <1>3, GotoTypes, GoogleTypes DEF GoogleInv, G!TypeOK, G!Places
    <2>3. LinksMoveOn /\ LinksTell' /\ VaultTells'
      BY <1>1, <1>3, GoogleTypes DEF GoogleInv, LinksMoveOn, LinksTell, VaultTells, G!LinkState
    <2>4. Spending(c)'
      BY <2>1 DEF Spending
    <2> QED
      BY <1>1, <2>1, <2>2, <2>3, <2>4, RequestStep, GoogleTypes
  <1> QED
    BY <1>2, <1>3 DEF G!Spend

LEMMA ExchangeStep ==
  ASSUME GoogleInv, NEW c \in Requests, G!Exchange(c) \/ G!ExchangeRefused(c)
  PROVE  GoogleInv'
  <1> DEFINE l == for[c]
  <1>1. /\ UNCHANGED <<link, vault, connection, sites>> /\ stage[c] = "exchange"
        /\ l \in G!AllLinks /\ link[l].step = "used" /\ exchanges[l] = 0
        /\ googleFaults' \in 0..MaxFaults
    BY GoogleTypes, TimesAssumption
    DEF G!Exchange, G!ExchangeRefused, G!Fault, GoogleInv, RequestsTell, Spending
  <1>2. grant[l] = "none"
    BY <1>1, GoogleTypes DEF GoogleInv, LinksTell
  <1>3. \A q \in Requests : q # c /\ stage[q] = "exchange" => for[q] # l
    BY <1>1 DEF GoogleInv, SpentAlone
  <1>4. /\ \A q \in G!HttpRequests : q # c =>
               /\ stage'[q] = stage[q] /\ for'[q] = for[q]
               /\ copy'[q] = copy[q] /\ token'[q] = token[q]
        /\ stage' \in [G!HttpRequests -> G!Places]
        /\ for' \in [G!HttpRequests -> G!AllLinks \cup {None}]
        /\ copy' \in [G!HttpRequests -> Nat]
        /\ token' \in [G!HttpRequests -> Links \cup {None}]
        /\ stage'[c] = "idle" \/ (stage'[c] = "put" /\ for' = for)
    BY GotoTypes, GoogleTypes DEF G!Exchange, G!ExchangeRefused, G!Places
  <1>5. /\ exchanges' = exchanges \/ exchanges' = [exchanges EXCEPT ![l] = @ + 1]
        /\ \/ UNCHANGED grant
           \/ exchanges' = [exchanges EXCEPT ![l] = @ + 1] /\ grant' = [grant EXCEPT ![l] = "live"]
        /\ stage'[c] = "put" => l \in Links /\ grant' = [grant EXCEPT ![l] = "live"]
    BY <1>1, GotoTypes, GoogleTypes DEF G!Exchange, G!ExchangeRefused, G!Places
  <1>6. /\ exchanges' \in [G!AllLinks -> Nat]
        /\ grant' \in [G!AllLinks -> {"none", "live", "revoked"}]
        /\ \A q \in G!AllLinks : q # l => exchanges'[q] = exchanges[q] /\ grant'[q] = grant[q]
        /\ exchanges'[l] \in {0, 1}
        /\ grant'[l] = "none" \/ exchanges'[l] = 1
    BY <1>1, <1>2, <1>5, GoogleTypes
  <1>7. G!TypeOK'
    BY <1>1, <1>4, <1>6 DEF GoogleInv, G!TypeOK
  <1>8. LinksMoveOn /\ LinksTell' /\ VaultTells'
    BY <1>1, <1>2, <1>6, GoogleTypes DEF GoogleInv, LinksMoveOn, LinksTell, VaultTells, G!LinkState
  <1>9. stage'[c] \in {"idle", "put"} /\ Spending(c)'
    BY <1>1, <1>4, <1>5, GoogleTypes DEF Spending
  <1>10. \A q \in Requests : q # c /\ stage[q] = "exchange" =>
            exchanges'[for[q]] = exchanges[for[q]]
    BY <1>3, <1>6 DEF GoogleInv, RequestsTell, Spending
  <1> QED
    BY <1>4, <1>7, <1>8, <1>9, <1>10, RequestStep, GoogleTypes

\* A request that leaves the links and the grants alone.
LEMMA GrantsLeftAlone ==
  ASSUME GoogleInv, NEW r \in G!HttpRequests, NEW place \in G!Places, G!Goto(r, place),
         UNCHANGED <<link, grant, exchanges>>,
         vault' \in Links \cup {None}, connection' \in G!Connection, sites' \in BOOLEAN,
         googleFaults' \in 0..MaxFaults, VaultTells', place \notin {"spend", "exchange"},
         r \in Requests => place \in {"idle", "put", "connect"} /\ Spending(r)',
         r \in Disconnects =>
             place \in {"idle", "take", "revoke", "erase", "save", "detach"} /\ Disconnecting(r)'
  PROVE  GoogleInv'
  <1>1. /\ \A q \in G!HttpRequests : q # r =>
               /\ stage'[q] = stage[q] /\ for'[q] = for[q]
               /\ copy'[q] = copy[q] /\ token'[q] = token[q]
        /\ stage' \in [G!HttpRequests -> G!Places]
        /\ for' \in [G!HttpRequests -> G!AllLinks \cup {None}]
        /\ copy' \in [G!HttpRequests -> Nat]
        /\ token' \in [G!HttpRequests -> Links \cup {None}]
        /\ stage'[r] = place
    BY GotoTypes
  <1>2. G!TypeOK'
    BY <1>1 DEF GoogleInv, G!TypeOK
  <1>3. LinksMoveOn /\ LinksTell'
    BY GoogleTypes DEF GoogleInv, LinksMoveOn, LinksTell, G!LinkState
  <1> QED
    BY <1>1, <1>2, <1>3, RequestStep, GoogleTypes

LEMMA StoreStep ==
  ASSUME GoogleInv, NEW c \in Requests, G!PutToken(c) \/ G!Connect(c)
  PROVE  GoogleInv'
  <1>1. /\ for[c] \in Links /\ grant[for[c]] # "none"
        /\ UNCHANGED <<link, grant, exchanges, sites, googleFaults>>
    BY DEF G!PutToken, G!Connect, GoogleInv, RequestsTell, Spending
  <1>2. CASE G!PutToken(c)
    <2>1. G!Goto(c, "connect") /\ vault' = for[c] /\ UNCHANGED connection
      BY <1>2 DEF G!PutToken
    <2>2. stage'[c] = "connect" /\ for' = for
      BY <2>1, GotoTypes, GoogleTypes DEF G!Places
    <2>3. Spending(c)' /\ VaultTells'
      BY <1>1, <2>1, <2>2 DEF Spending, VaultTells
    <2> QED
      BY <1>1, <2>1, <2>3, GrantsLeftAlone, GoogleTypes DEF G!Places
  <1>3. CASE G!Connect(c)
    <2>1. G!Goto(c, "idle") /\ UNCHANGED vault /\ connection' \in G!Connection
      BY <1>3, GoogleTypes DEF G!Connect, G!Connection
    <2>2. stage'[c] = "idle"
      BY <2>1, GotoTypes, GoogleTypes DEF G!Places
    <2>3. Spending(c)' /\ VaultTells'
      BY <1>1, <2>1, <2>2 DEF Spending, VaultTells, GoogleInv
    <2> QED
      BY <1>1, <2>1, <2>3, GrantsLeftAlone, GoogleTypes DEF G!Places
  <1> QED
    BY <1>2, <1>3

LEMMA DisconnectStep ==
  ASSUME GoogleInv, NEW d \in Disconnects,
         \/ G!BeginDisconnect(d) \/ G!RevokeFails(d) \/ G!Erase(d)
         \/ G!SaveDisconnected(d) \/ G!Detach(d)
  PROVE  GoogleInv'
  <1>1. PICK place \in {"idle", "take", "save", "detach"} : G!Goto(d, place)
    BY DEF G!BeginDisconnect, G!RevokeFails, G!Erase, G!SaveDisconnected, G!Detach
  <1>2. /\ UNCHANGED <<link, grant, exchanges>>
        /\ vault' \in {vault, None} /\ connection' \in G!Connection /\ sites' \in BOOLEAN
        /\ googleFaults' \in 0..MaxFaults
    <2>1. UNCHANGED <<link, grant, exchanges>> /\ vault' \in {vault, None}
      BY DEF G!BeginDisconnect, G!RevokeFails, G!Erase, G!SaveDisconnected, G!Detach
    <2>2. connection' \in G!Connection
      <3>1. \/ UNCHANGED connection
            \/ connection' = [live |-> FALSE, version |-> connection.version + 1]
        BY DEF G!BeginDisconnect, G!RevokeFails, G!Erase, G!SaveDisconnected, G!Detach
      <3>2. connection.version + 1 \in Nat
        BY GoogleTypes DEF G!Connection
      <3>3. [live |-> FALSE, version |-> connection.version + 1] \in G!Connection
        BY <3>2 DEF G!Connection
      <3> QED
        BY <3>1, <3>3, GoogleTypes
    <2>3. sites' \in BOOLEAN
      BY GoogleTypes
      DEF G!BeginDisconnect, G!RevokeFails, G!Erase, G!SaveDisconnected, G!Detach, G!Connection
    <2>4. googleFaults' \in 0..MaxFaults
      BY GoogleTypes, TimesAssumption
      DEF G!BeginDisconnect, G!RevokeFails, G!Erase, G!SaveDisconnected, G!Detach, G!Fault
    <2> QED
      BY <2>1, <2>2, <2>3, <2>4
  <1>3. stage'[d] = place /\ token'[d] \in {token[d], None}
    BY <1>1, GotoTypes, GoogleTypes DEF G!Places
  <1>4. Disconnecting(d)' /\ VaultTells'
    BY <1>2, <1>3 DEF GoogleInv, RequestsTell, Disconnecting, VaultTells
  <1> QED
    BY <1>1, <1>2, <1>4, GrantsLeftAlone, GoogleTypes DEF G!Places

LEMMA TakeStep ==
  ASSUME GoogleInv, NEW d \in Disconnects, G!TakeToken(d)
  PROVE  GoogleInv'
  <1>1. /\ UNCHANGED <<link, grant, exchanges, vault, connection, sites, for, copy, googleFaults>>
        /\ token' = [token EXCEPT ![d] = vault]
        /\ stage' = [stage EXCEPT ![d] = IF vault = None THEN "erase" ELSE "revoke"]
    BY DEF G!TakeToken
  <1>2. /\ token'[d] = vault /\ stage'[d] \in {"erase", "revoke"}
        /\ stage'[d] = "erase" <=> vault = None
        /\ \A q \in G!HttpRequests : q # d => stage'[q] = stage[q] /\ token'[q] = token[q]
    BY <1>1, GoogleTypes
  <1>3. G!TypeOK'
    BY <1>1, GoogleTypes DEF GoogleInv, G!TypeOK, G!Places
  <1>4. LinksMoveOn /\ LinksTell' /\ VaultTells'
    BY <1>1, GoogleTypes DEF GoogleInv, LinksMoveOn, LinksTell, VaultTells, G!LinkState
  <1>5. Disconnecting(d)'
    BY <1>1, <1>2 DEF Disconnecting, GoogleInv, VaultTells
  <1> QED
    BY <1>1, <1>2, <1>3, <1>4, <1>5, RequestStep, GoogleTypes

LEMMA RevokeStep ==
  ASSUME GoogleInv, NEW d \in Disconnects, G!Revoke(d)
  PROVE  GoogleInv'
  <1>1. /\ UNCHANGED <<link, exchanges, vault, connection, sites, googleFaults>>
        /\ G!Goto(d, "erase") /\ token[d] \in Links /\ grant[token[d]] # "none"
    BY GoogleTypes DEF G!Revoke, GoogleInv, RequestsTell, Disconnecting
  <1>2. /\ grant' \in [G!AllLinks -> {"none", "live", "revoked"}]
        /\ \A l \in G!AllLinks : /\ grant'[l] = "none" <=> grant[l] = "none"
                                 /\ grant[l] = "revoked" => grant'[l] = "revoked"
        /\ grant'[token[d]] = "revoked"
    <2>1. \A l \in G!AllLinks : grant'[l] =
             IF grant[l] = "live" /\ Person[l] = Person[token[d]] THEN "revoked" ELSE grant[l]
      BY DEF G!Revoke
    <2>2. \A l \in G!AllLinks : grant[l] \in {"none", "live", "revoked"}
      BY GoogleTypes
    <2>3. grant' \in [G!AllLinks -> {"none", "live", "revoked"}]
      BY <2>2 DEF G!Revoke
    <2> QED
      BY <1>1, <2>1, <2>2, <2>3, GoogleTypes
  <1>3. /\ \A q \in G!HttpRequests : q # d => stage'[q] = stage[q]
        /\ stage' \in [G!HttpRequests -> G!Places]
        /\ for' = for /\ copy' = copy /\ token' = token /\ stage'[d] = "erase"
    BY <1>1, GotoTypes, GoogleTypes DEF G!Places
  <1>4. G!TypeOK'
    BY <1>1, <1>2, <1>3 DEF GoogleInv, G!TypeOK
  <1>5. LinksMoveOn /\ LinksTell' /\ VaultTells'
    BY <1>1, <1>2, GoogleTypes DEF GoogleInv, LinksMoveOn, LinksTell, VaultTells, G!LinkState
  <1>6. Disconnecting(d)'
    BY <1>2, <1>3 DEF Disconnecting, GoogleInv, RequestsTell
  <1> QED
    BY <1>1, <1>3, <1>4, <1>5, <1>6, RequestStep, GoogleTypes

LEMMA GoogleStep ==
  ASSUME GoogleInv, G!Next \/ UNCHANGED G!vars
  PROVE  GoogleInv' /\ G!DisconnectStep
  <1>1. CASE G!ConfigureSite \/ UNCHANGED G!vars
    <2>1. /\ UNCHANGED <<link, grant, exchanges, vault, connection, stage, for, copy, token,
                         googleFaults>>
          /\ sites' \in BOOLEAN
      BY <1>1, GoogleTypes DEF G!ConfigureSite, G!vars, G!request
    <2> QED
      BY <2>1 DEF GoogleInv, G!TypeOK, LinksTell, RequestsTell, Spending, Disconnecting,
                  SpentAlone, VaultTells, G!DisconnectStep
  <1>2. GoogleInv'
    BY <1>1, LinkStep, ReturnStep, SpendStep, ExchangeStep, StoreStep, DisconnectStep, TakeStep,
       RevokeStep DEF G!Next
  <1>3. G!DisconnectStep
    BY DEF G!DisconnectStep, GoogleInv, RequestsTell, Disconnecting
  <1> QED
    BY <1>2, <1>3

LEMMA GooglePromise == GoogleInv => G!TypeOK /\ G!LinkUsedOnce
  BY DEF GoogleInv, LinksTell, G!LinkUsedOnce
-----------------------------------------------------------------------------
(* Accounts: every write gives an account a new stamp, so a copy with the   *)
(* account's stamp is the account; a new password is a new hash, and a      *)
(* change of password or identity is a new generation.                      *)
CopyOf(seenCopy, a) ==
    /\ seenCopy.stamp <= account[a].stamp
    /\ seenCopy.stamp = account[a].stamp => seenCopy = account[a]
HashesAreOld == \A a \in Account : account[a].hash < account[a].stamp
CommandTells == command.of # None => CopyOf(command.copy, command.of)

ProofHolds(i) ==
    IF proof[i].method = "password" THEN account[who[i]].secret = proof[i].secret
    ELSE account[who[i]].subject = proof[i].subject
SignInTells(i) ==
    LET current == account[who[i]]  g == proof[i].subject IN
    /\ stage[i] \in {"rehash", "commit", "touch"} => CopyOf(seen[i], who[i])
    /\ stage[i] \in {"rehash", "commit", "open"} => seen[i].generation <= current.generation
    /\ stage[i] \in {"confirm", "touch", "in"} => session[i].generation <= current.generation
    /\ proof[i].hash < current.stamp
    /\ stage[i] # "start" /\ proof[i].method = "password" /\ proof[i].hash = current.hash
          => proof[i].secret = current.secret
    /\ stage[i] = "rehash" => proof[i].secret = seen[i].secret
    /\ stage[i] # "start" /\ proof[i].method = "google" => g \in Subjects
    /\ stage[i] \in {"bind", "commit"} => g \in Subjects
    /\ stage[i] = "commit" =>
          /\ A!MayLink(seen[i], g) /\ indexSeen[i] <= google[g].version
          /\ indexSeen[i] = google[g].version => google[g].owner = None
    /\ /\ stage[i] \in {"touch", "in"} /\ session[i].state = "live"
       /\ session[i].generation = current.generation
       => ProofHolds(i)
AccountsInv ==
    /\ A!TypeOK /\ HashesAreOld /\ CommandTells /\ A!IndexMatchesAccount
    /\ \A i \in Requests : SignInTells(i)

\* What a step may do to the accounts and to the index.
AccountsMove ==
    \A a \in Account :
        LET old == account[a]  new == account'[a] IN
        \/ new = old
        \/ /\ new.stamp = old.stamp + 1 /\ new.generation >= old.generation
           /\ new.generation = old.generation =>
                 new.secret = old.secret /\ (old.subject # None => new.subject = old.subject)
           /\ new.hash = old.stamp \/ (new.hash = old.hash /\ new.secret = old.secret)
IndexMoves ==
    \A g \in Subjects : google'[g] = google[g] \/ google'[g].version > google[g].version
SignInRests(i) ==
    /\ stage'[i] = stage[i] /\ session'[i] = session[i] /\ who'[i] = who[i]
    /\ proof'[i] = proof[i] /\ seen'[i] = seen[i] /\ indexSeen'[i] = indexSeen[i]
-----------------------------------------------------------------------------
LEMMA AccountTypes ==
  ASSUME A!TypeOK
  PROVE  /\ \A a \in Account :
              /\ account[a] \in A!AccountRecord /\ account[a].stamp \in Nat
              /\ account[a].hash \in Nat /\ account[a].generation \in Nat
              /\ account[a].subject \in Subjects \cup {None} /\ account[a].secret \in Nat
         /\ \A g \in Subjects : google[g].version \in Nat /\ google[g].owner \in Account \cup {None}
         /\ command.of \in Account \cup {None} /\ command.copy \in A!AccountRecord
         /\ command.copy.stamp \in Nat
         /\ \A i \in Requests :
              /\ who[i] \in Account /\ seen[i] \in A!AccountRecord /\ seen[i].stamp \in Nat
              /\ seen[i].generation \in Nat /\ session[i].generation \in Nat
              /\ session[i] \in A!Session /\ stage[i] \in A!Places
              /\ proof[i].hash \in Nat /\ proof[i].secret \in Nat
              /\ proof[i].subject \in Subjects \cup {None} /\ proof[i].method \in A!LoginMethod
              /\ indexSeen[i] \in Nat
         /\ None \notin Account /\ None \notin Subjects
  BY NoneAssumption DEF A!TypeOK, A!AccountRecord, A!Session

LEMMA CopyStays ==
  ASSUME A!TypeOK, AccountsMove, NEW c \in A!AccountRecord, NEW a \in Account, CopyOf(c, a)
  PROVE  CopyOf(c, a)'
  <1>1. c.stamp \in Nat /\ account[a].stamp \in Nat /\ c.stamp <= account[a].stamp
    BY AccountTypes DEF CopyOf, A!AccountRecord
  <1>2. CASE account'[a] = account[a]
    BY <1>2 DEF CopyOf
  <1>3. CASE account'[a].stamp = account[a].stamp + 1
    BY <1>1, <1>3 DEF CopyOf
  <1> QED
    BY <1>2, <1>3 DEF AccountsMove

LEMMA SignInKept ==
  ASSUME A!TypeOK, A!TypeOK', AccountsMove, IndexMoves,
         NEW i \in Requests, SignInTells(i), SignInRests(i)
  PROVE  SignInTells(i)'
  <1>1. PICK a \in Account, c \in A!AccountRecord : a = who[i] /\ c = seen[i]
    BY AccountTypes
  <1>2. /\ account[a].stamp \in Nat /\ account[a].hash \in Nat /\ account[a].generation \in Nat
        /\ account'[a].stamp \in Nat /\ account'[a].hash \in Nat /\ account'[a].generation \in Nat
        /\ proof[i].hash \in Nat /\ seen[i].generation \in Nat /\ session[i].generation \in Nat
    BY <1>1, AccountTypes DEF A!TypeOK, A!AccountRecord
  <1>3. stage[i] \in {"rehash", "commit", "touch"} => CopyOf(c, a)'
    BY <1>1, CopyStays DEF SignInTells
  <1>4. account'[a].generation >= account[a].generation /\ account'[a].stamp >= account[a].stamp
    BY <1>1, <1>2 DEF AccountsMove
  <1>5. stage[i] # "start" /\ proof[i].method = "password" /\ proof[i].hash = account'[a].hash
          => proof[i].secret = account'[a].secret
    <2>1. /\ proof[i].hash < account[a].stamp
          /\ stage[i] # "start" /\ proof[i].method = "password" /\ proof[i].hash = account[a].hash
                => proof[i].secret = account[a].secret
      BY <1>1 DEF SignInTells
    <2> QED
      BY <1>1, <1>2, <2>1 DEF AccountsMove
  <1>6. stage[i] = "commit" =>
          /\ indexSeen[i] <= google'[proof[i].subject].version
          /\ indexSeen[i] = google'[proof[i].subject].version =>
                google'[proof[i].subject].owner = None
    <2> DEFINE g == proof[i].subject
    <2> SUFFICES ASSUME stage[i] = "commit"
                 PROVE  /\ indexSeen[i] <= google'[g].version
                        /\ indexSeen[i] = google'[g].version => google'[g].owner = None
      OBVIOUS
    <2>1. /\ g \in Subjects /\ indexSeen[i] <= google[g].version
          /\ indexSeen[i] = google[g].version => google[g].owner = None
      BY DEF SignInTells
    <2>2. google[g].version \in Nat /\ google'[g].version \in Nat /\ indexSeen[i] \in Nat
      BY <2>1, AccountTypes DEF A!TypeOK
    <2> QED
      BY <2>1, <2>2 DEF IndexMoves
  <1>7. /\ stage[i] \in {"touch", "in"} /\ session[i].state = "live"
        /\ session[i].generation = account'[a].generation
        => IF proof[i].method = "password" THEN account'[a].secret = proof[i].secret
           ELSE account'[a].subject = proof[i].subject
    <2> SUFFICES ASSUME stage[i] \in {"touch", "in"}, session[i].state = "live",
                        session[i].generation = account'[a].generation
                 PROVE  IF proof[i].method = "password" THEN account'[a].secret = proof[i].secret
                        ELSE account'[a].subject = proof[i].subject
      OBVIOUS
    <2>1. session[i].generation <= account[a].generation
      BY <1>1 DEF SignInTells
    <2>2. account'[a].generation = account[a].generation
      BY <1>2, <1>4, <2>1
    <2>3. IF proof[i].method = "password" THEN account[a].secret = proof[i].secret
          ELSE account[a].subject = proof[i].subject
      BY <1>1, <2>2 DEF SignInTells, ProofHolds
    <2>4. proof[i].method # "password" => proof[i].subject # None
      BY AccountTypes DEF SignInTells, A!LoginMethod
    <2> QED
      BY <1>1, <2>2, <2>3, <2>4 DEF AccountsMove
  <1>8. /\ stage[i] \in {"rehash", "commit", "open"} => seen[i].generation <= account'[a].generation
        /\ stage[i] \in {"confirm", "touch", "in"} => session[i].generation <= account'[a].generation
        /\ proof[i].hash < account'[a].stamp
    BY <1>1, <1>2, <1>4 DEF SignInTells
  <1>9. /\ stage[i] = "rehash" => proof[i].secret = seen[i].secret
        /\ stage[i] # "start" /\ proof[i].method = "google" => proof[i].subject \in Subjects
        /\ stage[i] \in {"bind", "commit"} => proof[i].subject \in Subjects
        /\ stage[i] = "commit" => A!MayLink(seen[i], proof[i].subject)
    BY DEF SignInTells
  <1>10. /\ who'[i] = a /\ seen'[i] = c /\ stage'[i] = stage[i] /\ session'[i] = session[i]
         /\ proof'[i] = proof[i] /\ indexSeen'[i] = indexSeen[i]
    BY <1>1 DEF SignInRests
  <1>11. /\ stage'[i] \in {"rehash", "commit", "touch"} => CopyOf(seen[i], who[i])'
         /\ stage'[i] = "commit" => A!MayLink(seen[i], proof[i].subject)'
    BY <1>1, <1>3, <1>9, <1>10 DEF CopyOf, A!MayLink
  <1> QED
    BY <1>1, <1>5, <1>6, <1>7, <1>8, <1>9, <1>10, <1>11 DEF SignInTells, ProofHolds

\* A step of one sign-in, or of the operator.
LEMMA AccountsMoved ==
  ASSUME AccountsInv, A!TypeOK', AccountsMove, IndexMoves, A!IndexMatchesAccount', CommandTells',
         \A i \in Requests : SignInRests(i) \/ SignInTells(i)'
  PROVE  AccountsInv'
  <1>1. \A i \in Requests : SignInTells(i)'
    BY SignInKept DEF AccountsInv
  <1>2. HashesAreOld'
    <2> SUFFICES ASSUME NEW a \in Account PROVE account'[a].hash < account'[a].stamp
      BY DEF HashesAreOld
    <2>1. account[a].hash < account[a].stamp /\ account[a].hash \in Nat /\ account[a].stamp \in Nat
      BY AccountTypes DEF AccountsInv, HashesAreOld
    <2> QED
      BY <2>1 DEF AccountsMove
  <1> QED
    BY <1>1, <1>2 DEF AccountsInv

LEMMA SignInMoved ==
  ASSUME AccountsInv, A!TypeOK', AccountsMove, IndexMoves, A!IndexMatchesAccount',
         UNCHANGED command, NEW i \in Requests, SignInTells(i)',
         \A j \in Requests : j # i => SignInRests(j)
  PROVE  AccountsInv'
  <1>1. CommandTells'
    <2> SUFFICES ASSUME command.of # None PROVE CopyOf(command.copy, command.of)'
      BY DEF CommandTells
    <2>1. PICK a \in Account, c \in A!AccountRecord : a = command.of /\ c = command.copy
      BY AccountTypes DEF AccountsInv
    <2>2. CopyOf(c, a)'
      BY <2>1, CopyStays DEF AccountsInv, CommandTells
    <2> QED
      BY <2>1, <2>2 DEF CopyOf
  <1> QED
    BY <1>1, AccountsMoved

LEMMA RecordsRest ==
  ASSUME AccountsInv, UNCHANGED <<account, google>>
  PROVE  AccountsMove /\ IndexMoves /\ A!IndexMatchesAccount' /\ A!AccountStep
  BY AccountTypes DEF AccountsInv, AccountsMove, IndexMoves, A!IndexMatchesAccount, A!AccountStep

LEMMA AccountsStart == A!Init => AccountsInv
  <1> SUFFICES ASSUME A!Init PROVE AccountsInv
    OBVIOUS
  <1> USE DEF A!Init, A!Created, A!NoProof, A!NoSession
  <1>1. A!TypeOK
    <2>1. A!Created \in A!AccountRecord /\ A!NoSession \in A!Session
      BY DEF A!AccountRecord, A!AccountStatus, A!Session
    <2> QED
      BY <2>1 DEF A!TypeOK, A!Places, A!LoginMethod
  <1>2. \A a \in Account : account[a] = A!Created
    OBVIOUS
  <1>3. HashesAreOld /\ CommandTells /\ A!IndexMatchesAccount
    BY <1>2, NoneAssumption DEF HashesAreOld, CommandTells, A!IndexMatchesAccount
  <1>4. ASSUME NEW i \in Requests PROVE SignInTells(i)
    <2>1. stage[i] = "start" /\ proof[i].hash = 0 /\ account[who[i]].stamp = 1
      BY <1>2
    <2> QED
      BY <2>1 DEF SignInTells
  <1> QED
    BY <1>1, <1>3, <1>4 DEF AccountsInv

-----------------------------------------------------------------------------
LEMMA CheckPasswordStep ==
  ASSUME AccountsInv, NEW i \in Requests, A!CheckPassword(i)
  PROVE  AccountsInv' /\ A!AccountStep
  <1>1. PICK a \in Account, place \in {"rehash", "open"} :
           /\ a = who[i] /\ stage' = [stage EXCEPT ![i] = place]
           /\ proof' = [proof EXCEPT ![i] =
                  [A!NoProof EXCEPT !.secret = account[a].secret, !.hash = account[a].hash]]
           /\ seen' = [seen EXCEPT ![i] = account[a]]
           /\ UNCHANGED <<account, google, tenantActive, session, who, indexSeen, bindTries,
                          command, changes>>
    BY AccountTypes DEF A!CheckPassword, A!Go, A!records, A!operator, AccountsInv
  <1>2. A!TypeOK'
    BY <1>1, AccountTypes DEF AccountsInv, A!TypeOK, A!NoProof, A!Places, A!LoginMethod
  <1>3. /\ proof'[i].hash = account[a].hash /\ proof'[i].secret = account[a].secret
        /\ proof'[i].method = "password" /\ seen'[i] = account[a] /\ stage'[i] = place
        /\ \A j \in Requests : j # i => SignInRests(j)
    BY <1>1 DEF AccountsInv, A!TypeOK, A!NoProof, SignInRests
  <1>4. SignInTells(i)'
    BY <1>1, <1>3, AccountTypes DEF SignInTells, CopyOf, AccountsInv, HashesAreOld
  <1> QED
    BY <1>1, <1>2, <1>3, <1>4, RecordsRest, SignInMoved

LEMMA FindStep ==
  ASSUME AccountsInv, NEW i \in Requests, NEW g \in Subjects,
         A!FindByGoogle(i, g) \/ A!FindByEmail(i, g)
  PROVE  AccountsInv' /\ A!AccountStep
  <1>1. PICK a \in Account, place \in {"found", "bind", "refused"} :
           /\ who' = [who EXCEPT ![i] = a] /\ stage' = [stage EXCEPT ![i] = place]
           /\ proof' = [proof EXCEPT ![i] =
                  [A!NoProof EXCEPT !.method = "google", !.subject = g]]
           /\ UNCHANGED <<account, google, tenantActive, session, seen, indexSeen, bindTries,
                          command, changes>>
    <2>1. CASE A!FindByGoogle(i, g)
      BY <2>1, AccountTypes DEF A!FindByGoogle, A!Go, A!records, A!operator, AccountsInv
    <2>2. CASE A!FindByEmail(i, g)
      <3>1. who' = [who EXCEPT ![i] = who[i]] /\ who[i] \in Account
        BY <2>2, AccountTypes DEF A!FindByEmail, AccountsInv, A!TypeOK
      <3> QED
        BY <2>2, <3>1 DEF A!FindByEmail, A!Go, A!Refuse, A!records, A!operator
    <2> QED
      BY <2>1, <2>2
  <1>2. A!TypeOK'
    BY <1>1, AccountTypes DEF AccountsInv, A!TypeOK, A!NoProof, A!Places, A!LoginMethod
  <1>3. /\ proof'[i].hash = 0 /\ proof'[i].method = "google" /\ proof'[i].subject = g
        /\ who'[i] = a /\ stage'[i] = place
        /\ \A j \in Requests : j # i => SignInRests(j)
    BY <1>1 DEF AccountsInv, A!TypeOK, A!NoProof, SignInRests
  <1>4. 0 < account[a].stamp
    BY AccountTypes DEF AccountsInv, HashesAreOld
  <1>5. SignInTells(i)'
    BY <1>1, <1>3, <1>4 DEF SignInTells
  <1> QED
    BY <1>1, <1>2, <1>3, <1>5, RecordsRest, SignInMoved

LEMMA ReadFoundStep ==
  ASSUME AccountsInv, NEW i \in Requests, A!ReadFound(i)
  PROVE  AccountsInv' /\ A!AccountStep
  <1>1. PICK a \in Account, place \in {"open", "refused"} :
           /\ a = who[i] /\ stage[i] = "found" /\ stage' = [stage EXCEPT ![i] = place]
           /\ seen' = [seen EXCEPT ![i] = account[a]]
           /\ UNCHANGED <<account, google, tenantActive, session, who, proof, indexSeen,
                          bindTries, command, changes>>
    BY AccountTypes DEF A!ReadFound, A!Go, A!Refuse, A!records, A!operator, AccountsInv
  <1>2. A!TypeOK'
    BY <1>1, AccountTypes DEF AccountsInv, A!TypeOK, A!Places
  <1>3. /\ seen'[i] = account[a] /\ stage'[i] = place
        /\ \A j \in Requests : j # i => SignInRests(j)
    BY <1>1 DEF AccountsInv, A!TypeOK, SignInRests
  <1>4. SignInTells(i)'
    BY <1>1, <1>3, AccountTypes DEF SignInTells, AccountsInv
  <1> QED
    BY <1>1, <1>2, <1>3, <1>4, RecordsRest, SignInMoved

LEMMA BindGoogleStep ==
  ASSUME AccountsInv, NEW i \in Requests, A!BindGoogle(i)
  PROVE  AccountsInv' /\ A!AccountStep
  <1>1. PICK a \in Account, g \in Subjects, place \in {"commit", "refused"} :
           /\ a = who[i] /\ g = proof[i].subject /\ stage[i] = "bind"
           /\ stage' = [stage EXCEPT ![i] = place]
           /\ place = "commit" => A!MayLink(account[a], g) /\ google[g].owner = None
           /\ seen' = [seen EXCEPT ![i] = account[a]]
           /\ indexSeen' = [indexSeen EXCEPT ![i] = google[g].version]
           /\ UNCHANGED <<account, google, tenantActive, session, who, proof,
                          bindTries, command, changes>>
    <2>1. who[i] \in Account /\ proof[i].subject \in Subjects
      BY AccountTypes DEF AccountsInv, SignInTells, A!BindGoogle
    <2> QED
      BY <2>1 DEF A!BindGoogle, A!Go, A!Refuse, A!records, A!operator
  <1>2. A!TypeOK'
    BY <1>1, AccountTypes DEF AccountsInv, A!TypeOK, A!Places
  <1>3. /\ seen'[i] = account[a] /\ stage'[i] = place /\ indexSeen'[i] = google[g].version
        /\ \A j \in Requests : j # i => SignInRests(j)
    BY <1>1 DEF AccountsInv, A!TypeOK, SignInRests
  <1>4. SignInTells(i)'
    <2>1. A!MayLink(account[a], g) = A!MayLink(seen'[i], g)
      BY <1>3
    <2>2. stage'[i] = "commit" => A!MayLink(seen[i], proof[i].subject)'
      BY <1>1, <1>3 DEF A!MayLink
    <2> QED
      BY <1>1, <1>3, <2>2, AccountTypes DEF SignInTells, AccountsInv, CopyOf
  <1> QED
    BY <1>1, <1>2, <1>3, <1>4, RecordsRest, SignInMoved

LEMMA SessionStep ==
  ASSUME AccountsInv, NEW i \in Requests, A!OpenSession(i) \/ A!SignOut(i)
  PROVE  AccountsInv' /\ A!AccountStep
  <1>1. PICK new \in A!Session, place \in {"confirm", "in", "refused"} :
           /\ stage' = [stage EXCEPT ![i] = place] /\ session' = [session EXCEPT ![i] = new]
           /\ place = "confirm" => stage[i] = "open" /\ new.generation = seen[i].generation
           /\ place = "in" => stage[i] = "in" /\ new.generation = session[i].generation
                              /\ new.state = "revoked"
           /\ stage[i] # "start"
           /\ UNCHANGED <<account, google, tenantActive, who, proof, seen, indexSeen,
                          bindTries, command, changes>>
    <2>1. session[i] \in A!Session /\ seen[i].generation \in Nat
      BY AccountTypes DEF AccountsInv
    <2>2. CASE A!OpenSession(i) /\ tenantActive
      <3>1. [state |-> "live", generation |-> seen[i].generation] \in A!Session
        BY <2>1 DEF A!Session
      <3> QED
        BY <2>2, <3>1 DEF A!OpenSession, A!Go, A!records, A!operator
    <2>3. CASE A!OpenSession(i) /\ ~tenantActive
      <3>1. session' = [session EXCEPT ![i] = session[i]]
        BY <2>3 DEF A!OpenSession, AccountsInv, A!TypeOK
      <3> QED
        BY <2>1, <2>3, <3>1 DEF A!OpenSession, A!Go, A!Refuse, A!records, A!operator
    <2>4. CASE A!SignOut(i)
      <3>1. /\ session' = [session EXCEPT ![i] = [session[i] EXCEPT !.state = "revoked"]]
            /\ [session[i] EXCEPT !.state = "revoked"] \in A!Session
        BY <2>1, <2>4 DEF A!SignOut, A!Session
      <3>2. stage' = [stage EXCEPT ![i] = "in"]
        BY <2>4 DEF A!SignOut, A!signIn, AccountsInv, A!TypeOK
      <3> QED
        BY <2>1, <2>4, <3>1, <3>2 DEF A!SignOut, A!records, A!operator, A!signIn, A!Session
    <2> QED
      BY <2>2, <2>3, <2>4
  <1>2. A!TypeOK'
    BY <1>1 DEF AccountsInv, A!TypeOK, A!Places
  <1>3. /\ session'[i] = new /\ stage'[i] = place
        /\ \A j \in Requests : j # i => SignInRests(j)
    BY <1>1 DEF AccountsInv, A!TypeOK, SignInRests
  <1>4. SignInTells(i)'
    BY <1>1, <1>3 DEF SignInTells, AccountsInv
  <1> QED
    BY <1>1, <1>2, <1>3, <1>4, RecordsRest, SignInMoved

LEMMA ConfirmStep ==
  ASSUME AccountsInv, NEW i \in Requests, A!Confirm(i)
  PROVE  AccountsInv' /\ A!AccountStep
  <1>1. PICK a \in Account : a = who[i]
    BY AccountTypes DEF AccountsInv
  <1>2. CASE /\ account[a].generation = session[i].generation /\ A!StillValid(i, account[a])
             /\ seen' = [seen EXCEPT ![i] = account[a]] /\ stage' = [stage EXCEPT ![i] = "touch"]
             /\ UNCHANGED session
    <2>1. UNCHANGED <<account, google, tenantActive, who, proof, indexSeen, bindTries, command,
                      changes>>
      BY DEF A!Confirm, A!records, A!operator
    <2>2. A!TypeOK'
      BY <1>2, <2>1, AccountTypes DEF AccountsInv, A!TypeOK, A!Places
    <2>3. /\ seen'[i] = account[a] /\ stage'[i] = "touch"
          /\ \A j \in Requests : j # i => SignInRests(j)
      BY <1>2, <2>1 DEF AccountsInv, A!TypeOK, SignInRests
    <2>4. stage[i] = "confirm"
      BY DEF A!Confirm
    <2>5. ProofHolds(i)
      BY <1>1, <1>2, <2>4 DEF ProofHolds, A!StillValid, AccountsInv, SignInTells
    <2>6. SignInTells(i)'
      BY <1>1, <1>2, <2>1, <2>3, <2>4, <2>5, AccountTypes
      DEF SignInTells, AccountsInv, CopyOf, ProofHolds
    <2> QED
      BY <2>1, <2>2, <2>3, <2>6, RecordsRest, SignInMoved
  <1>3. CASE /\ session' = [session EXCEPT ![i].state = "revoked"]
             /\ stage' = [stage EXCEPT ![i] = "refused"] /\ UNCHANGED seen
    <2>1. UNCHANGED <<account, google, tenantActive, who, proof, indexSeen, bindTries, command,
                      changes>>
      BY DEF A!Confirm, A!records, A!operator
    <2>2. A!TypeOK'
      BY <1>3, <2>1, AccountTypes DEF AccountsInv, A!TypeOK, A!Places, A!Session
    <2>3. /\ stage'[i] = "refused" /\ \A j \in Requests : j # i => SignInRests(j)
      BY <1>3, <2>1 DEF AccountsInv, A!TypeOK, SignInRests
    <2>4. stage[i] = "confirm"
      BY DEF A!Confirm
    <2>5. SignInTells(i)'
      BY <1>3, <2>1, <2>3, <2>4 DEF SignInTells, AccountsInv
    <2> QED
      BY <2>1, <2>2, <2>3, <2>5, RecordsRest, SignInMoved
  <1> QED
    BY <1>1, <1>2, <1>3 DEF A!Confirm, A!Go, A!Refuse
-----------------------------------------------------------------------------
\* An account is written over a fresh copy of it.
Follows(new, old) ==
    /\ new.stamp = old.stamp + 1 /\ new.generation >= old.generation
    /\ new.generation = old.generation =>
          new.secret = old.secret /\ (old.subject # None => new.subject = old.subject)
    /\ new.hash = old.stamp \/ (new.hash = old.hash /\ new.secret = old.secret)
\* The sign-ins leave alone what is the operator's.
SignInWrites(new, old) ==
    /\ Follows(new, old)
    /\ <<new.status, new.secret, new.allowed, new.generation>>
       = <<old.status, old.secret, old.allowed, old.generation>>
    /\ new.subject # old.subject => A!MayLink(old, new.subject)

LEMMA AccountWritten ==
  ASSUME A!TypeOK, NEW a \in Account, NEW new, account' = [account EXCEPT ![a] = new],
         Follows(new, account[a])
  PROVE  /\ AccountsMove /\ account'[a] = new
         /\ \A b \in Account : b # a => account'[b] = account[b]
         /\ \A b \in Account : account'[b].generation >= account[b].generation
         /\ SignInWrites(new, account[a]) => A!AccountStep
  <1>1. account'[a] = new /\ \A b \in Account : b # a => account'[b] = account[b]
    BY DEF A!TypeOK
  <1>2. AccountsMove
    BY <1>1 DEF AccountsMove, Follows
  <1>3. \A b \in Account : account'[b].generation >= account[b].generation
    BY <1>1, AccountTypes DEF Follows
  <1>4. ASSUME SignInWrites(new, account[a]) PROVE A!AccountStep
    BY <1>1, <1>3, <1>4 DEF SignInWrites, A!AccountStep
  <1> QED
    BY <1>1, <1>2, <1>3, <1>4

LEMMA IndexRests ==
  ASSUME A!IndexMatchesAccount, UNCHANGED google,
         \A b \in Account : account'[b].subject = account[b].subject
  PROVE  IndexMoves /\ A!IndexMatchesAccount'
  BY DEF IndexMoves, A!IndexMatchesAccount

LEMMA RehashStep ==
  ASSUME AccountsInv, NEW i \in Requests, A!Rehash(i)
  PROVE  AccountsInv' /\ A!AccountStep
  <1>1. PICK a \in Account, old \in A!AccountRecord : a = who[i] /\ old = account[a]
    BY AccountTypes DEF AccountsInv
  <1>2. /\ stage[i] = "rehash" /\ stage' = [stage EXCEPT ![i] = "open"]
        /\ UNCHANGED <<google, tenantActive, session, who, indexSeen, bindTries, command, changes>>
    BY DEF A!Rehash, A!Go, A!operator
  <1>3. CopyOf(seen[i], a) /\ proof[i].secret = seen[i].secret
    BY <1>1, <1>2 DEF AccountsInv, SignInTells
  <1>4. CASE A!Fresh(a, seen[i])
    <2> DEFINE renewed == [old EXCEPT !.hash = old.stamp, !.weak = FALSE, !.stamp = old.stamp + 1]
    <2>1. seen[i] = old
      BY <1>1, <1>3, <1>4 DEF CopyOf, A!Fresh
    <2>2. A!Stamped([seen[i] EXCEPT !.hash = seen[i].stamp, !.weak = FALSE]) = renewed
      BY <2>1 DEF A!Stamped, A!AccountRecord
    <2>3. /\ renewed \in A!AccountRecord /\ renewed.hash = old.stamp /\ renewed.stamp = old.stamp + 1
          /\ renewed.generation = old.generation /\ renewed.secret = old.secret
          /\ renewed.subject = old.subject /\ renewed.status = old.status
          /\ renewed.allowed = old.allowed /\ old.stamp \in Nat /\ old.generation \in Nat
      <3>1. old.stamp \in Nat /\ old.stamp + 1 \in Nat /\ old.generation \in Nat
        BY DEF A!AccountRecord
      <3>2. [old EXCEPT !.hash = old.stamp] \in A!AccountRecord
        BY <3>1 DEF A!AccountRecord
      <3>3. [[old EXCEPT !.hash = old.stamp] EXCEPT !.weak = FALSE] \in A!AccountRecord
        BY <3>2 DEF A!AccountRecord
      <3>4. renewed \in A!AccountRecord
        BY <3>1, <3>3 DEF A!AccountRecord
      <3> QED
        BY <3>1, <3>4 DEF A!AccountRecord
    <2> HIDE DEF renewed
    <2>4. /\ account' = [account EXCEPT ![a] = renewed] /\ seen' = [seen EXCEPT ![i] = renewed]
          /\ proof' = [proof EXCEPT ![i].hash = old.stamp]
      BY <1>1, <1>4, <2>2, <2>3 DEF A!Rehash
    <2>5. SignInWrites(renewed, account[a])
      BY <1>1, <2>3 DEF SignInWrites, Follows
    <2>6. A!TypeOK'
      BY <1>2, <2>3, <2>4 DEF AccountsInv, A!TypeOK, A!Places
    <2>7. /\ seen'[i] = renewed /\ stage'[i] = "open" /\ proof'[i].hash = old.stamp
          /\ proof'[i].secret = proof[i].secret /\ proof'[i].method = proof[i].method
          /\ proof'[i].subject = proof[i].subject
          /\ \A j \in Requests : j # i => SignInRests(j)
      BY <1>2, <2>4 DEF AccountsInv, A!TypeOK, SignInRests
    <2>8. /\ AccountsMove /\ account'[a] = renewed /\ A!AccountStep
          /\ \A b \in Account : b # a => account'[b] = account[b]
      BY <2>4, <2>5, AccountWritten DEF SignInWrites, AccountsInv
    <2>9. IndexMoves /\ A!IndexMatchesAccount'
      BY <1>1, <1>2, <2>3, <2>8, IndexRests DEF AccountsInv
    <2>10. SignInTells(i)'
      <3>1. proof[i].method = "google" => proof[i].subject \in Subjects
        BY <1>2 DEF AccountsInv, SignInTells
      <3> QED
        BY <1>1, <1>2, <1>3, <2>1, <2>3, <2>7, <2>8, <3>1 DEF SignInTells
    <2> QED
      BY <1>2, <2>6, <2>7, <2>8, <2>9, <2>10, SignInMoved
  <1>5. CASE ~A!Fresh(a, seen[i])
    <2>1. UNCHANGED <<account, seen, proof>>
      BY <1>1, <1>5 DEF A!Rehash
    <2>2. A!TypeOK'
      BY <1>2, <2>1 DEF AccountsInv, A!TypeOK, A!Places
    <2>3. stage'[i] = "open" /\ \A j \in Requests : j # i => SignInRests(j)
      BY <1>2, <2>1 DEF AccountsInv, A!TypeOK, SignInRests
    <2>4. SignInTells(i)'
      BY <1>2, <2>1, <2>3 DEF SignInTells, AccountsInv
    <2> QED
      BY <1>2, <2>1, <2>2, <2>3, <2>4, RecordsRest, SignInMoved
  <1> QED
    BY <1>4, <1>5

LEMMA BindCommitStep ==
  ASSUME AccountsInv, NEW i \in Requests, A!BindCommit(i)
  PROVE  AccountsInv' /\ A!AccountStep
  <1>1. PICK a \in Account, old \in A!AccountRecord, g \in Subjects :
           a = who[i] /\ old = account[a] /\ g = proof[i].subject
    BY AccountTypes DEF AccountsInv, SignInTells, A!BindCommit
  <1>2. /\ stage[i] = "commit"
        /\ UNCHANGED <<tenantActive, session, who, proof, indexSeen, command, changes>>
    BY DEF A!BindCommit, A!operator
  <1>3. /\ CopyOf(seen[i], a) /\ A!MayLink(seen[i], g)
        /\ indexSeen[i] = google[g].version => google[g].owner = None
    BY <1>1, <1>2 DEF AccountsInv, SignInTells
  <1>4. CASE google[g].version = indexSeen[i] /\ A!Fresh(a, seen[i])
    <2> DEFINE linked == [old EXCEPT !.subject = g, !.stamp = old.stamp + 1]
               entry == [owner |-> a, version |-> google[g].version + 1]
    <2>1. seen[i] = old /\ google[g].owner = None /\ old.subject \in {None, g}
      BY <1>1, <1>3, <1>4 DEF CopyOf, A!Fresh, A!MayLink
    <2>2. A!Stamped([seen[i] EXCEPT !.subject = g]) = linked
      BY <2>1 DEF A!Stamped, A!AccountRecord
    <2>3. /\ linked \in A!AccountRecord /\ linked.subject = g /\ linked.stamp = old.stamp + 1
          /\ linked.generation = old.generation /\ linked.secret = old.secret
          /\ linked.hash = old.hash /\ linked.status = old.status /\ linked.allowed = old.allowed
          /\ old.stamp \in Nat /\ old.generation \in Nat
      <3>1. old.stamp \in Nat /\ old.stamp + 1 \in Nat /\ old.generation \in Nat
            /\ g \in Subjects \cup {None}
        BY DEF A!AccountRecord
      <3>2. [old EXCEPT !.subject = g] \in A!AccountRecord
        BY <3>1 DEF A!AccountRecord
      <3>3. linked \in A!AccountRecord
        BY <3>1, <3>2 DEF A!AccountRecord
      <3> QED
        BY <3>1, <3>3 DEF A!AccountRecord
    <2>4. google[g].version \in Nat /\ entry.owner = a /\ entry.version = google[g].version + 1
          /\ entry \in [owner : Account \cup {None}, version : Nat]
      BY AccountTypes DEF AccountsInv
    <2> HIDE DEF linked, entry
    <2>5. /\ account' = [account EXCEPT ![a] = linked] /\ seen' = [seen EXCEPT ![i] = linked]
          /\ google' = [google EXCEPT ![g] = entry] /\ stage' = [stage EXCEPT ![i] = "open"]
          /\ UNCHANGED bindTries
      BY <1>1, <1>4, <2>2 DEF A!BindCommit, A!Go, entry
    <2>6. SignInWrites(linked, account[a])
      <3>1. A!MayLink(old, g)
        BY <1>3, <2>1
      <3> QED
        BY <1>1, <2>1, <2>3, <3>1, NoneAssumption DEF SignInWrites, Follows
    <2>7. A!TypeOK'
      BY <1>2, <2>3, <2>4, <2>5 DEF AccountsInv, A!TypeOK, A!Places
    <2>8. /\ seen'[i] = linked /\ stage'[i] = "open" /\ google'[g] = entry
          /\ \A h \in Subjects : h # g => google'[h] = google[h]
          /\ \A j \in Requests : j # i => SignInRests(j)
      BY <1>2, <2>5 DEF AccountsInv, A!TypeOK, SignInRests
    <2>9. /\ AccountsMove /\ account'[a] = linked /\ A!AccountStep
          /\ \A b \in Account : b # a => account'[b] = account[b]
      BY <2>5, <2>6, AccountWritten DEF SignInWrites, AccountsInv
    <2>10. IndexMoves
      BY <2>4, <2>8 DEF IndexMoves
    <2>11. A!IndexMatchesAccount'
      <3> SUFFICES ASSUME NEW h \in Subjects, NEW b \in Account
                   PROVE  google'[h].owner = b <=> account'[b].subject = h
        BY DEF A!IndexMatchesAccount
      <3>1. google[h].owner = b <=> account[b].subject = h
        BY DEF AccountsInv, A!IndexMatchesAccount
      <3>2. h # None /\ b # None
        BY NoneAssumption
      <3>3. CASE h = g /\ b = a
        BY <2>3, <2>4, <2>8, <2>9, <3>3
      <3>4. CASE h = g /\ b # a
        BY <2>1, <2>4, <2>8, <2>9, <3>1, <3>2, <3>4
      <3>5. CASE h # g /\ b = a
        BY <1>1, <2>1, <2>3, <2>8, <2>9, <3>1, <3>2, <3>5
      <3>6. CASE h # g /\ b # a
        BY <2>8, <2>9, <3>1, <3>6
      <3> QED
        BY <3>3, <3>4, <3>5, <3>6
    <2>12. SignInTells(i)'
      <3>1. /\ proof[i].hash < old.stamp /\ proof[i].hash \in Nat
            /\ proof[i].method = "password" /\ proof[i].hash = old.hash
                  => proof[i].secret = old.secret
            /\ seen[i].generation <= old.generation
        BY <1>1, <1>2, AccountTypes DEF AccountsInv, SignInTells
      <3> QED
        BY <1>1, <1>2, <2>3, <2>8, <2>9, <3>1 DEF SignInTells
    <2> QED
      BY <1>2, <2>7, <2>8, <2>9, <2>10, <2>11, <2>12, SignInMoved
  <1>5. CASE ~(google[g].version = indexSeen[i] /\ A!Fresh(a, seen[i]))
    <2>1. PICK place \in {"bind", "refused"} :
             /\ stage' = [stage EXCEPT ![i] = place]
             /\ bindTries' = [bindTries EXCEPT ![i] = @ + 1]
             /\ UNCHANGED <<account, google, seen>>
      BY <1>1, <1>5 DEF A!BindCommit, A!Go, A!Refuse, A!records
    <2>2. A!TypeOK'
      BY <1>2, <2>1 DEF AccountsInv, A!TypeOK, A!Places
    <2>3. stage'[i] = place /\ \A j \in Requests : j # i => SignInRests(j)
      BY <1>2, <2>1 DEF AccountsInv, A!TypeOK, SignInRests
    <2>4. SignInTells(i)'
      BY <1>2, <2>1, <2>3 DEF SignInTells, AccountsInv
    <2> QED
      BY <1>2, <2>1, <2>2, <2>3, <2>4, RecordsRest, SignInMoved
  <1> QED
    BY <1>4, <1>5

LEMMA StampLoginStep ==
  ASSUME AccountsInv, NEW i \in Requests, A!StampLogin(i)
  PROVE  AccountsInv' /\ A!AccountStep
  <1>1. PICK a \in Account, old \in A!AccountRecord : a = who[i] /\ old = account[a]
    BY AccountTypes DEF AccountsInv
  <1>2. /\ stage[i] = "touch" /\ stage' = [stage EXCEPT ![i] = "in"]
        /\ UNCHANGED <<google, tenantActive, session, who, proof, seen, indexSeen, bindTries,
                       command, changes>>
    BY DEF A!StampLogin, A!Go, A!operator
  <1>3. CopyOf(seen[i], a)
    BY <1>1, <1>2 DEF AccountsInv, SignInTells
  <1>4. /\ stage'[i] = "in" /\ \A j \in Requests : j # i => SignInRests(j)
    BY <1>2 DEF AccountsInv, A!TypeOK, SignInRests
  <1>5. CASE A!Fresh(a, seen[i])
    <2> DEFINE new == [old EXCEPT !.stamp = old.stamp + 1]
    <2>1. A!Stamped(seen[i]) = new
      BY <1>1, <1>3, <1>5 DEF CopyOf, A!Fresh, A!Stamped, A!AccountRecord
    <2>2. /\ new \in A!AccountRecord /\ new.subject = old.subject /\ new.stamp = old.stamp + 1
          /\ new.generation = old.generation /\ new.secret = old.secret
          /\ new.hash = old.hash /\ new.status = old.status /\ new.allowed = old.allowed
          /\ old.stamp \in Nat /\ old.generation \in Nat
      BY DEF A!AccountRecord
    <2> HIDE DEF new
    <2>3. account' = [account EXCEPT ![a] = new]
      BY <1>1, <1>5, <2>1 DEF A!StampLogin
    <2>4. SignInWrites(new, account[a])
      BY <1>1, <2>2 DEF SignInWrites, Follows
    <2>5. A!TypeOK'
      BY <1>2, <2>2, <2>3 DEF AccountsInv, A!TypeOK, A!Places
    <2>6. /\ AccountsMove /\ account'[a] = new /\ A!AccountStep
          /\ \A b \in Account : b # a => account'[b] = account[b]
      BY <2>3, <2>4, AccountWritten DEF SignInWrites, AccountsInv
    <2>7. IndexMoves /\ A!IndexMatchesAccount'
      BY <1>1, <1>2, <2>2, <2>6, IndexRests DEF AccountsInv
    <2>8. SignInTells(i)'
      <3>1. /\ proof[i].hash < old.stamp /\ proof[i].hash \in Nat
            /\ proof[i].method = "password" /\ proof[i].hash = old.hash
                  => proof[i].secret = old.secret
            /\ session[i].generation <= old.generation
            /\ proof[i].method = "google" => proof[i].subject \in Subjects
            /\ session[i].state = "live" /\ session[i].generation = old.generation
                  => IF proof[i].method = "password" THEN old.secret = proof[i].secret
                     ELSE old.subject = proof[i].subject
        BY <1>1, <1>2, AccountTypes DEF AccountsInv, SignInTells, ProofHolds
      <3> QED
        BY <1>1, <1>2, <1>4, <2>2, <2>6, <3>1 DEF SignInTells, ProofHolds
    <2> QED
      BY <1>2, <1>4, <2>5, <2>6, <2>7, <2>8, SignInMoved
  <1>6. CASE ~A!Fresh(a, seen[i])
    <2>1. UNCHANGED account
      BY <1>1, <1>6 DEF A!StampLogin
    <2>2. A!TypeOK'
      BY <1>2, <2>1 DEF AccountsInv, A!TypeOK, A!Places
    <2>3. SignInTells(i)'
      BY <1>2, <1>4, <2>1 DEF SignInTells, AccountsInv, ProofHolds
    <2> QED
      BY <1>2, <1>4, <2>1, <2>2, <2>3, RecordsRest, SignInMoved
  <1> QED
    BY <1>5, <1>6
-----------------------------------------------------------------------------
\* The operator writes an account over a fresh copy of it.
LEMMA OperatorMoved ==
  ASSUME AccountsInv, A!OperatorStep, A!TypeOK', AccountsMove, IndexMoves,
         A!IndexMatchesAccount', CommandTells',
         UNCHANGED <<stage, session, who, proof, seen, indexSeen>>
  PROVE  AccountsInv' /\ A!AccountStep
  <1>1. \A i \in Requests : SignInRests(i)
    BY DEF SignInRests
  <1>2. \A a \in Account : account'[a].generation >= account[a].generation
    BY AccountTypes DEF AccountsInv, AccountsMove
  <1>3. A!AccountStep
    BY <1>2 DEF A!AccountStep
  <1> QED
    BY <1>1, <1>3, AccountsMoved

LEMMA RecordStamped ==
  ASSUME NEW c \in A!AccountRecord
  PROVE  /\ A!Stamped(c) \in A!AccountRecord /\ A!Stamped(c).stamp = c.stamp + 1
         /\ A!Stamped(c).generation = c.generation /\ A!Stamped(c).secret = c.secret
         /\ A!Stamped(c).hash = c.hash /\ A!Stamped(c).subject = c.subject
         /\ c.stamp \in Nat /\ c.generation \in Nat /\ c.secret \in Nat
  BY DEF A!Stamped, A!AccountRecord

\* What the commands make of an account.
LEMMA CommandWrites ==
  ASSUME NEW old \in A!AccountRecord, NEW new \in A!Changed(old)
  PROVE  /\ new \in A!AccountRecord /\ new.stamp = old.stamp /\ new.subject = old.subject
         /\ new.generation \in {old.generation, old.generation + 1}
         /\ new.generation = old.generation => new.secret = old.secret
         /\ new.hash = old.stamp \/ (new.hash = old.hash /\ new.secret = old.secret)
  <1> DEFINE ended == [old EXCEPT !.generation = @ + 1]
             secret == [ended EXCEPT !.secret = @ + 1]
             hash == [secret EXCEPT !.hash = old.stamp]
  <1>1. old.stamp \in Nat /\ old.generation \in Nat /\ old.secret \in Nat
        /\ "active" \in A!AccountStatus /\ "disabled" \in A!AccountStatus
    BY DEF A!AccountRecord, A!AccountStatus
  <1>2. /\ ended \in A!AccountRecord /\ ended.stamp = old.stamp /\ ended.subject = old.subject
        /\ ended.generation = old.generation + 1 /\ ended.hash = old.hash
        /\ ended.secret = old.secret
    BY <1>1 DEF A!AccountRecord
  <1>3. /\ secret \in A!AccountRecord /\ secret.stamp = old.stamp
        /\ secret.subject = old.subject /\ secret.generation = old.generation + 1
    <2> HIDE DEF ended
    <2>1. ended.secret + 1 \in Nat
      BY <1>1, <1>2
    <2>2. secret \in A!AccountRecord
      BY <1>2, <2>1 DEF A!AccountRecord
    <2> QED
      BY <1>1, <1>2, <2>2 DEF A!AccountRecord
  <1>4. /\ hash \in A!AccountRecord /\ hash.stamp = old.stamp /\ hash.hash = old.stamp
        /\ hash.subject = old.subject /\ hash.generation = old.generation + 1
    BY <1>1, <1>3 DEF A!AccountRecord
  <1> HIDE DEF ended, secret, hash
  <1>5. new \in {ended, [ended EXCEPT !.status = "disabled"], [hash EXCEPT !.weak = FALSE],
                 [old EXCEPT !.status = "active"], [old EXCEPT !.allowed = TRUE]}
    BY DEF A!Changed, ended, secret, hash
  <1>6. CASE new = ended
    BY <1>1, <1>2, <1>6
  <1>7. CASE new = [ended EXCEPT !.status = "disabled"]
    <2>1. new \in A!AccountRecord
      BY <1>1, <1>2, <1>7 DEF A!AccountRecord
    <2> QED
      BY <1>1, <1>2, <1>7, <2>1 DEF A!AccountRecord
  <1>8. CASE new = [hash EXCEPT !.weak = FALSE]
    <2>1. new \in A!AccountRecord
      BY <1>4, <1>8 DEF A!AccountRecord
    <2> QED
      BY <1>1, <1>4, <1>8, <2>1 DEF A!AccountRecord
  <1>9. CASE new = [old EXCEPT !.status = "active"]
    <2>1. new \in A!AccountRecord
      BY <1>1, <1>9 DEF A!AccountRecord
    <2> QED
      BY <1>1, <1>9, <2>1 DEF A!AccountRecord
  <1>10. CASE new = [old EXCEPT !.allowed = TRUE]
    <2>1. new \in A!AccountRecord
      BY <1>10 DEF A!AccountRecord
    <2> QED
      BY <1>1, <1>10, <2>1 DEF A!AccountRecord
  <1> QED
    BY <1>5, <1>6, <1>7, <1>8, <1>9, <1>10

LEMMA ReadForCommandStep ==
  ASSUME AccountsInv, NEW a \in Account, A!ReadForCommand(a)
  PROVE  AccountsInv' /\ A!AccountStep
  <1>1. /\ command' = [of |-> a, copy |-> account[a]] /\ changes' = changes + 1
        /\ UNCHANGED <<account, google, tenantActive, session, stage, who, proof, seen,
                       indexSeen, bindTries>>
    BY DEF A!ReadForCommand, A!records, A!signIn
  <1>2. A!TypeOK'
    BY <1>1, AccountTypes DEF AccountsInv, A!TypeOK
  <1>3. CommandTells'
    BY <1>1, AccountTypes DEF CommandTells, CopyOf, AccountsInv
  <1>4. A!OperatorStep
    BY DEF A!OperatorStep
  <1> QED
    BY <1>1, <1>2, <1>3, <1>4, RecordsRest, OperatorMoved

LEMMA SetTenantStep ==
  ASSUME AccountsInv, A!SetTenant
  PROVE  AccountsInv' /\ A!AccountStep
  <1>1. /\ tenantActive' = ~tenantActive /\ changes' = changes + 1
        /\ UNCHANGED <<account, google, session, stage, who, proof, seen, indexSeen, bindTries,
                       command>>
    BY DEF A!SetTenant, A!records, A!signIn
  <1>2. A!TypeOK'
    BY <1>1 DEF AccountsInv, A!TypeOK
  <1>3. CommandTells'
    BY <1>1 DEF CommandTells, CopyOf, AccountsInv
  <1>4. A!OperatorStep
    BY DEF A!OperatorStep
  <1> QED
    BY <1>1, <1>2, <1>3, <1>4, RecordsRest, OperatorMoved

LEMMA RunCommandStep ==
  ASSUME AccountsInv, A!RunCommand
  PROVE  AccountsInv' /\ A!AccountStep
  <1>1. PICK a \in Account, old \in A!AccountRecord : a = command.of /\ old = account[a]
    BY AccountTypes DEF AccountsInv, A!RunCommand
  <1>2. /\ command' = [command EXCEPT !.of = None]
        /\ UNCHANGED <<google, tenantActive, session, stage, who, proof, seen, indexSeen,
                       bindTries, changes>>
    BY DEF A!RunCommand, A!signIn
  <1>3. /\ command' \in [of : Account \cup {None}, copy : A!AccountRecord] /\ CommandTells'
    BY <1>2 DEF CommandTells, AccountsInv, A!TypeOK
  <1>4. A!OperatorStep
    BY DEF A!OperatorStep
  <1>5. CASE A!Fresh(a, command.copy)
    <2>1. command.copy = old
      BY <1>1, <1>5, NoneAssumption DEF AccountsInv, CommandTells, CopyOf, A!Fresh
    <2>2. PICK written \in A!Changed(old) : account' = [account EXCEPT ![a] = A!Stamped(written)]
      BY <1>1, <1>5, <2>1 DEF A!RunCommand
    <2> DEFINE new == A!Stamped(written)
    <2>3. /\ written \in A!AccountRecord /\ written.stamp = old.stamp
          /\ written.subject = old.subject
          /\ written.generation \in {old.generation, old.generation + 1}
          /\ written.generation = old.generation => written.secret = old.secret
          /\ written.hash = old.stamp \/ (written.hash = old.hash /\ written.secret = old.secret)
      BY CommandWrites
    <2>4. /\ new \in A!AccountRecord /\ new.stamp = old.stamp + 1
          /\ new.generation = written.generation /\ new.secret = written.secret
          /\ new.hash = written.hash /\ new.subject = old.subject
          /\ old.generation \in Nat
      BY <2>3, RecordStamped
    <2> HIDE DEF new
    <2>5. Follows(new, account[a])
      BY <1>1, <2>3, <2>4 DEF Follows
    <2>6. account' = [account EXCEPT ![a] = new]
      BY <2>2 DEF new
    <2>7. /\ AccountsMove /\ account'[a] = new
          /\ \A b \in Account : b # a => account'[b] = account[b]
      BY <2>5, <2>6, AccountWritten DEF AccountsInv
    <2>8. IndexMoves /\ A!IndexMatchesAccount'
      BY <1>1, <1>2, <2>4, <2>7, IndexRests DEF AccountsInv
    <2>9. A!TypeOK'
      BY <1>2, <1>3, <2>4, <2>6 DEF AccountsInv, A!TypeOK
    <2> QED
      BY <1>2, <1>3, <1>4, <2>7, <2>8, <2>9, OperatorMoved
  <1>6. CASE ~A!Fresh(a, command.copy)
    <2>1. UNCHANGED account
      BY <1>1, <1>6 DEF A!RunCommand
    <2>2. A!TypeOK'
      BY <1>2, <1>3, <2>1 DEF AccountsInv, A!TypeOK
    <2> QED
      BY <1>2, <1>3, <1>4, <2>1, <2>2, RecordsRest, OperatorMoved
  <1> QED
    BY <1>5, <1>6

LEMMA UnlinkGoogleStep ==
  ASSUME AccountsInv, A!UnlinkGoogle
  PROVE  AccountsInv' /\ A!AccountStep
  <1>1. PICK a \in Account, old \in A!AccountRecord, g \in Subjects \cup {None} :
           a = command.of /\ old = account[a] /\ g = command.copy.subject
    <2>1. command.copy.subject \in Subjects \cup {None}
      BY DEF AccountsInv, A!TypeOK, A!AccountRecord
    <2> QED
      BY <2>1, AccountTypes DEF AccountsInv, A!UnlinkGoogle
  <1>2. /\ command' = [command EXCEPT !.of = None]
        /\ UNCHANGED <<tenantActive, session, stage, who, proof, seen, indexSeen,
                       bindTries, changes>>
    BY DEF A!UnlinkGoogle, A!signIn
  <1>3. /\ command' \in [of : Account \cup {None}, copy : A!AccountRecord] /\ CommandTells'
    BY <1>2 DEF CommandTells, AccountsInv, A!TypeOK
  <1>4. A!OperatorStep
    BY DEF A!OperatorStep
  <1>5. CASE A!Fresh(a, command.copy)
    <2> DEFINE parted == [old EXCEPT !.subject = None]
               barring == [parted EXCEPT !.allowed = FALSE]
               ended == [barring EXCEPT !.generation = @ + 1]
               new == A!Stamped(ended)
    <2>1. command.copy = old /\ old.subject = g
      BY <1>1, <1>5, NoneAssumption DEF AccountsInv, CommandTells, CopyOf, A!Fresh
    <2>2. /\ parted \in A!AccountRecord /\ parted.subject = None /\ parted.stamp = old.stamp
          /\ parted.generation = old.generation /\ parted.secret = old.secret
          /\ parted.hash = old.hash
      BY DEF A!AccountRecord
    <2>3. /\ barring \in A!AccountRecord /\ barring.subject = None /\ barring.stamp = old.stamp
          /\ barring.generation = old.generation /\ barring.secret = old.secret
          /\ barring.hash = old.hash
      <3>1. barring \in A!AccountRecord
        BY <2>2 DEF A!AccountRecord
      <3> QED
        BY <2>2, <3>1 DEF A!AccountRecord
    <2>4. old.generation \in Nat
      BY DEF A!AccountRecord
    <2>5. account' = [account EXCEPT ![a] = new]
      BY <1>1, <1>5, <2>1 DEF A!UnlinkGoogle
    <2> HIDE DEF parted, barring
    <2>6. /\ ended \in A!AccountRecord /\ ended.subject = None /\ ended.stamp = old.stamp
          /\ ended.generation = old.generation + 1 /\ ended.secret = old.secret
          /\ ended.hash = old.hash
      <3>1. barring.generation + 1 \in Nat
        BY <2>3, <2>4
      <3>2. ended \in A!AccountRecord
        BY <2>3, <3>1 DEF A!AccountRecord
      <3> QED
        BY <2>3, <2>4, <3>2 DEF A!AccountRecord
    <2> HIDE DEF ended
    <2>7. /\ new \in A!AccountRecord /\ new.stamp = old.stamp + 1 /\ new.subject = None
          /\ new.generation = old.generation + 1 /\ new.secret = old.secret
          /\ new.hash = old.hash
      BY <2>6, RecordStamped
    <2> HIDE DEF new
    <2>8. Follows(new, account[a])
      BY <1>1, <2>4, <2>7 DEF Follows
    <2>9. /\ AccountsMove /\ account'[a] = new
          /\ \A b \in Account : b # a => account'[b] = account[b]
      BY <2>5, <2>8, AccountWritten DEF AccountsInv
    <2>10. \A h \in Subjects : google[h].owner = a <=> h = g
      BY <1>1, <2>1 DEF AccountsInv, A!IndexMatchesAccount
    <2>11. CASE g \in Subjects
      <3> DEFINE entry == [owner |-> None, version |-> google[g].version + 1]
      <3>1. google' = [google EXCEPT ![g] = entry]
        <4>1. g # None /\ google[g].owner = a
          BY <2>10, <2>11, NoneAssumption
        <4> QED
          BY <1>1, <1>5, <4>1 DEF A!UnlinkGoogle
      <3>2. /\ entry.owner = None /\ google[g].version \in Nat
            /\ entry.version = google[g].version + 1
            /\ entry \in [owner : Account \cup {None}, version : Nat]
        BY <2>11, AccountTypes DEF AccountsInv
      <3> HIDE DEF entry
      <3>3. google'[g] = entry /\ \A h \in Subjects : h # g => google'[h] = google[h]
        BY <2>11, <3>1 DEF AccountsInv, A!TypeOK
      <3>4. IndexMoves
        BY <3>2, <3>3 DEF IndexMoves
      <3>5. A!IndexMatchesAccount'
        <4> SUFFICES ASSUME NEW h \in Subjects, NEW b \in Account
                     PROVE  google'[h].owner = b <=> account'[b].subject = h
          BY DEF A!IndexMatchesAccount
        <4>1. google[h].owner = b <=> account[b].subject = h
          BY DEF AccountsInv, A!IndexMatchesAccount
        <4>2. h # None /\ b # None
          BY NoneAssumption
        <4>3. CASE b = a
          BY <2>7, <2>9, <2>10, <3>2, <3>3, <4>2, <4>3
        <4>4. CASE b # a
          BY <2>9, <2>10, <3>2, <3>3, <4>1, <4>2, <4>4
        <4> QED
          BY <4>3, <4>4
      <3>6. A!TypeOK'
        BY <1>2, <1>3, <2>5, <2>7, <3>1, <3>2 DEF AccountsInv, A!TypeOK
      <3> QED
        BY <1>2, <1>3, <1>4, <2>9, <3>4, <3>5, <3>6, OperatorMoved
    <2>12. CASE g = None
      <3>1. UNCHANGED google
        BY <1>1, <1>5, <2>12 DEF A!UnlinkGoogle
      <3>2. \A b \in Account : account'[b].subject = account[b].subject
        BY <1>1, <2>1, <2>7, <2>9, <2>12
      <3>3. IndexMoves /\ A!IndexMatchesAccount'
        BY <3>1, <3>2, IndexRests DEF AccountsInv
      <3>4. A!TypeOK'
        BY <1>2, <1>3, <2>5, <2>7, <3>1 DEF AccountsInv, A!TypeOK
      <3> QED
        BY <1>2, <1>3, <1>4, <2>9, <3>3, <3>4, OperatorMoved
    <2> QED
      BY <2>11, <2>12
  <1>6. CASE ~A!Fresh(a, command.copy)
    <2>1. UNCHANGED <<account, google>>
      BY <1>1, <1>6 DEF A!UnlinkGoogle, A!records
    <2>2. A!TypeOK'
      BY <1>2, <1>3, <2>1 DEF AccountsInv, A!TypeOK
    <2> QED
      BY <1>2, <1>3, <1>4, <2>1, <2>2, RecordsRest, OperatorMoved
  <1> QED
    BY <1>5, <1>6
-----------------------------------------------------------------------------
LEMMA AccountsRest ==
  ASSUME AccountsInv, UNCHANGED A!vars
  PROVE  AccountsInv' /\ A!AccountStep
  <1>1. UNCHANGED <<account, google, tenantActive, session, stage, who, proof, seen, indexSeen,
                    bindTries, command, changes>>
    BY DEF A!vars, A!records, A!signIn, A!operator
  <1>2. A!TypeOK' /\ CommandTells'
    BY <1>1 DEF AccountsInv, A!TypeOK, CommandTells, CopyOf
  <1>3. \A i \in Requests : SignInRests(i)
    BY <1>1 DEF SignInRests
  <1> QED
    BY <1>1, <1>2, <1>3, RecordsRest, AccountsMoved

LEMMA AccountsStep ==
  ASSUME AccountsInv, A!Next \/ UNCHANGED A!vars
  PROVE  AccountsInv' /\ A!AccountStep
  <1>1. ASSUME NEW i \in Requests, A!SignInStep(i) \/ A!SignOut(i)
        PROVE  AccountsInv' /\ A!AccountStep
    BY <1>1, CheckPasswordStep, RehashStep, ReadFoundStep, BindGoogleStep, BindCommitStep,
       SessionStep, ConfirmStep, StampLoginStep, FindStep DEF A!SignInStep
  <1>2. CASE A!OperatorStep
    BY <1>2, RunCommandStep, UnlinkGoogleStep, SetTenantStep, ReadForCommandStep
    DEF A!OperatorStep
  <1> QED
    BY <1>1, <1>2, AccountsRest DEF A!Next

LEMMA AccountsPromise ==
  ASSUME AccountsInv
  PROVE  A!TypeOK /\ A!SessionHasItsProof /\ A!IndexMatchesAccount
  <1>1. ASSUME NEW i \in Requests, stage[i] \in {"touch", "in"}, A!Counts(i)
        PROVE  ProofHolds(i)
    BY <1>1 DEF AccountsInv, SignInTells, A!Counts
  <1> QED
    BY <1>1 DEF AccountsInv, A!SessionHasItsProof, ProofHolds
-----------------------------------------------------------------------------
(* Sign-in by SMS: the limits count at most one code a moment, so an SMS is  *)
(* never sent twice for one; a try is counted in the record before its code  *)
(* is compared, so that comparisons made and under way are never more than   *)
(* the tries recorded; and a code is consumed by a save that only one of     *)
(* those that read it can make.                                              *)
\* A challenge has no more codes than moments they were sent at.
ChallengeTells(m) ==
    /\ challenge[m].code > 0 => \E t \in challenge[m].sent : challenge[m].code <= t + 1
    /\ challenge[m].tries <= TRIES_PER_CODE

\* What a request holds of the challenge it has read.
CopyTells(r) ==
    LET current == challenge[number[r]] IN
    /\ stage[r] \in {"saveCode", "count", "compare", "keep"} => copy[r].version <= current.version
    /\ stage[r] = "saveCode" => copy[r].code <= now[r]
    /\ stage[r] = "saveCode" /\ copy[r].version = current.version =>
          /\ copy[r].code = current.code
          /\ \A t \in current.sent :
                now[r] - t >= RESEND_AFTER /\ (t \in copy[r].sent \/ now[r] - t >= DAY)
          /\ Cardinality(copy[r].sent) < CODES_PER_DAY
    /\ stage[r] \in {"count", "compare", "keep"} =>
          ~copy[r].used /\ (copy[r].version = current.version => copy[r] = current)
    /\ stage[r] = "count" => copy[r].tries < TRIES_PER_CODE
    /\ stage[r] \in {"count", "compare", "keep", "signUp", "open"} =>
          copy[r].code <= current.code
    /\ stage[r] \in {"signUp", "open"} =>
          /\ copy[r].code = current.code => current.used
          /\ opened[number[r]][copy[r].code] = 0

\* No two requests open a session with one code.
LetInOnce ==
    /\ \A r, s \in Requests :
          r # s /\ {stage[r], stage[s]} \subseteq {"signUp", "open"} /\ number[r] = number[s]
          => copy[r].code # copy[s].code
    /\ \A m \in Mobiles, c \in M!Code :
          /\ opened[m][c] <= 1
          /\ opened[m][c] > 0 =>
                c < challenge[m].code \/ (c = challenge[m].code /\ challenge[m].used)

\* The comparisons made and about to be made are tries counted.
Comparing(m, c) == {r \in Requests : stage[r] = "compare" /\ number[r] = m /\ copy[r].code = c}
TriesOf(m, c) ==
    IF c < challenge[m].code THEN TRIES_PER_CODE
    ELSE IF c = challenge[m].code THEN challenge[m].tries ELSE 0
ComparesCounted ==
    \A m \in Mobiles, c \in M!Code : compared[m][c] + Cardinality(Comparing(m, c)) <= TriesOf(m, c)

\* The SMS sent, and those about to be.
SendingAt(m, t) == {r \in Requests : stage[r] = "sms" /\ number[r] = m /\ now[r] = t}
Sms(m) == {t \in M!Moment : paid[m][t] > 0 \/ SendingAt(m, t) # {}}
WithinDay(times, d) == {t \in times : d <= t /\ t < d + DAY}
SmsTell ==
    \A m \in Mobiles :
        /\ \A t \in M!Moment :
              /\ paid[m][t] <= 1
              /\ SendingAt(m, t) # {} => paid[m][t] = 0
              /\ \A r, s \in SendingAt(m, t) : r = s
        /\ \A t, u \in Sms(m) : t < u => u - t >= RESEND_AFTER
        /\ \A d \in M!Moment : Cardinality(WithinDay(Sms(m), d)) <= CODES_PER_DAY
        /\ \A t \in Sms(m) :
              t \in challenge[m].sent \/ \E u \in challenge[m].sent : u - t >= DAY

MobileInv ==
    /\ M!TypeOK
    /\ \A m \in Mobiles : ChallengeTells(m)
    /\ \A r \in Requests : CopyTells(r)
    /\ LetInOnce /\ ComparesCounted /\ SmsTell

\* What a step may do to the challenges, and to a request that does not take it.
ChallengesMove ==
    \A m \in Mobiles :
        LET old == challenge[m]  new == challenge'[m] IN
        \/ new = old
        \/ /\ new.version = old.version + 1 /\ new.code >= old.code
           /\ new.code = old.code => (old.used => new.used) /\ new.tries >= old.tries
RequestRests(s) ==
    /\ stage'[s] = stage[s] /\ number'[s] = number[s]
    /\ now'[s] = now[s] /\ copy'[s] = copy[s]
-----------------------------------------------------------------------------
LEMMA MobileTypes ==
  ASSUME M!TypeOK
  PROVE  /\ \A m \in Mobiles :
              /\ challenge[m] \in M!Challenge /\ challenge[m].code \in M!Code
              /\ challenge[m].tries \in Nat /\ challenge[m].version \in Nat
              /\ challenge[m].sent \subseteq M!Moment /\ challenge[m].used \in BOOLEAN
         /\ \A r \in Requests :
              /\ number[r] \in Mobiles /\ now[r] \in M!Moment /\ stage[r] \in M!Places
              /\ copy[r] \in M!Challenge /\ copy[r].code \in M!Code
              /\ copy[r].tries \in Nat /\ copy[r].version \in Nat
              /\ copy[r].sent \subseteq M!Moment /\ copy[r].used \in BOOLEAN
         /\ \A m \in Mobiles, c \in M!Code : compared[m][c] \in Nat /\ opened[m][c] \in Nat
         /\ \A m \in Mobiles, t \in M!Moment : paid[m][t] \in Nat
         /\ M!Code \subseteq Nat /\ M!Moment \subseteq Nat
         /\ {TRIES_PER_CODE, CODES_PER_DAY} \subseteq Nat
         /\ {RESEND_AFTER, DAY} \subseteq Nat \ {0} /\ RESEND_AFTER <= DAY
  <1>1. /\ M!Code \subseteq Nat /\ M!Moment \subseteq Nat
        /\ {TRIES_PER_CODE, CODES_PER_DAY} \subseteq Nat
        /\ {RESEND_AFTER, DAY} \subseteq Nat \ {0} /\ RESEND_AFTER <= DAY
    BY CodesAssumption DEF M!Code, M!Moment
  <1>2. \A c \in M!Challenge :
           /\ c.code \in M!Code /\ c.tries \in Nat /\ c.version \in Nat
           /\ c.sent \subseteq M!Moment /\ c.used \in BOOLEAN
    BY DEF M!Challenge
  <1>3. \A m \in Mobiles : challenge[m] \in M!Challenge
    BY DEF M!TypeOK
  <1>4. \A r \in Requests :
           /\ number[r] \in Mobiles /\ now[r] \in M!Moment /\ stage[r] \in M!Places
           /\ copy[r] \in M!Challenge
    BY DEF M!TypeOK
  <1>5. /\ \A m \in Mobiles, c \in M!Code : compared[m][c] \in Nat /\ opened[m][c] \in Nat
        /\ \A m \in Mobiles, t \in M!Moment : paid[m][t] \in Nat
    BY DEF M!TypeOK
  <1> QED
    BY <1>1, <1>2, <1>3, <1>4, <1>5

LEMMA SameCardinality == \A times : M!Cardinality(times) = Cardinality(times)
  BY DEF M!Cardinality, Cardinality

LEMMA CodesFinite ==
  /\ IsFiniteSet(M!Moment)
  /\ \A times \in SUBSET M!Moment : IsFiniteSet(times) /\ Cardinality(times) \in Nat
  /\ \A m, c : IsFiniteSet(Comparing(m, c)) /\ Cardinality(Comparing(m, c)) \in Nat
  <1>1. IsFiniteSet(M!Moment)
    BY CodesAssumption, FS_Interval DEF M!Moment
  <1>2. \A times \in SUBSET M!Moment : IsFiniteSet(times) /\ Cardinality(times) \in Nat
    BY <1>1, FS_Subset, FS_CardinalityType
  <1>3. ASSUME NEW m, NEW c
        PROVE  IsFiniteSet(Comparing(m, c)) /\ Cardinality(Comparing(m, c)) \in Nat
    <2>1. Comparing(m, c) \subseteq Requests
      BY DEF Comparing
    <2> QED
      BY <2>1, CodesAssumption, FS_Subset, FS_CardinalityType
  <1> QED
    BY <1>1, <1>2, <1>3

LEMMA CopyKept ==
  ASSUME M!TypeOK, M!TypeOK', ChallengesMove, NEW s \in Requests, CopyTells(s), RequestRests(s),
         stage[s] \in {"signUp", "open"} =>
            opened'[number[s]][copy[s].code] = opened[number[s]][copy[s].code]
  PROVE  CopyTells(s)'
  <1>1. PICK m \in Mobiles, c \in M!Challenge : m = number[s] /\ c = copy[s]
    BY MobileTypes
  <1>2. /\ challenge[m].version \in Nat /\ challenge[m].code \in Nat /\ c.version \in Nat
        /\ challenge'[m].version \in Nat /\ challenge'[m].code \in Nat /\ c.code \in Nat
    BY <1>1, MobileTypes DEF M!TypeOK, M!Challenge, M!Code
  <1>3. CASE challenge'[m] = challenge[m]
    BY <1>1, <1>3 DEF CopyTells, RequestRests
  <1>4. CASE challenge'[m].version = challenge[m].version + 1
    <2>1. /\ challenge'[m].code >= challenge[m].code
          /\ challenge'[m].code = challenge[m].code => (challenge[m].used => challenge'[m].used)
      BY <1>4, <1>2 DEF ChallengesMove
    <2>2. /\ stage[s] \in {"saveCode", "count", "compare", "keep"} =>
                c.version < challenge'[m].version
          /\ stage[s] \in {"count", "compare", "keep", "signUp", "open"} =>
                c.code <= challenge'[m].code
          /\ stage[s] \in {"signUp", "open"} /\ c.code = challenge'[m].code =>
                challenge'[m].used
      BY <1>1, <1>2, <1>4, <2>1 DEF CopyTells
    <2> QED
      BY <1>1, <1>2, <2>2 DEF CopyTells, RequestRests
  <1> QED
    BY <1>3, <1>4 DEF ChallengesMove

LEMMA MobileMoved ==
  ASSUME MobileInv, M!TypeOK', ChallengesMove, NEW r \in Requests, CopyTells(r)',
         \A m \in Mobiles : ChallengeTells(m)',
         \A s \in Requests : s # r =>
            /\ RequestRests(s)
            /\ stage[s] \in {"signUp", "open"} =>
                  opened'[number[s]][copy[s].code] = opened[number[s]][copy[s].code],
         LetInOnce', ComparesCounted', SmsTell'
  PROVE  MobileInv'
  BY CopyKept DEF MobileInv

\* What a step that does not disturb them leaves of the counts.
LEMMA LetInKept ==
  ASSUME MobileInv, M!TypeOK', ChallengesMove, UNCHANGED opened, NEW r \in Requests,
         \A s \in Requests : s # r => RequestRests(s),
         stage'[r] \in {"signUp", "open"} =>
            /\ stage[r] \in {"signUp", "open"}
            /\ number'[r] = number[r] /\ copy'[r] = copy[r]
  PROVE  LetInOnce'
  <1>1. \A s \in Requests : stage'[s] \in {"signUp", "open"} =>
           stage[s] \in {"signUp", "open"} /\ number'[s] = number[s] /\ copy'[s] = copy[s]
    BY DEF RequestRests
  <1>2. ASSUME NEW s \in Requests, NEW q \in Requests, s # q,
               {stage'[s], stage'[q]} \subseteq {"signUp", "open"}, number'[s] = number'[q]
        PROVE  copy'[s].code # copy'[q].code
    <2>1. /\ {stage[s], stage[q]} \subseteq {"signUp", "open"} /\ number[s] = number[q]
          /\ copy'[s] = copy[s] /\ copy'[q] = copy[q]
      BY <1>1, <1>2
    <2> QED
      BY <1>2, <2>1 DEF MobileInv, LetInOnce
  <1>3. ASSUME NEW m \in Mobiles, NEW c \in M!Code
        PROVE  /\ opened'[m][c] <= 1
               /\ opened'[m][c] > 0 =>
                     c < challenge'[m].code \/ (c = challenge'[m].code /\ challenge'[m].used)
    <2>1. /\ opened[m][c] <= 1
          /\ opened[m][c] > 0 =>
                c < challenge[m].code \/ (c = challenge[m].code /\ challenge[m].used)
      BY DEF MobileInv, LetInOnce
    <2>2. c \in Nat /\ challenge[m].code \in Nat /\ challenge'[m].code \in Nat
      BY MobileTypes DEF MobileInv, M!TypeOK, M!Challenge, M!Code
    <2> QED
      BY <2>1, <2>2 DEF ChallengesMove
  <1> QED
    BY <1>2, <1>3 DEF LetInOnce

LEMMA CountedGrows ==
  ASSUME MobileInv, M!TypeOK', ChallengesMove, NEW m \in Mobiles, NEW c \in M!Code
  PROVE  /\ TriesOf(m, c) \in Nat /\ TriesOf(m, c)' \in Nat
         /\ TriesOf(m, c) <= TriesOf(m, c)'
  <1>1. /\ c \in Nat /\ challenge[m].code \in Nat /\ challenge'[m].code \in Nat
        /\ challenge[m].tries \in Nat /\ challenge'[m].tries \in Nat /\ TRIES_PER_CODE \in Nat
        /\ challenge[m].tries <= TRIES_PER_CODE
    BY MobileTypes DEF MobileInv, M!TypeOK, M!Challenge, M!Code, ChallengeTells
  <1> QED
    BY <1>1 DEF ChallengesMove, TriesOf

LEMMA ComparesKept ==
  ASSUME MobileInv, M!TypeOK', ChallengesMove, UNCHANGED compared, NEW r \in Requests,
         \A s \in Requests : s # r => RequestRests(s),
         stage[r] # "compare", stage'[r] # "compare"
  PROVE  ComparesCounted'
  <1> SUFFICES ASSUME NEW m \in Mobiles, NEW c \in M!Code
               PROVE  (compared[m][c] + Cardinality(Comparing(m, c)) <= TriesOf(m, c))'
    BY DEF ComparesCounted, M!Code
  <1>1. Comparing(m, c)' = Comparing(m, c)
    BY DEF Comparing, RequestRests
  <1>2. compared[m][c] + Cardinality(Comparing(m, c)) <= TriesOf(m, c)
    BY DEF MobileInv, ComparesCounted
  <1>3. compared[m][c] \in Nat /\ Cardinality(Comparing(m, c)) \in Nat
    BY MobileTypes, CodesFinite DEF MobileInv
  <1>4. /\ TriesOf(m, c) \in Nat /\ TriesOf(m, c)' \in Nat /\ TriesOf(m, c) <= TriesOf(m, c)'
    BY CountedGrows
  <1> QED
    BY <1>1, <1>2, <1>3, <1>4

LEMMA SmsKept ==
  ASSUME MobileInv, UNCHANGED paid, NEW r \in Requests,
         \A m \in Mobiles : challenge'[m].sent = challenge[m].sent,
         \A s \in Requests : s # r => RequestRests(s),
         stage[r] # "sms", stage'[r] # "sms"
  PROVE  SmsTell'
  <1>1. \A m, t : SendingAt(m, t)' = SendingAt(m, t)
    BY DEF SendingAt, RequestRests
  <1>2. \A m : Sms(m)' = Sms(m)
    BY <1>1 DEF Sms, M!Moment
  <1>3. \A m, d : WithinDay(Sms(m), d)' = WithinDay(Sms(m), d)
    BY <1>2 DEF WithinDay
  <1> QED
    BY <1>1, <1>2, <1>3 DEF MobileInv, SmsTell

\* A step of one request that saves nothing and counts nothing.
LEMMA QuietStep ==
  ASSUME MobileInv, M!TypeOK', NEW r \in Requests, CopyTells(r)',
         UNCHANGED <<challenge, paid, compared, opened>>,
         \A s \in Requests : s # r => RequestRests(s),
         {stage[r], stage'[r]} \cap {"compare", "sms"} = {},
         stage'[r] \in {"signUp", "open"} =>
            /\ stage[r] \in {"signUp", "open"}
            /\ number'[r] = number[r] /\ copy'[r] = copy[r]
  PROVE  MobileInv'
  <1>1. ChallengesMove
    BY DEF ChallengesMove
  <1>2. \A m \in Mobiles : ChallengeTells(m)'
    BY DEF MobileInv, ChallengeTells
  <1>3. LetInOnce'
    BY <1>1, LetInKept
  <1>4. ComparesCounted'
    BY <1>1, ComparesKept
  <1>5. SmsTell'
    BY SmsKept
  <1> QED
    BY <1>1, <1>2, <1>3, <1>4, <1>5, MobileMoved
-----------------------------------------------------------------------------
\* A request that has answered.
LEMMA Answered ==
  ASSUME M!TypeOK, NEW r \in Requests, M!Goto(r, "idle"), UNCHANGED number
  PROVE  /\ copy' \in [Requests -> M!Challenge] /\ stage' \in [Requests -> M!Places]
         /\ number' \in [Requests -> Mobiles] /\ now' \in [Requests -> M!Moment]
         /\ signingUp' \in [Requests -> BOOLEAN] /\ details' \in [Requests -> BOOLEAN]
         /\ stage'[r] = "idle" /\ CopyTells(r)'
         /\ \A s \in Requests : s # r => RequestRests(s)
  <1>1. /\ stage' = [stage EXCEPT ![r] = "idle"] /\ now' = [now EXCEPT ![r] = 0]
        /\ copy' = [copy EXCEPT ![r] = M!NoChallenge]
        /\ signingUp' = [signingUp EXCEPT ![r] = FALSE]
        /\ details' = [details EXCEPT ![r] = FALSE]
    BY DEF M!Goto
  <1>2. 0 \in M!Moment /\ 0 \in M!Code /\ "idle" \in M!Places
    BY CodesAssumption DEF M!Moment, M!Code, M!Places
  <1>3. M!NoChallenge \in M!Challenge
    BY <1>2 DEF M!NoChallenge, M!Challenge
  <1>4. signingUp' \in [Requests -> BOOLEAN] /\ details' \in [Requests -> BOOLEAN]
    BY <1>1 DEF M!TypeOK
  <1>5. /\ copy' \in [Requests -> M!Challenge] /\ stage' \in [Requests -> M!Places]
        /\ number' \in [Requests -> Mobiles] /\ now' \in [Requests -> M!Moment]
    BY <1>1, <1>2, <1>3 DEF M!TypeOK
  <1>6. stage'[r] = "idle" /\ \A s \in Requests : s # r => RequestRests(s)
    BY <1>1 DEF M!TypeOK, RequestRests
  <1>7. CopyTells(r)'
    BY <1>6 DEF CopyTells
  <1> QED
    BY <1>4, <1>5, <1>6, <1>7

LEMMA RefusedStep ==
  ASSUME MobileInv, NEW r \in Requests, M!Goto(r, "idle"), stage[r] \notin {"compare", "sms"},
         UNCHANGED <<moment, challenge, accounts, number, paid, compared, opened>>
  PROVE  MobileInv'
  <1>1. M!TypeOK'
    BY Answered DEF MobileInv, M!TypeOK
  <1> QED
    BY <1>1, Answered, QuietStep DEF MobileInv

LEMMA AskForCodeStep ==
  ASSUME MobileInv, NEW r \in Requests, NEW m \in Mobiles, M!AskForCode(r, m)
  PROVE  MobileInv'
  <1>1. /\ stage[r] = "idle" /\ stage' = [stage EXCEPT ![r] = "limit"]
        /\ number' = [number EXCEPT ![r] = m] /\ now' = [now EXCEPT ![r] = moment]
        /\ UNCHANGED <<moment, challenge, accounts, copy, signingUp, details, paid, compared,
                       opened>>
    BY DEF M!AskForCode, M!history
  <1>2. M!TypeOK'
    BY <1>1 DEF MobileInv, M!TypeOK, M!Places, M!Moment
  <1>3. stage'[r] = "limit" /\ \A s \in Requests : s # r => RequestRests(s)
    BY <1>1 DEF MobileInv, M!TypeOK, RequestRests
  <1>4. CopyTells(r)'
    BY <1>3 DEF CopyTells
  <1> QED
    BY <1>1, <1>2, <1>3, <1>4, QuietStep

LEMMA VerifyStep ==
  ASSUME MobileInv, NEW r \in Requests, NEW m \in Mobiles, NEW d \in BOOLEAN, M!Verify(r, m, d)
  PROVE  MobileInv'
  <1>1. /\ stage[r] = "idle" /\ stage' = [stage EXCEPT ![r] = "read"]
        /\ number' = [number EXCEPT ![r] = m]
        /\ UNCHANGED <<moment, challenge, accounts, now, copy, paid, compared, opened>>
    BY DEF M!Verify, M!history
  <1>2. signingUp' \in [Requests -> BOOLEAN] /\ details' \in [Requests -> BOOLEAN]
    <2>1. PICK new \in BOOLEAN : signingUp' = [signingUp EXCEPT ![r] = new]
      BY DEF M!Verify
    <2> QED
      BY <2>1 DEF MobileInv, M!TypeOK, M!Verify
  <1>3. M!TypeOK'
    BY <1>1, <1>2 DEF MobileInv, M!TypeOK, M!Places
  <1>4. stage'[r] = "read" /\ \A s \in Requests : s # r => RequestRests(s)
    BY <1>1 DEF MobileInv, M!TypeOK, RequestRests
  <1>5. CopyTells(r)'
    BY <1>4 DEF CopyTells
  <1> QED
    BY <1>1, <1>3, <1>4, <1>5, QuietStep

LEMMA LimitCodesStep ==
  ASSUME MobileInv, NEW r \in Requests, M!LimitCodes(r)
  PROVE  MobileInv'
  <1>1. PICK m \in Mobiles, asked \in M!Moment, old \in M!Challenge :
           m = number[r] /\ asked = now[r] /\ old = challenge[m]
    BY MobileTypes DEF MobileInv
  <1> DEFINE kept == {t \in challenge[number[r]].sent : now[r] - t < DAY}
             read == [challenge[number[r]] EXCEPT !.sent = kept]
  <1>2. /\ stage[r] = "limit"
        /\ UNCHANGED <<moment, challenge, accounts, number, paid, compared, opened>>
    BY DEF M!LimitCodes, M!history
  <1>3. CASE M!Goto(r, "idle")
    BY <1>2, <1>3, RefusedStep
  <1>4. CASE /\ ~ \E t \in kept : now[r] - t < RESEND_AFTER
             /\ ~ (Cardinality(kept) >= CODES_PER_DAY)
             /\ copy' = [copy EXCEPT ![r] = read] /\ stage' = [stage EXCEPT ![r] = "saveCode"]
             /\ UNCHANGED <<now, signingUp, details>>
    <2>1. /\ kept \subseteq old.sent /\ \A u \in old.sent : u \in kept <=> asked - u < DAY
          /\ \A u \in kept : ~ (asked - u < RESEND_AFTER)
          /\ read = [old EXCEPT !.sent = kept]
      BY <1>1, <1>4
    <2> HIDE DEF kept, read
    <2>2. /\ old.sent \subseteq M!Moment /\ M!Moment \subseteq Nat /\ old.version \in Nat
          /\ old.code \in Nat
      BY <1>1, MobileTypes DEF MobileInv
    <2>3. kept \subseteq M!Moment /\ Cardinality(kept) \in Nat /\ Cardinality(kept) < CODES_PER_DAY
      <3>1. kept \subseteq M!Moment
        BY <2>1, <2>2
      <3>2. Cardinality(kept) \in Nat
        BY <3>1, CodesFinite
      <3> QED
        BY <1>4, <3>1, <3>2, CodesAssumption
    <2>4. /\ read \in M!Challenge /\ read.sent = kept /\ read.version = old.version
          /\ read.code = old.code
      BY <2>1, <2>3 DEF M!Challenge
    <2>5. ASSUME NEW u \in old.sent
          PROVE  u \in Nat /\ asked - u >= RESEND_AFTER /\ (u \in kept \/ asked - u >= DAY)
      <3>1. asked \in Nat /\ u \in Nat /\ RESEND_AFTER \in Nat /\ DAY \in Nat /\ RESEND_AFTER <= DAY
        BY <2>2, CodesAssumption
      <3>2. u \in kept => asked - u >= RESEND_AFTER
        BY <2>1, <3>1
      <3>3. u \notin kept => asked - u >= DAY
        BY <2>1, <3>1
      <3> QED
        BY <3>1, <3>2, <3>3
    <2>6. old.code <= asked
      <3>1. old.code > 0 => \E u \in old.sent : old.code <= u + 1
        BY <1>1 DEF MobileInv, ChallengeTells
      <3>2. asked \in Nat /\ RESEND_AFTER \in Nat /\ RESEND_AFTER >= 1
        BY <2>2, CodesAssumption
      <3> QED
        BY <2>2, <2>5, <3>1, <3>2
    <2>7. M!TypeOK'
      BY <1>2, <1>4, <2>4 DEF MobileInv, M!TypeOK, M!Places
    <2>8. /\ stage'[r] = "saveCode" /\ copy'[r] = read
          /\ \A s \in Requests : s # r => RequestRests(s)
      BY <1>2, <1>4 DEF MobileInv, M!TypeOK, RequestRests
    <2>9. CopyTells(r)'
      BY <1>1, <1>2, <1>4, <2>2, <2>3, <2>4, <2>5, <2>6, <2>8 DEF CopyTells
    <2> QED
      BY <1>2, <2>7, <2>8, <2>9, QuietStep
  <1> QED
    BY <1>3, <1>4, SameCardinality DEF M!LimitCodes

LEMMA ReadChallengeStep ==
  ASSUME MobileInv, NEW r \in Requests, M!ReadChallenge(r)
  PROVE  MobileInv'
  <1>1. PICK m \in Mobiles, old \in M!Challenge : m = number[r] /\ old = challenge[m]
    BY MobileTypes DEF MobileInv
  <1>2. /\ stage[r] = "read"
        /\ UNCHANGED <<moment, challenge, accounts, number, paid, compared, opened>>
    BY DEF M!ReadChallenge, M!history
  <1>3. CASE M!Goto(r, "idle")
    BY <1>2, <1>3, RefusedStep
  <1>4. CASE /\ M!Usable(old) /\ stage' = [stage EXCEPT ![r] = "count"]
             /\ copy' = [copy EXCEPT ![r] = old] /\ now' = [now EXCEPT ![r] = moment]
             /\ UNCHANGED <<signingUp, details>>
    <2>1. M!TypeOK'
      BY <1>2, <1>4 DEF MobileInv, M!TypeOK, M!Places, M!Moment
    <2>2. /\ stage'[r] = "count" /\ copy'[r] = old
          /\ \A s \in Requests : s # r => RequestRests(s)
      BY <1>2, <1>4 DEF MobileInv, M!TypeOK, RequestRests
    <2>3. old.version \in Nat /\ old.code \in Nat /\ ~old.used /\ old.tries < TRIES_PER_CODE
      BY <1>1, <1>4, MobileTypes DEF MobileInv, M!Usable
    <2>4. CopyTells(r)'
      BY <1>1, <1>2, <2>2, <2>3 DEF CopyTells
    <2> QED
      BY <1>2, <2>1, <2>2, <2>4, QuietStep
  <1> QED
    BY <1>1, <1>3, <1>4 DEF M!ReadChallenge

LEMMA SignUpStep ==
  ASSUME MobileInv, NEW r \in Requests, M!SignUp(r)
  PROVE  MobileInv'
  <1>1. /\ stage[r] = "signUp" /\ stage' = [stage EXCEPT ![r] = "open"]
        /\ accounts' = accounts \cup {number[r]}
        /\ UNCHANGED <<moment, challenge, number, now, copy, signingUp, details, paid, compared,
                       opened>>
    BY DEF M!SignUp, M!Goto, M!history
  <1>2. M!TypeOK'
    BY <1>1 DEF MobileInv, M!TypeOK, M!Places
  <1>3. stage'[r] = "open" /\ \A s \in Requests : s # r => RequestRests(s)
    BY <1>1 DEF MobileInv, M!TypeOK, RequestRests
  <1>4. CopyTells(r)'
    BY <1>1, <1>3 DEF MobileInv, CopyTells
  <1> QED
    BY <1>1, <1>2, <1>3, <1>4, QuietStep
-----------------------------------------------------------------------------
\* A request that saves another challenge than it has read goes no further.
LEMMA CodeConflictStep ==
  ASSUME MobileInv, NEW r \in Requests, stage[r] \in {"saveCode", "count", "keep"}, M!Conflict(r),
         UNCHANGED <<moment, accounts, number, paid, compared, opened>>
  PROVE  MobileInv'
  BY RefusedStep DEF M!Conflict

LEMMA Saved ==
  ASSUME M!TypeOK, NEW m \in Mobiles, NEW new \in M!Challenge,
         challenge' = [challenge EXCEPT ![m] = new],
         /\ new.version = challenge[m].version + 1 /\ new.code >= challenge[m].code
         /\ new.code = challenge[m].code =>
               (challenge[m].used => new.used) /\ new.tries >= challenge[m].tries
  PROVE  /\ challenge' \in [Mobiles -> M!Challenge] /\ challenge'[m] = new /\ ChallengesMove
         /\ \A n \in Mobiles : n # m => challenge'[n] = challenge[n]
  <1>1. /\ challenge' \in [Mobiles -> M!Challenge] /\ challenge'[m] = new
        /\ \A n \in Mobiles : n # m => challenge'[n] = challenge[n]
    BY DEF M!TypeOK
  <1>2. ChallengesMove
    BY <1>1 DEF ChallengesMove
  <1> QED
    BY <1>1, <1>2

LEMMA SaveCodeStep ==
  ASSUME MobileInv, NEW r \in Requests, M!SaveCode(r), ~M!Conflict(r)
  PROVE  MobileInv'
  <1>1. PICK m \in Mobiles, asked \in M!Moment, c \in M!Challenge, old \in M!Challenge :
           m = number[r] /\ asked = now[r] /\ c = copy[r] /\ old = challenge[m]
    BY MobileTypes DEF MobileInv
  <1> DEFINE sold == c.sent \cup {asked}
             fresh == [code |-> c.code + 1, expires |-> asked + CODE_LIFETIME, tries |-> 0,
                       used |-> FALSE, sent |-> sold, version |-> c.version]
             new == [fresh EXCEPT !.version = @ + 1]
  <1>2. /\ stage[r] = "saveCode" /\ old.version = c.version
        /\ challenge' = [challenge EXCEPT ![m] = new] /\ M!Goto(r, "sms")
        /\ UNCHANGED <<moment, accounts, number, paid, compared, opened>>
    BY <1>1 DEF M!SaveCode, M!Save, M!history
  <1>3. /\ stage' = [stage EXCEPT ![r] = "sms"] /\ UNCHANGED <<now, copy, signingUp, details>>
    BY <1>2 DEF M!Goto
  <1>4. /\ c.code = old.code /\ c.code <= asked /\ Cardinality(c.sent) < CODES_PER_DAY
        /\ \A t \in old.sent : asked - t >= RESEND_AFTER /\ (t \in c.sent \/ asked - t >= DAY)
    BY <1>1, <1>2 DEF MobileInv, CopyTells
  <1>5. /\ c.sent \subseteq M!Moment /\ old.sent \subseteq M!Moment /\ M!Moment \subseteq Nat
        /\ c.code \in Nat /\ c.version \in Nat /\ asked \in Nat /\ old.version \in Nat
        /\ old.code \in Nat
    BY <1>1, MobileTypes DEF MobileInv
  <1>6. c.code + 1 \in M!Code /\ asked + CODE_LIFETIME \in Nat /\ sold \subseteq M!Moment
    BY <1>4, <1>5, CodesAssumption DEF M!Code, M!Moment
  <1> HIDE DEF sold
  <1>7. /\ fresh.version = c.version /\ fresh.code = c.code + 1 /\ fresh.sent = sold
        /\ fresh.tries = 0 /\ fresh \in M!Challenge
    BY <1>5, <1>6 DEF M!Challenge
  <1> HIDE DEF fresh
  <1>8. /\ new \in M!Challenge /\ new.version = old.version + 1 /\ new.code = old.code + 1
        /\ new.sent = sold /\ new.tries = 0
    BY <1>2, <1>4, <1>5, <1>7 DEF M!Challenge
  <1> HIDE DEF new
  <1>9. /\ challenge' \in [Mobiles -> M!Challenge] /\ challenge'[m] = new /\ ChallengesMove
        /\ \A n \in Mobiles : n # m => challenge'[n] = challenge[n]
    <2>1. /\ new.version = challenge[m].version + 1 /\ new.code >= challenge[m].code
          /\ new.code # challenge[m].code
      BY <1>1, <1>5, <1>8
    <2> QED
      BY <1>2, <1>8, <2>1, Saved DEF MobileInv
  <1>10. M!TypeOK'
    BY <1>2, <1>3, <1>9 DEF MobileInv, M!TypeOK, M!Places
  <1>11. stage'[r] = "sms" /\ \A s \in Requests : s # r => RequestRests(s)
    BY <1>2, <1>3 DEF MobileInv, M!TypeOK, RequestRests
  <1>12. CopyTells(r)'
    BY <1>11 DEF CopyTells
  <1>13. ASSUME NEW n \in Mobiles PROVE ChallengeTells(n)'
    <2>1. CASE n = m
      <3>1. asked \in sold /\ new.code <= asked + 1 /\ 0 <= TRIES_PER_CODE
        BY <1>4, <1>5, <1>8, CodesAssumption DEF sold
      <3> QED
        BY <1>8, <1>9, <2>1, <3>1 DEF ChallengeTells
    <2>2. CASE n # m
      BY <1>9, <2>2 DEF MobileInv, ChallengeTells
    <2> QED
      BY <2>1, <2>2
  <1>14. LetInOnce'
    BY <1>2, <1>9, <1>10, <1>11, LetInKept
  <1>15. ComparesCounted'
    BY <1>2, <1>9, <1>10, <1>11, ComparesKept
  <1>16. SmsTell'
    <2>1. ASSUME NEW t \in Sms(m)
          PROVE  t \in Nat /\ asked - t >= RESEND_AFTER /\ (t \in c.sent \/ asked - t >= DAY)
      <3>1. t \in Nat /\ (t \in old.sent \/ \E u \in old.sent : u - t >= DAY)
        BY <1>1, <1>5 DEF MobileInv, SmsTell, Sms
      <3>2. CASE t \in old.sent
        BY <1>4, <3>1, <3>2
      <3>3. ASSUME NEW u \in old.sent, u - t >= DAY
            PROVE  asked - t >= RESEND_AFTER /\ asked - t >= DAY
        <4>1. u \in Nat /\ asked - u >= RESEND_AFTER
          BY <1>4, <1>5
        <4> QED
          BY <1>5, <3>1, <3>3, <4>1, CodesAssumption
      <3> QED
        BY <3>1, <3>2, <3>3
    <2>2. asked \notin Sms(m)
      BY <1>5, <2>1, CodesAssumption
    <2>3. /\ SendingAt(m, asked) = {} /\ paid[m][asked] = 0
      BY <2>2, MobileTypes DEF Sms, MobileInv
    <2>4. /\ SendingAt(m, asked)' = {r}
          /\ \A n, t : n # m \/ t # asked => SendingAt(n, t)' = SendingAt(n, t)
      <3>1. SendingAt(m, asked)' = SendingAt(m, asked) \cup {r}
        BY <1>1, <1>2, <1>3, <1>11 DEF SendingAt, RequestRests
      <3>2. ASSUME NEW n, NEW t, n # m \/ t # asked
            PROVE  SendingAt(n, t)' = SendingAt(n, t)
        BY <1>1, <1>2, <1>3, <1>11, <3>2 DEF SendingAt, RequestRests
      <3> QED
        BY <2>3, <3>1, <3>2
    <2>5. Sms(m)' = Sms(m) \cup {asked} /\ \A n \in Mobiles : n # m => Sms(n)' = Sms(n)
      BY <1>2, <2>4 DEF Sms, M!Moment
    <2>6. ASSUME NEW d \in M!Moment
          PROVE  Cardinality(WithinDay(Sms(m) \cup {asked}, d)) <= CODES_PER_DAY
      <3>1. CASE d <= asked /\ asked < d + DAY
        <4>1. WithinDay(Sms(m) \cup {asked}, d) \subseteq sold
          <5> SUFFICES ASSUME NEW t \in Sms(m), d <= t, t < d + DAY PROVE t \in c.sent
            BY DEF WithinDay, sold
          <5>1. t \in Nat /\ d \in Nat /\ DAY \in Nat /\ (t \in c.sent \/ asked - t >= DAY)
            BY <1>5, <2>1, CodesAssumption
          <5>2. ~ (asked - t >= DAY)
            BY <1>5, <3>1, <5>1
          <5> QED
            BY <5>1, <5>2
        <4>2. IsFiniteSet(c.sent) /\ Cardinality(c.sent) \in Nat
          BY <1>5, CodesFinite
        <4>3. IsFiniteSet(sold) /\ Cardinality(sold) <= Cardinality(c.sent) + 1
          BY <4>2, FS_AddElement DEF sold
        <4>4. /\ Cardinality(WithinDay(Sms(m) \cup {asked}, d)) <= Cardinality(sold)
              /\ Cardinality(WithinDay(Sms(m) \cup {asked}, d)) \in Nat
              /\ Cardinality(sold) \in Nat
          BY <4>1, <4>3, FS_Subset, FS_CardinalityType
        <4> QED
          BY <1>4, <4>2, <4>3, <4>4, CodesAssumption
      <3>2. CASE ~ (d <= asked /\ asked < d + DAY)
        <4>1. WithinDay(Sms(m) \cup {asked}, d) = WithinDay(Sms(m), d)
          BY <3>2 DEF WithinDay
        <4> QED
          BY <4>1 DEF MobileInv, SmsTell
      <3> QED
        BY <3>1, <3>2
    <2>7. ASSUME NEW t \in Sms(m) \cup {asked}
          PROVE  t \in sold \/ \E u \in sold : u - t >= DAY
      BY <2>1 DEF sold
    <2>8. ASSUME NEW t \in Sms(m) \cup {asked}, NEW u \in Sms(m) \cup {asked}, t < u
          PROVE  u - t >= RESEND_AFTER
      <3>1. CASE u = asked
        <4>1. t # asked
          BY <1>5, <2>8, <3>1
        <4> QED
          BY <2>1, <3>1, <4>1
      <3>2. CASE t = asked /\ u # asked
        BY <1>5, <2>1, <2>8, <3>2, CodesAssumption
      <3>3. CASE t # asked /\ u # asked
        BY <2>8, <3>3 DEF MobileInv, SmsTell
      <3> QED
        BY <3>1, <3>2, <3>3
    <2>9. ASSUME NEW n \in Mobiles, NEW t \in M!Moment
          PROVE  /\ paid'[n][t] <= 1 /\ (SendingAt(n, t)' # {} => paid'[n][t] = 0)
                 /\ \A q, s \in SendingAt(n, t)' : q = s
      <3>1. paid[n][t] <= 1 /\ (SendingAt(n, t) # {} => paid[n][t] = 0)
            /\ \A q, s \in SendingAt(n, t) : q = s
        BY DEF MobileInv, SmsTell
      <3> QED
        BY <1>2, <2>3, <2>4, <3>1
    <2> SUFFICES ASSUME NEW n \in Mobiles
                 PROVE  /\ \A t, u \in Sms(n)' : t < u => u - t >= RESEND_AFTER
                        /\ \A d \in M!Moment : Cardinality(WithinDay(Sms(n)', d)) <= CODES_PER_DAY
                        /\ \A t \in Sms(n)' :
                              t \in challenge'[n].sent \/ \E u \in challenge'[n].sent : u - t >= DAY
      BY <2>9 DEF SmsTell, WithinDay, M!Moment
    <2>10. CASE n = m
      BY <1>8, <1>9, <2>5, <2>6, <2>7, <2>8, <2>10
    <2>11. CASE n # m
      BY <1>9, <2>5, <2>11 DEF MobileInv, SmsTell
    <2> QED
      BY <2>10, <2>11
  <1> QED
    BY <1>2, <1>9, <1>10, <1>11, <1>12, <1>13, <1>14, <1>15, <1>16, MobileMoved

LEMMA SendSmsStep ==
  ASSUME MobileInv, NEW r \in Requests, M!SendSms(r)
  PROVE  MobileInv'
  <1>1. PICK m \in Mobiles, asked \in M!Moment : m = number[r] /\ asked = now[r]
    BY MobileTypes DEF MobileInv
  <1>2. /\ stage[r] = "sms" /\ M!Goto(r, "idle")
        /\ paid' = [paid EXCEPT ![m][asked] = @ + 1]
        /\ UNCHANGED <<moment, challenge, accounts, number, compared, opened>>
    BY <1>1 DEF M!SendSms
  <1>3. /\ paid' \in [Mobiles -> [M!Moment -> Nat]]
        /\ \A n \in Mobiles, t \in M!Moment :
              paid'[n][t] = IF n = m /\ t = asked THEN paid[n][t] + 1 ELSE paid[n][t]
    BY <1>2 DEF MobileInv, M!TypeOK
  <1>4. /\ M!TypeOK' /\ stage'[r] = "idle" /\ CopyTells(r)'
        /\ \A s \in Requests : s # r => RequestRests(s)
    BY <1>2, <1>3, Answered DEF MobileInv, M!TypeOK
  <1>5. ChallengesMove /\ \A n \in Mobiles : ChallengeTells(n)'
    BY <1>2 DEF ChallengesMove, MobileInv, ChallengeTells
  <1>6. LetInOnce' /\ ComparesCounted'
    BY <1>2, <1>4, <1>5, LetInKept, ComparesKept
  <1>7. SmsTell'
    <2>1. /\ SendingAt(m, asked)' = {} /\ r \in SendingAt(m, asked)
          /\ \A n, t : n # m \/ t # asked => SendingAt(n, t)' = SendingAt(n, t)
      <3>1. r \in SendingAt(m, asked)
        BY <1>1, <1>2 DEF SendingAt
      <3>2. \A s \in SendingAt(m, asked) : s = r
        BY <3>1 DEF MobileInv, SmsTell
      <3>3. SendingAt(m, asked)' = SendingAt(m, asked) \ {r}
        BY <1>1, <1>2, <1>4 DEF SendingAt, RequestRests
      <3>4. ASSUME NEW n, NEW t, n # m \/ t # asked
            PROVE  SendingAt(n, t)' = SendingAt(n, t)
        BY <1>1, <1>2, <1>4, <3>4 DEF SendingAt, RequestRests
      <3> QED
        BY <3>1, <3>2, <3>3, <3>4
    <2>2. paid[m][asked] = 0 /\ paid'[m][asked] = 1
      BY <1>3, <2>1 DEF MobileInv, SmsTell
    <2>3. \A n \in Mobiles : Sms(n)' = Sms(n)
      <3> SUFFICES ASSUME NEW n \in Mobiles, NEW t \in M!Moment
                   PROVE  paid'[n][t] > 0 \/ SendingAt(n, t)' # {}
                          <=> paid[n][t] > 0 \/ SendingAt(n, t) # {}
        BY DEF Sms, M!Moment
      <3> QED
        BY <1>3, <2>1, <2>2
    <2>4. ASSUME NEW n \in Mobiles, NEW t \in M!Moment
          PROVE  /\ paid'[n][t] <= 1 /\ (SendingAt(n, t)' # {} => paid'[n][t] = 0)
                 /\ \A q, s \in SendingAt(n, t)' : q = s
      <3>1. /\ paid[n][t] <= 1 /\ (SendingAt(n, t) # {} => paid[n][t] = 0)
            /\ \A q, s \in SendingAt(n, t) : q = s
        BY DEF MobileInv, SmsTell
      <3> QED
        BY <1>3, <2>1, <2>2, <3>1
    <2>5. \A d : \A n \in Mobiles : WithinDay(Sms(n)', d) = WithinDay(Sms(n), d)
      BY <2>3
    <2> QED
      BY <1>2, <2>3, <2>4, <2>5 DEF MobileInv, SmsTell, WithinDay, M!Moment
  <1> QED
    BY <1>2, <1>4, <1>5, <1>6, <1>7, MobileMoved

LEMMA CountTryStep ==
  ASSUME MobileInv, NEW r \in Requests, M!CountTry(r), ~M!Conflict(r)
  PROVE  MobileInv'
  <1>1. PICK m \in Mobiles, c \in M!Challenge : m = number[r] /\ c = copy[r]
    BY MobileTypes DEF MobileInv
  <1> DEFINE tried == [c EXCEPT !.tries = @ + 1]
             new == [tried EXCEPT !.version = @ + 1]
  <1>2. /\ stage[r] = "count" /\ challenge[m].version = c.version
        /\ challenge' = [challenge EXCEPT ![m] = new] /\ copy' = [copy EXCEPT ![r] = new]
        /\ stage' = [stage EXCEPT ![r] = "compare"]
        /\ UNCHANGED <<moment, accounts, number, now, signingUp, details, paid, compared, opened>>
    BY <1>1 DEF M!CountTry, M!Save, M!history
  <1>3. challenge[m] = c /\ ~c.used /\ c.tries < TRIES_PER_CODE
    BY <1>1, <1>2 DEF MobileInv, CopyTells
  <1>4. /\ c.tries \in Nat /\ c.version \in Nat /\ c.code \in M!Code /\ c.code \in Nat
        /\ TRIES_PER_CODE \in Nat
    BY <1>1, MobileTypes DEF MobileInv
  <1>5. /\ tried \in M!Challenge /\ tried.version = c.version /\ tried.code = c.code
        /\ tried.sent = c.sent /\ tried.used = c.used /\ tried.tries = c.tries + 1
    BY <1>4 DEF M!Challenge
  <1> HIDE DEF tried
  <1>6. /\ new \in M!Challenge /\ new.version = c.version + 1 /\ new.code = c.code
        /\ new.sent = c.sent /\ new.used = c.used /\ new.tries = c.tries + 1
    BY <1>4, <1>5 DEF M!Challenge
  <1> HIDE DEF new
  <1>7. /\ challenge' \in [Mobiles -> M!Challenge] /\ challenge'[m] = new /\ ChallengesMove
        /\ \A n \in Mobiles : n # m => challenge'[n] = challenge[n]
    <2>1. new.code >= challenge[m].code /\ new.tries >= challenge[m].tries
      BY <1>3, <1>4, <1>6
    <2> QED
      BY <1>2, <1>3, <1>6, <2>1, Saved DEF MobileInv
  <1>8. M!TypeOK'
    BY <1>2, <1>6, <1>7 DEF MobileInv, M!TypeOK, M!Places
  <1>9. /\ stage'[r] = "compare" /\ copy'[r] = new
        /\ \A s \in Requests : s # r => RequestRests(s)
    BY <1>2 DEF MobileInv, M!TypeOK, RequestRests
  <1>10. CopyTells(r)'
    BY <1>1, <1>2, <1>3, <1>4, <1>6, <1>7, <1>9 DEF CopyTells
  <1>11. ASSUME NEW n \in Mobiles PROVE ChallengeTells(n)'
    <2>1. CASE n = m
      <3>1. c.tries + 1 <= TRIES_PER_CODE
        BY <1>3, <1>4
      <3> QED
        BY <1>3, <1>6, <1>7, <2>1, <3>1 DEF MobileInv, ChallengeTells
    <2>2. CASE n # m
      BY <1>7, <2>2 DEF MobileInv, ChallengeTells
    <2> QED
      BY <2>1, <2>2
  <1>12. LetInOnce'
    BY <1>2, <1>7, <1>8, <1>9, LetInKept
  <1>13. SmsTell'
    BY <1>2, <1>3, <1>6, <1>7, <1>9, SmsKept
  <1>14. ComparesCounted'
    <2> SUFFICES ASSUME NEW n \in Mobiles, NEW k \in M!Code
                 PROVE  (compared[n][k] + Cardinality(Comparing(n, k)) <= TriesOf(n, k))'
      BY DEF ComparesCounted, M!Code
    <2>1. /\ compared[n][k] + Cardinality(Comparing(n, k)) <= TriesOf(n, k)
          /\ compared[n][k] \in Nat /\ Cardinality(Comparing(n, k)) \in Nat
          /\ IsFiniteSet(Comparing(n, k))
      BY MobileTypes, CodesFinite DEF MobileInv, ComparesCounted
    <2>2. CASE n = m /\ k = c.code
      <3>1. Comparing(n, k)' = Comparing(n, k) \cup {r} /\ r \notin Comparing(n, k)
        BY <1>1, <1>2, <1>6, <1>9, <2>2 DEF Comparing, RequestRests
      <3>2. Cardinality(Comparing(n, k)') = Cardinality(Comparing(n, k)) + 1
        BY <2>1, <3>1, FS_AddElement
      <3>3. TriesOf(n, k) = c.tries /\ TriesOf(n, k)' = c.tries + 1
        BY <1>3, <1>4, <1>6, <1>7, <2>2 DEF TriesOf
      <3> QED
        BY <1>2, <1>4, <2>1, <3>2, <3>3
    <2>3. CASE n # m \/ k # c.code
      <3>1. Comparing(n, k)' = Comparing(n, k)
        BY <1>1, <1>2, <1>6, <1>9, <2>3 DEF Comparing, RequestRests
      <3>2. /\ TriesOf(n, k) \in Nat /\ TriesOf(n, k)' \in Nat /\ TriesOf(n, k) <= TriesOf(n, k)'
        BY <1>7, <1>8, CountedGrows
      <3> QED
        BY <1>2, <2>1, <3>1, <3>2
    <2> QED
      BY <2>2, <2>3
  <1> QED
    BY <1>2, <1>7, <1>8, <1>9, <1>10, <1>11, <1>12, <1>13, <1>14, MobileMoved

LEMMA CompareStep ==
  ASSUME MobileInv, NEW r \in Requests, M!Compare(r)
  PROVE  MobileInv'
  <1>1. PICK m \in Mobiles, c \in M!Challenge : m = number[r] /\ c = copy[r]
    BY MobileTypes DEF MobileInv
  <1>2. /\ stage[r] = "compare" /\ compared' = [compared EXCEPT ![m][c.code] = @ + 1]
        /\ M!Goto(r, "keep") \/ M!Goto(r, "idle")
        /\ UNCHANGED <<moment, challenge, accounts, number, paid, opened>>
    BY <1>1 DEF M!Compare
  <1>3. c.code \in M!Code
    BY <1>1, MobileTypes DEF MobileInv
  <1>4. /\ compared' \in [Mobiles -> [M!Code -> Nat]]
        /\ \A n \in Mobiles, k \in M!Code :
              compared'[n][k] = IF n = m /\ k = c.code THEN compared[n][k] + 1 ELSE compared[n][k]
    BY <1>2, <1>3 DEF MobileInv, M!TypeOK
  <1>5. /\ M!TypeOK' /\ stage'[r] \in {"keep", "idle"} /\ CopyTells(r)'
        /\ \A s \in Requests : s # r => RequestRests(s)
    <2>1. CASE M!Goto(r, "idle")
      BY <1>2, <1>4, <2>1, Answered DEF MobileInv, M!TypeOK
    <2>2. CASE M!Goto(r, "keep")
      <3>1. /\ stage' = [stage EXCEPT ![r] = "keep"]
            /\ UNCHANGED <<now, copy, signingUp, details>>
        BY <2>2 DEF M!Goto
      <3>2. M!TypeOK'
        BY <1>2, <1>4, <3>1 DEF MobileInv, M!TypeOK, M!Places
      <3>3. stage'[r] = "keep" /\ \A s \in Requests : s # r => RequestRests(s)
        BY <1>2, <3>1 DEF MobileInv, M!TypeOK, RequestRests
      <3>4. CopyTells(r)'
        BY <1>2, <3>1, <3>3 DEF MobileInv, CopyTells
      <3> QED
        BY <3>2, <3>3, <3>4
    <2> QED
      BY <1>2, <2>1, <2>2
  <1>6. ChallengesMove /\ \A n \in Mobiles : ChallengeTells(n)'
    BY <1>2 DEF ChallengesMove, MobileInv, ChallengeTells
  <1>7. LetInOnce'
    BY <1>2, <1>5, <1>6, LetInKept
  <1>8. SmsTell'
    BY <1>2, <1>5, SmsKept
  <1>9. ComparesCounted'
    <2> SUFFICES ASSUME NEW n \in Mobiles, NEW k \in M!Code
                 PROVE  (compared[n][k] + Cardinality(Comparing(n, k)) <= TriesOf(n, k))'
      BY DEF ComparesCounted, M!Code
    <2>1. /\ compared[n][k] + Cardinality(Comparing(n, k)) <= TriesOf(n, k)
          /\ compared[n][k] \in Nat /\ Cardinality(Comparing(n, k)) \in Nat
          /\ IsFiniteSet(Comparing(n, k))
      BY MobileTypes, CodesFinite DEF MobileInv, ComparesCounted
    <2>2. TriesOf(n, k)' = TriesOf(n, k) /\ TriesOf(n, k) \in Nat
      <3>1. TriesOf(n, k)' = TriesOf(n, k)
        BY <1>2 DEF TriesOf
      <3> QED
        BY <1>5, <1>6, <3>1, CountedGrows
    <2>3. CASE n = m /\ k = c.code
      <3>1. Comparing(n, k)' = Comparing(n, k) \ {r} /\ r \in Comparing(n, k)
        BY <1>1, <1>2, <1>5, <2>3 DEF Comparing, RequestRests
      <3>2. Cardinality(Comparing(n, k)') = Cardinality(Comparing(n, k)) - 1
        BY <2>1, <3>1, FS_RemoveElement
      <3>3. compared'[n][k] = compared[n][k] + 1
        BY <1>4, <2>3
      <3> QED
        BY <2>1, <2>2, <3>2, <3>3
    <2>4. CASE n # m \/ k # c.code
      <3>1. Comparing(n, k)' = Comparing(n, k)
        BY <1>1, <1>2, <1>5, <2>4 DEF Comparing, RequestRests
      <3>2. compared'[n][k] = compared[n][k]
        BY <1>4, <2>4
      <3> QED
        BY <2>1, <2>2, <3>1, <3>2
    <2> QED
      BY <2>3, <2>4
  <1> QED
    BY <1>2, <1>5, <1>6, <1>7, <1>8, <1>9, MobileMoved

LEMMA KeepOrUseStep ==
  ASSUME MobileInv, NEW r \in Requests, M!KeepOrUse(r), ~M!Conflict(r)
  PROVE  MobileInv'
  <1>1. PICK m \in Mobiles, c \in M!Challenge : m = number[r] /\ c = copy[r]
    BY MobileTypes DEF MobileInv
  <1> DEFINE formEnds == now[r] + SIGNUP_FORM_TIME
             used == [c EXCEPT !.used = TRUE]
             kept == [c EXCEPT !.expires = IF @ >= formEnds THEN @ ELSE formEnds]
  <1>2. /\ stage[r] = "keep" /\ challenge[m].version = c.version
        /\ UNCHANGED <<moment, accounts, number, paid, compared, opened>>
    BY <1>1 DEF M!KeepOrUse, M!Save, M!history
  <1>3. challenge[m] = c /\ ~c.used
    BY <1>1, <1>2 DEF MobileInv, CopyTells
  <1>4. c.version \in Nat /\ c.code \in M!Code /\ c.code \in Nat /\ c.tries \in Nat
    BY <1>1, MobileTypes DEF MobileInv
  <1>5. PICK new \in M!Challenge, place \in {"open", "signUp", "idle"} :
           /\ challenge' = [challenge EXCEPT ![m] = new] /\ M!Goto(r, place)
           /\ new.version = c.version + 1 /\ new.code = c.code /\ new.tries = c.tries
           /\ new.sent = c.sent /\ (place # "idle" => new.used)
    <2>1. /\ used \in M!Challenge /\ used.version = c.version /\ used.code = c.code
          /\ used.tries = c.tries /\ used.sent = c.sent /\ used.used
      <3>1. used \in M!Challenge
        BY DEF M!Challenge
      <3> QED
        BY <3>1 DEF M!Challenge
    <2>2. /\ kept \in M!Challenge /\ kept.version = c.version /\ kept.code = c.code
          /\ kept.tries = c.tries /\ kept.sent = c.sent
      <3>1. c.expires \in Nat /\ formEnds \in Nat
        <4>1. c.expires \in Nat
          BY DEF M!Challenge
        <4>2. now[r] \in Nat /\ SIGNUP_FORM_TIME \in Nat
          BY MobileTypes, CodesAssumption DEF MobileInv
        <4> QED
          BY <4>1, <4>2
      <3>2. kept \in M!Challenge
        BY <3>1 DEF M!Challenge
      <3> QED
        BY <3>2 DEF M!Challenge
    <2>3. \E saved \in {used, kept}, place \in {"open", "signUp", "idle"} :
             /\ challenge' = [challenge EXCEPT ![m] = [saved EXCEPT !.version = @ + 1]]
             /\ M!Goto(r, place) /\ (place # "idle" => saved = used)
      BY <1>1 DEF M!KeepOrUse, M!Save
    <2> HIDE DEF used, kept
    <2>4. PICK saved \in M!Challenge, place \in {"open", "signUp", "idle"} :
             /\ challenge' = [challenge EXCEPT ![m] = [saved EXCEPT !.version = @ + 1]]
             /\ M!Goto(r, place) /\ (place # "idle" => saved.used)
             /\ saved.version = c.version /\ saved.code = c.code
             /\ saved.tries = c.tries /\ saved.sent = c.sent
      BY <2>1, <2>2, <2>3
    <2> DEFINE new == [saved EXCEPT !.version = @ + 1]
    <2>5. /\ new \in M!Challenge /\ new.version = c.version + 1 /\ new.code = c.code
          /\ new.tries = c.tries /\ new.sent = c.sent /\ new.used = saved.used
      BY <1>4, <2>4 DEF M!Challenge
    <2> HIDE DEF new
    <2>6. challenge' = [challenge EXCEPT ![m] = new]
      BY <2>4 DEF new
    <2> QED
      BY <2>4, <2>5, <2>6
  <1>6. /\ challenge' \in [Mobiles -> M!Challenge] /\ challenge'[m] = new /\ ChallengesMove
        /\ \A n \in Mobiles : n # m => challenge'[n] = challenge[n]
    <2>1. new.code >= challenge[m].code /\ new.tries >= challenge[m].tries
      BY <1>3, <1>4, <1>5
    <2> QED
      BY <1>3, <1>5, <2>1, Saved DEF MobileInv
  <1>7. \A n \in Mobiles : challenge'[n].sent = challenge[n].sent /\ ChallengeTells(n)'
    <2> SUFFICES ASSUME NEW n \in Mobiles
                 PROVE  challenge'[n].sent = challenge[n].sent /\ ChallengeTells(n)'
      OBVIOUS
    <2>1. CASE n = m
      BY <1>3, <1>5, <1>6, <2>1 DEF MobileInv, ChallengeTells
    <2>2. CASE n # m
      BY <1>6, <2>2 DEF MobileInv, ChallengeTells
    <2> QED
      BY <2>1, <2>2
  <1>8. CASE place = "idle"
    <2>1. /\ M!TypeOK' /\ stage'[r] = "idle" /\ CopyTells(r)'
          /\ \A s \in Requests : s # r => RequestRests(s)
      BY <1>2, <1>5, <1>6, <1>8, Answered DEF MobileInv, M!TypeOK
    <2>2. LetInOnce' /\ ComparesCounted'
      BY <1>2, <1>6, <2>1, LetInKept, ComparesKept
    <2>3. SmsTell'
      BY <1>2, <1>7, <2>1, SmsKept
    <2> QED
      BY <1>2, <1>6, <1>7, <2>1, <2>2, <2>3, MobileMoved
  <1>9. CASE place # "idle"
    <2>1. /\ stage' = [stage EXCEPT ![r] = place] /\ new.used
          /\ UNCHANGED <<now, copy, signingUp, details>>
      BY <1>5, <1>9 DEF M!Goto
    <2>2. M!TypeOK'
      BY <1>2, <1>6, <2>1 DEF MobileInv, M!TypeOK, M!Places
    <2>3. stage'[r] = place /\ \A s \in Requests : s # r => RequestRests(s)
      BY <1>2, <2>1 DEF MobileInv, M!TypeOK, RequestRests
    <2>4. opened[m][c.code] = 0
      <3>1. /\ opened[m][c.code] > 0 =>
                  c.code < challenge[m].code \/ (c.code = challenge[m].code /\ challenge[m].used)
            /\ opened[m][c.code] \in Nat
        BY <1>4, MobileTypes DEF MobileInv, LetInOnce
      <3> QED
        BY <1>3, <1>4, <3>1
    <2>5. CopyTells(r)'
      BY <1>1, <1>2, <1>4, <1>5, <1>6, <1>9, <2>1, <2>3, <2>4 DEF CopyTells
    <2>6. LetInOnce'
      <3>1. ASSUME NEW s \in Requests, s # r, stage[s] \in {"signUp", "open"}, number[s] = m
            PROVE  copy[s].code # c.code
        BY <1>3, <3>1 DEF MobileInv, CopyTells
      <3>2. ASSUME NEW s \in Requests, NEW q \in Requests, s # q,
                   {stage'[s], stage'[q]} \subseteq {"signUp", "open"}, number'[s] = number'[q]
            PROVE  copy'[s].code # copy'[q].code
        <4>1. /\ \A x \in Requests : number'[x] = number[x] /\ copy'[x] = copy[x]
              /\ \A x \in Requests : x # r => stage'[x] = stage[x]
          BY <1>2, <2>1, <2>3 DEF RequestRests
        <4>2. CASE s = r
          BY <1>1, <3>1, <3>2, <4>1, <4>2
        <4>3. CASE q = r
          BY <1>1, <3>1, <3>2, <4>1, <4>3
        <4>4. CASE s # r /\ q # r
          BY <3>2, <4>1, <4>4 DEF MobileInv, LetInOnce
        <4> QED
          BY <4>2, <4>3, <4>4
      <3>3. ASSUME NEW n \in Mobiles, NEW k \in M!Code
            PROVE  /\ opened'[n][k] <= 1
                   /\ opened'[n][k] > 0 =>
                         k < challenge'[n].code \/ (k = challenge'[n].code /\ challenge'[n].used)
        <4>1. /\ opened'[n][k] <= 1
              /\ opened'[n][k] > 0 =>
                    k < challenge[n].code \/ (k = challenge[n].code /\ challenge[n].used)
          BY <1>2 DEF MobileInv, LetInOnce
        <4> QED
          BY <1>3, <1>5, <1>6, <2>1, <4>1
      <3> QED
        BY <3>2, <3>3 DEF LetInOnce, M!Code
    <2>7. ComparesCounted'
      BY <1>2, <1>6, <1>9, <2>2, <2>3, ComparesKept
    <2>8. SmsTell'
      BY <1>2, <1>7, <2>3, SmsKept
    <2> QED
      BY <1>2, <1>6, <1>7, <2>2, <2>3, <2>5, <2>6, <2>7, <2>8, MobileMoved
  <1> QED
    BY <1>8, <1>9

LEMMA OpenStep ==
  ASSUME MobileInv, NEW r \in Requests, M!Open(r)
  PROVE  MobileInv'
  <1>1. PICK m \in Mobiles, c \in M!Challenge : m = number[r] /\ c = copy[r]
    BY MobileTypes DEF MobileInv
  <1>2. /\ stage[r] = "open" /\ opened' = [opened EXCEPT ![m][c.code] = @ + 1]
        /\ M!Goto(r, "idle")
        /\ UNCHANGED <<moment, challenge, accounts, number, paid, compared>>
    BY <1>1 DEF M!Open
  <1>3. /\ c.code \in M!Code /\ c.code \in Nat /\ opened[m][c.code] = 0
        /\ c.code <= challenge[m].code /\ (c.code = challenge[m].code => challenge[m].used)
        /\ challenge[m].code \in Nat
    BY <1>1, <1>2, MobileTypes DEF MobileInv, CopyTells
  <1>4. /\ opened' \in [Mobiles -> [M!Code -> Nat]]
        /\ \A n \in Mobiles, k \in M!Code :
              opened'[n][k] = IF n = m /\ k = c.code THEN 1 ELSE opened[n][k]
    BY <1>2, <1>3 DEF MobileInv, M!TypeOK
  <1>5. /\ M!TypeOK' /\ stage'[r] = "idle" /\ CopyTells(r)'
        /\ \A s \in Requests : s # r => RequestRests(s)
    BY <1>2, <1>4, Answered DEF MobileInv, M!TypeOK
  <1>6. ASSUME NEW s \in Requests, s # r, stage[s] \in {"signUp", "open"}
        PROVE  opened'[number[s]][copy[s].code] = opened[number[s]][copy[s].code]
    <2>1. number[s] \in Mobiles /\ copy[s].code \in M!Code
      BY MobileTypes DEF MobileInv
    <2>2. number[s] = m => copy[s].code # c.code
      BY <1>1, <1>2, <1>6 DEF MobileInv, LetInOnce
    <2> QED
      BY <1>4, <2>1, <2>2
  <1>7. ChallengesMove /\ \A n \in Mobiles : ChallengeTells(n)'
    BY <1>2 DEF ChallengesMove, MobileInv, ChallengeTells
  <1>8. ComparesCounted'
    BY <1>2, <1>5, <1>7, ComparesKept
  <1>9. SmsTell'
    BY <1>2, <1>5, SmsKept
  <1>10. LetInOnce'
    <2>1. ASSUME NEW s \in Requests, NEW q \in Requests, s # q,
                 {stage'[s], stage'[q]} \subseteq {"signUp", "open"}, number'[s] = number'[q]
          PROVE  copy'[s].code # copy'[q].code
      <3>1. s # r /\ q # r
        BY <1>5, <2>1
      <3> QED
        BY <1>5, <2>1, <3>1 DEF RequestRests, MobileInv, LetInOnce
    <2>2. ASSUME NEW n \in Mobiles, NEW k \in M!Code
          PROVE  /\ opened'[n][k] <= 1
                 /\ opened'[n][k] > 0 =>
                       k < challenge'[n].code \/ (k = challenge'[n].code /\ challenge'[n].used)
      <3>1. /\ opened[n][k] <= 1
            /\ opened[n][k] > 0 =>
                  k < challenge[n].code \/ (k = challenge[n].code /\ challenge[n].used)
        BY DEF MobileInv, LetInOnce
      <3> QED
        <4>1. CASE n = m /\ k = c.code
          BY <1>2, <1>3, <1>4, <4>1
        <4>2. CASE ~ (n = m /\ k = c.code)
          BY <1>2, <1>4, <3>1, <4>2
        <4> QED
          BY <4>1, <4>2
    <2> QED
      BY <2>1, <2>2 DEF LetInOnce, M!Code
  <1> QED
    BY <1>2, <1>5, <1>6, <1>7, <1>8, <1>9, <1>10, MobileMoved
-----------------------------------------------------------------------------
LEMMA MobileRest ==
  ASSUME MobileInv, M!TypeOK',
         UNCHANGED <<challenge, stage, number, now, copy, paid, compared, opened>>
  PROVE  MobileInv'
  <1>1. \A m \in Mobiles : ChallengeTells(m)'
    BY DEF MobileInv, ChallengeTells
  <1>2. \A r \in Requests : CopyTells(r)'
    BY DEF MobileInv, CopyTells
  <1>3. LetInOnce'
    BY DEF MobileInv, LetInOnce, M!Code
  <1>4. ComparesCounted'
    <2>1. \A m, c : Comparing(m, c)' = Comparing(m, c) /\ TriesOf(m, c)' = TriesOf(m, c)
      BY DEF Comparing, TriesOf
    <2> QED
      BY <2>1 DEF MobileInv, ComparesCounted, M!Code
  <1>5. SmsTell'
    <2>1. \A m, t : SendingAt(m, t)' = SendingAt(m, t)
      BY DEF SendingAt
    <2>2. \A m : Sms(m)' = Sms(m)
      BY <2>1 DEF Sms, M!Moment
    <2>3. \A m, d : WithinDay(Sms(m), d)' = WithinDay(Sms(m), d)
      BY <2>2 DEF WithinDay
    <2> QED
      BY <2>1, <2>2, <2>3 DEF MobileInv, SmsTell
  <1> QED
    BY <1>1, <1>2, <1>3, <1>4, <1>5 DEF MobileInv

LEMMA MobileStep ==
  ASSUME MobileInv, M!Next \/ UNCHANGED M!vars
  PROVE  MobileInv'
  <1>1. ASSUME NEW r \in Requests, NEW m \in Mobiles, NEW d \in BOOLEAN,
               M!AskForCode(r, m) \/ M!Verify(r, m, d)
        PROVE  MobileInv'
    BY <1>1, AskForCodeStep, VerifyStep
  <1>2. ASSUME NEW r \in Requests,
               \/ M!LimitCodes(r) \/ M!SendSms(r) \/ M!ReadChallenge(r)
               \/ M!Compare(r) \/ M!SignUp(r) \/ M!Open(r)
        PROVE  MobileInv'
    BY <1>2, LimitCodesStep, SendSmsStep, ReadChallengeStep, CompareStep, SignUpStep, OpenStep
  <1>3. ASSUME NEW r \in Requests, M!SaveCode(r) \/ M!CountTry(r) \/ M!KeepOrUse(r)
        PROVE  MobileInv'
    <2>1. CASE M!Conflict(r)
      <3>1. /\ stage[r] \in {"saveCode", "count", "keep"}
            /\ UNCHANGED <<moment, accounts, number, paid, compared, opened>>
        BY <1>3 DEF M!SaveCode, M!CountTry, M!KeepOrUse, M!history
      <3> QED
        BY <2>1, <3>1, CodeConflictStep
    <2> QED
      BY <1>3, <2>1, SaveCodeStep, CountTryStep, KeepOrUseStep
  <1>4. CASE M!Tick
    <2>1. moment < MaxMoment /\ moment' = moment + 1
      BY <1>4 DEF M!Tick
    <2>2. UNCHANGED <<challenge, accounts, stage, number, now, copy, signingUp, details, paid,
                      compared, opened>>
      BY <1>4 DEF M!Tick, M!request, M!history
    <2>3. M!TypeOK'
      BY <2>1, <2>2, CodesAssumption DEF MobileInv, M!TypeOK
    <2> QED
      BY <2>2, <2>3, MobileRest
  <1>5. CASE UNCHANGED M!vars
    <2>1. UNCHANGED <<moment, challenge, accounts, stage, number, now, copy, signingUp, details,
                      paid, compared, opened>>
      BY <1>5 DEF M!vars, M!request, M!history
    <2>2. M!TypeOK'
      BY <2>1 DEF MobileInv, M!TypeOK
    <2> QED
      BY <2>1, <2>2, MobileRest
  <1> QED
    BY <1>1, <1>2, <1>3, <1>4, <1>5 DEF M!Next

LEMMA MobileStart == M!Init => MobileInv
  <1> SUFFICES ASSUME M!Init PROVE MobileInv
    OBVIOUS
  <1>1. /\ moment = 0 /\ challenge = [m \in Mobiles |-> M!NoChallenge] /\ accounts \in SUBSET Mobiles
        /\ stage = [r \in Requests |-> "idle"] /\ number \in [Requests -> Mobiles]
        /\ now = [r \in Requests |-> 0] /\ copy = [r \in Requests |-> M!NoChallenge]
        /\ signingUp = [r \in Requests |-> FALSE] /\ details = [r \in Requests |-> FALSE]
        /\ paid = [m \in Mobiles |-> [t \in M!Moment |-> 0]]
        /\ compared = [m \in Mobiles |-> [c \in M!Code |-> 0]]
        /\ opened = [m \in Mobiles |-> [c \in M!Code |-> 0]]
    BY DEF M!Init
  <1>2. 0 \in M!Moment /\ 0 \in M!Code /\ M!Code \subseteq Nat
    BY CodesAssumption DEF M!Moment, M!Code
  <1>3. M!NoChallenge \in M!Challenge
    BY <1>2 DEF M!NoChallenge, M!Challenge
  <1>4. M!TypeOK
    <2>1. signingUp \in [Requests -> BOOLEAN] /\ details \in [Requests -> BOOLEAN]
      BY <1>1
    <2>2. /\ paid \in [Mobiles -> [M!Moment -> Nat]]
          /\ compared \in [Mobiles -> [M!Code -> Nat]] /\ opened \in [Mobiles -> [M!Code -> Nat]]
      BY <1>1
    <2> QED
      BY <1>1, <1>2, <1>3, <2>1, <2>2, CodesAssumption DEF M!TypeOK, M!Places
  <1>5. \A m \in Mobiles : challenge[m] = M!NoChallenge /\ ChallengeTells(m)
    BY <1>1, CodesAssumption DEF ChallengeTells, M!NoChallenge
  <1>6. \A r \in Requests : stage[r] = "idle" /\ CopyTells(r)
    BY <1>1 DEF CopyTells
  <1>7. LetInOnce
    BY <1>1, <1>6 DEF LetInOnce
  <1>8. ComparesCounted
    <2> SUFFICES ASSUME NEW m \in Mobiles, NEW c \in M!Code
                 PROVE  compared[m][c] + Cardinality(Comparing(m, c)) <= TriesOf(m, c)
      BY DEF ComparesCounted
    <2>1. Comparing(m, c) = {}
      BY <1>6 DEF Comparing
    <2>2. Cardinality(Comparing(m, c)) = 0
      BY <2>1, FS_EmptySet
    <2>3. TriesOf(m, c) = 0 /\ compared[m][c] = 0
      BY <1>1, <1>2, <1>5 DEF TriesOf, M!NoChallenge
    <2> QED
      BY <2>2, <2>3
  <1>9. SmsTell
    <2>1. \A m, t : SendingAt(m, t) = {}
      BY <1>6 DEF SendingAt
    <2>2. \A m \in Mobiles : Sms(m) = {}
      BY <1>1, <2>1 DEF Sms
    <2>3. \A d : \A m \in Mobiles : Cardinality(WithinDay(Sms(m), d)) = 0
      BY <2>2, FS_EmptySet DEF WithinDay
    <2> QED
      BY <1>1, <2>1, <2>2, <2>3, CodesAssumption DEF SmsTell
  <1> QED
    BY <1>4, <1>5, <1>6, <1>7, <1>8, <1>9 DEF MobileInv

LEMMA MobilePromise ==
  ASSUME MobileInv
  PROVE  M!TypeOK /\ M!CodeIsOneTime /\ M!SmsBounded
  <1>1. M!CodeIsOneTime
    <2> SUFFICES ASSUME NEW m \in Mobiles, NEW c \in M!Code
                 PROVE  compared[m][c] <= TRIES_PER_CODE /\ opened[m][c] <= 1
      BY DEF M!CodeIsOneTime
    <2>1. compared[m][c] + Cardinality(Comparing(m, c)) <= TriesOf(m, c) /\ opened[m][c] <= 1
      BY DEF MobileInv, ComparesCounted, LetInOnce
    <2>2. compared[m][c] \in Nat /\ Cardinality(Comparing(m, c)) \in Nat /\ TRIES_PER_CODE \in Nat
          /\ challenge[m].tries \in Nat /\ challenge[m].tries <= TRIES_PER_CODE
      BY MobileTypes, CodesFinite DEF MobileInv, ChallengeTells
    <2>3. TriesOf(m, c) \in Nat /\ TriesOf(m, c) <= TRIES_PER_CODE
      BY <2>2 DEF TriesOf
    <2> QED
      BY <2>1, <2>2, <2>3
  <1>2. M!SmsBounded
    <2> SUFFICES ASSUME NEW m \in Mobiles
                 PROVE  LET sms == {t \in M!Moment : paid[m][t] > 0} IN
                        /\ \A t \in M!Moment : paid[m][t] <= 1
                        /\ \A t, u \in sms : t < u => u - t >= RESEND_AFTER
                        /\ \A d \in M!Moment :
                              M!Cardinality({t \in sms : d <= t /\ t < d + DAY}) <= CODES_PER_DAY
      BY DEF M!SmsBounded
    <2> DEFINE sms == {t \in M!Moment : paid[m][t] > 0}
    <2>1. sms \subseteq Sms(m) /\ Sms(m) \subseteq M!Moment
      BY DEF Sms
    <2>2. ASSUME NEW d \in M!Moment
          PROVE  M!Cardinality({t \in sms : d <= t /\ t < d + DAY}) <= CODES_PER_DAY
      <3> DEFINE sent_ == {t \in sms : d <= t /\ t < d + DAY}
                 day == WithinDay(Sms(m), d)
      <3>1. sent_ \subseteq day /\ day \subseteq M!Moment
        BY <2>1 DEF WithinDay
      <3>2. Cardinality(day) <= CODES_PER_DAY
        BY DEF MobileInv, SmsTell
      <3> HIDE DEF sent_, day
      <3>3. /\ IsFiniteSet(day) /\ Cardinality(sent_) <= Cardinality(day)
            /\ Cardinality(sent_) \in Nat /\ Cardinality(day) \in Nat
        BY <3>1, CodesFinite, FS_Subset, FS_CardinalityType
      <3>4. Cardinality(sent_) <= CODES_PER_DAY
        BY <3>2, <3>3, CodesAssumption
      <3> QED
        BY <3>4, SameCardinality DEF sent_
    <2>3. \A t, u \in sms : t < u => u - t >= RESEND_AFTER
      BY <2>1 DEF MobileInv, SmsTell
    <2>4. \A t \in M!Moment : paid[m][t] <= 1
      BY DEF MobileInv, SmsTell
    <2> QED
      BY <2>2, <2>3, <2>4
  <1> QED
    BY <1>1, <1>2 DEF MobileInv
-----------------------------------------------------------------------------
(* The session once it is open: Sessions_proofs, with this module's names. *)
P == INSTANCE Sessions_proofs WITH MaxClock <- MaxTime, clock <- moment, at <- stage

\* The two instances say the same of a session.
LEMMA SessionsAlike ==
  /\ P!TimesAreTimes
  /\ N!Init <=> P!Init
  /\ N!Next \/ UNCHANGED N!vars <=> P!Next \/ UNCHANGED P!vars
<1>1. P!TimesAreTimes
  BY SessionsAssumption DEF P!TimesAreTimes
<1>2. N!Init <=> P!Init
  BY DEF N!Init, P!Init, N!Opened, P!Opened, N!NoPurge, P!NoPurge, N!Never, P!Never
<1>3. N!Opened = P!Opened /\ N!NoPurge = P!NoPurge /\ N!Never = P!Never
  BY DEF N!Opened, P!Opened, N!NoPurge, P!NoPurge, N!Never, P!Never
<1>4. N!Latest = P!Latest /\ \A versions : N!LatestOf(versions) = P!LatestOf(versions)
  BY DEF N!LatestOf, P!LatestOf, N!Latest, P!Latest
<1> USE <1>3, <1>4 DEF N!request, P!request, N!history, P!history
<1>5. ASSUME NEW r \in Requests
      PROVE  /\ N!Find(r) <=> P!Find(r)
             /\ N!Recognise(r) <=> P!Recognise(r)
             /\ N!Answer(r) <=> P!Answer(r)
             /\ N!FindToLeave(r) <=> P!FindToLeave(r)
  BY DEF N!Find, P!Find, N!Recognise, P!Recognise, N!Answer, P!Answer, N!FindToLeave,
     P!FindToLeave, N!With, P!With, N!Done, P!Done, N!Counts, P!Counts
<1>6. ASSUME NEW r \in Requests
      PROVE  /\ N!Touch(r) <=> P!Touch(r)
             /\ N!Leave(r) <=> P!Leave(r)
  BY DEF N!Touch, P!Touch, N!Leave, P!Leave, N!Replaced, P!Replaced, N!With, P!With,
     N!Done, P!Done
<1>7. N!PurgeBegin <=> P!PurgeBegin
  BY DEF N!PurgeBegin, P!PurgeBegin
<1>8. N!DeleteDead <=> P!DeleteDead
  BY DEF N!DeleteDead, P!DeleteDead, N!Dead, P!Dead
<1>9. N!DeleteSuperseded <=> P!DeleteSuperseded
  BY DEF N!DeleteSuperseded, P!DeleteSuperseded
<1>10. (N!Commit <=> P!Commit) /\ (N!Abort <=> P!Abort) /\ (N!Tick <=> P!Tick)
  BY DEF N!Commit, P!Commit, N!Abort, P!Abort, N!Tick, P!Tick
<1>11. N!Next <=> P!Next
  BY <1>5, <1>6, <1>7, <1>8, <1>9, <1>10 DEF N!Next, P!Next
<1>12. UNCHANGED N!vars <=> UNCHANGED P!vars
  BY DEF N!vars, P!vars
<1> QED BY <1>1, <1>2, <1>11, <1>12

LEMMA SessionsStart == N!Init => P!IInv
  BY SessionsAlike, P!InitIInv

LEMMA SessionsStep == P!IInv /\ (N!Next \/ UNCHANGED N!vars) => P!IInv'
  BY SessionsAlike, P!NextIInv

LEMMA SessionsPromise ==
  P!IInv => N!TypeOK /\ N!SignedOutStaysOut /\ N!SessionIsKept
<1> SUFFICES ASSUME P!IInv PROVE N!TypeOK /\ N!SignedOutStaysOut /\ N!SessionIsKept
  OBVIOUS
<1>1. N!Latest = P!Latest /\ N!Never = P!Never
  BY DEF N!LatestOf, P!LatestOf, N!Latest, P!Latest, N!Never, P!Never
<1>2. N!TypeOK
  BY DEF P!IInv, P!Types, P!Versions, P!Tasks, N!TypeOK
<1>3. N!SignedOutStaysOut
  BY <1>1, P!LatestIsNewest DEF P!IInv, P!Types, P!NewestTells, N!SignedOutStaysOut
<1>4. N!SessionIsKept
  BY <1>1, P!LatestIsNewest DEF P!IInv, P!Types, P!NewestTells, P!PurgeIsSafe, P!Usable,
     N!SessionIsKept
<1> QED BY <1>2, <1>3, <1>4
-----------------------------------------------------------------------------
(* The parts together. Nothing changes which part is in focus, a step of the *)
(* whole is a step of that part or none of it, and payments stay as true as  *)
(* they are alone.                                                           *)
CustomerInv ==
    /\ IInv /\ Counters
    /\ focus = "accounts" => AccountsInv
    /\ focus = "mobile" => MobileInv
    /\ focus = "google" => GoogleInv
    /\ focus = "settings" => SettingsInv
    /\ focus = "keys" => KeysInv
    /\ focus = "sessions" => P!IInv

LEMMA CustomerInitInv == CustomerInit => CustomerInv
<1> SUFFICES ASSUME CustomerInit PROVE CustomerInv
  OBVIOUS
<1>1. IInv /\ Counters
  BY InitIInv, InitCounters DEF CustomerInit
<1>2. /\ focus = "accounts" => A!Init
      /\ focus = "mobile" => M!Init
      /\ focus = "google" => G!Init
      /\ focus = "settings" => S!Init
      /\ focus = "keys" => K!Init
      /\ focus = "sessions" => N!Init
  BY DEF CustomerInit
<1> QED
  BY <1>1, <1>2, AccountsStart, MobileStart, GoogleStart, SettingsStart, KeysStart,
     SessionsStart DEF CustomerInv

\* A step of the whole is one of the part in focus, and of no other.
LEMMA PartSteps ==
  ASSUME [CustomerNext]_customerVars
  PROVE  /\ focus' = focus /\ [Next]_vars
         /\ focus = "accounts" => A!Next \/ UNCHANGED A!vars
         /\ focus = "mobile" => M!Next \/ UNCHANGED M!vars
         /\ focus = "google" => G!Next \/ UNCHANGED G!vars
         /\ focus = "settings" => S!Next \/ UNCHANGED S!vars
         /\ focus = "keys" => K!Next \/ UNCHANGED K!vars
         /\ focus = "sessions" => N!Next \/ UNCHANGED N!vars
<1>1. CASE CustomerNext
  BY <1>1 DEF CustomerNext
<1>2. CASE UNCHANGED customerVars
  <2>1. UNCHANGED <<vars, focus>> /\ UNCHANGED partVars
    BY <1>2 DEF customerVars
  <2>2. UNCHANGED <<accountsOnly, mobileOnly, googleOnly, settingsOnly, keysOnly,
                    sessionsOnly, shared>>
    BY <2>1 DEF partVars
  <2>3. UNCHANGED A!vars /\ UNCHANGED M!vars /\ UNCHANGED G!vars
    BY <2>2 DEF accountsOnly, mobileOnly, googleOnly, shared, A!vars, A!records, A!signIn,
       A!operator, M!vars, M!request, M!history, G!vars, G!request
  <2>4. UNCHANGED S!vars /\ UNCHANGED K!vars /\ UNCHANGED N!vars
    BY <2>2 DEF settingsOnly, keysOnly, sessionsOnly, shared, S!vars, S!request, K!vars,
       K!records, K!request, N!vars, N!request, N!history
  <2> QED BY <2>1, <2>3, <2>4
<1> QED BY <1>1, <1>2

LEMMA CustomerNextInv ==
  ASSUME CustomerInv, [CustomerNext]_customerVars
  PROVE  /\ CustomerInv'
         /\ focus = "accounts" => A!AccountStep
         /\ focus = "google" => G!DisconnectStep
         /\ focus = "settings" => S!SettingsStep
<1>1. (IInv /\ Counters)'
  BY PartSteps, NextIInv, CountersStep DEF CustomerInv
<1>2. focus = "accounts" => AccountsInv' /\ A!AccountStep
  BY PartSteps, AccountsStep DEF CustomerInv
<1>3. focus = "mobile" => MobileInv'
  BY PartSteps, MobileStep DEF CustomerInv
<1>4. focus = "google" => GoogleInv' /\ G!DisconnectStep
  BY PartSteps, GoogleStep DEF CustomerInv
<1>5. focus = "settings" => SettingsInv' /\ S!SettingsStep
  BY PartSteps, SettingsStepInv DEF CustomerInv
<1>6. focus = "keys" => KeysInv'
  BY PartSteps, KeysStep DEF CustomerInv
<1>7. focus = "sessions" => P!IInv'
  BY PartSteps, SessionsStep DEF CustomerInv
<1> QED
  BY <1>1, <1>2, <1>3, <1>4, <1>5, <1>6, <1>7, PartSteps DEF CustomerInv

LEMMA CustomerInvAlways == CustomerSpec => []CustomerInv
<1>1. CustomerInv /\ [CustomerNext]_customerVars => CustomerInv'
  BY CustomerNextInv
<1> QED BY <1>1, CustomerInitInv, PTL DEF CustomerSpec
-----------------------------------------------------------------------------
(* Whatever part of it a customer uses, its variables keep their types, and  *)
(* so do the payments (app/accounts, app/onboarding, app/tenancy,            *)
(* app/billing): for any values of the constants.                            *)
THEOREM SpecTypesOK == CustomerSpec => []TypesOK
<1>1. CustomerInv => TypesOK
  BY BillingTypes, AccountsPromise, MobilePromise, GooglePromise, KeysPromise,
     SessionsPromise DEF CustomerInv, SettingsInv, TypesOK
<1> QED BY <1>1, CustomerInvAlways, PTL

(* Nobody gets in without a proof that still holds: a session stands on the  *)
(* password or the Google identity the account has (AuthService._open,       *)
(* session_for), the index of identities says what the accounts say          *)
(* (AccountStore.bind_google), a sign-out holds and a session in use is kept *)
(* (sign_out, RecordPurge.run_round), and a key acts for its own tenant      *)
(* (TenantAPIKeyAuthenticator.authenticate): for any values of the constants. *)
THEOREM SpecAccessIsProved == CustomerSpec => []AccessIsProved
<1>1. CustomerInv => AccessIsProved
  BY AccountsPromise, KeysPromise, SessionsPromise DEF CustomerInv, AccessIsProved
<1> QED BY <1>1, CustomerInvAlways, PTL

(* A code lets one sign-in through, after at most TRIES_PER_CODE comparisons, *)
(* and a number is sent at most CODES_PER_DAY of them a day                  *)
(* (OtpService.send, check); a link to Google is exchanged once              *)
(* (GoogleOAuthService.complete, GoogleLogin.complete): for any numbers,     *)
(* links, requests and limits.                                               *)
THEOREM SpecUsedOnce == CustomerSpec => []UsedOnce
<1>1. CustomerInv => UsedOnce
  BY MobilePromise, GooglePromise DEF CustomerInv, UsedOnce
<1> QED BY <1>1, CustomerInvAlways, PTL

(* A disconnection erases a token only once Google has revoked it            *)
(* (GoogleOAuthService.disconnect): for any requests and any faults.         *)
THEOREM SpecRevokedBeforeErased == CustomerSpec => RevokedBeforeErased
<1>1. CustomerInv /\ [CustomerNext]_customerVars
         => [focus = "google" => G!DisconnectStep]_partVars
  BY CustomerNextInv
<1> QED BY <1>1, CustomerInvAlways, PTL DEF CustomerSpec, RevokedBeforeErased

(* No sign-in writes back over what the operator has changed in an account   *)
(* (AccountStore.update), and no slow request over another setting of a site *)
(* (SiteStore.update): for any accounts, adapters and requests.              *)
THEOREM SpecNothingWrittenBack == CustomerSpec => NothingWrittenBack
<1>1. CustomerInv /\ [CustomerNext]_customerVars
         => [/\ focus = "accounts" => A!AccountStep
             /\ focus = "settings" => S!SettingsStep]_partVars
  BY CustomerNextInv
<1> QED BY <1>1, CustomerInvAlways, PTL DEF CustomerSpec, NothingWrittenBack

(* The payments are none the worse for the company: what Billing promises    *)
(* alone, it promises here (PaymentsAreTrue and ImplementsPaidMonths).       *)
THEOREM CustomerPaysAsAlone == CustomerSpec => []PaymentsAreTrue /\ ImplementsPaidMonths
<1>1. CustomerInit => Init
  BY DEF CustomerInit
<1>2. [CustomerNext]_customerVars => [Next]_vars
  BY PartSteps
<1>3. CustomerSpec => Spec
  BY <1>1, <1>2, PTL DEF CustomerSpec, Spec
<1> QED BY <1>3, SpecPaymentsAreTrue, SpecImplementsPaidMonths
=============================================================================
