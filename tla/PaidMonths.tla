--------------------------- MODULE PaidMonths ---------------------------
(***************************************************************************)
(* What a customer is promised about paying: each payment buys one period, *)
(* counted once, on top of what is left; time left in another plan is      *)
(* worth what was paid for it.                                             *)
(***************************************************************************)
EXTENDS Integers

CONSTANTS Payments, ForSale, Price, PERIOD, TRIAL_LENGTH, MaxClock
VARIABLES clock, subscription, counted

\* What the time left at now is worth in another plan.
Left(now, plan) ==
    LET left == IF subscription.version = 0 \/ subscription.ends <= now
                THEN 0 ELSE subscription.ends - now
    IN  IF subscription.plan \in {plan, "trial"} THEN left
        ELSE (left * Price[subscription.plan]) \div Price[plan]

Init ==
    /\ clock = 0 /\ counted = {}
    /\ \/ subscription.version = 0
       \/ subscription.plan = "trial" /\ subscription.ends = TRIAL_LENGTH

CountMonth(p, plan) ==
    /\ p \notin counted
    /\ counted' = counted \cup {p}
    /\ subscription'.plan = plan
    /\ subscription'.ends = clock + Left(clock, plan) + PERIOD
    /\ UNCHANGED clock

Tick == clock' = clock + 1 /\ UNCHANGED <<subscription, counted>>

Next == Tick \/ \E p \in Payments, plan \in ForSale : CountMonth(p, plan)

Spec == Init /\ [][Next]_<<clock, subscription, counted>>
========================================================================
