\* The timer is fair, a paying customer comes back: two payments, one request, two errors, one stop.
SPECIFICATION FairSpec
CONSTANTS
    p1 = p1
    p2 = p2
    r1 = r1
    r2 = r2
    NoPayment = NoPayment
    Requests <- OneRequest
    Payments <- MCPayments
    ForSale <- MCForSale
    Price <- MCPrice
    PERIOD = 2
    TRIAL_LENGTH = 1
    RECHECK_AFTER = 1
    GIVE_UP_AFTER = 2
    CREDIT_ATTEMPTS = 2
    PageSize = 2
    MaxClock = 2
    MaxFaults = 2
    MaxStops = 1
PROPERTIES
    PaidIsAnswered
\* Nobody has to pay.
CHECK_DEADLOCK FALSE
