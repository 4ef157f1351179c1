\* Payments with two requests at once, sign-in, sessions, SMS codes, the connection to Google, a site's settings, API keys.
SPECIFICATION CustomerSpec
CONSTANTS
    p1 = p1
    p2 = p2
    r1 = r1
    r2 = r2
    d1 = d1
    d2 = d2
    None = None
    NoPayment = NoPayment
    Requests <- MCRequests
    Payments <- MCPayments
    ForSale <- MCForSale
    Price <- MCPrice
    PERIOD = 2
    TRIAL_LENGTH = 1
    RECHECK_AFTER = 1
    GIVE_UP_AFTER = 2
    CREDIT_ATTEMPTS = 2
    PageSize = 2
    MaxClock = 2
    MaxFaults = 1
    MaxStops = 1
    Account <- MCPayments
    Subjects = {"google"}
    BIND_TRIES = 3
    MaxCommands = 2
    Mobiles = {"0912"}
    CODE_LIFETIME = 2
    RESEND_AFTER = 1
    DAY = 2
    SIGNUP_FORM_TIME = 2
    CODES_PER_DAY = 2
    TRIES_PER_CODE = 2
    MaxMoment = 2
    Links <- MCPayments
    LoginLinks = {"login"}
    Person <- MCPerson
    Disconnects <- MCDisconnects
    Adapters <- MCPayments
    MaxWrites = 4
    Tenants = {"t1", "t2"}
    Keys <- MCPayments
    KeyRequests = {"r"}
    Commands <- MCDisconnects
    Admin = "admin"
    MaxKeyCommands = 3
    SESSION_LIFETIME = 5
    IDLE_TIMEOUT = 2
    TOUCH_EVERY = 1
    GRACE = 1
    MaxTime = 7
SYMMETRY MCSymmetry
INVARIANTS
    TypesOK
    
    AccessIsProved
    UsedOnce
PROPERTIES
    ImplementsPaidMonths
    RevokedBeforeErased
    NothingWrittenBack
\* A customer may do nothing more.
CHECK_DEADLOCK FALSE
