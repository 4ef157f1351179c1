\* Every part of the work on a site by itself: see MCSiteWork for its bounds.
SPECIFICATION SiteSpec
CONSTANTS
    m1 = m1
    m2 = m2
    None = None
    Files = {"sitemap"}
    Texts <- Pair
    SCAN_COOLDOWN = 1
    SCAN_STALE_AFTER = 1
    RESCAN_EVERY = 2
    RETRY_FAILED_AFTER = 1
    MAX_DOUBLINGS = 1
    MaxAttempts = 2
    MaxJobs = 2
    MaxClock = 1
    MaxStops = 1
    Pages <- MCPages
    Home = "home"
    Plain <- MCPlain
    Sitemaps = {"map", "child"}
    COMMON_SITEMAPS <- MCUsualSitemaps
    MAX_PAGES = 2
    MAX_QUEUE = 3
    MAX_CHILD_SITEMAPS = 2
    MAX_LINKS = 1
    MaxClosed = 1
    Runs <- MCRuns
    Kind <- MCKind
    Attempts <- MCAttempts
    MaxFaults = 1
    MaxLooks = 2
    Words <- Pair
    Requests = {"r1", "r2", "r3"}
    MAX_WORDS = 1
    MAX_CONFIRMED = 1
    UPDATE_ATTEMPTS = 2
    SUGGEST_COOLDOWN = 1
    SUGGEST_STALE_AFTER = 1
    MaxTime = 2
    MaxTracks = 1
    Servers <- Pair
    Properties = {"old", "new"}
    LastDay = 2
    Traffic <- MCTraffic
    LAG_DAYS = 1
    WINDOW_DAYS = 2
    DAYS_PER_ROUND = 2
    DAY_RETRIES = 1
    BaselineDays = {1}
    CurrentDays = {2}
    DEADLINE_DAYS = 0
    MaxSwitches = 1
    MaxRounds = 2
    Providers <- MCProviders
    MAX_RETRIES = 2
    MAX_SWITCHES = 1
    Fallback = {"transport", "timeout", "rate_limit"}
    MIN_COMPETITOR_EVIDENCE = 1
    Titles = {"cur", "comp", "off", "new1", "new2"}
    CurrentTitle = "cur"
    Competitors = {"comp"}
    OffQuery = {"off"}
    Ids <- Pair
    MaxCandidates = 2
    MaxConfidence = 1
    Clients = {"c1", "c2"}
    Queries = {"q1", "q2"}
    Tenant <- MCTenant
    Limit <- MCLimit
    SNAPSHOT_TTL = 0
    MAX_STALE = 1
    VOLUME_TTL = 1
    UNCONFIRMED_TTL = 0
    CONSUME_ATTEMPTS = 2
    MaxLookups = 3
    Windows <- MCWindows
    Length = 5
    Adjustments <- MCLessons
    MaxRevisions = 1
    Actions <- MCActions
    Owner <- MCOwner
    Changes <- MCChanges
    PRECISION = 1000
    MIN_SAMPLES = 2
    Posts <- Pair
    Addresses <- MCAddresses
    Slug <- MCSlug
    HomeAddress = "/"
    PostTexts = {"old", "new"}
    Old = "old"
    Removed = "removed"
    MaxCalls = 2
    MaxEdits = 1
SYMMETRY MCSymmetry
INVARIANTS
    TypesOK
    ScanIsKept
    
    
    EvidenceIsTrue
    BudgetHolds
PROPERTIES
    DecisionsStand
\* The work of a site comes to an end.
CHECK_DEADLOCK FALSE
