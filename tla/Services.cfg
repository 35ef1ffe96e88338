\* Each service with two actors where it has any, and bounds that let every
\* limit, timeout and eviction be met.
SPECIFICATION Spec
CHECK_DEADLOCK FALSE
CONSTANTS
    GitRequests <- MCGitRequests
    GitRepos <- MCGitRepos
    GitAuthOn = {TRUE, FALSE}
    PipeCap = 1
    LoginTasks = {t1, t2}
    Addresses = {i1, i2}
    Emails = {"A"}
    Passwords = {"", "long"}
    Lower <- MCLower
    MaxHits = 2
    Window = 3
    TicksPerSecond = 2
    Buckets = 1
    LoginHorizon = 3
    MaxLogins = 4
    Accounts = {a1, a2}
    SigningKeys = {k1}
    Authenticators = {c1}
    ChallengeTtl = 0
    CeremonyTasks = {v1, v2}
    MaxChallenges = 3
    CeremonyHorizon = 1
    Fetches = {f1, f2}
    CacheTtl = 1
    FetchTimeout = 1
    Retention = 1
    MaxKeys = 2
    KeyHorizon = 4
    QuotaTasks = {w1, w2}
    DefaultLimit = 2
    MaxUnits = 2
    MaxQuotaOps = 4
    MaxQuotaCrashes = 1
    Activities <- MCActivities
    InboxTasks = {h1, h2}
    Locals = {"l1", "l2"}
    Remotes = {"r1"}
    MaxReceived = 4
    MaxInboxCrashes = 1
    Events <- MCEvents
    Requests <- MCRequests
    Publishers = {s1, s2}
    MaxEvents = 2
    LiveCapacity = 1
    MaxIngests = 3
    MaxFrames = 2
    Lines <- MCLines
    ChangedUris <- MCChanged
    ServerOrigins <- MCOrigins
    MaxSubs = 1
    OutboundCap = 2
    EventCap = 1
    MaxInputs = 4
    Plans <- MCPlans
    Provisioners = {"p1", "p2"}
    MaxProvisions = 3
    Reservers = {"h1", "h2"}
    Sizes = {1, 3, 7}
    TrackerQuotas <- MCTrackerQuotas
    InitialUses = {0, 2, 5}
    Word = 8
    MaxReserves = 5
INVARIANTS PushAuthorised RateLimitHonest CeremoniesSpentOnce StaleKeysBounded
    QuotaConverges InboxAppliedOnce RelayConsistent LegacyCovered ProvisioningSound
PROPERTY CgiAnswers
