CONSTANTS
    Bookings = {b1, b2}
    Admins = {}
    FraudReviewers = {}
    AutoDeclineHigh = FALSE
    ServerZone = "UTC"
    Blocked = {}
    Panels = {p1}
    Attempts = {a1, a2, a3}
    MaxFails = 5
    Tabs = {c1, c2}
    MaxAttempts = 1
    MaxSecrets = 2
    BackupCodes = {bc1}
    Photos = {f1, f2, f3}
    Uploaders = {up1, up2}
    Members = {m1, m2}
    Texts = {t1, t2}
    MaxTime = 2
    Reviewed = {k1, k2}
    Authors = {au1, au2}
    Ratings = {1, 5}
    User = u
    Roles = {r1}
    Perms = {manage}
    Checks = {q1, q2}
    MaxBumps = 1
    MaxLosses = 1
    Servers = {"s1", "s2"}
    BucketSize = 4
    Cost = 2
    MaxClock = 12
    MaxReversed = 3
    PageStays = {h1, h2}
    MaxFetches = 1
    MaxChanges = 1
    FormTabs = {ft1}
    Fields = {title, address}
    Values = {v1, v2}
    MaxWrites = 3
    Ranges = {rg1, rg2}
    MaxInputs = 3
    MaxFailures = 1
    Convs = {cv1, cv2, cv3, cv4}
    PageSize = 2
    MaxMoves = 2
    MaxEdits = 3
    Calls = {call1}
    MaxSubmits = 1
    PageTabs = {tab1, tab2}
    MaxMinted = 2
    MaxPosts = 2
    MaxLost = 1
    Bids = {bid1, bid2}
    MaxOther = 5
    Price = 99
    Least = {0, 100}
    MaxLead = 2
    MaxRevisions = 2
CONSTANTS
    Days <- MCDays
    Stays <- MCStays
    Capacity <- MCCapacity
    Rooms <- MCRooms
    Skew <- MCSkew
    Needs <- MCNeeds
    Pool <- MCPool
    Policies <- MCPolicies
    Offered <- MCOffered
SPECIFICATION RequestsSpec
INVARIANTS
    SignInSafe
    GuardsSafe
    HostSafe
    ListingSafe
    ChatSafe
    PagesHonest
PROPERTIES
    BlockedStaysUnsold
    SavesOnlyTyped
CHECK_DEADLOCK FALSE
