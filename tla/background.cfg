CONSTANTS
    Mails = {m1}
    Inapps = {ia1}
    Workers = {w1, w2}
    MaxMishaps = 3
    MaxRetries = 1
    Jobs = {j1, j2}
    MaxFiles = 2
    MaxPuts = 2
    FileTopics = TRUE
    Renditions = {k1, k2}
    TopicPrefix = ""
    MaxBreaks = 1
    Indexers = {ix1, ix2}
    MaxRatings = 2
    MaxFailures = 2
    People = {"u1"}
    Rollouts = {0, 50, 100}
    Askers = {q1}
    MaxUpserts = 2
    Tasks = {t1, t2}
    MaxTrouble = 2
    Instances = {i1, i2}
    OpenHolds = {h1, h2}
    BatchSize = 1
    MaxStops = 2
    Clerks = {clerk1}
    MaxBroken = 2
    Subscribed = {tp1, tp2}
    MaxPublished = 2
    MaxStarts = 2
CONSTANT Bucket <- MCBucket
SPECIFICATION BackgroundSpec
INVARIANTS
    WorkSafe
    CopiesSafe
PROPERTIES
    WorkGetsDone
    FlagServed
    RequestsSettle
CHECK_DEADLOCK FALSE
