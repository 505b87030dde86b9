CONSTANTS
    s1 = s1
    t1 = t1
    MaxEvents = 2
    Streams = {s1}
    Topics = {t1}
    StreamOf <- MCOneStream
    TopicOf <- MCTopicOf
    Processes = {p1, p2}
    Batch = 2
    MaxLog = 6
    MaxFaults = 2
    Members = {m1, m2}
SPECIFICATION RelayLiveSpec
INVARIANTS
    OffsetMeansHandled
    NothingLost
    FirstCopiesInOrder
PROPERTIES
    DeliversEvents
    RecordedIsDone
    EveryEventHandled
CHECK_DEADLOCK FALSE
