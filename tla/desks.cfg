CONSTANTS
    Bookings = {b1, b2}
    Admins = {a1}
    FraudReviewers = {f1, f2}
    AutoDeclineHigh = TRUE
    ServerZone = "UTC"
CONSTANTS
    Days <- MCDays
    Stays <- MCStays
    Capacity <- MCTwoRooms
    Blocked = {3}
SPECIFICATION LiveSpec
INVARIANTS
    NoLostNights
    ConservedUnlessStale
    HoldHasDeadline
    VerdictMatchesStatus
PROPERTIES
    VerdictIsFinal
    EveryHoldEnds
CHECK_DEADLOCK FALSE
