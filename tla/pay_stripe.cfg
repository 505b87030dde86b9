CONSTANTS
    Bookings = {b1}
    Admins = {a1}
    FraudReviewers = {}
    AutoDeclineHigh = TRUE
    ServerZone = "UTC"
    Blocked = {}
    Days <- MCDays
    Stays <- MCStays
    Capacity <- MCOneRoom
CONSTANTS
    Provider = "STRIPE"
    AutoConfirm = FALSE
    CsrfEnabled = FALSE
    Workers = {w1, w2}
    MaxIntents = 1
    MaxRefunds = 1
SPECIFICATION PaySpec
CHECK_DEADLOCK FALSE
INVARIANTS
    OneEffectPerEvent
    PaidOrApproved
