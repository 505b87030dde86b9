CONSTANTS
    Bookings = {b1}
    Admins = {}
    FraudReviewers = {}
    AutoDeclineHigh = TRUE
    ServerZone = "UTC"
    Blocked = {}
    Days <- MCDays
    Stays <- MCStays
    Capacity <- MCOneRoom
CONSTANTS
    Provider = "MOCK"
    AutoConfirm = TRUE
    CsrfEnabled = FALSE
    Workers = {w1, w2}
    MaxIntents = 1
    MaxRefunds = 2
SPECIFICATION PayLiveSpec
CHECK_DEADLOCK FALSE
PROPERTIES
    RefundedStaysRefunded
    MoneyAnnounced
