CONSTANTS
    Bookings = {b1}
    Admins = {}
    FraudReviewers = {}
    AutoDeclineHigh = FALSE
    ServerZone = "UTC"
    Blocked = {}
    Days <- MCDays
    Stays <- MCStays
    Capacity <- MCOneRoom
CONSTANTS
    Provider = "VNPAY"
    AutoConfirm = TRUE
    CsrfEnabled = TRUE
    Workers = {w1}
    MaxIntents = 1
    MaxRefunds = 0
SPECIFICATION PaySpec
CHECK_DEADLOCK FALSE
PROPERTY ExpiredGivesUpNights
