CONSTANTS
    Bookings = {b1, b2, b3, b4}
    Admins = {}
    FraudReviewers = {}
    AutoDeclineHigh = TRUE
    ServerZone = "UTC"
CONSTANTS
    Days <- MCDays
    Stays <- MCStays
    Capacity <- MCTwoRooms
    Blocked = {}
SPECIFICATION Spec
PROPERTY ImplementsCalendar
CHECK_DEADLOCK FALSE
