CONSTANTS
    j1 = j1
    c1 = c1
    Journeys = {j1, j2, j3}
    Codes = {c1, c2}
    Members = {m1, m2}
    Limit <- MCLimit
    Eligible <- MCEligible
    Unlimited = {c2}
SPECIFICATION PromoSpec
INVARIANTS
    FirstPaidWins
    DiscountIsRedemptions
CONSTRAINT FewOpen
SYMMETRY MCSymmetry
CHECK_DEADLOCK FALSE
