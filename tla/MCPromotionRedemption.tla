----------------------- MODULE MCPromotionRedemption ------------------------
EXTENDS PromotionRedemption, TLC

CONSTANTS j1, c1

(* Every code may be used once.                                            *)
MCLimit == [c \in Codes |-> 1]

(* All bookings may use c1, and j1 may use c2 as well.                     *)
MCEligible == [c \in Codes |-> {j \in Journeys : c = c1 \/ j = j1}]

(* At most so many events wait and calls are under way at the same time.   *)
MaxOpen == 2

FewOpen == Cardinality(events) + Cardinality(calls) <= MaxOpen

MCSymmetry == Permutations(Journeys \ {j1}) \cup Permutations(Members)
=============================================================================
