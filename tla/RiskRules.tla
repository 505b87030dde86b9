----------------------------- MODULE RiskRules ------------------------------
(***************************************************************************)
(* FraudService.assess, as hold calls it: four grounds are worth points,   *)
(* and the sum says whether a booking is held or looked at first.  The     *)
(* rules read through a connection of their own, not in the transaction of *)
(* the hold: a booking under way is not counted by another one's.          *)
(* Holds of the same property and nights wait for each other, so that the  *)
(* bids here are for different ones.                                       *)
(***************************************************************************)
EXTENDS Integers, FiniteSets

CONSTANTS
    Bids,       \* holds a guest may have under way at a time
    MaxOther    \* bound: bookings of a day that are not quiet

ASSUME RiskAssumption == IsFiniteSet(Bids) /\ MaxOther \in Nat

VARIABLES
    guest,      \* the account is young; a payment of the week FAILED
    dayRows,    \* the guest's bookings of the last 24 hours: placed with a low count, or not
    bid         \* where each hold is, and what it was assessed on

riskVars == <<guest, dayRows, bid>>

HoldsThreshold == 5
Points == [new |-> 20, holds |-> 25, pays |-> 30, amount |-> 10]
NoBid == [at |-> "none", grounds |-> {}, level |-> "LOW"]

RiskInit ==
    /\ guest \in [young : BOOLEAN, failed : {FALSE}]
    /\ dayRows = [quiet |-> 0, other |-> 0]
    /\ bid = [b \in Bids |-> NoBid]

-----------------------------------------------------------------------------

Level(grounds) ==
    LET points(g) == IF g \in grounds THEN Points[g] ELSE 0
        score == points("new") + points("holds") + points("pays") + points("amount")
    IN  IF score >= 60 THEN "HIGH" ELSE IF score >= 40 THEN "MEDIUM" ELSE "LOW"

(* ruleNewUser, ruleManyHoldsRecently, ruleRecentPaymentFails and          *)
(* ruleHighAmount.  Each reads another table, and none is read twice.      *)
RiskGrounds(dear) ==
    {g \in DOMAIN Points :
        \/ g = "new" /\ guest.young
        \/ g = "holds" /\ dayRows.quiet + dayRows.other >= HoldsThreshold
        \/ g = "pays" /\ guest.failed
        \/ g = "amount" /\ dear}

(* The flag fraud_check is off for this guest: nothing is assessed.        *)
Skip(b) ==
    /\ bid[b].at = "none"
    /\ bid' = [bid EXCEPT ![b] = [at |-> "skipped", grounds |-> {}, level |-> "LOW"]]
    /\ UNCHANGED <<guest, dayRows>>

Assess(b, dear) ==
    /\ bid[b].at = "none"
    /\ bid' = [bid EXCEPT ![b] =
           [at |-> "assessed", grounds |-> RiskGrounds(dear), level |-> Level(RiskGrounds(dear))]]
    /\ UNCHANGED <<guest, dayRows>>

IsQuiet(b) == bid[b].at = "assessed" /\ "holds" \notin bid[b].grounds

(* The transaction commits: a row whatever the level, CANCELLED ones too.  *)
Place(b) ==
    /\ bid[b].at # "none"
    /\ IsQuiet(b) \/ dayRows.other < MaxOther
    /\ dayRows' = IF IsQuiet(b) THEN [dayRows EXCEPT !.quiet = @ + 1]
                                ELSE [dayRows EXCEPT !.other = @ + 1]
    /\ bid' = [bid EXCEPT ![b] = NoBid]
    /\ UNCHANGED guest

(* "Race condition on inventory", or another error after the assessment.   *)
LoseBid(b) ==
    /\ bid[b].at # "none"
    /\ bid' = [bid EXCEPT ![b] = NoBid]
    /\ UNCHANGED <<guest, dayRows>>

PaymentFails ==
    /\ dayRows.quiet + dayRows.other > 0
    /\ guest' = [guest EXCEPT !.failed = TRUE]
    /\ UNCHANGED <<dayRows, bid>>

AccountAges ==
    /\ guest.young
    /\ guest' = [guest EXCEPT !.young = FALSE]
    /\ UNCHANGED <<dayRows, bid>>

FailureAges ==
    /\ guest.failed
    /\ guest' = [guest EXCEPT !.failed = FALSE]
    /\ UNCHANGED <<dayRows, bid>>

(* createdAt is when the transaction began: rows do not age in the order   *)
(* in which they were committed.                                           *)
RowAges ==
    /\ \E kind \in {"quiet", "other"} :
          dayRows[kind] > 0 /\ dayRows' = [dayRows EXCEPT ![kind] = @ - 1]
    /\ UNCHANGED <<guest, bid>>

RiskNext ==
    \/ \E b \in Bids : Skip(b) \/ Place(b) \/ LoseBid(b) \/ \E dear \in BOOLEAN : Assess(b, dear)
    \/ PaymentFails \/ AccountAges \/ FailureAges \/ RowAges

RiskSpec == RiskInit /\ [][RiskNext]_riskVars

-----------------------------------------------------------------------------

QuietUnderWay == Cardinality({b \in Bids : IsQuiet(b)})

RiskTypeOK ==
    /\ guest \in [young : BOOLEAN, failed : BOOLEAN]
    /\ dayRows \in [quiet : 0..(HoldsThreshold + Cardinality(Bids)), other : 0..MaxOther]
    /\ bid \in [Bids -> [at : {"none", "skipped", "assessed"}, grounds : SUBSET DOMAIN Points,
                         level : {"LOW", "MEDIUM", "HIGH"}]]

(* The levels in words: no ground is enough alone, only a failed payment   *)
(* with two other grounds is HIGH, and without one it takes a new account  *)
(* that books a lot.                                                       *)
LevelWeighs ==
    \A b \in Bids :
        LET G == bid[b].grounds
        IN  /\ bid[b].level = "HIGH" <=> "pays" \in G /\ Cardinality(G) >= 3
            /\ bid[b].level = "MEDIUM" <=> \/ "pays" \in G /\ Cardinality(G) = 2
                                           \/ "pays" \notin G /\ {"new", "holds"} \subseteq G

(* However its holds interleave, roll back and age, a guest has at most    *)
(* four bookings a day that were placed without the fifth one's ground,    *)
(* and one more for each hold under way at the same time.                  *)
QuietBounded == dayRows.quiet + QuietUnderWay <= HoldsThreshold - 1 + Cardinality(Bids)
=============================================================================
