--------------------- MODULE PromotionRedemptionProofs ----------------------
(***************************************************************************)
(* Proofs, for any bookings, codes, limits and members of the consumer     *)
(* group, that a code is used beyond its limit by no more than refunds     *)
(* gave away twice, and that a booking's discount is its redemption's.     *)
(*                                                                         *)
(* The argument for the limit: a code is applied to as many bookings as    *)
(* usedCount says, or fewer, when what was overdrawn is added: a refund    *)
(* that commits while its redemption is APPLIED takes one booking and one  *)
(* use away, and one that comes too late only a use, which is counted.     *)
(***************************************************************************)
EXTENDS PromotionRedemption, FiniteSetTheorems, TLAPS

(* An event's call is about the redemption its booking has.                *)
CallsAgree ==
    \A call \in calls : call.topic # "apply" =>
        /\ red[call.booking].code = call.code
        /\ red[call.booking].status # "none"

WithinLimit ==
    \A c \in Codes \ Unlimited :
        /\ Cardinality(AppliedTo(c)) <= used[c] + overdrawn[c]
        /\ used[c] <= Limit[c]

(* A redemption has a code, a booking without one has no discount.         *)
OneDiscount ==
    /\ DiscountIsRedemptions
    /\ \A b \in Journeys : IF red[b].status = "none" THEN red[b].code = "null"
                                                     ELSE red[b].code \in Codes

(* Only a booking that was paid for is announced as paid.                  *)
PaidEvents ==
    /\ \A e \in events : e.topic \in {"payment.succeeded", "booking.paid"} => e.booking \in paid
    /\ \A call \in calls : call.topic = "booking.paid" => call.booking \in paid
    /\ AppliedWasPaid

PromoInv == PromoTypeOK /\ CallsAgree /\ WithinLimit /\ OneDiscount /\ PaidEvents

-----------------------------------------------------------------------------
(* Counting bookings.                                                      *)

LEMMA AppliedFinite ==
    \A c : /\ IsFiniteSet(AppliedTo(c))
           /\ Cardinality(AppliedTo(c)) \in Nat
  <1> SUFFICES ASSUME NEW c
               PROVE  IsFiniteSet(AppliedTo(c)) /\ Cardinality(AppliedTo(c)) \in Nat
    OBVIOUS
  <1>1. AppliedTo(c) \in SUBSET Journeys
    BY DEF AppliedTo
  <1> QED
    BY <1>1, PromotionAssumption, FS_Subset, FS_CardinalityType

LEMMA Fewer ==
    ASSUME NEW S, IsFiniteSet(S), NEW T \in SUBSET S
    PROVE  /\ Cardinality(T) \in Nat /\ Cardinality(S) \in Nat
           /\ Cardinality(T) <= Cardinality(S)
  BY FS_Subset, FS_CardinalityType

LEMMA OneMore ==
    ASSUME NEW S, IsFiniteSet(S), NEW x, NEW T \in SUBSET (S \cup {x})
    PROVE  /\ Cardinality(T) \in Nat /\ Cardinality(S) \in Nat
           /\ Cardinality(T) <= Cardinality(S) + 1
  <1>1. /\ IsFiniteSet(S \cup {x})
        /\ Cardinality(S \cup {x}) = IF x \in S THEN Cardinality(S) ELSE Cardinality(S) + 1
    BY FS_AddElement
  <1>2. Cardinality(S) \in Nat
    BY FS_CardinalityType
  <1> QED
    BY <1>1, <1>2, Fewer

LEMMA OneLess ==
    ASSUME NEW S, IsFiniteSet(S), NEW x \in S, NEW T \in SUBSET (S \ {x})
    PROVE  /\ Cardinality(T) \in Nat /\ Cardinality(S) \in Nat
           /\ Cardinality(T) <= Cardinality(S) - 1
  <1>1. IsFiniteSet(S \ {x}) /\ Cardinality(S \ {x}) = Cardinality(S) - 1
    BY FS_RemoveElement
  <1>2. Cardinality(S) \in Nat
    BY FS_CardinalityType
  <1> QED
    BY <1>1, <1>2, Fewer

(* A step that uses no code and takes nothing back.                        *)
LEMMA LimitKept ==
    ASSUME PromoTypeOK, WithinLimit, used' = used, overdrawn' = overdrawn,
           \A c \in Codes : AppliedTo(c)' \subseteq AppliedTo(c)
    PROVE  WithinLimit'
  <1> SUFFICES ASSUME NEW c \in Codes \ Unlimited
               PROVE  /\ Cardinality(AppliedTo(c)') <= used[c] + overdrawn[c]
                      /\ used[c] <= Limit[c]
    BY DEF WithinLimit
  <1>1. /\ Cardinality(AppliedTo(c)') \in Nat
        /\ Cardinality(AppliedTo(c)) \in Nat
        /\ Cardinality(AppliedTo(c)') <= Cardinality(AppliedTo(c))
    BY AppliedFinite, Fewer
  <1>2. /\ Cardinality(AppliedTo(c)) <= used[c] + overdrawn[c]
        /\ used[c] <= Limit[c] /\ used[c] \in Nat /\ overdrawn[c] \in Nat
    BY DEF WithinLimit, PromoTypeOK
  <1> QED
    BY <1>1, <1>2

LEMMA InitPromo == PromoInit => PromoInv
  <1> SUFFICES ASSUME PromoInit
               PROVE  PromoInv
    OBVIOUS
  <1>1. PromoTypeOK
    BY DEF PromoInit, PromoTypeOK, NoRedemption, RedStatus
  <1>2. \A b \in Journeys : red[b] = NoRedemption /\ promo[b] = "null"
    BY DEF PromoInit
  <1>3. NoRedemption.status = "none" /\ NoRedemption.code = "null"
    BY DEF NoRedemption
  <1>4. CallsAgree /\ OneDiscount /\ PaidEvents
    BY <1>2, <1>3 DEF PromoInit, CallsAgree, OneDiscount, DiscountIsRedemptions, PaidEvents,
       AppliedWasPaid
  <1>5. WithinLimit
    <2> SUFFICES ASSUME NEW c \in Codes \ Unlimited
                 PROVE  /\ Cardinality(AppliedTo(c)) <= used[c] + overdrawn[c]
                        /\ used[c] <= Limit[c]
      BY DEF WithinLimit
    <2>1. AppliedTo(c) = {}
      BY <1>2, <1>3 DEF AppliedTo, PromoInit
    <2>2. used[c] = 0 /\ overdrawn[c] = 0 /\ Limit[c] \in Nat
      BY PromotionAssumption DEF PromoInit
    <2> QED
      BY <2>1, <2>2, FS_EmptySet
  <1> QED
    BY <1>1, <1>4, <1>5 DEF PromoInv

-----------------------------------------------------------------------------
(* Steps of the bookings, and of events that find nothing to do.           *)

LEMMA EventsKeep ==
    ASSUME PromoInv,
           stages' \in [Journeys -> {"none", "HOLD", "REVIEW", "SETTLED", "CANCELLED", "REFUNDED"}],
           events' \subseteq Event, paid' \subseteq Journeys, paid \subseteq paid',
           \A e \in events' : e.topic \in {"payment.succeeded", "booking.paid"}
                                => e.booking \in paid',
           UNCHANGED <<promo, red, used, calls, overdrawn>>
    PROVE  PromoInv'
  <1>1. PromoTypeOK'
    BY DEF PromoInv, PromoTypeOK
  <1>2. CallsAgree' /\ OneDiscount' /\ PaidEvents'
    BY DEF PromoInv, CallsAgree, OneDiscount, DiscountIsRedemptions, PaidEvents, AppliedWasPaid
  <1>3. \A c \in Codes : AppliedTo(c)' = AppliedTo(c)
    BY DEF AppliedTo
  <1>4. WithinLimit'
    BY <1>3, LimitKept DEF PromoInv
  <1> QED
    BY <1>1, <1>2, <1>4 DEF PromoInv

LEMMA MoveKeeps ==
    ASSUME PromoInv, NEW b \in Journeys, NEW from,
           NEW to \in {"HOLD", "REVIEW", "SETTLED", "CANCELLED", "REFUNDED"},
           NEW topics \in SUBSET SagaTopics, Move(b, from, to, topics),
           paid' \subseteq Journeys, paid \subseteq paid',
           topics \cap {"payment.succeeded", "booking.paid"} # {} => b \in paid'
    PROVE  PromoInv'
  <1>1. /\ stages' = [stages EXCEPT ![b] = to]
        /\ events' = events \cup Emitted(topics, b)
        /\ UNCHANGED <<promo, red, used, calls, overdrawn>>
    BY DEF Move
  <1>2. \A e \in Emitted(topics, b) : e \in Event /\ e.topic \in topics /\ e.booking = b
    BY DEF Emitted, Event
  <1>3. stages' \in [Journeys -> {"none", "HOLD", "REVIEW", "SETTLED", "CANCELLED", "REFUNDED"}]
    BY <1>1 DEF PromoInv, PromoTypeOK
  <1>4. events' \subseteq Event
    BY <1>1, <1>2 DEF PromoInv, PromoTypeOK
  <1>5. \A e \in events' : e.topic \in {"payment.succeeded", "booking.paid"} => e.booking \in paid'
    BY <1>1, <1>2 DEF PromoInv, PaidEvents
  <1> QED
    BY <1>1, <1>3, <1>4, <1>5, EventsKeep

LEMMA BookingKeeps ==
    ASSUME PromoInv, NEW b \in Journeys, BookingStep(b)
    PROVE  PromoInv'
  <1>1. paid' = paid /\ paid \subseteq Journeys
    BY DEF BookingStep, PromoInv, PromoTypeOK
  <1>2. ASSUME NEW from, NEW to \in {"HOLD", "REVIEW", "SETTLED", "CANCELLED", "REFUNDED"},
               NEW topics \in SUBSET GiveBackTopics, Move(b, from, to, topics)
        PROVE  PromoInv'
    <2>1. topics \in SUBSET SagaTopics /\ topics \cap {"payment.succeeded", "booking.paid"} = {}
      BY DEF SagaTopics, GiveBackTopics
    <2> QED
      BY <1>1, <1>2, <2>1, MoveKeeps
  <1>3. CASE \E to \in {"HOLD", "REVIEW"} : Move(b, {"none"}, to, {})
    BY <1>2, <1>3
  <1>4. CASE Move(b, {"HOLD"}, "CANCELLED", {"booking.cancelled"})
    <2>1. {"booking.cancelled"} \in SUBSET GiveBackTopics
      BY DEF GiveBackTopics
    <2> QED
      BY <1>2, <1>4, <2>1
  <1>5. CASE Move(b, {"REVIEW"}, "SETTLED", ApprovedTopics)
    BY <1>2, <1>5 DEF ApprovedTopics
  <1>6. CASE Move(b, {"REVIEW"}, "CANCELLED", {"booking.review_declined"})
    <2>1. {"booking.review_declined"} \in SUBSET GiveBackTopics
      BY DEF GiveBackTopics
    <2> QED
      BY <1>2, <1>6, <2>1
  <1>7. CASE \E to \in {"HOLD", "CANCELLED"} : Move(b, {"REVIEW"}, to, {})
    BY <1>2, <1>7
  <1>8. CASE Move(b, {"SETTLED"}, "REFUNDED", {"booking.refunded"})
    <2>1. {"booking.refunded"} \in SUBSET GiveBackTopics
      BY DEF GiveBackTopics
    <2> QED
      BY <1>2, <1>8, <2>1
  <1> QED
    BY <1>3, <1>4, <1>5, <1>6, <1>7, <1>8 DEF BookingStep

LEMMA PayKeeps ==
    ASSUME PromoInv, NEW b \in Journeys, Pay(b)
    PROVE  PromoInv'
  <1>1. paid' = paid \cup {b} /\ paid \subseteq Journeys
    BY DEF Pay, PromoInv, PromoTypeOK
  <1> DEFINE from == {"HOLD", "REVIEW", "SETTLED", "CANCELLED", "REFUNDED"}
  <1>2. PICK topics \in {{"payment.succeeded"}, {"payment.succeeded", "booking.paid"}} :
             Move(b, from, "SETTLED", topics)
    BY DEF Pay
  <1>3. topics \in SUBSET SagaTopics
    BY DEF SagaTopics
  <1> HIDE DEF from
  <1>4. /\ paid' \subseteq Journeys /\ paid \subseteq paid' /\ b \in paid'
        /\ "SETTLED" \in {"HOLD", "REVIEW", "SETTLED", "CANCELLED", "REFUNDED"}
    BY <1>1
  <1> QED
    BY <1>2, <1>3, <1>4, MoveKeeps

LEMMA EventKeeps ==
    ASSUME PromoInv, NEW e \in events, Bridge(e) \/ NoConcern(e)
    PROVE  PromoInv'
  <1>1. e \in Event /\ events \subseteq Event
    BY DEF PromoInv, PromoTypeOK
  <1>2. \A f \in Emitted({"booking.paid"}, e.booking) :
            f \in Event /\ f.topic = "booking.paid" /\ f.booking = e.booking
    BY <1>1 DEF Emitted, Event, SagaTopics
  <1>3. e.topic = "payment.succeeded" => e.booking \in paid
    BY DEF PromoInv, PaidEvents
  <1>4. UNCHANGED <<stages, promo, red, used, calls, paid, overdrawn>>
    BY DEF Bridge, NoConcern
  <1>5. \A f \in events' :
            \/ f \in events
            \/ e.topic = "payment.succeeded" /\ f \in Emitted({"booking.paid"}, e.booking)
    BY DEF Bridge, NoConcern, Rest
  <1>6. /\ events' \subseteq Event
        /\ \A f \in events' : f.topic \in {"payment.succeeded", "booking.paid"} => f.booking \in paid'
    BY <1>1, <1>2, <1>3, <1>4, <1>5 DEF PromoInv, PaidEvents
  <1> QED
    BY <1>4, <1>6, EventsKeep DEF PromoInv, PromoTypeOK

-----------------------------------------------------------------------------
(* Calls that begin and calls that end without effect.                     *)

LEMMA BeginApplyKeeps ==
    ASSUME PromoInv, NEW b \in Journeys, NEW c \in Codes, BeginApply(b, c)
    PROVE  PromoInv'
  <1> DEFINE call == [by |-> "guest", topic |-> "apply", booking |-> b, code |-> c, seen |-> "none"]
  <1>1. calls' = calls \cup {call} /\ UNCHANGED <<stages, promo, red, used, events, paid, overdrawn>>
    BY DEF BeginApply
  <1>2. call \in Call
    BY DEF Call, RedStatus
  <1>3. call.topic = "apply"
    OBVIOUS
  <1> HIDE DEF call
  <1>4. PromoTypeOK'
    BY <1>1, <1>2 DEF PromoInv, PromoTypeOK
  <1>5. CallsAgree'
    BY <1>1, <1>3 DEF PromoInv, CallsAgree
  <1>6. OneDiscount' /\ PaidEvents'
    BY <1>1, <1>3 DEF PromoInv, OneDiscount, DiscountIsRedemptions, PaidEvents, AppliedWasPaid
  <1>7. \A d \in Codes : AppliedTo(d)' \subseteq AppliedTo(d)
    BY <1>1, <1>3 DEF AppliedTo
  <1>8. WithinLimit'
    BY <1>1, <1>7, LimitKept DEF PromoInv
  <1> QED
    BY <1>4, <1>5, <1>6, <1>8 DEF PromoInv

LEMMA BeginCallKeeps ==
    ASSUME PromoInv, NEW m \in Members, NEW e \in events, BeginCall(m, e)
    PROVE  PromoInv'
  <1> DEFINE b == e.booking
             call == [by |-> m, topic |-> e.topic, booking |-> b, code |-> red[b].code,
                      seen |-> red[b].status]
  <1>1. /\ calls' = calls \cup {call}
        /\ events' \subseteq events
        /\ e.topic # "payment.succeeded"
        /\ Concerned(e)
        /\ UNCHANGED <<stages, promo, red, used, paid, overdrawn>>
    BY DEF BeginCall, Rest
  <1>2. e \in Event
    BY DEF PromoInv, PromoTypeOK
  <1>3. /\ b \in Journeys
        /\ e.topic \in {"booking.paid"} \cup GiveBackTopics
        /\ e.topic # "apply"
        /\ red[b].status \in RedStatus \ {"none"}
        /\ red[b].code \in Codes \cup {"null"}
    BY <1>1, <1>2 DEF Event, SagaTopics, GiveBackTopics, Concerned, PromoInv, PromoTypeOK, RedStatus
  <1>4. red[b].code \in Codes
    BY <1>3 DEF PromoInv, OneDiscount
  <1>5. call \in Call
    BY <1>3, <1>4 DEF Call
  <1>6. /\ call.topic = e.topic /\ call.booking = b
        /\ call.code = red[b].code /\ call.seen = red[b].status
    OBVIOUS
  <1> HIDE DEF call
  <1>7. PromoTypeOK'
    BY <1>1, <1>5 DEF PromoInv, PromoTypeOK
  <1>8. CallsAgree'
    BY <1>1, <1>3, <1>6 DEF PromoInv, CallsAgree
  <1>9. OneDiscount' /\ PaidEvents'
    BY <1>1, <1>6 DEF PromoInv, OneDiscount, DiscountIsRedemptions, PaidEvents, AppliedWasPaid
  <1>10. \A d \in Codes : AppliedTo(d)' \subseteq AppliedTo(d)
    BY <1>1, <1>6 DEF AppliedTo
  <1>11. WithinLimit'
    BY <1>1, <1>10, LimitKept DEF PromoInv
  <1> QED
    BY <1>7, <1>8, <1>9, <1>11 DEF PromoInv

LEMMA FailKeeps ==
    ASSUME PromoInv, NEW call \in calls, Fail(call)
    PROVE  PromoInv'
  <1>1. calls' = calls \ {call} /\ UNCHANGED <<stages, promo, red, used, events, paid, overdrawn>>
    BY DEF Fail
  <1>2. PromoTypeOK' /\ CallsAgree' /\ OneDiscount' /\ PaidEvents'
    BY <1>1 DEF PromoInv, PromoTypeOK, CallsAgree, OneDiscount, DiscountIsRedemptions, PaidEvents,
       AppliedWasPaid
  <1>3. \A d \in Codes : AppliedTo(d)' \subseteq AppliedTo(d)
    BY <1>1 DEF AppliedTo
  <1>4. WithinLimit'
    BY <1>1, <1>3, LimitKept DEF PromoInv
  <1> QED
    BY <1>2, <1>4 DEF PromoInv

-----------------------------------------------------------------------------
(* Calls that commit.                                                      *)

(* A redemption is created where there was none.                           *)
LEMMA CommitApplyKeeps ==
    ASSUME PromoInv, NEW call \in calls, CommitApply(call)
    PROVE  PromoInv'
  <1> DEFINE b == call.booking
             new == [status |-> "RESERVED", code |-> call.code]
  <1>1. /\ call.topic = "apply"
        /\ red[b].status = "none"
        /\ red' = [red EXCEPT ![b] = new]
        /\ promo' = [promo EXCEPT ![b] = call.code]
        /\ calls' = calls \ {call}
        /\ UNCHANGED <<stages, used, events, paid, overdrawn>>
    BY DEF CommitApply
  <1>2. b \in Journeys /\ call.code \in Codes
    BY DEF PromoInv, PromoTypeOK, Call
  <1>3. new \in [status: RedStatus, code: Codes \cup {"null"}]
    BY <1>2 DEF RedStatus
  <1>4. new.status = "RESERVED" /\ new.code = call.code
    OBVIOUS
  <1> HIDE DEF new
  <1>5. \A a \in Journeys : /\ red'[a] = IF a = b THEN new ELSE red[a]
                            /\ promo'[a] = IF a = b THEN call.code ELSE promo[a]
    BY <1>1 DEF PromoInv, PromoTypeOK
  <1>6. PromoTypeOK'
    BY <1>1, <1>2, <1>3 DEF PromoInv, PromoTypeOK
  <1>7. \A other \in calls : other.topic # "apply" => other.booking # b /\ other.booking \in Journeys
    BY <1>1 DEF PromoInv, CallsAgree, PromoTypeOK, Call
  <1>8. CallsAgree'
    BY <1>1, <1>5, <1>7 DEF PromoInv, CallsAgree
  <1>9. OneDiscount' /\ PaidEvents'
    BY <1>1, <1>2, <1>4, <1>5 DEF PromoInv, OneDiscount, DiscountIsRedemptions, PaidEvents, AppliedWasPaid
  <1>10. \A d \in Codes : AppliedTo(d)' \subseteq AppliedTo(d)
    BY <1>4, <1>5 DEF AppliedTo
  <1>11. WithinLimit'
    BY <1>1, <1>10, LimitKept DEF PromoInv
  <1> QED
    BY <1>6, <1>8, <1>9, <1>11 DEF PromoInv

(* What a committing event's call does to its booking and to the others.   *)
LEMMA EndKeeps ==
    ASSUME PromoInv, NEW call \in calls, NEW s \in RedStatus \ {"none"},
           call.topic # "apply",
           s = "APPLIED" => call.booking \in paid,
           red' = [red EXCEPT ![call.booking].status = s],
           promo' \in {promo, [promo EXCEPT ![call.booking] = "null"]},
           calls' = calls \ {call}, used' \in [Codes -> Nat],
           overdrawn' \in [Codes -> Nat],
           UNCHANGED <<stages, events, paid>>
    PROVE  /\ PromoTypeOK' /\ CallsAgree' /\ OneDiscount' /\ PaidEvents'
           /\ call.booking \in Journeys /\ call.code \in Codes
           /\ red[call.booking].code = call.code
           /\ \A a \in Journeys : /\ red'[a].code = red[a].code
                                  /\ a # call.booking => red'[a].status = red[a].status
           /\ red'[call.booking].status = s
  <1> DEFINE b == call.booking
  <1>1. /\ call \in Call /\ b \in Journeys /\ call.code \in Codes
        /\ red[b].code = call.code /\ red[b].status # "none"
    BY DEF PromoInv, PromoTypeOK, Call, CallsAgree
  <1>2. red \in [Journeys -> [status: RedStatus, code: Codes \cup {"null"}]]
    BY DEF PromoInv, PromoTypeOK
  <1>3. /\ red' \in [Journeys -> [status: RedStatus, code: Codes \cup {"null"}]]
        /\ \A a \in Journeys : /\ red'[a].code = red[a].code
                               /\ a # b => red'[a].status = red[a].status
        /\ red'[b].status = s
    BY <1>1, <1>2
  <1>4. calls' = calls \ {call} /\ events' = events
    OBVIOUS
  <1>6. \A a \in Journeys : promo'[a] \in {promo[a], "null"} /\ promo'[a] \in Codes \cup {"null"}
    BY <1>1 DEF PromoInv, PromoTypeOK
  <1>7. promo' \in [Journeys -> Codes \cup {"null"}]
    BY <1>1 DEF PromoInv, PromoTypeOK
  <1>8. PromoTypeOK'
    BY <1>3, <1>4, <1>7 DEF PromoInv, PromoTypeOK
  <1>9. CallsAgree'
    <2>1. \A other \in calls' : other \in calls /\ other.booking \in Journeys
      BY <1>4 DEF PromoInv, PromoTypeOK, Call
    <2>2. \A a \in Journeys : red[a].status # "none" => red'[a].status # "none"
      BY <1>3
    <2> QED
      BY <1>3, <2>1, <2>2 DEF PromoInv, CallsAgree
  <1>10. OneDiscount'
    <2>1. DiscountIsRedemptions'
      BY <1>3, <1>6 DEF PromoInv, OneDiscount, DiscountIsRedemptions
    <2>2. ASSUME NEW a \in Journeys
          PROVE  IF red'[a].status = "none" THEN red'[a].code = "null" ELSE red'[a].code \in Codes
      <3>1. CASE a = b
        BY <1>1, <1>3, <3>1
      <3>2. CASE a # b
        BY <1>3, <3>2 DEF PromoInv, OneDiscount
      <3> QED
        BY <3>1, <3>2
    <2> QED
      BY <2>1, <2>2 DEF OneDiscount
  <1>11. PaidEvents'
    <2>1. \A e \in events' : e.topic \in {"payment.succeeded", "booking.paid"} => e.booking \in paid
      BY <1>4 DEF PromoInv, PaidEvents
    <2>2. AppliedWasPaid'
      BY <1>3 DEF PromoInv, PaidEvents, AppliedWasPaid
    <2> QED
      BY <1>4, <2>1, <2>2 DEF PromoInv, PaidEvents
  <1> QED
    BY <1>1, <1>3, <1>8, <1>9, <1>10, <1>11

LEMMA CommitConfirmKeeps ==
    ASSUME PromoInv, NEW call \in calls, CommitConfirm(call)
    PROVE  PromoInv'
  <1> DEFINE b == call.booking
             c == call.code
  <1>1. /\ call.topic = "booking.paid" /\ calls' = calls \ {call}
        /\ UNCHANGED <<stages, promo, events, paid, overdrawn>>
    BY DEF CommitConfirm
  <1>2. b \in paid /\ c \in Codes /\ used \in [Codes -> Nat] /\ overdrawn \in [Codes -> Nat]
    BY <1>1 DEF PromoInv, PaidEvents, PromoTypeOK, Call
  <1>3. CASE /\ RoomLeft(c)
             /\ used' = [used EXCEPT ![c] = @ + 1]
             /\ red' = [red EXCEPT ![b].status = "APPLIED"]
    <2>1. used' \in [Codes -> Nat]
      BY <1>2, <1>3
    <2>0. /\ "APPLIED" \in RedStatus \ {"none"} /\ call.topic # "apply"
          /\ promo' \in {promo, [promo EXCEPT ![call.booking] = "null"]}
          /\ red' = [red EXCEPT ![call.booking].status = "APPLIED"]
      BY <1>1, <1>3 DEF RedStatus
    <2>2. /\ PromoTypeOK' /\ CallsAgree' /\ OneDiscount' /\ PaidEvents'
          /\ \A a \in Journeys : /\ red'[a].code = red[a].code
                                 /\ a # b => red'[a].status = red[a].status
          /\ red[b].code = c
      BY <1>1, <1>2, <2>0, <2>1, EndKeeps
    <2>3. ASSUME NEW d \in Codes \ Unlimited
          PROVE  /\ Cardinality(AppliedTo(d)') <= used'[d] + overdrawn[d]
                 /\ used'[d] <= Limit[d]
      <3>1. /\ Cardinality(AppliedTo(d)) <= used[d] + overdrawn[d]
            /\ used[d] <= Limit[d] /\ used[d] \in Nat /\ overdrawn[d] \in Nat
        BY DEF PromoInv, WithinLimit, PromoTypeOK
      <3>2. CASE d = c
        <4>1. AppliedTo(d)' \subseteq AppliedTo(d) \cup {b}
          BY <2>2 DEF AppliedTo
        <4>2. /\ Cardinality(AppliedTo(d)') \in Nat /\ Cardinality(AppliedTo(d)) \in Nat
              /\ Cardinality(AppliedTo(d)') <= Cardinality(AppliedTo(d)) + 1
          BY <4>1, AppliedFinite, OneMore
        <4>3. used'[d] = used[d] + 1
          BY <1>2, <1>3, <3>2
        <4>4. used[d] < Limit[d] /\ Limit[d] \in Nat
          BY <1>3, <3>2, PromotionAssumption DEF RoomLeft
        <4> QED
          BY <3>1, <4>2, <4>3, <4>4
      <3>3. CASE d # c
        <4>1. AppliedTo(d)' \subseteq AppliedTo(d)
          BY <2>2, <3>3 DEF AppliedTo
        <4>2. /\ Cardinality(AppliedTo(d)') \in Nat /\ Cardinality(AppliedTo(d)) \in Nat
              /\ Cardinality(AppliedTo(d)') <= Cardinality(AppliedTo(d))
          BY <4>1, AppliedFinite, Fewer
        <4>3. used'[d] = used[d]
          BY <1>2, <1>3, <3>3
        <4> QED
          BY <3>1, <4>2, <4>3
      <3> QED
        BY <3>2, <3>3
    <2>4. WithinLimit'
      BY <1>1, <2>3 DEF WithinLimit
    <2> QED
      BY <2>2, <2>4 DEF PromoInv
  <1>4. CASE used' = used /\ red' = [red EXCEPT ![b].status = "RELEASED"]
    <2>0. /\ "RELEASED" \in RedStatus \ {"none"} /\ call.topic # "apply"
          /\ ("RELEASED" = "APPLIED" => call.booking \in paid)
          /\ promo' \in {promo, [promo EXCEPT ![call.booking] = "null"]}
          /\ red' = [red EXCEPT ![call.booking].status = "RELEASED"]
          /\ used' \in [Codes -> Nat] /\ overdrawn' \in [Codes -> Nat] /\ overdrawn' = overdrawn
      BY <1>1, <1>2, <1>4 DEF RedStatus
    <2>1. /\ PromoTypeOK' /\ CallsAgree' /\ OneDiscount' /\ PaidEvents'
          /\ \A a \in Journeys : /\ red'[a].code = red[a].code
                                 /\ a # b => red'[a].status = red[a].status
          /\ red'[b].status = "RELEASED"
      BY <1>1, <2>0, EndKeeps
    <2>2. \A d \in Codes : AppliedTo(d)' \subseteq AppliedTo(d)
      BY <2>1 DEF AppliedTo
    <2>3. WithinLimit'
      BY <1>4, <2>0, <2>2, LimitKept DEF PromoInv
    <2> QED
      BY <2>1, <2>3 DEF PromoInv
  <1> QED
    BY <1>3, <1>4 DEF CommitConfirm

LEMMA CommitReleaseKeeps ==
    ASSUME PromoInv, NEW call \in calls, CommitRelease(call)
    PROVE  PromoInv'
  <1> DEFINE b == call.booking
             c == call.code
  <1>1. /\ call.topic \in GiveBackTopics
        /\ red' = [red EXCEPT ![b].status = "RELEASED"]
        /\ used' = [used EXCEPT ![c] = IF ReturnsUse(call) THEN @ - 1 ELSE @]
        /\ overdrawn' = [overdrawn EXCEPT ![c] = IF Overdraws(call) THEN @ + 1 ELSE @]
        /\ promo' = [promo EXCEPT ![b] = "null"]
        /\ calls' = calls \ {call}
        /\ UNCHANGED <<stages, events, paid>>
    BY DEF CommitRelease
  <1>2. call.topic # "apply"
    BY <1>1 DEF GiveBackTopics
  <1>3. /\ c \in Codes /\ used \in [Codes -> Nat] /\ overdrawn \in [Codes -> Nat]
        /\ (ReturnsUse(call) => used[c] > 0)
    BY DEF PromoInv, PromoTypeOK, Call, ReturnsUse
  <1>4. used' \in [Codes -> Nat] /\ overdrawn' \in [Codes -> Nat]
    BY <1>1, <1>3
  <1>0. /\ "RELEASED" \in RedStatus \ {"none"}
        /\ ("RELEASED" = "APPLIED" => call.booking \in paid)
        /\ promo' \in {promo, [promo EXCEPT ![call.booking] = "null"]}
        /\ red' = [red EXCEPT ![call.booking].status = "RELEASED"]
        /\ calls' = calls \ {call}
        /\ UNCHANGED <<stages, events, paid>>
    BY <1>1 DEF RedStatus
  <1>5. /\ PromoTypeOK' /\ CallsAgree' /\ OneDiscount' /\ PaidEvents'
        /\ b \in Journeys /\ red[b].code = c
        /\ \A a \in Journeys : /\ red'[a].code = red[a].code
                               /\ a # b => red'[a].status = red[a].status
        /\ red'[b].status = "RELEASED"
    BY <1>0, <1>2, <1>4, EndKeeps
  <1>6. \A d \in Codes : AppliedTo(d)' \subseteq AppliedTo(d)
    BY <1>5 DEF AppliedTo
  <1>7. ASSUME NEW d \in Codes \ Unlimited
        PROVE  /\ Cardinality(AppliedTo(d)') <= used'[d] + overdrawn'[d]
               /\ used'[d] <= Limit[d]
    <2>1. /\ Cardinality(AppliedTo(d)) <= used[d] + overdrawn[d]
          /\ used[d] <= Limit[d] /\ used[d] \in Nat /\ overdrawn[d] \in Nat
      BY DEF PromoInv, WithinLimit, PromoTypeOK
    <2>2. Limit[d] \in Nat
      BY PromotionAssumption
    <2>3. /\ Cardinality(AppliedTo(d)') \in Nat /\ Cardinality(AppliedTo(d)) \in Nat
          /\ Cardinality(AppliedTo(d)') <= Cardinality(AppliedTo(d))
      BY <1>6, AppliedFinite, Fewer
    <2>4. CASE d # c \/ ~ReturnsUse(call)
      <3>1. used'[d] = used[d]
        BY <1>1, <1>3, <2>4
      <3>2. overdrawn'[d] = overdrawn[d]
        BY <1>1, <1>3, <2>4 DEF Overdraws
      <3> QED
        BY <2>1, <2>2, <2>3, <3>1, <3>2
    <2>5. CASE d = c /\ ReturnsUse(call) /\ red[b].status = "APPLIED"
      <3>1. b \in AppliedTo(d) /\ AppliedTo(d)' \subseteq AppliedTo(d) \ {b}
        BY <1>5, <1>6, <2>5 DEF AppliedTo
      <3>2. Cardinality(AppliedTo(d)') <= Cardinality(AppliedTo(d)) - 1
        BY <3>1, AppliedFinite, OneLess
      <3>3. used'[d] = used[d] - 1
        BY <1>1, <1>3, <2>5
      <3>4. overdrawn'[d] = overdrawn[d]
        BY <1>1, <1>3, <2>5 DEF Overdraws
      <3> QED
        BY <2>1, <2>2, <2>3, <3>2, <3>3, <3>4
    <2>6. CASE d = c /\ ReturnsUse(call) /\ red[b].status # "APPLIED"
      <3>1. used'[d] = used[d] - 1
        BY <1>1, <1>3, <2>6
      <3>2. overdrawn'[d] = overdrawn[d] + 1
        BY <1>1, <1>3, <2>6 DEF Overdraws
      <3> QED
        BY <2>1, <2>2, <2>3, <3>1, <3>2
    <2> QED
      BY <2>4, <2>5, <2>6
  <1>8. WithinLimit'
    BY <1>7 DEF WithinLimit
  <1> QED
    BY <1>5, <1>8 DEF PromoInv

-----------------------------------------------------------------------------

(* PromoInv is inductive.                                                  *)
THEOREM PromoInvariant == PromoSpec => []PromoInv
  <1>1. PromoInv /\ [PromoNext]_promoVars => PromoInv'
    <2> SUFFICES ASSUME PromoInv, [PromoNext]_promoVars
                 PROVE  PromoInv'
      OBVIOUS
    <2>1. ASSUME NEW b \in Journeys,
                 BookingStep(b) \/ Pay(b) \/ \E c \in Codes : BeginApply(b, c)
          PROVE  PromoInv'
      BY <2>1, BookingKeeps, PayKeeps, BeginApplyKeeps
    <2>2. ASSUME NEW e \in events,
                 Bridge(e) \/ NoConcern(e) \/ \E m \in Members : BeginCall(m, e)
          PROVE  PromoInv'
      BY <2>2, EventKeeps, BeginCallKeeps
    <2>3. ASSUME NEW call \in calls,
                 CommitApply(call) \/ CommitConfirm(call) \/ CommitRelease(call) \/ Fail(call)
          PROVE  PromoInv'
      BY <2>3, CommitApplyKeeps, CommitConfirmKeeps, CommitReleaseKeeps, FailKeeps
    <2>4. CASE UNCHANGED promoVars
      BY <2>4, EventsKeep DEF promoVars, PromoInv, PromoTypeOK, PaidEvents
    <2> QED
      BY <2>1, <2>2, <2>3, <2>4 DEF PromoNext
  <1> QED
    BY InitPromo, <1>1, PTL DEF PromoSpec

(* The types of the state; in particular usedCount never drops below zero. *)
THEOREM PromotionTyped == PromoSpec => []PromoTypeOK
  <1>1. PromoInv => PromoTypeOK
    BY DEF PromoInv
  <1> QED
    BY PromoInvariant, <1>1, PTL

(* A code is applied to more bookings than its usageLimit only by as many  *)
(* as refunds gave away.                                                   *)
THEOREM LimitHolds == PromoSpec => []FirstPaidWins
  <1>1. PromoInv => FirstPaidWins
    <2> SUFFICES ASSUME PromoInv, NEW c \in Codes \ Unlimited
                 PROVE  Cardinality(AppliedTo(c)) <= Limit[c] + overdrawn[c]
      BY DEF FirstPaidWins
    <2>1. /\ Cardinality(AppliedTo(c)) <= used[c] + overdrawn[c]
          /\ used[c] <= Limit[c] /\ used[c] \in Nat /\ overdrawn[c] \in Nat
      BY DEF PromoInv, WithinLimit, PromoTypeOK
    <2>2. Limit[c] \in Nat /\ Cardinality(AppliedTo(c)) \in Nat
      BY PromotionAssumption, AppliedFinite
    <2> QED
      BY <2>1, <2>2
  <1> QED
    BY PromoInvariant, <1>1, PTL

(* The discount on a booking is that of its one redemption.                *)
THEOREM DiscountHolds == PromoSpec => []DiscountIsRedemptions
  <1>1. PromoInv => DiscountIsRedemptions
    BY DEF PromoInv, OneDiscount
  <1> QED
    BY PromoInvariant, <1>1, PTL

(* A code is used up by paid bookings only.                                *)
THEOREM AppliedPaid == PromoSpec => []AppliedWasPaid
  <1>1. PromoInv => AppliedWasPaid
    BY DEF PromoInv, PaidEvents
  <1> QED
    BY PromoInvariant, <1>1, PTL
=============================================================================
