------------------------ MODULE PromotionRedemption -------------------------
(***************************************************************************)
(* PromotionService.applyOnHold, confirmOnPaid and                         *)
(* releaseOnCancelOrExpire, the last two called by SagaCoordinator for the *)
(* events of the bookings.  The life of a booking is that of               *)
(* BookingInventory and BookingPayments, reduced to what decides the       *)
(* events; PAID and CONFIRMED are SETTLED here.                            *)
(*                                                                         *)
(* A call reads the redemption or the booking without a lock and writes it *)
(* by id when it commits.  A member of the consumer group handles one      *)
(* message at a time.  Two members may be at work for one topic and        *)
(* booking: its two emitters use keys, hence partitions, of their own, and *)
(* a rebalance or a crash brings a message back.  The saga swallows the    *)
(* errors of a call.                                                       *)
(***************************************************************************)
EXTENDS Integers, FiniteSets

CONSTANTS
    Journeys,   \* bookings
    Codes,      \* promotions, by code
    Members,    \* members of the saga's consumer group
    Limit,      \* Limit[c]: Promotion.usageLimit
    Unlimited,  \* the promotions whose usageLimit is null
    Eligible    \* Eligible[c]: the bookings of c's minNights and minTotal

ASSUME PromotionAssumption ==
    /\ IsFiniteSet(Journeys)
    /\ Limit \in [Codes -> Nat]
    /\ Unlimited \subseteq Codes
    /\ Eligible \in [Codes -> SUBSET Journeys]
    /\ "null" \notin Codes
    /\ "guest" \notin Members

VARIABLES
    stages,  \* Booking.status
    promo,   \* Booking.promoCode (with discountAmount, appliedPromotionId)
    red,     \* PromotionRedemption of each booking: its status and code
    used,    \* Promotion.usedCount
    events,  \* events of a topic and a booking that the saga has to handle
    calls,   \* transactions between their read and their commit
    paid,    \* history: the bookings that were paid for
    overdrawn \* history: uses given back for a redemption that had none left

promoVars == <<stages, promo, red, used, events, calls, paid, overdrawn>>

(* A hold is either cancelled or expires, and the saga does the same for   *)
(* both: booking.cancelled is booking.expired as well.                     *)
GiveBackTopics == {"booking.cancelled", "booking.review_declined", "booking.refunded"}
SagaTopics == GiveBackTopics \cup {"payment.succeeded", "booking.paid"}
Event == [topic: SagaTopics, booking: Journeys]
RedStatus == {"none", "RESERVED", "APPLIED", "RELEASED"}
NoRedemption == [status |-> "none", code |-> "null"]

(* topic: "apply" for a request of the guest, else that of the event.      *)
Call == [by: Members \cup {"guest"}, topic: {"apply", "booking.paid"} \cup GiveBackTopics,
         booking: Journeys, code: Codes, seen: RedStatus]

PromoInit ==
    /\ stages = [b \in Journeys |-> "none"]
    /\ promo = [b \in Journeys |-> "null"]
    /\ red = [b \in Journeys |-> NoRedemption]
    /\ used = [c \in Codes |-> 0]
    /\ events = {}
    /\ calls = {}
    /\ paid = {}
    /\ overdrawn = [c \in Codes |-> 0]

Emitted(topics, b) == [topic: topics, booking: {b}]

-----------------------------------------------------------------------------
(* The life of a booking, and the events the saga listens to.  The topic   *)
(* booking.review_rejected of FraudService.decide is not among them.       *)

Move(b, from, to, topics) ==
    /\ stages[b] \in from
    /\ stages' = [stages EXCEPT ![b] = to]
    /\ events' = events \cup Emitted(topics, b)
    /\ UNCHANGED <<promo, red, used, calls, overdrawn>>

(* For an approval the saga mails the invoice and leaves the code alone.   *)
ApprovedTopics == {}

BookingStep(b) ==
    \/ \E to \in {"HOLD", "REVIEW"} : Move(b, {"none"}, to, {}) /\ UNCHANGED paid
    \/ Move(b, {"HOLD"}, "CANCELLED", {"booking.cancelled"}) /\ UNCHANGED paid
    \/ Move(b, {"REVIEW"}, "SETTLED", ApprovedTopics) /\ UNCHANGED paid
    \/ Move(b, {"REVIEW"}, "CANCELLED", {"booking.review_declined"}) /\ UNCHANGED paid
    \/ \E to \in {"HOLD", "CANCELLED"} :
          Move(b, {"REVIEW"}, to, {}) /\ UNCHANGED paid
    \/ Move(b, {"SETTLED"}, "REFUNDED", {"booking.refunded"}) /\ UNCHANGED paid

(* A payment settles the booking in any status; with PAYMENT_AUTO_CONFIRM  *)
(* off, booking.paid is written at once and again by the saga.             *)
Pay(b) ==
    /\ b \notin paid
    /\ paid' = paid \cup {b}
    /\ \E topics \in {{"payment.succeeded"}, {"payment.succeeded", "booking.paid"}} :
          Move(b, {"HOLD", "REVIEW", "SETTLED", "CANCELLED", "REFUNDED"}, "SETTLED", topics)

-----------------------------------------------------------------------------
(* applyOnHold locks the promotion of the code, not the booking.           *)

CodeLocked(c) == \E call \in calls : call.topic = "apply" /\ call.code = c

BeginApply(b, c) ==
    /\ ~CodeLocked(c)
    /\ stages[b] \in {"HOLD", "REVIEW"}
    /\ promo[b] = "null"
    /\ b \in Eligible[c]
    /\ calls' = calls \cup {[by |-> "guest", topic |-> "apply", booking |-> b,
                             code |-> c, seen |-> "none"]}
    /\ UNCHANGED <<stages, promo, red, used, events, paid, overdrawn>>

(* bookingId is unique among the redemptions, released ones included.      *)
CommitApplyFault(call) ==
    /\ call.topic = "apply"
    /\ red' = [red EXCEPT ![call.booking] =
                  IF @.status = "none" THEN [status |-> "RESERVED", code |-> call.code]
                                       ELSE @]
    /\ promo' = [promo EXCEPT ![call.booking] = call.code]
    /\ calls' = calls \ {call}
    /\ UNCHANGED <<stages, used, events, paid, overdrawn>>

CommitApply(call) ==
    /\ call.topic = "apply"
    /\ red[call.booking].status = "none"
    /\ red' = [red EXCEPT ![call.booking] = [status |-> "RESERVED", code |-> call.code]]
    /\ promo' = [promo EXCEPT ![call.booking] = call.code]
    /\ calls' = calls \ {call}
    /\ UNCHANGED <<stages, used, events, paid, overdrawn>>

-----------------------------------------------------------------------------
(* The saga.                                                               *)

(* What is left of the events when one is taken: there may be a second     *)
(* message of it, or this one is delivered again.                          *)
Rest(e) == {events, events \ {e}}

(* payment.succeeded is translated.                                        *)
Bridge(e) ==
    /\ e.topic = "payment.succeeded"
    /\ \E rest \in Rest(e) : events' = rest \cup Emitted({"booking.paid"}, e.booking)
    /\ UNCHANGED <<stages, promo, red, used, calls, paid, overdrawn>>

Concerned(e) ==
    IF e.topic = "booking.paid" THEN red[e.booking].status = "RESERVED"
    ELSE red[e.booking].status \in {"RESERVED", "APPLIED"}

(* The event finds no redemption to confirm or release.                    *)
NoConcern(e) ==
    /\ e.topic # "payment.succeeded"
    /\ ~Concerned(e)
    /\ events' = events \ {e}
    /\ UNCHANGED <<stages, promo, red, used, calls, paid, overdrawn>>

BeginCall(m, e) ==
    /\ \A call \in calls : call.by # m
    /\ e.topic # "payment.succeeded"
    /\ Concerned(e)
    /\ events' \in Rest(e)
    /\ calls' = calls \cup {[by |-> m, topic |-> e.topic, booking |-> e.booking,
                             code |-> red[e.booking].code,
                             seen |-> red[e.booking].status]}
    /\ UNCHANGED <<stages, promo, red, used, paid, overdrawn>>

RoomLeftFault(c) == c \in Unlimited \/ used[c] <= Limit[c]

RoomLeft(c) == c \in Unlimited \/ used[c] < Limit[c]

(* confirmOnPaid takes a use of the code if there is one left, else gives  *)
(* the redemption up; the booking keeps its discount in both cases.        *)
CommitConfirm(call) ==
    /\ call.topic = "booking.paid"
    /\ ~CodeLocked(call.code)
    /\ \/ /\ RoomLeft(call.code)
          /\ used' = [used EXCEPT ![call.code] = @ + 1]
          /\ red' = [red EXCEPT ![call.booking].status = "APPLIED"]
       \/ /\ ~RoomLeft(call.code)
          /\ red' = [red EXCEPT ![call.booking].status = "RELEASED"]
          /\ UNCHANGED used
    /\ calls' = calls \ {call}
    /\ UNCHANGED <<stages, promo, events, paid, overdrawn>>

(* A refund gives a use back, if the call has read the redemption APPLIED, *)
(* whatever it is by now.                                                  *)
ReturnsUse(call) ==
    call.topic = "booking.refunded" /\ call.seen = "APPLIED" /\ used[call.code] > 0

(* ... and gives away another booking's use, if its own is back already.   *)
Overdraws(call) == ReturnsUse(call) /\ red[call.booking].status # "APPLIED"

CommitRelease(call) ==
    /\ call.topic \in GiveBackTopics
    /\ red' = [red EXCEPT ![call.booking].status = "RELEASED"]
    /\ used' = [used EXCEPT ![call.code] =
                   IF ReturnsUse(call) THEN @ - 1 ELSE @]
    /\ overdrawn' = [overdrawn EXCEPT ![call.code] =
                        IF Overdraws(call) THEN @ + 1 ELSE @]
    /\ promo' = [promo EXCEPT ![call.booking] = "null"]
    /\ calls' = calls \ {call}
    /\ UNCHANGED <<stages, events, paid>>

(* The transaction fails; the saga swallows the error of an event's call.  *)
Fail(call) ==
    /\ calls' = calls \ {call}
    /\ UNCHANGED <<stages, promo, red, used, events, paid, overdrawn>>

-----------------------------------------------------------------------------

PromoNext ==
    \/ \E b \in Journeys :
          \/ BookingStep(b)
          \/ Pay(b)
          \/ \E c \in Codes : BeginApply(b, c)
    \/ \E e \in events : Bridge(e) \/ NoConcern(e) \/ \E m \in Members : BeginCall(m, e)
    \/ \E call \in calls :
          CommitApply(call) \/ CommitConfirm(call) \/ CommitRelease(call) \/ Fail(call)

PromoSpec == PromoInit /\ [][PromoNext]_promoVars

-----------------------------------------------------------------------------
(* Properties.                                                             *)

PromoTypeOK ==
    /\ stages \in [Journeys -> {"none", "HOLD", "REVIEW", "SETTLED", "CANCELLED", "REFUNDED"}]
    /\ promo \in [Journeys -> Codes \cup {"null"}]
    /\ red \in [Journeys -> [status: RedStatus, code: Codes \cup {"null"}]]
    /\ used \in [Codes -> Nat]
    /\ events \subseteq Event
    /\ calls \subseteq Call
    /\ paid \subseteq Journeys
    /\ overdrawn \in [Codes -> Nat]

AppliedTo(c) == {b \in Journeys : red[b].status = "APPLIED" /\ red[b].code = c}

(* A code is applied to more bookings than its limit allows only if        *)
(* refunds at work at the same time gave one use back more than once: one  *)
(* booking too many for each such refund, and none for any other order in  *)
(* which payments, refunds and cancellations are handled, again or at once. *)
FirstPaidWins ==
    \A c \in Codes \ Unlimited :
        Cardinality(AppliedTo(c)) <= Limit[c] + overdrawn[c]

(* The discount on a booking is that of its one redemption, also when two  *)
(* codes are applied at once.                                              *)
DiscountIsRedemptions ==
    \A b \in Journeys : promo[b] # "null" => red[b].code = promo[b]

(* A code is used up by paid bookings only.                                *)
AppliedWasPaid ==
    \A b \in Journeys : red[b].status = "APPLIED" => b \in paid

-----------------------------------------------------------------------------
(* What the code says of itself and its interleavings do not keep.         *)

(* promotion.service.ts:310, "REFUNDED: if APPLIED, usedCount decreases".  *)
RefundReturnsUse ==
    [][\A call \in calls :
          /\ CommitRelease(call)
          /\ call.topic = "booking.refunded"
          /\ red[call.booking].status = "APPLIED"
          => used'[call.code] = used[call.code] - 1]_promoVars
=============================================================================
