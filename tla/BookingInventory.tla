-------------------------- MODULE BookingInventory --------------------------
(***************************************************************************)
(* The bookings of one property and the nights they take: BookingsService  *)
(* (hold, cancelHold, expireHolds, reviewApprove, reviewDecline) and       *)
(* FraudService.decide.                                                    *)
(*                                                                         *)
(* PostgreSQL runs the transactions at READ COMMITTED.  A handler that     *)
(* decides under a row lock or by a conditional UPDATE is one action.  The *)
(* review handlers read the booking without a lock and write it later by   *)
(* id alone: they are two actions, with the request kept in inFlight in    *)
(* between, so that everything else may commit between the two.            *)
(*                                                                         *)
(* A definition named ...Fault is not the code: it is the definition that  *)
(* follows it with a plausible bug, kept to show that the properties would *)
(* notice it.                                                              *)
(***************************************************************************)
EXTENDS Integers, FiniteSets

CONSTANTS
    Bookings,         \* the bookings that guests may ask for
    Days,             \* the nights of the calendar, as consecutive integers
    Stays,            \* the sets of nights a guest may ask for
    Capacity,         \* Capacity[d]: remaining on night d before any booking
    Blocked,          \* the nights with isBlocked set
    Admins,           \* reviewers of the bookings console (approve, decline)
    FraudReviewers,   \* reviewers of the fraud console (decide)
    AutoDeclineHigh,  \* config.autoDeclineHighRisk
    ServerZone        \* time zone of the server process, "UTC" or "VN"

ASSUME ConstantsAssumption ==
    /\ IsFiniteSet(Bookings)
    /\ Days \subseteq Int
    /\ Stays \subseteq SUBSET Days
    /\ \A nights \in Stays : nights # {}
    /\ Capacity \in [Days -> Nat]
    /\ Blocked \subseteq Days
    /\ Admins \cap FraudReviewers = {}
    /\ AutoDeclineHigh \in BOOLEAN
    /\ ServerZone \in {"UTC", "VN"}

VARIABLES
    status,       \* Booking.status, "none" before the row exists
    stay,         \* the nights from Booking.checkIn to Booking.checkOut
    deadline,     \* Booking.holdExpiresAt: "null", ahead of now, or behind it
    assessment,   \* FraudAssessment.decision, "none" without a row
    remaining,    \* AvailabilityDay.remaining of each night
    emitted,      \* the Outbox topics ever written for a booking
    inFlight,     \* review requests between their read and their writes
    staleWrite    \* history: a review wrote over a booking not in REVIEW

vars == <<status, stay, deadline, assessment, remaining, emitted,
          inFlight, staleWrite>>

Status == {"none", "HOLD", "REVIEW", "CONFIRMED", "PAID", "CANCELLED",
           "REFUNDED"}
Decision == {"none", "PENDING", "APPROVED", "REJECTED", "AUTO_DECLINED"}
Topic == {"booking.held", "booking.review_pending", "booking.auto_declined",
          "booking.review_approved", "booking.review_declined",
          "booking.review_rejected", "booking.expired", "booking.cancelled",
          "booking.confirmed", "booking.paid", "booking.refunded",
          "payment.intent_created", "payment.succeeded", "payment.failed",
          "payment.refund_requested", "payment.refunded"}

Reviewers == Admins \cup FraudReviewers
ReviewOp == {"approve", "decline", "decideApproved", "decideRejected"}
OpsOf(r) == IF r \in Admins THEN {"approve", "decline"}
                            ELSE {"decideApproved", "decideRejected"}
Request == {req \in [by: Reviewers, op: ReviewOp, booking: Bookings] :
               req.op \in OpsOf(req.by)}

Init ==
    /\ status = [b \in Bookings |-> "none"]
    /\ stay = [b \in Bookings |-> {}]
    /\ deadline = [b \in Bookings |-> "null"]
    /\ assessment = [b \in Bookings |-> "none"]
    /\ remaining = Capacity
    /\ emitted = [b \in Bookings |-> {}]
    /\ inFlight = {}
    /\ staleWrite = FALSE

-----------------------------------------------------------------------------
(* The nights of a stay.                                                   *)

AvailableFault(nights) == \A d \in nights : d \notin Blocked

Available(nights) == \A d \in nights : d \notin Blocked /\ remaining[d] > 0

TakeNights(nights) ==
    [d \in Days |-> IF d \in nights THEN remaining[d] - 1 ELSE remaining[d]]

CreditNightsFault(nights) ==
    [d \in Days |-> IF d \in nights /\ d + 1 \in nights THEN remaining[d] + 1
                                                        ELSE remaining[d]]

CreditNights(nights) ==
    [d \in Days |-> IF d \in nights THEN remaining[d] + 1 ELSE remaining[d]]

(* The rows FraudService.decide credits.  Booking.checkIn is midnight in   *)
(* Viet Nam, 17:00 UTC of the day before, while AvailabilityDay.date is    *)
(* midnight UTC.  The handler walks local midnights from checkIn on and    *)
(* matches rows by equality: on a server in UTC it meets the row of the    *)
(* night before, on a server in Viet Nam it meets no row at all.           *)
DecideNights(nights) ==
    IF ServerZone = "UTC" THEN {d \in Days : d + 1 \in nights} ELSE {}

Emit(b, topics) == emitted' = [emitted EXCEPT ![b] = @ \cup topics]

-----------------------------------------------------------------------------
(* The guest.                                                              *)

(* hold, when the fraud rules say HIGH and the configuration declines it.  *)
HoldAutoDeclined(b, nights) ==
    /\ status[b] = "none"
    /\ Available(nights)
    /\ AutoDeclineHigh
    /\ status' = [status EXCEPT ![b] = "CANCELLED"]
    /\ stay' = [stay EXCEPT ![b] = nights]
    /\ assessment' = [assessment EXCEPT ![b] = "AUTO_DECLINED"]
    /\ Emit(b, {"booking.auto_declined"})
    /\ UNCHANGED <<deadline, remaining, inFlight, staleWrite>>

(* hold: the nights are locked, checked and decremented, the row is made.  *)
Hold(b, nights, risk) ==
    /\ status[b] = "none"
    /\ Available(nights)
    /\ ~(risk = "HIGH" /\ AutoDeclineHigh)
    /\ remaining' = TakeNights(nights)
    /\ stay' = [stay EXCEPT ![b] = nights]
    /\ deadline' = [deadline EXCEPT ![b] = "ahead"]
    /\ \/ /\ risk = "LOW"
          /\ status' = [status EXCEPT ![b] = "HOLD"]
          /\ Emit(b, {"booking.held"})
          /\ UNCHANGED assessment
       \/ /\ risk # "LOW"
          /\ status' = [status EXCEPT ![b] = "REVIEW"]
          /\ assessment' = [assessment EXCEPT ![b] = "PENDING"]
          /\ Emit(b, {"booking.held", "booking.review_pending"})
    /\ UNCHANGED <<inFlight, staleWrite>>

PendingFault(b) == status[b] # "none"

Pending(b) == status[b] \in {"HOLD", "REVIEW"}

(* The transaction shared by cancelHold and expireHolds: the UPDATE names  *)
(* the statuses it accepts, and only the one that wins it credits nights.  *)
Withdraw(b, topic) ==
    /\ Pending(b)
    /\ status' = [status EXCEPT ![b] = "CANCELLED"]
    /\ remaining' = CreditNights(stay[b])
    /\ Emit(b, {topic})
    /\ UNCHANGED <<stay, deadline, assessment, inFlight, staleWrite>>

CancelHold(b) == Withdraw(b, "booking.cancelled")

-----------------------------------------------------------------------------
(* The clock and the expiry job.                                           *)

DeadlinePasses(b) ==
    /\ deadline[b] = "ahead"
    /\ deadline' = [deadline EXCEPT ![b] = "behind"]
    /\ UNCHANGED <<status, stay, assessment, remaining, emitted, inFlight,
                   staleWrite>>

OverdueFault(b) == deadline[b] = "behind" /\ status[b] = "HOLD"

Overdue(b) == deadline[b] = "behind"

ExpireHold(b) == Overdue(b) /\ Withdraw(b, "booking.expired")

-----------------------------------------------------------------------------
(* The reviewers.                                                          *)

(* The unlocked reads at the head of reviewApprove, reviewDecline, decide. *)
ReadReview(req) ==
    /\ \A other \in inFlight : other.by # req.by
    /\ status[req.booking] = "REVIEW"
    /\ req.by \in FraudReviewers => assessment[req.booking] = "PENDING"
    /\ inFlight' = inFlight \cup {req}
    /\ UNCHANGED <<status, stay, deadline, assessment, remaining, emitted,
                   staleWrite>>

(* What every review transaction does when it commits.                     *)
CommitReview(req, newStatus, decision, topic) ==
    /\ status' = [status EXCEPT ![req.booking] = newStatus]
    /\ assessment' = [assessment EXCEPT ![req.booking] = decision]
    /\ Emit(req.booking, {topic})
    /\ inFlight' = inFlight \ {req}
    /\ staleWrite' = (staleWrite \/ status[req.booking] # "REVIEW")
    /\ UNCHANGED stay

ApproveFault(req) ==
    /\ req.op = "approve"
    /\ CommitReview(req, "HOLD", "APPROVED", "booking.review_approved")
    /\ deadline' = [deadline EXCEPT ![req.booking] = "null"]
    /\ UNCHANGED remaining

ApproveSilentFault(req) ==
    /\ req.op = "approve"
    /\ CommitReview(req, "CONFIRMED", assessment[req.booking],
                    "booking.review_approved")
    /\ deadline' = [deadline EXCEPT ![req.booking] = "null"]
    /\ UNCHANGED remaining

Approve(req) ==
    /\ req.op = "approve"
    /\ CommitReview(req, "CONFIRMED", "APPROVED", "booking.review_approved")
    /\ deadline' = [deadline EXCEPT ![req.booking] = "null"]
    /\ UNCHANGED remaining

DeclineTopicFault(req) ==
    /\ req.op = "decline"
    /\ CommitReview(req, "CANCELLED", "REJECTED", "booking.review_approved")
    /\ remaining' = CreditNights(stay[req.booking])
    /\ UNCHANGED deadline

Decline(req) ==
    /\ req.op = "decline"
    /\ CommitReview(req, "CANCELLED", "REJECTED", "booking.review_declined")
    /\ remaining' = CreditNights(stay[req.booking])
    /\ UNCHANGED deadline

DecideApprovedFault(req) ==
    /\ req.op = "decideApproved"
    /\ CommitReview(req, "REVIEW", "APPROVED", "booking.review_approved")
    /\ UNCHANGED <<deadline, remaining>>

DecideApproved(req) ==
    /\ req.op = "decideApproved"
    /\ CommitReview(req, "HOLD", "APPROVED", "booking.review_approved")
    /\ UNCHANGED <<deadline, remaining>>

DecideRejected(req) ==
    /\ req.op = "decideRejected"
    /\ CommitReview(req, "CANCELLED", "REJECTED", "booking.review_rejected")
    /\ remaining' = CreditNights(DecideNights(stay[req.booking]))
    /\ UNCHANGED deadline

(* A deadlock, a timeout or a crash: the transaction leaves no trace.      *)
RollBack(req) ==
    /\ inFlight' = inFlight \ {req}
    /\ UNCHANGED <<status, stay, deadline, assessment, remaining, emitted,
                   staleWrite>>

-----------------------------------------------------------------------------

Next ==
    \/ \E b \in Bookings :
          \/ \E nights \in Stays :
                \/ HoldAutoDeclined(b, nights)
                \/ \E risk \in {"LOW", "MEDIUM", "HIGH"} : Hold(b, nights, risk)
          \/ CancelHold(b)
          \/ DeadlinePasses(b)
          \/ ExpireHold(b)
    \/ \E req \in Request : ReadReview(req)
    \/ \E req \in inFlight :
          \/ Approve(req)
          \/ Decline(req)
          \/ DecideApproved(req)
          \/ DecideRejected(req)
          \/ RollBack(req)

Spec == Init /\ [][Next]_vars

(* Time passes and the cron job runs every minute; nobody has to review.   *)
Fairness ==
    \A b \in Bookings : WF_vars(DeadlinePasses(b)) /\ WF_vars(ExpireHold(b))

LiveSpec == Spec /\ Fairness

-----------------------------------------------------------------------------
(* Properties.                                                             *)

TypeOK ==
    /\ status \in [Bookings -> Status]
    /\ stay \in [Bookings -> SUBSET Days]
    /\ deadline \in [Bookings -> {"null", "ahead", "behind"}]
    /\ assessment \in [Bookings -> Decision]
    /\ remaining \in [Days -> Nat]
    /\ emitted \in [Bookings -> SUBSET Topic]
    /\ inFlight \subseteq Request
    /\ staleWrite \in BOOLEAN

Occupying(b) == status[b] \in {"HOLD", "REVIEW", "CONFIRMED", "PAID"}
Holders(d) == {b \in Bookings : Occupying(b) /\ d \in stay[b]}

(* FraudService.decide has rejected, and credited nights of its own.       *)
FraudRejected == \E b \in Bookings : "booking.review_rejected" \in emitted[b]

(* No night is lost: what is left of a night and the bookings that occupy  *)
(* it add up to at least its capacity, whatever the reviewers of both      *)
(* consoles race with.  Only the rejections of FraudService.decide, which  *)
(* miss the nights of the stay, lose any.                                  *)
NoLostNights ==
    ~FraudRejected =>
        \A d \in Days : remaining[d] + Cardinality(Holders(d)) >= Capacity[d]

(* The nights are counted exactly as long as, moreover, no reviewer wrote  *)
(* over a booking that had left REVIEW behind its back: the unlocked reads *)
(* of the review handlers are the only way to sell a night twice.          *)
ConservedUnlessStale ==
    ~FraudRejected /\ ~staleWrite =>
        \A d \in Days : remaining[d] + Cardinality(Holders(d)) = Capacity[d]

(* expireHolds selects by holdExpiresAt: a HOLD or REVIEW row without one  *)
(* keeps its nights for ever.  There is none, unless the fraud console     *)
(* wrote over what the bookings console had confirmed meanwhile.           *)
HoldHasDeadline ==
    \A b \in Bookings :
        Pending(b) /\ deadline[b] = "null" => staleWrite /\ FraudReviewers # {}

(* Booking.status and FraudAssessment.decision are two rows written by     *)
(* concurrent reviewers and by the expiry job; they never contradict one   *)
(* another, although no reviewer re-reads either before writing.           *)
VerdictMatchesStatus ==
    \A b \in Bookings :
        /\ status[b] = "REVIEW" => assessment[b] = "PENDING"
        /\ status[b] = "CONFIRMED" => assessment[b] = "APPROVED"
        /\ assessment[b] = "REJECTED" => status[b] = "CANCELLED"
        /\ assessment[b] = "AUTO_DECLINED" => status[b] = "CANCELLED"

(* The topics on which the saga gives the promotion of a booking back.     *)
ReleaseTopics == {"booking.auto_declined", "booking.review_declined",
                  "booking.cancelled", "booking.expired", "booking.refunded"}

(* A cancelled booking left a trace the saga acts upon, whoever else wrote *)
(* to it; only FraudService.decide uses a topic that nobody handles.       *)
CancelAnnounced ==
    \A b \in Bookings :
        status[b] = "CANCELLED"
            => emitted[b] \cap (ReleaseTopics \cup {"booking.review_rejected"}) # {}

(* fraud.service.ts:100, "handled only while the FraudAssessment is        *)
(* PENDING": a verdict, once given, is not replaced before some reviewer   *)
(* has written over a booking that left REVIEW after he read it.           *)
(* (staleWrite stays set: what follows such a write is not judged.)        *)
VerdictIsFinal ==
    [][\A b \in Bookings :
          assessment[b] \in {"APPROVED", "REJECTED"} /\ assessment'[b] # assessment[b]
              => staleWrite']_vars

(* A booking that waits for payment or review does not wait for ever: the  *)
(* job cancels it unless someone decides first, or takes its deadline.     *)
EveryHoldEnds ==
    \A b \in Bookings : Pending(b) ~> ~Pending(b) \/ deadline[b] = "null"

(* Without reviewers the module implements the calendar it promises.       *)
Calendar == INSTANCE RoomCalendar
                WITH holders <- [d \in Days |-> Holders(d)],
                     known <- {b \in Bookings : status[b] # "none"}
ImplementsCalendar == Calendar!Spec

-----------------------------------------------------------------------------
(* What the code says of itself and does not do.                           *)

(* fraud.service.ts:99, "REJECTED: REVIEW -> CANCELLED and the nights      *)
(* returned": the nights of a rejected stay are in the calendar again.     *)
RejectionReturnsNights ==
    [][\A req \in inFlight :
          DecideRejected(req) /\ status[req.booking] = "REVIEW"
              => \A d \in stay[req.booking] : remaining'[d] > remaining[d]]_vars
=============================================================================
