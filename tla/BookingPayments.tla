-------------------------- MODULE BookingPayments ---------------------------
(***************************************************************************)
(* PaymentService (createIntent, handleWebhook, handleVnpayIpn, refund)    *)
(* and BookingsService.cancelPaidOrConfirmed, composed with the bookings   *)
(* and nights of BookingInventory.                                         *)
(*                                                                         *)
(* A request of this module runs in one of the API's workers.  It reads    *)
(* rows without locking them and writes them by id when it commits, so it  *)
(* is kept in serving between its steps with what it has read.  The        *)
(* provider delivers each event as often as it likes, also concurrently.   *)
(* The gate of the Idempotency-Key in front of createIntent and refund is  *)
(* the module IdempotencyGate.                                             *)
(***************************************************************************)
EXTENDS BookingInventory, FiniteSetTheorems, TLAPS

CONSTANTS
    Provider,     \* the provider guests pay with, "MOCK", "STRIPE" or "VNPAY"
    AutoConfirm,  \* PAYMENT_AUTO_CONFIRM
    CsrfEnabled,  \* CSRF_ENABLED, on unless the deployment turns it off
    Workers,      \* requests served at the same time
    MaxIntents,   \* bound on the intents created for a booking
    MaxRefunds    \* bound on the refunds requested for a booking

ASSUME PaymentConstantsAssumption ==
    /\ Provider \in {"MOCK", "STRIPE", "VNPAY"}
    /\ AutoConfirm \in BOOLEAN /\ CsrfEnabled \in BOOLEAN
    /\ MaxIntents \in Nat /\ MaxRefunds \in Nat

VARIABLES
    pay,        \* Payment.status, "none" before the row exists
    intent,     \* Payment.intentId, numbered in order of creation
    charge,     \* Payment.chargeId, by the intent it belongs to, 0 if null
    refunds,    \* the number of Refund rows in each status
    charged,    \* provider: the intents that took the guest's money
    sent,       \* provider: the events it has to deliver
    processed,  \* the ids in ProcessedWebhook
    serving,    \* requests between their first read and their commit
    announced   \* history: how often payment.succeeded went to the Outbox

payVars == <<pay, intent, charge, refunds, charged, sent, processed, serving,
             announced>>
allVars == <<vars, payVars>>

PaymentStatus == {"none", "PENDING", "SUCCEEDED", "FAILED", "REFUNDED"}
Intents == 1 .. MaxIntents

(* StripeLikeHmacAdapter normalizes two events of one charge, each with    *)
(* its own id, to payment_succeeded.                                       *)
SuccessEvents == IF Provider = "STRIPE"
                 THEN {"payment_intent.succeeded", "charge.succeeded"}
                 ELSE {"payment.succeeded"}
EventName == SuccessEvents \cup {"payment.failed", "charge.refunded"}
Notification == [name: EventName, booking: Bookings, intent: Intents]
NoEvent == [name |-> "none"]

PayRequest == [by: Workers, op: {"webhook", "cancelPaid", "refundFull", "refundPart"},
               booking: Bookings, event: Notification \cup {NoEvent},
               pc: {"read", "locked"}, seenPay: PaymentStatus \cup {"unread"},
               seenBooking: Status \cup {"unread"}]

PayInit ==
    /\ Init
    /\ pay = [b \in Bookings |-> "none"]
    /\ intent = [b \in Bookings |-> 0]
    /\ charge = [b \in Bookings |-> 0]
    /\ refunds = [b \in Bookings |-> [pending |-> 0, succeeded |-> 0]]
    /\ charged = [b \in Bookings |-> {}]
    /\ sent = {}
    /\ processed = {}
    /\ serving = {}
    /\ announced = [b \in Bookings |-> 0]

Idle(w) == \A call \in serving : call.by # w

(* The row of a payment is free unless a webhook has already updated it.   *)
PaymentFree(b) == \A call \in serving : ~(call.booking = b /\ call.pc = "locked")

Finish(call) == serving' = serving \ {call}

-----------------------------------------------------------------------------
(* The guest and the provider.                                             *)

(* Neither the booking's status nor the payment's is looked at: a booking  *)
(* in any status gets an intent, and a settled payment is reset.           *)
CreateIntent(b) ==
    /\ status[b] # "none"
    /\ intent[b] < MaxIntents
    /\ PaymentFree(b)
    /\ intent' = [intent EXCEPT ![b] = @ + 1]
    /\ pay' = [pay EXCEPT ![b] = "PENDING"]
    /\ Emit(b, {"payment.intent_created"})
    /\ UNCHANGED <<status, stay, deadline, assessment, remaining, inFlight,
                   staleWrite, charge, refunds, charged, sent, processed,
                   serving, announced>>

GuestPays(b, i) ==
    /\ i <= intent[b]
    /\ i \notin charged[b]
    /\ charged' = [charged EXCEPT ![b] = @ \cup {i}]
    /\ sent' = sent \cup [name: SuccessEvents, booking: {b}, intent: {i}]
    /\ UNCHANGED <<vars, pay, intent, charge, refunds, processed, serving,
                   announced>>

GuestFailsToPay(b, i) ==
    /\ i <= intent[b]
    /\ i \notin charged[b]
    /\ sent' = sent \cup [name: {"payment.failed"}, booking: {b}, intent: {i}]
    /\ UNCHANGED <<vars, pay, intent, charge, refunds, charged, processed,
                   serving, announced>>

-----------------------------------------------------------------------------
(* The webhook.                                                            *)

(* A provider has no CSRF token.  The notifications of STRIPE and of MOCK  *)
(* are POSTs to a path that CsrfMiddleware does not ignore, and end there; *)
(* VNPAY's is a GET.                                                       *)
Reachable == Provider = "VNPAY" \/ ~CsrfEnabled

(* An event of MOCK may name the payment.  Else it is looked up by intent  *)
(* and, but for VNPAY, by charge; an event of an intent the payment has    *)
(* moved on from is answered 404 and changes nothing.                      *)
Found(e) ==
    \/ Provider = "MOCK"
    \/ e.name # "charge.refunded" /\ intent[e.booking] = e.intent
    \/ Provider = "STRIPE" /\ charge[e.booking] = e.intent

BeginWebhook(w, e) ==
    /\ Reachable
    /\ Idle(w)
    /\ e \notin processed
    /\ Found(e)
    /\ serving' = serving \cup {[by |-> w, op |-> "webhook", booking |-> e.booking,
                            event |-> e, pc |-> "read",
                            seenPay |-> pay[e.booking],
                            seenBooking |-> "unread"]}
    /\ UNCHANGED <<vars, pay, intent, charge, refunds, charged, sent,
                   processed, announced>>

UnsettledFault(seen) == seen = "PENDING"

Unsettled(seen) == seen \notin {"SUCCEEDED", "REFUNDED"}

(* payment_succeeded of a payment read as unsettled: the row is updated,   *)
(* which locks it, and the booking is read without a lock.                 *)
LockPayment(call) ==
    /\ call.op = "webhook" /\ call.pc = "read"
    /\ call.event.name \in SuccessEvents
    /\ Unsettled(call.seenPay)
    /\ PaymentFree(call.booking)
    /\ serving' = (serving \ {call}) \cup
                {[call EXCEPT !.pc = "locked",
                              !.seenBooking = status[call.booking]]}
    /\ UNCHANGED <<vars, pay, intent, charge, refunds, charged, sent,
                   processed, announced>>

NoticeFault(call) == processed' = processed \cup {call.event}

(* The event id is inserted last.  If another transaction inserted it, the *)
(* unique key aborts this one: P2002 is caught, but PostgreSQL commits     *)
(* nothing (the call ends in Drop).                                        *)
Notice(call) ==
    /\ call.event \notin processed
    /\ processed' = processed \cup {call.event}

Settled == IF AutoConfirm THEN "CONFIRMED" ELSE "PAID"
SettledTopic == IF AutoConfirm THEN "booking.confirmed" ELSE "booking.paid"

(* Whatever the booking's status was read to be, it is settled now.        *)
Confirm(b, seen) ==
    \/ /\ seen = Settled
       /\ Emit(b, {"payment.succeeded"})
       /\ UNCHANGED <<status, deadline>>
    \/ /\ seen # Settled
       /\ status' = [status EXCEPT ![b] = Settled]
       /\ deadline' = [deadline EXCEPT ![b] = "null"]
       /\ Emit(b, {SettledTopic, "payment.succeeded"})

CommitSucceeded(call) ==
    /\ call.op = "webhook" /\ call.pc = "locked"
    /\ Notice(call)
    /\ pay' = [pay EXCEPT ![call.booking] = "SUCCEEDED"]
    /\ charge' = [charge EXCEPT ![call.booking] = call.event.intent]
    /\ Confirm(call.booking, call.seenBooking)
    /\ announced' = [announced EXCEPT ![call.booking] = @ + 1]
    /\ Finish(call)
    /\ UNCHANGED <<stay, assessment, remaining, inFlight, staleWrite, intent,
                   refunds, charged, sent>>

CommitFailed(call) ==
    /\ call.op = "webhook" /\ call.event.name = "payment.failed"
    /\ call.seenPay = "PENDING"
    /\ PaymentFree(call.booking)
    /\ Notice(call)
    /\ pay' = [pay EXCEPT ![call.booking] = "FAILED"]
    /\ Emit(call.booking, {"payment.failed"})
    /\ Finish(call)
    /\ UNCHANGED <<status, stay, deadline, assessment, remaining, inFlight,
                   staleWrite, intent, charge, refunds, charged, sent,
                   announced>>

(* A success after a success, or a failure after any outcome.              *)
CommitIgnored(call) ==
    /\ call.op = "webhook"
    /\ \/ /\ call.event.name \in SuccessEvents
          /\ ~Unsettled(call.seenPay)
       \/ /\ call.event.name = "payment.failed"
          /\ call.seenPay # "PENDING"
    /\ Notice(call)
    /\ Finish(call)
    /\ UNCHANGED <<vars, pay, intent, charge, refunds, charged, sent,
                   announced>>

SettleRefundsFault(rows) == [pending |-> rows.pending - 1,
                             succeeded |-> rows.succeeded + 1]

(* Every Refund row that is PENDING, were it none or several.              *)
SettleRefunds(rows) == [pending |-> 0, succeeded |-> rows.succeeded + rows.pending]

CommitRefunded(call) ==
    /\ call.op = "webhook" /\ call.event.name = "charge.refunded"
    /\ PaymentFree(call.booking)
    /\ Notice(call)
    /\ pay' = [pay EXCEPT ![call.booking] = "REFUNDED"]
    /\ refunds' = [refunds EXCEPT ![call.booking] = SettleRefunds(@)]
    /\ Emit(call.booking, {"payment.refunded"})
    /\ Finish(call)
    /\ UNCHANGED <<status, stay, deadline, assessment, remaining, inFlight,
                   staleWrite, intent, charge, charged, sent, announced>>

-----------------------------------------------------------------------------
(* The guest takes the money back.                                         *)

BeginCancelPaid(w, b) ==
    /\ Idle(w)
    /\ status[b] \in {"PAID", "CONFIRMED"}
    /\ serving' = serving \cup {[by |-> w, op |-> "cancelPaid", booking |-> b,
                            event |-> NoEvent, pc |-> "read",
                            seenPay |-> "unread", seenBooking |-> status[b]]}
    /\ UNCHANGED <<vars, pay, intent, charge, refunds, charged, sent,
                   processed, announced>>

(* cancelPaidOrConfirmed looks for payments to refund after the booking.   *)
ReadPayments(call) ==
    /\ call.op = "cancelPaid" /\ call.seenPay = "unread"
    /\ serving' = (serving \ {call}) \cup
                {[call EXCEPT !.seenPay = pay[call.booking]]}
    /\ UNCHANGED <<vars, pay, intent, charge, refunds, charged, sent,
                   processed, announced>>

CommitCancelPaidFault(call) ==
    /\ call.op = "cancelPaid" /\ call.seenPay # "unread"
    /\ PaymentFree(call.booking)
    /\ pay' = [pay EXCEPT ![call.booking] =
                  IF call.seenPay = "SUCCEEDED" THEN "REFUNDED" ELSE @]
    /\ status' = [status EXCEPT ![call.booking] = "REFUNDED"]
    /\ Emit(call.booking, {"booking.refunded"})
    /\ Finish(call)
    /\ UNCHANGED <<stay, deadline, assessment, remaining, inFlight, staleWrite,
                   intent, charge, refunds, charged, sent, processed, announced>>

CommitCancelPaid(call) ==
    /\ call.op = "cancelPaid" /\ call.seenPay # "unread"
    /\ \/ /\ call.seenPay = "SUCCEEDED"
          /\ PaymentFree(call.booking)
          /\ refunds' = [refunds EXCEPT ![call.booking].succeeded = @ + 1]
          /\ pay' = [pay EXCEPT ![call.booking] = "REFUNDED"]
       \/ /\ call.seenPay # "SUCCEEDED"
          /\ UNCHANGED <<refunds, pay>>
    /\ remaining' = CreditNights(stay[call.booking])
    /\ status' = [status EXCEPT ![call.booking] = "REFUNDED"]
    /\ Emit(call.booking, {"booking.refunded"})
    /\ Finish(call)
    /\ UNCHANGED <<stay, deadline, assessment, inFlight, staleWrite, intent,
                   charge, charged, sent, processed, announced>>

RefundsOf(b) == refunds[b].pending + refunds[b].succeeded

(* refund asks for the whole amount or for a part of it.                   *)
BeginRefund(w, b, op) ==
    /\ Idle(w)
    /\ pay[b] = "SUCCEEDED"
    /\ Provider # "VNPAY"
    /\ RefundsOf(b) < MaxRefunds
    /\ serving' = serving \cup {[by |-> w, op |-> op, booking |-> b,
                            event |-> NoEvent, pc |-> "read",
                            seenPay |-> pay[b], seenBooking |-> status[b]]}
    /\ UNCHANGED <<vars, pay, intent, charge, refunds, charged, sent,
                   processed, announced>>

RefundEvent(b) == [name |-> "charge.refunded", booking |-> b, intent |-> charge[b]]

(* MOCK settles the refund at once; a full one also ends the booking, and  *)
(* leaves the nights as they are.                                          *)
CommitMockRefund(call) ==
    /\ Provider = "MOCK"
    /\ call.op \in {"refundFull", "refundPart"}
    /\ PaymentFree(call.booking)
    /\ refunds' = [refunds EXCEPT ![call.booking].succeeded = @ + 1]
    /\ pay' = [pay EXCEPT ![call.booking] = "REFUNDED"]
    /\ \/ /\ call.op = "refundFull"
          /\ status' = [status EXCEPT ![call.booking] = "REFUNDED"]
          /\ Emit(call.booking, {"payment.refund_requested", "booking.refunded",
                                 "payment.refunded"})
       \/ /\ call.op = "refundPart"
          /\ Emit(call.booking, {"payment.refund_requested", "payment.refunded"})
          /\ UNCHANGED status
    /\ Finish(call)
    /\ UNCHANGED <<stay, deadline, assessment, remaining, inFlight, staleWrite,
                   intent, charge, charged, sent, processed, announced>>

(* The others settle it when the provider says so.                         *)
CommitRefundRequest(call) ==
    /\ Provider = "STRIPE"
    /\ call.op \in {"refundFull", "refundPart"}
    /\ refunds' = [refunds EXCEPT ![call.booking].pending = @ + 1]
    /\ sent' = sent \cup {RefundEvent(call.booking)}
    /\ Emit(call.booking, {"payment.refund_requested"})
    /\ Finish(call)
    /\ UNCHANGED <<status, stay, deadline, assessment, remaining, inFlight,
                   staleWrite, pay, intent, charge, charged, processed,
                   announced>>

(* A transaction that rolls back: a failure, or P2002 on the event id.     *)
(* What the provider was asked to refund before that, it refunds.          *)
Drop(call) ==
    /\ Finish(call)
    /\ sent' \in IF call.op \in {"refundFull", "refundPart"} /\ Provider = "STRIPE"
                 THEN {sent, sent \cup {RefundEvent(call.booking)}} ELSE {sent}
    /\ UNCHANGED <<vars, pay, intent, charge, refunds, charged, processed,
                   announced>>

-----------------------------------------------------------------------------

InventoryStep == Next /\ UNCHANGED payVars

WebhookCommit(call) ==
    \/ CommitSucceeded(call)
    \/ CommitFailed(call)
    \/ CommitIgnored(call)
    \/ CommitRefunded(call)

PayNext ==
    \/ InventoryStep
    \/ \E b \in Bookings :
          \/ CreateIntent(b)
          \/ \E i \in Intents : GuestPays(b, i) \/ GuestFailsToPay(b, i)
    \/ \E w \in Workers :
          \/ \E e \in sent : BeginWebhook(w, e)
          \/ \E b \in Bookings :
                \/ BeginCancelPaid(w, b)
                \/ \E op \in {"refundFull", "refundPart"} : BeginRefund(w, b, op)
    \/ \E call \in serving :
          \/ LockPayment(call)
          \/ WebhookCommit(call)
          \/ ReadPayments(call)
          \/ CommitCancelPaid(call)
          \/ CommitMockRefund(call)
          \/ CommitRefundRequest(call)
          \/ Drop(call)

PaySpec == PayInit /\ [][PayNext]_allVars

(* Assumption on the deployment: what delivers the notifications repeats   *)
(* each until it is accepted.  Nothing in the repository does so for MOCK. *)
Redelivers(e) == SF_allVars(\E w \in Workers : e \in sent /\ BeginWebhook(w, e))

(* Neither the workers nor the database turn an event away every time.     *)
Served(e) ==
    /\ SF_allVars(\E call \in serving : call.event = e /\ LockPayment(call))
    /\ SF_allVars(\E call \in serving : call.event = e /\ WebhookCommit(call))

(* A transaction left open times out, which frees its worker.              *)
TimesOut(w) == WF_allVars(\E call \in serving : call.by = w /\ Drop(call))

PayLiveSpec ==
    /\ PaySpec
    /\ \A w \in Workers : TimesOut(w)
    /\ \A e \in Notification : e.name \in SuccessEvents => Redelivers(e) /\ Served(e)

-----------------------------------------------------------------------------
(* Properties.                                                             *)

PayTypeOK ==
    /\ TypeOK
    /\ pay \in [Bookings -> PaymentStatus]
    /\ intent \in [Bookings -> 0 .. MaxIntents]
    /\ charge \in [Bookings -> 0 .. MaxIntents]
    /\ refunds \in [Bookings -> [pending : Nat, succeeded : Nat]]
    /\ charged \in [Bookings -> SUBSET Intents]
    /\ sent \subseteq Notification
    /\ processed \subseteq Notification
    /\ serving \subseteq PayRequest
    /\ announced \in [Bookings -> Nat]

(* Redeliveries, also concurrent ones, count once: every payment.succeeded *)
(* of a booking stands for a different event of ProcessedWebhook.          *)
OneEffectPerEvent ==
    \A b \in Bookings :
        announced[b] <=
            Cardinality({e \in processed : e.booking = b /\ e.name \in SuccessEvents})

(* A booking is settled only by money that arrived or by a reviewer.       *)
PaidOrApproved ==
    \A b \in Bookings :
        status[b] \in {"PAID", "CONFIRMED"}
            => announced[b] > 0 \/ assessment[b] = "APPROVED"

(* A payment that was refunded does not succeed any more, though a success *)
(* that was read before may be committed late: the one event id of a MOCK  *)
(* charge stops it.  (The two of a STRIPE charge do not.)                  *)
RefundedStaysRefunded ==
    [][\A b \in Bookings : pay[b] = "REFUNDED" => pay'[b] # "SUCCEEDED"]_allVars

(* Money that the provider took is announced to the saga in the end, as    *)
(* long as the intent it was paid for is the payment's: in a deployment    *)
(* that lets the notifications in and whose provider repeats them.         *)
MoneyAnnounced ==
    Reachable => \A b \in Bookings : charged[b] # {} ~> announced[b] > 0

-----------------------------------------------------------------------------
(* What a test says and the webhook does not keep.                         *)

(* bookings.service.spec.ts:420, "an overdue HOLD becomes CANCELLED and    *)
(* returns its nights": it does not occupy them again afterwards.          *)
ExpiredGivesUpNights ==
    [][\A b \in Bookings :
          status[b] = "CANCELLED" /\ "booking.expired" \in emitted[b] => ~Occupying(b)']_allVars

-----------------------------------------------------------------------------
(* Theorems.  What the webhook keeps for every provider, and for any       *)
(* number of bookings, workers, intents, deliveries and reviewers.         *)

Counted(b) == {e \in processed : e.booking = b /\ e.name \in SuccessEvents}

(* The types these properties need; a request knows the booking of its     *)
(* event, and only a success locks the payment.                            *)
MoneyTyped ==
    /\ status \in [Bookings -> Status]
    /\ assessment \in [Bookings -> Decision]
    /\ announced \in [Bookings -> Nat]
    /\ inFlight \subseteq Request
    /\ \A e \in sent : e.booking \in Bookings
    /\ IsFiniteSet(processed)

RequestsTyped ==
    \A call \in serving :
        /\ call = [by |-> call.by, op |-> call.op, booking |-> call.booking, event |-> call.event,
                   pc |-> call.pc, seenPay |-> call.seenPay, seenBooking |-> call.seenBooking]
        /\ call.booking \in Bookings
        /\ call.op = "webhook" => call.event.booking = call.booking
        /\ call.pc = "locked" => call.event.name \in SuccessEvents

MoneyInv == MoneyTyped /\ RequestsTyped /\ OneEffectPerEvent /\ PaidOrApproved

LEMMA MoneyInitInv == PayInit => MoneyInv
<1> SUFFICES ASSUME PayInit PROVE MoneyInv
    OBVIOUS
<1>1. MoneyTyped
    BY FS_EmptySet DEF PayInit, Init, MoneyTyped, Status, Decision
<1>2. RequestsTyped
    BY DEF PayInit, RequestsTyped
<1>3. OneEffectPerEvent
    <2> SUFFICES ASSUME NEW b \in Bookings
                 PROVE  announced[b] <= Cardinality(Counted(b))
        BY DEF OneEffectPerEvent, Counted
    <2>1. Counted(b) = {} /\ announced[b] = 0
        BY DEF PayInit, Counted
    <2>2. QED
        BY <2>1, FS_EmptySet
<1>4. PaidOrApproved
    BY DEF PayInit, Init, PaidOrApproved
<1>5. QED
    BY <1>1, <1>2, <1>3, <1>4 DEF MoneyInv

(* Recording an event never takes one away from a booking, and adds one to *)
(* the booking of a success.                                               *)
LEMMA RecordingCounts ==
    ASSUME NEW call, IsFiniteSet(processed), Notice(call), NEW b \in Bookings
    PROVE  /\ IsFiniteSet(processed')
           /\ Cardinality(Counted(b)) \in Nat
           /\ Cardinality(Counted(b)') \in Nat
           /\ Cardinality(Counted(b)) <= Cardinality(Counted(b)')
           /\ call.event.name \in SuccessEvents /\ call.event.booking = b =>
                 Cardinality(Counted(b)') = Cardinality(Counted(b)) + 1
<1>1. processed' = processed \cup {call.event} /\ call.event \notin processed
    BY DEF Notice
<1>2. IsFiniteSet(processed')
    BY <1>1, FS_AddElement
<1>3. IsFiniteSet(Counted(b)) /\ IsFiniteSet(Counted(b)')
    BY <1>2, FS_Subset DEF Counted
<1>4. Counted(b) \subseteq Counted(b)'
    BY <1>1 DEF Counted, SuccessEvents
<1>5. Cardinality(Counted(b)) \in Nat /\ Cardinality(Counted(b)') \in Nat
    BY <1>3, FS_CardinalityType
<1>6. Cardinality(Counted(b)) <= Cardinality(Counted(b)')
    BY <1>3, <1>4, FS_Subset
<1>7. ASSUME call.event.name \in SuccessEvents, call.event.booking = b
      PROVE  Cardinality(Counted(b)') = Cardinality(Counted(b)) + 1
    <2>1. Counted(b)' = Counted(b) \cup {call.event}
        BY <1>1, <1>7 DEF Counted, SuccessEvents
    <2>2. call.event \notin Counted(b)
        BY <1>1 DEF Counted
    <2>3. QED
        BY <2>1, <2>2, <1>3, FS_AddElement
<1>8. QED
    BY <1>2, <1>5, <1>6, <1>7

(* The bookings' own steps neither announce nor settle anything without a  *)
(* reviewer's approval.                                                    *)
LEMMA InventoryKeepsMoney == MoneyInv /\ InventoryStep => MoneyInv'
<1> SUFFICES ASSUME MoneyInv, InventoryStep PROVE MoneyInv'
    OBVIOUS
<1>1. UNCHANGED payVars
    BY DEF InventoryStep
<1>2. OneEffectPerEvent' /\ RequestsTyped'
    BY <1>1 DEF MoneyInv, payVars, OneEffectPerEvent, RequestsTyped, SuccessEvents
<1>3. \A req \in inFlight : req.booking \in Bookings
    BY DEF MoneyInv, MoneyTyped, Request
<1> DEFINE Kept == /\ status' \in [Bookings -> Status]
                   /\ assessment' \in [Bookings -> Decision]
                   /\ inFlight' \subseteq Request
                   /\ PaidOrApproved'
<1>4. SUFFICES Kept
    BY <1>1, <1>2 DEF MoneyInv, MoneyTyped, payVars
<1> USE <1>1 DEF MoneyInv, MoneyTyped, PaidOrApproved, payVars, Status, Decision
<1>5. ASSUME NEW b \in Bookings, NEW nights \in Stays, HoldAutoDeclined(b, nights) PROVE Kept
    BY <1>5 DEF HoldAutoDeclined
<1>6. ASSUME NEW b \in Bookings, NEW nights \in Stays, NEW risk, Hold(b, nights, risk) PROVE Kept
    BY <1>6 DEF Hold
<1>7. ASSUME NEW b \in Bookings, CancelHold(b) \/ ExpireHold(b) PROVE Kept
    BY <1>7 DEF CancelHold, ExpireHold, Withdraw
<1>8. ASSUME NEW b \in Bookings, DeadlinePasses(b) PROVE Kept
    BY <1>8 DEF DeadlinePasses
<1>9. ASSUME NEW req \in Request, ReadReview(req) PROVE Kept
    BY <1>9 DEF ReadReview
<1>10. ASSUME NEW req \in inFlight, Approve(req) PROVE Kept
    BY <1>3, <1>10 DEF Approve, CommitReview
<1>11. ASSUME NEW req \in inFlight, Decline(req) \/ DecideRejected(req) PROVE Kept
    BY <1>3, <1>11 DEF Decline, DecideRejected, CommitReview
<1>12. ASSUME NEW req \in inFlight, DecideApproved(req) PROVE Kept
    BY <1>3, <1>12 DEF DecideApproved, CommitReview
<1>13. ASSUME NEW req \in inFlight, RollBack(req) PROVE Kept
    BY <1>13 DEF RollBack
<1>14. QED
    BY <1>5, <1>6, <1>7, <1>8, <1>9, <1>10, <1>11, <1>12, <1>13 DEF InventoryStep, Next

(* A step that records no event, announces nothing and settles nothing.    *)
LEMMA QuietStep ==
    ASSUME MoneyInv, RequestsTyped',
           UNCHANGED <<assessment, inFlight, processed, announced>>,
           status' \in [Bookings -> Status],
           \A b \in Bookings : status'[b] \in {"PAID", "CONFIRMED"} => status'[b] = status[b],
           \A e \in sent' : e.booking \in Bookings
    PROVE  MoneyInv'
<1>1. MoneyTyped'
    BY DEF MoneyInv, MoneyTyped
<1>2. OneEffectPerEvent'
    BY DEF MoneyInv, OneEffectPerEvent, SuccessEvents
<1>3. PaidOrApproved'
    BY DEF MoneyInv, PaidOrApproved
<1>4. QED
    BY <1>1, <1>2, <1>3 DEF MoneyInv

(* The commit of a webhook that announces nothing.                         *)
LEMMA RecordingStep ==
    ASSUME MoneyInv, NEW call \in serving, Notice(call), Finish(call),
           UNCHANGED <<status, assessment, inFlight, announced, sent>>
    PROVE  MoneyInv'
<1> USE DEF MoneyInv
<1>1. RequestsTyped'
    BY DEF Finish, RequestsTyped, SuccessEvents
<1>2. MoneyTyped'
    BY FS_AddElement DEF MoneyTyped, Notice
<1>3. OneEffectPerEvent'
    <2> SUFFICES ASSUME NEW b \in Bookings
                 PROVE  announced'[b] <= Cardinality(Counted(b)')
        BY DEF OneEffectPerEvent, Counted
    <2>1. announced[b] \in Nat /\ announced[b] <= Cardinality(Counted(b))
        BY DEF MoneyTyped, OneEffectPerEvent, Counted
    <2>2. /\ Cardinality(Counted(b)) \in Nat /\ Cardinality(Counted(b)') \in Nat
          /\ Cardinality(Counted(b)) <= Cardinality(Counted(b)')
        BY RecordingCounts DEF MoneyTyped
    <2>3. QED
        BY <2>1, <2>2
<1>4. PaidOrApproved'
    BY DEF PaidOrApproved
<1>5. QED
    BY <1>1, <1>2, <1>3, <1>4

(* The one step that announces money: it settles its own booking only, and *)
(* the event it counts for was never recorded before.                      *)
LEMMA SuccessStep ==
    ASSUME MoneyInv, NEW call \in serving, CommitSucceeded(call)
    PROVE  MoneyInv'
<1> USE DEF MoneyInv
<1>1. /\ call.booking \in Bookings
      /\ call.event.booking = call.booking
      /\ call.event.name \in SuccessEvents
    BY DEF CommitSucceeded, RequestsTyped
<1>2. Notice(call) /\ Finish(call) /\ UNCHANGED <<assessment, inFlight, sent>>
    BY DEF CommitSucceeded
<1>3. announced' = [announced EXCEPT ![call.booking] = @ + 1]
    BY DEF CommitSucceeded
<1>4. \/ status' = status
      \/ status' = [status EXCEPT ![call.booking] = Settled]
    BY DEF CommitSucceeded, Confirm
<1>5. RequestsTyped'
    BY <1>2 DEF Finish, RequestsTyped, SuccessEvents
<1>6. MoneyTyped'
    <2>1. status' \in [Bookings -> Status]
        BY <1>4 DEF MoneyTyped, Status, Settled
    <2>2. announced' \in [Bookings -> Nat]
        BY <1>1, <1>3 DEF MoneyTyped
    <2>3. IsFiniteSet(processed')
        BY <1>2, FS_AddElement DEF MoneyTyped, Notice
    <2>4. QED
        BY <1>2, <2>1, <2>2, <2>3 DEF MoneyTyped
<1>7. OneEffectPerEvent'
    <2> SUFFICES ASSUME NEW b \in Bookings
                 PROVE  announced'[b] <= Cardinality(Counted(b)')
        BY DEF OneEffectPerEvent, Counted
    <2>1. announced[b] \in Nat /\ announced[b] <= Cardinality(Counted(b))
        BY DEF MoneyTyped, OneEffectPerEvent, Counted
    <2>2. /\ Cardinality(Counted(b)) \in Nat /\ Cardinality(Counted(b)') \in Nat
          /\ Cardinality(Counted(b)) <= Cardinality(Counted(b)')
          /\ call.booking = b => Cardinality(Counted(b)') = Cardinality(Counted(b)) + 1
        BY <1>1, <1>2, RecordingCounts DEF MoneyTyped
    <2>3. announced'[b] = IF call.booking = b THEN announced[b] + 1 ELSE announced[b]
        BY <1>3 DEF MoneyTyped
    <2>4. QED
        BY <2>1, <2>2, <2>3
<1>8. PaidOrApproved'
    <2>1. ASSUME NEW b \in Bookings, b # call.booking
          PROVE  status'[b] = status[b] /\ announced'[b] = announced[b]
        BY <1>3, <1>4, <2>1 DEF MoneyTyped
    <2>2. announced'[call.booking] > 0
        BY <1>1, <1>3 DEF MoneyTyped
    <2>3. QED
        BY <1>2, <2>1, <2>2 DEF PaidOrApproved
<1>9. QED
    BY <1>5, <1>6, <1>7, <1>8

LEMMA MoneyStepInv == MoneyInv /\ [PayNext]_allVars => MoneyInv'
<1> SUFFICES ASSUME MoneyInv, [PayNext]_allVars PROVE MoneyInv'
    OBVIOUS
<1>1. /\ RequestsTyped
      /\ status \in [Bookings -> Status]
      /\ \A e \in sent : e.booking \in Bookings
    BY DEF MoneyInv, MoneyTyped
<1>2. CASE InventoryStep
    BY <1>2, InventoryKeepsMoney
<1>3. ASSUME NEW b \in Bookings, CreateIntent(b) PROVE MoneyInv'
    BY <1>1, <1>3, QuietStep DEF CreateIntent, RequestsTyped, SuccessEvents
<1>4. ASSUME NEW b \in Bookings, NEW i \in Intents, GuestPays(b, i) \/ GuestFailsToPay(b, i)
      PROVE  MoneyInv'
    <2>1. \A e \in sent' : e.booking \in Bookings
        BY <1>1, <1>4 DEF GuestPays, GuestFailsToPay
    <2>2. UNCHANGED <<vars, serving, processed, announced>>
        BY <1>4 DEF GuestPays, GuestFailsToPay
    <2>3. QED
        BY <1>1, <2>1, <2>2, QuietStep DEF vars, RequestsTyped, SuccessEvents
<1>5. ASSUME NEW w \in Workers, NEW e \in sent, BeginWebhook(w, e) PROVE MoneyInv'
    <2>1. RequestsTyped'
        BY <1>1, <1>5 DEF BeginWebhook, RequestsTyped, SuccessEvents
    <2>2. QED
        BY <1>1, <1>5, <2>1, QuietStep DEF BeginWebhook, vars
<1>6. ASSUME NEW w \in Workers, NEW b \in Bookings,
             \/ BeginCancelPaid(w, b)
             \/ \E op \in {"refundFull", "refundPart"} : BeginRefund(w, b, op)
      PROVE  MoneyInv'
    <2>1. RequestsTyped'
        BY <1>1, <1>6 DEF BeginCancelPaid, BeginRefund, RequestsTyped, SuccessEvents
    <2>2. QED
        BY <1>1, <1>6, <2>1, QuietStep DEF BeginCancelPaid, BeginRefund, vars
<1>7. ASSUME NEW call \in serving, LockPayment(call) \/ ReadPayments(call) PROVE MoneyInv'
    <2>1. PICK later :
                 /\ serving' = (serving \ {call}) \cup {later}
                 /\ \/ call.event.name \in SuccessEvents
                       /\ later = [call EXCEPT !.pc = "locked", !.seenBooking = status[call.booking]]
                    \/ later = [call EXCEPT !.seenPay = pay[call.booking]]
        BY <1>7 DEF LockPayment, ReadPayments
    <2>2. RequestsTyped'
        <3>1. /\ later = [by |-> call.by, op |-> call.op, booking |-> call.booking,
                          event |-> call.event, pc |-> later.pc, seenPay |-> later.seenPay,
                          seenBooking |-> later.seenBooking]
              /\ later.pc = "locked" => call.pc = "locked" \/ call.event.name \in SuccessEvents
            <4>1. call = [by |-> call.by, op |-> call.op, booking |-> call.booking,
                          event |-> call.event, pc |-> call.pc, seenPay |-> call.seenPay,
                          seenBooking |-> call.seenBooking]
                BY <1>1 DEF RequestsTyped
            <4>2. CASE call.event.name \in SuccessEvents
                       /\ later = [call EXCEPT !.pc = "locked", !.seenBooking = status[call.booking]]
                BY <4>1, <4>2
            <4>3. CASE later = [call EXCEPT !.seenPay = pay[call.booking]]
                BY <4>1, <4>3
            <4>4. QED
                BY <2>1, <4>2, <4>3
        <3>2. QED
            BY <1>1, <2>1, <3>1 DEF RequestsTyped, SuccessEvents
    <2>3. QED
        BY <1>1, <1>7, <2>2, QuietStep DEF LockPayment, ReadPayments, vars
<1>8. ASSUME NEW call \in serving, WebhookCommit(call) PROVE MoneyInv'
    <2>1. CASE CommitSucceeded(call)
        BY <2>1, SuccessStep
    <2>2. CASE CommitFailed(call)
        BY <2>2, RecordingStep DEF CommitFailed
    <2>3. CASE CommitIgnored(call)
        BY <2>3, RecordingStep DEF CommitIgnored, vars
    <2>4. CASE CommitRefunded(call)
        BY <2>4, RecordingStep DEF CommitRefunded
    <2>5. QED
        BY <1>8, <2>1, <2>2, <2>3, <2>4 DEF WebhookCommit
<1>9. ASSUME NEW call \in serving, CommitCancelPaid(call) \/ CommitMockRefund(call)
      PROVE  MoneyInv'
    <2>1. RequestsTyped'
        BY <1>1, <1>9 DEF CommitCancelPaid, CommitMockRefund, Finish, RequestsTyped, SuccessEvents
    <2>2. call.booking \in Bookings
        BY <1>1 DEF RequestsTyped
    <2>3. status' = status \/ status' = [status EXCEPT ![call.booking] = "REFUNDED"]
        BY <1>9 DEF CommitCancelPaid, CommitMockRefund
    <2>4. /\ status' \in [Bookings -> Status]
          /\ \A b \in Bookings : status'[b] \in {"PAID", "CONFIRMED"} => status'[b] = status[b]
        BY <1>1, <2>2, <2>3 DEF Status
    <2>5. QED
        BY <1>1, <1>9, <2>1, <2>4, QuietStep DEF CommitCancelPaid, CommitMockRefund
<1>10. ASSUME NEW call \in serving, CommitRefundRequest(call) \/ Drop(call) PROVE MoneyInv'
    <2>1. RequestsTyped'
        BY <1>1, <1>10 DEF CommitRefundRequest, Drop, Finish, RequestsTyped, SuccessEvents
    <2>2. \A e \in sent' : e.booking \in Bookings
        <3>1. call.booking \in Bookings
            BY <1>1 DEF RequestsTyped
        <3>2. sent' \in {sent, sent \cup {RefundEvent(call.booking)}}
            BY <1>10 DEF CommitRefundRequest, Drop
        <3>3. QED
            BY <1>1, <3>1, <3>2 DEF RefundEvent
    <2>3. UNCHANGED <<status, assessment, inFlight, processed, announced>>
        BY <1>10 DEF CommitRefundRequest, Drop, vars
    <2>4. QED
        BY <1>1, <2>1, <2>2, <2>3, QuietStep
<1>11. CASE UNCHANGED allVars
    BY <1>1, <1>11, QuietStep DEF allVars, vars, payVars, RequestsTyped, SuccessEvents
<1>12. QED
    BY <1>2, <1>3, <1>4, <1>5, <1>6, <1>7, <1>8, <1>9, <1>10, <1>11 DEF PayNext

LEMMA MoneyAlways == PaySpec => []MoneyInv
BY MoneyInitInv, MoneyStepInv, PTL DEF PaySpec

(* However often and at the same time the provider delivers an event, it   *)
(* announces the money of its booking once.                                *)
THEOREM EffectsCounted == PaySpec => []OneEffectPerEvent
<1>1. MoneyInv => OneEffectPerEvent
    BY DEF MoneyInv
<1>2. QED
    BY <1>1, MoneyAlways, PTL

(* No order of holds, reviews, payments, cancellations and refunds settles *)
(* a booking without money or an approval.                                 *)
THEOREM SettledForCause == PaySpec => []PaidOrApproved
<1>1. MoneyInv => PaidOrApproved
    BY DEF MoneyInv
<1>2. QED
    BY <1>1, MoneyAlways, PTL

-----------------------------------------------------------------------------
(* A charge with one event id: MOCK, and one intent for each booking.      *)

OneIdPerCharge == Provider = "MOCK" /\ MaxIntents = 1

SuccessOf(b) == [name |-> "payment.succeeded", booking |-> b, intent |-> 1]

(* Who gives money back has seen that the payment's success is recorded.   *)
KnowsPayment(call) ==
    /\ call.op = "webhook" => call.event \in sent
    /\ call.op = "cancelPaid" /\ call.seenPay = "SUCCEEDED" => SuccessOf(call.booking) \in processed
    /\ call.op \in {"refundFull", "refundPart"} => SuccessOf(call.booking) \in processed

(* MOCK sends no refunds, and a payment's success is its one event.        *)
OneSuccess(e) ==
    /\ e.name # "charge.refunded"
    /\ e.name = "payment.succeeded" => e = SuccessOf(e.booking)

SettledIsKnown ==
    /\ pay \in [Bookings -> PaymentStatus]
    /\ \A b \in Bookings : pay[b] \in {"SUCCEEDED", "REFUNDED"} => SuccessOf(b) \in processed
    /\ \A e \in sent : OneSuccess(e)
    /\ \A call \in serving : KnowsPayment(call)

SettledInv == MoneyInv /\ SettledIsKnown

LEMMA SettledInit == PayInit => SettledInv
<1> SUFFICES ASSUME PayInit PROVE SettledIsKnown
    BY MoneyInitInv DEF SettledInv
<1>1. QED
    BY DEF PayInit, SettledIsKnown, PaymentStatus

(* What a step must keep: it forgets no event, and settles or lets in      *)
(* nobody who does not know the payment.                                   *)
LEMMA SettledKeeps ==
    ASSUME SettledInv, processed \subseteq processed', sent \subseteq sent',
           pay' \in [Bookings -> PaymentStatus],
           \A b \in Bookings : pay'[b] \in {"SUCCEEDED", "REFUNDED"} =>
               pay[b] \in {"SUCCEEDED", "REFUNDED"} \/ SuccessOf(b) \in processed',
           \A e \in sent' : e \in sent \/ OneSuccess(e),
           \A call \in serving' : call \in serving \/ KnowsPayment(call)'
    PROVE  SettledIsKnown'
<1>1. \A call \in serving : KnowsPayment(call)'
    BY DEF SettledInv, SettledIsKnown, KnowsPayment, SuccessOf
<1>2. \A e \in sent' : OneSuccess(e)
    BY DEF SettledInv, SettledIsKnown
<1>3. \A b \in Bookings : pay'[b] \in {"SUCCEEDED", "REFUNDED"} => SuccessOf(b) \in processed'
    BY DEF SettledInv, SettledIsKnown
<1>4. QED
    BY <1>1, <1>2, <1>3 DEF SettledIsKnown, OneSuccess, SuccessOf

(* The webhook's commit of a success: it was not recorded before, so the   *)
(* payment had not been refunded.                                          *)
LEMMA SuccessIsNew ==
    ASSUME OneIdPerCharge, SettledInv, NEW call \in serving, CommitSucceeded(call)
    PROVE  /\ call.booking \in Bookings
           /\ SuccessOf(call.booking) \in processed'
           /\ pay[call.booking] \notin {"SUCCEEDED", "REFUNDED"}
<1>1. /\ call.booking \in Bookings
      /\ call.event.booking = call.booking
      /\ call.event.name = "payment.succeeded"
      /\ call.event \in sent
    BY DEF SettledInv, MoneyInv, RequestsTyped, SettledIsKnown, KnowsPayment, CommitSucceeded,
           OneIdPerCharge, SuccessEvents
<1>2. call.event = SuccessOf(call.booking)
    BY <1>1 DEF SettledInv, SettledIsKnown, OneSuccess
<1>3. call.event \notin processed /\ call.event \in processed'
    BY DEF CommitSucceeded, Notice
<1>4. QED
    BY <1>1, <1>2, <1>3 DEF SettledInv, SettledIsKnown

LEMMA SettledStep ==
    ASSUME OneIdPerCharge, SettledInv, [PayNext]_allVars
    PROVE  SettledInv'
<1> SUFFICES SettledIsKnown'
    BY MoneyStepInv DEF SettledInv
<1>1. /\ pay \in [Bookings -> PaymentStatus]
      /\ \A b \in Bookings : pay[b] \in {"SUCCEEDED", "REFUNDED"} => SuccessOf(b) \in processed
      /\ \A call \in serving : KnowsPayment(call) /\ call.booking \in Bookings
    BY DEF SettledInv, SettledIsKnown, MoneyInv, RequestsTyped
<1>2. ASSUME UNCHANGED payVars PROVE SettledIsKnown'
    BY <1>1, <1>2, SettledKeeps DEF payVars
<1>3. ASSUME NEW b \in Bookings, CreateIntent(b) PROVE SettledIsKnown'
    <2>1. pay' = [pay EXCEPT ![b] = "PENDING"] /\ UNCHANGED <<processed, sent, serving>>
        BY <1>3 DEF CreateIntent
    <2>2. QED
        BY <1>1, <2>1, SettledKeeps DEF PaymentStatus
<1>4. ASSUME NEW b \in Bookings, NEW i \in Intents, GuestPays(b, i) \/ GuestFailsToPay(b, i)
      PROVE  SettledIsKnown'
    <2>1. i = 1
        BY DEF Intents, OneIdPerCharge
    <2>2. PICK name \in {"payment.succeeded", "payment.failed"} :
              sent' = sent \cup [name : {name}, booking : {b}, intent : {i}]
        BY <1>4 DEF GuestPays, GuestFailsToPay, SuccessEvents, OneIdPerCharge
    <2>3. \A e \in sent' : e \in sent \/ OneSuccess(e)
        BY <2>1, <2>2 DEF OneSuccess, SuccessOf
    <2>4. UNCHANGED <<pay, processed, serving>>
        BY <1>4 DEF GuestPays, GuestFailsToPay
    <2>5. sent \subseteq sent'
        BY <2>2
    <2>6. QED
        BY <1>1, <2>3, <2>4, <2>5, SettledKeeps
<1>5. ASSUME NEW w \in Workers, NEW e \in sent, BeginWebhook(w, e) PROVE SettledIsKnown'
    <2>1. PICK later :
              /\ serving' = serving \cup {later}
              /\ later = [by |-> w, op |-> "webhook", booking |-> e.booking, event |-> e, pc |-> "read",
                          seenPay |-> pay[e.booking], seenBooking |-> "unread"]
        BY <1>5 DEF BeginWebhook
    <2>2. UNCHANGED <<pay, processed, sent>>
        BY <1>5 DEF BeginWebhook
    <2>3. later.op = "webhook" /\ later.event \in sent'
        BY <2>1, <2>2
    <2>4. KnowsPayment(later)'
        BY <2>3 DEF KnowsPayment
    <2>5. QED
        BY <1>1, <2>1, <2>2, <2>4, SettledKeeps
<1>6. ASSUME NEW w \in Workers, NEW b \in Bookings, BeginCancelPaid(w, b) PROVE SettledIsKnown'
    <2>1. PICK later :
              /\ serving' = serving \cup {later}
              /\ later = [by |-> w, op |-> "cancelPaid", booking |-> b, event |-> NoEvent, pc |-> "read",
                          seenPay |-> "unread", seenBooking |-> status[b]]
        BY <1>6 DEF BeginCancelPaid
    <2>2. UNCHANGED <<pay, processed, sent>>
        BY <1>6 DEF BeginCancelPaid
    <2>3. later.op = "cancelPaid" /\ later.seenPay = "unread"
        BY <2>1
    <2>4. KnowsPayment(later)'
        BY <2>3 DEF KnowsPayment
    <2>5. QED
        BY <1>1, <2>1, <2>2, <2>4, SettledKeeps
<1>7. ASSUME NEW w \in Workers, NEW b \in Bookings, NEW op \in {"refundFull", "refundPart"},
             BeginRefund(w, b, op)
      PROVE  SettledIsKnown'
    <2>1. PICK later :
              /\ serving' = serving \cup {later}
              /\ later = [by |-> w, op |-> op, booking |-> b, event |-> NoEvent, pc |-> "read",
                          seenPay |-> pay[b], seenBooking |-> status[b]]
        BY <1>7 DEF BeginRefund
    <2>2. pay[b] = "SUCCEEDED" /\ UNCHANGED <<pay, processed, sent>>
        BY <1>7 DEF BeginRefund
    <2>3. later.op = op /\ later.booking = b /\ SuccessOf(b) \in processed'
        BY <1>1, <2>1, <2>2
    <2>4. KnowsPayment(later)'
        BY <2>3 DEF KnowsPayment, SuccessOf
    <2>5. QED
        BY <1>1, <2>1, <2>2, <2>4, SettledKeeps
<1>8. ASSUME NEW call \in serving, LockPayment(call) \/ ReadPayments(call) PROVE SettledIsKnown'
    <2>1. PICK later :
                 /\ serving' = (serving \ {call}) \cup {later}
                 /\ \/ later = [call EXCEPT !.pc = "locked", !.seenBooking = status[call.booking]]
                    \/ later = [call EXCEPT !.seenPay = pay[call.booking]]
        BY <1>8 DEF LockPayment, ReadPayments
    <2>2. UNCHANGED <<pay, processed, sent>>
        BY <1>8 DEF LockPayment, ReadPayments
    <2>3. call = [by |-> call.by, op |-> call.op, booking |-> call.booking,
                  event |-> call.event, pc |-> call.pc, seenPay |-> call.seenPay,
                  seenBooking |-> call.seenBooking]
        BY DEF SettledInv, MoneyInv, RequestsTyped
    <2>4. /\ later.op = call.op /\ later.booking = call.booking /\ later.event = call.event
          /\ later.seenPay = call.seenPay \/ later.seenPay = pay[call.booking]
        <3>1. CASE later = [call EXCEPT !.pc = "locked", !.seenBooking = status[call.booking]]
            BY <2>3, <3>1
        <3>2. CASE later = [call EXCEPT !.seenPay = pay[call.booking]]
            BY <2>3, <3>2
        <3>3. QED
            BY <2>1, <3>1, <3>2
    <2>5. KnowsPayment(later)'
        BY <1>1, <2>2, <2>4 DEF KnowsPayment, SuccessOf
    <2>6. QED
        BY <1>1, <2>1, <2>2, <2>5, SettledKeeps
<1>9. ASSUME NEW call \in serving, CommitSucceeded(call) PROVE SettledIsKnown'
    <2>1. /\ pay' = [pay EXCEPT ![call.booking] = "SUCCEEDED"]
          /\ serving' \subseteq serving
          /\ processed \subseteq processed'
          /\ sent' = sent
        BY <1>9 DEF CommitSucceeded, Notice, Finish
    <2>2. pay' \in [Bookings -> PaymentStatus]
        BY <1>1, <2>1 DEF PaymentStatus
    <2>3. \A b \in Bookings : pay'[b] \in {"SUCCEEDED", "REFUNDED"} =>
              pay[b] \in {"SUCCEEDED", "REFUNDED"} \/ SuccessOf(b) \in processed'
        BY <1>1, <1>9, <2>1, SuccessIsNew
    <2>4. QED
        BY <2>1, <2>2, <2>3, SettledKeeps
<1>10. ASSUME NEW call \in serving, CommitFailed(call) \/ CommitIgnored(call)
       PROVE  SettledIsKnown'
    <2>1. /\ pay' = pay \/ pay' = [pay EXCEPT ![call.booking] = "FAILED"]
          /\ serving' \subseteq serving
          /\ processed \subseteq processed'
          /\ sent' = sent
        BY <1>10 DEF CommitFailed, CommitIgnored, Notice, Finish
    <2>2. pay' \in [Bookings -> PaymentStatus]
        BY <1>1, <2>1 DEF PaymentStatus
    <2>3. \A b \in Bookings : pay'[b] \in {"SUCCEEDED", "REFUNDED"} =>
              pay[b] \in {"SUCCEEDED", "REFUNDED"}
        BY <1>1, <2>1
    <2>4. QED
        BY <2>1, <2>2, <2>3, SettledKeeps
<1>11. ASSUME NEW call \in serving, CommitRefunded(call) PROVE FALSE
    <2>1. call.event \in sent /\ call.event.name = "charge.refunded"
        BY <1>1, <1>11 DEF CommitRefunded, KnowsPayment
    <2>2. QED
        BY <2>1 DEF SettledInv, SettledIsKnown, OneSuccess
<1>12. ASSUME NEW call \in serving, CommitCancelPaid(call) \/ CommitMockRefund(call)
       PROVE  SettledIsKnown'
    <2>1. /\ \/ pay' = pay
             \/ /\ pay' = [pay EXCEPT ![call.booking] = "REFUNDED"]
                /\ SuccessOf(call.booking) \in processed
          /\ serving' \subseteq serving
          /\ UNCHANGED <<processed, sent>>
        BY <1>1, <1>12 DEF CommitCancelPaid, CommitMockRefund, Finish, KnowsPayment
    <2>2. pay' \in [Bookings -> PaymentStatus]
        BY <1>1, <2>1 DEF PaymentStatus
    <2>3. \A b \in Bookings : pay'[b] \in {"SUCCEEDED", "REFUNDED"} =>
              pay[b] \in {"SUCCEEDED", "REFUNDED"} \/ SuccessOf(b) \in processed'
        BY <1>1, <2>1
    <2>4. QED
        BY <2>1, <2>2, <2>3, SettledKeeps
<1>13. ASSUME NEW call \in serving, CommitRefundRequest(call) PROVE FALSE
    BY <1>13 DEF CommitRefundRequest, OneIdPerCharge
<1>14. ASSUME NEW call \in serving, Drop(call) PROVE SettledIsKnown'
    <2>1. serving' \subseteq serving /\ UNCHANGED <<pay, processed, sent>>
        BY <1>14 DEF Drop, Finish, OneIdPerCharge
    <2>2. QED
        BY <1>1, <2>1, SettledKeeps
<1>15. CASE UNCHANGED allVars
    BY <1>2, <1>15 DEF allVars
<1>16. QED
    BY <1>2, <1>3, <1>4, <1>5, <1>6, <1>7, <1>8, <1>9, <1>10, <1>11, <1>12, <1>13, <1>14, <1>15
    DEF PayNext, WebhookCommit, InventoryStep

(* Only the commit of a success makes a payment succeed.                   *)
LEMMA RefundedStep ==
    ASSUME OneIdPerCharge, SettledInv, [PayNext]_allVars,
           NEW b \in Bookings, pay[b] = "REFUNDED"
    PROVE  pay'[b] # "SUCCEEDED"
<1> SUFFICES ASSUME pay'[b] = "SUCCEEDED" PROVE FALSE
    OBVIOUS
<1>1. pay \in [Bookings -> PaymentStatus]
    BY DEF SettledInv, SettledIsKnown
<1>2. ASSUME NEW call \in serving, CommitSucceeded(call) PROVE FALSE
    <2>1. pay' = [pay EXCEPT ![call.booking] = "SUCCEEDED"]
        BY <1>2 DEF CommitSucceeded
    <2>2. call.booking = b
        BY <1>1, <2>1
    <2>3. QED
        BY <1>2, <2>2, SuccessIsNew
<1>3. ASSUME NEW c, NEW p, p # "SUCCEEDED", pay' = [pay EXCEPT ![c] = p] PROVE FALSE
    BY <1>1, <1>3
<1>4. CASE pay' = pay
    BY <1>4
<1>5. pay' = pay \/ (\E call \in serving : CommitSucceeded(call))
      \/ \E c : \E p \in {"PENDING", "FAILED", "REFUNDED"} : pay' = [pay EXCEPT ![c] = p]
    BY DEF PayNext, InventoryStep, payVars, allVars, CreateIntent, GuestPays, GuestFailsToPay,
           BeginWebhook, BeginCancelPaid, BeginRefund, LockPayment, WebhookCommit, CommitFailed,
           CommitIgnored, CommitRefunded, ReadPayments, CommitCancelPaid, CommitMockRefund,
           CommitRefundRequest, Drop
<1>6. QED
    BY <1>2, <1>3, <1>4, <1>5

(* With one event id for a charge, no late success revives a payment that  *)
(* was refunded: for any number of bookings, workers and deliveries.       *)
THEOREM RefundsLast ==
    ASSUME OneIdPerCharge
    PROVE  PaySpec => RefundedStaysRefunded
<1>1. SettledInv /\ [PayNext]_allVars => SettledInv'
    BY SettledStep
<1>2. SettledInv /\ [PayNext]_allVars
      => [\A b \in Bookings : pay[b] = "REFUNDED" => pay'[b] # "SUCCEEDED"]_allVars
    BY RefundedStep
<1>3. QED
    BY <1>1, <1>2, SettledInit, PTL DEF PaySpec, RefundedStaysRefunded
=============================================================================
