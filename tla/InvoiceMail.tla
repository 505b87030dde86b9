---------------------------- MODULE InvoiceMail -----------------------------
(***************************************************************************)
(* The invoice of one booking: the saga sends it when the booking is paid  *)
(* and when a review approves it, and POST /v1/invoices/:id/email sends it *)
(* on request.  The coordinator swallows what emailInvoice throws, and the *)
(* event counts as done; one that breaks off before is delivered again.    *)
(* payment.succeeded is bridged to a second booking.paid.                  *)
(***************************************************************************)
EXTENDS Integers, FiniteSets

CONSTANTS
    Clerks,     \* callers of the route
    MaxBroken   \* bound: deliveries that break off, calls that fail, and calls

ASSUME InvoiceAssumption == MaxBroken \in Nat /\ IsFiniteSet(Clerks) /\ "saga" \notin Clerks

VARIABLES
    setup,      \* AUTO_CONFIRM, an API key for SendGrid, an address to write to
    paidOnce,   \* of the two events of its own, those that are published already
    log,        \* of each topic, how many events are in it
    offset,     \* of each topic, how many are done
    sender,     \* the consumer and the clerks: where in emailInvoice, for which topic
    mails,      \* messages that SendGrid took
    records,    \* invoice.emailed events
    broken      \* history: broken deliveries, failed sendings, calls of the route

invoiceVars == <<setup, paidOnce, log, offset, sender, mails, records, broken>>

InvoiceTopics == {"booking.review_approved", "booking.paid", "payment.succeeded"}
Asking == {"booking.review_approved", "booking.paid"}
Senders == Clerks \cup {"saga"}
AtRest == [at |-> "rest", topic |-> "none"]
Trouble == broken.off + broken.failed + broken.calls

InvoiceInit ==
    /\ setup \in [autoConfirm : BOOLEAN, enabled : BOOLEAN, address : BOOLEAN]
    /\ paidOnce = {}
    /\ log = [t \in InvoiceTopics |-> 0]
    /\ offset = [t \in InvoiceTopics |-> 0]
    /\ sender = [w \in Senders |-> AtRest]
    /\ mails = 0
    /\ records = 0
    /\ broken = [off |-> 0, failed |-> 0, calls |-> 0]

Moves(w, at) == sender' = [sender EXCEPT ![w].at = at]

Breaks(what) == Trouble < MaxBroken /\ broken' = [broken EXCEPT ![what] = @ + 1]

-----------------------------------------------------------------------------

ReviewApproved ==
    /\ "approved" \notin paidOnce
    /\ paidOnce' = paidOnce \cup {"approved"}
    /\ log' = [log EXCEPT !["booking.review_approved"] = @ + 1]
    /\ UNCHANGED <<setup, offset, sender, mails, records, broken>>

(* The webhook: with PAYMENT_AUTO_CONFIRM the booking is CONFIRMED, which  *)
(* asks for no invoice, and without it booking.paid is published as well.  *)
PaymentSettles ==
    /\ "paid" \notin paidOnce
    /\ paidOnce' = paidOnce \cup {"paid"}
    /\ log' = [log EXCEPT !["payment.succeeded"] = @ + 1,
                          !["booking.paid"] = IF setup.autoConfirm THEN @ ELSE @ + 1]
    /\ UNCHANGED <<setup, offset, sender, mails, records, broken>>

DeliverEvent(t) ==
    /\ sender["saga"] = AtRest
    /\ offset[t] < log[t]
    /\ sender' = [sender EXCEPT !["saga"] =
           [at |-> IF t \in Asking THEN "send" ELSE "bridge", topic |-> t]]
    /\ UNCHANGED <<setup, paidOnce, log, offset, mails, records, broken>>

(* onPaymentSucceeded.                                                     *)
BridgeToPaid ==
    /\ sender["saga"].at = "bridge"
    /\ log' = [log EXCEPT !["booking.paid"] = @ + 1]
    /\ Moves("saga", "done")
    /\ UNCHANGED <<setup, paidOnce, offset, mails, records, broken>>

CallRoute(w) ==
    /\ sender[w] = AtRest
    /\ Breaks("calls")
    /\ Moves(w, "send")
    /\ UNCHANGED <<setup, paidOnce, log, offset, mails, records>>

(* The PDF is rendered as it is attached.  A disabled mailer returns       *)
(* without a word.                                                         *)
Send(w) ==
    /\ sender[w].at = "send"
    /\ setup.address
    /\ mails' = IF setup.enabled THEN mails + 1 ELSE mails
    /\ Moves(w, "record")
    /\ UNCHANGED <<setup, paidOnce, log, offset, records, broken>>

EmitEmailed(w) ==
    /\ sender[w].at = "record"
    /\ records' = records + 1
    /\ Moves(w, "done")
    /\ UNCHANGED <<setup, paidOnce, log, offset, mails, broken>>

(* SendGrid or the database refuses, SendGrid's answer is lost, or there   *)
(* is no address: the saga takes it for done, the route answers 500.       *)
EmailThrows(w) ==
    /\ sender[w].at \in {"send", "record"}
    /\ \/ sender[w].at = "send" /\ ~setup.address /\ UNCHANGED broken
       \/ Breaks("failed")
    /\ \/ UNCHANGED mails
       \/ sender[w].at = "send" /\ setup.enabled /\ setup.address /\ mails' = mails + 1
    /\ Moves(w, "done")
    /\ UNCHANGED <<setup, paidOnce, log, offset, records>>

(* ProcessedEvent and the offset; the answer to a clerk.                   *)
FinishSending(w) ==
    /\ sender[w].at = "done"
    /\ offset' = IF w = "saga" THEN [offset EXCEPT ![sender[w].topic] = @ + 1] ELSE offset
    /\ sender' = [sender EXCEPT ![w] = AtRest]
    /\ UNCHANGED <<setup, paidOnce, log, mails, records, broken>>

(* The process ends before it recorded the event.                          *)
BreaksOff ==
    /\ sender["saga"] # AtRest
    /\ Breaks("off")
    /\ sender' = [sender EXCEPT !["saga"] = AtRest]
    /\ UNCHANGED <<setup, paidOnce, log, offset, mails, records>>

InvoiceNext ==
    \/ ReviewApproved \/ PaymentSettles \/ BridgeToPaid \/ BreaksOff
    \/ \E t \in InvoiceTopics : DeliverEvent(t)
    \/ \E w \in Clerks : CallRoute(w)
    \/ \E w \in Senders : Send(w) \/ EmitEmailed(w) \/ EmailThrows(w) \/ FinishSending(w)

InvoiceSpec == InvoiceInit /\ [][InvoiceNext]_invoiceVars

-----------------------------------------------------------------------------

Asked == log["booking.review_approved"] + log["booking.paid"]
InvoicesSettled == offset = log /\ \A w \in Senders : sender[w] = AtRest

InvoiceTypeOK ==
    /\ paidOnce \subseteq {"approved", "paid"}
    /\ {log, offset} \subseteq [InvoiceTopics -> Nat]
    /\ sender \in [Senders -> [at : {"rest", "bridge", "send", "record", "done"},
                               topic : InvoiceTopics \cup {"none"}]]
    /\ {mails, records} \subseteq Nat

(* No invoice is sent but for an event, a call, or a delivery that broke   *)
(* off after it was sent: each of these explains one of them.              *)
MailsExplained == mails <= Asked + broken.off + broken.calls

(* With a mailer at work, invoice.emailed is never published for an        *)
(* invoice that did not leave; without one it is, and nothing leaves.      *)
RecordedWasSent == IF setup.enabled THEN records <= mails ELSE mails = 0

(* When all is done and nothing failed, the guest has the invoice: once    *)
(* for each event of a paid or approved booking, which are up to three.    *)
InvoiceArrives ==
    InvoicesSettled /\ setup.enabled /\ setup.address =>
        /\ broken.failed = 0 => mails >= Asked
        /\ Trouble = 0 /\ paidOnce = {"approved", "paid"} =>
              mails = IF setup.autoConfirm THEN 2 ELSE 3
=============================================================================
