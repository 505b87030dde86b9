---------------------------- MODULE BookingTerms ----------------------------
(***************************************************************************)
(* What a guest is told before, and gets when, a code is applied to a hold *)
(* or a paid booking is cancelled: PromotionService.preview and            *)
(* applyOnHold, BookingsService.previewRefund and cancelPaidOrConfirmed.   *)
(* The promotion's row may be edited at any time; the cancellation policy  *)
(* is copied to the booking when it is attached, in any status.            *)
(***************************************************************************)
EXTENDS Integers, Sequences, FiniteSetsExt

CONSTANTS
    Price,      \* totalPrice of the booking
    Offered,    \* values a promotion is given
    Least,      \* its minTotal, 0 for none
    Policies,   \* lists of rules [beforeDays, refundPercent] that a policy may have
    MaxLead,    \* bound: days before check-in at first
    MaxRevisions \* bound: edits of the promotion and of the policy

ASSUME TermsAssumption ==
    /\ Price \in Nat /\ MaxLead \in Nat /\ MaxRevisions \in Nat
    /\ Offered \subseteq Int
    /\ <<>> \in Policies
    /\ Policies \subseteq Seq([beforeDays : Int, refundPercent : Int])

VARIABLES
    offer,      \* the promotion's row, where now is to its validity; history: its first value
    policy,     \* the rules of the active policy; <<>> for an inactive one
    terms,      \* the booking: status, discount, snapshot, refund
    lead,       \* calendar days until check-in
    quoted,     \* the discount and the refund the guest was told last
    revisions

termVars == <<offer, policy, terms, lead, quoted, revisions>>

NoAmount == {}   \* of an amount: otherwise a set with the one amount
Kinds == {"PERCENT", "FIXED"}
NoTerms == [status |-> "HOLD", discount |-> NoAmount, snapshot |-> <<>>, refund |-> NoAmount]
NoQuote == [discount |-> NoAmount, refund |-> NoAmount]

(* create: of an amount not even the sign is looked at.                    *)
Creatable ==
    {o \in [on : BOOLEAN, kind : Kinds, value : Offered, born : Offered, least : Least,
            now : {"early", "valid"}] :
        o.born = o.value /\ (o.kind = "PERCENT" => o.value \in 1..100)}

TermsInit ==
    /\ offer \in Creatable
    /\ policy \in Policies
    /\ terms = NoTerms
    /\ lead = MaxLead
    /\ quoted = NoQuote
    /\ revisions = 0

Revise == revisions < MaxRevisions /\ revisions' = revisions + 1

-----------------------------------------------------------------------------

(* update: what is left out keeps its value, and the percentage is looked  *)
(* at only when the value comes with the type.  The DTO lets a value of    *)
(* 1..100 through.  A quote that is not used yet is void.                  *)
UpdateOffer(kind, value) ==
    /\ Revise
    /\ offer' = [offer EXCEPT !.kind = kind, !.value = value]
    /\ value = offer.value \/ value \in 1..100
    /\ quoted' = [quoted EXCEPT !.discount = IF terms.discount = NoAmount THEN NoAmount ELSE @]
    /\ UNCHANGED <<policy, terms, lead>>

SwitchOffer ==
    /\ Revise
    /\ offer' = [offer EXCEPT !.on = ~@]
    /\ UNCHANGED <<policy, terms, lead, quoted>>

(* validFrom or validTo passes.                                            *)
WindowMoves ==
    /\ offer.now # "over"
    /\ offer' = [offer EXCEPT !.now = IF @ = "early" THEN "valid" ELSE "over"]
    /\ UNCHANGED <<policy, terms, lead, quoted, revisions>>

(* minTotal 0 is none.                                                     *)
Fits == offer.on /\ offer.now = "valid" /\ Price >= offer.least

Discount ==
    LET full == IF offer.kind = "PERCENT" THEN (Price * offer.value) \div 100 ELSE offer.value
    IN  IF full > Price THEN Price ELSE full

(* A preview asks for no status and no owner.  What comes after the code   *)
(* was applied is no promise any more.                                     *)
PreviewOffer ==
    /\ Fits
    /\ terms.discount = NoAmount
    /\ quoted' = [quoted EXCEPT !.discount = {Discount}]
    /\ UNCHANGED <<offer, policy, terms, lead, revisions>>

ApplyOffer ==
    /\ Fits
    /\ terms.status = "HOLD"
    /\ terms.discount = NoAmount
    /\ terms' = [terms EXCEPT !.discount = {Discount}]
    /\ UNCHANGED <<offer, policy, lead, quoted, revisions>>

-----------------------------------------------------------------------------

(* The rules that hold on the day.  The day is that of the hotel, for the  *)
(* check-in as for the cancellation.                                       *)
Met(rules) == {i \in DOMAIN rules : lead >= rules[i].beforeDays}

(* refundPercentByRules of the rules, sorted by their days, most first: of *)
(* those that are met the one with the most days, the first listed of      *)
(* several.                                                                *)
RefundPercent(rules) ==
    LET first == {i \in Met(rules) : \A j \in Met(rules) : rules[j].beforeDays <= rules[i].beforeDays}
    IN  IF Met(rules) = {} THEN 0 ELSE rules[Min(first)].refundPercent

RefundAmount == (Price * RefundPercent(terms.snapshot)) \div 100

(* No other policy than the active one can be attached, but to any booking.*)
AttachPolicy ==
    /\ policy # <<>>
    /\ terms' = [terms EXCEPT !.snapshot = policy]
    /\ quoted' = [quoted EXCEPT !.refund = IF terms.refund = NoAmount THEN NoAmount ELSE @]
    /\ UNCHANGED <<offer, policy, lead, revisions>>

(* No route edits a policy: the operator does, in the database.            *)
EditPolicy(rules) ==
    /\ Revise
    /\ policy' = rules
    /\ UNCHANGED <<offer, terms, lead, quoted>>

PreviewCancel ==
    /\ terms.refund = NoAmount
    /\ quoted' = [quoted EXCEPT !.refund = {RefundAmount}]
    /\ UNCHANGED <<offer, policy, terms, lead, revisions>>

PayTerms ==
    /\ terms.status = "HOLD"
    /\ terms' = [terms EXCEPT !.status = "PAID"]
    /\ UNCHANGED <<offer, policy, lead, quoted, revisions>>

CancelOnTerms ==
    /\ terms.status = "PAID"
    /\ terms' = [terms EXCEPT !.status = "REFUNDED", !.refund = {RefundAmount}]
    /\ UNCHANGED <<offer, policy, lead, quoted, revisions>>

(* A cancellation is late from the day of check-in on.                     *)
DayPasses ==
    /\ lead > -1
    /\ lead' = lead - 1
    /\ quoted' = [quoted EXCEPT !.refund = IF terms.refund = NoAmount THEN NoAmount ELSE @]
    /\ UNCHANGED <<offer, policy, terms, revisions>>

TermsNext ==
    \/ \E kind \in Kinds, value \in Offered : UpdateOffer(kind, value)
    \/ SwitchOffer \/ WindowMoves \/ PreviewOffer \/ ApplyOffer
    \/ AttachPolicy \/ (\E rules \in Policies : EditPolicy(rules))
    \/ PreviewCancel \/ PayTerms \/ CancelOnTerms \/ DayPasses

TermsSpec == TermsInit /\ [][TermsNext]_termVars

-----------------------------------------------------------------------------

TermsTypeOK ==
    /\ offer \in [on : BOOLEAN, kind : Kinds, value : Offered, born : Offered, least : Least,
                  now : {"early", "valid", "over"}]
    /\ policy \in Policies
    /\ terms.status \in {"HOLD", "PAID", "REFUNDED"} /\ terms.snapshot \in Policies \cup {<<>>}
    /\ terms.refund # NoAmount <=> terms.status = "REFUNDED"
    /\ lead \in -1..MaxLead
    /\ revisions \in 0..MaxRevisions

(* A discount is capped by the price however the promotion was edited:     *)
(* turned from an amount into a percentage it may be worth more than 100   *)
(* of them.  It raises the price only where a negative amount was created. *)
DiscountCapped ==
    \A amount \in terms.discount : amount <= Price /\ (amount < 0 => offer.born < 0)

(* A guest who applies a code, or cancels on the day of the preview, gets  *)
(* what the last preview said, unless the promotion was edited or a policy *)
(* attached in between: an edit of the policy itself is no reason.         *)
KeptWord ==
    /\ terms.discount # NoAmount /\ quoted.discount # NoAmount => terms.discount = quoted.discount
    /\ terms.refund # NoAmount /\ quoted.refund # NoAmount => terms.refund = quoted.refund

(* Who cancels earlier gets no less, and nobody pays for it.               *)
Graded(rules) ==
    \A i, j \in DOMAIN rules :
        /\ rules[i].refundPercent >= 0
        /\ rules[i].beforeDays >= rules[j].beforeDays => rules[i].refundPercent >= rules[j].refundPercent

(* In whatever order a policy lists its rules, the guest is offered the    *)
(* best of those that still hold on the day; where a policy gives more to  *)
(* who cancels later the rule with the most days counts, not the best.     *)
BestRuleCounts ==
    quoted.refund # NoAmount /\ terms.refund = NoAmount /\ Graded(terms.snapshot) =>
        LET met == {terms.snapshot[i].refundPercent : i \in Met(terms.snapshot)}
        IN  quoted.refund = {(Price * Max(met \cup {0})) \div 100}
=============================================================================
