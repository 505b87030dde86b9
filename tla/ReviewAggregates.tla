-------------------------- MODULE ReviewAggregates --------------------------
(***************************************************************************)
(* ReviewService: the reviews of one property, one per booking, and the    *)
(* rating that every transaction computes again for the property.          *)
(*                                                                         *)
(* PostgreSQL runs the transactions at READ COMMITTED: a transaction sees  *)
(* its own rows and those that were committed when its statement began, a  *)
(* row written by one is locked until it commits.  The idempotency gate    *)
(* around the transactions is IdempotencyGate.                             *)
(***************************************************************************)
EXTENDS Integers, FiniteSets

CONSTANTS
    Reviewed,   \* bookings that may be reviewed
    Authors,    \* requests that may be under way at a time
    Ratings     \* ratings given, out of 1..5

ASSUME ReviewAssumption == Ratings \subseteq 1..5 /\ IsFiniteSet(Reviewed)

VARIABLES
    review,     \* committed Review rows
    rating,     \* Property.ratingCount and ratingAvg (as the sum)
    deal,       \* each request's transaction
    stale,      \* history: the rating was counted before another commit
    reverted    \* history: an edit of the text put an old rating back

reviewVars == <<review, rating, deal, stale, reverted>>

NoReview == [st |-> "none", rating |-> 0]
NoDeal == [at |-> "none", op |-> "none", on |-> "none", new |-> NoReview, prev |-> 0,
           count |-> [count |-> 0, sum |-> 0], old |-> FALSE]

Total(table) ==
    LET active == {b \in Reviewed : table[b].st = "ACTIVE"}
        rated(v) == Cardinality({b \in active : table[b].rating = v})
    IN  [count |-> Cardinality(active),
         sum |-> rated(1) + 2 * rated(2) + 3 * rated(3) + 4 * rated(4) + 5 * rated(5)]

ReviewInit ==
    /\ review = [b \in Reviewed |-> NoReview]
    /\ rating = Total(review)
    /\ deal = [a \in Authors |-> NoDeal]
    /\ stale = FALSE /\ reverted = FALSE

-----------------------------------------------------------------------------

Ask(a, op, b, new) ==
    /\ deal[a] = NoDeal
    /\ deal' = [deal EXCEPT ![a] =
                  [NoDeal EXCEPT !.at = "read", !.op = op, !.on = b, !.prev = review[b].rating,
                                 !.new = [st |-> review[b].st, rating |-> new]]]
    /\ UNCHANGED <<review, rating, stale, reverted>>

(* create: the booking has no review, or one that was removed.             *)
AskCreate(a, b, new) == review[b].st # "ACTIVE" /\ Ask(a, "create", b, new)

(* update: a new rating, or the one that is read, with a new text.         *)
AskUpdate(a, b, new) ==
    /\ review[b].st = "ACTIVE"
    /\ Ask(a, "update", b, new) \/ Ask(a, "text", b, review[b].rating)

AskRemove(a, b) == review[b].st = "ACTIVE" /\ Ask(a, "remove", b, review[b].rating)

Locked(a, b) ==
    \E o \in Authors \ {a} : deal[o].on = b /\ deal[o].at \in {"wrote", "counted"}

Recounts(d) == d.op \in {"create", "remove"} \/ d.new.rating # d.prev

(* The rows that the three write: over a removed review, the rating alone, *)
(* the status alone.                                                       *)
Created(d) == [st |-> "ACTIVE", rating |-> d.new.rating]
Updated(d, row) == [row EXCEPT !.rating = d.new.rating]
Removed(row) == [row EXCEPT !.st = "DELETED"]

(* The write of the review, once its row is free.                          *)
WriteReview(a) ==
    LET d == deal[a]  row == review[d.on] IN
    /\ d.at = "read"
    /\ ~Locked(a, d.on)
    /\ d.op = "create" /\ d.new.st = "none" => row.st = "none"
    /\ deal' = [deal EXCEPT
          ![a].at = IF Recounts(d) THEN "wrote" ELSE "counted",
          ![a].new = CASE d.op = "create" -> Created(d)
                       [] d.op = "remove" -> Removed(row)
                       [] OTHER -> Updated(d, row)]
    /\ UNCHANGED <<review, rating, stale, reverted>>

(* recalcPropertyAggregates: the aggregate.                                *)
CountFault(a) ==
    /\ deal[a].at = "wrote"
    /\ deal' = [deal EXCEPT ![a].at = "counted", ![a].count = Total(review), ![a].old = FALSE]
    /\ UNCHANGED <<review, rating, stale, reverted>>

Count(a) ==
    /\ deal[a].at = "wrote"
    /\ deal' = [deal EXCEPT ![a].at = "counted", ![a].old = FALSE,
                            ![a].count = Total([review EXCEPT ![deal[a].on] = deal[a].new])]
    /\ UNCHANGED <<review, rating, stale, reverted>>

(* The property's row is written and everything becomes visible.           *)
CommitDeal(a) ==
    LET d == deal[a] b == d.on IN
    /\ d.at = "counted"
    /\ review' = [review EXCEPT ![b] = d.new]
    /\ IF Recounts(d)
       THEN /\ rating' = d.count
            /\ stale' = d.old
            /\ reverted' = (reverted /\ d.old)
       ELSE /\ reverted' = (reverted \/ d.new.rating # review[b].rating)
            /\ UNCHANGED <<rating, stale>>
    /\ deal' = [o \in Authors |-> IF o = a THEN NoDeal
                                  ELSE [deal[o] EXCEPT !.old = deal[o].at = "counted" \/ @]]

(* The unique booking, a timeout or a crash.                               *)
RollBackDeal(a) ==
    /\ deal[a] # NoDeal
    /\ deal' = [deal EXCEPT ![a] = NoDeal]
    /\ UNCHANGED <<review, rating, stale, reverted>>

ReviewNext ==
    \E a \in Authors :
       \/ \E b \in Reviewed :
             \/ \E new \in Ratings : AskCreate(a, b, new) \/ AskUpdate(a, b, new)
             \/ AskRemove(a, b)
       \/ WriteReview(a) \/ Count(a) \/ CommitDeal(a) \/ RollBackDeal(a)

ReviewSpec == ReviewInit /\ [][ReviewNext]_reviewVars

-----------------------------------------------------------------------------

ReviewTypeOK ==
    /\ review \in [Reviewed -> [st : {"none", "ACTIVE", "DELETED"}, rating : Ratings \cup {0}]]
    /\ rating \in [count : 0..Cardinality(Reviewed), sum : Nat]
    /\ \A a \in Authors : deal[a].at \in {"none", "read", "wrote", "counted"}

(* The rating shown for a property is that of its committed reviews, but   *)
(* for two races: a transaction that counted before another one committed, *)
(* and an edit of the text alone, which writes back the rating it read.    *)
RatingUnlessRaced == stale \/ reverted \/ rating = Total(review)

(* review.service.ts:60, "the property's rating is computed again (safe    *)
(* under concurrency)": whenever no request is under way, the rating is    *)
(* that of the reviews.                                                    *)
RatingSafe == (\A a \in Authors : deal[a] = NoDeal) => rating = Total(review)
=============================================================================
