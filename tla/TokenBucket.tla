---------------------------- MODULE TokenBucket ----------------------------
(***************************************************************************)
(* TokenBucketService and RateLimitGuard: one bucket, kept as a hash in    *)
(* Redis that a script reads and writes atomically.  The time the script   *)
(* uses is the clock of the server that calls it, and the clocks of two    *)
(* servers differ.  Tokens are counted in units of one per millisecond of  *)
(* the rate, so that the script's fractions are integers.                  *)
(***************************************************************************)
EXTENDS Integers, FiniteSets, FiniteSetsExt

CONSTANTS
    Servers,   \* API servers
    Skew,      \* how far each server's clock is ahead of Redis
    BucketSize,  \* what the bucket holds
    Cost,      \* what a request takes
    MaxClock,  \* bound: time
    MaxReversed \* bound: time set back

ASSUME BucketAssumption ==
    /\ IsFiniteSet(Servers) /\ Skew \in [Servers -> Nat]
    /\ BucketSize \in Nat /\ Cost \in 1..BucketSize
    /\ MaxClock \in Nat /\ MaxReversed \in Nat

VARIABLES
    ticks,    \* the clock of Redis
    bucket,   \* the hash: a set of one record, or empty once expired
    admitted, \* history: what the admitted requests took
    reversed  \* history: how far the bucket's time was set back in all

bucketVars == <<ticks, bucket, admitted, reversed>>

Lower(a, b) == IF a < b THEN a ELSE b
Higher(a, b) == IF a > b THEN a ELSE b

(* consume's default: twice the time that fills the bucket.                *)
Ttl == 2 * BucketSize

BucketInit ==
    /\ ticks = 0
    /\ bucket = {}
    /\ admitted = 0
    /\ reversed = 0

-----------------------------------------------------------------------------

TickClock ==
    /\ ticks < MaxClock
    /\ ticks' = ticks + 1
    /\ bucket' = {b \in bucket : b.until > ticks + 1}
    /\ UNCHANGED <<admitted, reversed>>

(* The script's refill: time that runs back refills nothing.               *)
Refilled(b, now) == Lower(BucketSize, b.tokens + Higher(0, now - b.ts))

SaveBucketFault(tokens, now) ==
    bucket' = {[tokens |-> tokens, ts |-> IF bucket = {} THEN now ELSE (CHOOSE b \in bucket : TRUE).ts,
                until |-> ticks + Ttl]}

(* HMSET and EXPIRE: the time is written even where it runs back, and for  *)
(* a request that is refused.                                              *)
SaveBucket(tokens, now) == bucket' = {[tokens |-> tokens, ts |-> now, until |-> ticks + Ttl]}

Consume(s) ==
    LET now == ticks + Skew[s]
        tokens == IF bucket = {} THEN BucketSize ELSE Max({Refilled(b, now) : b \in bucket})
        allowed == tokens >= Cost
    IN /\ SaveBucket(IF allowed THEN tokens - Cost ELSE tokens, now)
       /\ admitted' = admitted + IF allowed THEN Cost ELSE 0
       /\ reversed' = reversed + Max({0} \cup {b.ts - now : b \in bucket})
       /\ reversed' <= MaxReversed
       /\ UNCHANGED ticks

BucketNext == TickClock \/ \E s \in Servers : Consume(s)

BucketSpec == BucketInit /\ [][BucketNext]_bucketVars

-----------------------------------------------------------------------------

BucketTypeOK ==
    /\ ticks \in 0..MaxClock
    /\ \A b \in bucket : b.tokens \in 0..BucketSize /\ b.ts \in Nat
    /\ admitted \in Nat /\ reversed \in 0..MaxReversed

LargestSkew == Max({0} \cup {Skew[s] : s \in Servers})

(* However the requests fall, and whenever the hash expires, the admitted  *)
(* ones took no more than a full bucket and what the time refilled, with   *)
(* the time counted again that a slower clock took back.  (The clocks'     *)
(* largest difference counts once more, from the first request on.)  A     *)
(* clock that is further ahead than the time that fills the bucket lends   *)
(* tokens that the expiry of the hash forgets.                             *)
AdmitsWithinRate ==
    LargestSkew <= BucketSize => admitted <= BucketSize + ticks + reversed + LargestSkew
=============================================================================
