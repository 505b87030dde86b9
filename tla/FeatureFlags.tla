---------------------------- MODULE FeatureFlags ----------------------------
(***************************************************************************)
(* FeatureFlagsService and ff-rollout.util: one flag, its row, its copy in *)
(* Redis, and the users it is on for.  get fills the copy on a miss and    *)
(* gives it a time to live; upsert writes the row and deletes the copy.    *)
(***************************************************************************)
EXTENDS Integers

CONSTANTS
    People,    \* users; "anonymous" stands for a request without one
    Bucket,    \* bucketOf each user, in 0..99
    Rollouts,  \* rollouts an administrator sets, in 0..100
    Askers,    \* requests that may be reading the flag
    MaxUpserts \* bound: changes of the flag

ASSUME FlagAssumption ==
    /\ Bucket \in [People -> 0..99]
    /\ Rollouts \subseteq 0..100
    /\ MaxUpserts \in Nat

VARIABLES
    flag,     \* FeatureFlag row
    flagCopy, \* ff:<key>: a set of one row, or empty
    asker,    \* the row each request has read, and whether it changed since
    deleting, \* an upsert has written and not yet deleted the copy
    upserts,  \* changes so far
    late      \* history: the copy was read before a change

flagVars == <<flag, flagCopy, asker, deleting, upserts, late>>

Flag == [enabled : BOOLEAN, rollout : Rollouts, allow : SUBSET People, deny : SUBSET People]

FlagInit ==
    /\ flag \in {f \in Flag : ~f.enabled}
    /\ flagCopy = {}
    /\ asker = [a \in Askers |-> {}]
    /\ deleting = 0
    /\ upserts = 0
    /\ late = FALSE

-----------------------------------------------------------------------------

(* get without a copy: findUnique.                                         *)
ReadFlag(a) ==
    /\ asker[a] = {}
    /\ flagCopy = {}
    /\ asker' = [asker EXCEPT ![a] = {[row |-> flag, old |-> FALSE]}]
    /\ UNCHANGED <<flag, flagCopy, deleting, upserts, late>>

(* setEx.                                                                  *)
FillFlag(a) ==
    /\ \E read \in asker[a] : flagCopy' = {read.row} /\ late' = read.old
    /\ asker' = [asker EXCEPT ![a] = {}]
    /\ UNCHANGED <<flag, deleting, upserts>>

(* upsert: the row, then the copy.                                         *)
UpsertFlag(f) ==
    /\ upserts < MaxUpserts
    /\ upserts' = upserts + 1
    /\ flag' = f
    /\ deleting' = deleting + 1
    /\ asker' = [a \in Askers |-> {[read EXCEPT !.old = TRUE] : read \in asker[a]}]
    /\ UNCHANGED <<flagCopy, late>>

DeleteCopyFault ==
    /\ deleting > 0
    /\ deleting' = deleting - 1
    /\ UNCHANGED <<flag, flagCopy, asker, upserts, late>>

DeleteCopy ==
    /\ deleting > 0
    /\ deleting' = deleting - 1
    /\ flagCopy' = {} /\ late' = FALSE
    /\ UNCHANGED <<flag, asker, upserts>>

CopyExpiresFault ==
    /\ flagCopy # {} /\ ~late
    /\ flagCopy' = {}
    /\ UNCHANGED <<flag, asker, deleting, upserts, late>>

(* The time to live is at least five seconds and never renewed by a read.  *)
CopyExpires ==
    /\ flagCopy # {}
    /\ flagCopy' = {} /\ late' = FALSE
    /\ UNCHANGED <<flag, asker, deleting, upserts>>

(* The process ends, and the copy of a change stays until it expires.      *)
UpsertDies ==
    /\ deleting > 0
    /\ deleting' = deleting - 1
    /\ late' = (flagCopy # {})
    /\ UNCHANGED <<flag, flagCopy, asker, upserts>>

FlagNext ==
    \/ \E a \in Askers : ReadFlag(a) \/ FillFlag(a)
    \/ \E f \in Flag : UpsertFlag(f)
    \/ DeleteCopy \/ CopyExpires \/ UpsertDies

FlagSpec == FlagInit /\ [][FlagNext]_flagVars

(* Redis expires keys; a request that has read the row fills the copy.     *)
FlagFairness == WF_flagVars(CopyExpires) /\ \A a \in Askers : WF_flagVars(FillFlag(a))
FlagLiveSpec == FlagSpec /\ FlagFairness

-----------------------------------------------------------------------------

ClampPctFault(x) == IF x = 0 THEN 100 ELSE x

(* clampPct's default is for what is no number: 0 stays 0.                 *)
ClampPct(x) == IF x > 100 THEN 100 ELSE x

(* isEnabledForUser: deny, then allow, then the percentage.                *)
On(f, u) ==
    /\ f.enabled
    /\ u \notin f.deny
    /\ \/ u \in f.allow
       \/ IF u = "anonymous" THEN ClampPct(f.rollout) >= 100 ELSE Bucket[u] < ClampPct(f.rollout)

-----------------------------------------------------------------------------

FlagTypeOK ==
    /\ flag \in Flag
    /\ flagCopy \subseteq Flag
    /\ deleting \in 0..MaxUpserts

(* The copy is the row, but between an upsert's two calls and for a copy   *)
(* that a request had read before the change and filled after the delete.  *)
CopyIsRow == flagCopy \subseteq {flag} \/ deleting > 0 \/ late

(* A rollout that is only raised switches nobody off: a user who has seen  *)
(* the feature keeps it, and an anonymous one as well.                     *)
RaisingKeepsUsers ==
    [][/\ flag.enabled /\ flag'.enabled
       /\ flag.rollout <= flag'.rollout
       /\ flag.allow \subseteq flag'.allow /\ flag'.deny \subseteq flag.deny
       => \A u \in People \cup {"anonymous"} : On(flag, u) => On(flag', u)]_flag

(* A copy that lags behind goes: at the latest its time to live ends it.   *)
StaleCopyGoes == late ~> ~late
=============================================================================
