----------------------------- MODULE TokenState -----------------------------
(***************************************************************************)
(* TokenStateService: the access version of each user and the session      *)
(* version of each session, counted in PostgreSQL and cached in Redis      *)
(* under keys that never expire.  A reader that misses reads the row and   *)
(* fills the key; a bump increments the row and sets the key.  Neither     *)
(* locks anything between its two calls.                                   *)
(*                                                                         *)
(* The modules that read or bump a version run these steps as a Caller.    *)
(***************************************************************************)
EXTENDS Integers

CONSTANTS
    Users,      \* owners of an access version
    Sessions,   \* owners of a session version
    Callers,    \* the requests that read or bump versions
    MaxVersion  \* bound: versions a run may reach

ASSUME TokenStateAssumption == MaxVersion \in Nat \ {0}

VARIABLES
    version,  \* User.accessVersion, UserSession.accessSv
    cache,    \* v1:auth:accver:<user>, v1:auth:sv:<session>; 0 without a key
    call,     \* the call of each caller between two of its steps
    torn      \* history: a key whose row changed under a call in flight

tokenVars == <<version, cache, call, torn>>

Subjects == Users \cup Sessions
NoCall == [at |-> "idle", key |-> "null", seen |-> 0]
Call == [at : {"read", "fill", "set"}, key : Subjects, seen : 0..MaxVersion] \cup {NoCall}

TokenInit ==
    /\ version = [k \in Subjects |-> 1]
    /\ cache = [k \in Subjects |-> 0]
    /\ call = [c \in Callers |-> NoCall]
    /\ torn = [k \in Subjects |-> FALSE]

-----------------------------------------------------------------------------

At(c, at) == call[c].at = at

Turn(c, k, at, seen) ==
    call' = [call EXCEPT ![c] = [at |-> at, key |-> k, seen |-> seen]]

Done(c) == call' = [call EXCEPT ![c] = NoCall]

(* getAccessVersion, getSessionVersion: without a key the row is read.     *)
Miss(c, k) ==
    /\ At(c, "idle")
    /\ cache[k] = 0
    /\ Turn(c, k, "read", 0)
    /\ UNCHANGED <<version, cache, torn>>

ReadVersion(c) ==
    /\ At(c, "read")
    /\ Turn(c, call[c].key, "fill", version[call[c].key])
    /\ UNCHANGED <<version, cache, torn>>

FillAheadFault(c) ==
    /\ At(c, "fill")
    /\ cache' = [cache EXCEPT ![call[c].key] = call[c].seen + 1]
    /\ Done(c)
    /\ UNCHANGED <<version, torn>>

Fill(c) ==
    /\ At(c, "fill")
    /\ cache' = [cache EXCEPT ![call[c].key] = call[c].seen]
    /\ Done(c)
    /\ UNCHANGED <<version, torn>>

(* What another call read of k, or wrote to it, is not in the cache yet.   *)
Pending(c, k) ==
    \E other \in Callers \ {c} : call[other].key = k /\ call[other].at \in {"fill", "set"}

(* bumpAccessVersion, bumpSessionVersion.                                  *)
Bump(c, k) ==
    /\ At(c, "idle")
    /\ version[k] < MaxVersion
    /\ version' = [version EXCEPT ![k] = @ + 1]
    /\ torn' = [torn EXCEPT ![k] = @ \/ Pending(c, k)]
    /\ Turn(c, k, "set", version[k] + 1)
    /\ UNCHANGED cache

SetVersionFault(c) ==
    /\ At(c, "set")
    /\ Done(c)
    /\ UNCHANGED <<version, cache, torn>>

SetVersion(c) ==
    /\ At(c, "set")
    /\ cache' = [cache EXCEPT ![call[c].key] = call[c].seen]
    /\ Done(c)
    /\ UNCHANGED <<version, torn>>

(* The process ends, or Redis refuses: a bump leaves the old key behind.   *)
Abandon(c) ==
    /\ ~At(c, "idle")
    /\ torn' = [torn EXCEPT ![call[c].key] = @ \/ At(c, "set")]
    /\ Done(c)
    /\ UNCHANGED <<version, cache>>

(* Redis restarts without the key.                                         *)
Forget(k) ==
    /\ cache[k] # 0
    /\ cache' = [cache EXCEPT ![k] = 0]
    /\ UNCHANGED <<version, call, torn>>

TokenNext ==
    \/ \E c \in Callers : \/ \E k \in Subjects : Miss(c, k) \/ Bump(c, k)
                          \/ ReadVersion(c) \/ Fill(c) \/ SetVersion(c) \/ Abandon(c)
    \/ \E k \in Subjects : Forget(k)

TokenSpec == TokenInit /\ [][TokenNext]_tokenVars

-----------------------------------------------------------------------------

TokenTypeOK ==
    /\ version \in [Subjects -> 1..MaxVersion]
    /\ cache \in [Subjects -> 0..MaxVersion]
    /\ call \in [Callers -> Call]
    /\ torn \in [Subjects -> BOOLEAN]

(* A key that holds another version than the row either waits for the SET  *)
(* of the bump that changed the row, or the row changed while another call *)
(* was between its two steps, or a bump broke off: nothing else, no order  *)
(* of readers, bumps and lost keys, leaves revoked tokens accepted.        *)
CurrentUnlessTorn ==
    \A k \in Subjects :
        cache[k] \in {0, version[k]} \/ torn[k] \/ \E c \in Callers : At(c, "set") /\ call[c].key = k

(* Torn or not, Redis never holds a version the row has not had: a token   *)
(* of a future version cannot be signed, and one that a bump killed comes  *)
(* back only while the key lags behind.                                    *)
NeverAhead ==
    /\ \A k \in Subjects : cache[k] <= version[k]
    /\ \A c \in Callers : call[c].seen = 0 \/ call[c].seen <= version[call[c].key]
=============================================================================
