---------------------------- MODULE LoginLockout ----------------------------
(***************************************************************************)
(* The password step of AuthService.login: wrong passwords are counted in  *)
(* Redis for ten minutes, and the fifth locks the user for at least        *)
(* fifteen.  The lock is read before the password is compared and set      *)
(* after the counter: the attempts of several requests run in between.     *)
(***************************************************************************)
EXTENDS Integers, FiniteSets

CONSTANTS
    Attempts,   \* requests that may be in login at a time
    MaxFails    \* MAX_FAILS

ASSUME LockoutAssumption == MaxFails \in Nat \ {0} /\ IsFiniteSet(Attempts)

VARIABLES
    fails,      \* v1:auth:login:fail:<user>, 0 without a key
    expires,    \* whether that key has been given its ten minutes
    lock,       \* v1:auth:lock:user:<user> exists
    attempt,    \* where each request is, and the count it was told
    guessed     \* history: wrong passwords since the counter was last reset

lockoutVars == <<fails, expires, lock, attempt, guessed>>

MaxGuesses == MaxFails - 1 + Cardinality(Attempts)
Waiting == [at |-> "out", count |-> 0]

LockoutInit ==
    /\ fails = 0
    /\ expires = FALSE
    /\ lock = FALSE
    /\ attempt = [a \in Attempts |-> Waiting]
    /\ guessed = 0

Next1(a, at, count) == attempt' = [attempt EXCEPT ![a] = [at |-> at, count |-> count]]

Reset == fails' = 0 /\ expires' = FALSE /\ guessed' = 0

-----------------------------------------------------------------------------

UnlockedFault(a) == TRUE

Unlocked(a) == ~lock

(* login up to the password: e-mail and password are there, the buckets of *)
(* the e-mail and of the address let it pass (TokenBucket), isUserLocked.  *)
(* The answer to a locked user is that of a wrong password.                *)
Enter(a) ==
    /\ attempt[a].at = "out"
    /\ Unlocked(a)
    /\ Next1(a, "compare", 0)
    /\ UNCHANGED <<fails, expires, lock, guessed>>

Right(a) ==
    /\ attempt[a].at = "compare"
    /\ Reset
    /\ Next1(a, "out", 0)
    /\ UNCHANGED lock

Wrong(a) ==
    /\ attempt[a].at = "compare"
    /\ fails' = fails + 1
    /\ guessed' = guessed + 1
    /\ Next1(a, IF fails = 0 THEN "expire" ELSE "punish", fails + 1)
    /\ UNCHANGED <<expires, lock>>

Expire(a) ==
    /\ attempt[a].at = "expire"
    /\ expires' = (fails # 0)
    /\ Next1(a, "punish", attempt[a].count)
    /\ UNCHANGED <<fails, lock, guessed>>

TooManyFault(a) == attempt[a].count > MaxFails

TooMany(a) == attempt[a].count >= MaxFails

(* lockUser does not prolong a lock that is there.                         *)
Punish(a) ==
    /\ attempt[a].at = "punish"
    /\ lock' = (lock \/ TooMany(a))
    /\ Next1(a, "out", 0)
    /\ UNCHANGED <<fails, expires, guessed>>

WindowEnds ==
    /\ expires
    /\ Reset
    /\ UNCHANGED <<lock, attempt>>

(* Fifteen minutes at least, and the ten of the counter are over before.   *)
LockEnds ==
    /\ lock /\ fails = 0
    /\ lock' = FALSE
    /\ UNCHANGED <<fails, expires, attempt, guessed>>

LockoutNext ==
    \/ \E a \in Attempts : Enter(a) \/ Right(a) \/ Wrong(a) \/ Expire(a) \/ Punish(a)
    \/ WindowEnds \/ LockEnds

LockoutSpec == LockoutInit /\ [][LockoutNext]_lockoutVars

-----------------------------------------------------------------------------

LockoutTypeOK ==
    /\ fails \in 0..MaxGuesses
    /\ expires \in BOOLEAN
    /\ lock \in BOOLEAN
    /\ attempt \in [Attempts -> [at : {"out", "compare", "expire", "punish"}, count : 0..MaxGuesses]]
    /\ guessed \in 0..MaxGuesses

(* However the requests interleave, a window of ten minutes lets through   *)
(* four wrong passwords and one more per request under way: those that     *)
(* passed the check before the fifth was counted and the lock was set.     *)
GuessesBounded ==
    /\ guessed <= MaxGuesses
    /\ guessed >= MaxFails => lock \/ \E a \in Attempts : attempt[a].at \in {"expire", "punish"}
=============================================================================
