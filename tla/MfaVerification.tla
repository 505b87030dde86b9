-------------------------- MODULE MfaVerification ---------------------------
(***************************************************************************)
(* MfaService, for one user: enrolment, the verification of one-time codes *)
(* with its limit of attempts, backup codes, the recovery key, and the     *)
(* access version they bump.  A handler reads the row without a lock and   *)
(* writes it by user some awaits later.                                    *)
(*                                                                         *)
(* A secret is a number, 0 for none, and a one-time code right or wrong    *)
(* for the secret the handler read.  The bump itself is TokenState's.      *)
(***************************************************************************)
EXTENDS Integers, FiniteSets

CONSTANTS
    Tabs,           \* requests of the user that may be under way at a time
    MaxAttempts,    \* MAX_VERIFY_ATTEMPTS
    MaxSecrets,     \* bound: enrolments of a run
    BackupCodes     \* backup codes that may be made, by identity of the row

ASSUME MfaAssumption == MaxAttempts \in Nat \ {0} /\ MaxSecrets \in Nat /\ IsFiniteSet(Tabs)

VARIABLES
    mfa,        \* UserMfa
    codes,      \* unused BackupCode rows
    made,       \* history: the rows ever made
    accepted,   \* history: how often each backup code was accepted
    task,       \* the request of each request between two of its calls
    proven,     \* history: the secret the enabling code was right for
    crossed,    \* history: a verification was under way at the last enrolment
    wrong       \* history: wrong codes since the last time-out or success

mfaRowVars == <<mfa, proven, crossed, wrong>>
codeVars == <<codes, made, accepted>>
mfaVars == <<mfaRowVars, codeVars, task>>

NoTask == [at |-> "none", op |-> "none", secret |-> 0, right |-> FALSE, list |-> {}]
MfaOp == {"enroll", "enable", "verify", "disable", "recover", "generate", "consume", "key"}

MfaInit ==
    /\ mfa = [enabled |-> FALSE, secret |-> 0, tries |-> 0, recent |-> FALSE, key |-> "none"]
    /\ codes = {}
    /\ made = {}
    /\ accepted = [b \in BackupCodes |-> 0]
    /\ task = [c \in Tabs |-> NoTask]
    /\ proven = 0
    /\ crossed = FALSE
    /\ wrong = 0

Doing(c, ops, at) == task[c].op \in ops /\ task[c].at = at

Proceed(c, at) == task' = [task EXCEPT ![c].at = at]

Leave(c) == task' = [task EXCEPT ![c] = NoTask]

Running(op) == {c \in Tabs : task[c].op = op}

-----------------------------------------------------------------------------
(* Every handler reads the row first; those that need MFA enabled end      *)
(* there without it, an enrolment ends there with it.                      *)
Begin(c, op, right) ==
    /\ task[c].at = "none"
    /\ CASE op = "enroll" -> ~mfa.enabled /\ mfa.secret + Cardinality(Running(op)) < MaxSecrets
         [] op = "enable" -> mfa.secret # 0
         [] op = "recover" -> mfa.enabled /\ mfa.key = "set"
         [] op = "consume" -> TRUE
         [] OTHER -> mfa.enabled
    /\ right => op \in {"enable", "verify", "disable", "recover"}
    /\ task' = [task EXCEPT ![c] = [at |-> "read", op |-> op,
                                    secret |-> IF op = "enable" THEN mfa.secret ELSE 0,
                                    right |-> right, list |-> {}]]
    /\ UNCHANGED <<mfaRowVars, codeVars>>

EnrollFault(c) ==
    /\ Doing(c, {"enroll"}, "read")
    /\ mfa' = [mfa EXCEPT !.secret = @ + 1, !.tries = 0, !.recent = FALSE]
    /\ wrong' = 0
    /\ crossed' = (Running("enable") # {})
    /\ Leave(c)
    /\ UNCHANGED <<proven, codeVars>>

(* startTotpEnroll.                                                        *)
Enroll(c) ==
    /\ Doing(c, {"enroll"}, "read")
    /\ mfa' = [mfa EXCEPT !.secret = @ + 1, !.enabled = FALSE, !.tries = 0, !.recent = FALSE]
    /\ wrong' = 0
    /\ crossed' = (Running("enable") # {})
    /\ Leave(c)
    /\ UNCHANGED <<proven, codeVars>>

LimitFault(c) ==
    /\ Doing(c, {"enable", "verify"}, "read")
    /\ Proceed(c, "check")
    /\ UNCHANGED <<mfaRowVars, codeVars>>

(* checkRateLimit: refused within the time-out, counted anew after it.     *)
Limit(c) ==
    /\ Doing(c, {"enable", "verify"}, "read")
    /\ IF mfa.tries < MaxAttempts THEN Proceed(c, "check")
       ELSE IF mfa.recent THEN Leave(c) ELSE Proceed(c, "reset")
    /\ UNCHANGED <<mfaRowVars, codeVars>>

ResetTries(c) ==
    /\ Doing(c, {"enable", "verify"}, "reset")
    /\ mfa' = [mfa EXCEPT !.tries = 0]
    /\ Proceed(c, "check")
    /\ UNCHANGED <<proven, crossed, wrong, codeVars>>

WrongCode(c) ==
    /\ Doing(c, {"enable", "verify"}, "check")
    /\ ~task[c].right
    /\ mfa' = [mfa EXCEPT !.tries = @ + 1, !.recent = TRUE]
    /\ wrong' = wrong + 1
    /\ Leave(c)
    /\ UNCHANGED <<proven, crossed, codeVars>>

(* verifyTotpAndEnable, verifyTotp.                                        *)
Verified(c) ==
    /\ Doing(c, {"enable", "verify"}, "check")
    /\ task[c].right
    /\ wrong' = 0
    /\ IF task[c].op = "enable"
       THEN /\ mfa' = [mfa EXCEPT !.enabled = TRUE, !.tries = 0, !.recent = TRUE]
            /\ proven' = task[c].secret
            /\ Proceed(c, "bump")
       ELSE /\ mfa' = [mfa EXCEPT !.tries = 0, !.recent = TRUE]
            /\ Leave(c)
            /\ UNCHANGED proven
    /\ UNCHANGED <<crossed, codeVars>>

-----------------------------------------------------------------------------
(* Backup codes and the recovery key.                                      *)

(* generateBackupCodes deletes the old rows and makes the new ones in two  *)
(* transactions.  One row stands for the ten of a call.                    *)
Generate(c) ==
    \/ /\ Doing(c, {"generate"}, "read")
       /\ codes' = {}
       /\ Proceed(c, "create")
       /\ UNCHANGED <<mfaRowVars, made, accepted>>
    \/ /\ Doing(c, {"generate"}, "create")
       /\ \E b \in BackupCodes \ made : codes' = codes \cup {b} /\ made' = made \cup {b}
       /\ Leave(c)
       /\ UNCHANGED <<mfaRowVars, accepted>>

(* consumeBackupCode, also on behalf of disableTotp.                       *)
ListCodes(c) ==
    /\ Doing(c, {"consume", "disable"}, "read")
    /\ task' = [task EXCEPT ![c].at = "try", ![c].list = codes]
    /\ UNCHANGED <<mfaRowVars, codeVars>>

UnusedFault(c, b) == b \in task[c].list

Unused(c, b) == b \in codes

TryCode(c, b) ==
    /\ Doing(c, {"consume", "disable"}, "try")
    /\ b \in task[c].list
    /\ IF Unused(c, b)
       THEN /\ codes' = codes \ {b}
            /\ accepted' = [accepted EXCEPT ![b] = @ + 1]
            /\ IF task[c].op = "disable" THEN Proceed(c, "apply") ELSE Leave(c)
       ELSE Leave(c) /\ UNCHANGED <<codes, accepted>>
    /\ UNCHANGED <<mfaRowVars, made>>

NoMatch(c) ==
    /\ Doing(c, {"consume", "disable"}, "try")
    /\ Leave(c)
    /\ UNCHANGED <<mfaRowVars, codeVars>>

(* disableTotp with a one-time code, disableMfaWithRecovery with the key.  *)
Prove(c) ==
    /\ Doing(c, {"disable", "recover"}, "read")
    /\ IF task[c].right THEN Proceed(c, "apply") ELSE Leave(c)
    /\ UNCHANGED <<mfaRowVars, codeVars>>

Disable(c) ==
    /\ Doing(c, {"disable", "recover"}, "apply")
    /\ mfa' = [mfa EXCEPT !.enabled = FALSE, !.key = IF task[c].op = "recover" THEN "used" ELSE @]
    /\ codes' = {}
    /\ Proceed(c, "bump")
    /\ UNCHANGED <<proven, crossed, wrong, made, accepted>>

MakeKey(c) ==
    /\ Doing(c, {"key"}, "read")
    /\ mfa' = [mfa EXCEPT !.key = "set"]
    /\ Leave(c)
    /\ UNCHANGED <<proven, crossed, wrong, codeVars>>

(* bumpAccessVersion, after an enabling and after a disabling: what that   *)
(* does is Bump of TokenState.                                             *)
BumpMfa(c) ==
    /\ task[c].at = "bump"
    /\ Leave(c)
    /\ UNCHANGED <<mfaRowVars, codeVars>>

-----------------------------------------------------------------------------
(* Crashes and the time-out.                                               *)

CrashMfa(c) ==
    /\ task[c].at # "none"
    /\ Leave(c)
    /\ UNCHANGED <<mfaRowVars, codeVars>>

TimeOut ==
    /\ mfa.recent
    /\ mfa' = [mfa EXCEPT !.recent = FALSE]
    /\ wrong' = 0
    /\ UNCHANGED <<proven, crossed, codeVars, task>>

MfaNext ==
    \/ \E c \in Tabs :
          \/ \E op \in MfaOp, right \in BOOLEAN : Begin(c, op, right)
          \/ Enroll(c) \/ Limit(c) \/ ResetTries(c) \/ WrongCode(c) \/ Verified(c)
          \/ Generate(c) \/ ListCodes(c) \/ Prove(c) \/ Disable(c) \/ MakeKey(c) \/ BumpMfa(c)
          \/ \E b \in BackupCodes : TryCode(c, b)
          \/ NoMatch(c) \/ CrashMfa(c)
    \/ TimeOut

MfaSpec == MfaInit /\ [][MfaNext]_mfaVars

-----------------------------------------------------------------------------

MfaTypeOK ==
    /\ mfa \in [enabled : BOOLEAN, secret : 0..MaxSecrets, tries : Nat, recent : BOOLEAN,
                key : {"none", "set", "used"}]
    /\ codes \subseteq made /\ made \subseteq BackupCodes
    /\ accepted \in [BackupCodes -> Nat]
    /\ \A c \in Tabs : task[c].list \subseteq made

(* A backup code is accepted once, whether two requests listed it together *)
(* or a new batch was made in between.                                     *)
CodeOnce == \A b \in BackupCodes : accepted[b] <= 1

(* With MFA enabled, the secret in the row is the one the user proved to   *)
(* have, unless an enrolment replaced it during that very verification:    *)
(* an enrolment that read the row before leaves MFA disabled.              *)
EnabledWasProven == mfa.enabled => mfa.secret = proven \/ crossed

(* Between two time-outs, or a success, no more codes are tried than the   *)
(* limit for the first request under way, and for each next one more than  *)
(* for the one before: a request that found the time-out over resets the   *)
(* count after the others have used theirs up, and all of them may pass    *)
(* the check before one counts.  (Both sides are doubled.)                 *)
WrongBounded ==
    LET n == Cardinality(Tabs) IN 2 * wrong <= n * (2 * MaxAttempts + n - 1)
=============================================================================
