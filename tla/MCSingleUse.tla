----------------------------- MODULE MCSingleUse -----------------------------
(***************************************************************************)
(* What may be used once although it is sent again: an Idempotency-Key,    *)
(* and a refresh token.  The two share no state: part says which of them a *)
(* behaviour is about, and the other stands still.                         *)
(***************************************************************************)
EXTENDS AuthSessions, IdempotencyGate

CONSTANTS s1, u1, u2

(* The session s1 is u1's, the others are u2's.                            *)
MCOwner == [s \in Sessions |-> IF s = s1 THEN u1 ELSE u2]

VARIABLE part

SingleUseInit == part \in {"gate", "sessions"} /\ Init /\ AuthInit

SingleUseNext ==
    /\ UNCHANGED part
    /\ \/ part = "gate" /\ Next /\ UNCHANGED authVars
       \/ part = "sessions" /\ AuthNext /\ UNCHANGED vars

SingleUseSpec ==
    /\ SingleUseInit
    /\ [][SingleUseNext]_<<part, vars, authVars>>
    /\ \/ part = "gate" /\ Fairness
       \/ part = "sessions" /\ AuthFairness
=============================================================================
