-------------------------- MODULE IdempotencyGate ---------------------------
(***************************************************************************)
(* IdempotencyService in front of a handler (hold, createIntent, refund):  *)
(* the registry row of an Idempotency-Key, the attempts of a client that   *)
(* retries, processes that die, and the job that sweeps expired rows.      *)
(* The keys are those of one user and one endpoint.                        *)
(*                                                                         *)
(* A row is identified by the order of its insertion.  The handler runs    *)
(* its business transaction at most once per attempt, so what it creates   *)
(* is named by the row under which it was created.                         *)
(***************************************************************************)
EXTENDS Integers

CONSTANTS
    Keys,      \* Idempotency-Key values
    Payloads,  \* what requestHash tells apart
    Attempts,  \* HTTP requests served at the same time
    MaxRows    \* bound on the registry rows ever inserted

ASSUME GateAssumption == MaxRows \in Nat

VARIABLES
    registry,  \* the rows of the Idempotency table
    attempt,   \* the requests being served
    executed,  \* history: the business transactions that committed
    answers,   \* history: the answers clients got
    lastRow    \* the number of rows ever inserted

vars == <<registry, attempt, executed, answers, lastRow>>

RowId == 1 .. MaxRows
Row == [id: RowId, key: Keys, hash: Payloads,
        status: {"IN_PROGRESS", "COMPLETED", "FAILED"}]
Attempt == [by: Attempts, pc: {"working", "committed", "failing"},
            row: RowId, key: Keys, payload: Payloads]
Execution == [by: Attempts, row: RowId, key: Keys, payload: Payloads]
Answer == [kind: {"ok", "reused", "inProgress", "failedBefore", "mismatch", "error"},
           key: Keys, payload: Payloads, row: 0 .. MaxRows]

Init ==
    /\ registry = {}
    /\ attempt = {}
    /\ executed = {}
    /\ answers = {}
    /\ lastRow = 0

Idle(a) == \A att \in attempt : att.by # a

Reply(kind, k, p, row) ==
    answers' = answers \cup {[kind |-> kind, key |-> k, payload |-> p, row |-> row]}

-----------------------------------------------------------------------------
(* beginOrReuse.                                                           *)

RegisteredFault(k) == \E row \in registry : row.key = k /\ row.status = "COMPLETED"

Registered(k) == \E row \in registry : row.key = k

(* The INSERT succeeds: no row has the key.                                *)
Begin(a, k, p) ==
    /\ Idle(a)
    /\ ~Registered(k)
    /\ lastRow < MaxRows
    /\ lastRow' = lastRow + 1
    /\ registry' = registry \cup {[id |-> lastRow + 1, key |-> k, hash |-> p,
                                   status |-> "IN_PROGRESS"]}
    /\ attempt' = attempt \cup {[by |-> a, pc |-> "working", row |-> lastRow + 1,
                                 key |-> k, payload |-> p]}
    /\ UNCHANGED <<executed, answers>>

VerdictFault(row, p) ==
    CASE row.status = "COMPLETED" -> "reused"
      [] row.status = "FAILED" -> "failedBefore"
      [] row.status = "IN_PROGRESS" -> "inProgress"

(* What the row found on the unique key means to a request with payload p. *)
Verdict(row, p) ==
    CASE row.hash # p -> "mismatch"
      [] row.hash = p /\ row.status = "COMPLETED" -> "reused"
      [] row.hash = p /\ row.status = "FAILED" -> "failedBefore"
      [] row.hash = p /\ row.status = "IN_PROGRESS" -> "inProgress"

ReuseFault(a, k, p) ==
    /\ Idle(a)
    /\ \E row \in registry :
          /\ row.key = k
          /\ IF row.status = "FAILED"
             THEN /\ attempt' = attempt \cup {[by |-> a, pc |-> "working", row |-> row.id,
                                               key |-> k, payload |-> p]}
                  /\ UNCHANGED answers
             ELSE Reply(Verdict(row, p), k, p, row.id) /\ UNCHANGED attempt
    /\ UNCHANGED <<registry, executed, lastRow>>

(* The INSERT hits the unique key.  The row is read after that: what       *)
(* counts is the row the read finds, and a row swept in between is an error *)
(* that changes nothing.                                                   *)
Reuse(a, k, p) ==
    /\ Idle(a)
    /\ \E row \in registry :
          /\ row.key = k
          /\ Reply(Verdict(row, p), k, p, row.id)
    /\ UNCHANGED <<registry, attempt, executed, lastRow>>

-----------------------------------------------------------------------------
(* The handler, with completeOK and completeFailed.                        *)

Move(att, pc) == attempt' = (attempt \ {att}) \cup {[att EXCEPT !.pc = pc]}
Leave(att) == attempt' = attempt \ {att}

SetStatus(id, newStatus) ==
    registry' = {IF row.id = id THEN [row EXCEPT !.status = newStatus] ELSE row :
                    row \in registry}

Commit(att) ==
    /\ att.pc = "working"
    /\ executed' = executed \cup {[by |-> att.by, row |-> att.row, key |-> att.key,
                                   payload |-> att.payload]}
    /\ Move(att, "committed")
    /\ UNCHANGED <<registry, answers, lastRow>>

(* The business transaction throws and leaves nothing behind.              *)
Fail(att) ==
    /\ att.pc = "working"
    /\ Move(att, "failing")
    /\ UNCHANGED <<registry, executed, answers, lastRow>>

CompleteOK(att) ==
    /\ att.pc = "committed"
    /\ SetStatus(att.row, "COMPLETED")
    /\ Reply("ok", att.key, att.payload, att.row)
    /\ Leave(att)
    /\ UNCHANGED <<executed, lastRow>>

(* completeOK throws: the catch block around it treats the attempt as      *)
(* failed, although its transaction has committed.                         *)
CompleteOKThrows(att) ==
    /\ att.pc = "committed"
    /\ Move(att, "failing")
    /\ UNCHANGED <<registry, executed, answers, lastRow>>

CompleteFailed(att) ==
    /\ att.pc = "failing"
    /\ SetStatus(att.row, "FAILED")
    /\ Reply("error", att.key, att.payload, 0)
    /\ Leave(att)
    /\ UNCHANGED <<executed, lastRow>>

(* The process dies, or completeFailed throws as well.                     *)
Die(att) ==
    /\ Leave(att)
    /\ UNCHANGED <<registry, executed, answers, lastRow>>

-----------------------------------------------------------------------------
(* The sweep.                                                              *)

SweepableFault(row) == row.status # "IN_PROGRESS"

(* A row expires long after the transaction of its attempt has timed out   *)
(* (5 seconds against 10 minutes and more): no attempt is at work on it.   *)
Sweepable(row) == \A att \in attempt : att.row # row.id

Sweep(row) ==
    /\ Sweepable(row)
    /\ registry' = registry \ {row}
    /\ UNCHANGED <<attempt, executed, answers, lastRow>>

-----------------------------------------------------------------------------

Step(att) ==
    \/ Commit(att)
    \/ Fail(att)
    \/ CompleteOK(att)
    \/ CompleteOKThrows(att)
    \/ CompleteFailed(att)
    \/ Die(att)

Next ==
    \/ \E a \in Attempts, k \in Keys, p \in Payloads : Begin(a, k, p) \/ Reuse(a, k, p)
    \/ \E att \in attempt : Step(att)
    \/ \E row \in registry : Sweep(row)

Spec == Init /\ [][Next]_vars

(* A request ends, if only by dying; the cron job sweeps what has expired. *)
Fairness ==
    /\ \A a \in Attempts : WF_vars(\E att \in attempt : att.by = a /\ Step(att))
    /\ \A k \in Keys : WF_vars(\E row \in registry : row.key = k /\ Sweep(row))

LiveSpec == Spec /\ Fairness

-----------------------------------------------------------------------------
(* Properties.                                                             *)

(* The types of the state; the registry keeps the unique constraint of the *)
(* Idempotency table although nothing but the INSERT looks at it.          *)
TypeOK ==
    /\ registry \subseteq Row
    /\ \A row, other \in registry : row.key = other.key => row = other
    /\ attempt \subseteq Attempt
    /\ executed \subseteq Execution
    /\ answers \subseteq Answer
    /\ lastRow \in 0 .. MaxRows

(* One registry row admits one execution, whatever retries, concurrent     *)
(* duplicates and crashes do: a key can only execute again after the sweep *)
(* has forgotten it.                                                       *)
OneExecutionPerRow ==
    \A e, f \in executed : e.row = f.row => e = f

(* A client that is handed a stored or a fresh response gets that of an    *)
(* execution of its own key and its own payload.                           *)
ResponseIsOwn ==
    \A ans \in answers :
        ans.kind \in {"ok", "reused"}
            => \E e \in executed : /\ e.row = ans.row
                                   /\ e.key = ans.key
                                   /\ e.payload = ans.payload

(* No two attempts ever work under one key at the same time.               *)
OneWorkerPerKey ==
    \A att, other \in attempt : att.key = other.key => att = other

(* A key does not answer "in progress" for ever, even if the attempt that  *)
(* holds it died.                                                          *)
KeyIsReleased ==
    \A k \in Keys :
        (\E row \in registry : row.key = k /\ row.status = "IN_PROGRESS")
            ~> ~(\E row \in registry : row.key = k /\ row.status = "IN_PROGRESS")

-----------------------------------------------------------------------------
(* What the code says of itself and its error path does not keep.          *)

(* idempotency.service.ts:73, "Previous attempt failed; use a new          *)
(* Idempotency-Key": what a FAILED row stands for did not happen.          *)
FailedDidNothing ==
    \A row \in registry :
        row.status = "FAILED" => \A e \in executed : e.row # row.id
=============================================================================
