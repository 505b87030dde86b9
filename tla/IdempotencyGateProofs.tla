----------------------- MODULE IdempotencyGateProofs ------------------------
(***************************************************************************)
(* Proofs, for any keys, payloads, clients and number of rows, of what the *)
(* idempotency gate promises.                                              *)
(*                                                                         *)
(* The argument: an attempt owns the row it inserted.  Row numbers are     *)
(* never used twice, the sweep leaves an owned row alone, and only the     *)
(* owner changes it; so a row is IN_PROGRESS as long as it is owned, and   *)
(* its owner has executed nothing as long as it is working.                *)
(***************************************************************************)
EXTENDS IdempotencyGate, TLAPS

Same(x, e) == /\ e.row = x.row
              /\ e.key = x.key
              /\ e.payload = x.payload

(* What is numbered was numbered by lastRow, and numbers are not shared.   *)
Numbered ==
    /\ \A row \in registry : row.id <= lastRow
    /\ \A att \in attempt : att.row <= lastRow
    /\ \A e \in executed : e.row <= lastRow
    /\ \A row, other \in registry : row.id = other.id => row = other

(* An attempt has a row, in progress, of its own key and payload, which no *)
(* other attempt has.                                                      *)
Owned ==
    /\ \A att \in attempt : \E row \in registry :
          /\ row.id = att.row
          /\ row.key = att.key
          /\ row.hash = att.payload
          /\ row.status = "IN_PROGRESS"
    /\ \A att, other \in attempt : att.row = other.row => att = other

(* Who has executed: a committed attempt and a completed row, not a        *)
(* working attempt.                                                        *)
Accounted ==
    /\ \A att \in attempt : att.pc = "working" => \A e \in executed : e.row # att.row
    /\ \A att \in attempt : att.pc = "committed" => \E e \in executed : Same(att, e)
    /\ \A row \in registry : row.status = "COMPLETED" =>
          \E e \in executed : /\ e.row = row.id
                              /\ e.key = row.key
                              /\ e.payload = row.hash

GateInv ==
    /\ TypeOK
    /\ Numbered
    /\ Owned
    /\ Accounted
    /\ OneExecutionPerRow
    /\ ResponseIsOwn

-----------------------------------------------------------------------------
(* The two ways an attempt changes.                                        *)

LEMMA MoveFacts ==
    ASSUME attempt \subseteq Attempt, NEW att \in attempt,
           NEW pc \in {"working", "committed", "failing"}, Move(att, pc)
    PROVE  /\ attempt' \subseteq Attempt
           /\ \A b \in attempt' : \/ b \in attempt /\ b # att
                                  \/ /\ b.pc = pc
                                     /\ b.row = att.row
                                     /\ b.key = att.key
                                     /\ b.payload = att.payload
                                     /\ b = [att EXCEPT !.pc = pc]
  BY DEF Move, Attempt

LEMMA InitGate == Init => GateInv
  BY GateAssumption DEF Init, GateInv, TypeOK, Numbered, Owned, Accounted,
     OneExecutionPerRow, ResponseIsOwn

(* beginOrReuse inserts a fresh row.                                       *)
LEMMA BeginKeeps ==
    ASSUME GateInv, NEW a \in Attempts, NEW k \in Keys, NEW p \in Payloads, Begin(a, k, p)
    PROVE  GateInv'
  <1> DEFINE fresh == [id |-> lastRow + 1, key |-> k, hash |-> p, status |-> "IN_PROGRESS"]
             mine == [by |-> a, pc |-> "working", row |-> lastRow + 1, key |-> k, payload |-> p]
  <1>1. /\ registry' = registry \cup {fresh}
        /\ attempt' = attempt \cup {mine}
        /\ lastRow' = lastRow + 1
        /\ lastRow \in 0 .. MaxRows
        /\ lastRow + 1 \in RowId
        /\ UNCHANGED <<executed, answers>>
        /\ \A row \in registry : row.key # k
    BY GateAssumption DEF Begin, Registered, GateInv, TypeOK, RowId
  <1>2. /\ \A row \in registry : row.id \in Nat /\ row.id <= lastRow
        /\ \A att \in attempt : att.row \in Nat /\ att.row <= lastRow
        /\ \A e \in executed : e.row \in Nat /\ e.row <= lastRow
    BY DEF GateInv, TypeOK, Numbered, Row, Attempt, Execution, RowId
  <1>3. fresh \in Row /\ mine \in Attempt
    BY <1>1 DEF Row, Attempt
  <1> HIDE DEF fresh, mine
  <1>4. TypeOK'
    <2>1. registry' \subseteq Row /\ attempt' \subseteq Attempt
      BY <1>1, <1>3 DEF GateInv, TypeOK
    <2>2. fresh.key = k
      BY DEF fresh
    <2>3. \A row, other \in registry' : row.key = other.key => row = other
      BY <1>1, <2>2 DEF GateInv, TypeOK
    <2>4. lastRow' \in 0 .. MaxRows
      BY <1>1 DEF RowId
    <2> QED
      BY <1>1, <2>1, <2>3, <2>4 DEF GateInv, TypeOK
  <1>5. fresh.id = lastRow + 1 /\ fresh.key = k /\ fresh.hash = p /\ fresh.status = "IN_PROGRESS"
    BY DEF fresh
  <1>6. mine.row = lastRow + 1 /\ mine.key = k /\ mine.payload = p /\ mine.pc = "working"
    BY DEF mine
  <1>7. Numbered'
    BY <1>1, <1>2, <1>5, <1>6 DEF GateInv, Numbered
  <1>8. Owned'
    BY <1>1, <1>2, <1>5, <1>6 DEF GateInv, Owned
  <1>9. Accounted'
    BY <1>1, <1>2, <1>5, <1>6 DEF GateInv, Accounted, Same
  <1> QED
    BY <1>1, <1>4, <1>7, <1>8, <1>9 DEF GateInv, OneExecutionPerRow, ResponseIsOwn

(* A stored response is handed out only for the payload it was given for.  *)
LEMMA ReuseKeeps ==
    ASSUME GateInv, NEW a \in Attempts, NEW k \in Keys, NEW p \in Payloads, Reuse(a, k, p)
    PROVE  GateInv'
  <1>1. PICK row \in registry : row.key = k /\ Reply(Verdict(row, p), k, p, row.id)
    BY DEF Reuse
  <1> DEFINE ans == [kind |-> Verdict(row, p), key |-> k, payload |-> p, row |-> row.id]
  <1>2. answers' = answers \cup {ans} /\ UNCHANGED <<registry, attempt, executed, lastRow>>
    BY <1>1 DEF Reply, Reuse
  <1>3. row \in Row
    BY DEF GateInv, TypeOK
  <1>4. Verdict(row, p) \in {"mismatch", "reused", "failedBefore", "inProgress"}
    BY <1>3 DEF Verdict, Row
  <1>5. Verdict(row, p) = "reused" => row.status = "COMPLETED" /\ row.hash = p
    BY <1>3 DEF Verdict, Row
  <1>6. ans \in Answer
    BY <1>3, <1>4, GateAssumption DEF Answer, Row, RowId
  <1>7. TypeOK'
    BY <1>2, <1>6 DEF GateInv, TypeOK
  <1>8. ans.kind \in {"ok", "reused"} =>
            \E e \in executed : e.row = ans.row /\ e.key = ans.key /\ e.payload = ans.payload
    BY <1>1, <1>4, <1>5 DEF GateInv, Accounted
  <1> HIDE DEF ans
  <1>9. ResponseIsOwn'
    BY <1>2, <1>8 DEF GateInv, ResponseIsOwn
  <1> QED
    BY <1>2, <1>7, <1>9 DEF GateInv, Numbered, Owned, Accounted, OneExecutionPerRow, Same

(* The business transaction commits, once, for the working owner.          *)
LEMMA CommitKeeps ==
    ASSUME GateInv, NEW att \in attempt, Commit(att)
    PROVE  GateInv'
  <1> DEFINE done == [by |-> att.by, row |-> att.row, key |-> att.key, payload |-> att.payload]
  <1>1. /\ executed' = executed \cup {done}
        /\ att.pc = "working"
        /\ Move(att, "committed")
        /\ UNCHANGED <<registry, answers, lastRow>>
    BY DEF Commit
  <1>2. att \in Attempt
    BY DEF GateInv, TypeOK
  <1>3. done \in Execution
    BY <1>2 DEF Attempt, Execution
  <1>4. done.row = att.row /\ done.key = att.key /\ done.payload = att.payload
    OBVIOUS
  <1> HIDE DEF done
  <1>5. /\ attempt' \subseteq Attempt
        /\ \A b \in attempt' : \/ b \in attempt /\ b # att
                               \/ /\ b.pc = "committed"
                                  /\ b.row = att.row
                                  /\ b.key = att.key
                                  /\ b.payload = att.payload
                                  /\ b = [att EXCEPT !.pc = "committed"]
    BY <1>1, MoveFacts DEF GateInv, TypeOK
  <1>6. TypeOK'
    BY <1>1, <1>3, <1>5 DEF GateInv, TypeOK
  <1>7. Numbered'
    BY <1>1, <1>4, <1>5 DEF GateInv, Numbered
  <1>8. Owned'
    BY <1>1, <1>5 DEF GateInv, Owned
  <1>9. \A e \in executed : e.row # att.row
    BY <1>1 DEF GateInv, Accounted
  <1>10. \A b \in attempt : b # att => b.row # att.row
    BY DEF GateInv, Owned
  <1>11. Accounted'
    BY <1>1, <1>4, <1>5, <1>9, <1>10 DEF GateInv, Accounted, Same
  <1>12. OneExecutionPerRow'
    BY <1>1, <1>4, <1>9 DEF GateInv, OneExecutionPerRow
  <1>13. ResponseIsOwn'
    BY <1>1 DEF GateInv, ResponseIsOwn
  <1> QED
    BY <1>6, <1>7, <1>8, <1>11, <1>12, <1>13 DEF GateInv

(* An attempt that throws, in its transaction or in completeOK.            *)
LEMMA FailingKeeps ==
    ASSUME GateInv, NEW att \in attempt, Move(att, "failing"),
           UNCHANGED <<registry, executed, answers, lastRow>>
    PROVE  GateInv'
  <1>1. /\ attempt' \subseteq Attempt
        /\ \A b \in attempt' : \/ b \in attempt /\ b # att
                               \/ /\ b.pc = "failing"
                                  /\ b.row = att.row
                                  /\ b.key = att.key
                                  /\ b.payload = att.payload
                                  /\ b = [att EXCEPT !.pc = "failing"]
    BY MoveFacts DEF GateInv, TypeOK
  <1>2. TypeOK' /\ Numbered'
    BY <1>1 DEF GateInv, TypeOK, Numbered
  <1>3. Owned'
    BY <1>1 DEF GateInv, Owned
  <1>4. Accounted'
    BY <1>1 DEF GateInv, Accounted, Same
  <1> QED
    BY <1>2, <1>3, <1>4 DEF GateInv, OneExecutionPerRow, ResponseIsOwn

(* The owner settles its row and leaves.                                   *)
LEMMA SettleKeeps ==
    ASSUME GateInv, NEW att \in attempt, NEW s \in {"COMPLETED", "FAILED"},
           SetStatus(att.row, s), Leave(att),
           s = "COMPLETED" => att.pc = "committed",
           UNCHANGED <<executed, lastRow>>
    PROVE  /\ (registry \subseteq Row)' /\ (attempt \subseteq Attempt)'
           /\ \A row, other \in registry' : row.key = other.key => row = other
           /\ Numbered' /\ Owned' /\ Accounted'
  <1> DEFINE NewRow(row) == IF row.id = att.row THEN [row EXCEPT !.status = s] ELSE row
  <1>1. registry' = {NewRow(row) : row \in registry} /\ attempt' = attempt \ {att}
    BY DEF SetStatus, Leave
  <1>2. \A row \in registry : /\ NewRow(row) \in Row
                              /\ NewRow(row).id = row.id
                              /\ NewRow(row).key = row.key
                              /\ NewRow(row).hash = row.hash
                              /\ NewRow(row).status = IF row.id = att.row THEN s ELSE row.status
    BY DEF GateInv, TypeOK, Row
  <1> HIDE DEF NewRow
  <1>3. (registry \subseteq Row)' /\ (attempt \subseteq Attempt)'
    BY <1>1, <1>2 DEF GateInv, TypeOK
  <1>4. \A row, other \in registry' : row.key = other.key => row = other
    BY <1>1, <1>2 DEF GateInv, TypeOK
  <1>5. Numbered'
    BY <1>1, <1>2 DEF GateInv, Numbered
  <1>6. Owned'
    <2>1. ASSUME NEW b \in attempt'
          PROVE  \E row \in registry' : /\ row.id = b.row
                                        /\ row.key = b.key
                                        /\ row.hash = b.payload
                                        /\ row.status = "IN_PROGRESS"
      <3>1. b \in attempt /\ b.row # att.row
        BY <1>1, <2>1 DEF GateInv, Owned
      <3>2. PICK row \in registry : /\ row.id = b.row
                                    /\ row.key = b.key
                                    /\ row.hash = b.payload
                                    /\ row.status = "IN_PROGRESS"
        BY <3>1 DEF GateInv, Owned
      <3> QED
        BY <1>1, <1>2, <3>1, <3>2
    <2> QED
      BY <1>1, <2>1 DEF GateInv, Owned
  <1>7. PICK own \in registry : own.id = att.row /\ own.key = att.key /\ own.hash = att.payload
    BY DEF GateInv, Owned
  <1>8. ASSUME NEW row \in registry, NewRow(row).status = "COMPLETED"
        PROVE  \E e \in executed : e.row = row.id /\ e.key = row.key /\ e.payload = row.hash
    <2>1. CASE row.id = att.row
      <3>1. row = own
        BY <1>7, <2>1 DEF GateInv, Numbered
      <3>2. att.pc = "committed"
        BY <1>2, <1>8, <2>1
      <3> QED
        BY <1>7, <3>1, <3>2 DEF GateInv, Accounted, Same
    <2>2. CASE row.id # att.row
      BY <1>2, <1>8, <2>2 DEF GateInv, Accounted
    <2> QED
      BY <2>1, <2>2
  <1>9. Accounted'
    BY <1>1, <1>2, <1>8 DEF GateInv, Accounted, Same
  <1> QED
    BY <1>3, <1>4, <1>5, <1>6, <1>9

LEMMA CompleteOKKeeps ==
    ASSUME GateInv, NEW att \in attempt, CompleteOK(att)
    PROVE  GateInv'
  <1> DEFINE ans == [kind |-> "ok", key |-> att.key, payload |-> att.payload, row |-> att.row]
  <1>1. answers' = answers \cup {ans}
    BY DEF CompleteOK, Reply
  <1>2. /\ (registry \subseteq Row)' /\ (attempt \subseteq Attempt)'
        /\ \A row, other \in registry' : row.key = other.key => row = other
        /\ Numbered' /\ Owned' /\ Accounted'
    BY SettleKeeps DEF CompleteOK
  <1>3. ans \in Answer
    BY GateAssumption DEF Answer, GateInv, TypeOK, Attempt, RowId
  <1>4. TypeOK'
    BY <1>1, <1>2, <1>3 DEF GateInv, TypeOK, CompleteOK
  <1>5. \E e \in executed : e.row = ans.row /\ e.key = ans.key /\ e.payload = ans.payload
    BY DEF CompleteOK, GateInv, Accounted, Same
  <1> HIDE DEF ans
  <1> QED
    BY <1>1, <1>2, <1>4, <1>5 DEF GateInv, OneExecutionPerRow, ResponseIsOwn, CompleteOK

LEMMA CompleteFailedKeeps ==
    ASSUME GateInv, NEW att \in attempt, CompleteFailed(att)
    PROVE  GateInv'
  <1> DEFINE ans == [kind |-> "error", key |-> att.key, payload |-> att.payload, row |-> 0]
  <1>1. answers' = answers \cup {ans}
    BY DEF CompleteFailed, Reply
  <1>2. /\ (registry \subseteq Row)' /\ (attempt \subseteq Attempt)'
        /\ \A row, other \in registry' : row.key = other.key => row = other
        /\ Numbered' /\ Owned' /\ Accounted'
    BY SettleKeeps DEF CompleteFailed
  <1>3. ans \in Answer
    BY GateAssumption DEF Answer, GateInv, TypeOK, Attempt
  <1>4. TypeOK'
    BY <1>1, <1>2, <1>3 DEF GateInv, TypeOK, CompleteFailed
  <1>5. ans.kind \notin {"ok", "reused"}
    OBVIOUS
  <1> HIDE DEF ans
  <1> QED
    BY <1>1, <1>2, <1>4, <1>5 DEF GateInv, OneExecutionPerRow, ResponseIsOwn, CompleteFailed

(* A process that dies leaves a row nobody owns.                           *)
LEMMA DieKeeps ==
    ASSUME GateInv, NEW att \in attempt, Die(att)
    PROVE  GateInv'
  BY DEF Die, Leave, GateInv, TypeOK, Numbered, Owned, Accounted, OneExecutionPerRow,
         ResponseIsOwn, Same

(* The sweep takes a row nobody owns.                                      *)
LEMMA SweepKeeps ==
    ASSUME GateInv, NEW row \in registry, Sweep(row)
    PROVE  GateInv'
  <1>1. /\ registry' = registry \ {row}
        /\ \A att \in attempt : att.row # row.id
        /\ UNCHANGED <<attempt, executed, answers, lastRow>>
    BY DEF Sweep, Sweepable
  <1>2. TypeOK' /\ Numbered'
    BY <1>1 DEF GateInv, TypeOK, Numbered
  <1>3. Owned'
    BY <1>1 DEF GateInv, Owned
  <1> QED
    BY <1>1, <1>2, <1>3 DEF GateInv, Accounted, OneExecutionPerRow, ResponseIsOwn, Same

-----------------------------------------------------------------------------

(* GateInv is inductive.                                                   *)
THEOREM GateInvariant == Spec => []GateInv
  <1>1. GateInv /\ [Next]_vars => GateInv'
    <2> SUFFICES ASSUME GateInv, [Next]_vars
                 PROVE  GateInv'
      OBVIOUS
    <2>1. CASE \E a \in Attempts, k \in Keys, p \in Payloads : Begin(a, k, p) \/ Reuse(a, k, p)
      BY <2>1, BeginKeeps, ReuseKeeps
    <2>2. ASSUME NEW att \in attempt, Step(att)
          PROVE  GateInv'
      <3>1. CASE Commit(att)
        BY <3>1, CommitKeeps
      <3>2. CASE Fail(att) \/ CompleteOKThrows(att)
        BY <3>2, FailingKeeps DEF Fail, CompleteOKThrows
      <3>3. CASE CompleteOK(att)
        BY <3>3, CompleteOKKeeps
      <3>4. CASE CompleteFailed(att)
        BY <3>4, CompleteFailedKeeps
      <3>5. CASE Die(att)
        BY <3>5, DieKeeps
      <3> QED
        BY <2>2, <3>1, <3>2, <3>3, <3>4, <3>5 DEF Step
    <2>3. CASE \E row \in registry : Sweep(row)
      BY <2>3, SweepKeeps
    <2>4. CASE UNCHANGED vars
      BY <2>4 DEF vars, GateInv, TypeOK, Numbered, Owned, Accounted, OneExecutionPerRow,
                  ResponseIsOwn, Same
    <2> QED
      BY <2>1, <2>2, <2>3, <2>4 DEF Next
  <1> QED
    BY InitGate, <1>1, PTL DEF Spec

(* The registry always has its types and its unique key.                   *)
THEOREM RegistryTyped == Spec => []TypeOK
  <1>1. GateInv => TypeOK
    BY DEF GateInv
  <1> QED
    BY GateInvariant, <1>1, PTL

(* A registry row admits one execution of the handler's transaction.       *)
THEOREM OneExecution == Spec => []OneExecutionPerRow
  <1>1. GateInv => OneExecutionPerRow
    BY DEF GateInv
  <1> QED
    BY GateInvariant, <1>1, PTL

(* A response handed to a client is that of its own key and payload.       *)
THEOREM OwnResponses == Spec => []ResponseIsOwn
  <1>1. GateInv => ResponseIsOwn
    BY DEF GateInv
  <1> QED
    BY GateInvariant, <1>1, PTL

(* Two requests under one key are never at work at the same time.          *)
THEOREM OneWorker == Spec => []OneWorkerPerKey
  <1>1. GateInv => OneWorkerPerKey
    <2> SUFFICES ASSUME GateInv, NEW att \in attempt, NEW other \in attempt,
                        att.key = other.key
                 PROVE  att = other
      BY DEF OneWorkerPerKey
    <2>1. PICK r1 \in registry : r1.id = att.row /\ r1.key = att.key
      BY DEF GateInv, Owned
    <2>2. PICK r2 \in registry : r2.id = other.row /\ r2.key = other.key
      BY DEF GateInv, Owned
    <2>3. r1 = r2
      BY <2>1, <2>2 DEF GateInv, TypeOK
    <2> QED
      BY <2>1, <2>2, <2>3 DEF GateInv, Owned
  <1> QED
    BY GateInvariant, <1>1, PTL
=============================================================================
