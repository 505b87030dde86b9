--------------------------- MODULE BackgroundProofs ---------------------------
(***************************************************************************)
(* Proofs about the parts that work without a user waiting, each for any   *)
(* number of its actors, and then about MCBackground, whose behaviours are *)
(* those of the parts: a step of it is a step of one part and leaves the   *)
(* others alone, so what each keeps all of them keep.                      *)
(***************************************************************************)
EXTENDS MCBackground, FiniteSetTheorems, TLAPS

-----------------------------------------------------------------------------
(* NotificationDispatch.  Of each mail one copy may be sent more than runs *)
(* were overrun or retries asked for.  What has been emitted, the workers  *)
(* that hold the row and the claim that is still to be had share it.       *)

Holders(n) == {w \in Workers : Holds(w, n)}

Claims(n) == Cardinality(Holders(n))

ToBeHad(n) == \/ note[n].st = "none"
              \/ note[n].st = "PENDING" /\ (note[n].claim # "fresh" \/ Claims(n) = 0)

Quota ==
    /\ \A n \in Mails : emits[n] + Claims(n) + (IF ToBeHad(n) THEN 1 ELSE 0) <= 1 + extra[n]
    /\ \A n \in Inapps : emits[n] = 0

Note == [st : {"none", "PENDING", "SENT", "READ", "CANCELLED"}, sent : BOOLEAN, due : BOOLEAN,
         claim : {"free", "fresh", "over"}]
Worker == [at : {"off", "next", "claimed"}, list : SUBSET Mails, note : Mails \cup {"none"}]

DispatchTyped ==
    /\ note \in [Notes -> Note]
    /\ worker \in [Workers -> Worker]
    /\ \A w \in Workers : worker[w].at = "claimed" => worker[w].note \in Mails
    /\ \/ form = NoForm
       \/ form \in [op : {"read"}, note : Inapps]
       \/ form \in [op : {"cancel", "retry"}, note : Mails] /\ (form.op = "retry" => retries < MaxRetries)
    /\ emits \in [Notes -> Nat] /\ extra \in [Notes -> Nat]
    /\ mishaps \in 0..MaxMishaps /\ retries \in 0..MaxRetries

DispatchInv == DispatchTyped /\ Quota

LEMMA ClaimsTyped == \A n : IsFiniteSet(Holders(n)) /\ Claims(n) \in Nat
<1>1. \A n : Holders(n) \subseteq Workers
    BY DEF Holders
<1>2. QED
    BY <1>1, DispatchAssumption, FS_Subset, FS_CardinalityType DEF Claims

(* A worker takes a row, or leaves the one it had.                         *)
LEMMA ClaimsMove ==
    ASSUME DispatchTyped, NEW w \in Workers, NEW r \in Worker, worker' = [worker EXCEPT ![w] = r],
           NEW n
    PROVE  LET had == Holds(w, n)
               has == r.at = "claimed" /\ r.note = n
           IN  /\ (had <=> has) => Claims(n)' = Claims(n)
               /\ has /\ ~had => Claims(n)' = Claims(n) + 1
               /\ had /\ ~has => Claims(n) >= 1 /\ Claims(n)' = Claims(n) - 1
<1>1. \A v \in Workers : worker'[v] = IF v = w THEN r ELSE worker[v]
    BY DEF DispatchTyped
<1>2. w \in Holders(n) <=> Holds(w, n)
    BY DEF Holders
<1>3. IsFiniteSet(Holders(n)) /\ Claims(n) \in Nat
    BY ClaimsTyped
<1>4. CASE r.at = "claimed" /\ r.note = n
    <2>1. Holders(n)' = Holders(n) \cup {w}
        BY <1>1, <1>4 DEF Holders, Holds
    <2>2. Claims(n)' = IF w \in Holders(n) THEN Claims(n) ELSE Claims(n) + 1
        BY <1>3, <2>1, FS_AddElement DEF Claims
    <2>3. QED
        BY <1>2, <1>4, <2>2
<1>5. CASE ~(r.at = "claimed" /\ r.note = n)
    <2>1. Holders(n)' = Holders(n) \ {w}
        BY <1>1, <1>5 DEF Holders, Holds
    <2>2. Claims(n)' = IF w \in Holders(n) THEN Claims(n) - 1 ELSE Claims(n)
        BY <1>3, <2>1, FS_RemoveElement DEF Claims
    <2>3. w \in Holders(n) => Claims(n) # 0
        BY <1>3, FS_EmptySet DEF Claims
    <2>4. QED
        BY <1>2, <1>3, <1>5, <2>2, <2>3
<1>6. QED
    BY <1>4, <1>5

LEMMA ClaimsStay == worker' = worker => \A n : Claims(n)' = Claims(n)
BY DEF Claims, Holders, Holds

LEMMA DispatchInitInv == DispatchInit => DispatchInv
<1> SUFFICES ASSUME DispatchInit PROVE DispatchInv
    OBVIOUS
<1>1. DispatchTyped
    BY DispatchAssumption DEF DispatchInit, DispatchTyped, Note, Worker, Absent, Off
<1>2. \A n : Claims(n) = 0
    <2>1. \A n : Holders(n) = {}
        BY DEF DispatchInit, Holders, Holds, Off
    <2>2. QED
        BY <2>1, FS_EmptySet DEF Claims
<1>3. Quota
    BY <1>2 DEF DispatchInit, Quota, Notes
<1>4. QED
    BY <1>1, <1>3 DEF DispatchInv

LEMMA DispatchStepInv == DispatchInv /\ [DispatchNext]_dispatchVars => DispatchInv'
<1> SUFFICES ASSUME DispatchInv, [DispatchNext]_dispatchVars PROVE DispatchInv'
    OBVIOUS
<1> USE DispatchAssumption, ClaimsTyped
<1>0. /\ note \in [Notes -> Note] /\ worker \in [Workers -> Worker]
      /\ emits \in [Notes -> Nat] /\ extra \in [Notes -> Nat]
      /\ \A n \in Notes : note[n] \in Note /\ emits[n] \in Nat /\ extra[n] \in Nat
      /\ Mails \subseteq Notes /\ Inapps \subseteq Notes
    BY DEF DispatchInv, DispatchTyped, Notes
<1>1. ASSUME NEW n \in Notes, Create(n) PROVE DispatchInv'
    <2>1. \A m : Claims(m)' = Claims(m)
        BY <1>1, ClaimsStay DEF Create
    <2>2. \A m \in Notes : m # n => note'[m] = note[m] /\ emits'[m] = emits[m]
        BY <1>0, <1>1 DEF Create, Emitted
    <2>3. /\ note' \in [Notes -> Note] /\ emits' \in [Notes -> Nat]
          /\ note[n].st = "none" /\ UNCHANGED <<worker, form, extra, mishaps, retries>>
          /\ \/ n \in Inapps /\ emits' = emits
             \/ n \in Mails /\ emits'[n] = emits[n] + 1 /\ note'[n].st = "SENT"
             \/ n \in Mails /\ emits' = emits
        <3>1. CASE n \in Inapps /\ note' = [note EXCEPT ![n].st = "SENT", ![n].sent = TRUE]
                   /\ UNCHANGED emits
            <4>1. PICK r : r = [note[n] EXCEPT !.st = "SENT", !.sent = TRUE]
                OBVIOUS
            <4>2. r \in Note /\ note' = [note EXCEPT ![n] = r]
                BY <1>0, <3>1, <4>1 DEF Note
            <4>3. QED
                BY <1>0, <1>1, <3>1, <4>2 DEF Create
        <3>2. CASE n \in Mails /\ note' = [note EXCEPT ![n].st = "SENT", ![n].sent = TRUE]
                   /\ Emitted(n)
            <4>1. PICK r : r = [note[n] EXCEPT !.st = "SENT", !.sent = TRUE]
                OBVIOUS
            <4>2. r \in Note /\ r.st = "SENT" /\ note' = [note EXCEPT ![n] = r]
                BY <1>0, <3>2, <4>1 DEF Note
            <4>3. note' \in [Notes -> Note] /\ note'[n].st = "SENT"
                BY <1>0, <4>2
            <4>4. emits' \in [Notes -> Nat] /\ emits'[n] = emits[n] + 1
                BY <1>0, <3>2 DEF Emitted
            <4>5. note[n].st = "none" /\ UNCHANGED <<worker, form, extra, mishaps, retries>>
                BY <1>1 DEF Create
            <4>6. QED
                BY <3>2, <4>3, <4>4, <4>5
        <3>3. ASSUME n \in Mails, NEW due \in BOOLEAN, UNCHANGED emits,
                     note' = [note EXCEPT ![n].st = "PENDING", ![n].due = due]
              PROVE  note' \in [Notes -> Note]
            <4>1. PICK r : r = [note[n] EXCEPT !.st = "PENDING", !.due = due]
                OBVIOUS
            <4>2. r \in Note /\ note' = [note EXCEPT ![n] = r]
                BY <1>0, <3>3, <4>1 DEF Note
            <4>3. QED
                BY <1>0, <4>2
        <3>4. QED
            BY <1>0, <1>1, <3>1, <3>2, <3>3 DEF Create
    <2>4. \A m \in Mails : emits'[m] + Claims(m) + (IF ToBeHad(m)' THEN 1 ELSE 0) <= 1 + extra'[m]
        <3>1. \A m \in Mails : m # n =>
                  emits'[m] + Claims(m) + (IF ToBeHad(m)' THEN 1 ELSE 0) <= 1 + extra'[m]
            BY <1>0, <2>1, <2>2, <2>3 DEF DispatchInv, Quota, ToBeHad
        <3>2. n \in Mails => emits[n] + Claims(n) + 1 <= 1 + extra[n]
            BY <2>3 DEF DispatchInv, Quota, ToBeHad
        <3>3. n \in Mails => emits'[n] + Claims(n) + (IF ToBeHad(n)' THEN 1 ELSE 0) <= 1 + extra'[n]
            <4>1. CASE emits' = emits
                BY <1>0, <2>3, <3>2, <4>1
            <4>2. CASE note'[n].st = "SENT" /\ emits'[n] = emits[n] + 1
                <5>1. ~ToBeHad(n)'
                    BY <4>2 DEF ToBeHad
                <5>2. QED
                    BY <1>0, <2>3, <3>2, <4>2, <5>1
            <4>3. QED
                BY <2>3, <4>1, <4>2, DispatchAssumption
        <3>4. QED
            BY <3>1, <3>3
    <2>5. \A m \in Inapps : emits'[m] = 0
        BY <1>0, <1>1, <2>2 DEF Create, Emitted, DispatchInv, Quota
    <2>6. DispatchTyped'
        BY <2>3 DEF DispatchInv, DispatchTyped
    <2>7. QED
        BY <2>1, <2>4, <2>5, <2>6 DEF DispatchInv, Quota
<1>2. ASSUME NEW n \in Notes, DueComes(n) PROVE DispatchInv'
    <2>1. \A m : Claims(m)' = Claims(m)
        BY <1>2, ClaimsStay DEF DueComes
    <2>2. DispatchTyped'
        BY <1>0, <1>2 DEF DueComes, DispatchInv, DispatchTyped, Note
    <2>3. \A m \in Notes : ToBeHad(m)' = ToBeHad(m)
        BY <1>0, <1>2, <2>1 DEF DueComes, ToBeHad, Note
    <2>4. QED
        BY <1>0, <1>2, <2>1, <2>2, <2>3 DEF DueComes, DispatchInv, Quota
<1>3. ASSUME NEW n \in Notes, ClaimEnds(n) PROVE DispatchInv'
    <2>1. \A m : Claims(m)' = Claims(m)
        BY <1>3, ClaimsStay DEF ClaimEnds
    <2>2. DispatchTyped'
        <3>1. note' \in [Notes -> Note]
            BY <1>0, <1>3 DEF ClaimEnds, Note
        <3>2. extra' \in [Notes -> Nat] /\ mishaps' \in 0..MaxMishaps
            BY <1>0, <1>3 DEF ClaimEnds, Stall, DispatchInv, DispatchTyped
        <3>3. QED
            BY <1>3, <3>1, <3>2 DEF ClaimEnds, DispatchInv, DispatchTyped
    <2>3. \A m \in Notes : m # n => note'[m] = note[m] /\ extra'[m] = extra[m]
        BY <1>0, <1>3 DEF ClaimEnds
    <2>4. /\ note'[n].st = note[n].st /\ note[n].claim = "fresh"
          /\ extra'[n] = IF \E w \in Workers : Holds(w, n) THEN extra[n] + 1 ELSE extra[n]
        BY <1>0, <1>3 DEF ClaimEnds, Note
    <2>5. (\E w \in Workers : Holds(w, n)) <=> Claims(n) # 0
        <3>1. (\E w \in Workers : Holds(w, n)) <=> Holders(n) # {}
            BY DEF Holders
        <3>2. QED
            BY <3>1, FS_EmptySet DEF Claims
    <2>6. \A m \in Mails : emits[m] + Claims(m) + (IF ToBeHad(m)' THEN 1 ELSE 0) <= 1 + extra'[m]
        BY <1>0, <2>1, <2>3, <2>4, <2>5 DEF DispatchInv, Quota, ToBeHad
    <2>7. QED
        BY <1>3, <2>1, <2>2, <2>6 DEF ClaimEnds, DispatchInv, Quota
<1>4. ASSUME NEW n \in Notes, ReadNote(n) PROVE DispatchInv'
    <2>1. \A m : Claims(m)' = Claims(m)
        BY <1>4, ClaimsStay DEF ReadNote
    <2>2. DispatchTyped'
        BY <1>0, <1>4 DEF ReadNote, DispatchInv, DispatchTyped, Notes
    <2>3. QED
        BY <1>4, <2>1, <2>2 DEF ReadNote, DispatchInv, Quota, ToBeHad
<1>5. ASSUME NEW w \in Workers, NEW r \in Worker, worker' = [worker EXCEPT ![w] = r],
             r.at # "claimed", note' = note,
             UNCHANGED <<form, emits, extra, retries>>, mishaps' \in 0..MaxMishaps
      PROVE  DispatchInv'
    <2>1. \A m \in Mails : IF Holds(w, m) THEN Claims(m)' = Claims(m) - 1
                             ELSE Claims(m)' = Claims(m)
        BY <1>5, ClaimsMove DEF DispatchInv
    <2>2. DispatchTyped'
        BY <1>5 DEF DispatchInv, DispatchTyped
    <2>3. \A m \in Mails : Holds(w, m) => Claims(m) >= 1
        <3>1. \A m : Holds(w, m) => Holders(m) # {}
            BY DEF Holders
        <3>2. QED
            BY <3>1, FS_EmptySet DEF Claims
    <2>4. ASSUME NEW m \in Mails
          PROVE  emits[m] + Claims(m)' + (IF ToBeHad(m)' THEN 1 ELSE 0) <= 1 + extra[m]
        <3>1. emits[m] + Claims(m) + (IF ToBeHad(m) THEN 1 ELSE 0) <= 1 + extra[m]
            BY DEF DispatchInv, Quota
        <3>2. CASE Holds(w, m)
            BY <1>0, <2>1, <2>3, <3>1, <3>2
        <3>3. CASE ~Holds(w, m)
            <4>1. Claims(m)' = Claims(m)
                BY <2>1, <3>3
            <4>2. ToBeHad(m)' = ToBeHad(m)
                BY <1>5, <4>1 DEF ToBeHad
            <4>3. QED
                BY <3>1, <4>1, <4>2
        <3>4. QED
            BY <3>2, <3>3
    <2>5. QED
        BY <1>5, <2>2, <2>4 DEF DispatchInv, Quota
<1>6. ASSUME NEW w \in Workers, List(w) PROVE DispatchInv'
    <2>1. PICK r : r = [at |-> "next", list |-> {n \in Notes : Due(n)}, note |-> "none"]
        OBVIOUS
    <2>2. r \in Worker /\ r.at # "claimed"
        BY <2>1 DEF Worker, Due
    <2>3. QED
        BY <1>5, <1>6, <2>1, <2>2 DEF List, DispatchInv, DispatchTyped
<1>7. ASSUME NEW w \in Workers, EndRun(w) \/ DieWorker(w) PROVE DispatchInv'
    <2>1. Off \in Worker /\ Off.at # "claimed"
        BY DEF Off, Worker
    <2>2. mishaps' \in 0..MaxMishaps
        BY <1>7 DEF EndRun, DieWorker, Stall, DispatchInv, DispatchTyped
    <2>3. QED
        BY <1>5, <1>7, <2>1, <2>2 DEF EndRun, DieWorker
<1>8. ASSUME NEW w \in Workers, NEW n \in Notes, Claim(w, n) PROVE DispatchInv'
    <2>1. worker[w] \in Worker /\ worker[w].at = "next" /\ n \in Mails
        BY <1>0, <1>8 DEF Claim, Worker
    <2>2. CASE Claimable(n)
        <3>1. PICK r : r = [at |-> "claimed", list |-> worker[w].list \ {n}, note |-> n]
            OBVIOUS
        <3>2. r \in Worker /\ r.at = "claimed" /\ r.note = n
            BY <2>1, <3>1 DEF Worker
        <3>3. worker' = [worker EXCEPT ![w] = r] /\ note' = [note EXCEPT ![n].claim = "fresh"]
              /\ UNCHANGED <<form, emits, extra, mishaps, retries>>
            BY <1>8, <2>2, <3>1 DEF Claim
        <3>4. DispatchTyped'
            BY <1>0, <2>1, <3>2, <3>3 DEF DispatchInv, DispatchTyped, Note
        <3>5. \A m : IF m = n THEN Claims(m)' = Claims(m) + 1 ELSE Claims(m)' = Claims(m)
            <4>1. \A m : ~Holds(w, m)
                BY <2>1 DEF Holds
            <4>2. QED
                BY <3>2, <3>3, <4>1, ClaimsMove DEF DispatchInv
        <3>6. \A m \in Notes : note'[m].st = note[m].st /\ (m # n => note'[m] = note[m])
            BY <1>0, <3>3 DEF Note
        <3>7. note'[n].claim = "fresh" /\ ToBeHad(n)
            BY <1>0, <2>1, <2>2, <3>3 DEF Claimable, ToBeHad, Note
        <3>8. ASSUME NEW m \in Mails
              PROVE  emits[m] + Claims(m)' + (IF ToBeHad(m)' THEN 1 ELSE 0) <= 1 + extra[m]
            <4>1. emits[m] + Claims(m) + (IF ToBeHad(m) THEN 1 ELSE 0) <= 1 + extra[m]
                BY DEF DispatchInv, Quota
            <4>2. CASE m = n
                <5>1. note'[m].st = "PENDING" /\ note'[m].claim = "fresh" /\ Claims(m)' # 0
                    BY <1>0, <2>1, <2>2, <3>5, <3>6, <3>7, <4>2 DEF Claimable
                <5>2. ~ToBeHad(m)'
                    BY <5>1 DEF ToBeHad
                <5>3. QED
                    BY <1>0, <3>5, <3>7, <4>1, <4>2, <5>2
            <4>3. CASE m # n
                <5>1. Claims(m)' = Claims(m) /\ note'[m] = note[m]
                    BY <1>0, <3>5, <3>6, <4>3
                <5>2. ToBeHad(m)' = ToBeHad(m)
                    BY <5>1 DEF ToBeHad
                <5>3. QED
                    BY <4>1, <5>1, <5>2
            <4>4. QED
                BY <4>2, <4>3
        <3>9. QED
            BY <3>3, <3>4, <3>8 DEF DispatchInv, Quota
    <2>3. CASE ~Claimable(n)
        <3>1. PICK r : r = [worker[w] EXCEPT !.list = @ \ {n}]
            OBVIOUS
        <3>2. r \in Worker /\ r.at # "claimed"
            BY <2>1, <3>1 DEF Worker
        <3>3. worker' = [worker EXCEPT ![w] = r] /\ note' = note
              /\ UNCHANGED <<form, emits, extra, mishaps, retries>>
            BY <1>0, <1>8, <2>3, <3>1 DEF Claim
        <3>4. QED
            BY <1>5, <3>2, <3>3 DEF DispatchInv, DispatchTyped
    <2>4. QED
        BY <2>2, <2>3
<1>9. ASSUME NEW w \in Workers, Deliver(w) \/ Postpone(w) PROVE DispatchInv'
    <2>1. PICK n : n = worker[w].note
        OBVIOUS
    <2>2. worker[w] \in Worker /\ n \in Mails /\ n \in Notes /\ Holds(w, n)
        BY <1>0, <1>9, <2>1 DEF Deliver, Postpone, DispatchInv, DispatchTyped, Holds
    <2>3. PICK r : r = [worker[w] EXCEPT !.at = "next", !.note = "none"]
        OBVIOUS
    <2>4. r \in Worker /\ r.at # "claimed" /\ worker' = [worker EXCEPT ![w] = r]
        BY <1>0, <1>9, <2>2, <2>3 DEF Deliver, Postpone, Next_, Worker
    <2>5. \A m : IF m = n THEN Claims(m)' = Claims(m) - 1 ELSE Claims(m)' = Claims(m)
        <3>1. \A m : Holds(w, m) <=> m = n
            BY <2>1, <2>2 DEF Holds
        <3>2. QED
            BY <2>4, <3>1, ClaimsMove DEF DispatchInv
    <2>6. note' \in [Notes -> Note] /\ \A m \in Notes : m # n => note'[m] = note[m]
        <3>1. PICK x : x = IF Deliver(w)
                           THEN [note[n] EXCEPT !.st = "SENT", !.sent = TRUE, !.claim = "free"]
                           ELSE [note[n] EXCEPT !.claim = "free", !.due = FALSE]
            OBVIOUS
        <3>2. x \in Note
            BY <1>0, <2>2, <3>1 DEF Note
        <3>3. note' = [note EXCEPT ![n] = x]
            BY <1>0, <1>9, <2>1, <2>2, <3>1 DEF Deliver, Postpone, Return
        <3>4. QED
            BY <1>0, <3>2, <3>3
    <2>7. /\ emits' \in [Notes -> Nat] /\ \A m \in Notes : m # n => emits'[m] = emits[m]
          /\ \/ emits'[n] = emits[n]
             \/ emits'[n] = emits[n] + 1 /\ note'[n].st = "SENT"
        BY <1>0, <1>9, <2>1, <2>2 DEF Deliver, Postpone, Emitted, Note
    <2>8. UNCHANGED <<form, extra, retries>> /\ mishaps' \in 0..MaxMishaps
        BY <1>9 DEF Deliver, Postpone, Stall, DispatchInv, DispatchTyped
    <2>9. DispatchTyped'
        BY <2>4, <2>6, <2>7, <2>8 DEF DispatchInv, DispatchTyped
    <2>10. ASSUME NEW m \in Mails
           PROVE  emits'[m] + Claims(m)' + (IF ToBeHad(m)' THEN 1 ELSE 0) <= 1 + extra[m]
        <3>1. emits[m] + Claims(m) + (IF ToBeHad(m) THEN 1 ELSE 0) <= 1 + extra[m]
            BY DEF DispatchInv, Quota
        <3>2. CASE m # n
            <4>1. Claims(m)' = Claims(m) /\ note'[m] = note[m] /\ emits'[m] = emits[m]
                BY <1>0, <2>5, <2>6, <2>7, <3>2
            <4>2. ToBeHad(m)' = ToBeHad(m)
                BY <4>1 DEF ToBeHad
            <4>3. QED
                BY <3>1, <4>1, <4>2
        <3>3. CASE m = n
            <4>1. note'[n].st = "SENT" => ~ToBeHad(m)'
                BY <3>3 DEF ToBeHad
            <4>2. QED
                BY <1>0, <2>2, <2>5, <2>7, <3>1, <3>3, <4>1
        <3>4. QED
            BY <3>2, <3>3
    <2>11. \A m \in Inapps : emits'[m] = 0
        BY <1>0, <2>2, <2>7 DEF DispatchInv, Quota
    <2>12. QED
        BY <2>8, <2>9, <2>10, <2>11 DEF DispatchInv, Quota
<1>10. CASE WriteNote
    <2>1. PICK n : n = form.note
        OBVIOUS
    <2>2. \A m : Claims(m)' = Claims(m)
        BY <1>10, ClaimsStay DEF WriteNote
    <2>3. CASE form.op = "retry"
        <3>1. n \in Mails /\ retries < MaxRetries
            BY <1>10, <2>1, <2>3 DEF DispatchInv, DispatchTyped, NoForm
        <3>2. /\ note' = [note EXCEPT ![n].st = "PENDING", ![n].claim = "free", ![n].due = TRUE]
              /\ extra' = [extra EXCEPT ![n] = @ + 1] /\ retries' = retries + 1
              /\ form' = NoForm /\ UNCHANGED <<worker, emits, mishaps>>
            BY <1>10, <2>1, <2>3 DEF WriteNote
        <3>3. DispatchTyped'
            <4>1. PICK r : r = [note[n] EXCEPT !.st = "PENDING", !.claim = "free", !.due = TRUE]
                OBVIOUS
            <4>2. r \in Note /\ note' = [note EXCEPT ![n] = r]
                BY <1>0, <3>1, <3>2, <4>1 DEF Note
            <4>3. note' \in [Notes -> Note]
                BY <1>0, <4>2
            <4>4. extra' \in [Notes -> Nat] /\ retries' \in 0..MaxRetries
                BY <1>0, <3>1, <3>2 DEF DispatchInv, DispatchTyped
            <4>5. form' = NoForm /\ UNCHANGED <<worker, emits, mishaps>>
                BY <3>2
            <4>6. QED
                BY <4>3, <4>4, <4>5 DEF DispatchInv, DispatchTyped
        <3>4. \A m \in Mails : emits[m] + Claims(m) + (IF ToBeHad(m)' THEN 1 ELSE 0) <= 1 + extra'[m]
            BY <1>0, <2>2, <3>1, <3>2 DEF DispatchInv, Quota, ToBeHad
        <3>5. QED
            BY <2>2, <3>2, <3>3, <3>4 DEF DispatchInv, Quota
    <2>4. CASE form.op \in {"read", "cancel"}
        <3>1. n \in Notes /\ note[n] \in Note /\ (form.op = "read" => n \in Inapps)
            BY <1>0, <1>10, <2>1, <2>4 DEF DispatchInv, DispatchTyped, NoForm
        <3>2. /\ note' \in [Notes -> Note] /\ \A m \in Notes : m # n => note'[m] = note[m]
              /\ note'[n].st \in {"READ", "CANCELLED"}
              /\ form' = NoForm /\ UNCHANGED <<worker, emits, extra, retries, mishaps>>
            <4>1. PICK r : r = IF form.op = "read" THEN [note[n] EXCEPT !.st = "READ"]
                               ELSE [note[n] EXCEPT !.st = "CANCELLED", !.claim = "free"]
                OBVIOUS
            <4>2. r \in Note /\ r.st \in {"READ", "CANCELLED"}
                BY <3>1, <4>1 DEF Note
            <4>3. note' = [note EXCEPT ![n] = r]
                BY <1>0, <1>10, <2>1, <2>4, <3>1, <4>1 DEF WriteNote
            <4>4. form' = NoForm /\ UNCHANGED <<worker, emits, extra, retries, mishaps>>
                BY <1>10, <2>4 DEF WriteNote
            <4>5. QED
                BY <1>0, <3>1, <4>2, <4>3, <4>4
        <3>3. DispatchTyped'
            BY <3>2 DEF DispatchInv, DispatchTyped
        <3>4. \A m \in Notes : ToBeHad(m)' => ToBeHad(m)
            BY <2>2, <3>2 DEF ToBeHad
        <3>5. \A m \in Mails : emits[m] + Claims(m) + (IF ToBeHad(m)' THEN 1 ELSE 0) <= 1 + extra[m]
            BY <1>0, <3>4 DEF DispatchInv, Quota
        <3>6. QED
            BY <2>2, <3>2, <3>3, <3>5 DEF DispatchInv, Quota
    <2>5. QED
        BY <1>10, <2>3, <2>4 DEF WriteNote, DispatchInv, DispatchTyped
<1>11. CASE MarkAllRead
    <2>1. \A m : Claims(m)' = Claims(m)
        BY <1>11, ClaimsStay DEF MarkAllRead
    <2>2. DispatchTyped'
        BY <1>0, <1>11 DEF MarkAllRead, DispatchInv, DispatchTyped, Note
    <2>3. \A m \in Mails : note'[m] = note[m]
        BY <1>0, <1>11 DEF MarkAllRead
    <2>4. QED
        BY <1>11, <2>1, <2>2, <2>3 DEF MarkAllRead, DispatchInv, Quota, ToBeHad
<1>12. CASE UNCHANGED dispatchVars
    BY <1>12, ClaimsStay DEF dispatchVars, DispatchInv, DispatchTyped, Quota, ToBeHad
<1>13. QED
    BY <1>1, <1>2, <1>3, <1>4, <1>6, <1>7, <1>8, <1>9, <1>10, <1>11, <1>12 DEF DispatchNext

LEMMA DispatchInvSafe == DispatchInv => DispatchTypeOK /\ MailedOnce
<1> SUFFICES ASSUME DispatchInv PROVE DispatchTypeOK /\ MailedOnce
    OBVIOUS
<1>1. DispatchTypeOK
    BY DEF DispatchInv, DispatchTyped, DispatchTypeOK, Note, Worker
<1>2. MailedOnce
    BY ClaimsTyped DEF DispatchInv, DispatchTyped, Quota, MailedOnce, Notes
<1>3. QED
    BY <1>1, <1>2

(* For any number of schedulers, overlapping ticks, mails, errors and      *)
(* retries of the owner: no mail is handed over twice, unless a run        *)
(* outlived its minute or the owner asked again.                           *)
THEOREM MailsOnce == DispatchSpec => []MailedOnce
BY DispatchInitInv, DispatchStepInv, DispatchInvSafe, PTL DEF DispatchSpec

-----------------------------------------------------------------------------
(* FilePipeline, the files of a key.  One file at a time is live, and but  *)
(* for the two exceptions its object is there and nobody is about to       *)
(* delete it.  A verdict in hand is the verdict on what the key holds.     *)

JobOK(r) ==
    \/ r = NoJob
    \/ r \in [at : {"create", "refuse"}, file : {0}, seen : {"none"}]
    \/ r \in [at : {"emit", "wipe"}, file : Files, seen : {"none"}]
    \/ /\ r \in [at : {"verdict"}, file : Files, seen : Verdicts]
       /\ row[r.file] # "none"
       /\ r.seen = "CLEAN" /\ Live(r.file) /\ r.file \notin replaced => object # "infected"

JobsOK == \A j \in Jobs : JobOK(job[j])

FileTyped ==
    /\ FileTypeOK
    /\ crossed \subseteq Files /\ replaced \subseteq Files
    /\ DOMAIN job = Jobs /\ job = [j \in Jobs |-> job[j]]

OneLive == \A f, g \in Files : Live(f) /\ Live(g) => f = g

CleanIsHarmless == \A f \in Files : row[f] = "CLEAN" /\ f \notin replaced => object # "infected"

Undisturbed ==
    \A f \in Files : Live(f) /\ f \notin crossed \cup replaced => ~BeingDeleted

FileInv == FileTyped /\ JobsOK /\ OneLive /\ CleanIsHarmless /\ Undisturbed /\ AttachedIsHarmless

LEMMA FileConstants ==
    /\ MaxFiles \in Nat /\ MaxPuts \in Nat /\ MaxBreaks \in Nat
    /\ \A f \in Files : f \in Nat /\ f # 0
<1>1. MaxFiles \in Nat /\ MaxPuts \in Nat /\ MaxBreaks \in Nat
    BY FileAssumption
<1>2. QED
    BY <1>1 DEF Files

LEMMA FileInitInv == FileInit => FileInv
<1> SUFFICES ASSUME FileInit PROVE FileInv
    OBVIOUS
<1>1. \A j \in Jobs : job[j] = NoJob
    BY DEF FileInit
<1>2. \A f \in Files : ~Live(f) /\ row[f] = "none"
    BY DEF FileInit, Live, Verdicts
<1>3. FileTyped
    <2>1. 0 \in 0..MaxBreaks /\ 0 \in 0..MaxPuts
        BY FileConstants
    <2>2. FileTypeOK
        BY <2>1 DEF FileInit, FileTypeOK
    <2>3. QED
        BY <2>2 DEF FileInit, FileTyped
<1>4. JobsOK
    BY <1>1 DEF JobsOK, JobOK
<1>5. QED
    BY <1>2, <1>3, <1>4 DEF FileInit, FileInv, OneLive, CleanIsHarmless, Undisturbed, AttachedIsHarmless

(* Ids are not used again, and what becomes of a row or of the object      *)
(* leaves a job in hand as it was.                                         *)
LEMMA JobStays ==
    ASSUME NEW q, JobOK(q),
           \A f \in Files : row[f] # "none" => row'[f] # "none" /\ (Live(f)' => Live(f)),
           \A f \in Files : row[f] # "none" /\ Live(f)' /\ f \notin replaced' =>
               f \notin replaced /\ (object # "infected" => object' # "infected")
    PROVE  JobOK(q)'
<1>1. CASE /\ q \in [at : {"verdict"}, file : Files, seen : Verdicts]
           /\ row[q.file] # "none"
           /\ q.seen = "CLEAN" /\ Live(q.file) /\ q.file \notin replaced => object # "infected"
    <2>1. PICK f \in Files : f = q.file
        BY <1>1
    <2>2. row'[f] # "none" /\ (Live(f)' => Live(f))
          /\ Live(f)' /\ f \notin replaced' =>
              f \notin replaced /\ (object # "infected" => object' # "infected")
        BY <1>1, <2>1
    <2>3. q.seen = "CLEAN" /\ Live(f)' /\ f \notin replaced' => object' # "infected"
        BY <1>1, <2>1, <2>2
    <2>4. QED
        BY <1>1, <2>1, <2>2, <2>3 DEF JobOK, Live
<1>2. QED
    BY <1>1 DEF JobOK

(* One handler goes on to r, which is in order after the step.             *)
LEMMA JobMoves ==
    ASSUME FileTyped, JobsOK, NEW j \in Jobs, NEW r, job' = [job EXCEPT ![j] = r], JobOK(r)',
           \A f \in Files : row[f] # "none" => row'[f] # "none" /\ (Live(f)' => Live(f)),
           \A f \in Files : row[f] # "none" /\ Live(f)' /\ f \notin replaced' =>
               f \notin replaced /\ (object # "infected" => object' # "infected")
    PROVE  /\ JobsOK'
           /\ DOMAIN job' = Jobs /\ job' = [i \in Jobs |-> job'[i]]
           /\ job'[j] = r /\ \A i \in Jobs : i # j => job'[i] = job[i]
<1>1. job'[j] = r /\ \A i \in Jobs : i # j => job'[i] = job[i]
    BY DEF FileTyped
<1>2. DOMAIN job' = Jobs /\ job' = [i \in Jobs |-> job'[i]]
    BY DEF FileTyped
<1>3. ASSUME NEW i \in Jobs PROVE JobOK(job[i])'
    <2>1. CASE i = j
        BY <1>1, <2>1 DEF JobOK
    <2>2. CASE i # j
        <3>1. PICK q : q = job[i] /\ JobOK(q)
            BY DEF JobsOK
        <3>2. job'[i] = q /\ JobOK(q)'
            BY <1>1, <2>2, <3>1, JobStays
        <3>3. QED
            BY <3>2 DEF JobOK
    <2>3. QED
        BY <2>1, <2>2
<1>4. QED
    BY <1>1, <1>2, <1>3 DEF JobsOK

(* A handler goes on, to another step than a deletion of the object, and   *)
(* the rows and the object stay.                                           *)
LEMMA PlainMove ==
    ASSUME FileInv, NEW j \in Jobs, NEW r, job' = [job EXCEPT ![j] = r], JobOK(r),
           r.at \notin {"wipe", "refuse"}, uploaded' \subseteq Files, breaks' \in 0..MaxBreaks,
           UNCHANGED <<object, row, attached, puts, crossed, replaced>>
    PROVE  FileInv'
<1>1. JobOK(r)'
    BY DEF JobOK, Live
<1>2. /\ JobsOK' /\ DOMAIN job' = Jobs /\ job' = [i \in Jobs |-> job'[i]]
      /\ job'[j] = r /\ \A i \in Jobs : i # j => job'[i] = job[i]
    BY <1>1, JobMoves DEF FileInv, Live
<1>3. FileTyped' /\ OneLive' /\ CleanIsHarmless' /\ AttachedIsHarmless'
    BY <1>2 DEF FileInv, FileTyped, FileTypeOK, OneLive, CleanIsHarmless, AttachedIsHarmless, Live
<1>4. BeingDeleted' => BeingDeleted
    BY <1>2 DEF BeingDeleted
<1>5. Undisturbed'
    BY <1>4 DEF FileInv, Undisturbed, Live
<1>6. QED
    BY <1>2, <1>3, <1>5 DEF FileInv

LEMMA EndKeeps ==
    ASSUME FileInv, NEW j \in Jobs, EndJob(j), uploaded' \subseteq Files, breaks' \in 0..MaxBreaks,
           UNCHANGED <<object, row, attached, puts, crossed, replaced>>
    PROVE  FileInv'
<1>1. JobOK(NoJob) /\ NoJob.at \notin {"wipe", "refuse"}
    BY DEF JobOK, NoJob
<1>2. QED
    BY <1>1, PlainMove DEF EndJob

(* Where the object is deleted no file was to keep it, so that only files  *)
(* of the two exceptions lose it.                                          *)
LEMMA Deletes ==
    ASSUME FileInv, NEW j \in Jobs, job[j].at \in {"wipe", "refuse"}, EndJob(j), object' = "absent",
           UNCHANGED <<row, attached, uploaded, puts, breaks, crossed, replaced>>
    PROVE  FileInv'
<1>1. JobOK(NoJob)'
    BY DEF JobOK
<1>2. /\ JobsOK' /\ DOMAIN job' = Jobs /\ job' = [i \in Jobs |-> job'[i]]
    BY <1>1, JobMoves DEF FileInv, EndJob, Live
<1>3. FileTyped' /\ OneLive' /\ CleanIsHarmless' /\ AttachedIsHarmless'
    BY <1>2 DEF FileInv, FileTyped, FileTypeOK, OneLive, CleanIsHarmless, AttachedIsHarmless, Live
<1>4. \A f \in Files : Live(f) => f \in crossed \cup replaced
    BY DEF FileInv, Undisturbed, BeingDeleted
<1>5. Undisturbed'
    BY <1>4 DEF Undisturbed, Live
<1>6. QED
    BY <1>2, <1>3, <1>5 DEF FileInv

LEMMA PutKeeps == FileInv /\ Put => FileInv'
<1> SUFFICES ASSUME FileInv, Put PROVE FileInv'
    OBVIOUS
<1>1. \A f \in Files : Live(f) => f \in replaced'
    BY DEF Put
<1>2. \A f \in Files : Live(f)' <=> Live(f)
    BY DEF Put, Live
<1>3. FileTyped'
    <2>1. puts' \in 0..MaxPuts
        BY FileConstants DEF Put, FileInv, FileTyped, FileTypeOK
    <2>2. QED
        BY <2>1 DEF Put, FileInv, FileTyped, FileTypeOK
<1>4. JobsOK'
    <2>1. \A q : JobOK(q) => JobOK(q)'
        <3>1. \A f \in Files : row[f] # "none" => row'[f] # "none"
            BY DEF Put
        <3>2. QED
            BY <1>1, <1>2, <3>1, JobStays
    <2>2. ASSUME NEW i \in Jobs PROVE JobOK(job[i])'
        <3>1. PICK q : q = job[i] /\ JobOK(q)
            BY DEF FileInv, JobsOK
        <3>2. job'[i] = q /\ JobOK(q)'
            BY <2>1, <3>1 DEF Put
        <3>3. QED
            BY <3>2 DEF JobOK
    <2>3. QED
        BY <2>2 DEF JobsOK
<1>5. OneLive' /\ Undisturbed'
    BY <1>1, <1>2 DEF FileInv, OneLive, Undisturbed
<1>6. CleanIsHarmless'
    <2>1. \A f \in Files : row[f] = "CLEAN" => Live(f)
        BY DEF Live, Verdicts
    <2>2. QED
        BY <1>1, <2>1 DEF Put, CleanIsHarmless
<1>7. AttachedIsHarmless'
    BY <1>1, <1>2 DEF FileInv, FileTyped, FileTypeOK, Put, AttachedIsHarmless
<1>8. QED
    BY <1>3, <1>4, <1>5, <1>6, <1>7 DEF FileInv

LEMMA CreateRowKeeps ==
    ASSUME FileInv, NEW j \in Jobs, NEW f \in Files, CreateRow(j, f) PROVE FileInv'
<1>1. /\ row[f] = "none" /\ \A g \in Files : ~Live(g)
      /\ row' = [row EXCEPT ![f] = "PENDING"]
      /\ UNCHANGED <<object, attached, uploaded, puts, breaks, replaced>>
    BY DEF CreateRow, Fresh
<1>2. \A g \in Files : row'[g] = IF g = f THEN "PENDING" ELSE row[g]
    BY <1>1 DEF FileInv, FileTyped, FileTypeOK
<1>3. \A g \in Files : Live(g)' <=> g = f
    BY <1>1, <1>2 DEF Live, Verdicts
<1>4. PICK r : r = [at |-> "emit", file |-> f, seen |-> "none"]
    OBVIOUS
<1>5. job' = [job EXCEPT ![j] = r] /\ JobOK(r)' /\ r.at = "emit"
    BY <1>4 DEF CreateRow, GoTo, JobOK
<1>6. /\ JobsOK' /\ DOMAIN job' = Jobs /\ job' = [i \in Jobs |-> job'[i]]
      /\ job'[j] = r /\ \A i \in Jobs : i # j => job'[i] = job[i]
    <2>1. \A g \in Files : row[g] # "none" => row'[g] # "none" /\ ~Live(g)'
        BY <1>1, <1>2, <1>3
    <2>2. QED
        BY <1>5, <2>1, JobMoves DEF FileInv
<1>7. attached = {}
    BY <1>1 DEF FileInv, FileTyped, FileTypeOK, AttachedIsHarmless
<1>8. FileTyped'
    <2>1. crossed' \subseteq Files
        BY DEF CreateRow, FileInv, FileTyped
    <2>2. row' \in [Files -> Verdicts \cup {"none", "gone"}]
        BY <1>1 DEF FileInv, FileTyped, FileTypeOK, Verdicts
    <2>3. QED
        BY <1>1, <1>6, <2>1, <2>2 DEF FileInv, FileTyped, FileTypeOK
<1>9. OneLive' /\ AttachedIsHarmless'
    BY <1>1, <1>3, <1>7 DEF OneLive, AttachedIsHarmless
<1>10. CleanIsHarmless'
    BY <1>1, <1>2 DEF FileInv, CleanIsHarmless
<1>11. Undisturbed'
    <2>1. BeingDeleted' => BeingDeleted
        BY <1>1, <1>5, <1>6 DEF BeingDeleted
    <2>2. BeingDeleted => f \in crossed'
        BY DEF CreateRow
    <2>3. QED
        BY <1>3, <2>1, <2>2 DEF Undisturbed
<1>12. QED
    BY <1>6, <1>8, <1>9, <1>10, <1>11 DEF FileInv

LEMMA ScanResultKeeps ==
    ASSUME FileInv, NEW j \in Jobs, ScanResult(j) PROVE FileInv'
<1>1. PICK f, s : f = job[j].file /\ s = job[j].seen
    OBVIOUS
<1>2. /\ f \in Files /\ s \in Verdicts
      /\ s = "CLEAN" /\ f \notin replaced => object # "infected"
    BY <1>1 DEF ScanResult, FileInv, JobsOK, JobOK, NoJob
<1>3. /\ Live(f) /\ row' = [row EXCEPT ![f] = s]
      /\ UNCHANGED <<object, attached, uploaded, puts, breaks, crossed, replaced>>
      /\ job' = [job EXCEPT ![j] = NoJob]
    BY <1>1 DEF ScanResult, EndJob
<1>4. \A g \in Files : row'[g] = IF g = f THEN s ELSE row[g]
    BY <1>2, <1>3 DEF FileInv, FileTyped, FileTypeOK
<1>5. \A g \in Files : Live(g)' <=> Live(g)
    BY <1>2, <1>3, <1>4 DEF Live
<1>6. /\ JobsOK' /\ DOMAIN job' = Jobs /\ job' = [i \in Jobs |-> job'[i]]
      /\ job'[j] = NoJob /\ \A i \in Jobs : i # j => job'[i] = job[i]
    <2>1. JobOK(NoJob)'
        BY DEF JobOK
    <2>2. \A g \in Files : row[g] # "none" => row'[g] # "none"
        BY <1>2, <1>4 DEF Verdicts
    <2>3. QED
        BY <1>3, <1>5, <2>1, <2>2, JobMoves DEF FileInv
<1>7. FileTyped'
    <2>1. row' \in [Files -> Verdicts \cup {"none", "gone"}]
        BY <1>2, <1>3 DEF FileInv, FileTyped, FileTypeOK
    <2>2. QED
        BY <1>3, <1>6, <2>1 DEF FileInv, FileTyped, FileTypeOK
<1>8. OneLive' /\ AttachedIsHarmless'
    BY <1>3, <1>5 DEF FileInv, FileTyped, FileTypeOK, OneLive, AttachedIsHarmless
<1>9. CleanIsHarmless'
    BY <1>2, <1>3, <1>4 DEF FileInv, CleanIsHarmless
<1>10. Undisturbed'
    <2>1. BeingDeleted' => BeingDeleted
        BY <1>3, <1>6 DEF BeingDeleted, NoJob
    <2>2. QED
        BY <1>3, <1>5, <2>1 DEF FileInv, Undisturbed
<1>11. QED
    BY <1>6, <1>7, <1>8, <1>9, <1>10 DEF FileInv

LEMMA DeleteRowKeeps ==
    ASSUME FileInv, NEW j \in Jobs, NEW f \in Files, DeleteRow(j, f) PROVE FileInv'
<1>1. /\ Live(f) /\ f \notin attached /\ row' = [row EXCEPT ![f] = "gone"]
      /\ crossed' = crossed \ {f} /\ replaced' = replaced \ {f}
      /\ UNCHANGED <<object, attached, uploaded, puts, breaks>>
    BY DEF DeleteRow
<1>2. \A g \in Files : row'[g] = IF g = f THEN "gone" ELSE row[g]
    BY <1>1 DEF FileInv, FileTyped, FileTypeOK
<1>3. \A g \in Files : ~Live(g)'
    BY <1>1, <1>2 DEF FileInv, OneLive, Live, Verdicts
<1>4. attached = {}
    BY <1>1 DEF FileInv, FileTyped, FileTypeOK, OneLive, AttachedIsHarmless
<1>5. PICK r : r = [at |-> "wipe", file |-> f, seen |-> "none"]
    OBVIOUS
<1>6. job' = [job EXCEPT ![j] = r] /\ JobOK(r)'
    BY <1>5 DEF DeleteRow, GoTo, JobOK
<1>7. JobsOK' /\ DOMAIN job' = Jobs /\ job' = [i \in Jobs |-> job'[i]]
    <2>1. \A g \in Files : row[g] # "none" => row'[g] # "none" /\ ~Live(g)'
        BY <1>2, <1>3
    <2>2. QED
        BY <1>6, <2>1, JobMoves DEF FileInv
<1>8. FileTyped'
    <2>1. row' \in [Files -> Verdicts \cup {"none", "gone"}]
        BY <1>1 DEF FileInv, FileTyped, FileTypeOK
    <2>2. QED
        BY <1>1, <1>7, <2>1 DEF FileInv, FileTyped, FileTypeOK
<1>9. OneLive' /\ Undisturbed' /\ AttachedIsHarmless'
    BY <1>1, <1>3, <1>4 DEF OneLive, Undisturbed, AttachedIsHarmless
<1>10. CleanIsHarmless'
    <2>1. \A g \in Files : row'[g] # "CLEAN"
        BY <1>3 DEF Live, Verdicts
    <2>2. QED
        BY <2>1 DEF CleanIsHarmless
<1>11. QED
    BY <1>7, <1>8, <1>9, <1>10 DEF FileInv

LEMMA FileStepInv == FileInv /\ [FileNext]_fileVars => FileInv'
<1> SUFFICES ASSUME FileInv, [FileNext]_fileVars PROVE FileInv'
    OBVIOUS
<1>0. uploaded \subseteq Files /\ breaks \in 0..MaxBreaks /\ MaxBreaks \in Nat
    BY FileConstants DEF FileInv, FileTyped, FileTypeOK
<1>1. ASSUME NEW j \in Jobs, Validate(j) PROVE FileInv'
    <2>1. CASE object = "unfit"
        <3>1. PICK r : r = [at |-> "refuse", file |-> 0, seen |-> "none"]
            OBVIOUS
        <3>2. /\ job' = [job EXCEPT ![j] = r] /\ JobOK(r)'
              /\ UNCHANGED <<object, row, attached, uploaded, puts, breaks, crossed, replaced>>
            BY <1>1, <2>1, <3>1 DEF Validate, GoTo, JobOK
        <3>3. JobsOK' /\ DOMAIN job' = Jobs /\ job' = [i \in Jobs |-> job'[i]]
            BY <3>2, JobMoves DEF FileInv, Live
        <3>4. FileTyped' /\ OneLive' /\ CleanIsHarmless' /\ AttachedIsHarmless'
            BY <3>2, <3>3 DEF FileInv, FileTyped, FileTypeOK, OneLive, CleanIsHarmless,
               AttachedIsHarmless, Live
        <3>5. Undisturbed'
            BY <2>1, <3>2 DEF FileInv, Undisturbed, BeingDeleted, Live
        <3>6. QED
            BY <3>3, <3>4, <3>5 DEF FileInv
    <2>2. CASE object # "unfit"
        <3>1. PICK r : r = [at |-> "create", file |-> 0, seen |-> "none"]
            OBVIOUS
        <3>2. /\ job' = [job EXCEPT ![j] = r] /\ JobOK(r) /\ r.at = "create"
              /\ UNCHANGED <<object, row, attached, uploaded, puts, breaks, crossed, replaced>>
            BY <1>1, <2>2, <3>1 DEF Validate, GoTo, JobOK
        <3>3. QED
            BY <1>0, <3>2, PlainMove
    <2>3. QED
        BY <2>1, <2>2
<1>2. ASSUME NEW j \in Jobs, Refuse(j) \/ Wipe(j) PROVE FileInv'
    BY <1>2, Deletes DEF Refuse, Wipe
<1>3. ASSUME NEW j \in Jobs, EmitFile(j) PROVE FileInv'
    <2>1. job[j].file \in Files
        BY <1>3 DEF EmitFile, FileInv, JobsOK, JobOK, NoJob
    <2>2. QED
        BY <1>0, <1>3, <2>1, EndKeeps DEF EmitFile
<1>4. ASSUME NEW j \in Jobs, NEW f \in Files, Scan(j, f) PROVE FileInv'
    <2>1. PICK res \in {"ERROR", IF object = "infected" THEN "INFECTED" ELSE "CLEAN"} :
              GoTo(j, "verdict", f, res)
        BY <1>4 DEF Scan
    <2>2. PICK r : r = [at |-> "verdict", file |-> f, seen |-> res]
        OBVIOUS
    <2>3. Live(f) /\ row[f] # "none"
        BY <1>4 DEF Scan, Live, Verdicts
    <2>4. res \in Verdicts /\ (res = "CLEAN" => object # "infected")
        BY <2>1 DEF Verdicts
    <2>5. JobOK(r) /\ r.at = "verdict"
        BY <2>2, <2>3, <2>4 DEF JobOK
    <2>6. QED
        BY <1>0, <1>4, <2>1, <2>2, <2>5, PlainMove DEF Scan, GoTo
<1>5. ASSUME NEW f \in Files, Attach(f) PROVE FileInv'
    <2>1. /\ row[f] = "CLEAN" /\ attached' = attached \cup {f}
          /\ UNCHANGED <<object, row, uploaded, job, puts, breaks, crossed, replaced>>
        BY <1>5 DEF Attach, Attachable
    <2>2. Live(f) /\ (object = "infected" => f \in replaced)
        BY <2>1 DEF FileInv, CleanIsHarmless, Live, Verdicts
    <2>3. FileTyped' /\ OneLive' /\ CleanIsHarmless' /\ Undisturbed' /\ JobsOK'
        BY <2>1 DEF FileInv, FileTyped, FileTypeOK, OneLive, CleanIsHarmless, Undisturbed,
           BeingDeleted, JobsOK, JobOK, Live
    <2>4. AttachedIsHarmless'
        BY <2>1, <2>2 DEF FileInv, AttachedIsHarmless, Live
    <2>5. QED
        BY <2>3, <2>4 DEF FileInv
<1>6. ASSUME NEW j \in Jobs, FailJob(j) \/ BreakJob(j) PROVE FileInv'
    <2>1. breaks' = breaks \/ (breaks < MaxBreaks /\ breaks' = breaks + 1)
        BY <1>6 DEF FailJob, BreakJob
    <2>2. breaks' \in 0..MaxBreaks
        BY <1>0, <2>1
    <2>3. EndJob(j) /\ UNCHANGED <<object, row, attached, uploaded, puts, crossed, replaced>>
        BY <1>6 DEF FailJob, BreakJob
    <2>4. QED
        BY <1>0, <2>2, <2>3, EndKeeps
<1>7. CASE UNCHANGED fileVars
    BY <1>7 DEF fileVars, FileInv, FileTyped, FileTypeOK, OneLive, CleanIsHarmless, Undisturbed,
       AttachedIsHarmless, BeingDeleted, JobsOK, JobOK, Live
<1>8. QED
    BY <1>1, <1>2, <1>3, <1>4, <1>5, <1>6, <1>7, PutKeeps, CreateRowKeeps, ScanResultKeeps,
       DeleteRowKeeps
    DEF FileNext, GoOn

LEMMA FileInvSafe == FileInv => FileTypeOK /\ AttachedIsHarmless /\ RowsHaveObjects
BY DEF FileInv, FileTyped, Undisturbed, BeingDeleted, RowsHaveObjects

(* Whatever confirms, scans, removals, uses of the presigned URL and       *)
(* crashes overlap: what a message names was found clean and a row's       *)
(* object exists, but for a file that was put again, and for the object of *)
(* one that was confirmed while its key was being deleted.                 *)
THEOREM FilesHarmless == FileSpec => [](AttachedIsHarmless /\ RowsHaveObjects)
BY FileInitInv, FileStepInv, FileInvSafe, PTL DEF FileSpec

-----------------------------------------------------------------------------
(* FilePipeline, the renditions of a file.  Only one generate at a time is *)
(* known to leave the object of the row alone: the one it deletes is the   *)
(* one it replaced.  A removal deletes objects only after the rows.        *)

DrawingOK(r) ==
    \/ r = NoDrawing
    \/ r \in [at : {"render", "look", "upsert", "drop"}, seen : Renditions, before : Renditions \cup {"none"}]
    \/ /\ r \in [at : {"remove", "wipe"}, seen : {"none"}, before : Renditions \cup {"none"}]
       /\ r.at = "wipe" => ~rowThere

DrawingsOK == \A j \in Jobs : DrawingOK(drawing[j])

ThumbTyped ==
    /\ ThumbTypeOK
    /\ rowThere \in BOOLEAN /\ overlap \in BOOLEAN
    /\ DOMAIN drawing = Jobs /\ drawing = [j \in Jobs |-> drawing[j]]
    /\ ~rowThere => variant = "none"

(* While no two of them overlap.                                           *)
OneAtATime ==
    ~overlap =>
        /\ Stored
        /\ \A i, j \in Thumbing : i = j
        /\ \A j \in Jobs : drawing[j].at \in {"look", "upsert"} /\ rowThere => drawing[j].seen \in thumbs
        /\ \A j \in Jobs : drawing[j].at = "drop" => variant \in {drawing[j].seen, "none"}

ThumbInv == ThumbTyped /\ DrawingsOK /\ OneAtATime

LEMMA ThumbInitInv == ThumbInit => ThumbInv
<1> SUFFICES ASSUME ThumbInit PROVE ThumbInv
    OBVIOUS
<1>1. \A j \in Jobs : drawing[j] = NoDrawing /\ NoDrawing.at = "idle"
    BY DEF ThumbInit, NoDrawing
<1>2. ThumbTyped
    <2>1. 0 \in 0..MaxBreaks
        BY FileConstants
    <2>2. QED
        BY <2>1 DEF ThumbInit, ThumbTyped, ThumbTypeOK
<1>3. DrawingsOK
    BY <1>1 DEF DrawingsOK, DrawingOK
<1>4. OneAtATime
    BY <1>1 DEF ThumbInit, OneAtATime, Thumbing, Stored
<1>5. QED
    BY <1>2, <1>3, <1>4 DEF ThumbInv

(* One call goes on to r; a row that is gone stays so.                     *)
LEMMA DrawingMoves ==
    ASSUME ThumbTyped, DrawingsOK, NEW j \in Jobs, NEW r, drawing' = [drawing EXCEPT ![j] = r],
           DrawingOK(r)', rowThere' => rowThere
    PROVE  /\ DrawingsOK'
           /\ DOMAIN drawing' = Jobs /\ drawing' = [i \in Jobs |-> drawing'[i]]
           /\ drawing'[j] = r /\ \A i \in Jobs : i # j => drawing'[i] = drawing[i]
<1>1. drawing'[j] = r /\ \A i \in Jobs : i # j => drawing'[i] = drawing[i]
    BY DEF ThumbTyped
<1>2. DOMAIN drawing' = Jobs /\ drawing' = [i \in Jobs |-> drawing'[i]]
    BY DEF ThumbTyped
<1>3. ASSUME NEW i \in Jobs PROVE DrawingOK(drawing[i])'
    <2>1. CASE i = j
        BY <1>1, <2>1 DEF DrawingOK
    <2>2. CASE i # j
        <3>1. PICK q : q = drawing[i] /\ DrawingOK(q)
            BY DEF DrawingsOK
        <3>2. drawing'[i] = q /\ DrawingOK(q)'
            BY <1>1, <2>2, <3>1 DEF DrawingOK
        <3>3. QED
            BY <3>2 DEF DrawingOK
    <2>3. QED
        BY <2>1, <2>2
<1>4. QED
    BY <1>1, <1>2, <1>3 DEF DrawingsOK

(* A call moves that does not render, before or after, and no object goes  *)
(* that a row names.                                                       *)
LEMMA QuietMove ==
    ASSUME ThumbInv, NEW j \in Jobs, NEW r, drawing' = [drawing EXCEPT ![j] = r], DrawingOK(r)',
           r.at \notin {"render", "look", "upsert", "drop"}, lapses' \in 0..MaxBreaks,
           rowThere' => rowThere /\ variant' = variant /\ thumbs' = thumbs,
           ~rowThere' => variant' = "none",
           rowThere' \in BOOLEAN, thumbs' \subseteq thumbs, overlap' = overlap
    PROVE  ThumbInv'
<1>1. /\ DrawingsOK' /\ DOMAIN drawing' = Jobs /\ drawing' = [i \in Jobs |-> drawing'[i]]
      /\ drawing'[j] = r /\ \A i \in Jobs : i # j => drawing'[i] = drawing[i]
    BY DrawingMoves DEF ThumbInv
<1>2. ThumbTyped'
    BY <1>1 DEF ThumbInv, ThumbTyped, ThumbTypeOK
<1>3. Thumbing' \subseteq Thumbing
    BY <1>1 DEF Thumbing
<1>4. OneAtATime'
    <2>1. ASSUME ~overlap PROVE Stored'
        <3>1. Stored /\ (variant' = "none" \/ (variant' = variant /\ thumbs' = thumbs))
            BY <2>1 DEF ThumbInv, OneAtATime
        <3>2. QED
            BY <3>1 DEF Stored
    <2>2. \A i \in Jobs : drawing'[i].at \in {"look", "upsert", "drop"} => drawing'[i] = drawing[i]
        BY <1>1
    <2>3. variant' = variant \/ variant' = "none"
        OBVIOUS
    <2>4. QED
        BY <1>3, <2>1, <2>2, <2>3 DEF ThumbInv, OneAtATime
<1>5. QED
    BY <1>1, <1>2, <1>4 DEF ThumbInv

LEMMA ThumbStepInv == ThumbInv /\ [ThumbNext]_thumbVars => ThumbInv'
<1> SUFFICES ASSUME ThumbInv, [ThumbNext]_thumbVars PROVE ThumbInv'
    OBVIOUS
<1>0. /\ ThumbTyped /\ DrawingsOK /\ OneAtATime /\ ThumbTypeOK /\ lapses \in 0..MaxBreaks
      /\ MaxBreaks \in Nat /\ NoDrawing.at = "idle" /\ "none" \notin Renditions
      /\ variant \in Renditions \cup {"none"}
      /\ rowThere \in BOOLEAN /\ overlap \in BOOLEAN
    BY FileConstants, FileAssumption DEF ThumbInv, ThumbTyped, ThumbTypeOK, NoDrawing
<1>1. ASSUME NEW j \in Jobs, NEW overwrite, Render(j, overwrite) PROVE ThumbInv'
    <2>1. PICK k \in Renditions : DrawTo(j, "render", k, "none")
        BY <1>1 DEF Render
    <2>2. PICK r : r = [at |-> "render", seen |-> k, before |-> "none"]
        OBVIOUS
    <2>3. drawing' = [drawing EXCEPT ![j] = r] /\ DrawingOK(r)' /\ r.at = "render"
        BY <2>1, <2>2 DEF DrawTo, DrawingOK
    <2>4. /\ UNCHANGED <<rowThere, variant, thumbs, lapses>>
          /\ overlap' = (Thumbing # {} \/ (overlap /\ ~Stored))
        BY <1>1 DEF Render
    <2>5. /\ DrawingsOK' /\ DOMAIN drawing' = Jobs /\ drawing' = [i \in Jobs |-> drawing'[i]]
          /\ drawing'[j] = r /\ \A i \in Jobs : i # j => drawing'[i] = drawing[i]
        BY <1>0, <2>3, <2>4, DrawingMoves
    <2>6. ThumbTyped'
        <3>1. overlap' \in BOOLEAN
            BY <2>4
        <3>2. QED
            BY <1>0, <2>4, <2>5, <3>1 DEF ThumbTyped, ThumbTypeOK
    <2>7. ASSUME ~overlap' PROVE OneAtATime'
        <3>1. Thumbing = {} /\ Stored
            BY <1>0, <2>4, <2>7 DEF OneAtATime
        <3>2. \A i \in Jobs : i # j => drawing'[i].at \notin {"render", "look", "upsert", "drop"}
            BY <2>5, <3>1 DEF Thumbing
        <3>3. QED
            BY <2>3, <2>4, <2>5, <3>1, <3>2 DEF OneAtATime, Thumbing, Stored
    <2>8. QED
        BY <2>5, <2>6, <2>7 DEF ThumbInv, OneAtATime
<1>2. ASSUME NEW j \in Jobs, PutRendition(j) \/ LookBefore(j) PROVE ThumbInv'
    <2>1. drawing[j].seen \in Renditions /\ drawing[j].at \in {"render", "look"}
        BY <1>0, <1>2 DEF PutRendition, LookBefore, DrawingsOK, DrawingOK
    <2>2. PICK r : r = IF PutRendition(j) THEN [at |-> "look", seen |-> drawing[j].seen, before |-> "none"]
                       ELSE [at |-> "upsert", seen |-> drawing[j].seen, before |-> variant]
        OBVIOUS
    <2>3. /\ drawing' = [drawing EXCEPT ![j] = r] /\ DrawingOK(r)'
          /\ r.at \in {"look", "upsert"} /\ r.seen = drawing[j].seen
          /\ UNCHANGED <<rowThere, variant, lapses, overlap>>
          /\ thumbs \subseteq thumbs' /\ thumbs' \subseteq thumbs \cup Renditions
          /\ drawing[j].at = "render" => drawing[j].seen \in thumbs'
        BY <1>0, <1>2, <2>1, <2>2 DEF PutRendition, LookBefore, DrawTo, DrawingOK
    <2>4. /\ DrawingsOK' /\ DOMAIN drawing' = Jobs /\ drawing' = [i \in Jobs |-> drawing'[i]]
          /\ drawing'[j] = r /\ \A i \in Jobs : i # j => drawing'[i] = drawing[i]
        BY <1>0, <2>3, DrawingMoves
    <2>5. ThumbTyped'
        BY <1>0, <2>3, <2>4 DEF ThumbTyped, ThumbTypeOK
    <2>6. OneAtATime'
        <3>1. Thumbing' \subseteq Thumbing
            BY <2>1, <2>3, <2>4 DEF Thumbing
        <3>2. Stored => Stored'
            BY <2>3 DEF Stored
        <3>3. QED
            BY <1>0, <2>1, <2>3, <2>4, <3>1, <3>2 DEF OneAtATime
    <2>7. QED
        BY <2>4, <2>5, <2>6 DEF ThumbInv
<1>3. ASSUME NEW j \in Jobs, UpsertVariant(j) PROVE ThumbInv'
    <2>1. /\ drawing[j].at = "upsert" /\ rowThere /\ drawing[j].seen \in Renditions
          /\ drawing[j].before \in Renditions \cup {"none"}
        BY <1>0, <1>3 DEF UpsertVariant, DrawingsOK, DrawingOK
    <2>2. PICK r : r = [at |-> "drop", seen |-> drawing[j].seen, before |-> drawing[j].before]
        OBVIOUS
    <2>3. /\ drawing' = [drawing EXCEPT ![j] = r] /\ DrawingOK(r)'
          /\ r.at = "drop" /\ r.seen = drawing[j].seen
          /\ UNCHANGED <<rowThere, thumbs, lapses, overlap>> /\ variant' = drawing[j].seen
        BY <1>3, <2>1, <2>2 DEF UpsertVariant, DrawTo, DrawingOK
    <2>4. /\ DrawingsOK' /\ DOMAIN drawing' = Jobs /\ drawing' = [i \in Jobs |-> drawing'[i]]
          /\ drawing'[j] = r /\ \A i \in Jobs : i # j => drawing'[i] = drawing[i]
        BY <1>0, <2>3, DrawingMoves
    <2>5. ThumbTyped'
        BY <1>0, <2>1, <2>3, <2>4 DEF ThumbTyped, ThumbTypeOK
    <2>6. ASSUME ~overlap' PROVE OneAtATime'
        <3>1. j \in Thumbing
            BY <2>1 DEF Thumbing
        <3>2. \A i \in Jobs : i # j => drawing'[i].at \notin {"render", "look", "upsert", "drop"}
            BY <1>0, <2>3, <2>4, <2>6, <3>1 DEF OneAtATime, Thumbing
        <3>3. Stored'
            BY <1>0, <2>1, <2>3, <2>6 DEF OneAtATime, Stored
        <3>4. QED
            BY <2>3, <2>4, <3>2, <3>3 DEF OneAtATime, Thumbing
    <2>7. QED
        BY <2>4, <2>5, <2>6 DEF ThumbInv, OneAtATime
<1>4. ASSUME NEW j \in Jobs, DropBefore(j) PROVE ThumbInv'
    <2>1. /\ drawing[j].at = "drop"
          /\ drawing' = [drawing EXCEPT ![j] = NoDrawing] /\ DrawingOK(NoDrawing)'
          /\ UNCHANGED <<rowThere, variant, lapses, overlap>>
          /\ thumbs' \subseteq thumbs
          /\ drawing[j].seen \in thumbs => drawing[j].seen \in thumbs'
        BY <1>4 DEF DropBefore, EndDrawing, DrawingOK
    <2>2. /\ DrawingsOK' /\ DOMAIN drawing' = Jobs /\ drawing' = [i \in Jobs |-> drawing'[i]]
          /\ drawing'[j] = NoDrawing /\ \A i \in Jobs : i # j => drawing'[i] = drawing[i]
        BY <1>0, <2>1, DrawingMoves
    <2>3. ThumbTyped'
        BY <1>0, <2>1, <2>2 DEF ThumbTyped, ThumbTypeOK
    <2>4. ASSUME ~overlap' PROVE OneAtATime'
        <3>1. j \in Thumbing
            BY <2>1 DEF Thumbing
        <3>2. \A i \in Jobs : drawing'[i].at \notin {"render", "look", "upsert", "drop"}
            BY <1>0, <2>1, <2>2, <2>4, <3>1 DEF OneAtATime, Thumbing
        <3>3. Stored'
            BY <1>0, <2>1, <2>4 DEF OneAtATime, Stored
        <3>4. QED
            BY <3>2, <3>3 DEF OneAtATime, Thumbing
    <2>5. QED
        BY <2>2, <2>3, <2>4 DEF ThumbInv, OneAtATime
<1>5. ASSUME NEW j \in Jobs, ReadVariants(j) PROVE ThumbInv'
    <2>1. PICK r : r = [at |-> "remove", seen |-> "none", before |-> variant]
        OBVIOUS
    <2>2. /\ drawing' = [drawing EXCEPT ![j] = r] /\ DrawingOK(r)' /\ r.at = "remove"
          /\ UNCHANGED <<rowThere, variant, thumbs, lapses, overlap>>
        BY <1>0, <1>5, <2>1 DEF ReadVariants, DrawTo, DrawingOK
    <2>3. QED
        BY <1>0, <2>2, QuietMove DEF ThumbTyped
<1>6. ASSUME NEW j \in Jobs, DeleteRows(j) PROVE ThumbInv'
    <2>1. drawing[j].before \in Renditions \cup {"none"}
        BY <1>0, <1>6 DEF DeleteRows, DrawingsOK, DrawingOK
    <2>2. PICK r : r = [at |-> "wipe", seen |-> "none", before |-> drawing[j].before]
        OBVIOUS
    <2>3. /\ drawing' = [drawing EXCEPT ![j] = r] /\ DrawingOK(r)' /\ r.at = "wipe"
          /\ rowThere' = FALSE /\ variant' = "none" /\ UNCHANGED <<thumbs, lapses, overlap>>
        BY <1>6, <2>1, <2>2 DEF DeleteRows, DrawTo, DrawingOK
    <2>4. QED
        BY <1>0, <2>3, QuietMove
<1>7. ASSUME NEW j \in Jobs, WipeVariants(j) PROVE ThumbInv'
    <2>1. ~rowThere
        BY <1>0, <1>7 DEF WipeVariants, DrawingsOK, DrawingOK
    <2>2. /\ drawing' = [drawing EXCEPT ![j] = NoDrawing] /\ DrawingOK(NoDrawing)'
          /\ UNCHANGED <<rowThere, variant, lapses, overlap>> /\ thumbs' \subseteq thumbs
        BY <1>7 DEF WipeVariants, EndDrawing, DrawingOK
    <2>3. QED
        BY <1>0, <2>1, <2>2, QuietMove DEF ThumbTyped
<1>8. ASSUME NEW j \in Jobs, FailDrawing(j) \/ BreakDrawing(j) PROVE ThumbInv'
    <2>1. lapses' = lapses \/ (lapses < MaxBreaks /\ lapses' = lapses + 1)
        BY <1>8 DEF FailDrawing, BreakDrawing
    <2>2. lapses' \in 0..MaxBreaks
        BY <1>0, <2>1
    <2>3. /\ drawing' = [drawing EXCEPT ![j] = NoDrawing] /\ DrawingOK(NoDrawing)'
          /\ UNCHANGED <<rowThere, variant, thumbs, overlap>>
        BY <1>8 DEF FailDrawing, BreakDrawing, EndDrawing, DrawingOK
    <2>4. QED
        BY <1>0, <2>2, <2>3, QuietMove DEF ThumbTyped
<1>9. CASE UNCHANGED thumbVars
    BY <1>9 DEF thumbVars, ThumbInv, ThumbTyped, ThumbTypeOK, DrawingsOK, DrawingOK, OneAtATime,
       Thumbing, Stored
<1>10. QED
    BY <1>1, <1>2, <1>3, <1>4, <1>5, <1>6, <1>7, <1>8, <1>9 DEF ThumbNext

LEMMA ThumbInvSafe == ThumbInv => ThumbTypeOK /\ VariantsStored
BY DEF ThumbInv, ThumbTyped, OneAtATime, VariantsStored

(* Whatever renderings, removals and crashes overlap, a variant that is    *)
(* listed names an object that exists, unless two renderings did.          *)
THEOREM RenditionsStored == ThumbSpec => []VariantsStored
BY ThumbInitInv, ThumbStepInv, ThumbInvSafe, PTL DEF ThumbSpec

-----------------------------------------------------------------------------
(* SearchIndex.  Until the document is the newest, an event remains that   *)
(* nobody reads an old row for: the one in hand does not count when the    *)
(* row was read before the last change.                                    *)

Lags(i) == indexing[i].at = "upsert" /\ indexing[i].seen < rated

WillRefresh(i) == inbox[i] > IF Lags(i) THEN 1 ELSE 0

Reaches == document = rated \/ missed \/ overtaken \/ \E i \in Indexers : WillRefresh(i)

Indexing == [at : {"idle", "property", "upsert"}, seen : Nat, tries : 0..Times - 1]

IndexTyped ==
    /\ rated \in 0..MaxRatings /\ document \in 0..rated
    /\ inbox \in [Indexers -> Nat]
    /\ \A i \in Indexers : inbox[i] <= 2 * rated
    /\ indexing \in [Builders -> Indexing]
    /\ \A b \in Builders : indexing[b].seen <= rated
    /\ \A i \in Indexers : indexing[i].at # "idle" => inbox[i] > 0
    /\ missed \in BOOLEAN /\ overtaken \in BOOLEAN

IndexInv == IndexTyped /\ Reaches

LEMMA IndexInitInv == IndexInit => IndexInv
<1> SUFFICES ASSUME IndexInit PROVE IndexInv
    OBVIOUS
<1>1. NotIndexing \in Indexing
    BY DEF NotIndexing, Indexing, Times
<1>2. IndexTyped
    <2>1. MaxRatings \in Nat
        BY IndexAssumption
    <2>2. NotIndexing.seen = 0 /\ NotIndexing.at = "idle"
        BY DEF NotIndexing
    <2>3. /\ rated = 0 /\ document = 0 /\ missed = FALSE /\ overtaken = FALSE
          /\ \A i \in Indexers : inbox[i] = 0
          /\ \A b \in Builders : indexing[b] = NotIndexing
          /\ Indexers \subseteq Builders
        BY DEF IndexInit, Builders
    <2>4. inbox \in [Indexers -> Nat] /\ indexing \in [Builders -> Indexing]
        BY <1>1 DEF IndexInit
    <2>5. rated \in 0..MaxRatings /\ document \in 0..rated
        BY <2>1, <2>3
    <2>6. \A b \in Builders : indexing[b].seen <= rated /\ indexing[b].at = "idle"
        BY <2>2, <2>3
    <2>7. \A i \in Indexers : inbox[i] <= 2 * rated /\ indexing[i].at = "idle"
        BY <2>3, <2>6
    <2>8. QED
        BY <2>3, <2>4, <2>5, <2>6, <2>7, Zenon DEF IndexTyped
<1>3. QED
    BY <1>2 DEF IndexInit, IndexInv, Reaches

(* One builder moves; its event, if it had one, remains.                   *)
LEMMA BuilderMoves ==
    ASSUME IndexInv, NEW b \in Builders, NEW r \in Indexing,
           indexing' = [indexing EXCEPT ![b] = r], r.seen <= rated,
           b \in Indexers /\ r.at # "idle" => inbox[b] > 0,
           ~(r.at = "upsert" /\ r.seen < rated),
           UNCHANGED <<rated, document, inbox, missed, overtaken>>
    PROVE  IndexInv'
<1>1. \A c \in Builders : indexing'[c] = IF c = b THEN r ELSE indexing[c]
    BY DEF IndexInv, IndexTyped
<1>2. IndexTyped'
    BY <1>1 DEF IndexInv, IndexTyped, Builders
<1>3. \A i \in Indexers : inbox[i] \in Nat /\ (Lags(i)' => Lags(i))
    BY <1>1 DEF IndexInv, IndexTyped, Lags, Builders
<1>4. \A i \in Indexers : WillRefresh(i) => WillRefresh(i)'
    BY <1>3 DEF WillRefresh
<1>5. QED
    BY <1>2, <1>4 DEF IndexInv, Reaches

LEMMA IndexStepInv == IndexInv /\ [IndexNext]_indexVars => IndexInv'
<1> SUFFICES ASSUME IndexInv, [IndexNext]_indexVars PROVE IndexInv'
    OBVIOUS
<1> USE IndexAssumption
<1>0. /\ IndexTyped /\ Reaches
      /\ rated \in Nat /\ document \in Nat /\ document <= rated
      /\ \A i \in Indexers : inbox[i] \in Nat /\ i \in Builders
      /\ \A b \in Builders : indexing[b] \in Indexing /\ indexing[b].seen \in Nat
      /\ NotIndexing \in Indexing /\ NotIndexing.at = "idle" /\ NotIndexing.seen = 0
    BY DEF IndexInv, IndexTyped, Builders, Indexing, NotIndexing, Times
<1>1. ASSUME NEW i \in Indexers, ReviewChanges(i) PROVE IndexInv'
    <2>1. PICK copies \in {1, 2} : inbox' = [inbox EXCEPT ![i] = @ + copies]
        BY <1>1 DEF ReviewChanges
    <2>2. /\ rated' = rated + 1 /\ rated' \in 0..MaxRatings
          /\ UNCHANGED <<document, indexing, missed, overtaken>>
        BY <1>0, <1>1 DEF ReviewChanges, IndexTyped
    <2>3. \A k \in Indexers : inbox'[k] = IF k = i THEN inbox[i] + copies ELSE inbox[k]
        BY <2>1 DEF IndexInv, IndexTyped
    <2>4. IndexTyped'
        <3>1. inbox' \in [Indexers -> Nat]
            BY <1>0, <2>1 DEF IndexTyped
        <3>2. \A k \in Indexers : inbox'[k] <= 2 * rated'
            BY <1>0, <2>2, <2>3 DEF IndexTyped
        <3>3. \A b \in Builders : indexing'[b].seen <= rated'
            BY <1>0, <2>2 DEF IndexTyped
        <3>4. \A k \in Indexers : indexing'[k].at # "idle" => inbox'[k] > 0
            BY <1>0, <2>2, <2>3 DEF IndexTyped
        <3>5. document' \in 0..rated'
            BY <1>0, <2>2
        <3>6. QED
            BY <1>0, <2>2, <3>1, <3>2, <3>3, <3>4, <3>5 DEF IndexTyped
    <2>5. WillRefresh(i)'
        <3>1. indexing[i].at # "idle" => inbox[i] >= 1
            BY <1>0 DEF IndexTyped
        <3>2. Lags(i)' => inbox'[i] > 1
            BY <1>0, <2>2, <2>3, <3>1 DEF Lags
        <3>3. inbox'[i] > 0
            BY <1>0, <2>3
        <3>4. QED
            BY <3>2, <3>3 DEF WillRefresh
    <2>6. QED
        BY <2>4, <2>5 DEF IndexInv, Reaches
<1>2. ASSUME NEW b \in Builders, TakeEvent(b) PROVE IndexInv'
    <2>1. PICK r : r = [indexing[b] EXCEPT !.at = "property"]
        OBVIOUS
    <2>2. r \in Indexing /\ r.at = "property" /\ r.seen = indexing[b].seen
        BY <1>0, <2>1 DEF Indexing
    <2>3. indexing' = [indexing EXCEPT ![b] = r] /\ (b \in Indexers => inbox[b] > 0)
          /\ UNCHANGED <<rated, document, inbox, missed, overtaken>>
        BY <1>2, <2>1 DEF TakeEvent
    <2>4. r.seen <= rated /\ r.at # "upsert"
        <3>1. indexing[b].seen <= rated
            BY <1>0 DEF IndexTyped
        <3>2. QED
            BY <2>2, <3>1
    <2>5. QED
        BY <2>2, <2>3, <2>4, BuilderMoves
<1>3. ASSUME NEW b \in Builders, ReadProperty(b) PROVE IndexInv'
    <2>1. PICK r : r = [indexing[b] EXCEPT !.at = "upsert", !.seen = rated]
        OBVIOUS
    <2>2. r \in Indexing /\ r.at = "upsert" /\ r.seen = rated
        BY <1>0, <2>1 DEF Indexing
    <2>3. indexing' = [indexing EXCEPT ![b] = r] /\ (b \in Indexers => inbox[b] > 0)
          /\ UNCHANGED <<rated, document, inbox, missed, overtaken>>
        BY <1>0, <1>3, <2>1 DEF ReadProperty, IndexTyped
    <2>4. r.seen <= rated /\ ~(r.seen < rated)
        BY <1>0, <2>2
    <2>5. QED
        BY <2>2, <2>3, <2>4, BuilderMoves
<1>4. ASSUME NEW b \in Builders, indexing[b].at # "idle", Finish(b), rated' = rated
      PROVE  /\ inbox' \in [Indexers -> Nat] /\ \A i \in Indexers : inbox'[i] <= 2 * rated'
             /\ indexing' \in [Builders -> Indexing]
             /\ \A c \in Builders : indexing'[c].seen <= rated'
             /\ \A i \in Indexers : indexing'[i].at # "idle" => inbox'[i] > 0
             /\ \A i \in Indexers : i # b => inbox'[i] = inbox[i] /\ indexing'[i] = indexing[i]
             /\ b \in Indexers => inbox'[b] = inbox[b] - 1
             /\ indexing'[b] = NotIndexing
    <2>1. \A c \in Builders : indexing'[c] = IF c = b THEN NotIndexing ELSE indexing[c]
        BY <1>4 DEF Finish, IndexInv, IndexTyped
    <2>2. \A i \in Indexers : inbox'[i] = IF i = b THEN inbox[i] - 1 ELSE inbox[i]
        BY <1>0, <1>4 DEF Finish
    <2>3. b \in Indexers => inbox[b] > 0
        BY <1>0, <1>4 DEF IndexTyped
    <2>4. \A i \in Indexers : inbox'[i] \in Nat /\ inbox'[i] <= 2 * rated
        BY <1>0, <2>2, <2>3 DEF IndexTyped
    <2>5. inbox' \in [Indexers -> Nat]
        BY <1>4, <2>4 DEF Finish
    <2>6. indexing' \in [Builders -> Indexing]
        BY <1>0, <1>4 DEF Finish, IndexTyped
    <2>7. QED
        BY <1>0, <1>4, <2>1, <2>2, <2>4, <2>5, <2>6 DEF IndexTyped
<1>5. ASSUME NEW b \in Builders, Upsert(b) PROVE IndexInv'
    <2>1. /\ rated' = rated /\ document' = indexing[b].seen /\ indexing[b].at = "upsert"
          /\ overtaken' = (indexing[b].seen < rated /\ (overtaken \/ indexing[b].seen < document))
          /\ missed' = (missed /\ indexing[b].seen < rated)
          /\ Finish(b)
        BY <1>5 DEF Upsert
    <2>2. indexing[b].seen \in 0..rated
        BY <1>0 DEF IndexTyped
    <2>3. IndexTyped'
        <3>1. missed' \in BOOLEAN /\ overtaken' \in BOOLEAN
            BY <2>1
        <3>2. document' \in 0..rated'
            BY <2>1, <2>2
        <3>3. QED
            BY <1>0, <1>4, <2>1, <3>1, <3>2 DEF IndexTyped
    <2>4. CASE indexing[b].seen = rated
        BY <2>1, <2>3, <2>4 DEF IndexInv, Reaches
    <2>5. CASE indexing[b].seen < rated
        <3>1. CASE document = rated
            BY <2>1, <2>3, <2>5, <3>1 DEF IndexInv, Reaches
        <3>2. CASE missed \/ overtaken
            BY <1>0, <2>1, <2>3, <2>5, <3>2 DEF IndexInv, IndexTyped, Reaches
        <3>3. ASSUME NEW i \in Indexers, WillRefresh(i) PROVE IndexInv'
            <4>1. CASE i # b
                <5>1. inbox'[i] = inbox[i] /\ indexing'[i] = indexing[i]
                    BY <1>4, <2>1, <4>1
                <5>2. WillRefresh(i)'
                    BY <2>1, <3>3, <5>1 DEF WillRefresh, Lags
                <5>3. QED
                    BY <2>3, <5>2 DEF IndexInv, Reaches
            <4>2. CASE i = b
                <5>1. inbox[i] > 1
                    BY <2>1, <2>5, <3>3, <4>2 DEF WillRefresh, Lags
                <5>2. inbox'[i] = inbox[i] - 1 /\ indexing'[i].at = "idle"
                    BY <1>0, <1>4, <2>1, <4>2
                <5>3. inbox'[i] > 0 /\ ~Lags(i)'
                    BY <1>0, <5>1, <5>2 DEF Lags
                <5>4. WillRefresh(i)'
                    BY <5>3 DEF WillRefresh
                <5>5. QED
                    BY <2>3, <5>4 DEF IndexInv, Reaches
            <4>3. QED
                BY <4>1, <4>2
        <3>4. QED
            BY <1>0, <3>1, <3>2, <3>3 DEF Reaches
    <2>6. QED
        BY <1>0, <2>2, <2>4, <2>5
<1>6. ASSUME NEW b \in Builders, Fails(b) PROVE IndexInv'
    <2>1. CASE GivesUp(b)
        <3>1. /\ UNCHANGED <<rated, document, overtaken>> /\ Finish(b)
              /\ missed' = (missed \/ b # "admin") /\ indexing[b].at # "idle"
            BY <1>6, <2>1 DEF Fails
        <3>2. IndexTyped'
            <4>1. missed' \in BOOLEAN
                BY <3>1
            <4>2. QED
                BY <1>0, <1>4, <3>1, <4>1 DEF IndexTyped
        <3>3. CASE b # "admin"
            BY <3>1, <3>2, <3>3 DEF IndexInv, Reaches
        <3>4. CASE b = "admin"
            <4>1. \A i \in Indexers : inbox'[i] = inbox[i] /\ indexing'[i] = indexing[i]
                BY <1>4, <3>1, <3>4
            <4>2. \A i \in Indexers : WillRefresh(i)' <=> WillRefresh(i)
                BY <3>1, <4>1 DEF WillRefresh, Lags
            <4>3. QED
                BY <1>0, <3>1, <3>2, <3>4, <4>2 DEF IndexInv, Reaches
        <3>5. QED
            BY <3>3, <3>4
    <2>2. CASE ~GivesUp(b)
        <3>1. PICK r : r = [NotIndexing EXCEPT !.at = "property", !.tries = indexing[b].tries + 1]
            OBVIOUS
        <3>2. r \in Indexing /\ r.at = "property" /\ r.seen <= rated
            <4>1. indexing[b].tries \in 0..2 /\ indexing[b].tries + 1 # 3
                BY <1>0, <2>2 DEF GivesUp, Indexing, Times
            <4>2. indexing[b].tries + 1 \in 0..2
                BY <4>1
            <4>3. r = [at |-> "property", seen |-> 0, tries |-> indexing[b].tries + 1]
                BY <3>1 DEF NotIndexing
            <4>4. QED
                BY <1>0, <4>2, <4>3 DEF Indexing, Times
        <3>3. indexing' = [indexing EXCEPT ![b] = r] /\ (b \in Indexers => inbox[b] > 0)
              /\ UNCHANGED <<rated, document, inbox, missed, overtaken>>
            BY <1>0, <1>6, <2>2, <3>1 DEF Fails, IndexTyped
        <3>4. QED
            BY <3>2, <3>3, BuilderMoves
    <2>3. QED
        BY <2>1, <2>2
<1>7. ASSUME NEW b \in Builders, IndexerDies(b) PROVE IndexInv'
    <2>1. indexing' = [indexing EXCEPT ![b] = NotIndexing]
          /\ UNCHANGED <<rated, document, inbox, missed, overtaken>>
        BY <1>7 DEF IndexerDies
    <2>2. NotIndexing \in Indexing /\ NotIndexing.at = "idle" /\ NotIndexing.seen <= rated
        BY <1>0
    <2>3. QED
        BY <2>1, <2>2, BuilderMoves
<1>8. CASE UNCHANGED indexVars
    BY <1>0, <1>8 DEF indexVars, IndexInv, IndexTyped, Reaches, WillRefresh, Lags
<1>9. QED
    BY <1>1, <1>2, <1>3, <1>5, <1>6, <1>7, <1>8 DEF IndexNext, Index

LEMMA IndexInvSafe == IndexInv => IndexTypeOK /\ RatingReachesIndex
<1> SUFFICES ASSUME IndexInv PROVE IndexTypeOK /\ RatingReachesIndex
    OBVIOUS
<1>1. \A i \in Indexers : inbox[i] \in 0..2 * MaxRatings
    BY IndexAssumption DEF IndexInv, IndexTyped
<1>2. \A b \in Builders : indexing[b] \in [at : {"idle", "property", "upsert"}, seen : 0..rated,
                                           tries : 0..Times - 1]
    BY DEF IndexInv, IndexTyped, Indexing
<1>3. IndexTypeOK
    BY <1>1, <1>2 DEF IndexInv, IndexTyped, IndexTypeOK
<1>4. ASSUME Settled PROVE document = rated \/ missed \/ overtaken
    <2>1. \A i \in Indexers : ~WillRefresh(i)
        BY <1>4 DEF Settled, WillRefresh
    <2>2. QED
        BY <2>1 DEF IndexInv, Reaches
<1>5. QED
    BY <1>3, <1>4 DEF RatingReachesIndex

(* For any number of consumers and events: when none is left, the index    *)
(* shows the rating, an event was given up, or an older document was put   *)
(* over a newer one.                                                       *)
THEOREM IndexFollows == IndexSpec => []RatingReachesIndex
BY IndexInitInv, IndexStepInv, IndexInvSafe, PTL DEF IndexSpec

-----------------------------------------------------------------------------
(* FeatureFlags.  A request that has read the row knows whether the row    *)
(* changed since, and the copy it fills is late exactly then.              *)

FlagTyped ==
    /\ flag \in Flag /\ flagCopy \subseteq Flag
    /\ asker \in [Askers -> SUBSET [row : Flag, old : BOOLEAN]]
    /\ upserts \in 0..MaxUpserts /\ deleting \in 0..upserts
    /\ late \in BOOLEAN

ReadsDated == \A a \in Askers : \A read \in asker[a] : read.old \/ read.row = flag

FlagInv == FlagTyped /\ ReadsDated /\ CopyIsRow

LEMMA FlagInitInv == FlagInit => FlagInv
<1> SUFFICES ASSUME FlagInit PROVE FlagInv
    OBVIOUS
<1>1. MaxUpserts \in Nat
    BY FlagAssumption
<1>2. upserts \in 0..MaxUpserts /\ deleting \in 0..upserts
    BY <1>1 DEF FlagInit
<1>3. FlagTyped
    <2>1. flag \in Flag /\ flagCopy \subseteq Flag /\ late \in BOOLEAN
        BY DEF FlagInit
    <2>2. asker \in [Askers -> SUBSET [row : Flag, old : BOOLEAN]]
        BY DEF FlagInit
    <2>3. QED
        BY <1>2, <2>1, <2>2 DEF FlagTyped
<1>4. QED
    BY <1>3 DEF FlagInit, FlagInv, ReadsDated, CopyIsRow

LEMMA FlagStepInv == FlagInv /\ [FlagNext]_flagVars => FlagInv'
<1> SUFFICES ASSUME FlagInv, [FlagNext]_flagVars PROVE FlagInv'
    OBVIOUS
<1>0. FlagTyped /\ ReadsDated /\ CopyIsRow /\ MaxUpserts \in Nat
    BY FlagAssumption DEF FlagInv
<1>1. ASSUME NEW a \in Askers, ReadFlag(a) PROVE FlagInv'
    <2>1. PICK read : read = [row |-> flag, old |-> FALSE]
        OBVIOUS
    <2>2. read \in [row : Flag, old : BOOLEAN] /\ read.row = flag
        BY <1>0, <2>1 DEF FlagTyped
    <2>3. asker' = [asker EXCEPT ![a] = {read}] /\ UNCHANGED <<flag, flagCopy, deleting, upserts, late>>
        BY <1>1, <2>1 DEF ReadFlag
    <2>4. FlagTyped'
        BY <1>0, <2>2, <2>3 DEF FlagTyped
    <2>5. \A b \in Askers : asker'[b] = IF b = a THEN {read} ELSE asker[b]
        BY <1>0, <2>3 DEF FlagTyped
    <2>6. ReadsDated'
        BY <1>0, <2>2, <2>3, <2>5 DEF ReadsDated
    <2>7. QED
        BY <1>0, <2>3, <2>4, <2>6 DEF FlagInv, CopyIsRow
<1>2. ASSUME NEW a \in Askers, FillFlag(a) PROVE FlagInv'
    <2>1. PICK read \in asker[a] : flagCopy' = {read.row} /\ late' = read.old
        BY <1>2 DEF FillFlag
    <2>2. asker' = [asker EXCEPT ![a] = {}] /\ UNCHANGED <<flag, deleting, upserts>>
        BY <1>2 DEF FillFlag
    <2>3. read.row \in Flag /\ read.old \in BOOLEAN /\ (read.old \/ read.row = flag)
        BY <1>0, <2>1 DEF FlagTyped, ReadsDated
    <2>4. FlagTyped'
        BY <1>0, <2>1, <2>2, <2>3 DEF FlagTyped
    <2>5. \A b \in Askers : asker'[b] = IF b = a THEN {} ELSE asker[b]
        BY <1>0, <2>2 DEF FlagTyped
    <2>6. ReadsDated'
        BY <1>0, <2>2, <2>5 DEF ReadsDated
    <2>7. CopyIsRow'
        BY <2>1, <2>2, <2>3 DEF CopyIsRow
    <2>8. QED
        BY <2>4, <2>6, <2>7 DEF FlagInv
<1>3. ASSUME NEW f \in Flag, UpsertFlag(f) PROVE FlagInv'
    <2>1. /\ upserts < MaxUpserts /\ upserts' = upserts + 1 /\ deleting' = deleting + 1
          /\ flag' = f /\ UNCHANGED <<flagCopy, late>>
        BY <1>3 DEF UpsertFlag
    <2>2. \A a \in Askers : asker'[a] = {[read EXCEPT !.old = TRUE] : read \in asker[a]}
        BY <1>3 DEF UpsertFlag
    <2>3. ASSUME NEW a \in Askers, NEW now \in asker'[a]
          PROVE  now \in [row : Flag, old : BOOLEAN] /\ now.old
        <3>1. PICK read \in asker[a] : now = [read EXCEPT !.old = TRUE]
            BY <2>2
        <3>2. read \in [row : Flag, old : BOOLEAN]
            BY <1>0 DEF FlagTyped
        <3>3. QED
            BY <3>1, <3>2
    <2>4. asker' \in [Askers -> SUBSET [row : Flag, old : BOOLEAN]]
        <3>1. \A a \in Askers : asker'[a] \in SUBSET [row : Flag, old : BOOLEAN]
            BY <2>3
        <3>2. QED
            BY <1>3, <3>1 DEF UpsertFlag
    <2>5. upserts' \in 0..MaxUpserts /\ deleting' \in 0..upserts' /\ deleting' > 0
        BY <1>0, <2>1 DEF FlagTyped
    <2>6. FlagTyped'
        BY <1>0, <2>1, <2>4, <2>5 DEF FlagTyped
    <2>7. ReadsDated'
        BY <2>3 DEF ReadsDated
    <2>8. QED
        BY <2>5, <2>6, <2>7 DEF FlagInv, CopyIsRow
<1>4. CASE DeleteCopy \/ CopyExpires
    <2>1. flagCopy' = {} /\ late' = FALSE /\ UNCHANGED <<flag, asker, upserts>>
        BY <1>4 DEF DeleteCopy, CopyExpires
    <2>2. deleting' \in 0..upserts'
        BY <1>0, <1>4, <2>1 DEF DeleteCopy, CopyExpires, FlagTyped
    <2>3. QED
        BY <1>0, <2>1, <2>2 DEF FlagInv, FlagTyped, ReadsDated, CopyIsRow
<1>5. CASE UpsertDies
    <2>1. UNCHANGED <<flag, flagCopy, asker, upserts>> /\ late' = (flagCopy # {})
        BY <1>5 DEF UpsertDies
    <2>2. deleting' \in 0..upserts'
        BY <1>0, <1>5, <2>1 DEF UpsertDies, FlagTyped
    <2>3. CopyIsRow' /\ late' \in BOOLEAN
        BY <2>1 DEF CopyIsRow
    <2>4. QED
        BY <1>0, <2>1, <2>2, <2>3 DEF FlagInv, FlagTyped, ReadsDated
<1>6. CASE UNCHANGED flagVars
    BY <1>0, <1>6 DEF flagVars, FlagInv, FlagTyped, ReadsDated, CopyIsRow
<1>7. QED
    BY <1>1, <1>2, <1>3, <1>4, <1>5, <1>6 DEF FlagNext

LEMMA FlagInvSafe == FlagInv => FlagTypeOK /\ CopyIsRow
<1> SUFFICES ASSUME FlagInv PROVE FlagTypeOK /\ CopyIsRow
    OBVIOUS
<1>1. deleting \in 0..MaxUpserts
    BY FlagAssumption DEF FlagInv, FlagTyped
<1>2. QED
    BY <1>1 DEF FlagInv, FlagTyped, FlagTypeOK

(* However many requests fill the copy and administrators change the flag, *)
(* the copy is the row but between the two calls of an upsert and for a    *)
(* copy read before a change and filled after its delete.                  *)
THEOREM CopyFollows == FlagSpec => []CopyIsRow
BY FlagInitInv, FlagStepInv, FlagInvSafe, PTL DEF FlagSpec

LEMMA RaisedKeeps ==
    ASSUME NEW f \in Flag, NEW g \in Flag, NEW u \in People \cup {"anonymous"},
           g.enabled, f.rollout <= g.rollout, f.allow \subseteq g.allow, g.deny \subseteq f.deny,
           On(f, u)
    PROVE  On(g, u)
<1>1. f.rollout \in 0..100 /\ g.rollout \in 0..100
    BY FlagAssumption DEF Flag
<1>2. PICK x, y : x = ClampPct(f.rollout) /\ y = ClampPct(g.rollout)
    OBVIOUS
<1>3. x \in Int /\ y \in Int /\ x <= y
    BY <1>1, <1>2 DEF ClampPct
<1>4. u # "anonymous" => Bucket[u] \in Int
    BY FlagAssumption
<1>5. QED
    BY <1>2, <1>3, <1>4 DEF On

(* Whatever the buckets are: a rollout that is raised, with nobody denied  *)
(* or taken from the allowed, switches no user off.                        *)
THEOREM RolloutsKeepUsers == FlagSpec => RaisingKeepsUsers
<1>1. FlagInv /\ [FlagNext]_flagVars =>
          [/\ flag.enabled /\ flag'.enabled
           /\ flag.rollout <= flag'.rollout
           /\ flag.allow \subseteq flag'.allow /\ flag'.deny \subseteq flag.deny
           => \A u \in People \cup {"anonymous"} : On(flag, u) => On(flag', u)]_flag
    <2> SUFFICES ASSUME FlagInv, [FlagNext]_flagVars,
                        flag.enabled, flag'.enabled, flag.rollout <= flag'.rollout,
                        flag.allow \subseteq flag'.allow, flag'.deny \subseteq flag.deny,
                        NEW u \in People \cup {"anonymous"}, On(flag, u)
                 PROVE  On(flag', u)
        OBVIOUS
    <2>1. FlagInv'
        BY FlagStepInv
    <2>2. PICK f \in Flag, g \in Flag : f = flag /\ g = flag'
        BY <2>1 DEF FlagInv, FlagTyped
    <2>3. QED
        BY <2>2, RaisedKeeps
<1>2. QED
    BY <1>1, FlagInitInv, FlagStepInv, PTL DEF FlagSpec, RaisingKeepsUsers

-----------------------------------------------------------------------------
(* WebClient.  While a logout counts as served no login was, so that the   *)
(* session is gone, and whoever signed out that way holds neither a token  *)
(* nor a refresh that could bring one.                                     *)

TaskType == [at : {"idle", "sent", "ok", "401", "failed", "waiting"},
             kind : {"call", "login", "logout"}, token : {"none", "good", "bad"},
             retried : BOOLEAN, served : BOOLEAN]

Out == signedOut /\ ~excuse

NothingLeft == Out => ~cookie /\ token = "none" /\ refresh \notin {"good", "bad"}

TaskOK(r) == r \in TaskType /\ (r.served => ~cookie /\ r.kind = "logout")

TasksOK == DOMAIN task = Tasks /\ task = [t \in Tasks |-> task[t]] /\ \A t \in Tasks : TaskOK(task[t])

WebTyped ==
    /\ token \in {"none", "good", "bad"} /\ cookie \in BOOLEAN
    /\ refresh \in {"none", "sent", "good", "bad", "401", "lost", "stuck"}
    /\ signedOut \in BOOLEAN /\ excuse \in BOOLEAN

WebInv == WebTyped /\ TasksOK /\ NothingLeft

LEMMA WebInitInv == WebInit => WebInv
<1> SUFFICES ASSUME WebInit PROVE WebInv
    OBVIOUS
<1>1. TaskOK(NoTask)
    BY DEF TaskOK, TaskType, NoTask
<1>2. DOMAIN task = Tasks /\ task = [t \in Tasks |-> task[t]] /\ \A t \in Tasks : task[t] = NoTask
    BY DEF WebInit
<1>3. TasksOK
    BY <1>1, <1>2 DEF TasksOK
<1>4. WebTyped
    BY DEF WebInit, WebTyped
<1>5. QED
    BY <1>3, <1>4 DEF WebInit, WebInv, NothingLeft, Out

(* One request moves, and nobody signs in.                                 *)
LEMMA TaskMoves ==
    ASSUME TasksOK, NEW t \in Tasks, NEW r, task' = [task EXCEPT ![t] = r],
           TaskOK(r)', cookie' => cookie
    PROVE  TasksOK'
<1>1. \A o \in Tasks : task'[o] = IF o = t THEN r ELSE task[o]
    BY DEF TasksOK
<1>2. \A o \in Tasks : o # t => TaskOK(task[o])'
    BY DEF TasksOK, TaskOK
<1>3. DOMAIN task' = Tasks /\ task' = [o \in Tasks |-> task'[o]]
    BY DEF TasksOK
<1>4. \A o \in Tasks : TaskOK(task[o])'
    BY <1>1, <1>2 DEF TaskOK
<1>5. QED
    BY <1>3, <1>4 DEF TasksOK

LEMMA SettleKeeps ==
    ASSUME WebInv, NEW t \in Tasks, NEW ok \in BOOLEAN, Settle(t, ok), UNCHANGED <<cookie, refresh>>
    PROVE  WebInv'
<1>1. TaskOK(task[t]) /\ WebTyped /\ TasksOK
    BY DEF WebInv, TasksOK
<1>2. TaskOK(NoTask)'
    BY DEF TaskOK, TaskType, NoTask
<1>3. TasksOK'
    BY <1>1, <1>2, TaskMoves DEF Settle
<1>4. CASE task[t].kind = "login" /\ ok
    <2>1. token' = task[t].token /\ signedOut' = FALSE /\ excuse' = FALSE
        BY <1>4 DEF Settle
    <2>2. QED
        BY <1>1, <1>3, <2>1 DEF WebInv, WebTyped, TaskOK, TaskType, NothingLeft, Out
<1>5. CASE task[t].kind = "logout"
    <2>1. /\ token' = "none" /\ signedOut' \in BOOLEAN /\ excuse' \in BOOLEAN
          /\ ~excuse' => refresh = "none" /\ task[t].served
        BY <1>1, <1>5 DEF Settle, WebTyped
    <2>2. ~excuse' => ~cookie
        BY <1>1, <2>1 DEF TaskOK
    <2>3. QED
        BY <1>1, <1>3, <2>1, <2>2 DEF WebInv, WebTyped, NothingLeft, Out
<1>6. CASE task[t].kind # "logout" /\ ~(task[t].kind = "login" /\ ok)
    <2>1. token' = token /\ signedOut' = signedOut /\ excuse' = excuse
        BY <1>1, <1>6 DEF Settle, WebTyped
    <2>2. QED
        BY <1>1, <1>3, <2>1 DEF WebInv, WebTyped, NothingLeft, Out
<1>7. QED
    BY <1>4, <1>5, <1>6

LEMMA WebStepInv == WebInv /\ [WebNext]_webVars => WebInv'
<1> SUFFICES ASSUME WebInv, [WebNext]_webVars PROVE WebInv'
    OBVIOUS
<1>0. /\ WebTyped /\ TasksOK /\ NothingLeft
      /\ \A t \in Tasks : TaskOK(task[t]) /\ task[t] \in TaskType
    BY DEF WebInv, TasksOK, TaskOK
(* One request moves and the session is as it was.                         *)
<1>1. ASSUME NEW t \in Tasks, NEW r, task' = [task EXCEPT ![t] = r], TaskOK(r),
             UNCHANGED <<token, cookie, signedOut, excuse>>,
             WebTyped', refresh' = refresh \/ refresh' \notin {"good", "bad"}
      PROVE  WebInv'
    <2>1. TaskOK(r)'
        BY <1>1 DEF TaskOK
    <2>2. TasksOK'
        BY <1>0, <1>1, <2>1, TaskMoves
    <2>3. QED
        BY <1>0, <1>1, <2>2 DEF WebInv, NothingLeft, Out
<1>2. ASSUME NEW t \in Tasks, NEW kind \in {"call", "login", "logout"}, SendTask(t, kind) PROVE WebInv'
    <2>1. PICK r : r = [NoTask EXCEPT !.at = "sent", !.kind = kind, !.token = token]
        OBVIOUS
    <2>2. TaskOK(r)
        <3>1. NoTask \in TaskType /\ NoTask.served = FALSE
            BY DEF NoTask, TaskType
        <3>2. r \in TaskType /\ r.served = NoTask.served
            BY <1>0, <2>1, <3>1 DEF TaskType, WebTyped
        <3>3. QED
            BY <3>1, <3>2 DEF TaskOK
    <2>3. task' = [task EXCEPT ![t] = r]
        BY <1>2, <2>1 DEF SendTask
    <2>4. QED
        BY <1>0, <1>1, <1>2, <2>2, <2>3 DEF SendTask, WebTyped
<1>3. ASSUME NEW t \in Tasks, ReceiveOk(t) \/ ReceiveFailure(t) PROVE WebInv'
    BY <1>3, SettleKeeps DEF ReceiveOk, ReceiveFailure
<1>4. ASSUME NEW t \in Tasks, Receive401(t) PROVE WebInv'
    <2>1. PICK r : r = [task[t] EXCEPT !.at = "waiting", !.retried = TRUE]
        OBVIOUS
    <2>2. TaskOK(r)
        BY <1>0, <2>1 DEF TaskOK, TaskType
    <2>3. task' = [task EXCEPT ![t] = r]
        BY <1>4, <2>1 DEF Receive401
    <2>4. /\ UNCHANGED <<token, cookie, signedOut, excuse>> /\ refresh' \in {refresh, "sent"}
        BY <1>4 DEF Receive401
    <2>5. WebTyped'
        BY <1>0, <2>4 DEF WebTyped
    <2>6. QED
        BY <1>1, <2>2, <2>3, <2>4, <2>5
<1>5. ASSUME NEW t \in Tasks, ServeCall(t) PROVE WebInv'
    <2>1. PICK r : r = [task[t] EXCEPT !.at = IF task[t].token = "good" THEN "ok" ELSE "401"]
        OBVIOUS
    <2>2. TaskOK(r)
        BY <1>0, <2>1 DEF TaskOK, TaskType
    <2>3. task' = [task EXCEPT ![t] = r]
        BY <1>5, <2>1 DEF ServeCall
    <2>4. QED
        BY <1>0, <1>1, <1>5, <2>2, <2>3 DEF ServeCall, WebTyped
<1>6. ASSUME NEW t \in Tasks, ServeLogin(t) PROVE WebInv'
    <2>1. CASE cookie' = TRUE /\ signedOut' = FALSE
               /\ task' = [o \in Tasks |-> IF o = t THEN [task[t] EXCEPT !.at = "ok", !.token = "good"]
                                            ELSE [task[o] EXCEPT !.served = FALSE]]
        <3>1. PICK r : r = [task[t] EXCEPT !.at = "ok", !.token = "good"]
            OBVIOUS
        <3>2. r \in TaskType /\ ~r.served
            BY <1>0, <1>6, <3>1 DEF TaskOK, TaskType, ServeLogin
        <3>3. ASSUME NEW o \in Tasks, NEW q, q = [task[o] EXCEPT !.served = FALSE]
              PROVE  q \in TaskType /\ ~q.served
            BY <1>0, <3>3 DEF TaskType
        <3>4. \A o \in Tasks : task'[o] \in TaskType /\ ~task'[o].served
            BY <2>1, <3>1, <3>2, <3>3
        <3>5. TasksOK'
            BY <2>1, <3>4 DEF TasksOK, TaskOK
        <3>6. QED
            BY <1>0, <1>6, <2>1, <3>5 DEF ServeLogin, WebInv, WebTyped, NothingLeft, Out
    <2>2. CASE task' = [task EXCEPT ![t].at = "401"] /\ UNCHANGED <<cookie, signedOut>>
        <3>1. PICK r : r = [task[t] EXCEPT !.at = "401"]
            OBVIOUS
        <3>2. TaskOK(r)
            BY <1>0, <3>1 DEF TaskOK, TaskType
        <3>3. task' = [task EXCEPT ![t] = r]
            BY <2>2, <3>1
        <3>4. QED
            BY <1>0, <1>1, <1>6, <2>2, <3>2, <3>3 DEF ServeLogin, WebTyped
    <2>3. QED
        BY <1>6, <2>1, <2>2 DEF ServeLogin
(* The tokens die with the session: no one is signed in by that.           *)
<1>7. ASSUME NEW o \in Tasks, NEW q, q = [task[o] EXCEPT !.token = Dies(@)], cookie' => cookie
      PROVE  TaskOK(q)'
    <2>1. Dies(task[o].token) \in {"none", "good", "bad"}
        BY <1>0 DEF Dies, TaskType
    <2>2. QED
        BY <1>0, <1>7, <2>1 DEF TaskOK, TaskType
<1>8. token' = Dies(token) /\ refresh' = Dies(refresh) /\ cookie' \in {cookie, FALSE}
      /\ UNCHANGED <<signedOut, excuse>>
          => WebTyped' /\ NothingLeft'
    <2> SUFFICES ASSUME token' = Dies(token), refresh' = Dies(refresh), cookie' \in {cookie, FALSE},
                        UNCHANGED <<signedOut, excuse>>
                 PROVE  WebTyped' /\ NothingLeft'
        OBVIOUS
    <2>1. token' \in {"none", "good", "bad"} /\ (token = "none" => token' = "none")
        BY <1>0 DEF Dies, WebTyped
    <2>2. /\ refresh' \in {"none", "sent", "good", "bad", "401", "lost", "stuck"}
          /\ refresh \notin {"good", "bad"} => refresh' \notin {"good", "bad"}
        BY <1>0 DEF Dies, WebTyped
    <2>3. cookie' \in BOOLEAN /\ (cookie' => cookie)
        <3>1. cookie \in BOOLEAN /\ (cookie' = cookie \/ cookie' = FALSE)
            BY <1>0 DEF WebTyped
        <3>2. CASE cookie' = cookie
            BY <3>1, <3>2
        <3>3. CASE cookie' = FALSE
            BY <3>3
        <3>4. QED
            BY <3>1, <3>2, <3>3
    <2>4. QED
        BY <1>0, <2>1, <2>2, <2>3 DEF WebTyped, NothingLeft, Out
<1>9. ASSUME NEW t \in Tasks, ServeLogout(t) PROVE WebInv'
    <2>1. CASE task[t].token = "good"
        <3>1. /\ cookie' = FALSE /\ token' = Dies(token) /\ refresh' = Dies(refresh)
              /\ UNCHANGED <<signedOut, excuse>> /\ task[t].kind = "logout"
              /\ task' = [o \in Tasks |-> IF o = t THEN [task[t] EXCEPT !.at = "ok", !.served = TRUE]
                                          ELSE [task[o] EXCEPT !.token = Dies(@)]]
            BY <1>9, <2>1 DEF ServeLogout
        <3>2. PICK r : r = [task[t] EXCEPT !.at = "ok", !.served = TRUE]
            OBVIOUS
        <3>3. TaskOK(r)'
            BY <1>0, <3>1, <3>2 DEF TaskOK, TaskType
        <3>4. task'[t] = r /\ \A o \in Tasks : o # t => task'[o] = [task[o] EXCEPT !.token = Dies(@)]
            BY <3>1, <3>2
        <3>5. \A o \in Tasks : o # t => TaskOK(task[o])'
            BY <1>7, <3>1, <3>4 DEF TaskOK
        <3>6. TasksOK'
            BY <3>1, <3>3, <3>4, <3>5 DEF TasksOK, TaskOK
        <3>7. QED
            BY <1>8, <3>1, <3>6 DEF WebInv
    <2>2. CASE task[t].token # "good"
        <3>1. PICK r : r = [task[t] EXCEPT !.at = "401"]
            OBVIOUS
        <3>2. TaskOK(r)
            BY <1>0, <3>1 DEF TaskOK, TaskType
        <3>3. task' = [task EXCEPT ![t] = r] /\ UNCHANGED <<token, cookie, refresh, signedOut, excuse>>
            BY <1>9, <2>2, <3>1 DEF ServeLogout
        <3>4. QED
            BY <1>0, <1>1, <3>2, <3>3 DEF WebTyped
    <2>3. QED
        BY <2>1, <2>2
<1>10. CASE SessionTrouble
    <2>1. /\ token' = Dies(token) /\ refresh' = Dies(refresh) /\ cookie' \in {cookie, FALSE}
          /\ UNCHANGED <<signedOut, excuse>>
          /\ task' = [o \in Tasks |-> [task[o] EXCEPT !.token = Dies(@)]]
        BY <1>10 DEF SessionTrouble, TokensDie
    <2>2. \A o \in Tasks : TaskOK(task[o])'
        <3> SUFFICES ASSUME NEW o \in Tasks PROVE TaskOK(task[o])'
            OBVIOUS
        <3>1. PICK q : q = [task[o] EXCEPT !.token = Dies(@)]
            OBVIOUS
        <3>2. task'[o] = q
            BY <2>1, <3>1
        <3>3. cookie' => cookie
            BY <2>1, Zenon
        <3>4. TaskOK(q)'
            BY <1>7, <3>1, <3>3
        <3>5. QED
            BY <3>2, <3>4 DEF TaskOK
    <2>3. TasksOK'
        BY <2>1, <2>2 DEF TasksOK
    <2>4. QED
        BY <1>8, <2>1, <2>3 DEF WebInv
<1>11. ASSUME NEW t \in Tasks, AnswerFails(t) PROVE WebInv'
    <2>1. CASE task' = [task EXCEPT ![t].at = "failed"] /\ UNCHANGED refresh
        <3>1. PICK r : r = [task[t] EXCEPT !.at = "failed"]
            OBVIOUS
        <3>2. TaskOK(r)
            BY <1>0, <3>1 DEF TaskOK, TaskType
        <3>3. task' = [task EXCEPT ![t] = r]
            BY <2>1, <3>1
        <3>4. QED
            BY <1>0, <1>1, <1>11, <2>1, <3>2, <3>3 DEF AnswerFails, WebTyped
    <2>2. CASE refresh' = "lost" /\ UNCHANGED task
        BY <1>0, <1>11, <2>2 DEF AnswerFails, WebInv, WebTyped, TasksOK, TaskOK, NothingLeft, Out
    <2>3. QED
        BY <1>11, <2>1, <2>2 DEF AnswerFails
<1>12. CASE ReceiveRefresh
    <2>1. PICK next \in {"good", "bad", "none"} :
              /\ next = IF refresh = "lost" THEN "none" ELSE refresh
              /\ Resolve(next)
        BY <1>12 DEF ReceiveRefresh
    <2>2. token' = next /\ refresh' = "none" /\ UNCHANGED <<cookie, signedOut, excuse>>
        BY <1>12, <2>1 DEF ReceiveRefresh, Resolve
    <2>3. ASSUME NEW o \in Tasks, NEW q,
                 q = [task[o] EXCEPT !.at = IF next = "none" THEN "failed" ELSE "sent", !.token = next]
          PROVE  TaskOK(q)'
        BY <1>0, <2>2, <2>3 DEF TaskOK, TaskType
    <2>4. \A o \in Tasks : task'[o] = task[o] \/
              task'[o] = [task[o] EXCEPT !.at = IF next = "none" THEN "failed" ELSE "sent", !.token = next]
        BY <2>1 DEF Resolve
    <2>5. \A o \in Tasks : TaskOK(task[o])'
        BY <1>0, <2>2, <2>3, <2>4 DEF TaskOK
    <2>6. TasksOK'
        BY <2>1, <2>5 DEF TasksOK, Resolve
    <2>7. NothingLeft' /\ WebTyped'
        BY <1>0, <1>12, <2>1, <2>2 DEF ReceiveRefresh, NothingLeft, Out, WebTyped
    <2>8. QED
        BY <2>6, <2>7 DEF WebInv
<1>13. CASE ReceiveRefused \/ ServeRefresh
    <2>1. /\ UNCHANGED <<token, cookie, task, signedOut, excuse>>
          /\ refresh' \in {"stuck", "good", "401"} /\ (refresh' = "good" => cookie)
        BY <1>0, <1>13 DEF ReceiveRefused, ServeRefresh, WebTyped
    <2>2. QED
        BY <1>0, <2>1 DEF WebInv, WebTyped, TasksOK, TaskOK, NothingLeft, Out
<1>14. CASE UNCHANGED webVars
    BY <1>0, <1>14 DEF webVars, WebInv, WebTyped, TasksOK, TaskOK, NothingLeft, Out
<1>15. QED
    BY <1>2, <1>3, <1>4, <1>5, <1>6, <1>9, <1>10, <1>11, <1>12, <1>13, <1>14
       DEF WebNext, Progress, Refreshing

LEMMA WebInvSafe == WebInv => WebTypeOK /\ SignedOutStays
<1> SUFFICES ASSUME WebInv PROVE WebTypeOK /\ SignedOutStays
    OBVIOUS
<1>1. \A t \in Tasks : task[t] \in TaskType
    BY DEF WebInv, TasksOK, TaskOK
<1>2. task \in [Tasks -> TaskType]
    BY <1>1 DEF WebInv, TasksOK
<1>3. WebTypeOK
    BY <1>2 DEF WebInv, WebTyped, WebTypeOK, TaskType
<1>4. QED
    BY <1>3 DEF WebInv, NothingLeft, Out, SignedOutStays

(* However many requests of the pages are under way and in whatever order  *)
(* their answers come: who signed out holds no token again, unless a       *)
(* refresh or a login was under way or the logout was not served.          *)
THEOREM SignOutHolds == WebSpec => []SignedOutStays
BY WebInitInv, WebStepInv, WebInvSafe, PTL DEF WebSpec

-----------------------------------------------------------------------------
(* InvoiceMail.  Every mail that left, and every sender about to hand one  *)
(* over, is accounted for by an event that is done, by the one in hand, by *)
(* a call or by a delivery that broke off; where nothing failed, every     *)
(* event that is done has left a mail.                                     *)

Mailing == [at : {"rest", "bridge", "send", "record", "done"}, topic : InvoiceTopics \cup {"none"}]

Standing(at) == {w \in Senders : sender[w].at = at}
Count(at) == Cardinality(Standing(at))

EventsPast == offset["booking.review_approved"] + offset["booking.paid"]

SagaAsked(ats) == IF sender["saga"].at \in ats /\ sender["saga"].topic \in Asking THEN 1 ELSE 0
SagaBusy == SagaAsked({"send", "record", "done"})
SagaPast == SagaAsked({"record", "done"})

(* What the settled payment has put on booking.paid, itself and bridged.   *)
Bridged ==
    (IF "paid" \in paidOnce /\ ~setup.autoConfirm THEN 1 ELSE 0) + offset["payment.succeeded"]
    + IF sender["saga"].at = "done" /\ sender["saga"].topic = "payment.succeeded" THEN 1 ELSE 0

InvoiceTyped ==
    /\ setup \in [autoConfirm : BOOLEAN, enabled : BOOLEAN, address : BOOLEAN]
    /\ paidOnce \subseteq {"approved", "paid"}
    /\ log \in [InvoiceTopics -> Nat] /\ offset \in [InvoiceTopics -> Nat]
    /\ sender \in [Senders -> Mailing]
    /\ mails \in Nat /\ records \in Nat
    /\ broken \in [off : Nat, failed : Nat, calls : Nat]

SagaOK ==
    LET saga == sender["saga"] IN
    /\ saga = AtRest \/ saga.at # "rest"
    /\ saga.at \in {"send", "record"} => saga.topic \in Asking
    /\ saga.at = "bridge" => saga.topic = "payment.succeeded"
    /\ saga.at # "rest" => saga.topic \in InvoiceTopics /\ offset[saga.topic] < log[saga.topic]

Logged ==
    /\ \A t \in InvoiceTopics : offset[t] <= log[t]
    /\ log["booking.review_approved"] = IF "approved" \in paidOnce THEN 1 ELSE 0
    /\ log["payment.succeeded"] = IF "paid" \in paidOnce THEN 1 ELSE 0
    /\ Bridged <= log["booking.paid"] /\ log["booking.paid"] <= Bridged + broken.off

Mailed ==
    /\ mails + Count("send") <= EventsPast + broken.off + broken.calls + SagaBusy
    /\ IF setup.enabled THEN records + Count("record") <= mails ELSE mails = 0
    /\ setup.enabled /\ setup.address /\ broken.failed = 0 => EventsPast + SagaPast <= mails

InvoiceInv == InvoiceTyped /\ SagaOK /\ Logged /\ Mailed

LEMMA SendersFinite == IsFiniteSet(Senders) /\ "saga" \in Senders
<1>1. IsFiniteSet(Clerks)
    BY InvoiceAssumption
<1>2. QED
    BY <1>1, FS_AddElement DEF Senders

LEMMA CountTyped == \A at : Count(at) \in Nat
<1> SUFFICES ASSUME NEW at PROVE Count(at) \in Nat
    OBVIOUS
<1>1. Standing(at) \subseteq Senders
    BY DEF Standing
<1>2. IsFiniteSet(Standing(at))
    BY <1>1, SendersFinite, FS_Subset
<1>3. QED
    BY <1>2, FS_CardinalityType DEF Count

(* One sender moves from where it stood to where it stands.                *)
LEMMA CountMoves ==
    ASSUME sender \in [Senders -> Mailing], NEW w \in Senders, NEW r,
           sender' = [sender EXCEPT ![w] = r], NEW at
    PROVE  Count(at)' = Count(at) + (IF r.at = at THEN 1 ELSE 0) - (IF sender[w].at = at THEN 1 ELSE 0)
<1>1. \A v \in Senders : sender'[v] = IF v = w THEN r ELSE sender[v]
    OBVIOUS
<1>2. IsFiniteSet(Standing(at)) /\ Standing(at) \subseteq Senders /\ Count(at) \in Nat
    <2>1. Standing(at) \subseteq Senders
        BY DEF Standing
    <2>2. QED
        BY <2>1, SendersFinite, CountTyped, FS_Subset
<1>3. CASE r.at = at /\ sender[w].at # at
    <2>1. Standing(at)' = Standing(at) \cup {w} /\ w \notin Standing(at)
        BY <1>1, <1>3 DEF Standing
    <2>2. Cardinality(Standing(at)') = Cardinality(Standing(at)) + 1
        BY <1>2, <2>1, FS_AddElement
    <2>3. QED
        BY <1>2, <1>3, <2>2 DEF Count
<1>4. CASE r.at # at /\ sender[w].at = at
    <2>1. Standing(at)' = Standing(at) \ {w} /\ w \in Standing(at)
        BY <1>1, <1>4 DEF Standing
    <2>2. Cardinality(Standing(at)') = Cardinality(Standing(at)) - 1
        BY <1>2, <2>1, FS_RemoveElement
    <2>3. QED
        BY <1>2, <1>4, <2>2 DEF Count
<1>5. CASE (r.at = at) <=> (sender[w].at = at)
    <2>1. Standing(at)' = Standing(at)
        BY <1>1, <1>5 DEF Standing
    <2>2. QED
        BY <1>2, <1>5, <2>1 DEF Count
<1>6. QED
    BY <1>3, <1>4, <1>5

LEMMA CountsMove ==
    ASSUME sender \in [Senders -> Mailing], NEW w \in Senders, NEW r,
           sender' = [sender EXCEPT ![w] = r]
    PROVE  /\ Count("send")' = Count("send") + (IF r.at = "send" THEN 1 ELSE 0)
                               - (IF sender[w].at = "send" THEN 1 ELSE 0)
           /\ Count("record")' = Count("record") + (IF r.at = "record" THEN 1 ELSE 0)
                                 - (IF sender[w].at = "record" THEN 1 ELSE 0)
<1>1. Count("send")' = Count("send") + (IF r.at = "send" THEN 1 ELSE 0)
                       - (IF sender[w].at = "send" THEN 1 ELSE 0)
    BY CountMoves
<1>2. Count("record")' = Count("record") + (IF r.at = "record" THEN 1 ELSE 0)
                         - (IF sender[w].at = "record" THEN 1 ELSE 0)
    BY CountMoves
<1>3. QED
    BY <1>1, <1>2

LEMMA InvoiceInitInv == InvoiceInit => InvoiceInv
<1> SUFFICES ASSUME InvoiceInit PROVE InvoiceInv
    OBVIOUS
<1>1. /\ \A w \in Senders : sender[w] = AtRest
      /\ sender["saga"] = AtRest /\ AtRest.at = "rest" /\ AtRest.topic = "none"
    BY SendersFinite DEF InvoiceInit, AtRest
<1>2. InvoiceTyped
    <2>1. sender \in [Senders -> Mailing]
        BY DEF InvoiceInit, AtRest, Mailing
    <2>2. broken \in [off : Nat, failed : Nat, calls : Nat]
        BY DEF InvoiceInit
    <2>3. QED
        BY <2>1, <2>2 DEF InvoiceInit, InvoiceTyped
<1>3. SagaOK
    BY <1>1 DEF SagaOK
<1>4. /\ \A t \in InvoiceTopics : log[t] = 0 /\ offset[t] = 0
      /\ {"booking.review_approved", "booking.paid", "payment.succeeded"} = InvoiceTopics
      /\ broken.off = 0 /\ broken.calls = 0 /\ broken.failed = 0 /\ mails = 0 /\ records = 0
      /\ paidOnce = {}
    BY DEF InvoiceInit, InvoiceTopics
<1>5. Logged
    <2>1. Bridged = 0
        BY <1>1, <1>4 DEF Bridged, AtRest
    <2>2. QED
        BY <1>4, <2>1 DEF Logged
<1>6. Mailed
    <2>1. Standing("send") = {} /\ Standing("record") = {}
        BY <1>1 DEF Standing
    <2>2. Count("send") = 0 /\ Count("record") = 0
        BY <2>1, FS_EmptySet DEF Count
    <2>3. SagaBusy = 0 /\ SagaPast = 0 /\ EventsPast = 0
        BY <1>1, <1>4 DEF SagaBusy, SagaPast, SagaAsked, EventsPast
    <2>4. QED
        BY <1>4, <2>2, <2>3 DEF Mailed
<1>7. QED
    BY <1>2, <1>3, <1>5, <1>6 DEF InvoiceInv

(* The consumer's place is where it moved, or where it was when a clerk    *)
(* moved.                                                                  *)
LEMMA SagaMoves ==
    ASSUME sender \in [Senders -> Mailing], NEW w \in Senders, NEW r \in Mailing,
           sender' = [sender EXCEPT ![w] = r]
    PROVE  /\ sender' \in [Senders -> Mailing]
           /\ w = "saga" => sender'["saga"] = r
           /\ w # "saga" => sender'["saga"] = sender["saga"]
BY SendersFinite

LEMMA BreaksAdds ==
    ASSUME broken \in [off : Nat, failed : Nat, calls : Nat], NEW what \in {"off", "failed", "calls"},
           Breaks(what)
    PROVE  /\ broken' \in [off : Nat, failed : Nat, calls : Nat]
           /\ broken'.off = broken.off + IF what = "off" THEN 1 ELSE 0
           /\ broken'.failed = broken.failed + IF what = "failed" THEN 1 ELSE 0
           /\ broken'.calls = broken.calls + IF what = "calls" THEN 1 ELSE 0
BY DEF Breaks

(* A clerk moves: nothing of the consumer's changes.                       *)
LEMMA ClerkMoves ==
    ASSUME InvoiceTyped, SagaOK, Logged, NEW w \in Senders, w # "saga", NEW r \in Mailing,
           sender' = [sender EXCEPT ![w] = r], UNCHANGED <<setup, paidOnce, log, offset>>,
           broken' \in [off : Nat, failed : Nat, calls : Nat], broken'.off = broken.off
    PROVE  /\ SagaOK' /\ Logged'
           /\ SagaBusy' = SagaBusy /\ SagaPast' = SagaPast /\ EventsPast' = EventsPast
<1>1. sender'["saga"] = sender["saga"]
    BY SagaMoves DEF InvoiceTyped
<1>2. SagaOK'
    BY <1>1 DEF SagaOK
<1>3. Bridged' = Bridged
    BY <1>1 DEF Bridged
<1>4. Logged'
    BY <1>3 DEF Logged
<1>5. QED
    BY <1>1, <1>2, <1>4 DEF SagaBusy, SagaPast, SagaAsked, EventsPast

LEMMA InvoiceStepInv == InvoiceInv /\ [InvoiceNext]_invoiceVars => InvoiceInv'
<1> SUFFICES ASSUME InvoiceInv, [InvoiceNext]_invoiceVars PROVE InvoiceInv'
    OBVIOUS
<1>0. /\ InvoiceTyped /\ SagaOK /\ Logged /\ Mailed
      /\ \A t \in InvoiceTopics : log[t] \in Nat /\ offset[t] \in Nat
      /\ \A w \in Senders : sender[w] \in Mailing
      /\ sender \in [Senders -> Mailing] /\ "saga" \in Senders
      /\ broken \in [off : Nat, failed : Nat, calls : Nat]
      /\ broken.off \in Nat /\ broken.failed \in Nat /\ broken.calls \in Nat
      /\ mails \in Nat /\ records \in Nat
    BY SendersFinite DEF InvoiceInv, InvoiceTyped
<1>a. /\ Count("send") \in Nat /\ Count("record") \in Nat
      /\ SagaBusy \in {0, 1} /\ SagaPast \in {0, 1}
      /\ EventsPast \in Nat /\ Bridged \in Nat
    BY <1>0, CountTyped DEF SagaBusy, SagaPast, SagaAsked, EventsPast, Bridged, InvoiceTopics
<1>b. InvoiceTopics = {"booking.review_approved", "booking.paid", "payment.succeeded"}
      /\ Asking = {"booking.review_approved", "booking.paid"}
    BY DEF InvoiceTopics, Asking
<1>1. CASE ReviewApproved
    <2>1. /\ "approved" \notin paidOnce /\ paidOnce' = paidOnce \cup {"approved"}
          /\ log' = [log EXCEPT !["booking.review_approved"] = @ + 1]
          /\ UNCHANGED <<setup, offset, sender, mails, records, broken>>
        BY <1>1 DEF ReviewApproved
    <2>2. \A t \in InvoiceTopics : log'[t] = IF t = "booking.review_approved" THEN log[t] + 1 ELSE log[t]
        BY <1>0, <2>1 DEF InvoiceTyped
    <2>3. InvoiceTyped'
        <3>1. log' \in [InvoiceTopics -> Nat]
            BY <1>0, <1>b, <2>1 DEF InvoiceTyped
        <3>2. QED
            BY <1>0, <2>1, <3>1 DEF InvoiceTyped
    <2>4. SagaOK'
        BY <1>0, <2>1, <2>2 DEF SagaOK
    <2>5. Logged'
        <3>1. Bridged' = Bridged
            BY <2>1 DEF Bridged
        <3>2. QED
            BY <1>0, <1>a, <1>b, <2>1, <2>2, <3>1 DEF Logged
    <2>6. Mailed'
        <3>1. /\ Count("send")' = Count("send") /\ Count("record")' = Count("record")
              /\ SagaBusy' = SagaBusy /\ SagaPast' = SagaPast /\ EventsPast' = EventsPast
            BY <2>1 DEF Count, Standing, SagaBusy, SagaPast, SagaAsked, EventsPast
        <3>2. QED
            BY <1>0, <2>1, <3>1 DEF Mailed
    <2>7. QED
        BY <2>3, <2>4, <2>5, <2>6 DEF InvoiceInv
<1>2. CASE PaymentSettles
    <2>1. /\ "paid" \notin paidOnce /\ paidOnce' = paidOnce \cup {"paid"}
          /\ log' = [log EXCEPT !["payment.succeeded"] = @ + 1,
                                !["booking.paid"] = IF setup.autoConfirm THEN @ ELSE @ + 1]
          /\ UNCHANGED <<setup, offset, sender, mails, records, broken>>
        BY <1>2 DEF PaymentSettles
    <2>2. /\ log'["payment.succeeded"] = log["payment.succeeded"] + 1
          /\ log'["booking.paid"] = log["booking.paid"] + IF setup.autoConfirm THEN 0 ELSE 1
          /\ log'["booking.review_approved"] = log["booking.review_approved"]
        BY <1>0, <1>b, <2>1 DEF InvoiceTyped
    <2>3. InvoiceTyped'
        <3>1. log' \in [InvoiceTopics -> Nat]
            BY <1>0, <1>b, <2>1 DEF InvoiceTyped
        <3>2. QED
            BY <1>0, <2>1, <3>1 DEF InvoiceTyped
    <2>4. \A t \in InvoiceTopics : log[t] <= log'[t]
        BY <1>0, <1>b, <2>2
    <2>5. SagaOK'
        BY <1>0, <2>1, <2>3, <2>4 DEF SagaOK, InvoiceTyped
    <2>6. Logged'
        <3>1. Bridged' = Bridged + IF setup.autoConfirm THEN 0 ELSE 1
            BY <1>0, <1>b, <2>1 DEF Bridged
        <3>2. \A t \in InvoiceTopics : offset'[t] <= log'[t]
            BY <1>0, <2>1, <2>3, <2>4 DEF Logged, InvoiceTyped
        <3>3. QED
            BY <1>0, <1>a, <1>b, <2>1, <2>2, <3>1, <3>2 DEF Logged
    <2>7. Mailed'
        <3>1. /\ Count("send")' = Count("send") /\ Count("record")' = Count("record")
              /\ SagaBusy' = SagaBusy /\ SagaPast' = SagaPast /\ EventsPast' = EventsPast
            BY <2>1 DEF Count, Standing, SagaBusy, SagaPast, SagaAsked, EventsPast
        <3>2. QED
            BY <1>0, <2>1, <3>1 DEF Mailed
    <2>8. QED
        BY <2>3, <2>5, <2>6, <2>7 DEF InvoiceInv
<1>3. ASSUME NEW t \in InvoiceTopics, DeliverEvent(t) PROVE InvoiceInv'
    <2>1. PICK r : r = [at |-> IF t \in Asking THEN "send" ELSE "bridge", topic |-> t]
        OBVIOUS
    <2>2. r \in Mailing /\ r.topic = t /\ r.at = (IF t \in Asking THEN "send" ELSE "bridge")
        BY <2>1 DEF Mailing
    <2>3. /\ sender' = [sender EXCEPT !["saga"] = r] /\ offset[t] < log[t]
          /\ sender["saga"].at = "rest" /\ sender["saga"].topic = "none"
          /\ UNCHANGED <<setup, paidOnce, log, offset, mails, records, broken>>
        BY <1>3, <2>1 DEF DeliverEvent, AtRest
    <2>4. sender' \in [Senders -> Mailing] /\ sender'["saga"] = r
        BY <1>0, <2>2, <2>3, SagaMoves
    <2>5. InvoiceTyped'
        BY <1>0, <2>3, <2>4 DEF InvoiceTyped
    <2>6. SagaOK'
        BY <1>b, <2>2, <2>3, <2>4 DEF SagaOK
    <2>7. Logged'
        <3>1. Bridged' = Bridged
            BY <2>2, <2>3, <2>4 DEF Bridged
        <3>2. QED
            BY <1>0, <2>3, <3>1 DEF Logged
    <2>8. Mailed'
        <3>1. /\ Count("send")' = Count("send") + (IF r.at = "send" THEN 1 ELSE 0)
                                   - (IF sender["saga"].at = "send" THEN 1 ELSE 0)
              /\ Count("record")' = Count("record") + (IF r.at = "record" THEN 1 ELSE 0)
                                     - (IF sender["saga"].at = "record" THEN 1 ELSE 0)
            BY <1>0, <2>3, CountsMove
        <3>2. /\ Count("send")' = Count("send") + IF t \in Asking THEN 1 ELSE 0
              /\ Count("record")' = Count("record")
            BY <1>a, <2>2, <2>3, <3>1
        <3>3. SagaBusy = 0 /\ SagaPast = 0 /\ SagaPast' = 0 /\ SagaBusy' = IF t \in Asking THEN 1 ELSE 0
            BY <1>b, <2>2, <2>3, <2>4 DEF SagaBusy, SagaPast, SagaAsked
        <3>4. EventsPast' = EventsPast
            BY <2>3 DEF EventsPast
        <3>5. QED
            BY <1>0, <1>a, <2>3, <3>1, <3>2, <3>3, <3>4 DEF Mailed
    <2>9. QED
        BY <2>5, <2>6, <2>7, <2>8 DEF InvoiceInv
<1>4. CASE BridgeToPaid
    <2>1. PICK r : r = [sender["saga"] EXCEPT !.at = "done"]
        OBVIOUS
    <2>2. r \in Mailing /\ r.topic = sender["saga"].topic /\ r.at = "done"
        BY <1>0, <2>1 DEF Mailing
    <2>3. /\ sender' = [sender EXCEPT !["saga"] = r] /\ sender["saga"].at = "bridge"
          /\ log' = [log EXCEPT !["booking.paid"] = @ + 1]
          /\ UNCHANGED <<setup, paidOnce, offset, mails, records, broken>>
        BY <1>4, <2>1 DEF BridgeToPaid, Moves
    <2>4. sender["saga"].topic = "payment.succeeded"
        BY <1>0, <2>3 DEF SagaOK
    <2>5. sender' \in [Senders -> Mailing] /\ sender'["saga"] = r
        BY <1>0, <2>2, <2>3, SagaMoves
    <2>6. \A t \in InvoiceTopics : log'[t] = IF t = "booking.paid" THEN log[t] + 1 ELSE log[t]
        BY <1>0, <2>3 DEF InvoiceTyped
    <2>7. InvoiceTyped'
        <3>1. log' \in [InvoiceTopics -> Nat]
            BY <1>0, <1>b, <2>3 DEF InvoiceTyped
        <3>2. QED
            BY <1>0, <2>3, <2>5, <3>1 DEF InvoiceTyped
    <2>8. SagaOK'
        <3>1. sender["saga"].topic \in InvoiceTopics /\ offset["payment.succeeded"] < log["payment.succeeded"]
            BY <1>0, <2>3, <2>4 DEF SagaOK
        <3>2. QED
            BY <1>b, <2>2, <2>3, <2>4, <2>5, <2>6, <3>1 DEF SagaOK
    <2>9. Logged'
        <3>1. Bridged' = Bridged + 1
            BY <1>0, <1>b, <2>2, <2>3, <2>4, <2>5 DEF Bridged
        <3>2. QED
            BY <1>0, <1>a, <1>b, <2>3, <2>6, <3>1 DEF Logged
    <2>10. Mailed'
        <3>1. Count("send")' = Count("send") /\ Count("record")' = Count("record")
            <4>1. /\ Count("send")' = Count("send") + (IF r.at = "send" THEN 1 ELSE 0)
                                       - (IF sender["saga"].at = "send" THEN 1 ELSE 0)
                  /\ Count("record")' = Count("record") + (IF r.at = "record" THEN 1 ELSE 0)
                                         - (IF sender["saga"].at = "record" THEN 1 ELSE 0)
                BY <1>0, <2>3, CountsMove
            <4>2. QED
                BY <1>a, <2>2, <2>3, <4>1
        <3>2. SagaBusy = 0 /\ SagaPast = 0 /\ SagaBusy' = 0 /\ SagaPast' = 0
            BY <1>b, <2>2, <2>3, <2>4, <2>5 DEF SagaBusy, SagaPast, SagaAsked
        <3>3. EventsPast' = EventsPast
            BY <2>3 DEF EventsPast
        <3>4. QED
            BY <1>0, <2>3, <3>1, <3>2, <3>3 DEF Mailed
    <2>11. QED
        BY <2>7, <2>8, <2>9, <2>10 DEF InvoiceInv
<1>5. ASSUME NEW w \in Clerks, CallRoute(w) PROVE InvoiceInv'
    <2>1. PICK r : r = [sender[w] EXCEPT !.at = "send"]
        OBVIOUS
    <2>2. w \in Senders /\ w # "saga"
        BY InvoiceAssumption DEF Senders
    <2>3. r \in Mailing /\ r.at = "send"
        BY <1>0, <2>1, <2>2 DEF Mailing
    <2>4. /\ sender' = [sender EXCEPT ![w] = r] /\ sender[w].at = "rest" /\ Breaks("calls")
          /\ UNCHANGED <<setup, paidOnce, log, offset, mails, records>>
        BY <1>5, <2>1 DEF CallRoute, Moves, AtRest
    <2>5. /\ broken' \in [off : Nat, failed : Nat, calls : Nat]
          /\ broken'.off = broken.off /\ broken'.calls = broken.calls + 1 /\ broken'.failed = broken.failed
        BY <1>0, <2>4, BreaksAdds
    <2>6. InvoiceTyped'
        BY <1>0, <2>2, <2>3, <2>4, <2>5, SagaMoves DEF InvoiceTyped
    <2>7. SagaOK' /\ Logged' /\ SagaBusy' = SagaBusy /\ SagaPast' = SagaPast /\ EventsPast' = EventsPast
        BY <1>0, <2>2, <2>3, <2>4, <2>5, ClerkMoves
    <2>8. Count("send")' = Count("send") + 1 /\ Count("record")' = Count("record")
        <3>1. /\ Count("send")' = Count("send") + (IF r.at = "send" THEN 1 ELSE 0)
                                   - (IF sender[w].at = "send" THEN 1 ELSE 0)
              /\ Count("record")' = Count("record") + (IF r.at = "record" THEN 1 ELSE 0)
                                     - (IF sender[w].at = "record" THEN 1 ELSE 0)
            BY <1>0, <2>2, <2>4, CountsMove
        <3>2. QED
            BY <1>a, <2>3, <2>4, <3>1
    <2>9. Mailed'
        BY <1>0, <1>a, <2>4, <2>5, <2>7, <2>8 DEF Mailed
    <2>10. QED
        BY <2>6, <2>7, <2>9 DEF InvoiceInv
(* A sender leaves send for record, or record or send for done.            *)
<1>6. ASSUME NEW w \in Senders, NEW r \in Mailing, sender' = [sender EXCEPT ![w] = r],
             r.topic = sender[w].topic, UNCHANGED <<setup, paidOnce, log, offset>>,
             \/ sender[w].at = "send" /\ r.at \in {"record", "done"}
             \/ sender[w].at = "record" /\ r.at = "done",
             broken' \in [off : Nat, failed : Nat, calls : Nat], broken'.off = broken.off,
             mails' \in Nat, records' \in Nat
      PROVE  /\ InvoiceTyped' /\ SagaOK' /\ Logged'
             /\ SagaBusy' = SagaBusy /\ EventsPast' = EventsPast
             /\ SagaPast' <= SagaPast + (IF sender[w].at = "send" THEN 1 ELSE 0)
             /\ Count("send")' = Count("send") - (IF sender[w].at = "send" THEN 1 ELSE 0)
             /\ Count("record")' = Count("record") + (IF r.at = "record" THEN 1 ELSE 0)
                                                   - (IF sender[w].at = "record" THEN 1 ELSE 0)
    <2>1. InvoiceTyped'
        BY <1>0, <1>6, SagaMoves DEF InvoiceTyped
    <2>2. Count("send")' = Count("send") - (IF sender[w].at = "send" THEN 1 ELSE 0)
        <3>1. r.at # "send"
            BY <1>6
        <3>2. Count("send")' = Count("send") + (IF r.at = "send" THEN 1 ELSE 0)
                               - (IF sender[w].at = "send" THEN 1 ELSE 0)
            BY <1>0, <1>6, CountMoves
        <3>3. QED
            BY <1>a, <3>1, <3>2
    <2>3. Count("record")' = Count("record") + (IF r.at = "record" THEN 1 ELSE 0)
                             - (IF sender[w].at = "record" THEN 1 ELSE 0)
        <3>1. sender \in [Senders -> Mailing] /\ sender' = [sender EXCEPT ![w] = r]
            BY <1>0, <1>6
        <3>2. QED
            BY ZenonT(60), <1>6, <3>1, CountMoves
    <2>4. CASE w # "saga"
        <3>1. SagaOK' /\ Logged' /\ SagaBusy' = SagaBusy /\ SagaPast' = SagaPast /\ EventsPast' = EventsPast
            BY <1>0, <1>6, <2>4, ClerkMoves
        <3>2. SagaPast' <= SagaPast + (IF sender[w].at = "send" THEN 1 ELSE 0)
            BY <1>a, <3>1
        <3>3. QED
            BY <2>1, <2>2, <2>3, <3>1, <3>2
    <2>5. CASE w = "saga"
        <3>1. sender'["saga"] = r
            BY <1>0, <1>6, <2>5, SagaMoves
        <3>2. sender["saga"].topic \in Asking /\ r.topic \in Asking
            BY <1>0, <1>6, <2>5 DEF SagaOK
        <3>3. SagaOK'
            BY <1>0, <1>6, <2>5, <3>1, <3>2 DEF SagaOK
        <3>4. Bridged' = Bridged
            BY <1>6, <1>b, <2>5, <3>1, <3>2 DEF Bridged
        <3>5. Logged'
            BY <1>0, <1>6, <3>4 DEF Logged
        <3>6. SagaBusy' = 1 /\ SagaBusy = 1
            BY <1>6, <2>5, <3>1, <3>2 DEF SagaBusy, SagaAsked
        <3>7. SagaPast' = 1 /\ SagaPast = IF sender[w].at = "send" THEN 0 ELSE 1
            BY <1>6, <2>5, <3>1, <3>2 DEF SagaPast, SagaAsked
        <3>8. EventsPast' = EventsPast
            BY <1>6 DEF EventsPast
        <3>9. QED
            BY <2>1, <2>2, <2>3, <3>3, <3>5, <3>6, <3>7, <3>8
    <2>6. QED
        BY <2>4, <2>5
<1>7. ASSUME NEW w \in Senders, Send(w) PROVE InvoiceInv'
    <2>1. PICK r : r = [sender[w] EXCEPT !.at = "record"]
        OBVIOUS
    <2>2. r \in Mailing /\ r.at = "record" /\ r.topic = sender[w].topic
        BY <1>0, <2>1 DEF Mailing
    <2>3. /\ sender' = [sender EXCEPT ![w] = r] /\ sender[w].at = "send"
          /\ mails' = IF setup.enabled THEN mails + 1 ELSE mails
          /\ UNCHANGED <<setup, paidOnce, log, offset, records, broken>>
        BY <1>7, <2>1 DEF Send, Moves
    <2>4. /\ InvoiceTyped' /\ SagaOK' /\ Logged'
          /\ SagaBusy' = SagaBusy /\ EventsPast' = EventsPast /\ SagaPast' <= SagaPast + 1
          /\ Count("send")' = Count("send") - 1 /\ Count("record")' = Count("record") + 1
        <3>1. mails' \in Nat /\ records' \in Nat
            BY <1>0, <2>3
        <3>2. /\ InvoiceTyped' /\ SagaOK' /\ Logged'
              /\ SagaBusy' = SagaBusy /\ EventsPast' = EventsPast
              /\ SagaPast' <= SagaPast + (IF sender[w].at = "send" THEN 1 ELSE 0)
              /\ Count("send")' = Count("send") - (IF sender[w].at = "send" THEN 1 ELSE 0)
              /\ Count("record")' = Count("record") + (IF r.at = "record" THEN 1 ELSE 0)
                                                    - (IF sender[w].at = "record" THEN 1 ELSE 0)
            BY <1>0, <1>6, <2>2, <2>3, <3>1
        <3>3. QED
            BY <1>a, <2>2, <2>3, <3>2
    <2>5. SagaPast' \in {0, 1}
        BY DEF SagaPast, SagaAsked
    <2>6. Mailed'
        <3>1. mails' + Count("send")' <= EventsPast' + broken'.off + broken'.calls + SagaBusy'
            BY <1>0, <1>a, <2>3, <2>4 DEF Mailed
        <3>2. IF setup'.enabled THEN records' + Count("record")' <= mails' ELSE mails' = 0
            BY <1>0, <1>a, <2>3, <2>4 DEF Mailed
        <3>3. setup'.enabled /\ setup'.address /\ broken'.failed = 0 => EventsPast' + SagaPast' <= mails'
            <4> SUFFICES ASSUME setup'.enabled, setup'.address, broken'.failed = 0
                         PROVE  EventsPast' + SagaPast' <= mails'
                OBVIOUS
            <4>1. setup.enabled /\ setup.address /\ broken.failed = 0
                BY <2>3
            <4>2. EventsPast + SagaPast <= mails
                BY <1>0, <4>1 DEF Mailed
            <4>3. mails \in Nat /\ mails <= mails' /\ mails' \in Nat
                BY <1>0, <2>3
            <4>4. EventsPast' = EventsPast /\ SagaPast' <= SagaPast + (mails' - mails)
                BY <1>a, <2>3, <2>4, <4>3
            <4>5. PICK e, p, q, m, n :
                     e = EventsPast /\ p = SagaPast /\ q = SagaPast' /\ m = mails /\ n = mails'
                OBVIOUS
            <4>6. e \in Nat /\ p \in Nat /\ q \in Nat /\ m \in Nat /\ n \in Nat
                BY <1>a, <2>5, <4>3, <4>5
            <4>7. e + p <= m /\ q <= p + (n - m)
                BY <4>2, <4>4, <4>5
            <4>8. e + q <= n
                BY <4>6, <4>7
            <4>9. QED
                BY <4>4, <4>5, <4>8
        <3>4. QED
            BY <3>1, <3>2, <3>3 DEF Mailed
    <2>7. QED
        BY <2>4, <2>6 DEF InvoiceInv
<1>8. ASSUME NEW w \in Senders, EmitEmailed(w) PROVE InvoiceInv'
    <2>1. PICK r : r = [sender[w] EXCEPT !.at = "done"]
        OBVIOUS
    <2>2. r \in Mailing /\ r.at = "done" /\ r.topic = sender[w].topic
        BY <1>0, <2>1 DEF Mailing
    <2>3. /\ sender' = [sender EXCEPT ![w] = r] /\ sender[w].at = "record" /\ records' = records + 1
          /\ UNCHANGED <<setup, paidOnce, log, offset, mails, broken>>
        BY <1>8, <2>1 DEF EmitEmailed, Moves
    <2>4. /\ InvoiceTyped' /\ SagaOK' /\ Logged'
          /\ SagaBusy' = SagaBusy /\ EventsPast' = EventsPast /\ SagaPast' <= SagaPast
          /\ Count("send")' = Count("send") /\ Count("record")' = Count("record") - 1
        <3>1. mails' \in Nat /\ records' \in Nat
            BY <1>0, <2>3
        <3>2. /\ InvoiceTyped' /\ SagaOK' /\ Logged'
              /\ SagaBusy' = SagaBusy /\ EventsPast' = EventsPast
              /\ SagaPast' <= SagaPast + (IF sender[w].at = "send" THEN 1 ELSE 0)
              /\ Count("send")' = Count("send") - (IF sender[w].at = "send" THEN 1 ELSE 0)
              /\ Count("record")' = Count("record") + (IF r.at = "record" THEN 1 ELSE 0)
                                                    - (IF sender[w].at = "record" THEN 1 ELSE 0)
            BY <1>0, <1>6, <2>2, <2>3, <3>1
        <3>3. QED
            BY <1>a, <2>2, <2>3, <3>2
    <2>5. SagaPast' \in {0, 1}
        BY DEF SagaPast, SagaAsked
    <2>6. Mailed'
        <3>1. mails' + Count("send")' <= EventsPast' + broken'.off + broken'.calls + SagaBusy'
            BY <1>0, <1>a, <2>3, <2>4 DEF Mailed
        <3>2. IF setup'.enabled THEN records' + Count("record")' <= mails' ELSE mails' = 0
            BY <1>0, <1>a, <2>3, <2>4 DEF Mailed
        <3>3. setup'.enabled /\ setup'.address /\ broken'.failed = 0 => EventsPast' + SagaPast' <= mails'
            <4> SUFFICES ASSUME setup'.enabled, setup'.address, broken'.failed = 0
                         PROVE  EventsPast' + SagaPast' <= mails'
                OBVIOUS
            <4>1. setup.enabled /\ setup.address /\ broken.failed = 0
                BY <2>3
            <4>2. EventsPast + SagaPast <= mails
                BY <1>0, <4>1 DEF Mailed
            <4>3. mails \in Nat /\ mails <= mails' /\ mails' \in Nat
                BY <1>0, <2>3
            <4>4. EventsPast' = EventsPast /\ SagaPast' <= SagaPast + (mails' - mails)
                BY <1>a, <2>3, <2>4, <4>3
            <4>5. PICK e, p, q, m, n :
                     e = EventsPast /\ p = SagaPast /\ q = SagaPast' /\ m = mails /\ n = mails'
                OBVIOUS
            <4>6. e \in Nat /\ p \in Nat /\ q \in Nat /\ m \in Nat /\ n \in Nat
                BY <1>a, <2>5, <4>3, <4>5
            <4>7. e + p <= m /\ q <= p + (n - m)
                BY <4>2, <4>4, <4>5
            <4>8. e + q <= n
                BY <4>6, <4>7
            <4>9. QED
                BY <4>4, <4>5, <4>8
        <3>4. QED
            BY <3>1, <3>2, <3>3 DEF Mailed
    <2>7. QED
        BY <2>4, <2>6 DEF InvoiceInv
<1>9. ASSUME NEW w \in Senders, EmailThrows(w) PROVE InvoiceInv'
    <2>1. PICK r : r = [sender[w] EXCEPT !.at = "done"]
        OBVIOUS
    <2>2. r \in Mailing /\ r.at = "done" /\ r.topic = sender[w].topic
        BY <1>0, <2>1 DEF Mailing
    <2>3. /\ sender' = [sender EXCEPT ![w] = r] /\ sender[w].at \in {"send", "record"}
          /\ UNCHANGED <<setup, paidOnce, log, offset, records>>
        BY <1>9, <2>1 DEF EmailThrows, Moves
    <2>4. /\ broken' \in [off : Nat, failed : Nat, calls : Nat]
          /\ broken'.off = broken.off /\ broken'.calls = broken.calls
          /\ setup.address => broken'.failed # 0
        <3>1. CASE ~setup.address /\ UNCHANGED broken
            BY <1>0, <3>1
        <3>2. CASE Breaks("failed")
            BY <1>0, <3>2, BreaksAdds
        <3>3. QED
            BY <1>9, <3>1, <3>2 DEF EmailThrows
    <2>5. mails' = mails \/ (sender[w].at = "send" /\ setup.enabled /\ mails' = mails + 1)
        BY <1>9 DEF EmailThrows
    <2>6. /\ InvoiceTyped' /\ SagaOK' /\ Logged'
          /\ SagaBusy' = SagaBusy /\ EventsPast' = EventsPast
          /\ Count("send")' = Count("send") - (IF sender[w].at = "send" THEN 1 ELSE 0)
          /\ Count("record")' = Count("record") - (IF sender[w].at = "record" THEN 1 ELSE 0)
        <3>1. mails' \in Nat /\ records' \in Nat
            BY <1>0, <2>3, <2>5
        <3>2. /\ InvoiceTyped' /\ SagaOK' /\ Logged'
              /\ SagaBusy' = SagaBusy /\ EventsPast' = EventsPast
              /\ SagaPast' <= SagaPast + (IF sender[w].at = "send" THEN 1 ELSE 0)
              /\ Count("send")' = Count("send") - (IF sender[w].at = "send" THEN 1 ELSE 0)
              /\ Count("record")' = Count("record") + (IF r.at = "record" THEN 1 ELSE 0)
                                                    - (IF sender[w].at = "record" THEN 1 ELSE 0)
            BY <1>0, <1>6, <2>2, <2>3, <2>4, <3>1
        <3>3. QED
            BY <1>a, <2>2, <2>3, <3>2
    <2>7. Mailed'
        <3>1. mails' + Count("send")' <= EventsPast' + broken'.off + broken'.calls + SagaBusy'
            BY <1>0, <1>a, <2>4, <2>5, <2>6 DEF Mailed
        <3>2. IF setup'.enabled THEN records' + Count("record")' <= mails' ELSE mails' = 0
            BY <1>0, <1>a, <2>3, <2>5, <2>6 DEF Mailed
        <3>3. ~(setup'.enabled /\ setup'.address /\ broken'.failed = 0)
            BY <2>3, <2>4
        <3>4. QED
            BY <3>1, <3>2, <3>3 DEF Mailed
    <2>8. QED
        BY <2>6, <2>7 DEF InvoiceInv
<1>10. ASSUME NEW w \in Senders, FinishSending(w) PROVE InvoiceInv'
    <2>1. AtRest \in Mailing /\ AtRest.at = "rest" /\ AtRest.topic = "none"
        BY DEF AtRest, Mailing
    <2>2. /\ sender' = [sender EXCEPT ![w] = AtRest] /\ sender[w].at = "done"
          /\ offset' = IF w = "saga" THEN [offset EXCEPT ![sender[w].topic] = @ + 1] ELSE offset
          /\ UNCHANGED <<setup, paidOnce, log, mails, records, broken>>
        BY <1>10 DEF FinishSending
    <2>3. Count("send")' = Count("send") /\ Count("record")' = Count("record")
        <3>1. PICK r : r = AtRest
            OBVIOUS
        <3>2. /\ Count("send")' = Count("send") + (IF r.at = "send" THEN 1 ELSE 0)
                                 - (IF sender[w].at = "send" THEN 1 ELSE 0)
              /\ Count("record")' = Count("record") + (IF r.at = "record" THEN 1 ELSE 0)
                                   - (IF sender[w].at = "record" THEN 1 ELSE 0)
            BY <1>0, <2>2, <3>1, CountsMove
        <3>3. QED
            BY <1>a, <2>1, <2>2, <3>1, <3>2
    <2>4. CASE w # "saga"
        <3>1. SagaOK' /\ Logged' /\ SagaBusy' = SagaBusy /\ SagaPast' = SagaPast /\ EventsPast' = EventsPast
            BY <1>0, <2>1, <2>2, <2>4, ClerkMoves
        <3>2. InvoiceTyped'
            BY <1>0, <2>1, <2>2, <2>4, SagaMoves DEF InvoiceTyped
        <3>3. Mailed'
            BY <1>0, <2>2, <2>3, <3>1 DEF Mailed
        <3>4. QED
            BY <3>1, <3>2, <3>3 DEF InvoiceInv
    <2>5. CASE w = "saga"
        <3>1. PICK t \in InvoiceTopics : t = sender["saga"].topic /\ offset[t] < log[t]
            BY <1>0, <2>2, <2>5 DEF SagaOK
        <3>2. offset' = [offset EXCEPT ![t] = @ + 1]
            BY <2>2, <2>5, <3>1
        <3>3. \A u \in InvoiceTopics : offset'[u] = IF u = t THEN offset[u] + 1 ELSE offset[u]
            BY <1>0, <3>2 DEF InvoiceTyped
        <3>4. sender' \in [Senders -> Mailing] /\ sender'["saga"] = AtRest
            BY <1>0, <2>1, <2>2, <2>5, SagaMoves
        <3>5. InvoiceTyped'
            <4>1. offset' \in [InvoiceTopics -> Nat]
                BY <1>0, <3>2 DEF InvoiceTyped
            <4>2. QED
                BY <1>0, <2>2, <3>4, <4>1 DEF InvoiceTyped
        <3>6. SagaOK'
            BY <2>1, <3>4 DEF SagaOK
        <3>7. Logged'
            <4>1. CASE t = "payment.succeeded"
                <5>1. Bridged' = Bridged
                    BY <1>0, <1>b, <2>1, <2>2, <2>5, <3>1, <3>3, <3>4, <4>1 DEF Bridged
                <5>2. QED
                    BY <1>0, <2>2, <3>1, <3>3, <5>1 DEF Logged
            <4>2. CASE t # "payment.succeeded"
                <5>1. Bridged' = Bridged
                    BY <1>0, <1>b, <2>1, <2>2, <2>5, <3>1, <3>3, <3>4, <4>2 DEF Bridged
                <5>2. QED
                    BY <1>0, <2>2, <3>1, <3>3, <5>1 DEF Logged
            <4>3. QED
                BY <4>1, <4>2
        <3>8. EventsPast' + SagaBusy' = EventsPast + SagaBusy /\ EventsPast' + SagaPast' = EventsPast + SagaPast
            <4>1. SagaBusy' = 0 /\ SagaPast' = 0
                BY <2>1, <3>4 DEF SagaBusy, SagaPast, SagaAsked
            <4>2. CASE t \in Asking
                <5>1. SagaBusy = 1 /\ SagaPast = 1
                    BY <2>2, <2>5, <3>1, <4>2 DEF SagaBusy, SagaPast, SagaAsked
                <5>2. EventsPast' = EventsPast + 1
                    BY <1>0, <1>b, <3>3, <4>2 DEF EventsPast
                <5>3. QED
                    BY <1>a, <4>1, <5>1, <5>2
            <4>3. CASE t \notin Asking
                <5>1. SagaBusy = 0 /\ SagaPast = 0
                    BY <3>1, <4>3 DEF SagaBusy, SagaPast, SagaAsked
                <5>2. EventsPast' = EventsPast
                    BY <1>0, <1>b, <3>3, <4>3 DEF EventsPast
                <5>3. QED
                    BY <1>a, <4>1, <5>1, <5>2
            <4>4. QED
                BY <4>2, <4>3
        <3>9. Mailed'
            <4>1. SagaBusy' = 0 /\ SagaPast' = 0 /\ EventsPast' \in Nat
                <5>1. SagaBusy' = 0 /\ SagaPast' = 0
                    BY <2>1, <3>4 DEF SagaBusy, SagaPast, SagaAsked
                <5>2. QED
                    BY <1>b, <3>5, <5>1 DEF EventsPast, InvoiceTyped
            <4>2. mails + Count("send") <= EventsPast + broken.off + broken.calls + SagaBusy
                BY <1>0 DEF Mailed
            <4>3. mails' + Count("send")' <= EventsPast' + broken'.off + broken'.calls + SagaBusy'
                <5>1. PICK e, f, g, c, x : /\ e = EventsPast /\ f = EventsPast' /\ g = SagaBusy
                                           /\ c = Count("send") /\ x = mails
                    OBVIOUS
                <5>2. /\ e \in Nat /\ f \in Nat /\ g \in Nat /\ c \in Nat /\ x \in Nat
                      /\ broken.off \in Nat /\ broken.calls \in Nat
                    BY <1>0, <1>a, <4>1, <5>1
                <5>3. f + 0 = e + g
                    BY <3>8, <4>1, <5>1
                <5>4. x + c <= e + broken.off + broken.calls + g
                    BY <4>2, <5>1
                <5>5. x + c <= f + broken.off + broken.calls + 0
                    BY <5>2, <5>3, <5>4
                <5>6. broken' = broken /\ mails' = x /\ Count("send")' = c /\ SagaBusy' = 0
                    BY <2>2, <2>3, <4>1, <5>1
                <5>7. QED
                    BY <5>1, <5>5, <5>6
            <4>4. IF setup.enabled THEN records + Count("record") <= mails ELSE mails = 0
                BY <1>0 DEF Mailed
            <4>5. setup.enabled /\ setup.address /\ broken.failed = 0 => EventsPast' + SagaPast' <= mails
                BY <1>0, <3>8 DEF Mailed
            <4>6. QED
                BY <2>2, <2>3, <4>3, <4>4, <4>5 DEF Mailed
        <3>10. QED
            BY <3>5, <3>6, <3>7, <3>9 DEF InvoiceInv
    <2>6. QED
        BY <2>4, <2>5
<1>11. CASE BreaksOff
    <2>1. AtRest \in Mailing /\ AtRest.at = "rest" /\ AtRest.topic = "none"
        BY DEF AtRest, Mailing
    <2>2. /\ sender' = [sender EXCEPT !["saga"] = AtRest] /\ Breaks("off")
          /\ UNCHANGED <<setup, paidOnce, log, offset, mails, records>>
        BY <1>11 DEF BreaksOff
    <2>3. /\ broken' \in [off : Nat, failed : Nat, calls : Nat]
          /\ broken'.off = broken.off + 1 /\ broken'.calls = broken.calls /\ broken'.failed = broken.failed
        BY <1>0, <2>2, BreaksAdds
    <2>4. Count("send")' <= Count("send") /\ Count("record")' <= Count("record")
        <3>1. PICK r : r = AtRest
            OBVIOUS
        <3>2. /\ Count("send")' = Count("send") + (IF r.at = "send" THEN 1 ELSE 0)
                                 - (IF sender["saga"].at = "send" THEN 1 ELSE 0)
              /\ Count("record")' = Count("record") + (IF r.at = "record" THEN 1 ELSE 0)
                                   - (IF sender["saga"].at = "record" THEN 1 ELSE 0)
            BY <1>0, <2>2, <3>1, CountsMove
        <3>3. QED
            BY <1>a, <2>1, <3>1, <3>2
    <2>5. sender' \in [Senders -> Mailing] /\ sender'["saga"] = AtRest
        BY <1>0, <2>1, <2>2, SagaMoves
    <2>6. InvoiceTyped'
        BY <1>0, <2>2, <2>3, <2>5 DEF InvoiceTyped
    <2>7. SagaOK'
        BY <2>1, <2>5 DEF SagaOK
    <2>8. Logged'
        <3>1. Bridged' <= Bridged /\ Bridged <= Bridged' + 1 /\ Bridged' \in Nat
            BY <1>0, <1>b, <2>1, <2>2, <2>5 DEF Bridged
        <3>2. log["booking.paid"] \in Nat
            BY <1>0, <1>b
        <3>3. Bridged' <= log'["booking.paid"] /\ log'["booking.paid"] <= Bridged' + broken'.off
            <4>1. Bridged <= log["booking.paid"] /\ log["booking.paid"] <= Bridged + broken.off
                BY <1>0 DEF Logged
            <4>2. log'["booking.paid"] = log["booking.paid"]
                BY <2>2
            <4>3. PICK b \in Nat, c \in Nat, l \in Nat, o \in Nat :
                      b = Bridged /\ c = Bridged' /\ l = log["booking.paid"] /\ o = broken.off
                BY <1>0, <1>a, <3>1, <3>2
            <4>4. c <= b /\ b <= c + 1 /\ b <= l /\ l <= b + o
                BY <3>1, <4>1, <4>3
            <4>5. c <= l /\ l <= c + (o + 1)
                BY <4>4
            <4>6. QED
                BY <2>3, <4>2, <4>3, <4>5
        <3>4. QED
            BY <1>0, <2>2, <3>3 DEF Logged
    <2>9. Mailed'
        <3>1. SagaBusy' = 0 /\ SagaPast' = 0 /\ EventsPast' = EventsPast
            BY <2>1, <2>2, <2>5 DEF SagaBusy, SagaPast, SagaAsked, EventsPast
        <3>2. Count("send")' \in Int /\ Count("record")' \in Int
            <4>1. Count("send")' = Count("send") + (IF AtRest.at = "send" THEN 1 ELSE 0)
                                   - (IF sender["saga"].at = "send" THEN 1 ELSE 0)
                BY <1>0, <2>2, CountMoves
            <4>2. Count("record")' = Count("record") + (IF AtRest.at = "record" THEN 1 ELSE 0)
                                   - (IF sender["saga"].at = "record" THEN 1 ELSE 0)
                BY <1>0, <2>2, CountMoves
            <4>3. QED
                BY <1>a, <2>1, <4>1, <4>2
        <3>3. QED
            BY <1>0, <1>a, <2>2, <2>3, <2>4, <3>1, <3>2 DEF Mailed
    <2>10. QED
        BY <2>6, <2>7, <2>8, <2>9 DEF InvoiceInv
<1>12. CASE UNCHANGED invoiceVars
    <2>1. UNCHANGED <<setup, paidOnce, log, offset, sender, mails, records, broken>>
        BY <1>12 DEF invoiceVars
    <2>2. /\ Count("send")' = Count("send") /\ Count("record")' = Count("record")
          /\ SagaBusy' = SagaBusy /\ SagaPast' = SagaPast /\ EventsPast' = EventsPast /\ Bridged' = Bridged
        BY <2>1 DEF Count, Standing, SagaBusy, SagaPast, SagaAsked, EventsPast, Bridged
    <2>3. QED
        BY <1>0, <2>1, <2>2 DEF InvoiceInv, InvoiceTyped, SagaOK, Logged, Mailed
<1>13. QED
    BY <1>1, <1>2, <1>3, <1>4, <1>5, <1>7, <1>8, <1>9, <1>10, <1>11, <1>12 DEF InvoiceNext

LEMMA InvoiceInvSafe ==
    InvoiceInv => InvoiceTypeOK /\ MailsExplained /\ RecordedWasSent /\ InvoiceArrives
<1> SUFFICES ASSUME InvoiceInv
             PROVE  InvoiceTypeOK /\ MailsExplained /\ RecordedWasSent /\ InvoiceArrives
    OBVIOUS
<1>0. /\ InvoiceTyped /\ SagaOK /\ Logged /\ Mailed
      /\ \A t \in InvoiceTopics : log[t] \in Nat /\ offset[t] \in Nat
      /\ broken.off \in Nat /\ broken.failed \in Nat /\ broken.calls \in Nat
      /\ mails \in Nat /\ records \in Nat
      /\ Count("send") \in Nat /\ Count("record") \in Nat
    BY CountTyped DEF InvoiceInv, InvoiceTyped
<1>1. /\ {"booking.review_approved", "booking.paid"} \subseteq InvoiceTopics
      /\ Asking = {"booking.review_approved", "booking.paid"}
      /\ "payment.succeeded" \in InvoiceTopics
    BY DEF InvoiceTopics, Asking
<1>2. InvoiceTypeOK
    BY <1>0 DEF InvoiceTyped, InvoiceTypeOK, Mailing
<1>3. MailsExplained
    <2>1. EventsPast + SagaBusy <= Asked
        <3>1. CASE sender["saga"].at \in {"send", "record", "done"} /\ sender["saga"].topic \in Asking
            <4>1. sender["saga"].at # "rest"
                BY <3>1
            <4>2. offset[sender["saga"].topic] < log[sender["saga"].topic]
                BY <1>0, <4>1 DEF SagaOK
            <4>3. QED
                BY <1>0, <1>1, <3>1, <4>2 DEF EventsPast, SagaBusy, SagaAsked, Asked, Logged
        <3>2. CASE ~(sender["saga"].at \in {"send", "record", "done"} /\ sender["saga"].topic \in Asking)
            BY <1>0, <1>1, <3>2 DEF EventsPast, SagaBusy, SagaAsked, Asked, Logged
        <3>3. QED
            BY <3>1, <3>2
    <2>2. EventsPast \in Nat /\ SagaBusy \in Nat /\ Asked \in Nat
        BY <1>0, <1>1 DEF EventsPast, SagaBusy, SagaAsked, Asked
    <2>3. QED
        BY <1>0, <2>1, <2>2 DEF Mailed, MailsExplained
<1>4. RecordedWasSent
    BY <1>0 DEF Mailed, RecordedWasSent
<1>5. InvoiceArrives
    <2> SUFFICES ASSUME InvoicesSettled, setup.enabled, setup.address
                 PROVE  /\ broken.failed = 0 => mails >= Asked
                        /\ Trouble = 0 /\ paidOnce = {"approved", "paid"} =>
                              mails = IF setup.autoConfirm THEN 2 ELSE 3
        BY DEF InvoiceArrives
    <2>1. EventsPast = Asked /\ SagaBusy = 0 /\ SagaPast = 0 /\ Asked \in Nat
        BY <1>0, <1>1, SendersFinite
           DEF InvoicesSettled, EventsPast, Asked, SagaBusy, SagaPast, SagaAsked, AtRest
    <2>2. broken.failed = 0 => mails >= Asked
        BY <1>0, <2>1 DEF Mailed
    <2>3. ASSUME Trouble = 0, paidOnce = {"approved", "paid"}
          PROVE  mails = IF setup.autoConfirm THEN 2 ELSE 3
        <3>1. broken.off = 0 /\ broken.calls = 0 /\ broken.failed = 0
            BY <1>0, <2>3 DEF Trouble
        <3>2. mails = Asked
            BY <1>0, <2>1, <2>2, <3>1 DEF Mailed
        <3>3. /\ log["booking.review_approved"] = 1 /\ log["payment.succeeded"] = 1
              /\ log["booking.paid"] = Bridged
            <4>1. Bridged \in Nat
                BY <1>0, <1>1 DEF Bridged
            <4>2. QED
                BY <1>0, <1>1, <2>3, <3>1, <4>1 DEF Logged
        <3>4. Bridged = IF setup.autoConfirm THEN 1 ELSE 2
            <4>1. offset["payment.succeeded"] = 1 /\ sender["saga"].at = "rest"
                BY <3>3, SendersFinite DEF InvoicesSettled, AtRest
            <4>2. QED
                BY <2>3, <4>1 DEF Bridged
        <3>5. QED
            BY <3>2, <3>3, <3>4 DEF Asked
    <2>4. QED
        BY <2>2, <2>3
<1>6. QED
    BY <1>2, <1>3, <1>4, <1>5

(* For any number of clerks and of deliveries that break off: every mail   *)
(* is explained, none is recorded that did not leave, and where nothing    *)
(* failed the guest has them all.                                          *)
THEOREM InvoicesHold == InvoiceSpec => [](MailsExplained /\ RecordedWasSent /\ InvoiceArrives)
BY InvoiceInitInv, InvoiceStepInv, InvoiceInvSafe, PTL DEF InvoiceSpec

-----------------------------------------------------------------------------
(* ExpireJob.  The transaction that ends a hold moves its status and       *)
(* returns its nights in one step, whoever else runs.                      *)

HoldsTyped ==
    /\ hold \in [OpenHolds -> {"open", "due", "ended", "settled"}]
    /\ given \in [OpenHolds -> Nat]

NightsInv == HoldsTyped /\ NightsGivenOnce

LEMMA NightsInitInv == ExpireInit => NightsInv
BY DEF ExpireInit, NightsInv, HoldsTyped, NightsGivenOnce

LEMMA NightsStepInv == NightsInv /\ [ExpireNext]_expireVars => NightsInv'
<1> SUFFICES ASSUME NightsInv, [ExpireNext]_expireVars PROVE NightsInv'
    OBVIOUS
<1> USE DEF NightsInv, HoldsTyped, NightsGivenOnce
<1>1. ASSUME NEW b \in OpenHolds, DeadlinePasses(b) PROVE NightsInv'
    BY <1>1 DEF DeadlinePasses
<1>2. ASSUME NEW b \in OpenHolds, PayHold(b) PROVE NightsInv'
    BY <1>2 DEF PayHold
<1>3. ASSUME NEW i \in Instances, NEW b \in OpenHolds, EndHold(i, b) PROVE NightsInv'
    <2>1. CASE Endable(b)
        BY <1>3, <2>1 DEF EndHold, Endable
    <2>2. CASE ~Endable(b)
        BY <1>3, <2>2 DEF EndHold
    <2>3. QED
        BY <2>1, <2>2
<1>4. ASSUME UNCHANGED <<hold, given>> PROVE NightsInv'
    BY <1>4
<1>5. ASSUME NEW i \in Instances,
             StartJob(i) \/ ListHolds(i) \/ JobThrows(i) \/ FinishJob(i) \/ JobDies(i)
      PROVE  NightsInv'
    BY <1>4, <1>5 DEF StartJob, ListHolds, JobThrows, FinishJob, JobDies
<1>6. CASE LockExpires
    BY <1>4, <1>6 DEF LockExpires
<1>7. CASE UNCHANGED expireVars
    BY <1>4, <1>7 DEF expireVars
<1>8. QED
    BY <1>1, <1>2, <1>3, <1>5, <1>6, <1>7 DEF ExpireNext

(* Any number of instances and of overlapping runs: the nights of a hold   *)
(* come back once if it was ended, and never if it was not.                *)
THEOREM NightsOnce == ExpireSpec => []NightsGivenOnce
<1>1. NightsInv => NightsGivenOnce
    BY DEF NightsInv
<1>2. QED
    BY <1>1, NightsInitInv, NightsStepInv, PTL DEF ExpireSpec

-----------------------------------------------------------------------------
(* ConsumerStartup.                                                        *)

OffsetsTyped ==
    /\ published \in [Subscribed -> Nat]
    /\ committed \in [Subscribed -> Int]
    /\ joined \in [Subscribed -> Int]
    /\ handledTo \in [Subscribed -> SUBSET Int]
    /\ there \subseteq Subscribed
    /\ consumer \in [at : {"down", "init", "joining", "idle", "running"} \cup Subscribed,
                     left : Int, topics : SUBSET Subscribed, position : [Subscribed -> Int]]

(* A position is held only while messages are read; where there is an      *)
(* offset there was a join; the message in hand has been handled before    *)
(* its offset is committed.                                                *)
ReadsInTurn ==
    /\ IF consumer.at \in {"down", "init", "joining", "idle"}
       THEN consumer.position = NoPosition
       ELSE \A t \in consumer.topics : consumer.position[t] >= 0
    /\ \A t \in Subscribed :
          /\ committed[t] >= 0 => joined[t] >= 0
          /\ joined[t] >= -1
          /\ consumer.at = t =>
                consumer.position[t] >= 0 /\ consumer.position[t] \in handledTo[t]

StartupInv == OffsetsTyped /\ ReadsInTurn /\ SkippedBeforeJoinOnly /\ StrictReadsAll

LEMMA StartupInitInv == StartupInit => StartupInv
BY StartupAssumption DEF StartupInit, StartupInv, OffsetsTyped, ReadsInTurn, SkippedBeforeJoinOnly,
                         StrictReadsAll, Down, NoPosition

LEMMA StartupStepInv == StartupInv /\ [StartupNext]_startupVars => StartupInv'
<1> SUFFICES ASSUME StartupInv, [StartupNext]_startupVars PROVE StartupInv'
    OBVIOUS
<1> USE StartupAssumption DEF StartupInv, OffsetsTyped, Down, NoPosition
<1>1. CASE StartServer
    <2>1. OffsetsTyped'
        <3>1. there' \subseteq Subscribed
            BY <1>1 DEF StartServer
        <3>2. consumer' = [at |-> "init", left |-> 3, topics |-> {}, position |-> NoPosition]
            BY <1>1 DEF StartServer
        <3>3. QED
            BY <1>1, <3>1, <3>2 DEF StartServer
    <2>2. consumer'.at = "init" /\ consumer'.position = NoPosition
        BY <1>1 DEF StartServer
    <2>3. ReadsInTurn' /\ SkippedBeforeJoinOnly' /\ StrictReadsAll'
        BY <1>1, <2>2 DEF StartServer, ReadsInTurn, SkippedBeforeJoinOnly, StrictReadsAll
    <2>4. QED
        BY <2>1, <2>3
<1>2. CASE AttemptFails
    <2>1. CASE consumer.left = 1
        BY <1>2, <2>1 DEF AttemptFails, ReadsInTurn, SkippedBeforeJoinOnly, StrictReadsAll
    <2>2. CASE consumer.left # 1
        BY <1>2, <2>2 DEF AttemptFails, ReadsInTurn, SkippedBeforeJoinOnly, StrictReadsAll
    <2>3. QED
        BY <2>1, <2>2
<1>3. CASE Verified
    <2>1. OffsetsTyped'
        BY <1>3 DEF Verified
    <2>2. consumer'.at \in {"idle", "joining"} /\ consumer'.position = NoPosition
        BY <1>3 DEF Verified, ReadsInTurn
    <2>3. ReadsInTurn' /\ SkippedBeforeJoinOnly'
        BY <1>3, <2>2 DEF Verified, ReadsInTurn, SkippedBeforeJoinOnly
    <2>4. StrictReadsAll'
        BY <1>3, <2>2 DEF Verified, StrictReadsAll
    <2>5. QED
        BY <2>1, <2>3, <2>4
<1>4. CASE Join
    <2>1. \A t \in Subscribed : StartAt(t) \in Nat
        BY <1>4 DEF StartAt
    <2>2. OffsetsTyped'
        <3>1. consumer'.position \in [Subscribed -> Int] /\ consumer'.at = "running"
            BY <1>4, <2>1 DEF Join
        <3>2. consumer' = [at |-> consumer'.at, left |-> consumer.left,
                           topics |-> consumer.topics, position |-> consumer'.position]
            BY <1>4 DEF Join
        <3>3. joined' \in [Subscribed -> Int]
            BY <1>4 DEF Join
        <3>4. QED
            BY <1>4, <3>1, <3>2, <3>3 DEF Join
    <2>3. ReadsInTurn'
        BY <1>4, <2>1 DEF Join, ReadsInTurn
    <2>4. SkippedBeforeJoinOnly'
        BY <1>4, <2>1 DEF Join, ReadsInTurn, SkippedBeforeJoinOnly, StartAt
    <2>5. StrictReadsAll'
        BY <1>4, <2>1 DEF Join, StrictReadsAll
    <2>6. QED
        BY <2>2, <2>3, <2>4, <2>5
<1>5. CASE StopServer
    BY <1>5 DEF StopServer, ReadsInTurn, SkippedBeforeJoinOnly, StrictReadsAll
<1>6. ASSUME NEW t \in Subscribed, Process(t) PROVE StartupInv'
    <2>1. OffsetsTyped'
        BY <1>6 DEF Process
    <2>2. ReadsInTurn'
        BY <1>6 DEF Process, ReadsInTurn
    <2>3. SkippedBeforeJoinOnly'
        BY <1>6 DEF Process, SkippedBeforeJoinOnly
    <2>4. StrictReadsAll'
        BY <1>6 DEF Process, StrictReadsAll
    <2>5. QED
        BY <2>1, <2>2, <2>3, <2>4
<1>7. ASSUME NEW t \in Subscribed, CommitFirst(t) PROVE StartupInv'
    <2>1. OffsetsTyped'
        <3>1. consumer'.position = [consumer.position EXCEPT ![t] = @ + 1]
              /\ consumer'.at = "running"
            BY <1>7 DEF CommitFirst
        <3>2. consumer' = [at |-> consumer'.at, left |-> consumer.left,
                           topics |-> consumer.topics, position |-> consumer'.position]
            BY <1>7 DEF CommitFirst
        <3>3. QED
            BY <1>7, <3>1, <3>2 DEF CommitFirst
    <2>2. ReadsInTurn'
        BY <1>7 DEF CommitFirst, ReadsInTurn, SkippedBeforeJoinOnly
    <2>3. SkippedBeforeJoinOnly'
        <3>1. /\ consumer.position[t] \in Int /\ consumer.position[t] >= 0
              /\ consumer.position[t] \in handledTo[t]
              /\ joined[t] \in Int /\ joined[t] >= 0
              /\ joined[t]..(consumer.position[t] - 1) \subseteq handledTo[t]
            BY <1>7 DEF CommitFirst, ReadsInTurn, SkippedBeforeJoinOnly
        <3>2. joined[t]..consumer.position[t] \subseteq handledTo[t]
            BY <3>1
        <3>3. committed'[t] = consumer.position[t] + 1 /\ consumer'.position[t] = consumer.position[t] + 1
            BY <1>7 DEF CommitFirst
        <3>4. \A u \in Subscribed \ {t} :
                 committed'[u] = committed[u] /\ consumer'.position[u] = consumer.position[u]
            BY <1>7 DEF CommitFirst
        <3>5. UNCHANGED <<joined, handledTo>>
            BY <1>7 DEF CommitFirst
        <3>6. ASSUME NEW u \in Subscribed, u # t
              PROVE  /\ joined'[u]..(committed'[u] - 1) \subseteq handledTo'[u]
                     /\ consumer'.position[u] >= 0 =>
                           joined'[u] >= 0 /\ joined'[u]..(consumer'.position[u] - 1) \subseteq handledTo'[u]
            BY <3>4, <3>5, <3>6 DEF SkippedBeforeJoinOnly
        <3>7. QED
            BY <3>1, <3>2, <3>3, <3>5, <3>6 DEF SkippedBeforeJoinOnly
    <2>4. StrictReadsAll'
        BY <1>7 DEF CommitFirst, ReadsInTurn, StrictReadsAll
    <2>5. QED
        BY <2>1, <2>2, <2>3, <2>4
<1>8. ASSUME NEW t \in Subscribed, PublishTo(t) PROVE StartupInv'
    BY <1>8 DEF PublishTo, ReadsInTurn, SkippedBeforeJoinOnly, StrictReadsAll
<1>9. CASE UNCHANGED startupVars
    BY <1>9 DEF startupVars, ReadsInTurn, SkippedBeforeJoinOnly, StrictReadsAll
<1>10. QED
    BY <1>1, <1>2, <1>3, <1>4, <1>5, <1>6, <1>7, <1>8, <1>9 DEF StartupNext

(* Nobody is ahead of the log: an offset, a position and the place of a    *)
(* join lie in it, and the message in hand is there.                       *)
OffsetsBounded ==
    /\ \A t \in Subscribed :
          /\ published[t] <= MaxPublished
          /\ -1 <= committed[t] /\ committed[t] <= published[t]
          /\ joined[t] <= published[t]
          /\ -1 <= consumer.position[t] /\ consumer.position[t] <= published[t]
          /\ consumer.at = t => consumer.position[t] < published[t]
    /\ consumer.left \in 0..3
    /\ consumer.at = "init" => consumer.left >= 1
    /\ consumer.topics \subseteq there

LEMMA BoundsInit == StartupInit => OffsetsBounded
BY StartupAssumption DEF StartupInit, OffsetsBounded, Down, NoPosition

LEMMA BoundsStep == StartupInv /\ OffsetsBounded /\ [StartupNext]_startupVars => OffsetsBounded'
<1> SUFFICES ASSUME StartupInv, OffsetsBounded, [StartupNext]_startupVars PROVE OffsetsBounded'
    OBVIOUS
<1>0. OffsetsTyped /\ ReadsInTurn
    BY DEF StartupInv
<1>1. "down" \notin Subscribed /\ "init" \notin Subscribed /\ "joining" \notin Subscribed
      /\ "idle" \notin Subscribed /\ "running" \notin Subscribed /\ MaxPublished \in Nat
    <2>1. Subscribed \cap {"down", "init", "joining", "idle", "running"} = {} /\ MaxPublished \in Nat
        BY StartupAssumption, Zenon
    <2>2. \A x \in {"down", "init", "joining", "idle", "running"} : x \notin Subscribed
        BY <2>1, Zenon
    <2>3. QED
        BY <2>1, <2>2
<1>2. CASE StartServer
    <2>1. consumer' = [at |-> "init", left |-> 3, topics |-> {}, position |-> NoPosition]
          /\ UNCHANGED <<published, committed, joined>>
        BY <1>2 DEF StartServer, Down
    <2>2. \A t \in Subscribed : consumer'.position[t] = -1
        BY <2>1 DEF NoPosition
    <2>3. QED
        BY <1>0, <1>1, <2>1, <2>2 DEF OffsetsBounded, OffsetsTyped
<1>3. CASE AttemptFails
    <2>1. CASE consumer.left = 1
        <3>1. consumer' = [at |-> "down", left |-> 0, topics |-> {}, position |-> NoPosition]
              /\ UNCHANGED <<published, committed, joined, there>>
            BY <1>3, <2>1 DEF AttemptFails, Down
        <3>2. \A t \in Subscribed : consumer'.position[t] = -1
            BY <3>1 DEF NoPosition
        <3>3. QED
            BY <1>0, <1>1, <3>1, <3>2 DEF OffsetsBounded, OffsetsTyped
    <2>2. CASE consumer.left # 1
        <3>1. consumer' = [consumer EXCEPT !.left = @ - 1] /\ consumer.at = "init"
              /\ UNCHANGED <<published, committed, joined, there>>
            BY <1>3, <2>2 DEF AttemptFails
        <3>2. /\ consumer'.left = consumer.left - 1 /\ consumer'.at = consumer.at
              /\ consumer'.topics = consumer.topics /\ consumer'.position = consumer.position
            BY <1>0, <3>1 DEF OffsetsTyped
        <3>3. QED
            BY <1>0, <1>1, <2>2, <3>1, <3>2 DEF OffsetsBounded, OffsetsTyped
    <2>3. QED
        BY <2>1, <2>2
<1>4. CASE Verified
    <2>1. /\ consumer'.left = consumer.left /\ consumer'.topics = there
          /\ consumer'.at \in {"idle", "joining"} /\ consumer'.position = consumer.position
          /\ UNCHANGED <<published, committed, joined, there>>
        BY <1>0, <1>4 DEF Verified, OffsetsTyped
    <2>2. QED
        BY <1>1, <2>1 DEF OffsetsBounded
<1>5. CASE Join
    <2>1. /\ consumer'.left = consumer.left /\ consumer'.topics = consumer.topics
          /\ consumer'.at = "running" /\ UNCHANGED <<published, committed, there>>
          /\ \A t \in Subscribed : consumer'.position[t] = IF t \in consumer.topics THEN StartAt(t) ELSE -1
          /\ \A t \in Subscribed : joined'[t] \in {joined[t], published[t]}
        BY <1>0, <1>5 DEF Join, OffsetsTyped
    <2>2. \A t \in Subscribed : StartAt(t) \in Nat /\ StartAt(t) <= published[t]
        BY <1>0 DEF StartAt, OffsetsBounded, OffsetsTyped
    <2>3. \A t \in Subscribed : -1 <= consumer'.position[t] /\ consumer'.position[t] <= published[t]
        BY <1>0, <2>1, <2>2 DEF OffsetsTyped
    <2>4. \A t \in Subscribed : joined'[t] <= published[t]
        BY <1>0, <2>1 DEF OffsetsBounded, OffsetsTyped
    <2>5. QED
        BY <1>1, <2>1, <2>3, <2>4 DEF OffsetsBounded
<1>6. CASE StopServer
    <2>1. consumer' = [at |-> "down", left |-> 0, topics |-> {}, position |-> NoPosition]
          /\ UNCHANGED <<published, committed, joined, there>>
        BY <1>6 DEF StopServer, Down
    <2>2. \A t \in Subscribed : consumer'.position[t] = -1
        BY <2>1 DEF NoPosition
    <2>3. QED
        BY <1>0, <1>1, <2>1, <2>2 DEF OffsetsBounded, OffsetsTyped
<1>7. ASSUME NEW t \in Subscribed, Process(t) PROVE OffsetsBounded'
    <2>1. /\ consumer'.left = consumer.left /\ consumer'.topics = consumer.topics
          /\ consumer'.at = t /\ consumer'.position = consumer.position
          /\ UNCHANGED <<published, committed, joined, there>> /\ consumer.position[t] < published[t]
        BY <1>0, <1>7 DEF Process, OffsetsTyped
    <2>2. QED
        BY <1>1, <2>1 DEF OffsetsBounded
<1>8. ASSUME NEW t \in Subscribed, CommitFirst(t) PROVE OffsetsBounded'
    <2>1. /\ consumer'.left = consumer.left /\ consumer'.topics = consumer.topics
          /\ consumer'.at = "running" /\ consumer'.position = [consumer.position EXCEPT ![t] = @ + 1]
          /\ UNCHANGED <<published, joined, there>> /\ consumer.at = t
          /\ committed' = [committed EXCEPT ![t] = consumer.position[t] + 1]
        BY <1>0, <1>8 DEF CommitFirst, OffsetsTyped
    <2>2. /\ \A u \in Subscribed : consumer'.position[u] =
                 IF u = t THEN consumer.position[t] + 1 ELSE consumer.position[u]
          /\ \A u \in Subscribed : committed'[u] = IF u = t THEN consumer.position[t] + 1 ELSE committed[u]
        BY <1>0, <2>1 DEF OffsetsTyped
    <2>3. consumer.position[t] + 1 <= published[t] /\ -1 <= consumer.position[t] + 1
        BY <1>0, <2>1 DEF OffsetsBounded, OffsetsTyped
    <2>4. QED
        BY <1>1, <2>1, <2>2, <2>3 DEF OffsetsBounded
<1>9. ASSUME NEW t \in Subscribed, PublishTo(t) PROVE OffsetsBounded'
    <2>1. /\ published[t] < MaxPublished /\ published' = [published EXCEPT ![t] = @ + 1]
          /\ UNCHANGED <<there, committed, consumer, joined>>
        BY <1>9 DEF PublishTo
    <2>2. \A u \in Subscribed : published[u] <= published'[u] /\ published'[u] <= MaxPublished
        BY <1>0, <1>1, <2>1 DEF OffsetsBounded, OffsetsTyped
    <2>3. \A u \in Subscribed : published[u] \in Int /\ published'[u] \in Int /\ committed[u] \in Int
                                 /\ joined[u] \in Int /\ consumer.position[u] \in Int
        BY <1>0, <2>1 DEF OffsetsTyped
    <2>4. QED
        BY <2>1, <2>2, <2>3 DEF OffsetsBounded
<1>10. CASE UNCHANGED startupVars
    BY <1>10 DEF startupVars, OffsetsBounded
<1>11. QED
    BY <1>2, <1>3, <1>4, <1>5, <1>6, <1>7, <1>8, <1>9, <1>10 DEF StartupNext

LEMMA StartupInvSafe ==
    StartupInv /\ OffsetsBounded => StartupTypeOK /\ SkippedBeforeJoinOnly /\ StrictReadsAll
<1> SUFFICES ASSUME StartupInv, OffsetsBounded PROVE StartupTypeOK /\ SkippedBeforeJoinOnly /\ StrictReadsAll
    OBVIOUS
<1>1. OffsetsTyped /\ ReadsInTurn /\ SkippedBeforeJoinOnly /\ StrictReadsAll /\ MaxPublished \in Nat
    BY StartupAssumption DEF StartupInv
<1>2. \A t \in Subscribed : /\ published[t] \in 0..MaxPublished /\ committed[t] \in -1..MaxPublished
                              /\ joined[t] \in -1..MaxPublished
                              /\ consumer.position[t] \in -1..MaxPublished
    BY <1>1 DEF OffsetsBounded, OffsetsTyped, ReadsInTurn
<1>3. consumer.position \in [Subscribed -> -1..MaxPublished]
    BY <1>1, <1>2 DEF OffsetsTyped
<1>4. consumer.at \in {"down", "init", "joining", "idle", "running"} \cup Subscribed
    BY <1>1 DEF OffsetsTyped
<1>5. QED
    BY <1>1, <1>2, <1>3, <1>4 DEF OffsetsTyped, OffsetsBounded, StartupTypeOK

(* For any topics and logs of any length: once a group has an offset, no   *)
(* event behind its first join is left out, whatever stops and starts.     *)
THEOREM NothingSkipped == StartupSpec => []SkippedBeforeJoinOnly
<1>1. StartupInv => SkippedBeforeJoinOnly
    BY DEF StartupInv
<1>2. QED
    BY <1>1, StartupInitInv, StartupStepInv, PTL DEF StartupSpec

(* For any topics, a strict consumer reads every one of them or none.      *)
THEOREM StrictReads == StartupSpec => []StrictReadsAll
<1>1. StartupInv => StrictReadsAll
    BY DEF StartupInv
<1>2. QED
    BY <1>1, StartupInitInv, StartupStepInv, PTL DEF StartupSpec

-----------------------------------------------------------------------------
(* MCBackground.  A step of it is a step of one part, and of the others it *)
(* changes nothing: a behaviour of it is one of every part, so that each   *)
(* of their invariants holds beside the others.                            *)

StartupSafe == StartupInv /\ OffsetsBounded

PartsInv ==
    /\ DispatchInv /\ FileInv /\ ThumbInv /\ IndexInv /\ FlagInv /\ WebInv /\ NightsInv
    /\ InvoiceInv /\ StartupSafe

backgroundVars == <<part, dispatchVars, fileVars, thumbVars, indexVars, flagVars, webVars,
                    expireVars, invoiceVars, startupVars>>

LEMMA PartsInit ==
    BackgroundInit =>
        /\ DispatchInit /\ FileInit /\ ThumbInit /\ IndexInit /\ FlagInit /\ WebInit
        /\ ExpireInit /\ InvoiceInit /\ StartupInit
BY DEF BackgroundInit

LEMMA PartsStep ==
    [BackgroundNext]_backgroundVars =>
        /\ [DispatchNext]_dispatchVars /\ [FileNext]_fileVars /\ [ThumbNext]_thumbVars
        /\ [IndexNext]_indexVars /\ [FlagNext]_flagVars /\ [WebNext]_webVars /\ [ExpireNext]_expireVars
        /\ [InvoiceNext]_invoiceVars /\ [StartupNext]_startupVars
<1> SUFFICES ASSUME [BackgroundNext]_backgroundVars
             PROVE  /\ [DispatchNext]_dispatchVars /\ [FileNext]_fileVars /\ [ThumbNext]_thumbVars
                    /\ [IndexNext]_indexVars /\ [FlagNext]_flagVars /\ [WebNext]_webVars /\ [ExpireNext]_expireVars
                    /\ [InvoiceNext]_invoiceVars /\ [StartupNext]_startupVars
    OBVIOUS
<1>1. CASE UNCHANGED backgroundVars
    BY <1>1 DEF backgroundVars
<1>2. ASSUME BackgroundNext, NEW p \in Parts, p # part PROVE Rests(p)
    BY <1>2 DEF BackgroundNext
<1>3. ASSUME BackgroundNext
      PROVE  /\ [DispatchNext]_dispatchVars /\ [FileNext]_fileVars /\ [ThumbNext]_thumbVars
             /\ [IndexNext]_indexVars /\ [FlagNext]_flagVars /\ [WebNext]_webVars /\ [ExpireNext]_expireVars
             /\ [InvoiceNext]_invoiceVars /\ [StartupNext]_startupVars
    <2>1. [DispatchNext]_dispatchVars
        <3>1. part # "dispatch" => Rests("dispatch")
            BY <1>2, <1>3 DEF Parts
        <3>2. QED
            BY <1>3, <3>1 DEF BackgroundNext, Rests
    <2>2. [FileNext]_fileVars
        <3>1. part # "file" => Rests("file")
            BY <1>2, <1>3 DEF Parts
        <3>2. QED
            BY <1>3, <3>1 DEF BackgroundNext, Rests
    <2>3. [IndexNext]_indexVars
        <3>1. part # "index" => Rests("index")
            BY <1>2, <1>3 DEF Parts
        <3>2. QED
            BY <1>3, <3>1 DEF BackgroundNext, Rests
    <2>4. [FlagNext]_flagVars
        <3>1. part # "flag" => Rests("flag")
            BY <1>2, <1>3 DEF Parts
        <3>2. QED
            BY <1>3, <3>1 DEF BackgroundNext, Rests
    <2>5. [WebNext]_webVars
        <3>1. part # "web" => Rests("web")
            BY <1>2, <1>3 DEF Parts
        <3>2. QED
            BY <1>3, <3>1 DEF BackgroundNext, Rests
    <2>6. [ExpireNext]_expireVars
        <3>1. part # "expire" => Rests("expire")
            BY <1>2, <1>3 DEF Parts
        <3>2. QED
            BY <1>3, <3>1 DEF BackgroundNext, Rests
    <2>7. [InvoiceNext]_invoiceVars
        <3>1. part # "invoice" => Rests("invoice")
            BY <1>2, <1>3 DEF Parts
        <3>2. QED
            BY <1>3, <3>1 DEF BackgroundNext, Rests
    <2>8. [StartupNext]_startupVars
        <3>1. part # "startup" => Rests("startup")
            BY <1>2, <1>3 DEF Parts
        <3>2. QED
            BY <1>3, <3>1 DEF BackgroundNext, Rests
    <2>9. [ThumbNext]_thumbVars
        <3>1. part # "thumbs" => Rests("thumbs")
            BY <1>2, <1>3 DEF Parts
        <3>2. QED
            BY <1>3, <3>1 DEF BackgroundNext, Rests
    <2>10. QED
        BY <2>1, <2>2, <2>3, <2>4, <2>5, <2>6, <2>7, <2>8, <2>9
<1>4. QED
    BY <1>1, <1>3

LEMMA PartsInitInv == BackgroundInit => PartsInv
BY PartsInit, DispatchInitInv, FileInitInv, ThumbInitInv, IndexInitInv, FlagInitInv, WebInitInv,
   NightsInitInv, InvoiceInitInv, StartupInitInv, BoundsInit DEF PartsInv, StartupSafe

LEMMA PartsStepInv == PartsInv /\ [BackgroundNext]_backgroundVars => PartsInv'
<1> SUFFICES ASSUME PartsInv, [BackgroundNext]_backgroundVars PROVE PartsInv'
    OBVIOUS
<1>1. StartupSafe'
    BY PartsStep, StartupStepInv, BoundsStep DEF PartsInv, StartupSafe
<1>2. QED
    BY <1>1, PartsStep, DispatchStepInv, FileStepInv, ThumbStepInv, IndexStepInv, FlagStepInv,
       WebStepInv, NightsStepInv, InvoiceStepInv DEF PartsInv

(* A behaviour of MCBackground is, for each part, one of that part: what   *)
(* is proved of a part's specification holds here as well.                 *)
THEOREM PartsImplemented ==
    BackgroundSpec =>
        /\ DispatchSpec /\ FileSpec /\ ThumbSpec /\ IndexSpec /\ FlagSpec /\ WebSpec
        /\ ExpireSpec /\ InvoiceSpec /\ StartupSpec
BY PartsInit, PartsStep, PTL DEF BackgroundSpec, backgroundVars, DispatchSpec, FileSpec, ThumbSpec,
   IndexSpec, FlagSpec, WebSpec, ExpireSpec, InvoiceSpec, StartupSpec

(* The background work is safe for any number of its workers, handlers,    *)
(* consumers, instances and clerks, and whatever breaks off.               *)
THEOREM WorkHolds == BackgroundSpec => []WorkSafe
<1>1. PartsInv => WorkSafe
    BY DispatchInvSafe, FileInvSafe, ThumbInvSafe, IndexInvSafe, InvoiceInvSafe, StartupInvSafe
       DEF PartsInv, StartupSafe, NightsInv, WorkSafe
<1>2. QED
    BY <1>1, PartsInitInv, PartsStepInv, PTL DEF BackgroundSpec, backgroundVars

(* What is kept beside the database: the cached flag is the row but for an *)
(* upsert that raced with it, and a browser that signed out stays so.      *)
THEOREM CopiesHold == BackgroundSpec => []CopiesSafe
<1>1. PartsInv => CopiesSafe
    BY FlagInvSafe, WebInvSafe DEF PartsInv, CopiesSafe
<1>2. QED
    BY <1>1, PartsInitInv, PartsStepInv, PTL DEF BackgroundSpec, backgroundVars

(* A rollout that is raised switches no one off, whatever else is at work. *)
THEOREM FlagsKeep == BackgroundSpec => RaisingKeepsUsers
BY PartsImplemented, RolloutsKeepUsers
=============================================================================
