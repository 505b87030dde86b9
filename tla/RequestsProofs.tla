---------------------------- MODULE RequestsProofs ----------------------------
(***************************************************************************)
(* Proofs about the parts that serve requests, or show their answers, each *)
(* for any number of its actors, and then about MCRequests, whose          *)
(* behaviours are those of the parts.                                      *)
(***************************************************************************)
EXTENDS MCRequests, BookingInventoryProofs, FiniteSetTheorems, WellFoundedInduction, TLAPS

-----------------------------------------------------------------------------
(* A set of actors that one actor enters or leaves.                        *)

LEMMA Enters ==
    ASSUME NEW S, IsFiniteSet(S), NEW a, NEW T, T = S \cup {a}
    PROVE  /\ a \in S => Cardinality(T) = Cardinality(S)
           /\ a \notin S => Cardinality(T) = Cardinality(S) + 1
BY FS_AddElement

LEMMA Leaves ==
    ASSUME NEW S, IsFiniteSet(S), NEW a, NEW T, T = S \ {a}
    PROVE  /\ a \in S => Cardinality(T) = Cardinality(S) - 1
           /\ a \notin S => Cardinality(T) = Cardinality(S)
BY FS_RemoveElement

-----------------------------------------------------------------------------
(* LoginLockout.  While nobody is locked out, every guess from the         *)
(* MaxFails-th on belongs to a request that is about to set the lock; with *)
(* the lock, only those that are comparing may still guess.                *)

Try == [at : {"out", "compare", "expire", "punish"}, count : 0..MaxGuesses]
Locks(r) == r.at \in {"expire", "punish"} /\ r.count >= MaxFails

Comparing == {a \in Attempts : attempt[a].at = "compare"}
Heavy == {a \in Attempts : Locks(attempt[a])}

(* g guesses while k requests compare and h are about to lock.             *)
Within(locked, g, h, k) == IF locked THEN g + k <= MaxGuesses ELSE g <= MaxFails - 1 + h

LockoutInv ==
    /\ fails \in Nat /\ guessed = fails
    /\ expires \in BOOLEAN /\ lock \in BOOLEAN
    /\ attempt \in [Attempts -> Try]
    /\ Within(lock, guessed, Cardinality(Heavy), Cardinality(Comparing))

LEMMA TriesCounted ==
    /\ IsFiniteSet(Comparing) /\ Cardinality(Comparing) \in Nat
    /\ IsFiniteSet(Heavy) /\ Cardinality(Heavy) \in Nat
    /\ Cardinality(Comparing) + Cardinality(Heavy) <= Cardinality(Attempts)
    /\ Cardinality(Attempts) \in Nat /\ MaxGuesses \in Nat
    /\ MaxFails \in Nat \ {0} /\ MaxGuesses = MaxFails - 1 + Cardinality(Attempts)
<1>1. Comparing \in SUBSET Attempts /\ Heavy \in SUBSET Attempts /\ Comparing \cap Heavy = {}
    BY DEF Comparing, Heavy, Locks
<1>2. IsFiniteSet(Comparing) /\ IsFiniteSet(Heavy) /\ IsFiniteSet(Attempts)
    BY <1>1, LockoutAssumption, FS_Subset
<1>3. /\ Cardinality(Comparing) \in Nat /\ Cardinality(Heavy) \in Nat
      /\ Cardinality(Attempts) \in Nat
    BY <1>2, FS_CardinalityType
<1>4. /\ IsFiniteSet(Comparing \cup Heavy)
      /\ Cardinality(Comparing \cup Heavy)
            = Cardinality(Comparing) + Cardinality(Heavy) - Cardinality(Comparing \cap Heavy)
    BY <1>2, FS_Union
<1>5. Cardinality(Comparing \cap Heavy) = 0
    BY <1>1, FS_EmptySet
<1>6. Comparing \cup Heavy \in SUBSET Attempts
    BY <1>1
<1>7. Cardinality(Comparing \cup Heavy) <= Cardinality(Attempts)
    BY <1>2, <1>6, FS_Subset
<1>8. QED
    BY <1>2, <1>3, <1>4, <1>5, <1>7, LockoutAssumption DEF MaxGuesses

LEMMA LockoutInitInv == LockoutInit => LockoutInv
<1> SUFFICES ASSUME LockoutInit PROVE LockoutInv
    OBVIOUS
<1>1. MaxGuesses \in Nat /\ MaxFails \in Nat \ {0} /\ Cardinality(Heavy) \in Nat
    BY TriesCounted
<1>2. Waiting \in Try
    BY <1>1 DEF Waiting, Try
<1>3. attempt \in [Attempts -> Try]
    BY <1>2 DEF LockoutInit
<1>4. Within(FALSE, 0, Cardinality(Heavy), Cardinality(Comparing))
    BY <1>1 DEF Within
<1>5. QED
    BY <1>3, <1>4 DEF LockoutInit, LockoutInv

(* One request moves: who compares and who is about to lock changes by it. *)
LEMMA TryMoves ==
    ASSUME LockoutInv, NEW a \in Attempts, NEW r \in Try, attempt' = [attempt EXCEPT ![a] = r]
    PROVE  /\ attempt' \in [Attempts -> Try]
           /\ Cardinality(Heavy)' \in Nat /\ Cardinality(Comparing)' \in Nat
           /\ Cardinality(Heavy)' = Cardinality(Heavy) + (IF Locks(r) THEN 1 ELSE 0)
                                    - (IF Locks(attempt[a]) THEN 1 ELSE 0)
           /\ Cardinality(Comparing)' = Cardinality(Comparing) + (IF r.at = "compare" THEN 1 ELSE 0)
                                        - (IF attempt[a].at = "compare" THEN 1 ELSE 0)
<1>1. attempt \in [Attempts -> Try] /\ \A b \in Attempts : attempt'[b] = IF b = a THEN r ELSE attempt[b]
    BY DEF LockoutInv
<1>2. Comparing' = IF r.at = "compare" THEN Comparing \cup {a} ELSE Comparing \ {a}
    BY <1>1 DEF Comparing
<1>3. Heavy' = IF Locks(r) THEN Heavy \cup {a} ELSE Heavy \ {a}
    BY <1>1 DEF Heavy
<1>4. (a \in Comparing <=> attempt[a].at = "compare") /\ (a \in Heavy <=> Locks(attempt[a]))
    BY DEF Comparing, Heavy
<1>6. PICK h \in Nat, k \in Nat : h = Cardinality(Heavy) /\ k = Cardinality(Comparing)
    BY TriesCounted
<1>7. IsFiniteSet(Comparing) /\ IsFiniteSet(Heavy) /\ h + k <= Cardinality(Attempts)
    BY <1>6, TriesCounted
<1>8. Cardinality(Comparing)' = k + (IF r.at = "compare" THEN 1 ELSE 0)
                                  - (IF attempt[a].at = "compare" THEN 1 ELSE 0)
    <2>1. CASE r.at = "compare"
        BY <1>2, <1>4, <1>6, <1>7, <2>1, Enters
    <2>2. CASE r.at # "compare"
        BY <1>2, <1>4, <1>6, <1>7, <2>2, Leaves
    <2>3. QED
        BY <2>1, <2>2
<1>9. Cardinality(Heavy)' = h + (IF Locks(r) THEN 1 ELSE 0) - (IF Locks(attempt[a]) THEN 1 ELSE 0)
    <2>1. CASE Locks(r)
        BY <1>3, <1>4, <1>6, <1>7, <2>1, Enters
    <2>2. CASE ~Locks(r)
        BY <1>3, <1>4, <1>6, <1>7, <2>2, Leaves
    <2>3. QED
        BY <2>1, <2>2
<1>10. (Cardinality(Comparing) \in Nat /\ Cardinality(Heavy) \in Nat)'
    BY TriesCounted, PTL
<1>11. attempt' \in [Attempts -> Try]
    BY <1>1
<1>12. QED
    BY <1>6, <1>8, <1>9, <1>10, <1>11

LEMMA LockoutStepInv == LockoutInv /\ [LockoutNext]_lockoutVars => LockoutInv'
<1> SUFFICES ASSUME LockoutInv, [LockoutNext]_lockoutVars PROVE LockoutInv'
    OBVIOUS
<1>0. /\ fails \in Nat /\ guessed = fails /\ expires \in BOOLEAN /\ lock \in BOOLEAN
      /\ attempt \in [Attempts -> Try]
    BY DEF LockoutInv
<1>a. PICK n \in Nat, max \in Nat :
         /\ n = Cardinality(Attempts) /\ max = MaxFails /\ max >= 1 /\ MaxGuesses = max - 1 + n
    BY TriesCounted
<1>b. PICK h \in Nat, k \in Nat :
         /\ h = Cardinality(Heavy) /\ k = Cardinality(Comparing) /\ h + k <= n
         /\ Within(lock, fails, h, k)
    BY <1>a, TriesCounted DEF LockoutInv
<1>1. UNCHANGED attempt =>
          Cardinality(Comparing)' = Cardinality(Comparing) /\ Cardinality(Heavy)' = Cardinality(Heavy)
    BY DEF Comparing, Heavy
<1>2. CASE UNCHANGED lockoutVars
    BY <1>0, <1>1, <1>2 DEF lockoutVars, LockoutInv
<1>c. 0 \in 0..MaxGuesses
    BY <1>a
<1>3. ASSUME NEW a \in Attempts, Enter(a) PROVE LockoutInv'
    <2>1. PICK r : r = [at |-> "compare", count |-> 0]
        OBVIOUS
    <2>2. r \in Try /\ r.at = "compare"
        BY <1>c, <2>1 DEF Try
    <2>3. /\ attempt' = [attempt EXCEPT ![a] = r] /\ attempt[a].at = "out" /\ ~lock
          /\ UNCHANGED <<fails, expires, lock, guessed>>
        BY <1>3, <2>1 DEF Enter, Next1, Unlocked
    <2>4. ~Locks(r) /\ ~Locks(attempt[a])
        BY <2>2, <2>3 DEF Locks
    <2>5. /\ attempt' \in [Attempts -> Try]
          /\ Cardinality(Heavy)' = Cardinality(Heavy) + (IF Locks(r) THEN 1 ELSE 0)
                                   - (IF Locks(attempt[a]) THEN 1 ELSE 0)
        BY <2>2, <2>3, TryMoves
    <2>6. Cardinality(Heavy)' = h
        BY <1>b, <2>4, <2>5
    <2>7. QED
        BY <1>0, <1>b, <2>3, <2>5, <2>6 DEF LockoutInv, Within
<1>4. ASSUME NEW a \in Attempts, Right(a) PROVE LockoutInv'
    <2>1. PICK r : r = [at |-> "out", count |-> 0]
        OBVIOUS
    <2>2. r \in Try /\ r.at = "out"
        BY <1>c, <2>1 DEF Try
    <2>3. /\ attempt' = [attempt EXCEPT ![a] = r] /\ attempt[a].at = "compare"
          /\ fails' = 0 /\ expires' = FALSE /\ guessed' = 0 /\ lock' = lock
        BY <1>4, <2>1 DEF Right, Next1, Reset
    <2>4. /\ attempt' \in [Attempts -> Try]
          /\ Cardinality(Heavy)' \in Nat /\ Cardinality(Comparing)' \in Nat
          /\ Cardinality(Comparing)' = Cardinality(Comparing) + (IF r.at = "compare" THEN 1 ELSE 0)
                                       - (IF attempt[a].at = "compare" THEN 1 ELSE 0)
        BY <2>2, <2>3, TryMoves
    <2>5. Within(lock, 0, Cardinality(Heavy)', Cardinality(Comparing)')
        <3>1. Cardinality(Comparing)' <= k
            BY <1>b, <2>2, <2>3, <2>4
        <3>2. QED
            BY <1>a, <1>b, <2>4, <3>1 DEF Within
    <2>6. QED
        BY <1>0, <2>3, <2>4, <2>5 DEF LockoutInv
<1>5. ASSUME NEW a \in Attempts, Wrong(a) PROVE LockoutInv'
    <2>1. attempt[a].at = "compare" /\ k >= 1
        <3>1. a \in Comparing
            BY <1>5 DEF Wrong, Comparing
        <3>2. k # 0
            BY <1>b, <3>1, TriesCounted, FS_EmptySet
        <3>3. QED
            BY <1>5, <3>2 DEF Wrong
    <2>2. fails + 1 \in 0..MaxGuesses
        BY <1>0, <1>a, <1>b, <2>1 DEF Within
    <2>3. PICK r : r = [at |-> IF fails = 0 THEN "expire" ELSE "punish", count |-> fails + 1]
        OBVIOUS
    <2>4. r \in Try /\ r.at # "compare" /\ (Locks(r) <=> fails + 1 >= max)
        BY <1>a, <2>2, <2>3 DEF Try, Locks
    <2>5. /\ attempt' = [attempt EXCEPT ![a] = r]
          /\ fails' = fails + 1 /\ guessed' = guessed + 1 /\ UNCHANGED <<expires, lock>>
        BY <1>5, <2>3 DEF Wrong, Next1
    <2>6. ~Locks(attempt[a])
        BY <2>1 DEF Locks
    <2>c. /\ attempt' \in [Attempts -> Try]
          /\ Cardinality(Heavy)' = Cardinality(Heavy) + (IF Locks(r) THEN 1 ELSE 0)
                                   - (IF Locks(attempt[a]) THEN 1 ELSE 0)
          /\ Cardinality(Comparing)' = Cardinality(Comparing) + (IF r.at = "compare" THEN 1 ELSE 0)
                                       - (IF attempt[a].at = "compare" THEN 1 ELSE 0)
        BY <2>4, <2>5, TryMoves
    <2>7. /\ Cardinality(Comparing)' = k - 1
          /\ Cardinality(Heavy)' = h + (IF fails + 1 >= max THEN 1 ELSE 0)
        BY <1>b, <2>1, <2>4, <2>6, <2>c
    <2>8. Within(lock, fails + 1, Cardinality(Heavy)', Cardinality(Comparing)')
        BY <1>0, <1>a, <1>b, <2>1, <2>7 DEF Within
    <2>9. QED
        BY <1>0, <2>5, <2>8, <2>c DEF LockoutInv
<1>6. ASSUME NEW a \in Attempts, Expire(a) PROVE LockoutInv'
    <2>1. attempt[a] \in Try /\ attempt[a].at = "expire"
        BY <1>0, <1>6 DEF Expire
    <2>2. PICK r : r = [at |-> "punish", count |-> attempt[a].count]
        OBVIOUS
    <2>3. r \in Try /\ r.at = "punish" /\ (Locks(r) <=> Locks(attempt[a]))
        BY <2>1, <2>2 DEF Try, Locks
    <2>4. /\ attempt' = [attempt EXCEPT ![a] = r] /\ expires' = (fails # 0)
          /\ UNCHANGED <<fails, lock, guessed>>
        BY <1>6, <2>2 DEF Expire, Next1
    <2>5. /\ attempt' \in [Attempts -> Try]
          /\ Cardinality(Heavy)' = Cardinality(Heavy) + (IF Locks(r) THEN 1 ELSE 0)
                                   - (IF Locks(attempt[a]) THEN 1 ELSE 0)
          /\ Cardinality(Comparing)' = Cardinality(Comparing) + (IF r.at = "compare" THEN 1 ELSE 0)
                                       - (IF attempt[a].at = "compare" THEN 1 ELSE 0)
        BY <2>3, <2>4, TryMoves
    <2>6. expires' \in BOOLEAN
        BY <2>4
    <2>7. Cardinality(Comparing)' = k /\ Cardinality(Heavy)' = h
        BY <1>b, <2>1, <2>3, <2>5
    <2>8. QED
        BY <1>0, <1>b, <2>4, <2>5, <2>6, <2>7 DEF LockoutInv
<1>7. ASSUME NEW a \in Attempts, Punish(a) PROVE LockoutInv'
    <2>1. attempt[a].at = "punish" /\ (Locks(attempt[a]) <=> TooMany(a))
        BY <1>7 DEF Punish, Locks, TooMany
    <2>2. PICK r : r = [at |-> "out", count |-> 0]
        OBVIOUS
    <2>3. r \in Try /\ r.at = "out" /\ ~Locks(r)
        BY <1>c, <2>2 DEF Try, Locks
    <2>4. /\ attempt' = [attempt EXCEPT ![a] = r] /\ lock' = (lock \/ TooMany(a))
          /\ UNCHANGED <<fails, expires, guessed>>
        BY <1>7, <2>2 DEF Punish, Next1
    <2>c. /\ attempt' \in [Attempts -> Try]
          /\ Cardinality(Heavy)' = Cardinality(Heavy) + (IF Locks(r) THEN 1 ELSE 0)
                                   - (IF Locks(attempt[a]) THEN 1 ELSE 0)
          /\ Cardinality(Comparing)' = Cardinality(Comparing) + (IF r.at = "compare" THEN 1 ELSE 0)
                                       - (IF attempt[a].at = "compare" THEN 1 ELSE 0)
        BY <2>3, <2>4, TryMoves
    <2>5. Cardinality(Comparing)' = k /\ Cardinality(Heavy)' = h - (IF TooMany(a) THEN 1 ELSE 0)
        BY <1>b, <2>1, <2>3, <2>c
    <2>6. lock' \in BOOLEAN
        BY <2>4
    <2>7. Within(lock', fails, Cardinality(Heavy)', Cardinality(Comparing)')
        <3>1. CASE lock \/ TooMany(a)
            <4>1. fails + k <= MaxGuesses
                BY <1>0, <1>a, <1>b DEF Within
            <4>2. lock'
                BY <2>4, <3>1
            <4>3. QED
                BY <2>5, <4>1, <4>2 DEF Within
        <3>2. CASE ~lock /\ ~TooMany(a)
            <4>1. ~lock' /\ fails <= MaxFails - 1 + h
                BY <1>b, <2>4, <3>2 DEF Within
            <4>2. Cardinality(Heavy)' = h
                BY <2>5, <3>2
            <4>3. QED
                BY <4>1, <4>2 DEF Within
        <3>3. QED
            BY <3>1, <3>2
    <2>8. QED
        BY <1>0, <2>4, <2>6, <2>7, <2>c DEF LockoutInv
<1>8. CASE WindowEnds
    <2>1. /\ fails' = 0 /\ expires' = FALSE /\ guessed' = 0 /\ UNCHANGED <<lock, attempt>>
        BY <1>8 DEF WindowEnds, Reset
    <2>2. Within(lock, 0, h, k)
        BY <1>a, <1>b DEF Within
    <2>3. QED
        BY <1>0, <1>1, <1>b, <2>1, <2>2 DEF LockoutInv
<1>9. CASE LockEnds
    <2>1. lock' = FALSE /\ fails = 0 /\ UNCHANGED <<fails, expires, attempt, guessed>>
        BY <1>9 DEF LockEnds
    <2>2. Within(FALSE, 0, h, k)
        BY <1>a, <1>b DEF Within
    <2>3. QED
        BY <1>0, <1>1, <1>b, <2>1, <2>2 DEF LockoutInv
<1>10. QED
    BY <1>2, <1>3, <1>4, <1>5, <1>6, <1>7, <1>8, <1>9 DEF LockoutNext

LEMMA LockoutInvSafe == LockoutInv => LockoutTypeOK /\ GuessesBounded
<1> SUFFICES ASSUME LockoutInv PROVE LockoutTypeOK /\ GuessesBounded
    OBVIOUS
<1>0. /\ fails \in Nat /\ guessed = fails /\ expires \in BOOLEAN /\ lock \in BOOLEAN
      /\ attempt \in [Attempts -> Try]
    BY DEF LockoutInv
<1>1. PICK n \in Nat, max \in Nat, h \in Nat, k \in Nat :
         /\ n = Cardinality(Attempts) /\ max = MaxFails /\ max >= 1 /\ MaxGuesses = max - 1 + n
         /\ h = Cardinality(Heavy) /\ k = Cardinality(Comparing) /\ h + k <= n
         /\ Within(lock, fails, h, k)
    BY TriesCounted DEF LockoutInv
<1>2. fails \in 0..MaxGuesses
    BY <1>0, <1>1 DEF Within
<1>3. LockoutTypeOK
    BY <1>0, <1>2 DEF LockoutTypeOK, Try
<1>4. guessed >= MaxFails /\ ~lock => \E a \in Attempts : attempt[a].at \in {"expire", "punish"}
    <2>1. fails >= max /\ ~lock => h # 0
        BY <1>0, <1>1 DEF Within
    <2>2. h # 0 => Heavy # {}
        BY <1>1, FS_EmptySet
    <2>3. Heavy # {} => \E a \in Attempts : attempt[a].at \in {"expire", "punish"}
        BY DEF Heavy, Locks
    <2>4. QED
        BY <1>0, <1>1, <2>1, <2>2, <2>3
<1>5. QED
    BY <1>0, <1>2, <1>3, <1>4 DEF GuessesBounded

(* However many requests guess at once, a window of ten minutes lets       *)
(* through MAX_FAILS - 1 wrong passwords and one for each of them, and     *)
(* from the MAX_FAILS-th on the user is locked or about to be.             *)
THEOREM GuessesHold == LockoutSpec => [](LockoutTypeOK /\ GuessesBounded)
BY LockoutInitInv, LockoutStepInv, LockoutInvSafe, PTL DEF LockoutSpec

-----------------------------------------------------------------------------
(* MfaVerification.  A request that waits to reset the count has not used  *)
(* its own attempts yet: what may be tried is counted over the others, and *)
(* those that passed the check have each one attempt to come.              *)

TabsAt(at) == {c \in Tabs : task[c].at = at}
Checking == Cardinality(TabsAt("check"))
Enrolling == Cardinality(Running("enroll"))
Active == Cardinality(Tabs) - Cardinality(TabsAt("reset"))

MfaRow == [enabled : BOOLEAN, secret : Nat, tries : Nat, recent : BOOLEAN,
           key : {"none", "set", "used"}]
MfaTask == [at : {"none", "read", "check", "reset", "bump", "create", "try", "apply"},
            op : MfaOp \cup {"none"}, secret : Nat, right : BOOLEAN, list : SUBSET BackupCodes]

(* What a request holds: codes that were made, and, while it enables, the  *)
(* secret of the row unless an enrolment crossed it.                       *)
Holds(r) ==
    /\ r \in MfaTask /\ r.list \subseteq made
    /\ r.op = "enable" => r.secret = mfa.secret \/ crossed

MfaTyped ==
    /\ mfa \in MfaRow /\ crossed \in BOOLEAN /\ wrong \in Nat
    /\ task \in [Tabs -> MfaTask] /\ \A c \in Tabs : Holds(task[c])

CodesKept ==
    /\ codes \subseteq made /\ made \subseteq BackupCodes
    /\ accepted \in [BackupCodes -> Nat]
    /\ \A b \in BackupCodes : accepted[b] <= 1 /\ (b \in codes \/ b \notin made => accepted[b] = 0)

SecretsKept == mfa.secret + Enrolling <= MaxSecrets

(* What n requests may try in all (doubled), and what has been tried and   *)
(* is to come while t are counted, n are active and k check.               *)
Room(n) == n * (2 * MaxAttempts + n - 1)
Tried(recent, w, t, n, k) ==
    IF recent THEN 2 * w + 2 * (IF t < MaxAttempts THEN MaxAttempts - t + n - 1 ELSE k) <= Room(n)
              ELSE w = 0

TriesKept == Tried(mfa.recent, wrong, mfa.tries, Active, Checking)

MfaInv == MfaTyped /\ CodesKept /\ SecretsKept /\ EnabledWasProven /\ TriesKept

LEMMA RoomGrows ==
    ASSUME NEW n \in Nat
    PROVE  /\ Room(n) \in Nat /\ Room(n + 1) = Room(n) + 2 * MaxAttempts + 2 * n
           /\ n >= 1 => 2 * MaxAttempts + 2 * n - 2 <= Room(n) /\ 2 * n <= Room(n)
           /\ \A m \in Nat : n <= m => Room(n) <= Room(m)
<1>1. PICK a \in Nat : a = MaxAttempts /\ a >= 1
    BY MfaAssumption
<1>2. n * (2 * a + n - 1) \in Nat
    <2>1. CASE n = 0
        BY <1>1, <2>1
    <2>2. CASE n >= 1
        <3>1. 2 * a + n - 1 \in Nat
            BY <1>1, <2>2
        <3>2. QED
            BY <3>1
    <2>3. QED
        BY <2>1, <2>2
<1>3. (n + 1) * (2 * a + (n + 1) - 1) = n * (2 * a + n - 1) + 2 * a + 2 * n
    BY <1>1
<1>4. ASSUME n >= 1
      PROVE  2 * a + 2 * n - 2 <= n * (2 * a + n - 1) /\ 2 * n <= n * (2 * a + n - 1)
    <2>1. PICK m \in Nat : n = m + 1
        <3>1. n - 1 \in Nat /\ n = (n - 1) + 1
            BY <1>4
        <3>2. QED
            BY <3>1
    <2>2. m * (2 * a + m - 1) \in Nat /\ m * m \in Nat /\ m * a \in Nat /\ m * (m - 1) \in Nat
        <3>1. CASE m = 0
            BY <1>1, <3>1
        <3>2. CASE m >= 1
            <4>1. m - 1 \in Nat /\ 2 * a + m - 1 \in Nat
                BY <1>1, <3>2
            <4>2. QED
                BY <1>1, <4>1
        <3>3. QED
            BY <3>1, <3>2
    <2>3. n * (2 * a + n - 1) = 2 * a + m + 2 * (m * a) + m * m
        BY <1>1, <2>1
    <2>4. 2 * a + 2 * n - 2 = 2 * a + 2 * m
        BY <1>1, <2>1
    <2>5. m * m = m + m * (m - 1)
        BY <2>1
    <2>6. m <= m * a
        BY <1>1
    <2>7. QED
        BY <1>1, <2>1, <2>2, <2>3, <2>4, <2>5, <2>6
<1>5. ASSUME NEW m \in Nat, n <= m PROVE n * (2 * a + n - 1) <= m * (2 * a + m - 1)
    <2>1. PICK k \in Nat : m = n + k
        <3>1. m - n \in Nat /\ m = n + (m - n)
            BY <1>5
        <3>2. QED
            BY <3>1
    <2>2. m * (2 * a + m - 1) = n * (2 * a + n - 1) + k * (2 * a - 1) + 2 * (n * k) + k * k
        BY <1>1, <2>1
    <2>3. 2 * a - 1 \in Nat
        BY <1>1
    <2>4. k * (2 * a - 1) \in Nat /\ n * k \in Nat /\ k * k \in Nat
        BY <2>1, <2>3
    <2>5. QED
        BY <1>2, <2>2, <2>4
<1>6. QED
    BY <1>1, <1>2, <1>3, <1>4, <1>5 DEF Room

(* Nothing is tried: requests only stop waiting for the reset.             *)
LEMMA TriedQuiet ==
    ASSUME NEW recent \in BOOLEAN, NEW w \in Nat, NEW t \in Nat, NEW n \in Nat, NEW k \in Nat,
           NEW m \in Nat, NEW j \in Nat, Tried(recent, w, t, n, k),
           recent => m = n \/ m = n + 1, recent => j <= k \/ t < MaxAttempts
    PROVE  Tried(recent, w, t, m, j)
<1>1. CASE ~recent
    BY <1>1 DEF Tried
<1>2. CASE recent
    <2>1. MaxAttempts \in Nat \ {0}
        BY MfaAssumption
    <2>2. 2 * w + 2 * (IF t < MaxAttempts THEN MaxAttempts - t + n - 1 ELSE k) <= Room(n)
        BY <1>2 DEF Tried
    <2>3. Room(n) \in Nat /\ Room(n + 1) = Room(n) + 2 * MaxAttempts + 2 * n
        BY RoomGrows
    <2>4. 2 * w + 2 * (IF t < MaxAttempts THEN MaxAttempts - t + m - 1 ELSE j) <= Room(m)
        <3>1. CASE m = n
            BY <1>2, <2>1, <2>2, <2>3, <3>1
        <3>2. CASE m = n + 1
            BY <1>2, <2>1, <2>2, <2>3, <3>2
        <3>3. QED
            BY <1>2, <3>1, <3>2
    <2>5. QED
        BY <1>2, <2>4 DEF Tried
<1>3. QED
    BY <1>1, <1>2

(* A request that waited resets the count, with its own attempts to come.  *)
LEMMA TriedAnew ==
    ASSUME NEW recent \in BOOLEAN, NEW w \in Nat, NEW t \in Nat, NEW n \in Nat, NEW k \in Nat,
           NEW j \in Nat, Tried(recent, w, t, n, k)
    PROVE  Tried(recent, w, 0, n + 1, j)
<1>1. CASE ~recent
    BY <1>1 DEF Tried
<1>2. CASE recent
    <2>1. MaxAttempts \in Nat \ {0}
        BY MfaAssumption
    <2>2. 2 * w + 2 * (IF t < MaxAttempts THEN MaxAttempts - t + n - 1 ELSE k) <= Room(n)
        BY <1>2 DEF Tried
    <2>3. Room(n) \in Nat /\ Room(n + 1) = Room(n) + 2 * MaxAttempts + 2 * n
        BY RoomGrows
    <2>4. 2 * w + 2 * (MaxAttempts - 0 + (n + 1) - 1) <= Room(n + 1)
        BY <2>1, <2>2, <2>3
    <2>5. QED
        BY <1>2, <2>1, <2>4 DEF Tried
<1>3. QED
    BY <1>1, <1>2

LEMMA TriedWrong ==
    ASSUME NEW recent \in BOOLEAN, NEW w \in Nat, NEW t \in Nat, NEW n \in Nat, NEW k \in Nat,
           k >= 1, k <= n, Tried(recent, w, t, n, k)
    PROVE  Tried(TRUE, w + 1, t + 1, n, k - 1)
<1>1. MaxAttempts \in Nat \ {0}
    BY MfaAssumption
<1>2. /\ Room(n) \in Nat
      /\ n >= 1 => 2 * MaxAttempts + 2 * n - 2 <= Room(n) /\ 2 * n <= Room(n)
    BY RoomGrows
<1>3. 2 * (w + 1) + 2 * (IF t + 1 < MaxAttempts THEN MaxAttempts - (t + 1) + n - 1 ELSE k - 1) <= Room(n)
    <2>1. CASE ~recent
        <3>1. w = 0
            BY <2>1 DEF Tried
        <3>2. QED
            BY <1>1, <1>2, <3>1
    <2>2. CASE recent
        <3>1. 2 * w + 2 * (IF t < MaxAttempts THEN MaxAttempts - t + n - 1 ELSE k) <= Room(n)
            BY <2>2 DEF Tried
        <3>2. QED
            BY <1>1, <1>2, <3>1
    <2>3. QED
        BY <2>1, <2>2
<1>4. QED
    BY <1>3 DEF Tried

LEMMA TriedRight ==
    ASSUME NEW n \in Nat, NEW k \in Nat, n >= 1
    PROVE  Tried(TRUE, 0, 0, n, k)
<1>1. MaxAttempts \in Nat \ {0}
    BY MfaAssumption
<1>2. 2 * MaxAttempts + 2 * n - 2 <= Room(n) /\ Room(n) \in Nat
    BY RoomGrows
<1>3. 2 * 0 + 2 * (MaxAttempts - 0 + n - 1) <= Room(n)
    BY <1>1, <1>2
<1>4. QED
    BY <1>1, <1>3 DEF Tried

LEMMA TabsCounted ==
    /\ \A at : IsFiniteSet(TabsAt(at)) /\ Cardinality(TabsAt(at)) \in Nat
    /\ IsFiniteSet(Running("enroll")) /\ Enrolling \in Nat
    /\ Cardinality(Tabs) \in Nat /\ Active \in Nat /\ Checking \in Nat
    /\ Checking <= Active /\ Active <= Cardinality(Tabs)
<1>1. (\A at : TabsAt(at) \in SUBSET Tabs) /\ Running("enroll") \in SUBSET Tabs
    BY DEF TabsAt, Running
<1>2. IsFiniteSet(Tabs)
    BY MfaAssumption
<1>3. \A T \in SUBSET Tabs : IsFiniteSet(T)
    BY <1>2, FS_Subset
<1>4. /\ \A at : IsFiniteSet(TabsAt(at)) /\ Cardinality(TabsAt(at)) \in Nat
      /\ IsFiniteSet(Running("enroll")) /\ Cardinality(Running("enroll")) \in Nat
      /\ Cardinality(Tabs) \in Nat
    BY <1>1, <1>2, <1>3, FS_CardinalityType
<1>5. /\ TabsAt("check") \cap TabsAt("reset") = {}
      /\ TabsAt("check") \cup TabsAt("reset") \in SUBSET Tabs
    BY DEF TabsAt
<1>6. Cardinality(TabsAt("check") \cup TabsAt("reset"))
          = Cardinality(TabsAt("check")) + Cardinality(TabsAt("reset"))
            - Cardinality(TabsAt("check") \cap TabsAt("reset"))
    BY <1>4, FS_Union
<1>7. Cardinality(TabsAt("check") \cap TabsAt("reset")) = 0
    BY <1>5, FS_EmptySet
<1>8. Cardinality(TabsAt("check") \cup TabsAt("reset")) <= Cardinality(Tabs)
    BY <1>2, <1>5, FS_Subset
<1>9. Cardinality(TabsAt("check")) \in Nat /\ Cardinality(TabsAt("reset")) \in Nat
    BY <1>4
<1>10. /\ Active \in Nat /\ Cardinality(TabsAt("check")) <= Active
       /\ Active <= Cardinality(Tabs)
    BY <1>4, <1>6, <1>7, <1>8, <1>9 DEF Active
<1>11. QED
    BY <1>4, <1>10 DEF Checking, Enrolling

LEMMA MfaInitInv == MfaInit => MfaInv
<1> SUFFICES ASSUME MfaInit PROVE MfaInv
    OBVIOUS
<1>1. NoTask \in MfaTask /\ NoTask.op = "none" /\ NoTask.list = {}
    BY DEF NoTask, MfaTask
<1>2. \A c \in Tabs : task[c] = NoTask
    BY DEF MfaInit
<1>3. \A c \in Tabs : Holds(task[c])
    BY <1>1, <1>2 DEF Holds
<1>4. MfaTyped
    BY <1>1, <1>3 DEF MfaInit, MfaTyped, MfaRow
<1>5. CodesKept
    BY DEF MfaInit, CodesKept
<1>6. Running("enroll") = {}
    BY <1>1, <1>2 DEF Running
<1>7. SecretsKept
    BY <1>6, MfaAssumption, FS_EmptySet DEF MfaInit, SecretsKept, Enrolling
<1>8. EnabledWasProven /\ TriesKept
    BY DEF MfaInit, EnabledWasProven, TriesKept, Tried
<1>9. QED
    BY <1>4, <1>5, <1>7, <1>8 DEF MfaInv

LEMMA Resting == NoTask \in MfaTask /\ NoTask.at = "none" /\ NoTask.op = "none" /\ NoTask.list = {}
BY DEF NoTask, MfaTask

(* One request moves: how many wait, check and enrol changes by it.        *)
TabMove(c, r) ==
    /\ Active' = Active + (IF task[c].at = "reset" THEN 1 ELSE 0)
                        - (IF r.at = "reset" THEN 1 ELSE 0)
    /\ Checking' = Checking + (IF r.at = "check" THEN 1 ELSE 0)
                            - (IF task[c].at = "check" THEN 1 ELSE 0)
    /\ Enrolling' = Enrolling + (IF r.op = "enroll" THEN 1 ELSE 0)
                              - (IF task[c].op = "enroll" THEN 1 ELSE 0)

LEMMA TabMoves ==
    ASSUME MfaTyped, NEW c \in Tabs, NEW r \in MfaTask, task' = [task EXCEPT ![c] = r]
    PROVE  TabMove(c, r)
<1>1. \A d \in Tabs : task'[d] = IF d = c THEN r ELSE task[d]
    BY DEF MfaTyped
<1>2. \A at : c \in TabsAt(at) <=> task[c].at = at
    BY DEF TabsAt
<1>3. c \in Running("enroll") <=> task[c].op = "enroll"
    BY DEF Running
<1>4. TabsAt("check")' = IF r.at = "check" THEN TabsAt("check") \cup {c} ELSE TabsAt("check") \ {c}
    BY <1>1 DEF TabsAt
<1>5. TabsAt("reset")' = IF r.at = "reset" THEN TabsAt("reset") \cup {c} ELSE TabsAt("reset") \ {c}
    BY <1>1 DEF TabsAt
<1>6. Running("enroll")' =
          IF r.op = "enroll" THEN Running("enroll") \cup {c} ELSE Running("enroll") \ {c}
    BY <1>1 DEF Running
<1>8. /\ IsFiniteSet(TabsAt("check")) /\ IsFiniteSet(TabsAt("reset")) /\ IsFiniteSet(Running("enroll"))
      /\ Cardinality(TabsAt("check")) \in Nat /\ Cardinality(TabsAt("reset")) \in Nat
      /\ Cardinality(Running("enroll")) \in Nat /\ Cardinality(Tabs) \in Nat
    BY TabsCounted DEF Enrolling
<1>9. Cardinality(TabsAt("check"))' =
          Cardinality(TabsAt("check")) + (IF r.at = "check" THEN 1 ELSE 0)
                                       - (IF task[c].at = "check" THEN 1 ELSE 0)
    <2>1. CASE r.at = "check"
        BY <1>2, <1>4, <1>8, <2>1, Enters
    <2>2. CASE ~(r.at = "check")
        BY <1>2, <1>4, <1>8, <2>2, Leaves
    <2>3. QED
        BY <2>1, <2>2
<1>10. Cardinality(TabsAt("reset"))' =
          Cardinality(TabsAt("reset")) + (IF r.at = "reset" THEN 1 ELSE 0)
                                       - (IF task[c].at = "reset" THEN 1 ELSE 0)
    <2>1. CASE r.at = "reset"
        BY <1>2, <1>5, <1>8, <2>1, Enters
    <2>2. CASE ~(r.at = "reset")
        BY <1>2, <1>5, <1>8, <2>2, Leaves
    <2>3. QED
        BY <2>1, <2>2
<1>11. Cardinality(Running("enroll"))' =
          Cardinality(Running("enroll")) + (IF r.op = "enroll" THEN 1 ELSE 0)
                                         - (IF task[c].op = "enroll" THEN 1 ELSE 0)
    <2>1. CASE r.op = "enroll"
        BY <1>3, <1>6, <1>8, <2>1, Enters
    <2>2. CASE ~(r.op = "enroll")
        BY <1>3, <1>6, <1>8, <2>2, Leaves
    <2>3. QED
        BY <2>1, <2>2
<1>12. Active' = Active + (IF task[c].at = "reset" THEN 1 ELSE 0)
                        - (IF r.at = "reset" THEN 1 ELSE 0)
    BY <1>8, <1>10 DEF Active
<1>13. QED
    BY <1>9, <1>11, <1>12 DEF TabMove, Checking, Enrolling

(* What the others hold stays what it was, unless an enrolment crosses it. *)
LEMMA HoldsMove ==
    ASSUME MfaTyped, NEW c \in Tabs, NEW r, task' = [task EXCEPT ![c] = r],
           Holds(r)', made \subseteq made', mfa' \in MfaRow, crossed' \in BOOLEAN, wrong' \in Nat,
           \A d \in Tabs \ {c} :
              task[d].op = "enable" => crossed' \/ (mfa'.secret = mfa.secret /\ crossed' = crossed)
    PROVE  MfaTyped'
<1>1. r \in MfaTask
    BY DEF Holds
<1>2. \A d \in Tabs : task'[d] = IF d = c THEN r ELSE task[d]
    BY DEF MfaTyped
<1>3. task' \in [Tabs -> MfaTask]
    BY <1>1 DEF MfaTyped
<1>4. ASSUME NEW d \in Tabs PROVE Holds(task[d])'
    <2>1. CASE d = c
        BY <1>2, <2>1
    <2>2. CASE d # c
        <3>1. Holds(task[d]) /\ task'[d] = task[d]
            BY <1>2, <2>2 DEF MfaTyped
        <3>2. QED
            BY <2>2, <3>1 DEF Holds
    <2>3. QED
        BY <2>1, <2>2
<1>5. QED
    BY <1>3, <1>4 DEF MfaTyped

(* A request moves and nothing else does.                                  *)
LEMMA QuietMove ==
    ASSUME MfaInv, NEW c \in Tabs, NEW r, task' = [task EXCEPT ![c] = r], Holds(r),
           UNCHANGED <<mfa, crossed, wrong, proven, codes, made, accepted>>,
           r.at = "reset" => task[c].at = "reset" \/ ~mfa.recent,
           r.at = "check" => task[c].at = "check" \/ mfa.tries < MaxAttempts,
           r.op = "enroll" => task[c].op = "enroll" \/ mfa.secret + Enrolling < MaxSecrets
    PROVE  MfaInv'
<1>1. MfaTyped /\ r \in MfaTask
    BY DEF MfaInv, Holds
<1>2. MfaTyped'
    <2>1. Holds(r)'
        BY DEF Holds
    <2>2. mfa' \in MfaRow /\ crossed' \in BOOLEAN /\ wrong' \in Nat /\ made \subseteq made'
        BY <1>1 DEF MfaTyped
    <2>3. QED
        BY <1>1, <2>1, <2>2, HoldsMove
<1>3. CodesKept'
    BY DEF MfaInv, CodesKept
<1>4. EnabledWasProven'
    BY DEF MfaInv, EnabledWasProven
<1>5. /\ Active' = Active + (IF task[c].at = "reset" THEN 1 ELSE 0)
                          - (IF r.at = "reset" THEN 1 ELSE 0)
      /\ Checking' = Checking + (IF r.at = "check" THEN 1 ELSE 0)
                              - (IF task[c].at = "check" THEN 1 ELSE 0)
      /\ Enrolling' = Enrolling + (IF r.op = "enroll" THEN 1 ELSE 0)
                                - (IF task[c].op = "enroll" THEN 1 ELSE 0)
    BY <1>1, TabMoves DEF TabMove
<1>6. /\ Active \in Nat /\ Checking \in Nat /\ Enrolling \in Nat
      /\ mfa.secret \in Nat /\ mfa.tries \in Nat /\ wrong \in Nat /\ mfa.recent \in BOOLEAN
    BY <1>1, TabsCounted DEF MfaTyped, MfaRow
<1>7. (Active \in Nat /\ Checking \in Nat)'
    BY TabsCounted, PTL
<1>8. SecretsKept'
    BY <1>5, <1>6, MfaAssumption DEF MfaInv, SecretsKept
<1>9. TriesKept'
    <2>1. PICK n \in Nat, k \in Nat, m \in Nat, j \in Nat :
             n = Active /\ k = Checking /\ m = Active' /\ j = Checking'
        BY <1>6, <1>7
    <2>2. mfa.recent => m = n \/ m = n + 1
        BY <1>5, <2>1
    <2>3. mfa.recent => j <= k \/ mfa.tries < MaxAttempts
        BY <1>5, <2>1
    <2>4. Tried(mfa.recent, wrong, mfa.tries, n, k)
        BY <2>1 DEF MfaInv, TriesKept
    <2>5. Tried(mfa.recent, wrong, mfa.tries, m, j)
        BY <1>6, <2>2, <2>3, <2>4, TriedQuiet
    <2>6. QED
        BY <2>1, <2>5 DEF TriesKept
<1>10. QED
    BY <1>2, <1>3, <1>4, <1>8, <1>9 DEF MfaInv

(* A request moves with a write of the row that does not concern attempts  *)
(* and the secret, or of the codes.                                        *)
LEMMA CodesMove ==
    ASSUME MfaInv, NEW c \in Tabs, NEW r, task' = [task EXCEPT ![c] = r], Holds(r)',
           task[c].at \notin {"reset", "check"}, r.at \notin {"reset", "check"}, r.op # "enroll",
           mfa' \in MfaRow, mfa'.secret = mfa.secret, mfa'.tries = mfa.tries,
           mfa'.recent = mfa.recent, mfa'.enabled => mfa.enabled,
           UNCHANGED <<crossed, wrong, proven>>, made \subseteq made', CodesKept'
    PROVE  MfaInv'
<1>1. MfaTyped /\ r \in MfaTask /\ (Holds(r)' => r \in MfaTask)
    BY DEF MfaInv, Holds
<1>2. MfaTyped'
    <2>1. crossed' \in BOOLEAN /\ wrong' \in Nat
        BY <1>1 DEF MfaTyped
    <2>2. QED
        BY <1>1, <2>1, HoldsMove
<1>3. EnabledWasProven'
    BY DEF MfaInv, EnabledWasProven
<1>4. /\ Active' = Active + (IF task[c].at = "reset" THEN 1 ELSE 0)
                          - (IF r.at = "reset" THEN 1 ELSE 0)
      /\ Checking' = Checking + (IF r.at = "check" THEN 1 ELSE 0)
                              - (IF task[c].at = "check" THEN 1 ELSE 0)
      /\ Enrolling' = Enrolling + (IF r.op = "enroll" THEN 1 ELSE 0)
                                - (IF task[c].op = "enroll" THEN 1 ELSE 0)
    BY <1>1, TabMoves DEF TabMove
<1>5. Active \in Nat /\ Checking \in Nat /\ Enrolling \in Nat /\ mfa.secret \in Nat
    BY <1>1, TabsCounted DEF MfaTyped, MfaRow
<1>6. Active' = Active /\ Checking' = Checking /\ Enrolling' <= Enrolling /\ Enrolling' \in Int
    BY <1>4, <1>5
<1>7. SecretsKept'
    BY <1>5, <1>6, MfaAssumption DEF MfaInv, SecretsKept
<1>8. TriesKept'
    BY <1>6 DEF MfaInv, TriesKept, Tried
<1>9. QED
    BY <1>2, <1>3, <1>7, <1>8 DEF MfaInv

LEMMA MfaStepInv == MfaInv /\ [MfaNext]_mfaVars => MfaInv'
<1> SUFFICES ASSUME MfaInv, [MfaNext]_mfaVars PROVE MfaInv'
    OBVIOUS
<1>0. /\ MfaTyped /\ CodesKept /\ SecretsKept /\ EnabledWasProven /\ TriesKept
      /\ Active \in Nat /\ Checking \in Nat /\ Enrolling \in Nat /\ Checking <= Active
      /\ mfa \in MfaRow /\ mfa.secret \in Nat /\ mfa.tries \in Nat /\ mfa.recent \in BOOLEAN
      /\ wrong \in Nat /\ crossed \in BOOLEAN
    BY TabsCounted DEF MfaInv, MfaTyped, MfaRow
<1>a. MaxAttempts \in Nat /\ MaxAttempts >= 1 /\ MaxSecrets \in Nat
    BY MfaAssumption
<1>d. (Active \in Nat /\ Checking \in Nat)'
    BY TabsCounted, PTL
<1>e. mfa \in MfaRow /\ mfa.secret + 1 \in Nat /\ mfa.tries + 1 \in Nat
    BY <1>0
<1>b. ASSUME NEW c \in Tabs
      PROVE  Holds(task[c]) /\ task[c] \in MfaTask /\ Holds(NoTask) /\ Holds(NoTask)'
    BY <1>0, Resting DEF MfaTyped, Holds
<1>c. ASSUME NEW c \in Tabs, NEW at \in {"none", "read", "check", "reset", "bump", "create", "try", "apply"},
             NEW r, r = [task[c] EXCEPT !.at = at]
      PROVE  /\ Holds(r) /\ r.at = at /\ r.op = task[c].op /\ r.secret = task[c].secret
             /\ r.right = task[c].right /\ r.list = task[c].list
    BY <1>b, <1>c DEF Holds, MfaTask
<1>1. CASE UNCHANGED mfaVars
    <2>1. UNCHANGED <<mfa, crossed, wrong, proven, codes, made, accepted, task>>
        BY <1>1 DEF mfaVars, mfaRowVars, codeVars
    <2>2. MfaTyped' /\ CodesKept' /\ EnabledWasProven'
        BY <1>0, <2>1 DEF MfaTyped, Holds, CodesKept, EnabledWasProven
    <2>3. Active' = Active /\ Checking' = Checking /\ Enrolling' = Enrolling
        BY <2>1 DEF Active, Checking, Enrolling, TabsAt, Running
    <2>4. SecretsKept' /\ TriesKept'
        BY <1>0, <2>1, <2>3 DEF SecretsKept, TriesKept, Tried
    <2>5. QED
        BY <2>2, <2>4 DEF MfaInv
<1>2. ASSUME NEW c \in Tabs, Leave(c),
             UNCHANGED <<mfa, crossed, wrong, proven, codes, made, accepted>>
      PROVE  MfaInv'
    BY <1>b, <1>2, Resting, QuietMove DEF Leave
<1>3. ASSUME NEW c \in Tabs, NEW op \in MfaOp, NEW right \in BOOLEAN, Begin(c, op, right)
      PROVE  MfaInv'
    <2>1. PICK r : r = [at |-> "read", op |-> op, secret |-> IF op = "enable" THEN mfa.secret ELSE 0,
                        right |-> right, list |-> {}]
        OBVIOUS
    <2>2. task' = [task EXCEPT ![c] = r] /\ UNCHANGED <<mfa, crossed, wrong, proven, codes, made, accepted>>
        BY <1>3, <2>1 DEF Begin, mfaRowVars, codeVars
    <2>3. r \in MfaTask /\ r.at = "read" /\ r.op = op /\ r.list = {}
        BY <1>0, <2>1 DEF MfaTask
    <2>4. Holds(r)
        BY <2>1, <2>3 DEF Holds
    <2>5. op = "enroll" => mfa.secret + Enrolling < MaxSecrets
        BY <1>3 DEF Begin, Enrolling
    <2>6. QED
        BY <2>2, <2>3, <2>4, <2>5, QuietMove
<1>4. ASSUME NEW c \in Tabs, Limit(c) PROVE MfaInv'
    <2>1. UNCHANGED <<mfa, crossed, wrong, proven, codes, made, accepted>>
        BY <1>4 DEF Limit, mfaRowVars, codeVars
    <2>2. CASE Leave(c)
        BY <1>2, <2>1, <2>2
    <2>3. CASE mfa.tries < MaxAttempts /\ Proceed(c, "check")
        <3>1. PICK r : r = [task[c] EXCEPT !.at = "check"]
            OBVIOUS
        <3>2. Holds(r) /\ r.at = "check" /\ r.op = task[c].op
            BY <1>c, <3>1
        <3>3. task' = [task EXCEPT ![c] = r]
            BY <2>3, <3>1 DEF Proceed
        <3>4. QED
            BY <2>1, <2>3, <3>2, <3>3, QuietMove
    <2>4. CASE ~mfa.recent /\ Proceed(c, "reset")
        <3>1. PICK r : r = [task[c] EXCEPT !.at = "reset"]
            OBVIOUS
        <3>2. Holds(r) /\ r.at = "reset" /\ r.op = task[c].op
            BY <1>c, <3>1
        <3>3. task' = [task EXCEPT ![c] = r]
            BY <2>4, <3>1 DEF Proceed
        <3>4. QED
            BY <2>1, <2>4, <3>2, <3>3, QuietMove
    <2>5. QED
        BY <1>4, <2>2, <2>3, <2>4 DEF Limit
<1>5. ASSUME NEW c \in Tabs, Enroll(c) PROVE MfaInv'
    <2>1. /\ task[c].op = "enroll" /\ task[c].at = "read" /\ task' = [task EXCEPT ![c] = NoTask]
          /\ mfa' = [mfa EXCEPT !.secret = @ + 1, !.enabled = FALSE, !.tries = 0, !.recent = FALSE]
          /\ wrong' = 0 /\ crossed' = (Running("enable") # {})
          /\ UNCHANGED <<codes, made, accepted>>
        BY <1>5 DEF Enroll, Doing, Leave, codeVars
    <2>2. /\ mfa' \in MfaRow /\ mfa'.secret = mfa.secret + 1 /\ mfa'.enabled = FALSE
          /\ mfa'.recent = FALSE
        <3>1. PICK row : row = [mfa EXCEPT !.secret = @ + 1, !.enabled = FALSE, !.tries = 0, !.recent = FALSE]
            OBVIOUS
        <3>2. /\ row \in MfaRow /\ row.secret = mfa.secret + 1 /\ row.enabled = FALSE
              /\ row.recent = FALSE
            BY <1>e, <3>1 DEF MfaRow
        <3>3. QED
            BY <2>1, <3>1, <3>2
    <2>3. \A d \in Tabs \ {c} : task[d].op = "enable" => crossed'
        BY <2>1 DEF Running
    <2>4. crossed' \in BOOLEAN /\ wrong' \in Nat
        BY <2>1
    <2>5. MfaTyped'
        BY <1>0, <1>b, <2>1, <2>2, <2>3, <2>4, HoldsMove
    <2>6. CodesKept'
        BY <1>0, <2>1 DEF CodesKept
    <2>7. Enrolling' = Enrolling - 1
        <3>1. TabMove(c, NoTask)
            BY <1>0, <2>1, TabMoves, Resting
        <3>2. QED
            BY <1>0, <2>1, <3>1, Resting DEF TabMove
    <2>8. SecretsKept'
        BY <1>0, <1>a, <2>2, <2>7 DEF SecretsKept
    <2>9. EnabledWasProven' /\ TriesKept'
        BY <2>1, <2>2 DEF EnabledWasProven, TriesKept, Tried
    <2>10. QED
        BY <2>5, <2>6, <2>8, <2>9 DEF MfaInv
<1>6. ASSUME NEW c \in Tabs, ResetTries(c) PROVE MfaInv'
    <2>1. PICK r : r = [task[c] EXCEPT !.at = "check"]
        OBVIOUS
    <2>2. Holds(r) /\ r.at = "check" /\ r.op = task[c].op /\ r \in MfaTask
        BY <1>c, <2>1 DEF Holds
    <2>3. /\ task[c].at = "reset" /\ task[c].op \in {"enable", "verify"}
          /\ task' = [task EXCEPT ![c] = r] /\ mfa' = [mfa EXCEPT !.tries = 0]
          /\ UNCHANGED <<proven, crossed, wrong, codes, made, accepted>>
        BY <1>6, <2>1 DEF ResetTries, Doing, Proceed, codeVars
    <2>4. /\ mfa' \in MfaRow /\ mfa'.secret = mfa.secret /\ mfa'.enabled = mfa.enabled
          /\ mfa'.recent = mfa.recent /\ mfa'.tries = 0
        BY <1>0, <2>3 DEF MfaRow
    <2>5. MfaTyped'
        <3>1. Holds(r)'
            BY <2>2, <2>3, <2>4 DEF Holds
        <3>2. QED
            BY <1>0, <2>3, <2>4, <3>1, HoldsMove
    <2>6. CodesKept' /\ EnabledWasProven'
        BY <1>0, <2>3, <2>4 DEF CodesKept, EnabledWasProven
    <2>7. Active' = Active + 1 /\ Enrolling' = Enrolling
        <3>1. TabMove(c, r)
            BY <1>0, <2>2, <2>3, TabMoves
        <3>2. QED
            BY <1>0, <2>2, <2>3, <3>1 DEF TabMove
    <2>8. SecretsKept'
        BY <1>0, <2>4, <2>7 DEF SecretsKept
    <2>9. TriesKept'
        <3>1. Tried(mfa.recent, wrong, 0, Active + 1, Checking')
            BY <1>0, <1>d, TriedAnew DEF TriesKept
        <3>2. QED
            BY <2>3, <2>4, <2>7, <3>1 DEF TriesKept
    <2>10. QED
        BY <2>5, <2>6, <2>8, <2>9 DEF MfaInv
<1>7. ASSUME NEW c \in Tabs, task[c].at = "check" PROVE Checking >= 1
    <2>1. c \in TabsAt("check")
        BY <1>7 DEF TabsAt
    <2>2. Checking # 0
        BY <2>1, TabsCounted, FS_EmptySet DEF Checking
    <2>3. QED
        BY <1>0, <2>2
<1>8. ASSUME NEW c \in Tabs, WrongCode(c) PROVE MfaInv'
    <2>1. /\ task[c].at = "check" /\ task[c].op \in {"enable", "verify"}
          /\ task' = [task EXCEPT ![c] = NoTask]
          /\ mfa' = [mfa EXCEPT !.tries = @ + 1, !.recent = TRUE] /\ wrong' = wrong + 1
          /\ UNCHANGED <<proven, crossed, codes, made, accepted>>
        BY <1>8 DEF WrongCode, Doing, Leave, codeVars
    <2>2. /\ mfa' \in MfaRow /\ mfa'.secret = mfa.secret /\ mfa'.enabled = mfa.enabled
          /\ mfa'.recent = TRUE /\ mfa'.tries = mfa.tries + 1
        <3>1. PICK row : row = [mfa EXCEPT !.tries = @ + 1, !.recent = TRUE]
            OBVIOUS
        <3>2. /\ row \in MfaRow /\ row.secret = mfa.secret /\ row.enabled = mfa.enabled
              /\ row.recent = TRUE /\ row.tries = mfa.tries + 1
            BY <1>e, <3>1 DEF MfaRow
        <3>3. QED
            BY <2>1, <3>1, <3>2
    <2>3. MfaTyped'
        <3>1. wrong' \in Nat /\ crossed' \in BOOLEAN /\ made \subseteq made' /\ Holds(NoTask)'
            BY <1>0, <1>b, <2>1
        <3>2. \A d \in Tabs \ {c} : mfa'.secret = mfa.secret /\ crossed' = crossed
            BY <2>1, <2>2
        <3>3. QED
            BY <1>0, <2>1, <2>2, <3>1, <3>2, HoldsMove
    <2>4. CodesKept' /\ EnabledWasProven'
        BY <1>0, <2>1, <2>2 DEF CodesKept, EnabledWasProven
    <2>5. Active' = Active /\ Checking' = Checking - 1 /\ Enrolling' = Enrolling
        <3>1. TabMove(c, NoTask)
            BY <1>0, <2>1, TabMoves, Resting
        <3>2. QED
            BY <1>0, <2>1, <3>1, Resting DEF TabMove
    <2>6. SecretsKept'
        BY <1>0, <2>2, <2>5 DEF SecretsKept
    <2>7. Tried(TRUE, wrong + 1, mfa.tries + 1, Active, Checking - 1)
        BY <1>0, <1>7, <2>1, TriedWrong DEF TriesKept
    <2>8. TriesKept'
        BY <2>1, <2>2, <2>5, <2>7 DEF TriesKept
    <2>9. QED
        BY <2>3, <2>4, <2>6, <2>8 DEF MfaInv
<1>9. ASSUME NEW c \in Tabs, Verified(c) PROVE MfaInv'
    <2>1. /\ task[c].at = "check" /\ task[c].op \in {"enable", "verify"} /\ wrong' = 0
          /\ UNCHANGED <<crossed, codes, made, accepted>>
        BY <1>9 DEF Verified, Doing, codeVars
    <2>2. PICK r : r = IF task[c].op = "enable" THEN [task[c] EXCEPT !.at = "bump"] ELSE NoTask
        OBVIOUS
    <2>3. /\ Holds(r) /\ r \in MfaTask /\ r.at \notin {"reset", "check"} /\ r.op # "enroll"
        <3>1. CASE task[c].op = "enable"
            BY <1>c, <2>2, <3>1 DEF Holds
        <3>2. CASE task[c].op # "enable"
            BY <1>b, <2>2, <3>2, Resting
        <3>3. QED
            BY <3>1, <3>2
    <2>4. task' = [task EXCEPT ![c] = r]
        BY <1>9, <2>2 DEF Verified, Proceed, Leave
    <2>5. /\ mfa' \in MfaRow /\ mfa'.secret = mfa.secret /\ mfa'.recent = TRUE /\ mfa'.tries = 0
          /\ IF task[c].op = "enable" THEN mfa'.enabled = TRUE /\ proven' = task[c].secret
                                      ELSE mfa'.enabled = mfa.enabled /\ proven' = proven
        <3>1. CASE task[c].op = "enable"
            <4>1. PICK row : row = [mfa EXCEPT !.enabled = TRUE, !.tries = 0, !.recent = TRUE]
                OBVIOUS
            <4>2. /\ row \in MfaRow /\ row.secret = mfa.secret /\ row.recent = TRUE
                  /\ row.tries = 0 /\ row.enabled = TRUE
                BY <1>0, <4>1 DEF MfaRow
            <4>3. mfa' = row /\ proven' = task[c].secret
                BY <1>9, <3>1, <4>1 DEF Verified
            <4>4. QED
                BY <3>1, <4>2, <4>3
        <3>2. CASE task[c].op # "enable"
            <4>1. PICK row : row = [mfa EXCEPT !.tries = 0, !.recent = TRUE]
                OBVIOUS
            <4>2. /\ row \in MfaRow /\ row.secret = mfa.secret /\ row.recent = TRUE
                  /\ row.tries = 0 /\ row.enabled = mfa.enabled
                BY <1>0, <4>1 DEF MfaRow
            <4>3. mfa' = row /\ proven' = proven
                BY <1>9, <3>2, <4>1 DEF Verified
            <4>4. QED
                BY <3>2, <4>2, <4>3
        <3>3. QED
            BY <3>1, <3>2
    <2>6. MfaTyped'
        <3>1. Holds(r)'
            BY <2>1, <2>3, <2>5 DEF Holds
        <3>2. QED
            BY <1>0, <2>1, <2>4, <2>5, <3>1, HoldsMove
    <2>7. CodesKept'
        BY <1>0, <2>1 DEF CodesKept
    <2>8. EnabledWasProven'
        <3>1. CASE task[c].op = "enable"
            <4>1. task[c].secret = mfa.secret \/ crossed
                BY <1>b, <3>1 DEF Holds
            <4>2. QED
                BY <2>1, <2>5, <3>1, <4>1 DEF EnabledWasProven
        <3>2. CASE task[c].op # "enable"
            BY <1>0, <2>1, <2>5, <3>2 DEF EnabledWasProven
        <3>3. QED
            BY <3>1, <3>2
    <2>9. Active' = Active /\ Enrolling' = Enrolling
        <3>1. TabMove(c, r)
            BY <1>0, <2>3, <2>4, TabMoves
        <3>2. QED
            BY <1>0, <2>1, <2>3, <3>1 DEF TabMove
    <2>10. SecretsKept'
        BY <1>0, <2>5, <2>9 DEF SecretsKept
    <2>11. Tried(TRUE, 0, 0, Active, Checking')
        <3>1. Active >= 1
            BY <1>0, <1>7, <2>1
        <3>2. QED
            BY <1>0, <1>d, <3>1, TriedRight
    <2>12. TriesKept'
        BY <2>1, <2>5, <2>9, <2>11 DEF TriesKept
    <2>13. QED
        BY <2>6, <2>7, <2>8, <2>10, <2>12 DEF MfaInv
<1>10. ASSUME NEW c \in Tabs, Generate(c) PROVE MfaInv'
    <2>1. UNCHANGED <<mfa, crossed, wrong, proven, accepted>>
        BY <1>10 DEF Generate, mfaRowVars
    <2>2. CASE Doing(c, {"generate"}, "read") /\ codes' = {} /\ Proceed(c, "create") /\ made' = made
        <3>1. PICK r : r = [task[c] EXCEPT !.at = "create"]
            OBVIOUS
        <3>2. Holds(r) /\ r.at = "create" /\ r.op = task[c].op
            BY <1>c, <3>1
        <3>3. /\ task[c].op = "generate" /\ task[c].at = "read"
              /\ task' = [task EXCEPT ![c] = r]
            BY <2>2, <3>1 DEF Doing, Proceed
        <3>4. Holds(r)'
            BY <2>1, <2>2, <3>2 DEF Holds
        <3>5. CodesKept'
            BY <1>0, <2>1, <2>2 DEF CodesKept
        <3>6. QED
            BY <1>0, <2>1, <2>2, <3>2, <3>3, <3>4, <3>5, CodesMove
    <2>3. CASE /\ Doing(c, {"generate"}, "create") /\ Leave(c)
               /\ \E b \in BackupCodes \ made : codes' = codes \cup {b} /\ made' = made \cup {b}
        <3>1. task[c].at = "create" /\ task' = [task EXCEPT ![c] = NoTask] /\ made \subseteq made'
            BY <2>3 DEF Doing, Leave
        <3>2. CodesKept'
            BY <1>0, <2>1, <2>3 DEF CodesKept
        <3>3. QED
            BY <1>0, <1>b, <2>1, <3>1, <3>2, Resting, CodesMove
    <2>4. QED
        BY <1>10, <2>2, <2>3 DEF Generate
<1>11. ASSUME NEW c \in Tabs, ListCodes(c) PROVE MfaInv'
    <2>1. PICK r : r = [task[c] EXCEPT !.at = "try", !.list = codes]
        OBVIOUS
    <2>2. r \in MfaTask /\ r.at = "try" /\ r.op = task[c].op /\ r.list = codes /\ r.secret = task[c].secret
        BY <1>0, <1>b, <2>1 DEF MfaTask, CodesKept
    <2>3. Holds(r)
        BY <1>0, <1>b, <2>2 DEF Holds, CodesKept
    <2>4. task' = [task EXCEPT ![c] = r] /\ UNCHANGED <<mfa, crossed, wrong, proven, codes, made, accepted>>
        BY <1>11, <2>1 DEF ListCodes, mfaRowVars, codeVars
    <2>5. QED
        BY <2>2, <2>3, <2>4, QuietMove
<1>12. ASSUME NEW c \in Tabs, NEW at \in {"apply", "bump"}, Proceed(c, at),
              UNCHANGED <<mfa, crossed, wrong, proven, codes, made, accepted>>
       PROVE  MfaInv'
    <2>1. PICK r : r = [task[c] EXCEPT !.at = at]
        OBVIOUS
    <2>2. Holds(r) /\ r.at = at /\ r.op = task[c].op
        BY <1>c, <2>1
    <2>3. task' = [task EXCEPT ![c] = r]
        BY <1>12, <2>1 DEF Proceed
    <2>4. QED
        BY <1>12, <2>2, <2>3, QuietMove
<1>13. ASSUME NEW c \in Tabs, NEW b \in BackupCodes, TryCode(c, b) PROVE MfaInv'
    <2>1. /\ task[c].op \in {"consume", "disable"} /\ task[c].at = "try"
          /\ UNCHANGED <<mfa, crossed, wrong, proven, made>>
        BY <1>13 DEF TryCode, Doing, mfaRowVars
    <2>2. CASE b \notin codes
        BY <1>2, <1>13, <2>1, <2>2 DEF TryCode, Unused
    <2>3. CASE b \in codes
        <3>1. PICK r : r = IF task[c].op = "disable" THEN [task[c] EXCEPT !.at = "apply"] ELSE NoTask
            OBVIOUS
        <3>2. Holds(r) /\ r.at \notin {"reset", "check"} /\ r.op # "enroll"
            <4>1. CASE task[c].op = "disable"
                BY <1>c, <3>1, <4>1
            <4>2. CASE task[c].op # "disable"
                BY <1>b, <3>1, <4>2, Resting
            <4>3. QED
                BY <4>1, <4>2
        <3>3. /\ task' = [task EXCEPT ![c] = r] /\ codes' = codes \ {b}
              /\ accepted' = [accepted EXCEPT ![b] = @ + 1]
            BY <1>13, <2>3, <3>1 DEF TryCode, Unused, Proceed, Leave
        <3>4. CodesKept'
            <4>1. accepted[b] = 0 /\ accepted \in [BackupCodes -> Nat]
                BY <1>0, <2>3 DEF CodesKept
            <4>2. /\ accepted' \in [BackupCodes -> Nat]
                  /\ \A e \in BackupCodes : accepted'[e] = IF e = b THEN 1 ELSE accepted[e]
                BY <3>3, <4>1
            <4>3. QED
                BY <1>0, <2>1, <2>3, <3>3, <4>2 DEF CodesKept
        <3>5. Holds(r)'
            BY <2>1, <3>2 DEF Holds
        <3>6. QED
            BY <1>0, <2>1, <3>2, <3>3, <3>4, <3>5, CodesMove
    <2>4. QED
        BY <2>2, <2>3
<1>14. ASSUME NEW c \in Tabs, Prove(c) PROVE MfaInv'
    <2>1. UNCHANGED <<mfa, crossed, wrong, proven, codes, made, accepted>>
        BY <1>14 DEF Prove, mfaRowVars, codeVars
    <2>2. Proceed(c, "apply") \/ Leave(c)
        BY <1>14 DEF Prove
    <2>3. QED
        BY <1>2, <1>12, <2>1, <2>2
<1>15. ASSUME NEW c \in Tabs, Disable(c) PROVE MfaInv'
    <2>1. PICK r : r = [task[c] EXCEPT !.at = "bump"]
        OBVIOUS
    <2>2. Holds(r) /\ r.at = "bump" /\ r.op = task[c].op
        BY <1>c, <2>1
    <2>3. /\ task[c].at = "apply" /\ task[c].op \in {"disable", "recover"}
          /\ task' = [task EXCEPT ![c] = r] /\ codes' = {}
          /\ UNCHANGED <<proven, crossed, wrong, made, accepted>>
        BY <1>15, <2>1 DEF Disable, Doing, Proceed
    <2>4. /\ mfa' \in MfaRow /\ mfa'.enabled = FALSE /\ mfa'.secret = mfa.secret
          /\ mfa'.tries = mfa.tries /\ mfa'.recent = mfa.recent
        BY <1>0, <1>15 DEF Disable, MfaRow
    <2>5. CodesKept'
        BY <1>0, <2>3 DEF CodesKept
    <2>6. Holds(r)'
        BY <2>2, <2>3, <2>4 DEF Holds
    <2>7. QED
        BY <2>2, <2>3, <2>4, <2>5, <2>6, CodesMove
<1>16. ASSUME NEW c \in Tabs, MakeKey(c) PROVE MfaInv'
    <2>1. /\ task[c].at = "read" /\ task' = [task EXCEPT ![c] = NoTask]
          /\ UNCHANGED <<proven, crossed, wrong, codes, made, accepted>>
        BY <1>16 DEF MakeKey, Doing, Leave, codeVars
    <2>2. /\ mfa' \in MfaRow /\ mfa'.enabled = mfa.enabled /\ mfa'.secret = mfa.secret
          /\ mfa'.tries = mfa.tries /\ mfa'.recent = mfa.recent
        BY <1>0, <1>16 DEF MakeKey, MfaRow
    <2>3. CodesKept'
        BY <1>0, <2>1 DEF CodesKept
    <2>4. QED
        BY <1>b, <2>1, <2>2, <2>3, Resting, CodesMove
<1>17. CASE TimeOut
    <2>1. mfa' = [mfa EXCEPT !.recent = FALSE] /\ wrong' = 0
          /\ UNCHANGED <<proven, crossed, codes, made, accepted, task>>
        BY <1>17 DEF TimeOut, codeVars
    <2>2. /\ mfa' \in MfaRow /\ mfa'.recent = FALSE /\ mfa'.enabled = mfa.enabled
          /\ mfa'.secret = mfa.secret
        BY <1>0, <2>1 DEF MfaRow
    <2>3. MfaTyped'
        BY <1>0, <2>1, <2>2 DEF MfaTyped, Holds
    <2>4. CodesKept' /\ EnabledWasProven' /\ TriesKept'
        BY <1>0, <2>1, <2>2 DEF CodesKept, EnabledWasProven, TriesKept, Tried
    <2>5. Enrolling' = Enrolling
        BY <2>1 DEF Enrolling, Running
    <2>6. SecretsKept'
        BY <1>0, <2>2, <2>5 DEF SecretsKept
    <2>7. QED
        BY <2>3, <2>4, <2>6 DEF MfaInv
<1>18. ASSUME NEW c \in Tabs, NoMatch(c) \/ BumpMfa(c) \/ CrashMfa(c) PROVE MfaInv'
    <2>1. Leave(c) /\ UNCHANGED <<mfa, crossed, wrong, proven, codes, made, accepted>>
        BY <1>18 DEF NoMatch, BumpMfa, CrashMfa, mfaRowVars, codeVars
    <2>2. QED
        BY <1>2, <2>1
<1>19. QED
    BY <1>1, <1>3, <1>4, <1>5, <1>6, <1>8, <1>9, <1>10, <1>11, <1>13, <1>14, <1>15, <1>16, <1>17,
       <1>18 DEF MfaNext

LEMMA MfaInvSafe == MfaInv => MfaTypeOK /\ CodeOnce /\ EnabledWasProven /\ WrongBounded
<1> SUFFICES ASSUME MfaInv PROVE MfaTypeOK /\ CodeOnce /\ EnabledWasProven /\ WrongBounded
    OBVIOUS
<1>1. MfaTyped /\ CodesKept /\ SecretsKept /\ EnabledWasProven /\ TriesKept
    BY DEF MfaInv
<1>2. /\ Active \in Nat /\ Cardinality(Tabs) \in Nat /\ Active <= Cardinality(Tabs)
      /\ Checking \in Nat /\ Checking <= Active /\ Enrolling \in Nat
    BY TabsCounted
<1>3. MaxAttempts \in Nat /\ MaxAttempts >= 1 /\ MaxSecrets \in Nat
    BY MfaAssumption
<1>4. mfa.secret \in 0..MaxSecrets
    <2>1. mfa.secret \in Nat
        BY <1>1 DEF MfaTyped, MfaRow
    <2>2. QED
        BY <1>1, <1>2, <1>3, <2>1 DEF SecretsKept
<1>5. MfaTypeOK
    <2>1. mfa \in [enabled : BOOLEAN, secret : 0..MaxSecrets, tries : Nat, recent : BOOLEAN,
                   key : {"none", "set", "used"}]
        BY <1>1, <1>4 DEF MfaTyped, MfaRow
    <2>2. \A c \in Tabs : task[c].list \subseteq made
        BY <1>1 DEF MfaTyped, Holds
    <2>3. QED
        BY <1>1, <2>1, <2>2 DEF CodesKept, MfaTypeOK
<1>6. CodeOnce
    BY <1>1 DEF CodesKept, CodeOnce
<1>7. WrongBounded
    <2>1. wrong \in Nat /\ mfa.tries \in Nat
        BY <1>1 DEF MfaTyped, MfaRow
    <2>2. /\ Room(Active) \in Nat /\ Room(Active) <= Room(Cardinality(Tabs))
          /\ Room(Cardinality(Tabs)) \in Nat
        BY <1>2, RoomGrows
    <2>3. 2 * wrong <= Room(Active)
        <3>1. CASE mfa.recent
            BY <1>1, <1>2, <1>3, <2>1, <2>2, <3>1 DEF TriesKept, Tried
        <3>2. CASE ~mfa.recent
            BY <1>1, <2>2, <3>2 DEF TriesKept, Tried
        <3>3. QED
            BY <3>1, <3>2
    <2>4. 2 * wrong <= Room(Cardinality(Tabs))
        BY <2>1, <2>2, <2>3
    <2>5. QED
        BY <2>4 DEF WrongBounded, Room
<1>8. QED
    BY <1>1, <1>5, <1>6, <1>7

(* However the requests of one user interleave, crash and race an          *)
(* enrolment: a backup code counts once, MFA is only ever enabled for a    *)
(* secret that was proven, and wrong codes stay within what the limit      *)
(* allows the requests under way.                                          *)
THEOREM SecondFactorHolds ==
    MfaSpec => [](MfaTypeOK /\ CodeOnce /\ EnabledWasProven /\ WrongBounded)
BY MfaInitInv, MfaStepInv, MfaInvSafe, PTL DEF MfaSpec

-----------------------------------------------------------------------------
(* RequestPipeline.  How far a request has come says which checks it has   *)
(* passed, and only a handler that committed has had an effect.            *)

Stages == {"idle", "csrf", "permissions", "token", "pipe", "handler", "committed", "answered"}
Tokens == {"none", "bad", "good"}
Replies == [status : {0} \cup 200..500, code : Codes]
ErrorReplies == [status : 400..500, code : Codes]

Call == [at : Stages, route : Routes, safe : BOOLEAN, csrf : BOOLEAN, token : Tokens,
         valid : BOOLEAN, effects : {0, 1}, marks : {0, 1, 2}, retried : BOOLEAN,
         answer : Replies]

Checked(s, ats) ==
    /\ s.at \in ats \cup {"permissions", "token", "pipe", "handler", "committed"} => s.safe \/ s.csrf
    /\ s.at \in ats \cup {"token", "pipe", "handler", "committed"} => s.route # "admin"
    /\ s.at \in ats \cup {"pipe", "handler", "committed"} => (s.route \in {"member", "code"} => s.token = "good")
    /\ s.at \in ats \cup {"handler", "committed"} => s.valid

CallOK(s) ==
    /\ s \in Call
    /\ Checked(s, IF s.effects = 1 THEN {"answered"} ELSE {})
    /\ s.at \notin {"committed", "answered"} =>
          s.effects = 0 /\ (s.marks = 0 \/ (s.retried /\ s.marks = 1))
    /\ s.at = "committed" =>
          s.effects = 1 /\ (s.marks = 0 \/ (s.retried /\ s.marks = 1))
    /\ s.marks = 2 => s.retried
    /\ s.marks > 0 => s.route \in MarkingRoutes
    /\ s.route = "refresh" => ~s.retried
    /\ s.at = "answered" => /\ s.answer.status < 400 => s.effects = 1
                            /\ s.answer.status \in 400..499 => s.effects = 0

PipeInv == submits \in 0..MaxSubmits /\ submit \in [Calls -> Call] /\ \A c \in Calls : CallOK(submit[c])

(* What is thrown is answered by an error; what is thrown after a commit,  *)
(* by one of the server.                                                   *)
LEMMA Answers ==
    ASSUME NEW s \in 200..500, NEW k \in Codes
    PROVE  /\ Answer(s, k).status = s
           /\ Answer(s, k) \in Replies
           /\ s >= 400 => Answer(s, k) \in ErrorReplies
BY DEF Answer, Replies, ErrorReplies

LEMMA Throws ==
    ASSUME NEW k, NEW s, NEW c
    PROVE  /\ Thrown(k, s, c).class = k /\ Thrown(k, s, c).status = s /\ Thrown(k, s, c).code = c
BY DEF Thrown

LEMMA AnswersTo ==
    ASSUME NEW s, NEW c
    PROVE  /\ AnswerTo(Thrown("app", s, c)) = Answer(s, c)
           /\ AnswerTo(Thrown("jwt", s, c)) = Answer(401, c)
           /\ AnswerTo(Thrown("error", s, c)) = Answer(500, "INTERNAL_ERROR")
           /\ AnswerTo(Thrown("other", s, c)) = Answer(500, "UNKNOWN_ERROR")
           /\ AnswerTo(Thrown("http", s, c)) = HttpAnswer(Thrown("http", s, c))
           /\ AnswerTo(Thrown("prisma", s, c)) = PrismaAnswer(Thrown("prisma", s, c))
<1>1. AnswerTo(Thrown("app", s, c)) = Answer(s, c)
    BY Throws DEF AnswerTo, AppAnswer
<1>2. AnswerTo(Thrown("jwt", s, c)) = Answer(401, c)
    BY Throws DEF AnswerTo, JwtAnswer
<1>3. AnswerTo(Thrown("error", s, c)) = Answer(500, "INTERNAL_ERROR")
    BY Throws DEF AnswerTo, GenericAnswer
<1>4. AnswerTo(Thrown("other", s, c)) = Answer(500, "UNKNOWN_ERROR")
    BY Throws DEF AnswerTo, UnknownAnswer
<1>5. AnswerTo(Thrown("http", s, c)) = HttpAnswer(Thrown("http", s, c))
    BY Throws DEF AnswerTo
<1>6. AnswerTo(Thrown("prisma", s, c)) = PrismaAnswer(Thrown("prisma", s, c))
    BY Throws DEF AnswerTo
<1>7. QED
    BY <1>1, <1>2, <1>3, <1>4, <1>5, <1>6

LEMMA HttpAnswers ==
    ASSUME NEW s \in {400, 401, 403, 404, 409, 429}
    PROVE  /\ AnswerTo(Thrown("http", s, "none")) \in ErrorReplies
           /\ AnswerTo(Thrown("http", s, "none")).status = s
<1>1. DOMAIN CodeOfStatus = {400, 401, 403, 404, 409, 422, 429, 500}
    BY DEF CodeOfStatus
<1>2. CodeOfStatus[s] \in Codes
    <2>1. /\ CodeOfStatus[400] = "BAD_REQUEST" /\ CodeOfStatus[401] = "UNAUTHORIZED"
          /\ CodeOfStatus[403] = "FORBIDDEN"
        BY DEF CodeOfStatus
    <2>2. /\ CodeOfStatus[404] = "NOT_FOUND" /\ CodeOfStatus[409] = "CONFLICT"
          /\ CodeOfStatus[429] = "TOO_MANY_REQUESTS"
        BY DEF CodeOfStatus
    <2>3. QED
        BY <2>1, <2>2 DEF Codes
<1>3. HttpAnswer(Thrown("http", s, "none")) = Answer(s, CodeOfStatus[s])
    BY <1>1, Throws DEF HttpAnswer
<1>4. AnswerTo(Thrown("http", s, "none")) = HttpAnswer(Thrown("http", s, "none"))
    BY AnswersTo
<1>5. ASSUME NEW n \in 400..500, NEW k \in Codes
      PROVE  Answer(n, k).status = n /\ Answer(n, k) \in ErrorReplies
    <2>1. n \in 200..500 /\ n >= 400
        OBVIOUS
    <2>2. QED
        BY <2>1 DEF Answer, Replies, ErrorReplies
<1>6. s \in 400..500
    OBVIOUS
<1>7. Answer(s, CodeOfStatus[s]).status = s /\ Answer(s, CodeOfStatus[s]) \in ErrorReplies
    BY <1>2, <1>5, <1>6
<1>8. QED
    BY <1>3, <1>4, <1>7

LEMMA PrismasAnswered ==
    ASSUME NEW c
    PROVE  /\ PrismaAnswer(Thrown("prisma", 0, c)) \in ErrorReplies
           /\ c = "P1001" => PrismaAnswer(Thrown("prisma", 0, c)) = Answer(500, "DATABASE_ERROR")
<1>1. DOMAIN PrismaAnswers = {"P2002", "P2025", "P2003", "P2014", "P2000", "P2001"}
    BY DEF PrismaAnswers
<1>2. PrismaAnswer(Thrown("prisma", 0, c)) =
          IF c \in DOMAIN PrismaAnswers THEN PrismaAnswers[c] ELSE Answer(500, "DATABASE_ERROR")
    BY Throws DEF PrismaAnswer
<1>3. /\ PrismaAnswers["P2002"] = Answer(409, "DUPLICATE_ENTRY")
      /\ PrismaAnswers["P2025"] = Answer(404, "NOT_FOUND")
      /\ PrismaAnswers["P2003"] = Answer(400, "INVALID_RELATION")
      /\ PrismaAnswers["P2014"] = Answer(400, "REQUIRED_RELATION_MISSING")
      /\ PrismaAnswers["P2000"] = Answer(400, "VALUE_TOO_LONG")
      /\ PrismaAnswers["P2001"] = Answer(404, "RECORD_NOT_FOUND")
    BY DEF PrismaAnswers
<1>4. /\ Answer(409, "DUPLICATE_ENTRY") \in ErrorReplies /\ Answer(404, "NOT_FOUND") \in ErrorReplies
      /\ Answer(400, "INVALID_RELATION") \in ErrorReplies
      /\ Answer(400, "REQUIRED_RELATION_MISSING") \in ErrorReplies
      /\ Answer(400, "VALUE_TOO_LONG") \in ErrorReplies
      /\ Answer(404, "RECORD_NOT_FOUND") \in ErrorReplies
      /\ Answer(500, "DATABASE_ERROR") \in ErrorReplies
    BY DEF Answer, ErrorReplies, Codes
<1>5. CASE c \in DOMAIN PrismaAnswers
    <2>1. PrismaAnswers[c] \in ErrorReplies
        BY <1>1, <1>3, <1>4, <1>5
    <2>2. c # "P1001"
        BY <1>1, <1>5
    <2>3. QED
        BY <1>2, <1>5, <2>1, <2>2
<1>6. CASE c \notin DOMAIN PrismaAnswers
    BY <1>2, <1>4, <1>6
<1>7. QED
    BY <1>5, <1>6

LEMMA RefusalsAnswered ==
    ASSUME NEW e \in Refusals \cup {Forbidden, Unauthorized, ValidationException}
    PROVE  AnswerTo(e) \in ErrorReplies
<1>1. CASE \E s \in {400, 401, 403, 404, 409, 429} : e = Thrown("http", s, "none")
    <2>1. PICK s \in {400, 401, 403, 404, 409, 429} : e = Thrown("http", s, "none")
        BY <1>1
    <2>2. QED
        BY <2>1, HttpAnswers
<1>2. CASE \E c \in {"P2002", "P2003", "P2034"} : e = Thrown("prisma", 0, c)
    <2>1. PICK c \in {"P2002", "P2003", "P2034"} : e = Thrown("prisma", 0, c)
        BY <1>2
    <2>2. AnswerTo(Thrown("prisma", 0, c)) = PrismaAnswer(Thrown("prisma", 0, c))
        BY AnswersTo
    <2>3. PrismaAnswer(Thrown("prisma", 0, c)) \in ErrorReplies
        BY PrismasAnswered
    <2>4. QED
        BY <2>1, <2>2, <2>3
<1>3. CASE e = Thrown("app", 409, "CONFLICT") \/ e = Thrown("app", 422, "VALIDATION_ERROR")
    <2>1. /\ AnswerTo(Thrown("app", 409, "CONFLICT")) = Answer(409, "CONFLICT")
          /\ AnswerTo(Thrown("app", 422, "VALIDATION_ERROR")) = Answer(422, "VALIDATION_ERROR")
        BY AnswersTo
    <2>2. Answer(409, "CONFLICT") \in ErrorReplies /\ Answer(422, "VALIDATION_ERROR") \in ErrorReplies
        BY DEF Answer, ErrorReplies, Codes
    <2>3. QED
        BY <1>3, <2>1, <2>2
<1>4. CASE e = Thrown("jwt", 0, "TOKEN_EXPIRED")
    <2>1. AnswerTo(Thrown("jwt", 0, "TOKEN_EXPIRED")) = Answer(401, "TOKEN_EXPIRED")
        BY AnswersTo
    <2>2. Answer(401, "TOKEN_EXPIRED") \in ErrorReplies
        BY DEF Answer, ErrorReplies, Codes
    <2>3. QED
        BY <1>4, <2>1, <2>2
<1>5. QED
    BY <1>1, <1>2, <1>3, <1>4 DEF Refusals, Forbidden, Unauthorized, ValidationException

LEMMA ErrorsAnswered ==
    ASSUME NEW e \in LateErrors
    PROVE  AnswerTo(e).status = 500 /\ AnswerTo(e) \in ErrorReplies
<1>1. AnswerTo(Thrown("error", 0, "none")) = Answer(500, "INTERNAL_ERROR")
    BY AnswersTo
<1>2. AnswerTo(Thrown("other", 0, "none")) = Answer(500, "UNKNOWN_ERROR")
    BY AnswersTo
<1>3. AnswerTo(Thrown("prisma", 0, "P1001")) = PrismaAnswer(Thrown("prisma", 0, "P1001"))
    BY AnswersTo
<1>4. PrismaAnswer(Thrown("prisma", 0, "P1001")) = Answer(500, "DATABASE_ERROR")
    BY PrismasAnswered
<1>5. AnswerTo(e) = Answer(500, "INTERNAL_ERROR") \/ AnswerTo(e) = Answer(500, "UNKNOWN_ERROR")
          \/ AnswerTo(e) = Answer(500, "DATABASE_ERROR")
    BY <1>1, <1>2, <1>3, <1>4 DEF LateErrors
<1>6. QED
    BY <1>5 DEF Answer, ErrorReplies, Codes

LEMMA NoCall == CallOK(NoSubmit) /\ NoSubmit \in Call
<1>1. Unanswered \in Replies
    BY DEF Unanswered, Answer, Replies, Codes
<1>2. NoSubmit \in Call
    <2>1. "idle" \in Stages /\ "public" \in Routes /\ "none" \in Tokens
        BY DEF Stages, Routes, Tokens
    <2>2. QED
        BY <1>1, <2>1 DEF NoSubmit, Call
<1>3. /\ NoSubmit.at = "idle" /\ NoSubmit.effects = 0 /\ NoSubmit.marks = 0
      /\ ~NoSubmit.retried /\ NoSubmit.route = "public"
    BY DEF NoSubmit
<1>4. Checked(NoSubmit, {})
    BY <1>3 DEF Checked
<1>5. QED
    BY <1>2, <1>3, <1>4 DEF CallOK

LEMMA PipeInitInv == PipeInit => PipeInv
<1> SUFFICES ASSUME PipeInit PROVE PipeInv
    OBVIOUS
<1>1. CallOK(NoSubmit) /\ NoSubmit \in Call
    BY NoCall
<1>2. QED
    BY <1>1, PipeAssumption DEF PipeInit, PipeInv

LEMMA CallMoves ==
    ASSUME PipeInv, NEW c \in Calls, NEW r, CallOK(r), submit' = [submit EXCEPT ![c] = r],
           submits' \in 0..MaxSubmits
    PROVE  PipeInv'
<1>1. r \in Call
    BY DEF CallOK
<1>2. submit' \in [Calls -> Call] /\ \A d \in Calls : submit'[d] = IF d = c THEN r ELSE submit[d]
    BY <1>1 DEF PipeInv
<1>3. \A d \in Calls : CallOK(submit'[d])
    BY <1>2 DEF PipeInv
<1>4. QED
    BY <1>2, <1>3 DEF PipeInv

(* A step on the way, and what throws before the commit.                   *)
LEMMA CallSteps ==
    ASSUME PipeInv, NEW c \in Calls, UNCHANGED submits,
           NEW at \in {"permissions", "token", "pipe", "handler"}, Step(c, at),
           submit[c].at \notin {"committed", "answered"},
           \A r : r = [submit[c] EXCEPT !.at = at] => Checked(r, {})
    PROVE  PipeInv'
<1>1. CallOK(submit[c]) /\ submits' \in 0..MaxSubmits
    BY DEF PipeInv
<1>2. PICK r : r = [submit[c] EXCEPT !.at = at]
    OBVIOUS
<1>7. submit[c] \in Call /\ at \in Stages
    BY <1>1 DEF CallOK, Stages
<1>3. /\ r \in Call /\ r.at = at /\ r.effects = submit[c].effects /\ r.marks = submit[c].marks
      /\ r.retried = submit[c].retried /\ r.route = submit[c].route
    BY <1>2, <1>7 DEF Call
<1>8. Checked(r, IF r.effects = 1 THEN {"answered"} ELSE {})
    <2>1. Checked(r, {}) /\ submit[c].effects = 0
        BY <1>1, <1>2 DEF CallOK
    <2>2. QED
        BY <1>3, <2>1
<1>4. CallOK(r)
    <2>1. /\ submit[c].effects = 0 /\ (submit[c].marks = 0 \/ (submit[c].retried /\ submit[c].marks = 1))
          /\ submit[c].marks > 0 => submit[c].route \in MarkingRoutes
          /\ submit[c].route = "refresh" => ~submit[c].retried
        BY <1>1 DEF CallOK
    <2>2. QED
        BY <1>3, <1>8, <2>1 DEF CallOK
<1>5. submit' = [submit EXCEPT ![c] = r]
    BY <1>2 DEF Step
<1>6. QED
    BY <1>1, <1>4, <1>5, CallMoves

AnsweredBy(c, a) == submit' = [submit EXCEPT ![c].at = "answered", ![c].answer = a]

(* What was not committed, or is answered by an error of the server.       *)
MayFail(c, a) == submit[c].at \notin {"committed", "answered"} \/ (submit[c].at = "committed" /\ a.status = 500)

LEMMA CallFails ==
    ASSUME PipeInv, NEW c \in Calls, UNCHANGED submits,
           NEW a \in ErrorReplies,
           AnsweredBy(c, a),
           MayFail(c, a)
    PROVE  PipeInv'
<1>1. CallOK(submit[c]) /\ submits' \in 0..MaxSubmits
    BY DEF PipeInv
<1>2. PICK r : r = [submit[c] EXCEPT !.at = "answered", !.answer = a]
    OBVIOUS
<1>8. submit[c] \in Call /\ a \in Replies /\ "answered" \in Stages /\ a.status >= 400
    BY <1>1 DEF CallOK, Replies, ErrorReplies, Stages
<1>3. /\ r \in Call /\ r.at = "answered" /\ r.effects = submit[c].effects /\ r.answer = a
      /\ r.marks = submit[c].marks /\ r.retried = submit[c].retried /\ r.safe = submit[c].safe
      /\ r.csrf = submit[c].csrf /\ r.route = submit[c].route /\ r.token = submit[c].token
      /\ r.valid = submit[c].valid
    BY <1>2, <1>8 DEF Call
<1>4. Checked(r, IF r.effects = 1 THEN {"answered"} ELSE {})
    BY <1>1, <1>3 DEF CallOK, Checked, MayFail
<1>5. CallOK(r)
    <2>1. /\ r.marks = 2 => r.retried
          /\ r.marks > 0 => r.route \in MarkingRoutes
          /\ r.route = "refresh" => ~r.retried
        BY <1>1, <1>3 DEF CallOK
    <2>2. r.answer.status >= 400 /\ (r.answer.status \in 400..499 => r.effects = 0)
        <3>1. CASE a.status = 500
            BY <1>3, <3>1
        <3>2. CASE submit[c].at \notin {"committed", "answered"}
            BY <1>1, <1>3, <1>8, <3>2 DEF CallOK
        <3>3. QED
            BY <3>1, <3>2 DEF MayFail
    <2>3. r.answer.status < 400 => r.effects = 1
        BY <1>3, <1>8, <2>2 DEF Replies
    <2>4. QED
        BY <1>3, <1>4, <2>1, <2>2, <2>3 DEF CallOK
<1>6. submit' = [submit EXCEPT ![c] = r]
    BY <1>2 DEF AnsweredBy
<1>7. QED
    BY <1>1, <1>5, <1>6, CallMoves

LEMMA PipeStepInv == PipeInv /\ [PipeNext]_pipeVars => PipeInv'
<1> SUFFICES ASSUME PipeInv, [PipeNext]_pipeVars PROVE PipeInv'
    OBVIOUS
<1>1. CASE UNCHANGED pipeVars
    BY <1>1 DEF pipeVars, PipeInv
<1>2. ASSUME NEW c \in Calls
      PROVE  CallOK(submit[c]) /\ submit[c] \in Call /\ submits \in 0..MaxSubmits
    BY DEF PipeInv
<1>3. ASSUME NEW c \in Calls, SubmitCall(c) PROVE PipeInv'
    <2>1. submits' \in 0..MaxSubmits
        BY <1>3, PipeAssumption DEF SubmitCall, PipeInv
    <2>2. PICK route \in Routes, safe \in BOOLEAN, csrf \in BOOLEAN, valid \in BOOLEAN,
               mark \in {"none", "bad", "good"} :
             submit' = [submit EXCEPT ![c] =
                 [NoSubmit EXCEPT !.at = "csrf", !.route = route, !.safe = safe, !.csrf = csrf,
                                  !.valid = valid, !.token = mark]]
        BY <1>3 DEF SubmitCall
    <2>3. PICK r : r = [NoSubmit EXCEPT !.at = "csrf", !.route = route, !.safe = safe, !.csrf = csrf,
                                        !.valid = valid, !.token = mark]
        OBVIOUS
    <2>4. r \in Call /\ r.at = "csrf" /\ r.effects = 0 /\ r.marks = 0 /\ ~r.retried
        <3>1. NoSubmit \in Call /\ NoSubmit.effects = 0 /\ NoSubmit.marks = 0 /\ ~NoSubmit.retried
            BY NoCall DEF NoSubmit
        <3>2. "csrf" \in Stages /\ mark \in Tokens
            BY DEF Stages, Tokens
        <3>3. QED
            BY <2>3, <3>1, <3>2 DEF Call
    <2>5. CallOK(r)
        BY <2>4 DEF CallOK, Checked
    <2>6. QED
        BY <2>1, <2>2, <2>3, <2>5, CallMoves
<1>4. ASSUME NEW c \in Calls, CheckCsrf(c) PROVE PipeInv'
    <2>1. submit[c].at = "csrf" /\ UNCHANGED submits
        BY <1>4 DEF CheckCsrf, At
    <2>2. CASE Step(c, "permissions") /\ (submit[c].safe \/ submit[c].csrf)
        <3>1. \A r : r = [submit[c] EXCEPT !.at = "permissions"] => Checked(r, {})
            BY <1>2, <2>2 DEF Checked, Call
        <3>2. QED
            BY <2>1, <2>2, <3>1, CallSteps
    <2>3. CASE submit' = [submit EXCEPT ![c].at = "answered", ![c].answer = Answer(403, "FORBIDDEN")]
        <3>1. Answer(403, "FORBIDDEN") \in ErrorReplies
            BY DEF Answer, ErrorReplies, Codes
        <3>2. QED
            BY <2>1, <2>3, <3>1, CallFails DEF AnsweredBy, MayFail
    <2>4. CASE Fail(c, Thrown("error", 0, "none"))
        <3>1. AnswerTo(Thrown("error", 0, "none")) \in ErrorReplies
            BY ErrorsAnswered DEF LateErrors
        <3>2. QED
            BY <2>1, <2>4, <3>1, CallFails DEF Fail, AnsweredBy, MayFail
    <2>5. QED
        BY <1>4, <2>2, <2>3, <2>4 DEF CheckCsrf
<1>a. /\ AnswerTo(Forbidden) \in ErrorReplies
      /\ AnswerTo(Unauthorized) \in ErrorReplies
      /\ AnswerTo(ValidationException) \in ErrorReplies
    BY RefusalsAnswered
<1>5. ASSUME NEW c \in Calls, CheckPermissions(c) PROVE PipeInv'
    <2>1. submit[c].at = "permissions" /\ UNCHANGED submits
        BY <1>5 DEF CheckPermissions, At
    <2>2. CASE Step(c, "token") /\ submit[c].route # "admin"
        <3>1. \A r : r = [submit[c] EXCEPT !.at = "token"] => Checked(r, {})
            BY <1>2, <2>1, <2>2 DEF CallOK, Checked, Call
        <3>2. QED
            BY <2>1, <2>2, <3>1, CallSteps
    <2>3. CASE Fail(c, Forbidden)
        BY <1>a, <2>1, <2>3, CallFails DEF Fail, AnsweredBy, MayFail
    <2>4. QED
        BY <1>5, <2>2, <2>3 DEF CheckPermissions
<1>6. ASSUME NEW c \in Calls, CheckToken(c) PROVE PipeInv'
    <2>1. submit[c].at = "token" /\ UNCHANGED submits
        BY <1>6 DEF CheckToken, At
    <2>2. CASE Step(c, "pipe") /\ (submit[c].route \notin {"member", "code"} \/ submit[c].token = "good")
        <3>1. \A r : r = [submit[c] EXCEPT !.at = "pipe"] => Checked(r, {})
            BY <1>2, <2>1, <2>2 DEF CallOK, Checked, Call
        <3>2. QED
            BY <2>1, <2>2, <3>1, CallSteps
    <2>3. CASE Fail(c, Unauthorized)
        BY <1>a, <2>1, <2>3, CallFails DEF Fail, AnsweredBy, MayFail
    <2>4. QED
        BY <1>6, <2>2, <2>3 DEF CheckToken
<1>7. ASSUME NEW c \in Calls, Validate(c) PROVE PipeInv'
    <2>1. submit[c].at = "pipe" /\ UNCHANGED submits
        BY <1>7 DEF Validate, At
    <2>2. CASE Step(c, "handler") /\ submit[c].valid
        <3>1. \A r : r = [submit[c] EXCEPT !.at = "handler"] => Checked(r, {})
            BY <1>2, <2>1, <2>2 DEF CallOK, Checked, Call
        <3>2. QED
            BY <2>1, <2>2, <3>1, CallSteps
    <2>3. CASE Fail(c, ValidationException)
        BY <1>a, <2>1, <2>3, CallFails DEF Fail, AnsweredBy, MayFail
    <2>4. QED
        BY <1>7, <2>2, <2>3 DEF Validate
<1>8. ASSUME NEW c \in Calls, RefuseAndMark(c) PROVE PipeInv'
    <2>1. PICK e \in {Unauthorized} \cup LateErrors :
              submit' = [submit EXCEPT ![c].at = "answered", ![c].answer = AnswerTo(e), ![c].marks = @ + 1]
        BY <1>8 DEF RefuseAndMark
    <2>2. submit[c].at = "handler" /\ submits' = submits /\ submit[c].route \in MarkingRoutes
        BY <1>8 DEF RefuseAndMark, At
    <2>3. PICK a \in ErrorReplies : a = AnswerTo(e)
        <3>1. CASE e = Unauthorized
            BY <3>1, RefusalsAnswered
        <3>2. CASE e \in LateErrors
            BY <3>2, ErrorsAnswered
        <3>3. QED
            BY <3>1, <3>2
    <2>4. /\ submit[c].effects = 0 /\ submit[c].marks \in {0, 1}
          /\ submit[c].marks = 1 => submit[c].retried
          /\ submit[c].route = "refresh" => ~submit[c].retried
        BY <1>2, <2>2 DEF CallOK
    <2>5. PICK r : r = [submit[c] EXCEPT !.at = "answered", !.answer = a, !.marks = @ + 1]
        OBVIOUS
    <2>6. submit' = [submit EXCEPT ![c] = r]
        BY <2>1, <2>3, <2>5
    <2>7. /\ r \in Call /\ r.at = "answered" /\ r.effects = 0 /\ r.answer = a
          /\ r.marks = submit[c].marks + 1 /\ r.retried = submit[c].retried
          /\ r.route = submit[c].route
        <3>1. submit[c] \in Call /\ submit[c].marks + 1 \in {0, 1, 2} /\ "answered" \in Stages
              /\ a \in Replies
            BY <1>2, <2>3, <2>4 DEF Stages, ErrorReplies, Replies
        <3>2. r \in Call
            BY <2>5, <3>1 DEF Call
        <3>3. /\ r.at = "answered" /\ r.effects = submit[c].effects /\ r.answer = a
              /\ r.marks = submit[c].marks + 1 /\ r.retried = submit[c].retried
              /\ r.route = submit[c].route
            BY <2>5, <3>1 DEF Call
        <3>4. QED
            BY <2>4, <3>2, <3>3
    <2>8. CallOK(r)
        <3>1. a.status >= 400
            BY <2>3 DEF ErrorReplies
        <3>2. r.marks = 2 => r.retried
            BY <2>4, <2>7
        <3>3. ~(r.answer.status < 400)
            BY <2>3, <2>7, <3>1 DEF ErrorReplies
        <3>4. QED
            BY <2>2, <2>4, <2>7, <3>2, <3>3 DEF CallOK, Checked
    <2>9. QED
        BY <1>2, <2>2, <2>6, <2>8, CallMoves
<1>9. ASSUME NEW c \in Calls, Handle(c) PROVE PipeInv'
    <2>1. submit[c].at = "handler" /\ submits' = submits
        BY <1>9 DEF Handle, At
    <2>2. CASE submit' = [submit EXCEPT ![c].at = "committed", ![c].effects = @ + 1]
        <3>1. PICK r : r = [submit[c] EXCEPT !.at = "committed", !.effects = @ + 1]
            OBVIOUS
        <3>2. submit[c].effects = 0
            BY <1>2, <2>1 DEF CallOK
        <3>3. /\ r \in Call /\ r.at = "committed" /\ r.effects = 1
              /\ r.marks = submit[c].marks /\ r.retried = submit[c].retried
              /\ r.safe = submit[c].safe /\ r.csrf = submit[c].csrf /\ r.route = submit[c].route
              /\ r.token = submit[c].token /\ r.valid = submit[c].valid
            <4>1. submit[c] \in Call /\ submit[c].effects + 1 \in {0, 1} /\ "committed" \in Stages
                BY <1>2, <3>2 DEF Stages
            <4>2. r.effects = 1
                BY <3>1, <3>2, <4>1 DEF Call
            <4>3. QED
                BY <3>1, <4>1, <4>2 DEF Call
        <3>4. CallOK(r)
            BY <1>2, <2>1, <3>3 DEF CallOK, Checked
        <3>5. submit' = [submit EXCEPT ![c] = r]
            BY <2>2, <3>1
        <3>6. QED
            BY <1>2, <2>1, <3>4, <3>5, CallMoves
    <2>3. ASSUME NEW e \in Refusals, Fail(c, e) PROVE PipeInv'
        <3>1. AnswerTo(e) \in ErrorReplies
            BY RefusalsAnswered
        <3>2. QED
            BY <2>1, <2>3, <3>1, CallFails DEF Fail, AnsweredBy, MayFail
    <2>4. QED
        BY <1>9, <2>2, <2>3 DEF Handle
<1>10. ASSUME NEW c \in Calls, Reply(c) PROVE PipeInv'
    <2>1. submit[c].at = "committed" /\ submits' = submits
        BY <1>10 DEF Reply, At
    <2>2. CASE submit' = [submit EXCEPT ![c].at = "answered", ![c].answer = Answer(200, "none")]
        <3>1. PICK r : r = [submit[c] EXCEPT !.at = "answered", !.answer = Answer(200, "none")]
            OBVIOUS
        <3>2. /\ r \in Call /\ r.at = "answered" /\ r.effects = 1 /\ r.answer.status = 200
              /\ r.marks = submit[c].marks /\ r.retried = submit[c].retried
              /\ r.safe = submit[c].safe /\ r.csrf = submit[c].csrf /\ r.route = submit[c].route
              /\ r.token = submit[c].token /\ r.valid = submit[c].valid
            <4>1. Answer(200, "none") \in Replies /\ Answer(200, "none").status = 200
                BY DEF Answer, Replies, Codes
            <4>2. submit[c] \in Call /\ submit[c].effects = 1 /\ "answered" \in Stages
                BY <1>2, <2>1 DEF CallOK, Stages
            <4>3. PICK a \in Replies : a = Answer(200, "none") /\ a.status = 200
                BY <4>1
            <4>4. r = [submit[c] EXCEPT !.at = "answered", !.answer = a]
                BY <3>1, <4>3
            <4>5. r \in Call /\ r.at = "answered" /\ r.answer = a
                BY <4>2, <4>4 DEF Call
            <4>6. /\ r.effects = submit[c].effects /\ r.marks = submit[c].marks
                  /\ r.retried = submit[c].retried /\ r.safe = submit[c].safe
                  /\ r.csrf = submit[c].csrf /\ r.route = submit[c].route
                  /\ r.token = submit[c].token /\ r.valid = submit[c].valid
                BY <4>2, <4>4 DEF Call
            <4>7. QED
                BY <4>2, <4>3, <4>5, <4>6
        <3>3. CallOK(r)
            BY <1>2, <2>1, <3>2 DEF CallOK, Checked
        <3>4. submit' = [submit EXCEPT ![c] = r]
            BY <2>2, <3>1
        <3>5. QED
            BY <1>2, <2>1, <3>3, <3>4, CallMoves
    <2>3. ASSUME NEW e \in LateErrors, Fail(c, e) PROVE PipeInv'
        <3>1. AnswerTo(e) \in ErrorReplies /\ AnswerTo(e).status = 500
            BY ErrorsAnswered
        <3>2. AnsweredBy(c, AnswerTo(e)) /\ MayFail(c, AnswerTo(e))
            BY <2>1, <2>3, <3>1 DEF Fail, AnsweredBy, MayFail
        <3>3. QED
            BY <2>1, <3>1, <3>2, CallFails
    <2>4. QED
        BY <1>10, <2>2, <2>3 DEF Reply
<1>11. ASSUME NEW c \in Calls, Replay(c) PROVE PipeInv'
    <2>1. PICK r : r = [submit[c] EXCEPT !.at = "csrf", !.retried = TRUE, !.token = "good",
                                         !.answer = Unanswered]
        OBVIOUS
    <2>2. /\ submit[c].at = "answered" /\ submit[c].answer.status = 401 /\ ~submit[c].retried
          /\ submits' = submits /\ submit[c].route # "refresh"
        BY <1>11 DEF Replay, Replayable, Hangs, At
    <2>7. submit' = [submit EXCEPT ![c] = r]
        BY <1>11, <2>1 DEF Replay
    <2>3. submit[c].effects = 0 /\ submit[c].marks \in {0, 1}
        <3>1. submit[c].answer.status \in 400..499 /\ submit[c].marks \in {0, 1, 2}
            BY <1>2, <2>2 DEF Call
        <3>2. QED
            BY <1>2, <2>2, <3>1 DEF CallOK
    <2>4. /\ r \in Call /\ r.at = "csrf" /\ r.effects = 0 /\ r.marks \in {0, 1} /\ r.retried
          /\ r.route # "refresh" /\ (r.marks > 0 => r.route \in MarkingRoutes)
        <3>1. submit[c] \in Call /\ "csrf" \in Stages /\ "good" \in Tokens /\ Unanswered \in Replies
            BY <1>2 DEF Stages, Tokens, Unanswered, Answer, Replies, Codes
        <3>2. submit[c].marks > 0 => submit[c].route \in MarkingRoutes
            BY <1>2 DEF CallOK
        <3>3. r \in Call
            BY <2>1, <3>1 DEF Call
        <3>4. /\ r.at = "csrf" /\ r.effects = submit[c].effects /\ r.marks = submit[c].marks
              /\ r.retried /\ r.route = submit[c].route
            BY <2>1, <3>1 DEF Call
        <3>5. QED
            BY <2>2, <2>3, <3>2, <3>3, <3>4
    <2>5. CallOK(r)
        BY <2>4 DEF CallOK, Checked
    <2>6. submits' \in 0..MaxSubmits
        BY <2>2 DEF PipeInv
    <2>8. QED
        BY <2>5, <2>6, <2>7, CallMoves
<1>12. ASSUME NEW c \in Calls, ShowAnswer(c) PROVE PipeInv'
    <2>1. CallOK(NoSubmit)
        BY NoCall
    <2>2. submits' = submits /\ submit' = [submit EXCEPT ![c] = NoSubmit]
        BY <1>12 DEF ShowAnswer
    <2>3. QED
        BY <1>2, <2>1, <2>2, CallMoves
<1>13. QED
    BY <1>1, <1>3, <1>4, <1>5, <1>6, <1>7, <1>8, <1>9, <1>10, <1>11, <1>12 DEF PipeNext

LEMMA PipeInvSafe ==
    PipeInv => PipeTypeOK /\ AnswerTellsEffect /\ OneEffectPerSubmit /\ CommittedWasChecked
<1> SUFFICES ASSUME PipeInv PROVE PipeTypeOK /\ AnswerTellsEffect /\ OneEffectPerSubmit /\ CommittedWasChecked
    OBVIOUS
<1>1. PipeTypeOK
    <2>1. \A c \in Calls : submit[c] \in
              [at : {"idle", "csrf", "permissions", "token", "pipe", "handler", "committed", "answered"},
               route : Routes, safe : BOOLEAN, csrf : BOOLEAN, token : {"none", "bad", "good"},
               valid : BOOLEAN, effects : Nat, marks : Nat, retried : BOOLEAN,
               answer : [status : {0} \cup 200..500, code : Codes]]
        BY DEF PipeInv, Call, Stages, Tokens, Replies
    <2>2. QED
        BY <2>1 DEF PipeInv, PipeTypeOK
<1>2. AnswerTellsEffect
    BY DEF PipeInv, CallOK, AnswerTellsEffect, At
<1>3. OneEffectPerSubmit
    <2>1. ASSUME NEW c \in Calls
          PROVE  /\ submit[c].effects \in {0, 1} /\ submit[c].marks \in {0, 1, 2}
                 /\ submit[c].marks = 2 => submit[c].retried
                 /\ submit[c].marks > 0 => submit[c].route \in MarkingRoutes
                 /\ submit[c].route = "refresh" => ~submit[c].retried
        BY DEF PipeInv, CallOK, Call
    <2>2. QED
        BY <2>1 DEF OneEffectPerSubmit, MarkingRoutes
<1>4. CommittedWasChecked
    <2>1. ASSUME NEW c \in Calls, submit[c].effects > 0
          PROVE  /\ submit[c].effects = 1 /\ submit[c].at \in {"committed", "answered"}
                 /\ Checked(submit[c], {"answered"})
        BY <2>1 DEF PipeInv, CallOK, Call
    <2>2. QED
        BY <2>1 DEF Checked, CommittedWasChecked
<1>5. QED
    BY <1>1, <1>2, <1>3, <1>4

(* Whatever a request throws, and wherever it is sent once more: the       *)
(* client is told what happened, a submit has one effect, and what is      *)
(* committed passed every check.                                           *)
THEOREM AnswersTell ==
    PipeSpec => [](PipeTypeOK /\ AnswerTellsEffect /\ OneEffectPerSubmit /\ CommittedWasChecked)
BY PipeInitInv, PipeStepInv, PipeInvSafe, PTL DEF PipeSpec


-----------------------------------------------------------------------------
(* AccessControl, the second half.  While a request is under way, what the *)
(* user has is among the grounds, and what was denied all the time is      *)
(* still denied; a decision keeps what it was made from.                   *)

AskShape ==
    ask = [at |-> ask.at, lower |-> ask.lower, need |-> ask.need, rest |-> ask.rest,
           owned |-> ask.owned, denies |-> ask.denies, allowed |-> ask.allowed]

Asking == ask.at \in {"expand", "host", "acl", "decide"}

Current == Grounds(pool, hosted, acl) \subseteq grounds /\ barred \subseteq Denies(acl)

AskSafe ==
    /\ ask.owned \subseteq grounds
    /\ ask.at \in {"decide", "decided"} /\ ask.lower => barred \subseteq ask.denies

AccessInv ==
    /\ AccessTypeOK
    /\ AskShape
    /\ Asking => Current /\ AskSafe /\ ask.allowed = FALSE
    /\ ask.at = "idle" => ask.allowed = FALSE
    /\ ask.at = "decided" =>
          ask.allowed \in BOOLEAN /\ (ask.allowed => AskSafe /\ Failed(ask.need, ask.owned, ask.denies) = {})

LEMMA NoAskIs ==
    /\ NoAsk.at = "idle" /\ NoAsk.allowed = FALSE /\ NoAsk.owned = {}
    /\ NoAsk = [at |-> NoAsk.at, lower |-> NoAsk.lower, need |-> NoAsk.need, rest |-> NoAsk.rest,
                owned |-> NoAsk.owned, denies |-> NoAsk.denies, allowed |-> NoAsk.allowed]
BY DEF NoAsk

LEMMA AskBegins ==
    ASSUME NEW want, NEW rest, NEW low,
           \/ ask' = [NoAsk EXCEPT !.at = "expand", !.need = want, !.lower = low]
           \/ ask' = [NoAsk EXCEPT !.at = "expand", !.need = want, !.rest = rest]
    PROVE  ask'.at = "expand" /\ ask'.allowed = FALSE /\ ask'.owned = {} /\ AskShape'
BY DEF NoAsk, AskShape

LEMMA AccessInitInv == AccessInit => AccessInv
<1> SUFFICES ASSUME AccessInit PROVE AccessInv
    OBVIOUS
<1>1. AccessTypeOK
    BY NoAskIs DEF AccessInit, AccessTypeOK
<1>2. QED
    BY <1>1, NoAskIs DEF AccessInit, AccessInv, AskShape, Asking

(* Pool, host or rules change under the request.                           *)
LEMMA TablesChange ==
    ASSUME AccessInv, AccessTypeOK', ask' = ask, Witnessed
    PROVE  AccessInv'
<1>1. AskShape'
    BY DEF AccessInv, AskShape
<1>2. CASE ask.at \in {"idle", "decided"}
    BY <1>1, <1>2 DEF AccessInv, Asking, AskSafe, Witnessed
<1>3. CASE ask.at \notin {"idle", "decided"}
    <2>1. /\ grounds' = grounds \cup Grounds(pool', hosted', acl')
          /\ barred' = barred \cap Denies(acl')
        BY <1>3 DEF Witnessed
    <2>2. Current'
        BY <2>1 DEF Current
    <2>3. Asking /\ AskSafe /\ ask.allowed = FALSE
        BY <1>3 DEF AccessInv, AccessTypeOK, Asking
    <2>4. AskSafe'
        BY <2>1, <2>3 DEF AskSafe
    <2>5. QED
        BY <1>1, <1>3, <2>2, <2>3, <2>4 DEF AccessInv, Asking
<1>4. QED
    BY <1>2, <1>3

LEMMA AccessStepInv == AccessInv /\ [AccessNext]_accessVars => AccessInv'
<1> SUFFICES ASSUME AccessInv, [AccessNext]_accessVars PROVE AccessInv'
    OBVIOUS
<1>1. CASE UNCHANGED accessVars
    BY <1>1 DEF accessVars, AccessInv, AccessTypeOK, AskShape, Asking, Current, AskSafe
<1>2. ASSUME NEW need \in Needs, AskAccess(need) PROVE AccessInv'
    <2>1. ASSUME \E lower \in BOOLEAN :
                     ask' = [NoAsk EXCEPT !.at = "expand", !.need = need, !.lower = lower]
          PROVE  ask'.at = "expand" /\ ask'.allowed = FALSE /\ ask'.owned = {} /\ AskShape'
        <3>1. PICK low : ask' = [NoAsk EXCEPT !.at = "expand", !.need = need, !.lower = low]
            BY <2>1
        <3>2. QED
            BY <3>1, AskBegins
    <2>6. ASSUME \E p \in need :
                     ask' = [NoAsk EXCEPT !.at = "expand", !.need = {p}, !.rest = need \ {p}]
          PROVE  ask'.at = "expand" /\ ask'.allowed = FALSE /\ ask'.owned = {} /\ AskShape'
        <3>1. PICK p \in need :
                  ask' = [NoAsk EXCEPT !.at = "expand", !.need = {p}, !.rest = need \ {p}]
            BY <2>6
        <3>2. QED
            BY <3>1, AskBegins
    <2>7. (\E lower \in BOOLEAN :
              ask' = [NoAsk EXCEPT !.at = "expand", !.need = need, !.lower = lower])
          \/ \E p \in need :
                ask' = [NoAsk EXCEPT !.at = "expand", !.need = {p}, !.rest = need \ {p}]
        BY <1>2 DEF AskAccess
    <2>2. /\ ask'.at = "expand" /\ ask'.allowed = FALSE /\ ask'.owned = {}
          /\ AskShape'
        BY <2>1, <2>6, <2>7
    <2>3. Current'
        BY <1>2 DEF AskAccess, Current
    <2>4. AccessTypeOK'
        BY <1>2, <2>2 DEF AskAccess, AccessInv, AccessTypeOK
    <2>5. QED
        BY <2>2, <2>3, <2>4 DEF AccessInv, Asking, AskSafe
<1>3. CASE Expand
    <2>1. /\ ask.at = "expand" /\ ask' = [ask EXCEPT !.at = "host", !.owned = pool]
          /\ UNCHANGED <<pool, hosted, acl, edits, grounds, barred>>
        BY <1>3 DEF Expand
    <2>2. /\ ask'.at = "host" /\ ask'.allowed = FALSE /\ ask'.owned = pool /\ AskShape'
        BY <2>1 DEF AccessInv, AskShape, Asking
    <2>3. AccessTypeOK' /\ Current'
        BY <2>1, <2>2 DEF AccessInv, AccessTypeOK, Asking, Current
    <2>4. pool \subseteq grounds
        BY <2>1 DEF AccessInv, Asking, Current, Grounds
    <2>5. QED
        BY <2>1, <2>2, <2>3, <2>4 DEF AccessInv, Asking, AskSafe
<1>4. CASE ReadHost
    <2>1. /\ ask.at = "host" /\ ask' = [ask EXCEPT !.at = "acl", !.owned = @ \cup Boost(hosted)]
          /\ UNCHANGED <<pool, hosted, acl, edits, grounds, barred>>
        BY <1>4 DEF ReadHost
    <2>2. /\ ask'.at = "acl" /\ ask'.allowed = FALSE /\ ask'.owned = ask.owned \cup Boost(hosted)
          /\ AskShape'
        BY <2>1 DEF AccessInv, AskShape, Asking
    <2>3. AccessTypeOK' /\ Current'
        BY <2>1, <2>2 DEF AccessInv, AccessTypeOK, Asking, Current
    <2>4. ask.owned \subseteq grounds /\ Boost(hosted) \subseteq grounds
        BY <2>1 DEF AccessInv, Asking, AskSafe, Current, Grounds
    <2>5. QED
        BY <2>1, <2>2, <2>3, <2>4 DEF AccessInv, Asking, AskSafe
<1>5. CASE ReadAcl
    <2>1. /\ ask.at = "acl" /\ UNCHANGED <<pool, hosted, acl, edits, grounds, barred>>
          /\ ask' = IF ask.lower
                    THEN [ask EXCEPT !.at = "decide", !.owned = @ \cup Allows(acl), !.denies = Denies(acl)]
                    ELSE [ask EXCEPT !.at = "decide"]
        BY <1>5 DEF ReadAcl
    <2>2. ask.owned \subseteq grounds /\ Allows(acl) \subseteq grounds /\ barred \subseteq Denies(acl)
          /\ ask.allowed = FALSE
        BY <2>1 DEF AccessInv, Asking, AskSafe, Current, Grounds
    <2>3. /\ ask'.at = "decide" /\ ask'.allowed = FALSE /\ ask'.owned \subseteq ask.owned \cup Allows(acl)
          /\ ask'.lower = ask.lower /\ (ask.lower => ask'.denies = Denies(acl))
          /\ AskShape'
        BY <2>1, <2>2 DEF AccessInv, AskShape
    <2>4. AccessTypeOK' /\ Current'
        BY <2>1, <2>3 DEF AccessInv, AccessTypeOK, Asking, Current
    <2>5. AskSafe'
        BY <2>1, <2>2, <2>3 DEF AskSafe
    <2>6. QED
        BY <2>3, <2>4, <2>5 DEF AccessInv, Asking
<1>6. CASE Decide
    <2>1. /\ ask.at = "decide" /\ UNCHANGED <<pool, hosted, acl, edits, grounds, barred>>
          /\ Current /\ AskSafe
        BY <1>6 DEF Decide, AccessInv, Asking
    <2>2. CASE \E p \in ask.rest :
                  ask' = [NoAsk EXCEPT !.at = "expand", !.need = {p}, !.rest = ask.rest \ {p}]
        <3>1. PICK p \in ask.rest :
                  ask' = [NoAsk EXCEPT !.at = "expand", !.need = {p}, !.rest = ask.rest \ {p}]
            BY <2>2
        <3>2. ask'.at = "expand" /\ ask'.allowed = FALSE /\ ask'.owned = {} /\ AskShape'
            BY <3>1, AskBegins
        <3>3. AccessTypeOK' /\ Current'
            BY <2>1, <3>2 DEF AccessInv, AccessTypeOK, Current
        <3>4. QED
            BY <3>2, <3>3 DEF AccessInv, Asking, AskSafe
    <2>3. CASE ask' = [ask EXCEPT !.at = "decided",
                                  !.allowed = (Failed(ask.need, ask.owned, ask.denies) = {})]
        <3>1. PICK ok \in BOOLEAN : ok = (Failed(ask.need, ask.owned, ask.denies) = {})
            OBVIOUS
        <3>2. /\ ask'.at = "decided" /\ ask'.allowed = ok /\ ask'.owned = ask.owned
              /\ ask'.need = ask.need /\ ask'.denies = ask.denies /\ ask'.lower = ask.lower
              /\ AskShape'
            BY <2>3, <3>1 DEF AccessInv, AskShape
        <3>3. AccessTypeOK'
            BY <2>1, <3>2 DEF AccessInv, AccessTypeOK
        <3>4. AskSafe'
            BY <2>1, <3>2 DEF AskSafe
        <3>5. ok => Failed(ask.need, ask.owned, ask.denies) = {}
            BY <3>1
        <3>6. Failed(ask.need, ask.owned, ask.denies)' = Failed(ask.need, ask.owned, ask.denies)
            BY <3>2 DEF Failed, Matches
        <3>7. QED
            BY <3>2, <3>3, <3>4, <3>5, <3>6 DEF AccessInv, Asking
    <2>4. QED
        BY <1>6, <2>2, <2>3 DEF Decide
<1>7. CASE Answered
    <2>1. ask' = NoAsk /\ UNCHANGED <<pool, hosted, acl, edits, grounds, barred>>
        BY <1>7 DEF Answered
    <2>2. ask'.at = "idle" /\ ask'.allowed = FALSE /\ AskShape'
        BY <2>1, NoAskIs DEF AskShape
    <2>3. AccessTypeOK'
        BY <2>1, <2>2 DEF AccessInv, AccessTypeOK
    <2>4. QED
        BY <2>2, <2>3 DEF AccessInv, Asking
<1>8. ASSUME NEW p \in Pool, ChangePool(p) PROVE AccessInv'
    <2>1. AccessTypeOK'
        BY <1>8 DEF ChangePool, AccessInv, AccessTypeOK
    <2>2. QED
        BY <1>8, <2>1, TablesChange DEF ChangePool
<1>9. CASE ChangeHost
    <2>1. AccessTypeOK'
        BY <1>9 DEF ChangeHost, AccessInv, AccessTypeOK
    <2>2. QED
        BY <1>9, <2>1, TablesChange DEF ChangeHost
<1>10. ASSUME NEW a \in Acts, NEW effect \in {"ALLOW", "DENY"}, GrantAcl(a, effect) PROVE AccessInv'
    <2>1. AccessTypeOK'
        BY <1>10 DEF GrantAcl, AccessInv, AccessTypeOK
    <2>2. QED
        BY <1>10, <2>1, TablesChange DEF GrantAcl
<1>11. ASSUME NEW a \in Acts, RevokeAcl(a) PROVE AccessInv'
    <2>1. AccessTypeOK'
        BY <1>11 DEF RevokeAcl, AccessInv, AccessTypeOK
    <2>2. QED
        BY <1>11, <2>1, TablesChange DEF RevokeAcl
<1>12. QED
    BY <1>1, <1>2, <1>3, <1>4, <1>5, <1>6, <1>7, <1>8, <1>9, <1>10, <1>11 DEF AccessNext

LEMMA AccessInvSafe == AccessInv => AccessTypeOK /\ DenyStands /\ AllowedOnGrounds
<1> SUFFICES ASSUME AccessInv PROVE AccessTypeOK /\ DenyStands /\ AllowedOnGrounds
    OBVIOUS
<1>1. ask.allowed => /\ ask.at = "decided" /\ AskSafe
                     /\ Failed(ask.need, ask.owned, ask.denies) = {}
    BY DEF AccessInv, AccessTypeOK, Asking
<1>2. DenyStands
    BY <1>1 DEF AskSafe, Failed, DenyStands
<1>3. AllowedOnGrounds
    <2> SUFFICES ASSUME ask.allowed, NEW p \in ask.need PROVE Matches(p, grounds)
        BY DEF AllowedOnGrounds
    <2>1. Matches(p, ask.owned) /\ ask.owned \subseteq grounds
        BY <1>1 DEF Failed, AskSafe
    <2>2. QED
        BY <2>1 DEF Matches
<1>4. QED
    BY <1>2, <1>3 DEF AccessInv

(* Whatever roles, host and rules do between the reads: a rule that denies *)
(* holds while it stands, and who is let in had a ground for each          *)
(* permission.                                                             *)
THEOREM DenialsStand == AccessSpec => [](AccessTypeOK /\ DenyStands /\ AllowedOnGrounds)
BY AccessInitInv, AccessStepInv, AccessInvSafe, PTL DEF AccessSpec

-----------------------------------------------------------------------------
(* TokenBucket.  What was admitted and what the bucket holds are at most   *)
(* the full bucket and the time the hash carries; an expired hash has been *)
(* let alone for so long that this is worth a full bucket again.           *)

(* A finite set of integers has a greatest element: a smallest subset that *)
(* has none would not stay one without one of its elements.                *)
LEMMA Greatest ==
    ASSUME NEW S \in SUBSET Int, IsFiniteSet(S), S # {}
    PROVE  Max(S) \in S /\ \A x \in S : x <= Max(S)
<1> DEFINE Headless == {U \in FiniteSubsetsOf(S) : U # {} /\ \A x \in U : \E y \in U : ~(y <= x)}
<1>1. Headless = {}
    <2> SUFFICES ASSUME Headless # {} PROVE FALSE
        OBVIOUS
    <2>1. IsWellFoundedOn(StrictSubsetOrdering(S), FiniteSubsetsOf(S))
        BY FS_StrictSubsetOrderingWellFounded
    <2>2. Headless \subseteq FiniteSubsetsOf(S)
        OBVIOUS
    <2>3. \E x \in Headless : \A y \in Headless : ~ (<<y, x>> \in StrictSubsetOrdering(S))
        BY <2>1, <2>2, WFMin
    <2>4. PICK U \in Headless : \A V \in Headless : ~ (<<V, U>> \in StrictSubsetOrdering(S))
        BY <2>3
    <2>5. U \in SUBSET Int /\ IsFiniteSet(U) /\ U # {} /\ U \in SUBSET S
        BY DEF FiniteSubsetsOf
    <2>6. PICK x \in U : TRUE
        BY <2>5
    <2>7. U \ {x} \notin Headless
        <3>1. U \ {x} \in SUBSET S /\ U \ {x} # U /\ U \ {x} \subseteq U
            BY <2>5, <2>6
        <3>2. <<U \ {x}, U>> \in StrictSubsetOrdering(S)
            BY <2>5, <3>1 DEF StrictSubsetOrdering
        <3>3. QED
            BY <2>4, <3>2
    <2>8. U \ {x} \in FiniteSubsetsOf(S)
        BY <2>5, FS_RemoveElement DEF FiniteSubsetsOf
    <2>9. U \ {x} # {}
        BY <2>5, <2>6
    <2>10. PICK m \in U \ {x} : \A y \in U \ {x} : y <= m
        BY <2>7, <2>8, <2>9
    <2>11. \E z \in U : \A y \in U : y <= z
        BY <2>5, <2>10
    <2>12. QED
        BY <2>11
<1>2. S \in FiniteSubsetsOf(S)
    BY DEF FiniteSubsetsOf
<1>3. \E x \in S : \A y \in S : x >= y
    BY <1>1, <1>2
<1>4. Max(S) \in S /\ \A y \in S : Max(S) >= y
    BY <1>3, Zenon DEF Max
<1>5. QED
    BY <1>4

LEMMA SkewsBounded == LargestSkew \in Nat /\ \A s \in Servers : Skew[s] <= LargestSkew
<1> DEFINE S == {0} \cup {Skew[s] : s \in Servers}
<1>1. S \in SUBSET Int /\ S # {} /\ S \subseteq Nat
    BY BucketAssumption
<1>2. IsFiniteSet(S)
    <2> DEFINE T == {Skew[s] : s \in Servers}
               f == [s \in Servers |-> Skew[s]]
    <2>3. f \in Surjection(Servers, T)
        BY DEF Surjection
    <2>1. IsFiniteSet(T)
        BY <2>3, BucketAssumption, FS_Surjection
    <2>2. QED
        BY <2>1, FS_AddElement
<1>3. Max(S) \in S /\ \A x \in S : x <= Max(S)
    BY <1>1, <1>2, Greatest
<1>4. QED
    BY <1>1, <1>3 DEF LargestSkew

LEMMA MaxOfOne ==
    ASSUME NEW x \in Int
    PROVE  Max({x}) = x
<1>1. \E m \in {x} : \A y \in {x} : m >= y
    OBVIOUS
<1>2. QED
    BY <1>1, Zenon DEF Max

LEMMA MaxWithZero ==
    ASSUME NEW x \in Int
    PROVE  Max({0} \cup {x}) = Higher(0, x)
<1>1. \E m \in {0} \cup {x} : \A y \in {0} \cup {x} : m >= y
    OBVIOUS
<1>2. /\ Max({0} \cup {x}) \in {0} \cup {x}
      /\ \A y \in {0} \cup {x} : Max({0} \cup {x}) >= y
    BY <1>1, Zenon DEF Max
<1>3. QED
    BY <1>2 DEF Higher

Owed(adm, tokens, ts, rev) ==
    LargestSkew <= BucketSize => adm + tokens <= BucketSize + ts + rev

(* One record, as Consume saves it.                                        *)
Kept(b, time, adm, rev) ==
    /\ b = [tokens |-> b.tokens, ts |-> b.ts, until |-> b.until]
    /\ b.tokens \in 0..BucketSize /\ b.ts \in Nat /\ b.until \in Nat
    /\ b.until <= time + Ttl
    /\ b.ts <= b.until - Ttl + LargestSkew
    /\ LargestSkew <= BucketSize => adm + b.tokens <= BucketSize + b.ts + rev

Forgotten(time, adm, rev) ==
    LargestSkew <= BucketSize => adm = 0 \/ adm + BucketSize <= time + rev + LargestSkew

BucketInv ==
    /\ ticks \in 0..MaxClock /\ admitted \in Nat /\ reversed \in 0..MaxReversed
    /\ \/ bucket = {} /\ Forgotten(ticks, admitted, reversed)
       \/ \E b : bucket = {b} /\ Kept(b, ticks, admitted, reversed)

LEMMA BucketInitInv == BucketInit => BucketInv
BY BucketAssumption DEF BucketInit, BucketInv, Forgotten

LEMMA BucketStepInv == BucketInv /\ [BucketNext]_bucketVars => BucketInv'
<1> SUFFICES ASSUME BucketInv, [BucketNext]_bucketVars PROVE BucketInv'
    OBVIOUS
<1>1. CASE UNCHANGED bucketVars
    BY <1>1 DEF bucketVars, BucketInv
<1>2. /\ ticks \in Nat /\ admitted \in Nat /\ reversed \in Nat /\ LargestSkew \in Nat
      /\ BucketSize \in Nat /\ Cost \in 1..BucketSize /\ Ttl \in Nat /\ Ttl = 2 * BucketSize
    BY SkewsBounded, BucketAssumption DEF BucketInv, Ttl
<1>3. CASE TickClock
    <2>1. /\ ticks' = ticks + 1 /\ ticks' \in 0..MaxClock /\ UNCHANGED <<admitted, reversed>>
          /\ bucket' = {b \in bucket : b.until > ticks + 1}
        BY <1>2, <1>3, BucketAssumption DEF TickClock
    <2>2. CASE bucket = {}
        <3>1. Forgotten(ticks, admitted, reversed) /\ bucket' = {}
            BY <2>1, <2>2 DEF BucketInv
        <3>2. Forgotten(ticks + 1, admitted, reversed)
            BY <1>2, <3>1 DEF Forgotten
        <3>3. QED
            BY <2>1, <3>1, <3>2 DEF BucketInv
    <2>3. CASE bucket # {}
        <3>1. PICK b : bucket = {b} /\ Kept(b, ticks, admitted, reversed)
            BY <2>3 DEF BucketInv
        <3>2. b.tokens \in Nat /\ b.ts \in Nat /\ b.until \in Nat
            BY <1>2, <3>1 DEF Kept
        <3>3. CASE b.until > ticks + 1
            <4>1. bucket' = {b}
                BY <2>1, <3>1, <3>3
            <4>2. Kept(b, ticks + 1, admitted, reversed)
                BY <1>2, <3>1, <3>2 DEF Kept
            <4>3. QED
                BY <2>1, <4>1, <4>2 DEF BucketInv
        <3>4. CASE ~(b.until > ticks + 1)
            <4>1. bucket' = {}
                BY <2>1, <3>1, <3>4
            <4>2. Forgotten(ticks + 1, admitted, reversed)
                <5>1. b.ts <= b.until - Ttl + LargestSkew /\ b.until <= ticks + 1
                    BY <1>2, <3>1, <3>2, <3>4 DEF Kept
                <5>2. LargestSkew <= BucketSize =>
                          admitted + b.tokens <= BucketSize + b.ts + reversed
                    BY <3>1 DEF Kept
                <5>3. LargestSkew <= BucketSize =>
                          admitted + BucketSize <= (ticks + 1) + reversed + LargestSkew
                    BY <1>2, <3>2, <5>1, <5>2
                <5>4. QED
                    BY <5>3 DEF Forgotten
            <4>3. QED
                BY <2>1, <4>1, <4>2 DEF BucketInv
        <3>5. QED
            BY <3>3, <3>4
    <2>4. QED
        BY <2>2, <2>3
<1>4. ASSUME NEW s \in Servers, Consume(s) PROVE BucketInv'
    <2>1. PICK skew \in Nat : skew = Skew[s] /\ skew <= LargestSkew
        BY SkewsBounded, BucketAssumption
    <2>2. PICK tokens : tokens = IF bucket = {} THEN BucketSize
                                 ELSE Max({Refilled(b, ticks + skew) : b \in bucket})
        OBVIOUS
    <2>3. PICK back : back = Max({0} \cup {b.ts - (ticks + skew) : b \in bucket})
        OBVIOUS
    <2>4. PICK more : more = IF tokens >= Cost THEN Cost ELSE 0
        OBVIOUS
    <2>5. PICK r : r = [tokens |-> tokens - more, ts |-> ticks + skew, until |-> ticks + Ttl]
        OBVIOUS
    <2>6. /\ ticks' = ticks /\ admitted' = admitted + more /\ reversed' = reversed + back
          /\ reversed' <= MaxReversed
        BY <1>4, <2>1, <2>2, <2>3, <2>4 DEF Consume
    <2>7. tokens \in 0..BucketSize /\ back \in Nat
          /\ Owed(admitted, tokens, ticks + skew, reversed + back)
        <3>1. CASE bucket = {}
            <4>1. tokens = BucketSize
                BY <2>2, <3>1
            <4>2. {0} \cup {b.ts - (ticks + skew) : b \in bucket} = {0}
                BY <3>1
            <4>3. back = 0
                BY <2>3, <4>2, MaxOfOne
            <4>4. Forgotten(ticks, admitted, reversed)
                BY <3>1 DEF BucketInv
            <4>5. QED
                BY <1>2, <4>1, <4>3, <4>4 DEF Forgotten, Owed
        <3>2. CASE bucket # {}
            <4>1. PICK b : bucket = {b} /\ Kept(b, ticks, admitted, reversed)
                BY <3>2 DEF BucketInv
            <4>2. b.tokens \in 0..BucketSize /\ b.ts \in Nat
                  /\ (LargestSkew <= BucketSize => admitted + b.tokens <= BucketSize + b.ts + reversed)
                BY <4>1 DEF Kept
            <4>3. Refilled(b, ticks + skew) \in 0..BucketSize
                  /\ Refilled(b, ticks + skew) <= b.tokens + Higher(0, (ticks + skew) - b.ts)
                BY <1>2, <4>2 DEF Refilled, Lower, Higher
            <4>4. tokens = Refilled(b, ticks + skew)
                <5>1. {Refilled(c, ticks + skew) : c \in bucket} = {Refilled(b, ticks + skew)}
                    BY <4>1
                <5>2. Max({Refilled(b, ticks + skew)}) = Refilled(b, ticks + skew)
                    BY <4>3, MaxOfOne
                <5>3. QED
                    BY <2>2, <3>2, <5>1, <5>2
            <4>5. back = Higher(0, b.ts - (ticks + skew))
                <5>1. {0} \cup {c.ts - (ticks + skew) : c \in bucket} = {0} \cup {b.ts - (ticks + skew)}
                    BY <4>1
                <5>2. b.ts - (ticks + skew) \in Int
                    BY <1>2, <4>2
                <5>3. QED
                    BY <2>3, <5>1, <5>2, MaxWithZero
            <4>6. QED
                BY <1>2, <4>2, <4>3, <4>4, <4>5 DEF Higher, Owed
        <3>3. QED
            BY <3>1, <3>2
    <2>8. more \in {0, Cost} /\ more <= tokens
        BY <1>2, <2>4, <2>7
    <2>9. Kept(r, ticks, admitted + more, reversed + back) /\ admitted + more \in Nat
        <3>1. /\ r.tokens = tokens - more /\ r.ts = ticks + skew /\ r.until = ticks + Ttl
              /\ r = [tokens |-> r.tokens, ts |-> r.ts, until |-> r.until]
            BY <2>5
        <3>2. r.tokens \in 0..BucketSize /\ r.ts \in Nat /\ r.until \in Nat
            BY <1>2, <2>1, <2>7, <2>8, <3>1
        <3>3. r.until <= ticks + Ttl /\ r.ts <= r.until - Ttl + LargestSkew
            BY <1>2, <2>1, <3>1
        <3>4. LargestSkew <= BucketSize =>
                  (admitted + more) + r.tokens <= BucketSize + r.ts + (reversed + back)
            BY <1>2, <2>1, <2>7, <2>8, <3>1 DEF Owed
        <3>5. QED
            BY <1>2, <2>8, <3>1, <3>2, <3>3, <3>4 DEF Kept
    <2>10. bucket' = {r}
        <3>1. bucket' = {[tokens |-> IF tokens >= Cost THEN tokens - Cost ELSE tokens,
                          ts |-> ticks + skew, until |-> ticks + Ttl]}
            BY <1>4, <2>1, <2>2 DEF Consume, SaveBucket
        <3>2. tokens - more = IF tokens >= Cost THEN tokens - Cost ELSE tokens
            BY <1>2, <2>4, <2>7
        <3>3. QED
            BY <2>5, <3>1, <3>2
    <2>11. reversed' \in 0..MaxReversed
        BY <1>2, <2>6, <2>7, BucketAssumption
    <2>12. ticks' \in 0..MaxClock
        BY <2>6 DEF BucketInv
    <2>13. QED
        BY <2>6, <2>9, <2>10, <2>11, <2>12 DEF BucketInv
<1>5. QED
    BY <1>1, <1>3, <1>4 DEF BucketNext

LEMMA BucketInvSafe == BucketInv => BucketTypeOK /\ AdmitsWithinRate
<1> SUFFICES ASSUME BucketInv PROVE BucketTypeOK /\ AdmitsWithinRate
    OBVIOUS
<1>1. /\ ticks \in Nat /\ admitted \in Nat /\ reversed \in Nat /\ LargestSkew \in Nat
      /\ BucketSize \in Nat /\ Ttl = 2 * BucketSize
    BY SkewsBounded, BucketAssumption DEF BucketInv, Ttl
<1>2. CASE bucket = {}
    <2>1. Forgotten(ticks, admitted, reversed)
        BY <1>2 DEF BucketInv
    <2>2. QED
        BY <1>1, <1>2, <2>1 DEF BucketInv, BucketTypeOK, AdmitsWithinRate, Forgotten
<1>3. CASE bucket # {}
    <2>1. PICK b : bucket = {b} /\ Kept(b, ticks, admitted, reversed)
        BY <1>3 DEF BucketInv
    <2>2. b.ts <= ticks + LargestSkew
        BY <1>1, <2>1 DEF Kept
    <2>3. AdmitsWithinRate
        BY <1>1, <2>1, <2>2 DEF Kept, AdmitsWithinRate
    <2>4. BucketTypeOK
        BY <2>1 DEF BucketInv, BucketTypeOK, Kept
    <2>5. QED
        BY <2>3, <2>4
<1>4. QED
    BY <1>2, <1>3

(* Any servers whose clocks are ahead by less than the time that fills the *)
(* bucket: a bucket that was full once, and the time, are all that is ever *)
(* admitted, however often the hash expires.                               *)
THEOREM RateHolds == BucketSpec => [](BucketTypeOK /\ AdmitsWithinRate)
BY BucketInitInv, BucketStepInv, BucketInvSafe, PTL DEF BucketSpec

-----------------------------------------------------------------------------
(* AccessControl, the first half.  A stamp never runs ahead of versions    *)
(* that did not go back; while it is that of the tables, what was loaded   *)
(* under it is what the tables grant.                                      *)

Stamps == UNION {[D -> Nat] : D \in SUBSET Versioned}

PermCheck == [at : {"idle", "stamp", "load", "save"}, roles : SUBSET Roles, stamp : Stamps,
              perms : SUBSET Perms]

NotAhead(s) == \A k \in DOMAIN s : k \notin rewound => s[k] <= stampVer[k]

StampNow(s) == \A k \in DOMAIN s : k \notin unbumped \cup rewound /\ s[k] = stampVer[k]

Fresh(s, perms) == StampNow(s) => perms = GrantedTo(DOMAIN s \ {User})

EntryFresh(s) == s \in DOMAIN entry => NotAhead(s) /\ Fresh(s, entry[s])

PermCheckOK(q) ==
    /\ DOMAIN q.stamp \subseteq {User} \cup q.roles
    /\ NotAhead(q.stamp)
    /\ q.at \in {"load", "save"} => DOMAIN q.stamp = {User} \cup q.roles
    /\ q.at = "save" => Fresh(q.stamp, q.perms)

VersionsTyped ==
    /\ held \subseteq Roles
    /\ granted \in [Roles -> SUBSET Perms]
    /\ stampVer \in [Versioned -> 0..MaxBumps + 1]
    /\ unbumped \subseteq Versioned
    /\ bumps \in Nat
    /\ \A k \in Versioned : stampVer[k] <= bumps + 1
    /\ \A k \in unbumped : stampVer[k] <= MaxBumps /\ 1 <= MaxBumps

EntriesTyped == DOMAIN entry \subseteq Stamps /\ \A s \in DOMAIN entry : entry[s] \subseteq Perms

PermissionInv ==
    /\ VersionsTyped
    /\ EntriesTyped
    /\ check \in [Checks -> PermCheck]
    /\ \A s \in Stamps : EntryFresh(s)
    /\ \A c \in Checks : PermCheckOK(check[c])

LEMMA StampIs ==
    ASSUME NEW s
    PROVE  s \in Stamps <=> DOMAIN s \subseteq Versioned /\ s \in [DOMAIN s -> Nat]
BY DEF Stamps

LEMMA NoStamp == None \in Stamps /\ DOMAIN None = {}
<1>1. DOMAIN None = {} /\ None \in [{} -> Nat]
    BY DEF None
<1>2. QED
    BY <1>1, StampIs

LEMMA NoPermCheck ==
    ASSUME NEW at \in {"idle", "stamp"}, NEW roles \in SUBSET Roles,
           NEW q, q = [at |-> at, roles |-> roles, stamp |-> None, perms |-> {}]
    PROVE  q \in PermCheck /\ PermCheckOK(q)
<1>1. q \in PermCheck
    BY NoStamp DEF PermCheck
<1>2. q.stamp = None /\ q.at \notin {"load", "save"}
    OBVIOUS
<1>3. PermCheckOK(q)
    BY <1>2, NoStamp DEF PermCheckOK, NotAhead
<1>4. QED
    BY <1>1, <1>3

LEMMA Ended == NoCheck \in PermCheck /\ PermCheckOK(NoCheck)
BY NoPermCheck DEF NoCheck

LEMMA PermissionInitInv == PermissionInit => PermissionInv
<1> SUFFICES ASSUME PermissionInit PROVE PermissionInv
    OBVIOUS
<1>1. VersionsTyped
    BY PermissionAssumption DEF PermissionInit, VersionsTyped, Versioned
<1>2. EntriesTyped /\ \A s \in Stamps : EntryFresh(s)
    BY NoStamp DEF PermissionInit, EntriesTyped, EntryFresh
<1>3. check \in [Checks -> PermCheck] /\ \A c \in Checks : PermCheckOK(check[c])
    BY Ended DEF PermissionInit
<1>4. QED
    BY <1>1, <1>2, <1>3 DEF PermissionInv

(* One version and the tables behind it change: the version goes up, or    *)
(* back and is remembered, or stays and so do the tables.                  *)
TableStep(k) ==
    /\ rewound \subseteq rewound'
    /\ \A j \in Versioned \ {k} :
          /\ stampVer'[j] = stampVer[j]
          /\ j \in unbumped' <=> j \in unbumped
          /\ j \in rewound' <=> j \in rewound
          /\ j # User => granted'[j] = granted[j]
    /\ k \notin rewound' => stampVer'[k] >= stampVer[k]
    /\ k \notin rewound' \cup unbumped' =>
          \/ stampVer'[k] > stampVer[k]
          \/ /\ stampVer'[k] = stampVer[k] /\ k \notin unbumped
             /\ k # User => granted'[k] = granted[k]

LEMMA TableMoves ==
    ASSUME NEW k \in Versioned, TableStep(k), NEW s \in Stamps, NotAhead(s),
           stampVer \in [Versioned -> Nat], stampVer' \in [Versioned -> Nat]
    PROVE  NotAhead(s)' /\ \A perms : Fresh(s, perms) => Fresh(s, perms)'
<1>1. DOMAIN s \subseteq Versioned /\ \A j \in DOMAIN s : s[j] \in Nat
    BY StampIs
<1>2. NotAhead(s)'
    <2> SUFFICES ASSUME NEW j \in DOMAIN s, j \notin rewound' PROVE s[j] <= stampVer'[j]
        BY DEF NotAhead
    <2>1. s[j] <= stampVer[j] /\ stampVer[j] \in Nat /\ stampVer'[j] \in Nat /\ s[j] \in Nat
        BY <1>1 DEF NotAhead, TableStep
    <2>2. stampVer'[j] >= stampVer[j]
        BY <1>1, <2>1 DEF TableStep
    <2>3. QED
        BY <2>1, <2>2
<1>3. ASSUME NEW perms, Fresh(s, perms) PROVE Fresh(s, perms)'
    <2> SUFFICES ASSUME StampNow(s)' PROVE perms = GrantedTo(DOMAIN s \ {User})'
        BY DEF Fresh
    <2>1. \A j \in DOMAIN s : j \notin unbumped' \cup rewound' /\ s[j] = stampVer'[j]
        BY DEF StampNow
    <2>2. \A j \in DOMAIN s : j \notin rewound
        BY <2>1 DEF TableStep
    <2>3. k \in DOMAIN s =>
              stampVer'[k] = stampVer[k] /\ k \notin unbumped /\ (k # User => granted'[k] = granted[k])
        <3> SUFFICES ASSUME k \in DOMAIN s
                     PROVE  /\ stampVer'[k] = stampVer[k] /\ k \notin unbumped
                            /\ k # User => granted'[k] = granted[k]
            OBVIOUS
        <3>1. s[k] <= stampVer[k] /\ s[k] = stampVer'[k] /\ stampVer[k] \in Nat
            BY <2>1, <2>2 DEF NotAhead
        <3>2. ~(stampVer'[k] > stampVer[k])
            BY <1>1, <3>1
        <3>3. QED
            BY <2>1, <3>2 DEF TableStep
    <2>4. \A j \in DOMAIN s : j # User => granted'[j] = granted[j]
        BY <1>1, <2>3 DEF TableStep
    <2>5. StampNow(s)
        BY <1>1, <2>1, <2>2, <2>3 DEF StampNow, TableStep
    <2>6. perms = GrantedTo(DOMAIN s \ {User})
        BY <1>3, <2>5 DEF Fresh
    <2>7. QED
        BY <2>4, <2>6 DEF GrantedTo
<1>4. QED
    BY <1>2, <1>3

LEMMA EntriesKeep ==
    ASSUME PermissionInv, NEW k \in Versioned, TableStep(k), stampVer' \in [Versioned -> Nat],
           entry' = entry, NEW s \in Stamps
    PROVE  EntryFresh(s)'
<1> SUFFICES ASSUME s \in DOMAIN entry PROVE NotAhead(s)' /\ Fresh(s, entry[s])'
    BY DEF EntryFresh
<1>1. NotAhead(s) /\ Fresh(s, entry[s])
    BY DEF PermissionInv, EntryFresh
<1>2. stampVer \in [Versioned -> Nat]
    BY PermissionAssumption DEF PermissionInv, VersionsTyped
<1>3. NotAhead(s)' /\ \A perms : Fresh(s, perms) => Fresh(s, perms)'
    BY <1>1, <1>2, TableMoves
<1>4. PICK perms : perms = entry[s]
    OBVIOUS
<1>5. Fresh(s, perms) /\ perms = entry'[s]
    BY <1>1, <1>4
<1>6. Fresh(s, perms)'
    BY <1>3, <1>5
<1>7. QED
    BY <1>3, <1>5, <1>6 DEF Fresh

LEMMA ChecksKeep ==
    ASSUME PermissionInv, NEW k \in Versioned, TableStep(k), stampVer' \in [Versioned -> Nat],
           NEW c, check[c] \in PermCheck, PermCheckOK(check[c]), check'[c] = check[c]
    PROVE  PermCheckOK(check[c])'
<1>1. PICK q : q = check[c]
    OBVIOUS
<1>2. q \in PermCheck /\ PermCheckOK(q)
    BY <1>1
<1>3. q.stamp \in Stamps /\ NotAhead(q.stamp)
    BY <1>2 DEF PermCheck, PermCheckOK
<1>4. PICK s \in Stamps : s = q.stamp
    BY <1>3
<1>5. stampVer \in [Versioned -> Nat]
    BY PermissionAssumption DEF PermissionInv, VersionsTyped
<1>6. NotAhead(s)' /\ \A perms : Fresh(s, perms) => Fresh(s, perms)'
    BY <1>3, <1>4, <1>5, TableMoves
<1>7. q.at = "save" => Fresh(s, q.perms)'
    BY <1>2, <1>4, <1>6 DEF PermCheckOK
<1>8. PermCheckOK(q)'
    BY <1>2, <1>4, <1>6, <1>7 DEF PermCheckOK
<1>9. QED
    BY <1>1, <1>8 DEF PermCheckOK

LEMMA TablesStep ==
    ASSUME PermissionInv, NEW k \in Versioned, TableStep(k), VersionsTyped', UNCHANGED <<entry, check>>
    PROVE  PermissionInv'
<1>1. stampVer' \in [Versioned -> Nat]
    BY PermissionAssumption DEF VersionsTyped
<1>2. ASSUME NEW s \in Stamps PROVE EntryFresh(s)'
    BY <1>1, EntriesKeep
<1>3. ASSUME NEW c \in Checks PROVE PermCheckOK(check[c])'
    <2>1. check[c] \in PermCheck /\ PermCheckOK(check[c]) /\ check'[c] = check[c]
        BY DEF PermissionInv
    <2>2. QED
        BY <1>1, <2>1, ChecksKeep
<1>4. EntriesTyped' /\ (check \in [Checks -> PermCheck])'
    BY DEF PermissionInv, EntriesTyped
<1>5. QED
    BY <1>2, <1>3, <1>4 DEF PermissionInv

(* A change of the tables, whose INCR is still to come.                    *)
GrantsBut(k) ==
    granted' \in [Roles -> SUBSET Perms] /\ \A j \in Roles : j # k => granted'[j] = granted[j]

LEMMA TablesChanged ==
    ASSUME PermissionInv, NEW k \in Versioned, bumps < MaxBumps, unbumped' = unbumped \cup {k},
           held' \subseteq Roles, GrantsBut(k),
           UNCHANGED <<stampVer, entry, check, losses, bumps, rewound>>
    PROVE  PermissionInv'
<1>1. TableStep(k)
    BY PermissionAssumption DEF PermissionInv, VersionsTyped, TableStep, Versioned, GrantsBut
<1>2. VersionsTyped'
    BY PermissionAssumption DEF PermissionInv, VersionsTyped, GrantsBut
<1>3. QED
    BY <1>1, <1>2, TablesStep

(* setRaw, under a stamp that does not run ahead.                          *)
LEMMA SavesStep ==
    ASSUME PermissionInv, NEW s \in Stamps, NEW perms \in SUBSET Perms, NotAhead(s), Fresh(s, perms),
           entry' = Extended(entry, s, perms), UNCHANGED <<granted, stampVer, unbumped, rewound>>
    PROVE  EntriesTyped' /\ \A e \in Stamps : EntryFresh(e)'
<1>1. /\ DOMAIN entry' = {s} \cup DOMAIN entry
      /\ \A e \in DOMAIN entry' : entry'[e] = IF e = s THEN perms ELSE entry[e]
    BY DEF Extended
<1>2. EntriesTyped'
    BY <1>1 DEF PermissionInv, EntriesTyped
<1>3. ASSUME NEW e \in Stamps PROVE EntryFresh(e)'
    <2> SUFFICES ASSUME e \in DOMAIN entry' PROVE NotAhead(e)' /\ Fresh(e, entry[e])'
        BY DEF EntryFresh
    <2>1. PICK p : p = entry'[e]
        OBVIOUS
    <2>2. NotAhead(e) /\ Fresh(e, p)
        BY <1>1, <2>1 DEF PermissionInv, EntryFresh
    <2>3. NotAhead(e)' /\ Fresh(e, p)'
        BY <2>2 DEF NotAhead, Fresh, StampNow, GrantedTo
    <2>4. QED
        BY <2>1, <2>3 DEF Fresh
<1>4. QED
    BY <1>2, <1>3

(* A request goes on, and perhaps saves under its stamp.                   *)
LEMMA ChecksStep ==
    ASSUME PermissionInv, NEW c \in Checks, NEW q \in PermCheck, PermCheckOK(q),
           check' = [check EXCEPT ![c] = q], EntriesTyped', \A s \in Stamps : EntryFresh(s)',
           UNCHANGED <<held, granted, stampVer, unbumped, losses, bumps, rewound>>
    PROVE  PermissionInv'
<1>1. check' \in [Checks -> PermCheck] /\ \A d \in Checks : check'[d] = IF d = c THEN q ELSE check[d]
    BY DEF PermissionInv
<1>2. ASSUME NEW d \in Checks PROVE PermCheckOK(check[d])'
    <2>1. PICK r : r = check'[d]
        OBVIOUS
    <2>2. PermCheckOK(r)
        BY <1>1, <2>1 DEF PermissionInv
    <2>3. PermCheckOK(r)'
        BY <2>2 DEF PermCheckOK, NotAhead, Fresh, StampNow, GrantedTo
    <2>4. QED
        BY <2>1, <2>3 DEF PermCheckOK
<1>3. VersionsTyped'
    BY DEF PermissionInv, VersionsTyped
<1>4. QED
    BY <1>1, <1>2, <1>3 DEF PermissionInv

LEMMA PermissionStepInv == PermissionInv /\ [PermissionNext]_permVars => PermissionInv'
<1> SUFFICES ASSUME PermissionInv, [PermissionNext]_permVars PROVE PermissionInv'
    OBVIOUS
<1>1. CASE UNCHANGED permVars
    BY <1>1 DEF permVars, PermissionInv, VersionsTyped, EntriesTyped, EntryFresh, PermCheckOK, NotAhead,
       Fresh, StampNow, GrantedTo
<1>2. ASSUME NEW c \in Checks
      PROVE  /\ check[c] \in PermCheck /\ PermCheckOK(check[c])
             /\ check[c].stamp \in Stamps /\ check[c].roles \subseteq Roles
    BY DEF PermissionInv, PermCheck
<1>3. ASSUME UNCHANGED <<entry, granted, stampVer, unbumped, rewound>>
      PROVE  EntriesTyped' /\ \A s \in Stamps : EntryFresh(s)'
    BY <1>3 DEF PermissionInv, EntriesTyped, EntryFresh, NotAhead, Fresh, StampNow, GrantedTo
<1>4. ASSUME NEW c \in Checks, AskPermission(c) PROVE PermissionInv'
    <2>1. PICK q : q = [NoCheck EXCEPT !.at = "stamp", !.roles = held]
        OBVIOUS
    <2>2. q = [at |-> "stamp", roles |-> held, stamp |-> None, perms |-> {}]
        BY <2>1 DEF NoCheck
    <2>3. held \in SUBSET Roles
        BY DEF PermissionInv, VersionsTyped
    <2>4. q \in PermCheck /\ PermCheckOK(q)
        BY <2>2, <2>3, NoPermCheck
    <2>5. /\ check' = [check EXCEPT ![c] = q]
          /\ UNCHANGED <<held, granted, stampVer, entry, unbumped, losses, bumps, rewound>>
        BY <1>4, <2>1 DEF AskPermission
    <2>6. QED
        BY <1>3, <2>4, <2>5, ChecksStep
<1>5. ASSUME NEW c \in Checks, NEW k \in Versioned, ReadStamp(c, k) PROVE PermissionInv'
    <2>1. PICK s : s = Extended(check[c].stamp, k, stampVer[k])
        OBVIOUS
    <2>2. PICK q : q = [check[c] EXCEPT !.stamp = s]
        OBVIOUS
    <2>3. /\ k \in ({User} \cup check[c].roles) \ DOMAIN check[c].stamp
          /\ check[c].at = "stamp"
          /\ UNCHANGED <<held, granted, stampVer, entry, unbumped, losses, bumps, rewound>>
        BY <1>5 DEF ReadStamp, Answering
    <2>4. check' = [check EXCEPT ![c] = q]
        BY <1>5, <2>1, <2>2 DEF ReadStamp
    <2>5. stampVer[k] \in Nat /\ stampVer[k] <= stampVer[k]
        BY PermissionAssumption DEF PermissionInv, VersionsTyped
    <2>6. /\ DOMAIN s = DOMAIN check[c].stamp \cup {k} /\ s \in [DOMAIN s -> Nat]
          /\ s[k] = stampVer[k] /\ \A j \in DOMAIN check[c].stamp : s[j] = check[c].stamp[j]
        <3>1. /\ DOMAIN check[c].stamp \subseteq Versioned
              /\ \A j \in DOMAIN check[c].stamp : check[c].stamp[j] \in Nat
            BY <1>2, StampIs
        <3>2. QED
            BY <2>1, <2>3, <2>5, <3>1 DEF Extended
    <2>7. s \in Stamps
        <3>1. DOMAIN check[c].stamp \subseteq Versioned
            BY <1>2, StampIs
        <3>2. QED
            BY <2>6, <3>1, StampIs
    <2>8. q \in PermCheck /\ q.at = "stamp" /\ q.stamp = s /\ q.roles = check[c].roles
        BY <1>2, <2>2, <2>3, <2>7 DEF PermCheck
    <2>9. NotAhead(s)
        BY <1>2, <2>3, <2>5, <2>6 DEF PermCheckOK, NotAhead
    <2>10. PermCheckOK(q)
        BY <1>2, <2>3, <2>6, <2>8, <2>9 DEF PermCheckOK
    <2>11. QED
        BY <1>3, <2>3, <2>4, <2>8, <2>10, ChecksStep
<1>6. ASSUME NEW c \in Checks, NEW k \in Versioned, WriteStamp(c, k) PROVE PermissionInv'
    <2>1. /\ check[c].at = "stamp" /\ k \in DOMAIN check[c].stamp /\ check[c].stamp[k] = 0
          /\ stampVer' = [stampVer EXCEPT ![k] = 1]
          /\ rewound' = IF stampVer[k] > 1 THEN rewound \cup {k} ELSE rewound
          /\ check' = [check EXCEPT ![c].stamp[k] = 1]
          /\ UNCHANGED <<held, granted, entry, unbumped, losses, bumps>>
        BY <1>6 DEF WriteStamp, Answering, SetsFirst
    <2>2. stampVer \in [Versioned -> 0..MaxBumps + 1] /\ stampVer[k] \in Nat /\ MaxBumps \in Nat
        BY PermissionAssumption DEF PermissionInv, VersionsTyped
    <2>3. TableStep(k)
        BY <2>1, <2>2 DEF TableStep
    <2>4. VersionsTyped'
        BY <2>1, <2>2 DEF PermissionInv, VersionsTyped
    <2>5. stampVer \in [Versioned -> Nat] /\ stampVer' \in [Versioned -> Nat]
        BY <2>1, <2>2
    <2>6. PICK s : s = [check[c].stamp EXCEPT ![k] = 1]
        OBVIOUS
    <2>7. PICK q : q = [check[c] EXCEPT !.stamp = s]
        OBVIOUS
    <2>8. check' = [check EXCEPT ![c] = q]
        BY <2>1, <2>6, <2>7
    <2>9. check[c].stamp \in [DOMAIN check[c].stamp -> Nat] /\ DOMAIN check[c].stamp \subseteq Versioned
        BY <1>2, StampIs
    <2>10. /\ DOMAIN s = DOMAIN check[c].stamp /\ s \in [DOMAIN s -> Nat] /\ s[k] = 1
           /\ \A j \in DOMAIN s \ {k} : s[j] = check[c].stamp[j]
        BY <2>1, <2>6, <2>9
    <2>11. s \in Stamps
        BY <2>9, <2>10, StampIs
    <2>12. q \in PermCheck /\ q.at = "stamp" /\ q.stamp = s /\ q.roles = check[c].roles
        BY <1>2, <2>1, <2>7, <2>11 DEF PermCheck
    <2>13. PICK old \in Stamps : old = check[c].stamp
        BY <1>2
    <2>14. NotAhead(old)' /\ NotAhead(old)
        <3>1. NotAhead(old)
            BY <1>2, <2>13 DEF PermCheckOK
        <3>2. NotAhead(old)'
            BY <2>3, <2>5, <3>1, TableMoves
        <3>3. QED
            BY <3>1, <3>2
    <2>15. NotAhead(s)'
        BY <2>1, <2>2, <2>10, <2>13, <2>14 DEF NotAhead
    <2>16. PermCheckOK(q)'
        BY <1>2, <2>10, <2>12, <2>15 DEF PermCheckOK
    <2>17. ASSUME NEW e \in Stamps PROVE EntryFresh(e)'
        BY <2>1, <2>3, <2>5, <2>17, EntriesKeep
    <2>18. ASSUME NEW d \in Checks, d # c PROVE PermCheckOK(check[d])'
        <3>1. PermCheckOK(check[d]) /\ check[d] \in PermCheck /\ check'[d] = check[d]
            BY <1>2, <2>8, <2>18 DEF PermissionInv
        <3>2. QED
            BY <2>3, <2>5, <3>1, ChecksKeep
    <2>19. QED
        <3>1. check' \in [Checks -> PermCheck] /\ check'[c] = q
            BY <2>8, <2>12 DEF PermissionInv
        <3>2. PermCheckOK(check[c])'
            BY <2>16, <3>1 DEF PermCheckOK
        <3>3. EntriesTyped'
            BY <2>1 DEF PermissionInv, EntriesTyped
        <3>4. QED
            BY <2>4, <2>17, <2>18, <3>1, <3>2, <3>3 DEF PermissionInv
<1>7. ASSUME NEW c \in Checks, LookUp(c) PROVE PermissionInv'
    <2>1. /\ check[c].at = "stamp" /\ DOMAIN check[c].stamp = {User} \cup check[c].roles
          /\ check' = [check EXCEPT ![c] =
                IF check[c].stamp \in DOMAIN entry \/ check[c].roles = {} THEN NoCheck
                ELSE [@ EXCEPT !.at = "load"]]
          /\ entry' = IF check[c].roles = {} THEN Extended(entry, check[c].stamp, {}) ELSE entry
          /\ UNCHANGED <<held, granted, stampVer, unbumped, losses, bumps, rewound>>
        BY <1>7 DEF LookUp, Answering, Stamped
    <2>2. EntriesTyped' /\ \A s \in Stamps : EntryFresh(s)'
        <3>1. CASE check[c].roles # {}
            BY <1>3, <2>1, <3>1
        <3>2. CASE check[c].roles = {}
            <4>1. PICK s \in Stamps : s = check[c].stamp
                BY <1>2
            <4>2. entry' = Extended(entry, s, {})
                BY <2>1, <3>2, <4>1
            <4>3. NotAhead(s)
                BY <1>2, <4>1 DEF PermCheckOK
            <4>4. {} = GrantedTo(DOMAIN s \ {User})
                BY <2>1, <3>2, <4>1 DEF GrantedTo
            <4>5. Fresh(s, {})
                BY <4>4 DEF Fresh
            <4>6. QED
                BY <2>1, <4>2, <4>3, <4>5, SavesStep
        <3>3. QED
            BY <3>1, <3>2
    <2>3. PICK q : q = IF check[c].stamp \in DOMAIN entry \/ check[c].roles = {} THEN NoCheck
                       ELSE [check[c] EXCEPT !.at = "load"]
        OBVIOUS
    <2>4. check' = [check EXCEPT ![c] = q]
        BY <2>1, <2>3
    <2>5. q \in PermCheck /\ PermCheckOK(q)
        <3>1. CASE q = NoCheck
            BY <3>1, Ended
        <3>2. CASE q = [check[c] EXCEPT !.at = "load"]
            <4>1. q \in PermCheck /\ q.at = "load" /\ q.stamp = check[c].stamp /\ q.roles = check[c].roles
                BY <1>2, <3>2 DEF PermCheck
            <4>2. QED
                BY <1>2, <2>1, <4>1 DEF PermCheckOK
        <3>3. QED
            BY <2>3, <3>1, <3>2
    <2>6. QED
        BY <2>1, <2>2, <2>4, <2>5, ChecksStep
<1>8. ASSUME NEW c \in Checks, LoadPerms(c) PROVE PermissionInv'
    <2>1. PICK perms : perms = GrantedTo(check[c].roles)
        OBVIOUS
    <2>2. PICK q : q = [check[c] EXCEPT !.at = "save", !.perms = perms]
        OBVIOUS
    <2>3. /\ check[c].at = "load"
          /\ UNCHANGED <<held, granted, stampVer, entry, unbumped, losses, bumps, rewound>>
        BY <1>8 DEF LoadPerms, Answering
    <2>4. check' = [check EXCEPT ![c] = q]
        BY <1>8, <2>1, <2>2 DEF LoadPerms
    <2>5. perms \in SUBSET Perms
        BY <1>2, <2>1 DEF PermissionInv, VersionsTyped, GrantedTo
    <2>6. /\ q \in PermCheck /\ q.at = "save" /\ q.perms = perms
          /\ q.stamp = check[c].stamp /\ q.roles = check[c].roles
        BY <1>2, <2>2, <2>5 DEF PermCheck
    <2>7. DOMAIN check[c].stamp = {User} \cup check[c].roles
        BY <1>2, <2>3 DEF PermCheckOK
    <2>8. DOMAIN check[c].stamp \ {User} = check[c].roles
        BY <1>2, <2>7, PermissionAssumption
    <2>9. PermCheckOK(q)
        BY <1>2, <2>1, <2>6, <2>7, <2>8 DEF PermCheckOK, Fresh
    <2>10. QED
        BY <1>3, <2>3, <2>4, <2>6, <2>9, ChecksStep
<1>9. ASSUME NEW c \in Checks, SavePerms(c) PROVE PermissionInv'
    <2>1. /\ check[c].at = "save" /\ check' = [check EXCEPT ![c] = NoCheck]
          /\ entry' = Extended(entry, check[c].stamp, check[c].perms)
          /\ UNCHANGED <<held, granted, stampVer, unbumped, losses, bumps, rewound>>
        BY <1>9 DEF SavePerms, Answering
    <2>2. PICK s \in Stamps, perms \in SUBSET Perms : s = check[c].stamp /\ perms = check[c].perms
        BY <1>2 DEF PermCheck
    <2>3. NotAhead(s) /\ Fresh(s, perms) /\ entry' = Extended(entry, s, perms)
        BY <1>2, <2>1, <2>2 DEF PermCheckOK
    <2>4. EntriesTyped' /\ \A e \in Stamps : EntryFresh(e)'
        BY <2>1, <2>3, SavesStep
    <2>5. QED
        BY <2>1, <2>4, Ended, ChecksStep
<1>10. ASSUME NEW r \in Roles, ChangeRoles(r) PROVE PermissionInv'
    <2>1. /\ bumps < MaxBumps /\ unbumped' = unbumped \cup {User} /\ held' \subseteq Roles
          /\ UNCHANGED <<granted, stampVer, entry, check, losses, bumps, rewound>>
        BY <1>10 DEF ChangeRoles, MayBump, PermissionInv, VersionsTyped
    <2>2. User \in Versioned /\ GrantsBut(User) /\ held' \subseteq Roles
        BY <2>1 DEF Versioned, GrantsBut, PermissionInv, VersionsTyped
    <2>3. QED
        BY <2>1, <2>2, TablesChanged
<1>11. ASSUME NEW r \in Roles, NEW p \in Perms, ChangePerms(r, p) PROVE PermissionInv'
    <2>1. /\ bumps < MaxBumps /\ unbumped' = unbumped \cup {r} /\ held' = held
          /\ UNCHANGED <<stampVer, entry, check, losses, bumps, rewound>>
        BY <1>11 DEF ChangePerms, MayBump
    <2>2. GrantsBut(r)
        BY <1>11 DEF ChangePerms, PermissionInv, VersionsTyped, GrantsBut
    <2>3. r \in Versioned /\ held' \subseteq Roles
        BY <2>1 DEF Versioned, PermissionInv, VersionsTyped
    <2>4. QED
        BY <2>1, <2>2, <2>3, TablesChanged
<1>12. ASSUME NEW k \in Versioned, BumpPerm(k) PROVE PermissionInv'
    <2>1. /\ k \in unbumped /\ stampVer' = [stampVer EXCEPT ![k] = @ + 1] /\ bumps' = bumps + 1
          /\ unbumped' = unbumped \ {k}
          /\ UNCHANGED <<held, granted, entry, check, losses, rewound>>
        BY <1>12 DEF BumpPerm
    <2>2. /\ stampVer \in [Versioned -> 0..MaxBumps + 1] /\ MaxBumps \in Nat /\ bumps \in Nat
          /\ stampVer[k] <= MaxBumps /\ stampVer[k] \in Nat
        BY <2>1, PermissionAssumption DEF PermissionInv, VersionsTyped
    <2>3. TableStep(k)
        BY <2>1, <2>2 DEF TableStep
    <2>4. VersionsTyped'
        BY <2>1, <2>2 DEF PermissionInv, VersionsTyped
    <2>5. QED
        BY <2>1, <2>3, <2>4, TablesStep
<1>13. ASSUME NEW k \in Versioned, LoseVersion(k) PROVE PermissionInv'
    <2>1. /\ rewound' = rewound \cup {k}
          /\ UNCHANGED <<held, granted, entry, check, bumps>>
          /\ \/ unbumped' = unbumped \ {k} /\ stampVer' = stampVer
             \/ stampVer' = [stampVer EXCEPT ![k] = 0] /\ unbumped' = unbumped
        BY <1>13 DEF LoseVersion
    <2>2. stampVer \in [Versioned -> 0..MaxBumps + 1] /\ MaxBumps \in Nat /\ bumps \in Nat
        BY PermissionAssumption DEF PermissionInv, VersionsTyped
    <2>3. TableStep(k)
        BY <2>1, <2>2 DEF TableStep
    <2>4. VersionsTyped'
        BY <2>1, <2>2 DEF PermissionInv, VersionsTyped
    <2>5. QED
        BY <2>1, <2>3, <2>4, TablesStep
<1>14. ASSUME NEW stamp \in DOMAIN entry, EntryExpires(stamp) PROVE PermissionInv'
    <2>1. /\ entry' = [s \in DOMAIN entry \ {stamp} |-> entry[s]]
          /\ UNCHANGED <<held, granted, stampVer, check, unbumped, losses, bumps, rewound>>
        BY <1>14 DEF EntryExpires
    <2>2. EntriesTyped' /\ \A s \in Stamps : EntryFresh(s)'
        BY <2>1 DEF PermissionInv, EntriesTyped, EntryFresh, NotAhead, Fresh, StampNow, GrantedTo
    <2>3. VersionsTyped' /\ (check \in [Checks -> PermCheck])'
        BY <2>1 DEF PermissionInv, VersionsTyped
    <2>4. \A c \in Checks : PermCheckOK(check[c])'
        BY <2>1 DEF PermissionInv, PermCheckOK, NotAhead, Fresh, StampNow, GrantedTo
    <2>5. QED
        BY <2>2, <2>3, <2>4 DEF PermissionInv
<1>15. QED
    BY <1>1, <1>4, <1>5, <1>6, <1>7, <1>8, <1>9, <1>10, <1>11, <1>12, <1>13, <1>14 DEF PermissionNext

LEMMA PermissionInvSafe == PermissionInv => PermissionTypeOK /\ CacheFollowsGrants
<1> SUFFICES ASSUME PermissionInv PROVE PermissionTypeOK /\ CacheFollowsGrants
    OBVIOUS
<1>1. PermissionTypeOK
    <2>1. \A s \in DOMAIN entry : DOMAIN s \subseteq Versioned
        BY StampIs DEF PermissionInv, EntriesTyped
    <2>2. QED
        BY <2>1 DEF PermissionInv, EntriesTyped, VersionsTyped, PermissionTypeOK
<1>2. CacheFollowsGrants
    <2> SUFFICES ASSUME NEW roles \in SUBSET Roles,
                        NEW stamp, stamp = [k \in {User} \cup roles |-> stampVer[k]],
                        stamp \in DOMAIN entry,
                        ({User} \cup roles) \cap (unbumped \cup rewound) = {}
                 PROVE  entry[stamp] = GrantedTo(roles)
        BY DEF CacheFollowsGrants
    <2>1. stamp \in Stamps
        BY DEF PermissionInv, EntriesTyped
    <2>2. Fresh(stamp, entry[stamp])
        BY <2>1 DEF PermissionInv, EntryFresh
    <2>3. StampNow(stamp)
        BY DEF StampNow
    <2>4. DOMAIN stamp \ {User} = roles
        BY PermissionAssumption
    <2>5. QED
        BY <2>2, <2>3, <2>4 DEF Fresh
<1>3. QED
    BY <1>1, <1>2

(* Whichever requests race with changes, evictions and each other's SETs:  *)
(* a cached set that the next request finds is what the tables grant, but  *)
(* for versions whose bump is to come, was lost, or that went back.        *)
THEOREM CacheHolds == PermissionSpec => [](PermissionTypeOK /\ CacheFollowsGrants)
BY PermissionInitInv, PermissionStepInv, PermissionInvSafe, PTL DEF PermissionSpec

-----------------------------------------------------------------------------
(* PropertyPage, the form.  A copy of the row that carries the row's stamp *)
(* is the row; a form differs from its tab's copy only where its user has  *)
(* typed.                                                                  *)

Held == Values \cup {CHOOSE v \in Values : TRUE}
PropertyRow == [fields : [Fields -> Held], stamp : Nat]

FormTab == [data : PropertyRow, form : [Fields -> Held], read : {"idle", "sent", "ok"},
            seen : PropertyRow, save : {"idle", "sent", "ok"}, sent : PropertyRow,
            changed : SUBSET Fields]

OldRow(r) == r.stamp <= property.stamp /\ (r.stamp = property.stamp => r.fields = property.fields)

SentOK(w) ==
    /\ w.sent.stamp <= property.stamp
    /\ w.sent.stamp = property.stamp =>
          \A f \in Fields : w.sent.fields[f] # property.fields[f] => f \in w.changed

TabOK(w, fs) ==
    /\ OldRow(w.data) /\ OldRow(w.seen)
    /\ \A f \in Fields : w.form[f] # w.data.fields[f] => f \in fs
    /\ w.save = "sent" => SentOK(w)

FormInv ==
    /\ property \in PropertyRow
    /\ OldRow(NewProperty)
    /\ tab \in [FormTabs -> FormTab]
    /\ typed \in [FormTabs -> SUBSET Fields]
    /\ \A t \in FormTabs : TabOK(tab[t], typed[t])

(* What SavesOnlyTyped says of a step.                                     *)
SaveKeeps ==
    \A t \in FormTabs : tab[t].save = "sent" /\ tab'[t].save = "ok" =>
       \A f \in Fields : property'.fields[f] # property.fields[f] =>
          f \in tab[t].changed \/ tab[t].sent.stamp # property.stamp

LEMMA NewRow == NewProperty \in PropertyRow
BY DEF NewProperty, PropertyRow, Held

LEMMA FormInitInv == FormInit => FormInv
<1> SUFFICES ASSUME FormInit PROVE FormInv
    OBVIOUS
<1>1. property = NewProperty /\ property \in PropertyRow /\ OldRow(NewProperty)
    BY NewRow DEF FormInit, OldRow, PropertyRow
<1>2. PICK w : w = [data |-> NewProperty, form |-> NewProperty.fields, read |-> "idle", seen |-> NewProperty,
                    save |-> "idle", sent |-> NewProperty, changed |-> {}]
    OBVIOUS
<1>3. w \in FormTab
    <2>1. NewProperty \in PropertyRow /\ NewProperty.fields \in [Fields -> Held]
        BY NewRow DEF PropertyRow
    <2>2. QED
        BY <1>2, <2>1 DEF FormTab
<1>4. TabOK(w, {})
    BY <1>1, <1>2 DEF TabOK
<1>5. tab = [t \in FormTabs |-> w] /\ typed = [t \in FormTabs |-> {}]
    BY <1>2 DEF FormInit
<1>6. QED
    BY <1>1, <1>3, <1>4, <1>5 DEF FormInv

(* The step that leaves w in tab t is no answer to its save.               *)
NotServed(t, w) == w.save = "ok" => tab[t].save = "ok"

(* One tab moves, the row stays.                                           *)
LEMMA FormMoves ==
    ASSUME FormInv, NEW t \in FormTabs, NEW w \in FormTab, NEW fs \in SUBSET Fields, TabOK(w, fs),
           tab' = [tab EXCEPT ![t] = w], typed' = [typed EXCEPT ![t] = fs], property' = property,
           NotServed(t, w)
    PROVE  FormInv' /\ SaveKeeps
<1>1. /\ tab' \in [FormTabs -> FormTab] /\ \A u \in FormTabs : tab'[u] = IF u = t THEN w ELSE tab[u]
      /\ typed' \in [FormTabs -> SUBSET Fields]
      /\ \A u \in FormTabs : typed'[u] = IF u = t THEN fs ELSE typed[u]
    BY DEF FormInv
<1>2. ASSUME NEW u \in FormTabs PROVE TabOK(tab[u], typed[u])'
    <2>1. PICK x, gs : x = tab'[u] /\ gs = typed'[u]
        OBVIOUS
    <2>2. TabOK(x, gs)
        BY <1>1, <2>1 DEF FormInv
    <2>3. TabOK(x, gs)'
        BY <2>2 DEF TabOK, OldRow, SentOK
    <2>4. QED
        BY <2>1, <2>3 DEF TabOK, SentOK
<1>3. property' \in PropertyRow /\ OldRow(NewProperty)'
    BY DEF FormInv, OldRow
<1>4. SaveKeeps
    BY <1>1 DEF SaveKeeps, NotServed
<1>5. QED
    BY <1>1, <1>2, <1>3, <1>4 DEF FormInv

(* The row is written: every copy of it is older than the row.             *)
LEMMA RowWritten ==
    ASSUME NEW r \in PropertyRow, property \in PropertyRow, property' \in PropertyRow,
           property'.stamp = property.stamp + 1
    PROVE  OldRow(r) => OldRow(r)'
<1>1. r.stamp \in Nat /\ property.stamp \in Nat
    BY DEF PropertyRow
<1>2. QED
    BY <1>1 DEF OldRow

LEMMA TabWritten ==
    ASSUME NEW w \in FormTab, NEW fs, TabOK(w, fs), property \in PropertyRow, property' \in PropertyRow,
           property'.stamp = property.stamp + 1
    PROVE  TabOK(w, fs)'
<1>1. w.data \in PropertyRow /\ w.seen \in PropertyRow /\ w.sent \in PropertyRow
    BY DEF FormTab
<1>2. OldRow(w.data)' /\ OldRow(w.seen)'
    BY <1>1, RowWritten DEF TabOK
<1>3. w.save = "sent" => SentOK(w)'
    <2>1. w.sent.stamp \in Nat /\ property.stamp \in Nat
        BY <1>1 DEF PropertyRow
    <2>2. w.save = "sent" => w.sent.stamp <= property.stamp
        BY DEF TabOK, SentOK
    <2>3. w.save = "sent" => w.sent.stamp < property'.stamp
        BY <2>1, <2>2
    <2>4. QED
        BY <2>1, <2>3 DEF SentOK
<1>4. QED
    BY <1>2, <1>3 DEF TabOK

LEMMA FormStepInv == FormInv /\ [FormNext]_formVars => FormInv' /\ SaveKeeps
<1> SUFFICES ASSUME FormInv, [FormNext]_formVars PROVE FormInv' /\ SaveKeeps
    OBVIOUS
<1>1. CASE UNCHANGED formVars
    BY <1>1 DEF formVars, FormInv, TabOK, OldRow, SentOK, SaveKeeps
<1>2. ASSUME NEW t \in FormTabs
      PROVE  /\ tab[t] \in FormTab /\ TabOK(tab[t], typed[t]) /\ typed[t] \in SUBSET Fields
             /\ typed = [typed EXCEPT ![t] = typed[t]]
             /\ property \in PropertyRow /\ OldRow(property) /\ OldRow(NewProperty)
    <2>1. OldRow(property)
        BY DEF FormInv, PropertyRow, OldRow
    <2>2. QED
        BY <2>1 DEF FormInv
<1>3. CASE OthersWrite
    <2>1. PICK f \in Fields, v \in Values :
              property' = [fields |-> [property.fields EXCEPT ![f] = v], stamp |-> property.stamp + 1]
        BY <1>3 DEF OthersWrite
    <2>2. property' \in PropertyRow /\ property'.stamp = property.stamp + 1 /\ property \in PropertyRow
        BY <2>1 DEF FormInv, PropertyRow, Held
    <2>3. tab' = tab /\ typed' = typed
        BY <1>3 DEF OthersWrite
    <2>4. OldRow(NewProperty)'
        BY <2>2, NewRow, RowWritten DEF FormInv
    <2>5. ASSUME NEW t \in FormTabs PROVE TabOK(tab[t], typed[t])'
        <3>1. PICK w \in FormTab, fs \in SUBSET Fields : w = tab[t] /\ fs = typed[t]
            BY <1>2
        <3>2. TabOK(w, fs)'
            BY <1>2, <2>2, <3>1, TabWritten
        <3>3. QED
            BY <2>3, <3>1, <3>2 DEF TabOK, SentOK
    <2>6. SaveKeeps
        BY <2>3 DEF SaveKeeps
    <2>7. QED
        BY <2>2, <2>3, <2>4, <2>5, <2>6 DEF FormInv
<1>4. ASSUME NEW t \in FormTabs, NEW f \in Fields, NEW v \in Values, Type(t, f, v)
      PROVE  FormInv' /\ SaveKeeps
    <2>1. PICK g : g = [tab[t].form EXCEPT ![f] = v]
        OBVIOUS
    <2>2. PICK w : w = [tab[t] EXCEPT !.form = g]
        OBVIOUS
    <2>3. PICK fs : fs = typed[t] \cup {f}
        OBVIOUS
    <2>4. tab' = [tab EXCEPT ![t] = w] /\ property' = property
        BY <1>4, <2>1, <2>2 DEF Type
    <2>5. typed' = [typed EXCEPT ![t] = fs]
        BY <1>4, <2>3 DEF Type
    <2>6. g \in [Fields -> Held] /\ g[f] = v /\ \A h \in Fields : h # f => g[h] = tab[t].form[h]
        BY <1>2, <2>1 DEF FormTab, Held
    <2>7. /\ w \in FormTab /\ w.form = g /\ w.data = tab[t].data /\ w.seen = tab[t].seen
          /\ w.save = tab[t].save /\ w.sent = tab[t].sent /\ w.changed = tab[t].changed
        BY <1>2, <2>2, <2>6 DEF FormTab
    <2>8. TabOK(w, fs)
        BY <1>2, <2>3, <2>6, <2>7 DEF TabOK, SentOK
    <2>9. NotServed(t, w)
        BY <1>2, <2>3, <2>4, <2>5, <2>7, <2>8 DEF NotServed
    <2>10. QED
        BY <1>2, <2>3, <2>4, <2>5, <2>7, <2>8, <2>9, FormMoves
<1>5. ASSUME NEW t \in FormTabs, NEW w, w = [tab[t] EXCEPT !.read = "sent"],
             tab' = [tab EXCEPT ![t] = w], UNCHANGED <<property, typed>>
      PROVE  FormInv' /\ SaveKeeps
    <2>1. /\ w \in FormTab /\ w.form = tab[t].form /\ w.data = tab[t].data /\ w.seen = tab[t].seen
          /\ w.save = tab[t].save /\ w.sent = tab[t].sent /\ w.changed = tab[t].changed
        BY <1>2, <1>5 DEF FormTab
    <2>2. TabOK(w, typed[t])
        BY <1>2, <2>1 DEF TabOK, SentOK
    <2>3. NotServed(t, w)
        BY <1>2, <1>5, <2>1, <2>2 DEF NotServed
    <2>4. QED
        BY <1>2, <1>5, <2>1, <2>2, <2>3, FormMoves
<1>6. ASSUME NEW t \in FormTabs, ReadAgain(t) PROVE FormInv' /\ SaveKeeps
    <2>1. PICK w : w = [tab[t] EXCEPT !.read = "sent"]
        OBVIOUS
    <2>2. tab' = [tab EXCEPT ![t] = w] /\ UNCHANGED <<property, typed>>
        BY <1>6, <2>1 DEF ReadAgain
    <2>3. QED
        BY <1>5, <2>1, <2>2
<1>7. ASSUME NEW t \in FormTabs, ServeRead(t) PROVE FormInv' /\ SaveKeeps
    <2>1. PICK w : w = [tab[t] EXCEPT !.read = "ok", !.seen = property]
        OBVIOUS
    <2>2. tab' = [tab EXCEPT ![t] = w]
        BY <1>7, <2>1 DEF ServeRead
    <2>3. UNCHANGED <<property, typed>>
        BY <1>7 DEF ServeRead
    <2>4. /\ w \in FormTab /\ w.form = tab[t].form /\ w.data = tab[t].data /\ w.seen = property
          /\ w.save = tab[t].save /\ w.sent = tab[t].sent /\ w.changed = tab[t].changed
        BY <1>2, <2>1 DEF FormTab
    <2>5. TabOK(w, typed[t])
        BY <1>2, <2>4 DEF TabOK, SentOK
    <2>6. NotServed(t, w)
        BY <1>2, <2>2, <2>3, <2>4, <2>5 DEF NotServed
    <2>7. QED
        BY <1>2, <2>2, <2>3, <2>4, <2>5, <2>6, FormMoves
<1>8. ASSUME NEW t \in FormTabs, ReceiveProperty(t) PROVE FormInv' /\ SaveKeeps
    <2>1. PICK g : g = IF Fills(t) THEN tab[t].seen.fields ELSE tab[t].form
        OBVIOUS
    <2>2. PICK w : w = [tab[t] EXCEPT !.read = "idle", !.data = tab[t].seen, !.seen = NewProperty,
                                      !.form = g]
        OBVIOUS
    <2>3. PICK fs : fs = IF Fills(t) THEN {} ELSE typed[t]
        OBVIOUS
    <2>4. tab' = [tab EXCEPT ![t] = w]
        BY <1>8, <2>1, <2>2 DEF ReceiveProperty
    <2>5. typed' = [typed EXCEPT ![t] = fs] /\ property' = property
        BY <1>2, <1>8, <2>3 DEF ReceiveProperty
    <2>6. g \in [Fields -> Held] /\ fs \in SUBSET Fields
        BY <1>2, <2>1, <2>3 DEF FormTab, PropertyRow
    <2>7. /\ w \in FormTab /\ w.form = g /\ w.data = tab[t].seen /\ w.seen = NewProperty
          /\ w.save = tab[t].save /\ w.sent = tab[t].sent /\ w.changed = tab[t].changed
        BY <1>2, <2>2, <2>6, NewRow DEF FormTab
    <2>8. \A f \in Fields : g[f] # tab[t].seen.fields[f] => f \in fs
        <3>1. CASE Fills(t)
            BY <2>1, <3>1
        <3>2. CASE ~Fills(t)
            BY <1>2, <2>1, <2>3, <3>2 DEF Fills, TabOK
        <3>3. QED
            BY <3>1, <3>2
    <2>9. TabOK(w, fs)
        BY <1>2, <2>7, <2>8 DEF TabOK, SentOK
    <2>10. NotServed(t, w)
        BY <2>4, <2>5, <2>6, <2>7, <2>9 DEF NotServed
    <2>11. QED
        BY <2>4, <2>5, <2>6, <2>7, <2>9, <2>10, FormMoves
<1>9. ASSUME NEW t \in FormTabs, SaveForm(t) PROVE FormInv' /\ SaveKeeps
    <2>1. PICK r : r = [fields |-> tab[t].form, stamp |-> tab[t].data.stamp]
        OBVIOUS
    <2>2. PICK w : w = [tab[t] EXCEPT !.save = "sent", !.changed = typed[t], !.sent = r]
        OBVIOUS
    <2>3. tab' = [tab EXCEPT ![t] = w]
        BY <1>9, <2>1, <2>2 DEF SaveForm
    <2>4. UNCHANGED <<property, typed>>
        BY <1>9 DEF SaveForm
    <2>5. r \in PropertyRow /\ r.fields = tab[t].form /\ r.stamp = tab[t].data.stamp
        BY <1>2, <2>1 DEF FormTab, PropertyRow
    <2>6. /\ w \in FormTab /\ w.form = tab[t].form /\ w.data = tab[t].data /\ w.seen = tab[t].seen
          /\ w.save = "sent" /\ w.sent = r /\ w.changed = typed[t]
        BY <1>2, <2>2, <2>5 DEF FormTab
    <2>7. SentOK(w)
        BY <1>2, <2>5, <2>6 DEF TabOK, OldRow, SentOK
    <2>8. TabOK(w, typed[t])
        BY <1>2, <2>6, <2>7 DEF TabOK
    <2>9. NotServed(t, w)
        BY <1>2, <2>3, <2>4, <2>6, <2>8 DEF NotServed
    <2>10. QED
        BY <1>2, <2>3, <2>4, <2>6, <2>8, <2>9, FormMoves
<1>10. ASSUME NEW t \in FormTabs, ServeSave(t) PROVE FormInv' /\ SaveKeeps
    <2>1. PICK w : w = [tab[t] EXCEPT !.save = "ok", !.sent = NewProperty, !.changed = {}]
        OBVIOUS
    <2>2. /\ tab[t].save = "sent" /\ typed' = typed
          /\ property' = [fields |-> tab[t].sent.fields, stamp |-> property.stamp + 1]
        BY <1>10 DEF ServeSave
    <2>3. tab' = [tab EXCEPT ![t] = w]
        BY <1>10, <2>1 DEF ServeSave
    <2>4. /\ property' \in PropertyRow /\ property'.stamp = property.stamp + 1
          /\ property'.fields = tab[t].sent.fields
        BY <1>2, <2>2 DEF FormTab, PropertyRow
    <2>5. /\ w \in FormTab /\ w.form = tab[t].form /\ w.data = tab[t].data /\ w.seen = tab[t].seen
          /\ w.save = "ok"
        BY <1>2, <2>1, NewRow DEF FormTab
    <2>6. tab' \in [FormTabs -> FormTab] /\ \A u \in FormTabs : tab'[u] = IF u = t THEN w ELSE tab[u]
        BY <2>3, <2>5 DEF FormInv
    <2>7. ASSUME NEW u \in FormTabs PROVE TabOK(tab[u], typed[u])'
        <3>1. PICK x \in FormTab, fs \in SUBSET Fields : x = tab'[u] /\ fs = typed[u]
            BY <1>2, <2>6
        <3>2. TabOK(x, fs)
            <4>1. CASE u = t
                BY <1>2, <2>5, <2>6, <3>1, <4>1 DEF TabOK
            <4>2. CASE u # t
                BY <1>2, <2>6, <3>1, <4>2
            <4>3. QED
                BY <4>1, <4>2
        <3>3. TabOK(x, fs)'
            BY <1>2, <2>4, <3>2, TabWritten
        <3>4. QED
            BY <2>2, <3>1, <3>3 DEF TabOK, SentOK
    <2>8. OldRow(NewProperty)'
        BY <1>2, <2>4, NewRow, RowWritten
    <2>9. SaveKeeps
        <3>1. SentOK(tab[t])
            BY <1>2, <2>2 DEF TabOK
        <3>2. \A u \in FormTabs : tab[u].save = "sent" /\ tab'[u].save = "ok" => u = t
            BY <2>6
        <3>3. QED
            BY <2>4, <3>1, <3>2 DEF SaveKeeps, SentOK
    <2>10. QED
        BY <2>2, <2>4, <2>6, <2>7, <2>8, <2>9 DEF FormInv
<1>11. ASSUME NEW t \in FormTabs, Saved(t) PROVE FormInv' /\ SaveKeeps
    <2>1. PICK w : w = [tab[t] EXCEPT !.save = "idle", !.read = "sent"]
        OBVIOUS
    <2>2. tab' = [tab EXCEPT ![t] = w]
        BY <1>11, <2>1 DEF Saved
    <2>3. UNCHANGED <<property, typed>>
        BY <1>11 DEF Saved
    <2>4. /\ w \in FormTab /\ w.form = tab[t].form /\ w.data = tab[t].data /\ w.seen = tab[t].seen
          /\ w.save = "idle"
        BY <1>2, <2>1 DEF FormTab
    <2>5. TabOK(w, typed[t])
        BY <1>2, <2>4 DEF TabOK
    <2>6. NotServed(t, w)
        BY <1>2, <2>2, <2>3, <2>4, <2>5 DEF NotServed
    <2>7. QED
        BY <1>2, <2>2, <2>3, <2>4, <2>5, <2>6, FormMoves
<1>12. ASSUME NEW t \in FormTabs, FormRequestFails(t) PROVE FormInv' /\ SaveKeeps
    <2>1. UNCHANGED <<property, typed>>
        BY <1>12 DEF FormRequestFails
    <2>2. CASE tab' = [tab EXCEPT ![t].read = "idle", ![t].seen = NewProperty]
        <3>1. PICK w : w = [tab[t] EXCEPT !.read = "idle", !.seen = NewProperty]
            OBVIOUS
        <3>2. tab' = [tab EXCEPT ![t] = w]
            BY <2>2, <3>1
        <3>3. /\ w \in FormTab /\ w.form = tab[t].form /\ w.data = tab[t].data /\ w.seen = NewProperty
              /\ w.save = tab[t].save /\ w.sent = tab[t].sent /\ w.changed = tab[t].changed
            BY <1>2, <3>1, NewRow DEF FormTab
        <3>4. TabOK(w, typed[t])
            BY <1>2, <3>3 DEF TabOK, SentOK
        <3>5. NotServed(t, w)
            BY <1>2, <2>1, <3>2, <3>3, <3>4 DEF NotServed
        <3>6. QED
            BY <1>2, <2>1, <3>2, <3>3, <3>4, <3>5, FormMoves
    <2>3. CASE tab' = [tab EXCEPT ![t].save = "idle", ![t].sent = NewProperty, ![t].changed = {}]
        <3>1. PICK w : w = [tab[t] EXCEPT !.save = "idle", !.sent = NewProperty, !.changed = {}]
            OBVIOUS
        <3>2. tab' = [tab EXCEPT ![t] = w]
            BY <2>3, <3>1
        <3>3. /\ w \in FormTab /\ w.form = tab[t].form /\ w.data = tab[t].data /\ w.seen = tab[t].seen
              /\ w.save = "idle"
            BY <1>2, <3>1, NewRow DEF FormTab
        <3>4. TabOK(w, typed[t])
            BY <1>2, <3>3 DEF TabOK
        <3>5. NotServed(t, w)
            BY <1>2, <2>1, <3>2, <3>3, <3>4 DEF NotServed
        <3>6. QED
            BY <1>2, <2>1, <3>2, <3>3, <3>4, <3>5, FormMoves
    <2>4. QED
        BY <1>12, <2>2, <2>3 DEF FormRequestFails
<1>13. QED
    BY <1>1, <1>3, <1>4, <1>6, <1>7, <1>8, <1>9, <1>10, <1>11, <1>12 DEF FormNext

(* Any number of tabs, whoever else writes the row: a save changes only    *)
(* what its user has typed, unless the row was written since it was read.  *)
THEOREM FormsKeep == FormSpec => SavesOnlyTyped
<1>1. FormInv /\ [FormNext]_formVars => FormInv' /\ SaveKeeps
    BY FormStepInv
<1>2. QED
    BY <1>1, FormInitInv, PTL DEF FormSpec, SavesOnlyTyped, SaveKeeps

-----------------------------------------------------------------------------
(* BookingPages.  What the panel of the hold page says: its cancel is the  *)
(* one of the hold it shows, unless a hold came in between.                *)

StayMap == [PageStays -> StayStatus]

PagesTyped ==
    /\ booked \in StayMap /\ list \in StayMap
    /\ wish = [at |-> wish.at, id |-> wish.id] /\ wish.at \in {"idle", "sent", "ok"}
    /\ result = [id |-> result.id, shown |-> result.shown]
    /\ panelCancel = [at |-> panelCancel.at, id |-> panelCancel.id]
    /\ panelCancel.at \in {"idle", "sent", "ok", "refused"}
    /\ cancel = [at |-> cancel.at, id |-> cancel.id, before |-> cancel.before]
    /\ cancel.at \in {"idle", "sent", "ok", "refused"} /\ cancel.before \in StayMap
    /\ fetch = [at |-> fetch.at, seen |-> fetch.seen]
    /\ fetch.at \in {"idle", "sent", "ok"} /\ fetch.seen \in StayMap

PanelInv ==
    /\ result.id \in PageStays \cup {Nobody}
    /\ wish.at = "ok" => wish.id \in PageStays
    /\ panelCancel.at # "idle" => panelCancel.id \in PageStays
    /\ panelCancel.at # "idle" => overlap \/ result.id \in {panelCancel.id, Nobody}
    /\ panelCancel.at = "ok" => booked[panelCancel.id] = "CANCELLED"
    /\ result.shown = "CANCELLED" =>
          overlap \/ (result.id \in PageStays /\ booked[result.id] = "CANCELLED")

(* Quiet pages show what the server has, or what they fetched is that.     *)
ListInv ==
    ~touched /\ ~must /\ cancel.at = "idle" =>
       /\ fetch.at = "idle" => list = booked
       /\ fetch.at = "ok" => fetch.seen = booked

PagesInv == PagesTyped /\ PanelInv /\ ListInv

StaysCancelled == \A b \in PageStays : booked[b] = "CANCELLED" => booked'[b] = "CANCELLED"

LEMMA PagesInitInv == PagesInit => PagesInv
<1> SUFFICES ASSUME PagesInit PROVE PagesInv
    OBVIOUS
<1>1. /\ [b \in PageStays |-> "none"] \in StayMap /\ booked \in StayMap /\ list \in StayMap
      /\ fetch = [at |-> "idle", seen |-> booked]
    BY DEF PagesInit, StayMap, StayStatus
<1>2. PagesTyped
    BY <1>1 DEF PagesInit, PagesTyped, Quiet, NoResult, QuietCancel
<1>3. PanelInv
    BY DEF PagesInit, PanelInv, Quiet, NoResult
<1>4. ListInv
    BY DEF PagesInit, ListInv
<1>5. QED
    BY <1>2, <1>3, <1>4 DEF PagesInv

(* The actions of the list pages, and of others: the panel rests.          *)
LEMMA PanelRests == PanelInv /\ StaysCancelled /\ UNCHANGED panelVars => PanelInv'
BY DEF PanelInv, StaysCancelled, panelVars

(* A booking's status moves on.                                            *)
LEMMA BookedMoves ==
    ASSUME booked \in StayMap, NEW b, NEW s \in StayStatus, booked' = [booked EXCEPT ![b] = s],
           b \in PageStays => booked[b] # "CANCELLED" \/ s = "CANCELLED"
    PROVE  booked' \in StayMap /\ StaysCancelled
BY DEF StayMap, StaysCancelled

LEMMA BookedRests == booked \in StayMap /\ booked' = booked => booked' \in StayMap /\ StaysCancelled
BY DEF StaysCancelled

LEMMA PagesStepInv == PagesInv /\ [PagesNext]_pageVars => PagesInv'
<1> SUFFICES ASSUME PagesInv, [PagesNext]_pageVars PROVE PagesInv'
    OBVIOUS
<1>1. PagesTyped /\ PanelInv /\ ListInv /\ booked \in StayMap
    BY DEF PagesInv, PagesTyped
<1>2. CASE UNCHANGED pageVars
    BY <1>1, <1>2 DEF pageVars, PagesInv, PagesTyped, PanelInv, ListInv
<1>3. CASE SubmitHold
    <2>1. wish' = [at |-> "sent", id |-> Nobody] /\ wish'.at = "sent" /\ booked' = booked
        BY <1>3 DEF SubmitHold, Quiet
    <2>2. PagesTyped'
        BY <1>1, <1>3, <2>1 DEF SubmitHold, listVars, PagesTyped
    <2>3. PanelInv'
        BY <1>1, <1>3, <2>1 DEF SubmitHold, PanelInv
    <2>4. ListInv'
        BY <1>1, <1>3, <2>1 DEF SubmitHold, listVars, ListInv
    <2>5. QED
        BY <2>2, <2>3, <2>4 DEF PagesInv
<1>4. ASSUME NEW b \in PageStays, ServeHold(b) PROVE PagesInv'
    <2>1. booked' \in StayMap /\ StaysCancelled
        BY <1>1, <1>4, BookedMoves DEF ServeHold, StayStatus
    <2>2. wish' = [at |-> "ok", id |-> b] /\ wish'.at = "ok" /\ wish'.id = b
        BY <1>4 DEF ServeHold
    <2>3. PagesTyped'
        BY <1>1, <1>4, <2>1, <2>2 DEF ServeHold, PagesTyped
    <2>4. PanelInv'
        BY <1>1, <1>4, <2>1, <2>2 DEF ServeHold, PanelInv, StaysCancelled
    <2>5. ListInv'
        BY <1>4 DEF ServeHold, ListInv
    <2>6. QED
        BY <2>3, <2>4, <2>5 DEF PagesInv
<1>5. CASE HoldShown
    <2>1. /\ wish' = [at |-> "idle", id |-> Nobody] /\ wish'.at = "idle" /\ booked' = booked
          /\ result' = [id |-> wish.id, shown |-> "HOLD"] /\ result'.id = wish.id /\ result'.shown = "HOLD"
          /\ overlap' = (panelCancel.at # "idle") /\ wish.at = "ok"
        BY <1>5 DEF HoldShown, Quiet
    <2>2. PagesTyped'
        BY <1>1, <1>5, <2>1 DEF HoldShown, listVars, PagesTyped
    <2>3. PanelInv'
        BY <1>1, <1>5, <2>1 DEF HoldShown, PanelInv
    <2>4. ListInv'
        BY <1>1, <1>5, <2>1 DEF HoldShown, listVars, ListInv
    <2>5. QED
        BY <2>2, <2>3, <2>4 DEF PagesInv
<1>6. CASE HoldFails
    <2>1. /\ wish' = [at |-> "idle", id |-> Nobody] /\ wish'.at = "idle" /\ booked' = booked
          /\ result' = [id |-> Nobody, shown |-> "none"] /\ result'.id = Nobody /\ result'.shown = "none"
        BY <1>6 DEF HoldFails, Quiet, NoResult
    <2>2. PagesTyped'
        BY <1>1, <1>6, <2>1 DEF HoldFails, listVars, PagesTyped
    <2>3. PanelInv'
        BY <1>1, <1>6, <2>1 DEF HoldFails, PanelInv
    <2>4. ListInv'
        BY <1>1, <1>6, <2>1 DEF HoldFails, listVars, ListInv
    <2>5. QED
        BY <2>2, <2>3, <2>4 DEF PagesInv
<1>7. CASE PanelClick
    <2>1. /\ panelCancel' = [at |-> "sent", id |-> result.id] /\ panelCancel'.at = "sent"
          /\ panelCancel'.id = result.id /\ result.id # Nobody /\ booked' = booked
        BY <1>7 DEF PanelClick
    <2>2. PagesTyped'
        BY <1>1, <1>7, <2>1 DEF PanelClick, listVars, PagesTyped
    <2>3. PanelInv'
        BY <1>1, <1>7, <2>1 DEF PanelClick, PanelInv
    <2>4. ListInv'
        BY <1>1, <1>7, <2>1 DEF PanelClick, listVars, ListInv
    <2>5. QED
        BY <2>2, <2>3, <2>4 DEF PagesInv
<1>8. CASE PanelServe
    <2>1. /\ panelCancel.at = "sent" /\ panelCancel.id \in PageStays /\ panelCancel'.id = panelCancel.id
          /\ panelCancel' = [at |-> panelCancel'.at, id |-> panelCancel.id]
          /\ panelCancel'.at \in {"ok", "refused"}
        BY <1>1, <1>8 DEF PanelServe, PagesTyped, PanelInv
    <2>2. CASE booked[panelCancel.id] = "HOLD"
        <3>1. /\ booked' = [booked EXCEPT ![panelCancel.id] = "CANCELLED"] /\ touched' = TRUE
              /\ booked'[panelCancel.id] = "CANCELLED"
            BY <1>1, <1>8, <2>1, <2>2 DEF PanelServe, StayMap
        <3>2. booked' \in StayMap /\ StaysCancelled
            BY <1>1, <3>1, BookedMoves DEF StayStatus
        <3>3. PagesTyped'
            BY <1>1, <1>8, <2>1, <3>2 DEF PanelServe, PagesTyped
        <3>4. PanelInv'
            BY <1>1, <1>8, <2>1, <3>1, <3>2 DEF PanelServe, PanelInv, StaysCancelled
        <3>5. ListInv'
            BY <3>1 DEF ListInv
        <3>6. QED
            BY <3>3, <3>4, <3>5 DEF PagesInv
    <2>3. CASE booked[panelCancel.id] # "HOLD"
        <3>1. booked' = booked /\ touched' = touched /\ panelCancel'.at = "refused"
            BY <1>1, <1>8, <2>3 DEF PanelServe, PagesTyped
        <3>2. PagesTyped'
            BY <1>1, <1>8, <2>1, <3>1 DEF PanelServe, PagesTyped
        <3>3. PanelInv'
            BY <1>1, <1>8, <2>1, <3>1 DEF PanelServe, PanelInv
        <3>4. ListInv'
            BY <1>1, <1>8, <3>1 DEF PanelServe, ListInv
        <3>5. QED
            BY <3>2, <3>3, <3>4 DEF PagesInv
    <2>4. QED
        BY <2>2, <2>3
<1>9. CASE PanelAnswer
    <2>1. /\ panelCancel' = [at |-> "idle", id |-> Nobody] /\ panelCancel'.at = "idle" /\ booked' = booked
          /\ result'.id = result.id /\ result' = [id |-> result'.id, shown |-> result'.shown]
          /\ result'.shown = result.shown \/ (panelCancel.at = "ok" /\ result.id # Nobody)
        BY <1>1, <1>9 DEF PanelAnswer, Quiet, PagesTyped
    <2>2. PagesTyped'
        BY <1>1, <1>9, <2>1 DEF PanelAnswer, listVars, PagesTyped
    <2>3. PanelInv'
        BY <1>1, <1>9, <2>1 DEF PanelAnswer, PanelInv
    <2>4. ListInv'
        BY <1>1, <1>9, <2>1 DEF PanelAnswer, listVars, ListInv
    <2>5. QED
        BY <2>2, <2>3, <2>4 DEF PagesInv
<1>10. CASE StartFetch
    <2>1. /\ fetch' = [at |-> "sent", seen |-> fetch.seen] /\ fetch'.at = "sent" /\ fetch'.seen = fetch.seen
          /\ booked' = booked
        BY <1>1, <1>10 DEF StartFetch, PagesTyped
    <2>2. PagesTyped'
        BY <1>1, <1>10, <2>1 DEF StartFetch, panelVars, PagesTyped
    <2>3. PanelInv'
        BY <1>1, <1>10, BookedRests, PanelRests DEF StartFetch
    <2>4. ListInv'
        BY <2>1 DEF ListInv
    <2>5. QED
        BY <2>2, <2>3, <2>4 DEF PagesInv
<1>11. CASE ServeFetch
    <2>1. fetch' = [at |-> "ok", seen |-> booked] /\ fetch'.at = "ok" /\ fetch'.seen = booked /\ booked' = booked
        BY <1>1, <1>11 DEF ServeFetch
    <2>2. PagesTyped'
        BY <1>1, <1>11, <2>1 DEF ServeFetch, panelVars, PagesTyped
    <2>3. PanelInv'
        BY <1>1, <1>11, BookedRests, PanelRests DEF ServeFetch
    <2>4. ListInv'
        BY <2>1 DEF ListInv
    <2>5. QED
        BY <2>2, <2>3, <2>4 DEF PagesInv
<1>12. CASE ListShown
    <2>1. /\ fetch' = [at |-> "idle", seen |-> fetch.seen] /\ fetch'.at = "idle" /\ fetch'.seen = fetch.seen
          /\ fetch.at = "ok" /\ list' = fetch.seen /\ booked' = booked
        BY <1>1, <1>12 DEF ListShown, PagesTyped
    <2>2. PagesTyped'
        BY <1>1, <1>12, <2>1 DEF ListShown, panelVars, PagesTyped
    <2>3. PanelInv'
        BY <1>1, <1>12, BookedRests, PanelRests DEF ListShown
    <2>4. ListInv'
        BY <1>1, <1>12, <2>1 DEF ListShown, ListInv
    <2>5. QED
        BY <2>2, <2>3, <2>4 DEF PagesInv
<1>13. CASE FetchFails
    <2>1. /\ fetch' = [at |-> "idle", seen |-> fetch.seen] /\ fetch'.at = "idle" /\ fetch'.seen = fetch.seen
          /\ booked' = booked
        BY <1>1, <1>13 DEF FetchFails, PagesTyped
    <2>2. PagesTyped'
        BY <1>1, <1>13, <2>1 DEF FetchFails, panelVars, PagesTyped
    <2>3. PanelInv'
        BY <1>1, <1>13, BookedRests, PanelRests DEF FetchFails
    <2>4. ListInv'
        BY <1>13 DEF FetchFails, ListInv
    <2>5. QED
        BY <2>2, <2>3, <2>4 DEF PagesInv
<1>14. ASSUME NEW b \in PageStays, ListClick(b) PROVE PagesInv'
    <2>1. /\ cancel' = [at |-> "sent", id |-> b, before |-> list] /\ cancel'.at = "sent"
          /\ cancel'.before = list /\ cancel'.id = b
          /\ fetch' = [at |-> "idle", seen |-> fetch.seen] /\ fetch'.at = "idle" /\ fetch'.seen = fetch.seen
          /\ booked' = booked
        BY <1>1, <1>14 DEF ListClick, Optimistic, PagesTyped
    <2>2. list' \in StayMap
        BY <1>1, <1>14 DEF ListClick, Optimistic, PagesTyped, StayMap, StayStatus
    <2>3. PagesTyped'
        BY <1>1, <1>14, <2>1, <2>2 DEF ListClick, panelVars, PagesTyped
    <2>4. PanelInv'
        BY <1>1, <1>14, BookedRests, PanelRests DEF ListClick
    <2>5. ListInv'
        BY <2>1 DEF ListInv
    <2>6. QED
        BY <2>3, <2>4, <2>5 DEF PagesInv
<1>15. CASE ListServe
    <2>1. /\ cancel' = [at |-> cancel'.at, id |-> cancel.id, before |-> cancel.before]
          /\ cancel'.at \in {"ok", "refused"} /\ cancel'.before = cancel.before /\ cancel'.id = cancel.id
        BY <1>1, <1>15 DEF ListServe, PagesTyped
    <2>2. booked' = booked \/ booked' = [booked EXCEPT ![cancel.id] = "CANCELLED"]
        BY <1>15 DEF ListServe
    <2>3. booked' \in StayMap /\ StaysCancelled
        BY <1>1, <2>2, BookedMoves, BookedRests DEF StayStatus
    <2>4. PagesTyped'
        BY <1>1, <1>15, <2>1, <2>3 DEF ListServe, panelVars, PagesTyped
    <2>5. PanelInv'
        BY <1>1, <1>15, <2>3, PanelRests DEF ListServe
    <2>6. ListInv'
        BY <2>1 DEF ListInv
    <2>7. QED
        BY <2>4, <2>5, <2>6 DEF PagesInv
<1>16. CASE ListAnswer
    <2>1. [b \in PageStays |-> "none"] \in StayMap
        BY DEF StayMap, StayStatus
    <2>2. /\ cancel' = [at |-> "idle", id |-> Nobody, before |-> cancel'.before] /\ cancel'.at = "idle"
          /\ cancel'.before \in StayMap /\ cancel'.id = Nobody
          /\ fetch' = [at |-> "idle", seen |-> fetch.seen] /\ fetch'.at = "idle" /\ fetch'.seen = fetch.seen
          /\ booked' = booked
        BY <1>1, <1>16, <2>1 DEF ListAnswer, QuietCancel, PagesTyped
    <2>3. list' \in {cancel.before, list}
        BY <1>16 DEF ListAnswer
    <2>4. list' \in StayMap
        BY <1>1, <2>3 DEF PagesTyped
    <2>5. PagesTyped'
        BY <1>1, <1>16, <2>2, <2>4 DEF ListAnswer, panelVars, PagesTyped
    <2>6. PanelInv'
        BY <1>1, <1>16, BookedRests, PanelRests DEF ListAnswer
    <2>7. ListInv'
        BY <1>16 DEF ListAnswer, ListInv
    <2>8. QED
        BY <2>5, <2>6, <2>7 DEF PagesInv
<1>17. CASE AnswerLost
    <2>1. booked' = booked /\ UNCHANGED <<wish, result, list, fetch, must, overlap, touched>>
        BY <1>17 DEF AnswerLost
    <2>2. CASE panelCancel.at = "ok" /\ panelCancel' = [panelCancel EXCEPT !.at = "refused"] /\ UNCHANGED cancel
        <3>1. /\ panelCancel' = [at |-> "refused", id |-> panelCancel.id] /\ panelCancel'.at = "refused"
              /\ panelCancel'.id = panelCancel.id /\ cancel' = cancel
            BY <1>1, <2>2 DEF PagesTyped
        <3>2. PagesTyped'
            BY <1>1, <2>1, <3>1 DEF PagesTyped
        <3>3. PanelInv'
            BY <1>1, <2>1, <2>2, <3>1 DEF PanelInv
        <3>4. ListInv'
            BY <1>1, <2>1, <3>1 DEF ListInv
        <3>5. QED
            BY <3>2, <3>3, <3>4 DEF PagesInv
    <2>3. CASE cancel.at = "ok" /\ cancel' = [cancel EXCEPT !.at = "refused"] /\ UNCHANGED panelCancel
        <3>1. /\ cancel' = [at |-> "refused", id |-> cancel.id, before |-> cancel.before]
              /\ cancel'.at = "refused" /\ cancel'.before = cancel.before /\ panelCancel' = panelCancel
              /\ cancel'.id = cancel.id
            BY <1>1, <2>3 DEF PagesTyped
        <3>2. PagesTyped'
            BY <1>1, <2>1, <3>1 DEF PagesTyped
        <3>3. PanelInv'
            BY <1>1, <2>1, <3>1 DEF PanelInv
        <3>4. ListInv'
            BY <3>1 DEF ListInv
        <3>5. QED
            BY <3>2, <3>3, <3>4 DEF PagesInv
    <2>4. QED
        BY <1>17, <2>2, <2>3 DEF AnswerLost
<1>18. ASSUME NEW b \in PageStays, OthersChange(b) PROVE PagesInv'
    <2>1. \/ booked' = [booked EXCEPT ![b] = "CONFIRMED"] /\ booked[b] # "CANCELLED"
          \/ booked' = [booked EXCEPT ![b] = "CANCELLED"]
        BY <1>18 DEF OthersChange
    <2>2. booked' \in StayMap /\ StaysCancelled
        BY <1>1, <2>1, BookedMoves DEF StayStatus
    <2>3. PagesTyped'
        BY <1>1, <1>18, <2>2 DEF OthersChange, panelVars, PagesTyped
    <2>4. PanelInv'
        BY <1>1, <1>18, <2>2, PanelRests DEF OthersChange
    <2>5. ListInv'
        BY <1>18 DEF OthersChange, ListInv
    <2>6. QED
        BY <2>3, <2>4, <2>5 DEF PagesInv
<1>19. QED
    BY <1>2, <1>3, <1>4, <1>5, <1>6, <1>7, <1>8, <1>9, <1>10, <1>11, <1>12, <1>13, <1>14, <1>15, <1>16, <1>17, <1>18
       DEF PagesNext

LEMMA PagesInvSafe == PagesInv => PagesTypeOK /\ PanelHonest /\ ListHonest
BY DEF PagesInv, PagesTyped, PanelInv, ListInv, PagesTypeOK, PanelHonest, ListHonest, StayMap

(* Any number of bookings, of fetches and of changes by others.            *)
THEOREM PagesShow == PagesSpec => [](PagesTypeOK /\ PanelHonest /\ ListHonest)
<1>1. QED
    BY PagesInitInv, PagesStepInv, PagesInvSafe, PTL DEF PagesSpec

-----------------------------------------------------------------------------
(* CsrfTokens.  Each tab owes at most one refusal for what it has sent or  *)
(* is about to, and one for the token it has or waits for; no step lets    *)
(* it owe both at once, unless two answers overwrote the cookie or one was *)
(* lost.                                                                   *)

TabRequest == [at : {"idle", "waiting", "ready", "sent", "renew", "refused"}, secret : Nat,
            brought : BOOLEAN, passes : BOOLEAN]

CameThrough(r, j, m) == r.at = "sent" => r.secret \in 1..m /\ (r.brought => j # 0) /\ (r.passes => r.brought)

PageOK(tok, a, p, d, j, m) ==
    /\ tok \in 0..m /\ (tok # 0 => j # 0)
    /\ a.at \in {"idle", "sent"} /\ d.at \in {"idle", "sent"}
    /\ CameThrough(a, j, m) /\ CameThrough(p, j, m) /\ CameThrough(d, j, m)
    /\ p.at \in {"waiting", "refused"} => a.at = "sent"
    /\ a.at = "sent" => tok = 0 \/ p.at = "refused"
    /\ p.at = "sent" /\ p.passes => tok # 0

(* The post on its way, or the one about to be sent, is for another secret.*)
WillFail(tok, p, j) ==
    \/ p.at = "sent" /\ ~p.passes
    \/ p.at = "ready" /\ (j = 0 \/ tok # j)

(* The token the tab has, or waits for, is for another secret.             *)
Stale(tok, a, p, j) ==
    \/ a.at = "sent" /\ a.brought /\ a.secret # j
    \/ /\ a.at = "idle" /\ (p.at = "idle" \/ (p.at = "sent" /\ p.passes))
       /\ tok # 0 /\ tok # j

Due(tok, a, p, j) == (IF WillFail(tok, p, j) THEN 1 ELSE 0) + (IF Stale(tok, a, p, j) THEN 1 ELSE 0)

PageFits(t) == PageOK(csrfToken[t], asking[t], post[t], reading[t], jar, minted)
HasCause(t) ==
    t \notin unaware => refusals[t] + Due(csrfToken[t], asking[t], post[t], jar) <= overwrites + lostTokens

CsrfTyped ==
    /\ jar \in 0..minted /\ minted \in 0..MaxMinted
    /\ overwrites \in Nat /\ lostTokens \in Nat
    /\ csrfToken \in [PageTabs -> Nat] /\ refusals \in [PageTabs -> Nat]
    /\ asking \in [PageTabs -> TabRequest] /\ post \in [PageTabs -> TabRequest] /\ reading \in [PageTabs -> TabRequest]

CsrfInv == CsrfTyped /\ \A t \in PageTabs : PageFits(t) /\ HasCause(t)

LEMMA CsrfInitInv == CsrfInit => CsrfInv
<1> SUFFICES ASSUME CsrfInit PROVE CsrfInv
    OBVIOUS
<1>1. NoRequest \in TabRequest /\ NoRequest.at = "idle"
    BY DEF NoRequest, TabRequest
<1>2. CsrfTyped
    BY <1>1, CsrfAssumption DEF CsrfInit, CsrfTyped
<1>3. ASSUME NEW t \in PageTabs PROVE PageFits(t) /\ HasCause(t)
    <2>1. /\ csrfToken[t] = 0 /\ asking[t].at = "idle" /\ post[t].at = "idle" /\ reading[t].at = "idle"
          /\ jar = 0 /\ minted = 0 /\ refusals[t] = 0 /\ overwrites = 0 /\ lostTokens = 0
        BY <1>1 DEF CsrfInit
    <2>2. QED
        BY <2>1 DEF PageFits, HasCause, PageOK, CameThrough, Due, WillFail, Stale
<1>4. QED
    BY <1>2, <1>3 DEF CsrfInv

(* What a step of one tab does to what the tabs share.                     *)
JarMoves ==
    \/ jar' = jar /\ overwrites' = overwrites
    \/ jar' \in 1..minted /\ overwrites' = IF jar = 0 THEN overwrites ELSE overwrites + 1
Shares ==
    /\ JarMoves
    /\ minted' \in minted..MaxMinted
    /\ lostTokens' \in {lostTokens, lostTokens + 1}
    /\ unaware \subseteq unaware'

OthersRest(t) ==
    /\ csrfToken' \in [PageTabs -> Nat] /\ refusals' \in [PageTabs -> Nat]
    /\ asking' \in [PageTabs -> TabRequest] /\ post' \in [PageTabs -> TabRequest] /\ reading' \in [PageTabs -> TabRequest]
    /\ \A u \in PageTabs \ {t} : /\ csrfToken'[u] = csrfToken[u] /\ refusals'[u] = refusals[u]
                                 /\ asking'[u] = asking[u] /\ post'[u] = post[u] /\ reading'[u] = reading[u]

(* A cookie replaced makes a tab owe one refusal more, and none if there   *)
(* was no cookie.                                                          *)
LEMMA OneMoreDue ==
    ASSUME NEW tok \in Nat, NEW a \in TabRequest, NEW p \in TabRequest, NEW d, NEW j \in Nat, NEW m \in Nat, NEW s \in 1..m,
           PageOK(tok, a, p, d, j, m)
    PROVE  /\ j = 0 => Due(tok, a, p, s) <= Due(tok, a, p, j)
           /\ Due(tok, a, p, s) <= Due(tok, a, p, j) + 1
<1>1. Stale(tok, a, p, s) => j # 0
    BY DEF Stale, PageOK, CameThrough, TabRequest
<1>2. j = 0 /\ WillFail(tok, p, s) => WillFail(tok, p, j)
    BY DEF WillFail, PageOK
<1>3. Stale(tok, a, p, s) /\ WillFail(tok, p, s) => Stale(tok, a, p, j) \/ WillFail(tok, p, j)
    BY DEF Stale, WillFail, PageOK, CameThrough, TabRequest
<1>4. QED
    BY <1>1, <1>2, <1>3 DEF Due

LEMMA DueIsNat == \A tok, a, p, j : Due(tok, a, p, j) \in 0..2
BY DEF Due

LEMMA OlderPage ==
    ASSUME NEW tok \in Nat, NEW a \in TabRequest, NEW p \in TabRequest, NEW d \in TabRequest, NEW j \in Nat, NEW m \in Nat,
           NEW s \in Nat, NEW n \in Nat, m <= n, s = j \/ s \in 1..m, PageOK(tok, a, p, d, j, m)
    PROVE  PageOK(tok, a, p, d, s, n)
<1>1. \A r \in TabRequest : CameThrough(r, j, m) => CameThrough(r, s, n)
    BY DEF CameThrough
<1>2. QED
    BY <1>1 DEF PageOK

LEMMA OthersFollow ==
    ASSUME CsrfInv, Shares, NEW t, OthersRest(t), NEW u \in PageTabs \ {t}
    PROVE  PageFits(u)' /\ HasCause(u)'
<1>1. PICK tok \in Nat, a \in TabRequest, p \in TabRequest, d \in TabRequest, n \in Nat :
          /\ tok = csrfToken[u] /\ a = asking[u] /\ p = post[u] /\ d = reading[u] /\ n = refusals[u]
    BY DEF CsrfInv, CsrfTyped
<1>2. tok = csrfToken'[u] /\ a = asking'[u] /\ p = post'[u] /\ d = reading'[u] /\ n = refusals'[u]
    BY <1>1 DEF OthersRest
<1>3. /\ jar \in Nat /\ minted \in Nat /\ jar' \in Nat /\ minted' \in Nat /\ minted <= minted'
      /\ overwrites \in Nat /\ lostTokens \in Nat /\ overwrites' \in Nat /\ lostTokens' \in Nat
    BY CsrfAssumption DEF CsrfInv, CsrfTyped, Shares, JarMoves
<1>4. PageOK(tok, a, p, d, jar, minted) /\ (u \notin unaware => n + Due(tok, a, p, jar) <= overwrites + lostTokens)
    BY <1>1 DEF CsrfInv, PageFits, HasCause
<1>5. PageOK(tok, a, p, d, jar', minted')
    BY <1>3, <1>4, OlderPage DEF Shares, JarMoves
<1>6. u \notin unaware' => n + Due(tok, a, p, jar') <= overwrites' + lostTokens'
    <2>1. Due(tok, a, p, jar) \in Nat /\ Due(tok, a, p, jar') \in Nat
        BY DueIsNat
    <2>2. lostTokens' >= lostTokens /\ (u \notin unaware' => u \notin unaware)
        BY <1>3 DEF Shares
    <2>3. CASE jar' = jar /\ overwrites' = overwrites
        BY <1>3, <1>4, <2>1, <2>2, <2>3
    <2>4. CASE jar' \in 1..minted /\ overwrites' = IF jar = 0 THEN overwrites ELSE overwrites + 1
        <3>1. /\ jar = 0 => Due(tok, a, p, jar') <= Due(tok, a, p, jar)
              /\ Due(tok, a, p, jar') <= Due(tok, a, p, jar) + 1
            BY <1>3, <1>4, <2>4, OneMoreDue
        <3>2. QED
            BY <1>3, <1>4, <2>1, <2>2, <2>4, <3>1
    <2>5. QED
        BY <2>3, <2>4 DEF Shares, JarMoves
<1>7. QED
    BY <1>2, <1>5, <1>6 DEF PageFits, HasCause

LEMMA CsrfMoves ==
    ASSUME CsrfInv, Shares, NEW t \in PageTabs, OthersRest(t), PageFits(t)', HasCause(t)'
    PROVE  CsrfInv'
<1>1. \A u \in PageTabs : PageFits(u)' /\ HasCause(u)'
    BY OthersFollow
<1>2. CsrfTyped'
    BY CsrfAssumption DEF CsrfInv, CsrfTyped, Shares, JarMoves, OthersRest
<1>3. QED
    BY <1>1, <1>2 DEF CsrfInv

(* What the server gives a request that is sent.                           *)
LEMMA SecretGiven ==
    ASSUME CsrfTyped, NEW t \in PageTabs, Mints
    PROVE  /\ minted' \in minted..MaxMinted /\ OnItsWay(t) \in TabRequest /\ OnItsWay(t).at = "sent"
           /\ OnItsWay(t).secret \in 1..minted' /\ (OnItsWay(t).brought <=> jar # 0)
           /\ jar # 0 => OnItsWay(t).secret = jar
           /\ (OnItsWay(t).passes <=> jar # 0 /\ csrfToken[t] = jar)
<1>1. SecretOf \in 1..minted' /\ minted' \in minted..MaxMinted
    <2>1. jar \in Nat /\ minted \in Nat /\ jar <= minted /\ minted <= MaxMinted
        BY CsrfAssumption DEF CsrfTyped
    <2>2. CASE jar = 0
        BY <2>1, <2>2, CsrfAssumption DEF Mints, SecretOf
    <2>3. CASE jar # 0
        BY <2>1, <2>3, CsrfAssumption DEF Mints, SecretOf
    <2>4. QED
        BY <2>2, <2>3
<1>2. SecretOf \in Nat /\ (jar # 0 => SecretOf = jar)
    BY CsrfAssumption DEF CsrfTyped, SecretOf
<1>3. PICK b \in BOOLEAN, c \in BOOLEAN, s \in Nat :
          (b <=> jar # 0) /\ (c <=> jar # 0 /\ csrfToken[t] = jar) /\ s = SecretOf
    BY <1>2
<1>4. OnItsWay(t) = [at |-> "sent", secret |-> s, brought |-> b, passes |-> c]
    <2>1. b = (jar # 0) /\ c = (jar # 0 /\ csrfToken[t] = jar)
        BY <1>3
    <2>2. QED
        BY <1>3, <2>1, Zenon DEF OnItsWay
<1>5. QED
    BY <1>1, <1>2, <1>3, <1>4 DEF TabRequest

LEMMA CsrfStepInv == CsrfInv /\ [CsrfNext]_csrfVars => CsrfInv'
<1> SUFFICES ASSUME CsrfInv, [CsrfNext]_csrfVars PROVE CsrfInv'
    OBVIOUS
<1>1. CASE UNCHANGED csrfVars
    BY <1>1 DEF csrfVars, CsrfInv, CsrfTyped, PageFits, HasCause
<1> SUFFICES ASSUME NEW t \in PageTabs,
                    \/ LoadPage(t) \/ Click(t) \/ SendPost(t) \/ PostAnswered(t) \/ Renew(t)
                    \/ TokenAnswered(t) \/ Query(t) \/ QueryAnswered(t)
             PROVE  CsrfInv'
    BY <1>1 DEF CsrfNext
<1>2. PICK tok \in Nat, a \in TabRequest, p \in TabRequest, d \in TabRequest, n \in Nat :
          /\ tok = csrfToken[t] /\ a = asking[t] /\ p = post[t] /\ d = reading[t] /\ n = refusals[t]
    BY DEF CsrfInv, CsrfTyped
<1>3. /\ PageOK(tok, a, p, d, jar, minted)
      /\ t \notin unaware => n + Due(tok, a, p, jar) <= overwrites + lostTokens
      /\ CsrfTyped
    BY <1>2 DEF CsrfInv, PageFits, HasCause
<1>4. jar \in Nat /\ minted \in Nat /\ overwrites \in Nat /\ lostTokens \in Nat /\ minted \in minted..MaxMinted
    BY <1>3, CsrfAssumption DEF CsrfTyped
<1>5. NoRequest \in TabRequest /\ NoRequest.at = "idle"
    BY DEF NoRequest, TabRequest
(* The step of a tab: the others rest, and what it leaves in this one.     *)
<1>6. ASSUME Shares, OthersRest(t),
             NEW tok2 \in Nat, NEW a2 \in TabRequest, NEW p2 \in TabRequest, NEW d2 \in TabRequest, NEW n2 \in Nat,
             tok2 = csrfToken'[t], a2 = asking'[t], p2 = post'[t], d2 = reading'[t], n2 = refusals'[t],
             PageOK(tok2, a2, p2, d2, jar', minted'),
             t \notin unaware' => n2 + Due(tok2, a2, p2, jar') <= overwrites' + lostTokens'
      PROVE  CsrfInv'
    BY <1>6, CsrfMoves DEF PageFits, HasCause
<1>7. CASE LoadPage(t)
    <2>1. PICK o : o = OnItsWay(t)
        OBVIOUS
    <2>2. /\ tok = 0 /\ a.at = "idle" /\ Mints /\ asking' = [asking EXCEPT ![t] = o]
          /\ UNCHANGED <<jar, csrfToken, post, reading, posted, lostTokens, overwrites, refusals, unaware>>
        BY <1>2, <1>7, <2>1 DEF LoadPage, Ensure
    <2>3. /\ minted' \in minted..MaxMinted /\ o \in TabRequest /\ o.at = "sent" /\ o.secret \in 1..minted'
          /\ (o.brought <=> jar # 0) /\ (jar # 0 => o.secret = jar) /\ (o.passes <=> jar # 0 /\ tok = jar)
        BY <1>2, <1>3, <2>1, <2>2, SecretGiven
    <2>4. Shares /\ OthersRest(t)
        BY <1>3, <2>2, <2>3 DEF Shares, JarMoves, OthersRest, CsrfTyped
    <2>5. PageOK(tok, a, p, d, jar, minted')
        BY <1>3, <1>4, <2>3, OlderPage
    <2>6. PageOK(tok, o, p, d, jar', minted')
        BY <2>2, <2>3, <2>5 DEF PageOK, CameThrough
    <2>7. t \notin unaware' => n + Due(tok, o, p, jar') <= overwrites' + lostTokens'
        <3>1. ~Stale(tok, o, p, jar)
            BY <2>3 DEF Stale
        <3>2. QED
            BY <1>3, <1>4, <2>2, <3>1 DEF Due
    <2>8. /\ tok = csrfToken'[t] /\ o = asking'[t] /\ p = post'[t] /\ d = reading'[t] /\ n = refusals'[t]
        BY <1>2, <1>3, <2>2 DEF CsrfTyped
    <2>9. QED
        BY <1>6, <2>3, <2>4, <2>6, <2>7, <2>8
<1>8. CASE Click(t)
    <2>1. p.at = "idle" /\ UNCHANGED <<jar, csrfToken, reading, lostTokens, overwrites, refusals, unaware>>
        BY <1>2, <1>8 DEF Click
    <2>2. CASE tok = 0
        <3>1. PICK q : q = [NoRequest EXCEPT !.at = "waiting"]
            OBVIOUS
        <3>2. Ensure(t) /\ post' = [post EXCEPT ![t] = q]
            BY <1>2, <1>8, <2>2, <3>1 DEF Click
        <3>3. q \in TabRequest /\ q.at = "waiting"
            BY <3>1 DEF NoRequest, TabRequest
        <3>4. CASE a.at = "idle"
            <4>1. PICK o : o = OnItsWay(t)
                OBVIOUS
            <4>2. Mints /\ asking' = [asking EXCEPT ![t] = o]
                BY <1>2, <3>2, <3>4, <4>1 DEF Ensure
            <4>3. /\ minted' \in minted..MaxMinted /\ o \in TabRequest /\ o.at = "sent" /\ o.secret \in 1..minted'
                  /\ (o.brought <=> jar # 0) /\ (jar # 0 => o.secret = jar) /\ (o.passes <=> jar # 0 /\ tok = jar)
                BY <1>2, <1>3, <4>1, <4>2, SecretGiven
            <4>4. Shares /\ OthersRest(t)
                BY <1>3, <2>1, <3>2, <3>3, <4>2, <4>3 DEF Shares, JarMoves, OthersRest, CsrfTyped
            <4>5. PageOK(tok, a, p, d, jar, minted')
                BY <1>3, <1>4, <4>3, OlderPage
            <4>6. PageOK(tok, o, q, d, jar', minted')
                BY <2>1, <2>2, <3>3, <4>3, <4>5 DEF PageOK, CameThrough
            <4>7. t \notin unaware' => n + Due(tok, o, q, jar') <= overwrites' + lostTokens'
                <5>1. ~Stale(tok, o, q, jar) /\ ~WillFail(tok, q, jar)
                    BY <3>3, <4>3 DEF Stale, WillFail
                <5>2. QED
                    BY <1>3, <1>4, <2>1, <5>1, DueIsNat DEF Due
            <4>8. /\ tok = csrfToken'[t] /\ o = asking'[t] /\ q = post'[t] /\ d = reading'[t] /\ n = refusals'[t]
                BY <1>2, <1>3, <2>1, <3>2, <4>2 DEF CsrfTyped
            <4>9. QED
                BY <1>6, <3>3, <4>3, <4>4, <4>6, <4>7, <4>8
        <3>5. CASE a.at # "idle"
            <4>1. UNCHANGED <<minted, asking>> /\ a.at = "sent"
                BY <1>2, <1>3, <3>2, <3>5 DEF Ensure, PageOK
            <4>2. Shares /\ OthersRest(t)
                BY <1>3, <1>4, <2>1, <3>2, <3>3, <4>1 DEF Shares, JarMoves, OthersRest, CsrfTyped
            <4>3. PageOK(tok, a, q, d, jar', minted')
                BY <1>3, <2>1, <2>2, <3>3, <4>1 DEF PageOK, CameThrough
            <4>4. t \notin unaware' => n + Due(tok, a, q, jar') <= overwrites' + lostTokens'
                <5>1. (Stale(tok, a, q, jar) => Stale(tok, a, p, jar)) /\ ~WillFail(tok, q, jar)
                    BY <3>3, <4>1 DEF Stale, WillFail
                <5>2. QED
                    BY <1>3, <1>4, <2>1, <5>1, DueIsNat DEF Due
            <4>5. /\ tok = csrfToken'[t] /\ a = asking'[t] /\ q = post'[t] /\ d = reading'[t] /\ n = refusals'[t]
                BY <1>2, <1>3, <2>1, <3>2, <4>1 DEF CsrfTyped
            <4>6. QED
                BY <1>6, <3>3, <4>2, <4>3, <4>4, <4>5
        <3>6. QED
            BY <3>4, <3>5
    <2>3. CASE tok # 0
        <3>1. PICK o : o = OnItsWay(t)
            OBVIOUS
        <3>2. Mints /\ post' = [post EXCEPT ![t] = o] /\ UNCHANGED asking
            BY <1>2, <1>8, <2>3, <3>1 DEF Click
        <3>3. /\ minted' \in minted..MaxMinted /\ o \in TabRequest /\ o.at = "sent" /\ o.secret \in 1..minted'
              /\ (o.brought <=> jar # 0) /\ (o.passes <=> jar # 0 /\ tok = jar)
            BY <1>2, <1>3, <3>1, <3>2, SecretGiven
        <3>4. Shares /\ OthersRest(t)
            BY <1>3, <2>1, <3>2, <3>3 DEF Shares, JarMoves, OthersRest, CsrfTyped
        <3>5. PageOK(tok, a, p, d, jar, minted')
            BY <1>3, <1>4, <3>3, OlderPage
        <3>6. PageOK(tok, a, o, d, jar', minted')
            BY <2>1, <2>3, <3>3, <3>5 DEF PageOK, CameThrough
        <3>7. t \notin unaware' => n + Due(tok, a, o, jar') <= overwrites' + lostTokens'
            <4>1. a.at = "idle" /\ jar # 0
                BY <1>3, <2>1, <2>3 DEF PageOK
            <4>2. /\ WillFail(tok, o, jar) => Stale(tok, a, p, jar)
                  /\ ~(WillFail(tok, o, jar) /\ Stale(tok, a, o, jar))
                  /\ Stale(tok, a, o, jar) => Stale(tok, a, p, jar)
                BY <2>1, <2>3, <3>3, <4>1 DEF WillFail, Stale
            <4>3. QED
                BY <1>3, <1>4, <2>1, <4>2 DEF Due
        <3>8. /\ tok = csrfToken'[t] /\ a = asking'[t] /\ o = post'[t] /\ d = reading'[t] /\ n = refusals'[t]
            BY <1>2, <1>3, <2>1, <3>2 DEF CsrfTyped
        <3>9. QED
            BY <1>6, <3>3, <3>4, <3>6, <3>7, <3>8
    <2>4. QED
        BY <2>2, <2>3
<1>9. CASE SendPost(t)
    <2>1. PICK o : o = OnItsWay(t)
        OBVIOUS
    <2>2. /\ p.at = "ready" /\ Mints /\ post' = [post EXCEPT ![t] = o]
          /\ UNCHANGED <<jar, csrfToken, asking, reading, posted, lostTokens, overwrites, refusals, unaware>>
        BY <1>2, <1>9, <2>1 DEF SendPost
    <2>3. /\ minted' \in minted..MaxMinted /\ o \in TabRequest /\ o.at = "sent" /\ o.secret \in 1..minted'
          /\ (o.brought <=> jar # 0) /\ (o.passes <=> jar # 0 /\ tok = jar)
        BY <1>2, <1>3, <2>1, <2>2, SecretGiven
    <2>4. Shares /\ OthersRest(t)
        BY <1>3, <2>2, <2>3 DEF Shares, JarMoves, OthersRest, CsrfTyped
    <2>5. PageOK(tok, a, p, d, jar, minted')
        BY <1>3, <1>4, <2>3, OlderPage
    <2>6. PageOK(tok, a, o, d, jar', minted')
        BY <2>2, <2>3, <2>5 DEF PageOK, CameThrough
    <2>7. t \notin unaware' => n + Due(tok, a, o, jar') <= overwrites' + lostTokens'
        <3>1. /\ WillFail(tok, o, jar) => WillFail(tok, p, jar)
              /\ Stale(tok, a, o, jar) => Stale(tok, a, p, jar)
            BY <2>2, <2>3 DEF WillFail, Stale
        <3>2. QED
            BY <1>3, <1>4, <2>2, <3>1 DEF Due
    <2>8. /\ tok = csrfToken'[t] /\ a = asking'[t] /\ o = post'[t] /\ d = reading'[t] /\ n = refusals'[t]
        BY <1>2, <1>3, <2>2 DEF CsrfTyped
    <2>9. QED
        BY <1>6, <2>3, <2>4, <2>6, <2>7, <2>8
(* The cookie that an answer brings.                                       *)
<1>10. ASSUME NEW r \in TabRequest, r.at = "sent", CameThrough(r, jar, minted), Arrives(r)
       PROVE  /\ JarMoves
              /\ r.brought => jar' = jar /\ overwrites' = overwrites
              /\ ~r.brought => jar' = r.secret /\ overwrites' = IF jar = 0 THEN overwrites ELSE overwrites + 1
              /\ jar' \in Nat /\ jar' \in 0..minted /\ overwrites' \in Nat /\ (jar # 0 => jar' # 0)
              /\ overwrites' >= overwrites
    BY <1>4, <1>10, <1>3 DEF Arrives, JarMoves, CameThrough, TabRequest, CsrfTyped
<1>11. CASE PostAnswered(t)
    <2>1. /\ p.at = "sent" /\ Arrives(p)
          /\ UNCHANGED <<minted, csrfToken, asking, reading, posted, lostTokens>>
        BY <1>2, <1>11 DEF PostAnswered
    <2>2. /\ JarMoves
          /\ p.brought => jar' = jar /\ overwrites' = overwrites
          /\ ~p.brought => jar' = p.secret /\ overwrites' = IF jar = 0 THEN overwrites ELSE overwrites + 1
          /\ jar' \in Nat /\ jar' \in 0..minted /\ overwrites' \in Nat /\ (jar # 0 => jar' # 0)
          /\ overwrites' >= overwrites
        BY <1>3, <1>10, <2>1 DEF PageOK
    <2>3. PageOK(tok, a, p, d, jar', minted')
        BY <1>3, <1>4, <2>1, <2>2, OlderPage DEF JarMoves
    <2>4. CASE p.passes
        <3>1. /\ post' = [post EXCEPT ![t] = NoRequest] /\ refusals' = [refusals EXCEPT ![t] = 0]
              /\ unaware' = unaware
            BY <1>2, <1>11, <2>4 DEF PostAnswered
        <3>2. jar' = jar /\ overwrites' = overwrites
            BY <1>3, <2>1, <2>2, <2>4 DEF PageOK, CameThrough
        <3>3. Shares /\ OthersRest(t)
            BY <1>3, <1>4, <1>5, <2>1, <2>2, <3>1 DEF Shares, OthersRest, CsrfTyped
        <3>4. PageOK(tok, a, NoRequest, d, jar', minted')
            BY <1>3, <1>5, <2>1, <2>3, <2>4 DEF PageOK, CameThrough
        <3>5. t \notin unaware' => 0 + Due(tok, a, NoRequest, jar') <= overwrites' + lostTokens'
            <4>1. /\ Stale(tok, a, NoRequest, jar) => Stale(tok, a, p, jar)
                  /\ ~WillFail(tok, NoRequest, jar)
                BY <1>5, <2>1, <2>4 DEF Stale, WillFail
            <4>2. QED
                BY <1>3, <1>4, <2>1, <3>1, <3>2, <4>1, DueIsNat DEF Due
        <3>6. /\ tok = csrfToken'[t] /\ a = asking'[t] /\ NoRequest = post'[t] /\ d = reading'[t]
              /\ 0 = refusals'[t]
            BY <1>2, <1>3, <2>1, <3>1 DEF CsrfTyped
        <3>7. QED
            BY <1>5, <1>6, <3>3, <3>4, <3>5, <3>6
    <2>5. CASE ~p.passes
        <3>1. PICK q : /\ q = [NoRequest EXCEPT !.at = "renew"] \/ q = NoRequest
                       /\ post' = [post EXCEPT ![t] = q]
                       /\ q # NoRequest => unaware' = unaware
                       /\ q = NoRequest => unaware' = unaware \cup {t}
            <4>1. \/ post' = [post EXCEPT ![t] = [NoRequest EXCEPT !.at = "renew"]] /\ unaware' = unaware
                  \/ post' = [post EXCEPT ![t] = NoRequest] /\ unaware' = unaware \cup {t}
                BY <1>2, <1>11, <2>5 DEF PostAnswered
            <4>2. [NoRequest EXCEPT !.at = "renew"] # NoRequest
                BY DEF NoRequest
            <4>3. CASE post' = [post EXCEPT ![t] = [NoRequest EXCEPT !.at = "renew"]] /\ unaware' = unaware
                BY <4>2, <4>3, Zenon
            <4>4. CASE post' = [post EXCEPT ![t] = NoRequest] /\ unaware' = unaware \cup {t}
                BY <4>4, Zenon
            <4>5. QED
                BY <4>1, <4>3, <4>4
        <3>2. refusals' = [refusals EXCEPT ![t] = n + 1]
            BY <1>2, <1>11, <2>5 DEF PostAnswered
        <3>3. q \in TabRequest /\ (q.at = "renew" \/ q = NoRequest)
            BY <1>5, <3>1 DEF NoRequest, TabRequest
        <3>4. unaware \subseteq unaware' /\ (t \notin unaware' => q.at = "renew" /\ t \notin unaware)
            BY <3>1, <3>3
        <3>5. Shares /\ OthersRest(t)
            BY <1>2, <1>3, <1>4, <2>1, <2>2, <3>1, <3>2, <3>3, <3>4 DEF Shares, OthersRest, CsrfTyped
        <3>6. PageOK(tok, a, q, d, jar', minted')
            BY <1>3, <1>5, <2>1, <2>3, <3>3 DEF PageOK, CameThrough
        <3>7. t \notin unaware' => n + 1 + Due(tok, a, q, jar') <= overwrites' + lostTokens'
            <4>1. SUFFICES ASSUME t \notin unaware' PROVE n + 1 + Due(tok, a, q, jar') <= overwrites' + lostTokens'
                OBVIOUS
            <4>2. q.at = "renew" /\ n + Due(tok, a, p, jar) <= overwrites + lostTokens
                BY <1>3, <3>4, <4>1
            <4>3. ~WillFail(tok, q, jar') /\ WillFail(tok, p, jar)
                BY <2>1, <2>5, <4>2 DEF WillFail
            <4>4. Due(tok, a, p, jar) >= 1 /\ (Stale(tok, a, p, jar) => Due(tok, a, p, jar) = 2)
                BY <4>3 DEF Due
            <4>5. /\ Due(tok, a, q, jar') \in {0, 1}
                  /\ Due(tok, a, q, jar') = 1 => Stale(tok, a, q, jar')
                BY <4>3 DEF Due
            <4>6. Stale(tok, a, q, jar') => Stale(tok, a, p, jar) \/ overwrites' = overwrites + 1
                BY <1>3, <2>1, <2>2, <4>2 DEF Stale, PageOK, CameThrough
            <4>7. Due(tok, a, p, jar) \in 0..2
                BY DueIsNat
            <4>8. QED
                BY <1>4, <2>1, <2>2, <4>2, <4>4, <4>5, <4>6, <4>7
        <3>8. /\ tok = csrfToken'[t] /\ a = asking'[t] /\ q = post'[t] /\ d = reading'[t]
              /\ n + 1 = refusals'[t]
            BY <1>2, <1>3, <2>1, <3>1, <3>2 DEF CsrfTyped
        <3>9. QED
            BY <1>6, <3>3, <3>5, <3>6, <3>7, <3>8
    <2>6. QED
        BY <2>4, <2>5
<1>12. CASE Renew(t)
    <2>1. PICK q : q = [post[t] EXCEPT !.at = "refused"]
        OBVIOUS
    <2>2. /\ p.at = "renew" /\ Ensure(t)
          /\ UNCHANGED <<jar, csrfToken, reading, posted, lostTokens, overwrites, refusals, unaware>>
        BY <1>2, <1>12 DEF Renew
    <2>3. post' = [post EXCEPT ![t] = q]
        BY <1>12, <2>1 DEF Renew
    <2>4. q \in TabRequest /\ q.at = "refused"
        BY <1>2, <2>1 DEF TabRequest
    <2>5. CASE a.at = "idle"
        <3>1. PICK o : o = OnItsWay(t)
            OBVIOUS
        <3>2. Mints /\ asking' = [asking EXCEPT ![t] = o]
            BY <1>2, <2>2, <2>5, <3>1 DEF Ensure
        <3>3. /\ minted' \in minted..MaxMinted /\ o \in TabRequest /\ o.at = "sent" /\ o.secret \in 1..minted'
              /\ (o.brought <=> jar # 0) /\ (jar # 0 => o.secret = jar) /\ (o.passes <=> jar # 0 /\ tok = jar)
            BY <1>2, <1>3, <3>1, <3>2, SecretGiven
        <3>4. Shares /\ OthersRest(t)
            BY <1>3, <2>2, <2>3, <2>4, <3>2, <3>3 DEF Shares, JarMoves, OthersRest, CsrfTyped
        <3>5. PageOK(tok, a, p, d, jar, minted')
            BY <1>3, <1>4, <3>3, OlderPage
        <3>6. PageOK(tok, o, q, d, jar', minted')
            BY <2>2, <2>4, <3>3, <3>5 DEF PageOK, CameThrough
        <3>7. t \notin unaware' => n + Due(tok, o, q, jar') <= overwrites' + lostTokens'
            <4>1. ~Stale(tok, o, q, jar) /\ ~WillFail(tok, q, jar)
                BY <2>4, <3>3 DEF Stale, WillFail
            <4>2. QED
                BY <1>3, <1>4, <2>2, <4>1, DueIsNat DEF Due
        <3>8. /\ tok = csrfToken'[t] /\ o = asking'[t] /\ q = post'[t] /\ d = reading'[t] /\ n = refusals'[t]
            BY <1>2, <1>3, <2>2, <2>3, <3>2 DEF CsrfTyped
        <3>9. QED
            BY <1>6, <2>4, <3>3, <3>4, <3>6, <3>7, <3>8
    <2>6. CASE a.at # "idle"
        <3>1. UNCHANGED <<minted, asking>> /\ a.at = "sent"
            BY <1>2, <1>3, <2>2, <2>6 DEF Ensure, PageOK
        <3>2. Shares /\ OthersRest(t)
            BY <1>3, <1>4, <2>2, <2>3, <2>4, <3>1 DEF Shares, JarMoves, OthersRest, CsrfTyped
        <3>3. PageOK(tok, a, q, d, jar', minted')
            BY <1>3, <2>2, <2>4, <3>1 DEF PageOK, CameThrough
        <3>4. t \notin unaware' => n + Due(tok, a, q, jar') <= overwrites' + lostTokens'
            <4>1. (Stale(tok, a, q, jar) => Stale(tok, a, p, jar)) /\ ~WillFail(tok, q, jar)
                BY <2>4, <3>1 DEF Stale, WillFail
            <4>2. QED
                BY <1>3, <1>4, <2>2, <4>1, DueIsNat DEF Due
        <3>5. /\ tok = csrfToken'[t] /\ a = asking'[t] /\ q = post'[t] /\ d = reading'[t] /\ n = refusals'[t]
            BY <1>2, <1>3, <2>2, <2>3, <3>1 DEF CsrfTyped
        <3>6. QED
            BY <1>6, <2>4, <3>2, <3>3, <3>4, <3>5
    <2>7. QED
        BY <2>5, <2>6
<1>13. CASE TokenAnswered(t)
    <2>1. PICK q : q = [post[t] EXCEPT !.at = CASE post[t].at = "waiting" -> "ready"
                                                [] post[t].at = "refused" -> "idle"
                                                [] OTHER -> post[t].at]
        OBVIOUS
    <2>2. /\ a.at = "sent" /\ asking' = [asking EXCEPT ![t] = NoRequest]
          /\ UNCHANGED <<minted, reading, posted, refusals, unaware>>
        BY <1>2, <1>13 DEF TokenAnswered
    <2>3. post' = [post EXCEPT ![t] = q]
        BY <1>13, <2>1 DEF TokenAnswered
    <2>4. /\ q \in TabRequest /\ q.passes = p.passes /\ q.secret = p.secret /\ q.brought = p.brought
          /\ q.at = CASE p.at = "waiting" -> "ready" [] p.at = "refused" -> "idle" [] OTHER -> p.at
        BY <1>2, <2>1 DEF TabRequest
    <2>5. p.at = "refused" \/ tok = 0
        BY <1>3, <2>2 DEF PageOK
    <2>6. CASE Arrives(a) /\ csrfToken' = [csrfToken EXCEPT ![t] = asking[t].secret] /\ UNCHANGED lostTokens
        <3>1. PICK tok2 \in Nat : tok2 = a.secret
            BY DEF TabRequest
        <3>2. /\ JarMoves
              /\ a.brought => jar' = jar /\ overwrites' = overwrites
              /\ ~a.brought => jar' = a.secret /\ overwrites' = IF jar = 0 THEN overwrites ELSE overwrites + 1
              /\ jar' \in Nat /\ jar' \in 0..minted /\ overwrites' \in Nat /\ (jar # 0 => jar' # 0)
              /\ overwrites' >= overwrites
            BY <1>3, <1>10, <2>2, <2>6 DEF PageOK
        <3>3. Shares /\ OthersRest(t)
            <4>1. Shares
                BY <1>4, <2>2, <2>6, <3>2 DEF Shares, JarMoves
            <4>2. csrfToken' \in [PageTabs -> Nat] /\ asking' \in [PageTabs -> TabRequest]
                BY <1>2, <1>3, <1>5, <2>2, <2>6, <3>1 DEF CsrfTyped
            <4>3. post' \in [PageTabs -> TabRequest]
                BY <1>3, <2>3, <2>4 DEF CsrfTyped
            <4>4. OthersRest(t)
                BY <1>3, <2>2, <2>3, <2>6, <4>2, <4>3 DEF OthersRest, CsrfTyped
            <4>5. QED
                BY <4>1, <4>4
        <3>4. PageOK(tok, a, p, d, jar', minted')
            BY <1>3, <1>4, <2>2, <3>2, OlderPage DEF JarMoves
        <3>5. a.secret \in 1..minted /\ jar' # 0
            BY <1>3, <2>2, <3>2 DEF PageOK, CameThrough
        <3>6. PageOK(tok2, NoRequest, q, d, jar', minted')
            BY <1>5, <2>2, <2>4, <3>1, <3>4, <3>5 DEF PageOK, CameThrough
        <3>7. t \notin unaware' => n + Due(tok2, NoRequest, q, jar') <= overwrites' + lostTokens'
            <4>1. WillFail(tok2, q, jar') => Stale(tok, a, p, jar) \/ WillFail(tok, p, jar)
                BY <1>3, <2>2, <2>4, <2>5, <3>1, <3>2, <3>5 DEF WillFail, Stale, PageOK, CameThrough
            <4>2. Stale(tok2, NoRequest, q, jar') => Stale(tok, a, p, jar)
                BY <1>3, <1>5, <2>2, <2>4, <3>1, <3>2, <3>5 DEF Stale, PageOK, CameThrough
            <4>3. ~(WillFail(tok2, q, jar') /\ Stale(tok2, NoRequest, q, jar'))
                BY <1>5 DEF WillFail, Stale
            <4>4. Due(tok2, NoRequest, q, jar') <= Due(tok, a, p, jar)
                BY <4>1, <4>2, <4>3 DEF Due
            <4>5. Due(tok2, NoRequest, q, jar') \in 0..2 /\ Due(tok, a, p, jar) \in 0..2
                BY DueIsNat
            <4>6. QED
                BY <1>3, <1>4, <2>2, <2>6, <3>2, <4>4, <4>5
        <3>8. /\ tok2 = csrfToken'[t] /\ NoRequest = asking'[t] /\ q = post'[t] /\ d = reading'[t]
              /\ n = refusals'[t]
            BY <1>2, <1>3, <2>2, <2>3, <2>6, <3>1 DEF CsrfTyped
        <3>9. QED
            BY <1>5, <1>6, <2>4, <3>3, <3>6, <3>7, <3>8
    <2>7. CASE /\ lostTokens' = lostTokens + 1 /\ csrfToken' = [csrfToken EXCEPT ![t] = 0]
               /\ UNCHANGED <<jar, overwrites>>
        <3>1. Shares /\ OthersRest(t)
            BY <1>2, <1>3, <1>4, <1>5, <2>2, <2>3, <2>4, <2>7 DEF Shares, JarMoves, OthersRest, CsrfTyped
        <3>2. PageOK(0, NoRequest, q, d, jar', minted')
            BY <1>3, <1>4, <1>5, <2>2, <2>4, <2>5, <2>7 DEF PageOK, CameThrough
        <3>3. t \notin unaware' => n + Due(0, NoRequest, q, jar') <= overwrites' + lostTokens'
            <4>1. ~Stale(0, NoRequest, q, jar)
                BY <1>5 DEF Stale
            <4>2. Due(0, NoRequest, q, jar) <= 1 /\ Due(0, NoRequest, q, jar) \in 0..2
                BY <4>1, DueIsNat DEF Due
            <4>3. Due(tok, a, p, jar) \in 0..2
                BY DueIsNat
            <4>4. QED
                BY <1>3, <1>4, <2>2, <2>7, <4>2, <4>3
        <3>4. /\ 0 = csrfToken'[t] /\ NoRequest = asking'[t] /\ q = post'[t] /\ d = reading'[t]
              /\ n = refusals'[t]
            BY <1>2, <1>3, <2>2, <2>3, <2>7 DEF CsrfTyped
        <3>5. QED
            BY <1>5, <1>6, <2>4, <3>1, <3>2, <3>3, <3>4
    <2>8. QED
        BY <1>2, <1>13, <2>6, <2>7 DEF TokenAnswered
<1>14. CASE Query(t)
    <2>1. PICK o : o = OnItsWay(t)
        OBVIOUS
    <2>2. /\ Mints /\ reading' = [reading EXCEPT ![t] = o]
          /\ UNCHANGED <<jar, csrfToken, asking, post, posted, lostTokens, overwrites, refusals, unaware>>
        BY <1>14, <2>1 DEF Query
    <2>3. /\ minted' \in minted..MaxMinted /\ o \in TabRequest /\ o.at = "sent" /\ o.secret \in 1..minted'
          /\ (o.brought <=> jar # 0) /\ (o.passes <=> jar # 0 /\ tok = jar)
        BY <1>2, <1>3, <2>1, <2>2, SecretGiven
    <2>4. Shares /\ OthersRest(t)
        BY <1>3, <2>2, <2>3 DEF Shares, JarMoves, OthersRest, CsrfTyped
    <2>5. PageOK(tok, a, p, d, jar, minted')
        BY <1>3, <1>4, <2>3, OlderPage
    <2>6. PageOK(tok, a, p, o, jar', minted')
        BY <2>2, <2>3, <2>5 DEF PageOK, CameThrough
    <2>7. t \notin unaware' => n + Due(tok, a, p, jar') <= overwrites' + lostTokens'
        BY <1>3, <2>2
    <2>8. /\ tok = csrfToken'[t] /\ a = asking'[t] /\ p = post'[t] /\ o = reading'[t] /\ n = refusals'[t]
        BY <1>2, <1>3, <2>2 DEF CsrfTyped
    <2>9. QED
        BY <1>6, <2>3, <2>4, <2>6, <2>7, <2>8
<1>15. CASE QueryAnswered(t)
    <2>1. /\ d.at = "sent" /\ Arrives(d) /\ reading' = [reading EXCEPT ![t] = NoRequest]
          /\ UNCHANGED <<minted, csrfToken, asking, post, posted, lostTokens, refusals, unaware>>
        BY <1>2, <1>15 DEF QueryAnswered
    <2>2. /\ JarMoves
          /\ d.brought => jar' = jar /\ overwrites' = overwrites
          /\ ~d.brought => jar' = d.secret /\ overwrites' = IF jar = 0 THEN overwrites ELSE overwrites + 1
          /\ jar' \in Nat /\ jar' \in 0..minted /\ overwrites' \in Nat /\ (jar # 0 => jar' # 0)
          /\ overwrites' >= overwrites
        BY <1>3, <1>10, <2>1 DEF PageOK
    <2>3. Shares /\ OthersRest(t)
        BY <1>3, <1>4, <1>5, <2>1, <2>2 DEF Shares, OthersRest, CsrfTyped
    <2>4. PageOK(tok, a, p, d, jar', minted')
        BY <1>3, <1>4, <2>1, <2>2, OlderPage DEF JarMoves
    <2>5. PageOK(tok, a, p, NoRequest, jar', minted')
        BY <1>5, <2>4 DEF PageOK, CameThrough
    <2>6. t \notin unaware' => n + Due(tok, a, p, jar') <= overwrites' + lostTokens'
        <3>1. Due(tok, a, p, jar) \in 0..2 /\ Due(tok, a, p, jar') \in 0..2
            BY DueIsNat
        <3>2. CASE jar' = jar /\ overwrites' = overwrites
            BY <1>3, <2>1, <3>2
        <3>3. CASE jar' \in 1..minted /\ overwrites' = IF jar = 0 THEN overwrites ELSE overwrites + 1
            <4>1. /\ jar = 0 => Due(tok, a, p, jar') <= Due(tok, a, p, jar)
                  /\ Due(tok, a, p, jar') <= Due(tok, a, p, jar) + 1
                BY <1>3, <1>4, <3>3, OneMoreDue
            <4>2. QED
                BY <1>3, <1>4, <2>1, <3>1, <3>3, <4>1
        <3>4. QED
            BY <2>2, <3>2, <3>3 DEF JarMoves
    <2>7. /\ tok = csrfToken'[t] /\ a = asking'[t] /\ p = post'[t] /\ NoRequest = reading'[t]
          /\ n = refusals'[t]
        BY <1>2, <1>3, <2>1 DEF CsrfTyped
    <2>8. QED
        BY <1>5, <1>6, <2>3, <2>5, <2>6, <2>7
<1>16. QED
    BY <1>7, <1>8, <1>9, <1>11, <1>12, <1>13, <1>14, <1>15

LEMMA CsrfInvSafe == CsrfInv => CsrfTypeOK /\ RefusedForCause
<1> SUFFICES ASSUME CsrfInv PROVE CsrfTypeOK /\ RefusedForCause
    OBVIOUS
<1>1. \A t \in PageTabs : csrfToken[t] \in 0..MaxMinted
    BY CsrfAssumption DEF CsrfInv, CsrfTyped, PageFits, PageOK
<1>2. CsrfTypeOK
    BY <1>1 DEF CsrfInv, CsrfTyped, CsrfTypeOK, TabRequest, PageFits, PageOK
<1>3. ASSUME NEW t \in PageTabs \ unaware PROVE refusals[t] <= overwrites + lostTokens
    <2>1. Due(csrfToken[t], asking[t], post[t], jar) \in 0..2
        BY DueIsNat
    <2>2. QED
        BY <1>3, <2>1 DEF CsrfInv, CsrfTyped, HasCause
<1>4. QED
    BY <1>2, <1>3 DEF RefusedForCause

(* Any number of tabs, of posts and of answers that overwrite the cookie.  *)
THEOREM RefusalsHaveCause == CsrfSpec => [](CsrfTypeOK /\ RefusedForCause)
<1>1. QED
    BY CsrfInitInv, CsrfStepInv, CsrfInvSafe, PTL DEF CsrfSpec

-----------------------------------------------------------------------------
(* PropertyPage, the panel.  The newest fetch that has not ended is for    *)
(* the range of the inputs; it sees what this host has posted before it.   *)

CalendarFetch == [range : Ranges, at : {"sent", "ok"}, seen : Nat]

CalendarTyped ==
    /\ range \in Ranges
    /\ calendar \in Nat /\ mine \in Nat /\ mine <= calendar
    /\ asked \in Seq(CalendarFetch)

NewestFits(fetches_, r, m) ==
    fetches_ # <<>> => /\ fetches_[Len(fetches_)].range = r
                       /\ fetches_[Len(fetches_)].at = "ok" => fetches_[Len(fetches_)].seen >= m

ScreenFits ==
    asked = <<>> /\ loading = "success" => onScreen.range = range /\ onScreen.seen >= mine

CalendarInv == CalendarTyped /\ (overtaken \/ (NewestFits(asked, range, mine) /\ ScreenFits))

LEMMA ElementAdded ==
    ASSUME NEW S, NEW s \in Seq(S), NEW x \in S
    PROVE  /\ Append(s, x) \in Seq(S) /\ Append(s, x) # <<>>
           /\ Append(s, x)[Len(Append(s, x))] = x
OBVIOUS

LEMMA ElementRemoved ==
    ASSUME NEW S, NEW s \in Seq(S), NEW i \in DOMAIN s
    PROVE  /\ RemoveAt(s, i) \in Seq(S) /\ Len(RemoveAt(s, i)) = Len(s) - 1
           /\ i # Len(s) => RemoveAt(s, i)[Len(s) - 1] = s[Len(s)]
<1>1. i \in 1..Len(s) /\ Len(s) \in Nat
    OBVIOUS
<1>2. PICK u, v : u = SubSeq(s, 1, i - 1) /\ v = SubSeq(s, i + 1, Len(s))
    OBVIOUS
<1>3. u \in Seq(S) /\ Len(u) = i - 1
    BY <1>1, <1>2
<1>4. v \in Seq(S) /\ Len(v) = Len(s) - i
    BY <1>1, <1>2
<1>5. i # Len(s) => v[Len(s) - i] = s[Len(s)]
    <2>1. ASSUME NEW k \in 1..(Len(s) - i) PROVE v[k] = s[i + k]
        BY <1>1, <1>2, SMTT(30)
    <2>2. i # Len(s) => Len(s) - i \in 1..(Len(s) - i) /\ i + (Len(s) - i) = Len(s)
        BY <1>1
    <2>3. QED
        BY <2>1, <2>2
<1>6. RemoveAt(s, i) = u \o v
    BY <1>2 DEF RemoveAt
<1>7. (u \o v) \in Seq(S) /\ Len(u \o v) = Len(s) - 1
    BY <1>1, <1>3, <1>4
<1>8. i # Len(s) => (u \o v)[Len(s) - 1] = v[Len(s) - i]
    BY <1>1, <1>3, <1>4
<1>9. QED
    BY <1>5, <1>6, <1>7, <1>8

LEMMA ElementReplaced ==
    ASSUME NEW S, NEW s \in Seq(S), NEW i \in DOMAIN s, NEW x \in S
    PROVE  /\ [s EXCEPT ![i] = x] \in Seq(S) /\ Len([s EXCEPT ![i] = x]) = Len(s)
           /\ [s EXCEPT ![i] = x][Len(s)] = IF i = Len(s) THEN x ELSE s[Len(s)]
OBVIOUS

LEMMA CalendarInitInv == CalendarInit => CalendarInv
<1> SUFFICES ASSUME CalendarInit PROVE CalendarInv
    OBVIOUS
<1>1. PICK f : f = NewFetch(range)
    OBVIOUS
<1>2. f \in CalendarFetch /\ f.range = range /\ f.at = "sent"
    BY <1>1 DEF CalendarInit, NewFetch, CalendarFetch
<1>3. asked = <<f>>
    BY <1>1 DEF CalendarInit
<1>4. CalendarTyped
    BY <1>2, <1>3 DEF CalendarInit, CalendarTyped
<1>5. NewestFits(asked, range, mine)
    BY <1>2, <1>3 DEF NewestFits
<1>6. ScreenFits
    BY <1>3 DEF ScreenFits
<1>7. QED
    BY <1>4, <1>5, <1>6 DEF CalendarInv

(* A fetch starts: it is the newest.                                       *)
LEMMA FetchFits ==
    ASSUME asked \in Seq(CalendarFetch), NEW r \in Ranges, Fetch(r), range' = r
    PROVE  asked' \in Seq(CalendarFetch) /\ NewestFits(asked, range, mine)' /\ ScreenFits'
<1>1. PICK f : f = NewFetch(r)
    OBVIOUS
<1>2. f \in CalendarFetch /\ f.range = r /\ f.at = "sent"
    BY <1>1 DEF NewFetch, CalendarFetch
<1>3. PICK s : s = Append(asked, f)
    OBVIOUS
<1>4. asked' = s
    BY <1>1, <1>3 DEF Fetch
<1>5. s \in Seq(CalendarFetch) /\ s # <<>> /\ s[Len(s)] = f
    BY <1>2, <1>3, ElementAdded
<1>6. QED
    BY <1>2, <1>4, <1>5 DEF NewestFits, ScreenFits

(* A fetch ends.                                                           *)
LEMMA FetchEnded ==
    ASSUME asked \in Seq(CalendarFetch), NEW i \in DOMAIN asked, FetchEnds(i), range' = range, mine' = mine,
           overtaken \/ NewestFits(asked, range, mine)
    PROVE  /\ asked' \in Seq(CalendarFetch) /\ (overtaken' \/ NewestFits(asked, range, mine)')
           /\ ~overtaken' => ~overtaken /\ (asked' = <<>> => i = Len(asked))
<1>1. PICK s : s = RemoveAt(asked, i)
    OBVIOUS
<1>2. asked' = s /\ (overtaken' <=> overtaken \/ (i = Len(asked) /\ i > 1))
    BY <1>1 DEF FetchEnds
<1>3. /\ s \in Seq(CalendarFetch) /\ Len(s) = Len(asked) - 1 /\ Len(asked) \in Nat
      /\ i # Len(asked) => s[Len(asked) - 1] = asked[Len(asked)]
    BY <1>1, ElementRemoved
<1>4. i \in 1..Len(asked) /\ asked # <<>>
    OBVIOUS
<1>5. ASSUME ~overtaken' PROVE NewestFits(asked, range, mine)'
    <2>1. CASE i = Len(asked)
        <3>1. s = <<>>
            BY <1>2, <1>3, <1>4, <1>5, <2>1
        <3>2. QED
            BY <1>2, <3>1 DEF NewestFits
    <2>2. CASE i # Len(asked)
        <3>1. s[Len(s)] = asked[Len(asked)]
            BY <1>3, <2>2
        <3>2. QED
            BY <1>2, <1>4, <1>5, <3>1 DEF NewestFits
    <2>3. QED
        BY <2>1, <2>2
<1>6. asked' = <<>> => i = Len(asked)
    BY <1>2, <1>3, <1>4
<1>7. QED
    BY <1>2, <1>3, <1>5, <1>6

LEMMA CalendarStepInv == CalendarInv /\ [CalendarNext]_calendarVars => CalendarInv'
<1> SUFFICES ASSUME CalendarInv, [CalendarNext]_calendarVars PROVE CalendarInv'
    OBVIOUS
<1>1. /\ range \in Ranges /\ calendar \in Nat /\ mine \in Nat /\ mine <= calendar
      /\ asked \in Seq(CalendarFetch) /\ (overtaken \/ (NewestFits(asked, range, mine) /\ ScreenFits))
    BY DEF CalendarInv, CalendarTyped
<1>2. CASE UNCHANGED calendarVars
    BY <1>1, <1>2 DEF calendarVars, CalendarInv, CalendarTyped, NewestFits, ScreenFits
<1>3. ASSUME NEW r \in Ranges, ChangeRange(r) PROVE CalendarInv'
    <2>1. Fetch(r) /\ range' = r /\ UNCHANGED <<calendar, mine>>
        BY <1>3 DEF ChangeRange
    <2>2. QED
        BY <1>1, <2>1, FetchFits DEF CalendarInv, CalendarTyped
<1>4. CASE Refresh
    <2>1. Fetch(range) /\ range' = range /\ UNCHANGED <<calendar, mine>>
        BY <1>4 DEF Refresh
    <2>2. QED
        BY <1>1, <2>1, FetchFits DEF CalendarInv, CalendarTyped
<1>5. CASE Posted
    <2>1. Fetch(range) /\ range' = range /\ calendar' = calendar /\ mine' = calendar
        BY <1>5 DEF Posted
    <2>2. asked' \in Seq(CalendarFetch) /\ NewestFits(asked, range, mine)' /\ ScreenFits'
        BY <1>1, <2>1, FetchFits
    <2>3. QED
        BY <1>1, <2>1, <2>2 DEF CalendarInv, CalendarTyped
<1>6. ASSUME NEW i \in DOMAIN asked, ServeCalendar(i) PROVE CalendarInv'
    <2>1. PICK f : f = [asked[i] EXCEPT !.at = "ok", !.seen = calendar]
        OBVIOUS
    <2>2. asked[i] \in CalendarFetch /\ asked # <<>>
        BY <1>1
    <2>3. f \in CalendarFetch /\ f.range = asked[i].range /\ f.seen = calendar
        BY <1>1, <2>1, <2>2 DEF CalendarFetch
    <2>4. PICK s : s = [asked EXCEPT ![i] = f]
        OBVIOUS
    <2>5. asked' = s
        BY <1>6, <2>1, <2>4 DEF ServeCalendar
    <2>6. /\ s \in Seq(CalendarFetch) /\ Len(s) = Len(asked)
          /\ s[Len(asked)] = IF i = Len(asked) THEN f ELSE asked[Len(asked)]
        BY <1>1, <2>3, <2>4, ElementReplaced
    <2>7. s # <<>>
        BY <1>1, <2>2, <2>6
    <2>8. UNCHANGED <<range, calendar, onScreen, loading, mine, overtaken>>
        BY <1>6 DEF ServeCalendar
    <2>9. overtaken \/ NewestFits(asked, range, mine)'
        BY <1>1, <2>2, <2>3, <2>5, <2>6, <2>8 DEF NewestFits
    <2>10. ScreenFits'
        BY <2>5, <2>7 DEF ScreenFits
    <2>11. QED
        BY <1>1, <2>5, <2>6, <2>8, <2>9, <2>10 DEF CalendarInv, CalendarTyped
<1>7. ASSUME NEW i \in DOMAIN asked, ReceiveCalendar(i) PROVE CalendarInv'
    <2>1. /\ asked[i].at = "ok" /\ FetchEnds(i) /\ UNCHANGED <<range, calendar, mine>>
          /\ onScreen' = [range |-> asked[i].range, seen |-> asked[i].seen]
        BY <1>7 DEF ReceiveCalendar
    <2>2. /\ asked' \in Seq(CalendarFetch) /\ (overtaken' \/ NewestFits(asked, range, mine)')
          /\ ~overtaken' => ~overtaken /\ (asked' = <<>> => i = Len(asked))
        BY <1>1, <2>1, FetchEnded
    <2>3. ~overtaken' => ScreenFits'
        <3>1. SUFFICES ASSUME ~overtaken', asked' = <<>> PROVE onScreen'.range = range' /\ onScreen'.seen >= mine'
            BY DEF ScreenFits
        <3>2. i = Len(asked) /\ ~overtaken /\ asked # <<>>
            BY <1>1, <2>2, <3>1
        <3>3. asked[i].range = range /\ asked[i].seen >= mine
            BY <1>1, <2>1, <3>2 DEF NewestFits
        <3>4. QED
            BY <2>1, <3>3
    <2>4. QED
        BY <1>1, <2>1, <2>2, <2>3 DEF CalendarInv, CalendarTyped
<1>8. ASSUME NEW i \in DOMAIN asked, CalendarFails(i) PROVE CalendarInv'
    <2>1. FetchEnds(i) /\ UNCHANGED <<range, calendar, mine>> /\ loading' = "error"
        BY <1>8 DEF CalendarFails
    <2>2. asked' \in Seq(CalendarFetch) /\ (overtaken' \/ NewestFits(asked, range, mine)')
        BY <1>1, <2>1, FetchEnded
    <2>3. ScreenFits'
        BY <2>1 DEF ScreenFits
    <2>4. QED
        BY <1>1, <2>1, <2>2, <2>3 DEF CalendarInv, CalendarTyped
<1>9. CASE PostDays \/ PostFails
    BY <1>1, <1>9 DEF PostDays, PostFails, CalendarInv, CalendarTyped, NewestFits, ScreenFits
<1>10. CASE ServePost
    <2>1. calendar' = calendar + 1 /\ UNCHANGED <<range, asked, onScreen, loading, mine, overtaken>>
        BY <1>10 DEF ServePost
    <2>2. mine' <= calendar' /\ calendar' \in Nat
        BY <1>1, <2>1
    <2>3. QED
        BY <1>1, <2>1, <2>2 DEF CalendarInv, CalendarTyped, NewestFits, ScreenFits
<1>11. QED
    BY <1>2, <1>3, <1>4, <1>5, <1>6, <1>7, <1>8, <1>9, <1>10 DEF CalendarNext

LEMMA CalendarInvSafe == CalendarInv => ShowsTheRange
BY DEF CalendarInv, ScreenFits, ShowsTheRange

(* Any number of ranges entered, of posts and of requests that fail.       *)
THEOREM PanelShows == CalendarSpec => []ShowsTheRange
<1>1. QED
    BY CalendarInitInv, CalendarStepInv, CalendarInvSafe, PTL DEF CalendarSpec

-----------------------------------------------------------------------------
(* Messaging, the chat.  What is being written, and not only what was      *)
(* sent, is later than every mark, or shown, or one that a mark may miss.  *)

TextStages == {"none", "checked", "writing", "sent", "refused", "deleted"}
TextRow == [from : Members \cup {"none"}, at : 0..MaxTime, hushed : BOOLEAN, st : TextStages]

(* One user's view of a message.                                           *)
Told(u, m, w) ==
    w.st \in {"writing", "sent"} => w.from = u \/ w.at > lastRead[u] \/ m \in shown[u] \cup missable[u]

ChatTyped ==
    /\ opened \in {{}, Members} /\ starting \subseteq Members
    /\ blocks \subseteq Members \X Members
    /\ text \in [Texts -> TextRow]
    /\ lastRead \in [Members -> 0..MaxTime]
    /\ clock \in 0..MaxTime
    /\ \A u \in Members : lastRead[u] <= clock
    /\ shown \in [Members -> SUBSET Texts] /\ missable \in [Members -> SUBSET Texts]

ChatInv ==
    /\ ChatTyped
    /\ \A m \in Texts : text[m].hushed = FALSE
    /\ \A u \in Members, m \in Texts : Told(u, m, text[m])

LEMMA ChatInitInv == ChatInit => ChatInv
<1> SUFFICES ASSUME ChatInit PROVE ChatInv
    OBVIOUS
<1>1. NoText \in TextRow /\ NoText.hushed = FALSE /\ NoText.st = "none"
    BY MessagingAssumption DEF NoText, TextRow, TextStages
<1>2. ChatTyped
    BY <1>1, MessagingAssumption DEF ChatInit, ChatTyped
<1>3. QED
    BY <1>1, <1>2 DEF ChatInit, ChatInv, Told

(* One message moves, the members rest.                                    *)
LEMMA TextMoves ==
    ASSUME ChatInv, NEW m \in Texts, NEW w \in TextRow, w.hushed = FALSE, text' = [text EXCEPT ![m] = w],
           \A u \in Members : Told(u, m, w),
           UNCHANGED <<opened, starting, blocks, lastRead, shown, missable>>,
           clock' \in 0..MaxTime, clock' >= clock
    PROVE  ChatInv'
<1>1. text' \in [Texts -> TextRow] /\ \A n \in Texts : text'[n] = IF n = m THEN w ELSE text[n]
    BY DEF ChatInv, ChatTyped
<1>2. ChatTyped'
    <2>1. \A u \in Members : lastRead'[u] <= clock'
        BY MessagingAssumption DEF ChatInv, ChatTyped
    <2>2. QED
        BY <1>1, <2>1 DEF ChatInv, ChatTyped
<1>3. \A n \in Texts : text'[n].hushed = FALSE
    BY <1>1 DEF ChatInv
<1>4. ASSUME NEW u \in Members, NEW n \in Texts PROVE Told(u, n, text[n])'
    <2>1. PICK x : x = text'[n]
        OBVIOUS
    <2>2. Told(u, n, x)
        BY <1>1, <2>1 DEF ChatInv
    <2>3. QED
        BY <2>1, <2>2 DEF Told
<1>5. QED
    BY <1>2, <1>3, <1>4 DEF ChatInv

LEMMA ChatStepInv == ChatInv /\ [ChatNext]_chatVars => ChatInv'
<1> SUFFICES ASSUME ChatInv, [ChatNext]_chatVars PROVE ChatInv'
    OBVIOUS
<1>1. ChatTyped /\ (\A n \in Texts : text[n].hushed = FALSE) /\ MaxTime \in Nat /\ clock \in 0..MaxTime
    BY MessagingAssumption DEF ChatInv, ChatTyped
<1>2. CASE UNCHANGED chatVars
    BY <1>2 DEF chatVars, ChatInv, ChatTyped, Told
(* No message moves, and the marks rest.                                   *)
<1>3. ASSUME UNCHANGED <<text, lastRead, clock, missable>>, opened' \in {{}, Members},
             starting' \subseteq Members, blocks' \subseteq Members \X Members,
             shown' \in [Members -> SUBSET Texts], \A u \in Members : shown[u] \subseteq shown'[u]
      PROVE  ChatInv'
    <2>1. ChatTyped'
        BY <1>1, <1>3 DEF ChatTyped
    <2>2. ASSUME NEW u \in Members, NEW m \in Texts PROVE Told(u, m, text[m])'
        BY <1>3, <2>2 DEF ChatInv, Told
    <2>3. QED
        BY <1>1, <1>3, <2>1, <2>2 DEF ChatInv
<1>4. ASSUME NEW u \in Members, FindDirect(u) \/ Open(u) PROVE ChatInv'
    <2>1. opened' \in {{}, Members} /\ starting' \subseteq Members
        BY <1>1, <1>4 DEF FindDirect, Open, ChatTyped
    <2>2. UNCHANGED <<blocks, text, lastRead, clock, shown, missable>>
        BY <1>4 DEF FindDirect, Open
    <2>3. QED
        BY <1>1, <1>3, <2>1, <2>2 DEF ChatTyped
<1>5. ASSUME NEW u \in Members, NEW v \in Members, Block(u, v) \/ Unblock(u, v) PROVE ChatInv'
    <2>1. blocks' \subseteq Members \X Members
        BY <1>1, <1>5 DEF Block, Unblock, ChatTyped
    <2>2. UNCHANGED <<opened, starting, text, lastRead, clock, shown, missable>>
        BY <1>5 DEF Block, Unblock
    <2>3. QED
        BY <1>1, <1>3, <2>1, <2>2 DEF ChatTyped
<1>6. ASSUME NEW u \in Members, ListTexts(u) PROVE ChatInv'
    <2>1. PICK S \in SUBSET Texts : S = shown[u] \cup Sent
        BY <1>1 DEF ChatTyped, Sent
    <2>2. shown' = [shown EXCEPT ![u] = S]
        BY <1>6, <2>1 DEF ListTexts
    <2>3. shown' \in [Members -> SUBSET Texts] /\ \A v \in Members : shown[v] \subseteq shown'[v]
        BY <1>1, <2>1, <2>2 DEF ChatTyped
    <2>4. UNCHANGED <<opened, starting, blocks, text, lastRead, clock, missable>>
        BY <1>6 DEF ListTexts
    <2>5. QED
        BY <1>1, <1>3, <2>3, <2>4 DEF ChatTyped
<1>7. ASSUME NEW u \in Members, MarkRead(u) PROVE ChatInv'
    <2>1. PICK S \in SUBSET Texts : S = missable[u] \cup ((Writing \cup Sent) \ shown[u])
        BY <1>1 DEF ChatTyped, Sent, Writing
    <2>2. PICK time : time = clock + 1
        OBVIOUS
    <2>3. missable' = [missable EXCEPT ![u] = S] /\ lastRead' = [lastRead EXCEPT ![u] = time]
        BY <1>7, <2>1, <2>2 DEF MarkRead, Now
    <2>4. clock' = time /\ time \in 0..MaxTime /\ time > clock
        BY <1>1, <1>7, <2>2 DEF MarkRead, Tick
    <2>5. UNCHANGED <<opened, starting, blocks, text, shown>>
        BY <1>7 DEF MarkRead
    <2>6. /\ missable' \in [Members -> SUBSET Texts] /\ lastRead' \in [Members -> 0..MaxTime]
          /\ \A v \in Members : /\ missable'[v] = IF v = u THEN S ELSE missable[v]
                                /\ lastRead'[v] = IF v = u THEN time ELSE lastRead[v]
        BY <1>1, <2>1, <2>3, <2>4 DEF ChatTyped
    <2>7. ChatTyped'
        <3>1. \A v \in Members : lastRead'[v] <= clock'
            BY <1>1, <2>4, <2>6 DEF ChatTyped
        <3>2. QED
            BY <1>1, <2>4, <2>5, <2>6, <3>1 DEF ChatTyped
    <2>8. ASSUME NEW v \in Members, NEW m \in Texts PROVE Told(v, m, text[m])'
        <3>1. Told(v, m, text[m])
            BY DEF ChatInv
        <3>2. CASE v = u
            <4>1. text[m].st \in {"writing", "sent"} => m \in S \cup shown[u]
                BY <2>1 DEF Sent, Writing
            <4>2. QED
                BY <2>5, <2>6, <3>2, <4>1 DEF Told
        <3>3. CASE v # u
            BY <2>5, <2>6, <3>1, <3>3 DEF Told
        <3>4. QED
            BY <3>2, <3>3
    <2>9. QED
        BY <1>1, <2>5, <2>7, <2>8 DEF ChatInv
<1>8. ASSUME NEW u \in Members, NEW m \in Texts, CheckSend(u, m) PROVE ChatInv'
    <2>1. PICK w : w = [from |-> u, at |-> 0, st |-> "checked", hushed |-> FALSE]
        OBVIOUS
    <2>2. Blocked_ = FALSE
        BY <1>8 DEF CheckSend, MayWrite, Blocked_
    <2>3. text' = [text EXCEPT ![m] = w]
        BY <1>8, <2>1, <2>2, Zenon DEF CheckSend
    <2>4. UNCHANGED <<opened, starting, blocks, lastRead, clock, shown, missable>>
        BY <1>8 DEF CheckSend
    <2>5. w \in TextRow /\ w.hushed = FALSE /\ w.st = "checked"
        BY <1>1, <2>1 DEF TextRow, TextStages
    <2>6. \A v \in Members : Told(v, m, w)
        BY <2>5 DEF Told
    <2>7. clock' \in 0..MaxTime /\ clock' >= clock
        BY <1>1, <2>4
    <2>8. QED
        BY <2>3, <2>4, <2>5, <2>6, <2>7, TextMoves
<1>9. ASSUME NEW m \in Texts PROVE text[m] \in TextRow /\ \A u \in Members : Told(u, m, text[m])
    BY <1>1 DEF ChatInv, ChatTyped
<1>10. ASSUME NEW m \in Texts, WriteText(m) PROVE ChatInv'
    <2>1. PICK time : time = clock + 1
        OBVIOUS
    <2>2. PICK w : w = [text[m] EXCEPT !.st = "writing", !.at = time]
        OBVIOUS
    <2>3. text' = [text EXCEPT ![m] = w]
        BY <1>10, <2>1, <2>2 DEF WriteText, Now
    <2>4. UNCHANGED <<opened, starting, blocks, lastRead, shown, missable>>
        BY <1>10 DEF WriteText
    <2>5. clock' \in 0..MaxTime /\ clock' >= clock /\ time \in 0..MaxTime
        BY <1>1, <1>10, <2>1 DEF WriteText, Tick
    <2>6. w \in TextRow /\ w.hushed = text[m].hushed /\ w.at = time
        BY <1>9, <2>2, <2>5 DEF TextRow, TextStages
    <2>7. \A v \in Members : Told(v, m, w)
        BY <1>1, <2>1, <2>6 DEF Told, ChatTyped
    <2>8. w.hushed = FALSE
        BY <1>1, <2>6
    <2>9. QED
        BY <2>3, <2>4, <2>5, <2>6, <2>7, <2>8, TextMoves
<1>11. ASSUME NEW m \in Texts, NEW s \in TextStages, s = "sent" => text[m].st = "writing", s # "writing",
              text' = [text EXCEPT ![m].st = s],
              UNCHANGED <<opened, starting, blocks, lastRead, clock, shown, missable>>
       PROVE  ChatInv'
    <2>1. PICK w : w = [text[m] EXCEPT !.st = s]
        OBVIOUS
    <2>2. text' = [text EXCEPT ![m] = w]
        BY <1>11, <2>1
    <2>3. /\ w \in TextRow /\ w.hushed = text[m].hushed /\ w.at = text[m].at /\ w.from = text[m].from
          /\ w.st = s
        BY <1>9, <1>11, <2>1 DEF TextRow
    <2>4. \A v \in Members : Told(v, m, w)
        BY <1>9, <1>11, <2>3 DEF Told
    <2>5. clock' \in 0..MaxTime /\ clock' >= clock
        BY <1>1, <1>11
    <2>6. w.hushed = FALSE
        BY <1>1, <2>3
    <2>7. UNCHANGED <<opened, starting, blocks, lastRead, shown, missable>>
        BY <1>11
    <2>8. QED
        BY <2>2, <2>3, <2>4, <2>5, <2>6, <2>7, TextMoves
<1>12. ASSUME NEW m \in Texts, CommitText(m) \/ RollBackText(m) \/ DeleteMessage(m) PROVE ChatInv'
    <2>1. \E s \in TextStages : /\ s = "sent" => text[m].st = "writing"
                                /\ s # "writing" /\ text' = [text EXCEPT ![m].st = s]
        BY <1>12 DEF CommitText, RollBackText, DeleteMessage, TextStages
    <2>2. UNCHANGED <<opened, starting, blocks, lastRead, clock, shown, missable>>
        BY <1>12 DEF CommitText, RollBackText, DeleteMessage
    <2>3. QED
        BY <1>11, <2>1, <2>2
<1>13. QED
    BY <1>2, <1>4, <1>5, <1>6, <1>7, <1>8, <1>10, <1>12 DEF ChatNext

LEMMA ChatInvSafe == ChatInv => ChatTypeOK /\ BlockHolds /\ NoneMissed
<1> SUFFICES ASSUME ChatInv PROVE ChatTypeOK /\ BlockHolds /\ NoneMissed
    OBVIOUS
<1>1. ChatTypeOK
    BY DEF ChatInv, ChatTyped, ChatTypeOK, TextRow, TextStages
<1>2. BlockHolds
    BY DEF ChatInv, BlockHolds, Sent
<1>3. NoneMissed
    BY DEF ChatInv, NoneMissed, Told, Unread, Sent
<1>4. QED
    BY <1>1, <1>2, <1>3

(* Any number of messages, of marks and of blocks that come and go.        *)
THEOREM TextsReach == ChatSpec => [](ChatTypeOK /\ BlockHolds /\ NoneMissed)
<1>1. QED
    BY ChatInitInv, ChatStepInv, ChatInvSafe, PTL DEF ChatSpec

-----------------------------------------------------------------------------
(* Messaging, the list of conversations.  What stands before the row that  *)
(* ended the last page has been listed, what stands after it has not, of   *)
(* all that did not move.                                                  *)

(* A finite set in a strict total order has a last element.                *)
LEMMA HasLast ==
    ASSUME NEW S, IsFiniteSet(S), S # {}, NEW R,
           \A x, y \in S : x # y => <<x, y>> \in R \/ <<y, x>> \in R,
           \A x, y, z \in S : <<x, y>> \in R /\ <<y, z>> \in R => <<x, z>> \in R
    PROVE  \E x \in S : \A y \in S : y # x => <<y, x>> \in R
<1> DEFINE Endless == {U \in FiniteSubsetsOf(S) : U # {} /\ \A x \in U : \E y \in U : y # x /\ <<y, x>> \notin R}
<1>1. Endless = {}
    <2> SUFFICES ASSUME Endless # {} PROVE FALSE
        OBVIOUS
    <2>1. IsWellFoundedOn(StrictSubsetOrdering(S), FiniteSubsetsOf(S))
        BY FS_StrictSubsetOrderingWellFounded
    <2>2. Endless \subseteq FiniteSubsetsOf(S)
        OBVIOUS
    <2>3. \E x \in Endless : \A y \in Endless : ~ (<<y, x>> \in StrictSubsetOrdering(S))
        <3>1. PICK E : E = Endless
            OBVIOUS
        <3>2. E \subseteq FiniteSubsetsOf(S) /\ E # {}
            BY <2>2, <3>1
        <3>3. \E x \in E : \A y \in E : ~ (<<y, x>> \in StrictSubsetOrdering(S))
            <4> HIDE DEF Endless
            <4>1. QED
                BY <2>1, <3>2, WFMin
        <3>4. QED
            BY <3>1, <3>3
    <2>4. PICK U \in Endless : \A V \in Endless : ~ (<<V, U>> \in StrictSubsetOrdering(S))
        BY <2>3
    <2>5. IsFiniteSet(U) /\ U # {} /\ U \in SUBSET S
        BY DEF FiniteSubsetsOf
    <2>6. PICK x \in U : TRUE
        BY <2>5
    <2>7. U \ {x} \notin Endless
        <3>1. U \ {x} \in SUBSET S /\ U \ {x} # U /\ U \ {x} \subseteq U
            BY <2>5, <2>6
        <3>2. <<U \ {x}, U>> \in StrictSubsetOrdering(S)
            BY <2>5, <3>1 DEF StrictSubsetOrdering
        <3>3. QED
            BY <2>4, <3>2
    <2>8. U \ {x} \in FiniteSubsetsOf(S)
        BY <2>5, FS_RemoveElement DEF FiniteSubsetsOf
    <2>9. U \ {x} # {}
        BY <2>5, <2>6
    <2>10. PICK m \in U \ {x} : \A y \in U \ {x} : y # m => <<y, m>> \in R
        BY <2>7, <2>8, <2>9
    <2>11. CASE <<x, m>> \in R
        BY <2>5, <2>10, <2>11
    <2>12. CASE <<m, x>> \in R
        <3>1. \A y \in U : y # x => <<y, x>> \in R
            BY <2>5, <2>10, <2>12
        <3>2. QED
            BY <2>6, <3>1
    <2>13. QED
        BY <2>5, <2>6, <2>10, <2>11, <2>12
<1>2. S \in FiniteSubsetsOf(S)
    BY DEF FiniteSubsetsOf
<1>3. QED
    BY <1>1, <1>2

Walk == [at : {"idle", "more", "end"}, cursor : Convs \cup {"none"}, listed : [Convs -> Nat]]

InboxTyped ==
    /\ now \in Nat
    /\ pinnedAt \in [Convs -> 0..now] /\ updatedAt \in [Convs -> 1..now]
    /\ \A c, d \in Convs : updatedAt[c] = updatedAt[d] => c = d
    /\ walk \in Walk

PassedOver(w, c) ==
    /\ w.cursor = "none" => w.listed[c] = 0
    /\ w.cursor # "none" => /\ c = w.cursor \/ Before(c, w.cursor) => w.listed[c] = 1
                            /\ Before(w.cursor, c) => w.listed[c] = 0

WalkFits(w, c) ==
    /\ w.at = "more" => PassedOver(w, c)
    /\ w.at = "end" => w.listed[c] = 1

InboxInv ==
    /\ InboxTyped
    /\ ~adrift => \A c \in Convs \ moved : WalkFits(walk, c)

LEMMA InboxInitInv == InboxInit => InboxInv
<1> SUFFICES ASSUME InboxInit PROVE InboxInv
    OBVIOUS
<1>1. PICK n \in Nat : n = Cardinality(Convs)
    BY InboxAssumption, FS_CardinalityType
<1>2. \E f \in [Convs -> 1..n] : \A c, d \in Convs : f[c] = f[d] => c = d
    <2>1. IsFiniteSet(1..n) /\ Cardinality(1..n) = n
        <3>1. 1 \in Int /\ n \in Int
            OBVIOUS
        <3>2. IsFiniteSet(1..n) /\ Cardinality(1..n) = IF 1 > n THEN 0 ELSE n - 1 + 1
            BY <3>1, FS_Interval
        <3>3. QED
            BY <3>2
    <2>2. ExistsBijection(Convs, 1..n)
        BY <1>1, <2>1, InboxAssumption, FS_SameCardinalityBij
    <2>3. PICK f : f \in Injection(Convs, 1..n)
        BY <2>2 DEF ExistsBijection, Bijection
    <2>4. f \in [Convs -> 1..n] /\ \A c, d \in Convs : f[c] = f[d] => c = d
        BY <2>3 DEF Injection, IsInjective
    <2>5. QED
        BY <2>4
<1>3. updatedAt = CHOOSE f \in [Convs -> 1..n] : \A c, d \in Convs : f[c] = f[d] => c = d
    BY <1>1 DEF InboxInit
<1>4. updatedAt \in [Convs -> 1..n] /\ \A c, d \in Convs : updatedAt[c] = updatedAt[d] => c = d
    BY <1>2, <1>3, Zenon
<1>5. now = n /\ pinnedAt = [c \in Convs |-> 0]
    BY <1>1 DEF InboxInit
<1>6. walk \in Walk /\ walk.at = "idle"
    BY DEF InboxInit, NoWalk, Walk
<1>7. QED
    BY <1>4, <1>5, <1>6 DEF InboxInv, InboxTyped, WalkFits

(* The order of the list.                                                  *)
LEMMA BeforeOrder ==
    ASSUME InboxTyped
    PROVE  /\ \A c, d \in Convs : c # d => Before(c, d) \/ Before(d, c)
           /\ \A c, d \in Convs : ~(Before(c, d) /\ Before(d, c))
           /\ \A c, d, e \in Convs : Before(c, d) /\ Before(d, e) => Before(c, e)
<1>1. \A c \in Convs : pinnedAt[c] \in Nat /\ updatedAt[c] \in Nat
    BY DEF InboxTyped
<1>2. \A c, d \in Convs : c # d => Before(c, d) \/ Before(d, c)
    BY <1>1 DEF InboxTyped, Before
<1>3. \A c, d \in Convs : ~(Before(c, d) /\ Before(d, c))
    BY <1>1 DEF Before
<1>4. \A c, d, e \in Convs : Before(c, d) /\ Before(d, e) => Before(c, e)
    BY <1>1 DEF Before
<1>5. QED
    BY <1>2, <1>3, <1>4

LEMMA HasLastRow ==
    ASSUME InboxTyped, NEW rows_ \in SUBSET Convs, rows_ # {}
    PROVE  /\ \E d \in rows_ : \A e \in rows_ : e = d \/ Before(e, d)
           /\ \E d \in rows_ : \A e \in rows_ : ~Before(e, d)
<1>1. IsFiniteSet(rows_)
    BY InboxAssumption, FS_Subset
<1>2. PICK R : R = {x \in Convs \X Convs : Before(x[1], x[2])}
    OBVIOUS
<1>3. \A c, d \in Convs : <<c, d>> \in R <=> Before(c, d)
    BY <1>2
<1>4. /\ \A x, y \in rows_ : x # y => <<x, y>> \in R \/ <<y, x>> \in R
      /\ \A x, y, z \in rows_ : <<x, y>> \in R /\ <<y, z>> \in R => <<x, z>> \in R
    BY <1>3, BeforeOrder
<1>5. \E x \in rows_ : \A y \in rows_ : y # x => <<y, x>> \in R
    BY <1>1, <1>4, HasLast
<1>6. PICK Q : Q = {x \in Convs \X Convs : Before(x[2], x[1])}
    OBVIOUS
<1>7. \A c, d \in Convs : <<c, d>> \in Q <=> Before(d, c)
    BY <1>6
<1>8. /\ \A x, y \in rows_ : x # y => <<x, y>> \in Q \/ <<y, x>> \in Q
      /\ \A x, y, z \in rows_ : <<x, y>> \in Q /\ <<y, z>> \in Q => <<x, z>> \in Q
    BY <1>7, BeforeOrder
<1>9. \E x \in rows_ : \A y \in rows_ : y # x => <<y, x>> \in Q
    BY <1>1, <1>8, HasLast
<1>10. \E d \in rows_ : \A e \in rows_ : ~Before(e, d)
    <2>1. PICK d \in rows_ : \A e \in rows_ : e # d => Before(d, e)
        BY <1>7, <1>9
    <2>2. \A e \in rows_ : ~Before(e, d)
        BY <2>1, BeforeOrder
    <2>3. QED
        BY <2>1, <2>2
<1>11. QED
    BY <1>3, <1>5, <1>10

(* A page ends with its last row, and has every row that stands before it. *)
LEMMA PageFacts ==
    ASSUME InboxTyped, NEW rows_ \in SUBSET Convs, rows_ # {}, NEW page, page = First(rows_)
    PROVE  /\ page \subseteq rows_ /\ LastOf(page) \in page
           /\ \A e \in page : e = LastOf(page) \/ Before(e, LastOf(page))
           /\ \A c \in rows_, d \in page : Before(c, d) => c \in page
<1>1. page = {d \in rows_ : Cardinality({e \in rows_ : Before(e, d)}) < PageSize}
    BY DEF First
<1>2. page \subseteq rows_ /\ page \in SUBSET Convs
    BY <1>1
<1>3. page # {}
    <2>1. PICK d \in rows_ : \A e \in rows_ : ~Before(e, d)
        BY HasLastRow
    <2>2. {e \in rows_ : Before(e, d)} = {}
        BY <2>1
    <2>3. Cardinality({e \in rows_ : Before(e, d)}) = 0
        BY <2>2, FS_EmptySet
    <2>4. QED
        BY <1>1, <2>3, InboxAssumption
<1>4. \E d \in page : \A e \in page : e = d \/ Before(e, d)
    BY <1>2, <1>3, HasLastRow
<1>5. LastOf(page) \in page /\ \A e \in page : e = LastOf(page) \/ Before(e, LastOf(page))
    BY <1>4, Zenon DEF LastOf
<1>6. ASSUME NEW c \in rows_, NEW d \in page, Before(c, d) PROVE c \in page
    <2>1. PICK S, T : S = {e \in rows_ : Before(e, c)} /\ T = {e \in rows_ : Before(e, d)}
        OBVIOUS
    <2>2. S \subseteq T
        BY <1>2, <1>6, <2>1, BeforeOrder
    <2>3. T \in SUBSET Convs
        BY <2>1
    <2>4. IsFiniteSet(T)
        BY <2>3, InboxAssumption, FS_Subset
    <2>5. Cardinality(S) <= Cardinality(T) /\ Cardinality(S) \in Nat /\ Cardinality(T) \in Nat
        BY <2>2, <2>4, FS_Subset, FS_CardinalityType
    <2>6. Cardinality(T) < PageSize
        BY <1>1, <2>1
    <2>7. QED
        BY <1>1, <2>1, <2>5, <2>6, InboxAssumption
<1>7. QED
    BY <1>2, <1>5, <1>6

(* One page.                                                               *)
LEMMA InboxPage == InboxInv /\ ListPage => InboxInv'
<1> SUFFICES ASSUME InboxInv, ListPage PROVE InboxInv'
    OBVIOUS
<1>1. InboxTyped /\ walk.at = "more" /\ walk.cursor \in Convs \cup {"none"} /\ walk.listed \in [Convs -> Nat]
    BY DEF InboxInv, InboxTyped, ListPage, Walk
<1>2. PICK rows_, page, g, l :
          /\ rows_ = After(walk.cursor) /\ page = First(rows_)
          /\ g = [c \in Convs |-> walk.listed[c] + IF c \in page THEN 1 ELSE 0]
          /\ l = LastOf(page)
    OBVIOUS
<1>3. PICK w : w = [at |-> IF page # rows_ THEN "more" ELSE "end",
                    cursor |-> IF page # rows_ THEN l ELSE "none", listed |-> g]
    OBVIOUS
<1>4. walk' = w /\ UNCHANGED <<pinnedAt, updatedAt, now, moved, adrift>>
    BY <1>2, <1>3 DEF ListPage
<1>5. /\ rows_ \in SUBSET Convs
      /\ \A d \in Convs : d \in rows_ <=> walk.cursor = "none" \/ Before(walk.cursor, d)
    BY <1>2 DEF After
<1>6. g \in [Convs -> Nat] /\ \A c \in Convs : g[c] = walk.listed[c] + IF c \in page THEN 1 ELSE 0
    BY <1>1, <1>2
<1>7. page \subseteq rows_
    BY <1>2 DEF First
<1>8. ASSUME ~adrift, NEW c \in Convs \ moved
      PROVE  /\ c \in rows_ => walk.listed[c] = 0
             /\ c \notin rows_ => walk.listed[c] = 1
    <2>1. PassedOver(walk, c)
        BY <1>1, <1>8 DEF InboxInv, WalkFits
    <2>2. CASE walk.cursor = "none"
        BY <1>5, <1>8, <2>1, <2>2 DEF PassedOver
    <2>3. CASE walk.cursor \in Convs
        <3>1. walk.cursor # "none"
            BY <2>3, InboxAssumption
        <3>2. c = walk.cursor \/ Before(c, walk.cursor) \/ Before(walk.cursor, c)
            BY <1>1, <1>8, <2>3, BeforeOrder
        <3>3. QED
            BY <1>5, <1>8, <2>1, <3>1, <3>2 DEF PassedOver
    <2>4. QED
        BY <1>1, <2>2, <2>3
<1>9. CASE page = rows_
    <2>1. w.at = "end" /\ w.cursor = "none" /\ w.listed = g /\ w \in Walk
        BY <1>3, <1>6, <1>9 DEF Walk
    <2>2. ASSUME ~adrift, NEW c \in Convs \ moved PROVE WalkFits(w, c)
        BY <1>6, <1>8, <1>9, <2>1, <2>2 DEF WalkFits
    <2>3. InboxTyped'
        BY <1>1, <1>4, <2>1 DEF InboxTyped
    <2>4. ASSUME ~adrift', NEW c \in Convs \ moved' PROVE WalkFits(walk, c)'
        BY <1>4, <2>1, <2>2, <2>4 DEF WalkFits
    <2>5. QED
        BY <2>3, <2>4 DEF InboxInv
<1>10. CASE page # rows_
    <2>1. /\ l \in page
          /\ \A e \in page : e = l \/ Before(e, l)
          /\ \A c \in rows_, d \in page : Before(c, d) => c \in page
        <3>1. rows_ # {}
            BY <1>7, <1>10
        <3>2. QED
            BY <1>1, <1>2, <1>5, <3>1, PageFacts
    <2>2. l \in Convs /\ l # "none" /\ l \in rows_
        BY <1>5, <1>7, <2>1, InboxAssumption
    <2>3. w.at = "more" /\ w.cursor = l /\ w.listed = g /\ w \in Walk
        BY <1>3, <1>6, <1>10, <2>2 DEF Walk
    <2>4. ASSUME ~adrift, NEW c \in Convs \ moved PROVE PassedOver(w, c)
        <3>1. c = l \/ Before(c, l) => g[c] = 1
            <4>1. CASE c \in page
                BY <1>6, <1>7, <1>8, <2>4, <4>1
            <4>2. CASE c \notin page /\ Before(c, l)
                <5>1. c \notin rows_
                    BY <2>1, <4>2
                <5>2. QED
                    BY <1>6, <1>8, <2>4, <4>2, <5>1
            <4>3. QED
                BY <2>1, <4>1, <4>2
        <3>2. Before(l, c) => g[c] = 0
            <4>1. SUFFICES ASSUME Before(l, c) PROVE g[c] = 0
                OBVIOUS
            <4>2. c \notin page
                <5>1. c \in page => c = l \/ Before(c, l)
                    BY <2>1
                <5>2. ~Before(l, l) /\ ~(Before(l, c) /\ Before(c, l))
                    BY <1>1, <2>2, <2>4, BeforeOrder
                <5>3. QED
                    BY <4>1, <5>1, <5>2
            <4>3. c \in rows_
                <5>1. walk.cursor \in Convs /\ Before(walk.cursor, l) => Before(walk.cursor, c)
                    BY <1>1, <2>2, <2>4, <4>1, BeforeOrder
                <5>2. QED
                    BY <1>1, <1>5, <2>2, <2>4, <5>1
            <4>4. QED
                BY <1>6, <1>8, <2>4, <4>2, <4>3
        <3>3. QED
            BY <2>2, <2>3, <3>1, <3>2 DEF PassedOver
    <2>5. InboxTyped'
        BY <1>1, <1>4, <2>3 DEF InboxTyped
    <2>6. ASSUME ~adrift', NEW c \in Convs \ moved' PROVE WalkFits(walk, c)'
        <3>1. PassedOver(w, c)
            BY <1>4, <2>4, <2>6
        <3>2. PassedOver(w, c)'
            BY <1>4, <2>3, <3>1 DEF PassedOver, Before
        <3>3. QED
            BY <1>4, <2>3, <3>2 DEF WalkFits, PassedOver
    <2>7. QED
        BY <2>5, <2>6 DEF InboxInv
<1>11. QED
    BY <1>9, <1>10

(* A conversation moves: the order of the others is what it was.           *)
LEMMA InboxMoves ==
    ASSUME InboxInv, NEW c \in Convs, Moves(c), InboxTyped',
           \A d \in Convs \ {c} : pinnedAt'[d] = pinnedAt[d] /\ updatedAt'[d] = updatedAt[d]
    PROVE  InboxInv'
<1>1. moved' = moved \cup {c} /\ walk' = walk /\ (adrift' <=> adrift \/ c = walk.cursor)
    BY DEF Moves
<1>2. ASSUME ~adrift', NEW d \in Convs \ moved' PROVE WalkFits(walk, d)'
    <2>1. d # c /\ d \in Convs \ moved /\ walk.cursor # c /\ ~adrift
        BY <1>1, <1>2
    <2>2. WalkFits(walk, d) /\ walk.cursor \in Convs \cup {"none"}
        BY <2>1 DEF InboxInv, InboxTyped, Walk
    <2>3. walk.cursor \in Convs => /\ Before(d, walk.cursor)' <=> Before(d, walk.cursor)
                                   /\ Before(walk.cursor, d)' <=> Before(walk.cursor, d)
        BY <1>1, <1>2, <2>1 DEF Before
    <2>4. PICK w : w = walk /\ w.cursor \in Convs \cup {"none"}
        BY <2>2
    <2>5. WalkFits(w, d)'
        BY <1>1, <2>1, <2>2, <2>3, <2>4 DEF WalkFits, PassedOver
    <2>6. QED
        BY <1>1, <2>4, <2>5 DEF WalkFits, PassedOver
<1>3. QED
    BY <1>2 DEF InboxInv

LEMMA InboxStepInv == InboxInv /\ [InboxNext]_inboxVars => InboxInv'
<1> SUFFICES ASSUME InboxInv, [InboxNext]_inboxVars PROVE InboxInv'
    OBVIOUS
<1>1. InboxTyped /\ now \in Nat
    BY DEF InboxInv, InboxTyped
<1>2. CASE UNCHANGED inboxVars
    BY <1>2 DEF inboxVars, InboxInv, InboxTyped, WalkFits, PassedOver, Before
<1>3. CASE StartWalk
    <2>1. PICK g : g = [c \in Convs |-> 0]
        OBVIOUS
    <2>2. walk' = [at |-> "more", cursor |-> "none", listed |-> g]
        BY <1>3, <2>1 DEF StartWalk, NoWalk
    <2>3. walk' \in Walk /\ walk'.at = "more" /\ walk'.cursor = "none" /\ walk'.listed = g
        BY <2>1, <2>2 DEF Walk
    <2>4. InboxTyped'
        BY <1>1, <1>3, <2>3 DEF StartWalk, InboxTyped
    <2>5. \A c \in Convs : WalkFits(walk, c)'
        BY <2>1, <2>3 DEF WalkFits, PassedOver
    <2>6. QED
        BY <2>4, <2>5 DEF InboxInv
<1>4. CASE LeaveInbox
    <2>1. walk' \in Walk /\ walk'.at = "idle"
        BY <1>4 DEF LeaveInbox, NoWalk, Walk
    <2>2. InboxTyped'
        BY <1>1, <1>4, <2>1 DEF LeaveInbox, InboxTyped
    <2>3. \A c \in Convs : WalkFits(walk, c)'
        BY <2>1 DEF WalkFits
    <2>4. QED
        BY <2>2, <2>3 DEF InboxInv
<1>5. ASSUME NEW c \in Convs, NEW v \in {0, now + 1}, Moves(c),
             pinnedAt' = [pinnedAt EXCEPT ![c] = v], updatedAt' = updatedAt
      PROVE  InboxInv'
    <2>1. now' = now + 1 /\ now' \in Nat /\ v \in 0..now' /\ walk' = walk
        BY <1>1, <1>5 DEF Moves
    <2>2. /\ pinnedAt' \in [Convs -> 0..now']
          /\ \A d \in Convs \ {c} : pinnedAt'[d] = pinnedAt[d] /\ updatedAt'[d] = updatedAt[d]
        BY <1>1, <1>5, <2>1 DEF InboxTyped
    <2>3. updatedAt' \in [Convs -> 1..now']
        BY <1>1, <1>5, <2>1 DEF InboxTyped
    <2>4. InboxTyped'
        BY <1>1, <1>5, <2>1, <2>2, <2>3 DEF InboxTyped
    <2>5. QED
        BY <1>5, <2>2, <2>4, InboxMoves
<1>6. ASSUME NEW c \in Convs, Pin(c) \/ Unpin(c) PROVE InboxInv'
    <2>1. Moves(c) /\ updatedAt' = updatedAt /\ \E v \in {0, now + 1} : pinnedAt' = [pinnedAt EXCEPT ![c] = v]
        BY <1>6 DEF Pin, Unpin
    <2>2. QED
        BY <1>5, <2>1
<1>7. ASSUME NEW c \in Convs, MessageArrives(c) PROVE InboxInv'
    <2>1. Moves(c) /\ pinnedAt' = pinnedAt /\ updatedAt' = [updatedAt EXCEPT ![c] = now + 1]
        BY <1>7 DEF MessageArrives
    <2>2. now' = now + 1 /\ now' \in Nat /\ walk' = walk
        BY <1>1, <2>1 DEF Moves
    <2>3. /\ updatedAt' \in [Convs -> 1..now'] /\ updatedAt'[c] = now + 1
          /\ \A d \in Convs \ {c} : pinnedAt'[d] = pinnedAt[d] /\ updatedAt'[d] = updatedAt[d]
        BY <1>1, <2>1, <2>2 DEF InboxTyped
    <2>4. \A d, e \in Convs : updatedAt'[d] = updatedAt'[e] => d = e
        <3>1. \A d \in Convs : updatedAt[d] \in Nat /\ updatedAt[d] < now + 1
            BY <1>1 DEF InboxTyped
        <3>2. QED
            BY <1>1, <2>3, <3>1 DEF InboxTyped
    <2>5. pinnedAt' \in [Convs -> 0..now']
        BY <1>1, <2>1, <2>2 DEF InboxTyped
    <2>6. InboxTyped'
        BY <1>1, <2>2, <2>3, <2>4, <2>5 DEF InboxTyped
    <2>7. QED
        BY <2>1, <2>3, <2>6, InboxMoves
<1>8. QED
    BY <1>2, <1>3, <1>4, <1>6, <1>7, InboxPage DEF InboxNext

LEMMA InboxInvSafe == InboxInv => InboxTypeOK /\ ListedOnce
BY DEF InboxInv, InboxTyped, InboxTypeOK, ListedOnce, WalkFits, Walk

(* Any number of conversations, pages of any size and any way they move.   *)
THEOREM InboxListed == InboxSpec => [](InboxTypeOK /\ ListedOnce)
<1>1. QED
    BY InboxInitInv, InboxStepInv, InboxInvSafe, PTL DEF InboxSpec

-----------------------------------------------------------------------------
(* HostCalendar.  RoomsKept is inductive with the types: guests change     *)
(* remaining and the holders of a night together, and a save either starts *)
(* the count of a night anew or marks it as raced.                         *)

Nightly == UNION {[nights -> Item] : nights \in SUBSET Days}
Panel == [at : {"closed", "shown", "saving"}, seen : [Days -> Nat], items : Nightly]

HostTyped ==
    /\ TypeOK
    /\ rows \subseteq Days /\ closed \subseteq rows
    /\ panel \in [Panels -> Panel]
    /\ shut \subseteq Days /\ raced \subseteq Days

HostInv == HostTyped /\ RoomsKept

LEMMA NoItems == <<>> \in Nightly
<1>1. <<>> \in [{} -> Item]
    OBVIOUS
<1>2. {} \in SUBSET Days
    OBVIOUS
<1>3. QED
    BY <1>1, <1>2 DEF Nightly

LEMMA BlankIsPanel == Blank \in Panel
<1>1. [d \in Days |-> 0] \in [Days -> Nat]
    OBVIOUS
<1>2. QED
    BY <1>1, NoItems DEF Blank, Panel

LEMMA ItemsOf ==
    ASSUME NEW f \in Nightly
    PROVE  /\ DOMAIN f \subseteq Days
           /\ \A d \in DOMAIN f : f[d] \in Item
<1>1. PICK nights \in SUBSET Days : f \in [nights -> Item]
    BY DEF Nightly
<1>2. QED
    BY <1>1

LEMMA ItemsAre ==
    ASSUME NEW nights \in SUBSET Days, NEW f \in [nights -> Item]
    PROVE  f \in Nightly
BY DEF Nightly

LEMMA PanelMove ==
    ASSUME NEW p \in Panels, panel \in [Panels -> Panel],
           NEW q \in Panel, panel' = [panel EXCEPT ![p] = q]
    PROVE  panel' \in [Panels -> Panel]
OBVIOUS

LEMMA HostInitInv == HostInit => HostInv
<1> SUFFICES ASSUME HostInit PROVE HostInv
    OBVIOUS
<1>1. TypeOK
    BY TypeInit DEF HostInit
<1>2. HostTyped
    BY <1>1, BlankIsPanel DEF HostInit, HostTyped
<1>3. ASSUME NEW d \in Days
      PROVE  /\ remaining[d] + Taken(d) <= Rooms[d]
             /\ d \notin shut => remaining[d] + Taken(d) = Rooms[d]
    <2>1. Taken(d) = 0 /\ remaining[d] = Capacity[d]
        <3>1. Holders(d) = {}
            BY DEF HostInit, Init, Holders, Occupying
        <3>2. QED
            BY <3>1, FS_EmptySet DEF HostInit, Init, Taken
    <2>2. Capacity[d] \in Nat /\ Rooms[d] \in Nat /\ (Capacity[d] = 0 \/ Capacity[d] = Rooms[d])
        BY ConstantsAssumption, HostAssumption
    <2>3. d \notin shut => Capacity[d] > 0
        BY DEF HostInit
    <2>4. QED
        BY <2>1, <2>2, <2>3
<1>4. QED
    BY <1>2, <1>3 DEF HostInv, RoomsKept

(* A guest's step changes the count of no night.                           *)
LEMMA GuestsCount ==
    ASSUME TypeOK, TypeOK', NEW d \in Days, NEW b \in Bookings,
           \/ \E nights \in Stays : Hold(b, nights, "LOW")
           \/ CancelHold(b) \/ DeadlinePasses(b) \/ ExpireHold(b)
    PROVE  /\ remaining'[d] + Taken(d)' = remaining[d] + Taken(d)
           /\ \A nights \in Stays : Hold(b, nights, "LOW") /\ d \notin nights => Taken(d)' = Taken(d)
           /\ CancelHold(b) \/ DeadlinePasses(b) \/ ExpireHold(b) => Taken(d)' <= Taken(d)
<1> DEFINE Same == remaining'[d] + Taken(d)' = remaining[d] + Taken(d)
<1> USE DEF TypeOK
<1>0. remaining[d] \in Nat /\ remaining'[d] \in Nat /\ IsFiniteSet(Holders(d)) /\ Taken(d) \in Nat
    BY HoldersFinite DEF Taken
<1>1. ASSUME NEW nights \in Stays, Hold(b, nights, "LOW")
      PROVE  Same /\ (d \notin nights => Taken(d)' = Taken(d))
    <2>1. b \notin Holders(d)
        BY <1>1 DEF Hold, Holders, Occupying
    <2>2. CASE d \in nights
        <3>1. Holders(d)' = Holders(d) \cup {b}
            BY <1>1, <2>2, ConstantsAssumption DEF Hold, Holders, Occupying
        <3>2. remaining'[d] = remaining[d] - 1
            BY <1>1, <2>2 DEF Hold, TakeNights
        <3>3. Taken(d)' = Taken(d) + 1
            BY <1>0, <2>1, <3>1, Enters DEF Taken
        <3>4. QED
            BY <1>0, <2>2, <3>2, <3>3
    <2>3. CASE d \notin nights
        <3>1. Holders(d)' = Holders(d)
            BY <1>1, <2>1, <2>3, ConstantsAssumption DEF Hold, Holders, Occupying
        <3>2. remaining'[d] = remaining[d]
            BY <1>1, <2>3 DEF Hold, TakeNights
        <3>3. QED
            BY <1>0, <3>1, <3>2 DEF Taken
    <2>4. QED
        BY <2>2, <2>3
<1>2. ASSUME NEW topic, Withdraw(b, topic)
      PROVE  Same /\ Taken(d)' <= Taken(d)
    <2>1. Holders(d)' = Holders(d) \ {b}
        BY <1>2 DEF Withdraw, Holders, Occupying
    <2>2. b \in Holders(d) <=> d \in stay[b]
        BY <1>2 DEF Withdraw, Pending, Holders, Occupying
    <2>3. remaining'[d] = IF d \in stay[b] THEN remaining[d] + 1 ELSE remaining[d]
        BY <1>2 DEF Withdraw, CreditNights
    <2>4. Taken(d)' = IF d \in stay[b] THEN Taken(d) - 1 ELSE Taken(d)
        BY <1>0, <2>1, <2>2, Leaves DEF Taken
    <2>5. QED
        BY <1>0, <2>3, <2>4
<1>3. ASSUME DeadlinePasses(b)
      PROVE  Same /\ Taken(d)' <= Taken(d)
    <2>1. Holders(d)' = Holders(d)
        BY <1>3 DEF DeadlinePasses, Holders, Occupying
    <2>2. QED
        BY <1>0, <1>3, <2>1 DEF DeadlinePasses, Taken
<1>4. CancelHold(b) \/ ExpireHold(b) => \E topic \in Topic : Withdraw(b, topic)
    BY DEF CancelHold, ExpireHold, Topic
<1>5. CancelHold(b) \/ DeadlinePasses(b) \/ ExpireHold(b) => Same /\ Taken(d)' <= Taken(d)
    BY <1>2, <1>3, <1>4
<1>6. QED
    BY <1>1, <1>5

(* What BlockedStaysUnsold says of a step.                                 *)
Unsold == \A d \in closed : d \in closed' => Taken(d)' <= Taken(d)

(* The guests' steps.                                                      *)
LEMMA HostGuest ==
    ASSUME HostInv, NEW b \in Bookings,
           (\E nights \in Stays : HoldOpen(b, nights)) \/ Release(b)
    PROVE  HostInv' /\ Unsold
<1>1. /\ \/ \E nights \in Stays : Hold(b, nights, "LOW")
         \/ CancelHold(b) \/ DeadlinePasses(b) \/ ExpireHold(b)
      /\ UNCHANGED hostVars
    BY DEF HoldOpen, Release
<1>2. [Next]_vars
    BY <1>1 DEF Next
<1>3. TypeOK /\ TypeOK'
    BY <1>2, TypeStep DEF HostInv, HostTyped
<1>4. HostTyped'
    BY <1>1, <1>3 DEF HostInv, HostTyped, hostVars
<1>5. \A d \in Days : remaining'[d] + Taken(d)' = remaining[d] + Taken(d)
    BY <1>1, <1>3, GuestsCount
<1>6. RoomsKept'
    BY <1>1, <1>5 DEF HostInv, RoomsKept, hostVars
<1>7. Unsold
    <2> SUFFICES ASSUME NEW d \in closed PROVE Taken(d)' <= Taken(d)
        BY DEF Unsold
    <2>1. d \in Days
        BY DEF HostInv, HostTyped
    <2>2. Taken(d) \in Nat
        BY <2>1, HoldersFinite DEF Taken
    <2>3. ASSUME NEW nights \in Stays, HoldOpen(b, nights) PROVE Taken(d)' = Taken(d)
        <3>1. d \notin nights /\ Hold(b, nights, "LOW")
            BY <2>3 DEF HoldOpen
        <3>2. QED
            BY <1>1, <1>3, <2>1, <3>1, GuestsCount
    <2>4. ASSUME Release(b) PROVE Taken(d)' <= Taken(d)
        BY <1>1, <1>3, <2>1, <2>4, GuestsCount DEF Release
    <2>5. QED
        BY <2>2, <2>3, <2>4
<1>8. QED
    BY <1>4, <1>6, <1>7 DEF HostInv

(* A page of the host that writes nothing.                                 *)
LEMMA HostReads ==
    ASSUME HostInv, UNCHANGED <<vars, rows, closed, shut, raced>>, panel' \in [Panels -> Panel]
    PROVE  HostInv' /\ Unsold
<1>1. TypeOK' /\ \A d \in Days : Taken(d)' = Taken(d) /\ remaining'[d] = remaining[d]
    BY DEF HostInv, HostTyped, TypeOK, vars, Taken, Holders, Occupying
<1>2. HostTyped'
    BY <1>1 DEF HostInv, HostTyped
<1>3. RoomsKept'
    BY <1>1 DEF HostInv, RoomsKept
<1>4. \A d \in closed : d \in Days /\ Taken(d) \in Nat
    BY HoldersFinite DEF HostInv, HostTyped, Taken
<1>5. QED
    BY <1>1, <1>2, <1>3, <1>4 DEF HostInv, Unsold

LEMMA HostSaves ==
    ASSUME HostInv, NEW p \in Panels, NEW d \in Days, SaveNight(p, d)
    PROVE  HostInv' /\ Unsold
<1> DEFINE item == panel[p].items[d]
           seen == panel[p].seen[d]
<1>1. /\ item \in Item /\ seen \in Nat
      /\ panel[p] = [at |-> panel[p].at, seen |-> panel[p].seen, items |-> panel[p].items]
      /\ panel[p].at \in {"closed", "shown", "saving"} /\ panel[p].seen \in [Days -> Nat]
      /\ panel[p].items \in Nightly
    <2>1. panel[p] \in Panel /\ d \in DOMAIN panel[p].items
        BY DEF HostInv, HostTyped, SaveNight
    <2>2. panel[p].items \in Nightly /\ panel[p].seen \in [Days -> Nat]
        BY <2>1 DEF Panel
    <2>3. item \in Item
        BY <2>1, <2>2, ItemsOf
    <2>4. QED
        BY <2>1, <2>2, <2>3 DEF Panel
<1>2. item.block \in {"keep", "block", "open"} /\ item.remaining \in BOOLEAN
    BY <1>1 DEF Item
<1>3. /\ Rooms[d] \in Nat /\ remaining[d] \in Nat /\ remaining \in [Days -> Nat]
      /\ Taken(d) \in Nat
    BY HoldersFinite, HostAssumption DEF HostInv, HostTyped, TypeOK, Taken
<1>4. Left(panel[p].seen[d], d) \in Nat
    BY <1>1, <1>3 DEF Left
<1>5. Write(p, d) \in Nat /\ remaining' = [remaining EXCEPT ![d] = Write(p, d)]
    BY <1>3, <1>4 DEF Write, SaveNight
<1>6. UNCHANGED <<status, stay, deadline, assessment, emitted, inFlight, staleWrite>>
    BY DEF SaveNight
<1>7. TypeOK' /\ \A n \in Days : Taken(n)' = Taken(n)
    BY <1>3, <1>5, <1>6 DEF HostInv, HostTyped, TypeOK, Taken, Holders, Occupying
<1>8. panel' \in [Panels -> Panel]
    <2> DEFINE left == [n \in DOMAIN panel[p].items \ {d} |-> panel[p].items[n]]
               q == [panel[p] EXCEPT !.items = left]
    <2>1. left \in Nightly
        <3>1. DOMAIN panel[p].items \ {d} \in SUBSET Days
            BY <1>1, ItemsOf
        <3>2. left \in [DOMAIN panel[p].items \ {d} -> Item]
            BY <1>1, ItemsOf
        <3>3. QED
            BY <3>1, <3>2, ItemsAre
    <2>2. q = [at |-> panel[p].at, seen |-> panel[p].seen, items |-> left]
        BY <1>1
    <2>3. q \in Panel
        BY <1>1, <2>1, <2>2 DEF Panel
    <2>4. panel' = [panel EXCEPT ![p] = q]
        BY DEF SaveNight
    <2>5. panel \in [Panels -> Panel]
        BY DEF HostInv, HostTyped
    <2>6. QED
        BY <2>3, <2>4, <2>5, PanelMove
<1>9. /\ rows' = rows \cup {d}
      /\ closed' \subseteq closed \cup {d}
      /\ shut' = IF item.block = "block" THEN shut \cup {d}
                 ELSE IF item.remaining THEN shut \ {d} ELSE shut
      /\ raced' = IF item.block # "block" /\ item.remaining
                  THEN IF Taken(d) = seen /\ Taken(d) <= Rooms[d] THEN raced \ {d} ELSE raced \cup {d}
                  ELSE raced
    BY <1>2 DEF SaveNight
<1>10. HostTyped'
    BY <1>7, <1>8, <1>9 DEF HostInv, HostTyped
<1>11. RoomsKept'
    <2> SUFFICES ASSUME NEW n \in Days, n \notin raced'
                 PROVE  /\ remaining'[n] + Taken(n)' <= Rooms[n]
                        /\ n \notin shut' => remaining'[n] + Taken(n)' = Rooms[n]
        BY DEF RoomsKept
    <2>1. n \notin raced => /\ remaining[n] + Taken(n) <= Rooms[n]
                            /\ n \notin shut => remaining[n] + Taken(n) = Rooms[n]
        BY DEF HostInv, RoomsKept
    <2>2. CASE n # d
        <3>1. n \notin raced /\ (n \notin shut' => n \notin shut) /\ remaining'[n] = remaining[n]
            BY <1>3, <1>5, <1>9, <2>2
        <3>2. QED
            BY <1>7, <2>1, <3>1
    <2>3. CASE n = d
        <3>1. remaining'[d] = Write(p, d) /\ Taken(d)' = Taken(d)
            BY <1>3, <1>5, <1>7
        <3>2. CASE item.block = "block"
            <4>1. Write(p, d) = 0 /\ d \notin raced /\ d \in shut'
                BY <1>9, <2>3, <3>2 DEF Write
            <4>2. QED
                BY <1>3, <2>1, <2>3, <3>1, <4>1
        <3>3. CASE item.block # "block" /\ item.remaining
            <4>1. Taken(d) = seen /\ Taken(d) <= Rooms[d]
                BY <1>9, <2>3, <3>3
            <4>2. Write(p, d) = Rooms[d] - Taken(d)
                BY <1>3, <3>3, <4>1 DEF Write, Left
            <4>3. QED
                BY <1>3, <2>3, <3>1, <4>2
        <3>4. CASE item.block # "block" /\ ~item.remaining
            <4>1. Write(p, d) = remaining[d] /\ d \notin raced /\ (d \notin shut' => d \notin shut)
                BY <1>9, <2>3, <3>4 DEF Write
            <4>2. QED
                BY <2>1, <2>3, <3>1, <4>1
        <3>5. QED
            BY <1>2, <3>2, <3>3, <3>4
    <2>4. QED
        BY <2>2, <2>3
<1>12. Unsold
    BY <1>7, HoldersFinite DEF HostInv, HostTyped, Taken, Unsold
<1>13. QED
    BY <1>10, <1>11, <1>12 DEF HostInv

LEMMA HostSteps == HostInv /\ [HostNext]_<<vars, hostVars>> => HostInv' /\ Unsold
<1> SUFFICES ASSUME HostInv, [HostNext]_<<vars, hostVars>> PROVE HostInv' /\ Unsold
    OBVIOUS
<1>1. panel \in [Panels -> Panel]
    BY DEF HostInv, HostTyped
<1>2. CASE UNCHANGED <<vars, hostVars>>
    BY <1>1, <1>2, HostReads DEF hostVars
<1>3. ASSUME NEW p \in Panels, Show(p) PROVE HostInv' /\ Unsold
    <2> DEFINE q == [panel[p] EXCEPT !.at = "shown", !.seen = [d \in Days |-> Taken(d)]]
    <2>1. [d \in Days |-> Taken(d)] \in [Days -> Nat]
        BY HoldersFinite DEF Taken
    <2>2. q \in Panel
        BY <1>1, <2>1 DEF Panel
    <2>3. panel' = [panel EXCEPT ![p] = q]
        BY <1>1, <1>3 DEF Show
    <2>4. panel' \in [Panels -> Panel]
        BY <1>1, <2>2, <2>3, PanelMove
    <2>5. QED
        BY <1>3, <2>4, HostReads DEF Show
<1>4. ASSUME NEW p \in Panels, Close(p) PROVE HostInv' /\ Unsold
    <2>1. panel' \in [Panels -> Panel]
        BY <1>1, <1>4, BlankIsPanel, PanelMove DEF Close
    <2>2. QED
        BY <1>4, <2>1, HostReads DEF Close
<1>5. ASSUME NEW p \in Panels, NEW nights \in SUBSET Days, NEW item \in Item, Submit(p, nights, item)
      PROVE  HostInv' /\ Unsold
    <2> DEFINE all == [d \in nights |-> item]
               q == [panel[p] EXCEPT !.at = "saving", !.items = all]
    <2>1. all \in Nightly
        BY ItemsAre
    <2>2. q \in Panel
        BY <1>1, <2>1 DEF Panel
    <2>3. panel' = [panel EXCEPT ![p] = q]
        BY <1>1, <1>5 DEF Submit
    <2>4. panel' \in [Panels -> Panel]
        BY <1>1, <2>2, <2>3, PanelMove
    <2>5. QED
        BY <1>5, <2>4, HostReads DEF Submit
<1>6. ASSUME NEW p \in Panels, NEW d \in Days, SaveNight(p, d) PROVE HostInv' /\ Unsold
    BY <1>6, HostSaves
<1>7. ASSUME NEW b \in Bookings, (\E nights \in Stays : HoldOpen(b, nights)) \/ Release(b)
      PROVE  HostInv' /\ Unsold
    BY <1>7, HostGuest
<1>8. QED
    BY <1>2, <1>3, <1>4, <1>5, <1>6, <1>7 DEF HostNext

LEMMA HostStepInv == HostInv /\ [HostNext]_<<vars, hostVars>> => HostInv'
BY HostSteps

LEMMA HostInvSafe == HostInv => HostTypeOK /\ RoomsKept
BY DEF HostInv, HostTyped, HostTypeOK, Panel

(* Any number of pages, nights and bookings: whatever the host saves while *)
(* guests come and go, a night is sold no more often than there are rooms, *)
(* and lost only by a save from an old count or by blocking.               *)
THEOREM RoomsHold == HostSpec => [](HostTypeOK /\ RoomsKept)
<1>1. QED
    BY HostInitInv, HostStepInv, HostInvSafe, PTL DEF HostSpec

(* A blocked night is not sold, though a release may credit it.            *)
THEOREM BlockedUnsold == HostSpec => BlockedStaysUnsold
<1>1. HostInv /\ [HostNext]_<<vars, hostVars>> => HostInv' /\ Unsold
    BY HostSteps
<1>2. QED
    BY <1>1, HostInitInv, PTL DEF HostSpec, BlockedStaysUnsold, Unsold

-----------------------------------------------------------------------------
(* PropertyPhotos.  While nobody is between the two statements of addPhoto *)
(* the covers are one or none; in between, if nobody else has touched the  *)
(* cover, the new one is a cover and its request will clear the others.    *)

Link == {"none", "photo", "cover"}
Chore == [at : {"idle", "clear", "delete"}, file : Photos \cup {"none"}]

ChoreOK(d) ==
    /\ d \in Chore
    /\ d.at # "idle" => d.file \in Photos
    /\ d.at = "delete" /\ link[d.file] # "none" => d.file \in late

PhotoTyped ==
    /\ link \in [Photos -> Link]
    /\ files \subseteq Photos
    /\ \A f \in Photos \ files : link[f] = "none"
    /\ chore \in [Uploaders -> Chore] /\ \A r \in Uploaders : ChoreOK(chore[r])
    /\ chosen \in BOOLEAN /\ clash \in BOOLEAN /\ broken \in BOOLEAN

OneCover == \A f, g \in Covers : f = g

NewCover == \E r \in Uploaders : ToDo("clear") = {r} /\ link[chore[r].file] = "cover"

CoverInv ==
    /\ Rest => OneCover \/ broken
    /\ ~clash => IF Rest THEN OneCover /\ (chosen <=> Covers # {}) ELSE NewCover /\ chosen

PhotoInv == PhotoTyped /\ CoverInv /\ UsedFileStays

LEMMA CoverCount ==
    ASSUME OneCover
    PROVE  Cardinality(Covers) = IF Covers = {} THEN 0 ELSE 1
<1>1. CASE Covers = {}
    BY <1>1, FS_EmptySet
<1>2. CASE Covers # {}
    <2>1. PICK f \in Covers : TRUE
        BY <1>2
    <2>2. Covers = {f}
        BY <2>1 DEF OneCover
    <2>3. QED
        BY <1>2, <2>2, FS_Singleton
<1>3. QED
    BY <1>1, <1>2

LEMMA PhotoInvSafe == PhotoInv => PhotoTypeOK /\ CoverKept /\ UsedFileStays
<1> SUFFICES ASSUME PhotoInv PROVE PhotoTypeOK /\ CoverKept /\ UsedFileStays
    OBVIOUS
<1>1. PhotoTypeOK
    BY DEF PhotoInv, PhotoTyped, PhotoTypeOK, Link, Chore
<1>2. CoverKept
    BY CoverCount DEF PhotoInv, PhotoTyped, CoverInv, CoverKept
<1>3. QED
    BY <1>1, <1>2 DEF PhotoInv

LEMMA PhotoInitInv == PhotoInit => PhotoInv
<1> SUFFICES ASSUME PhotoInit PROVE PhotoInv
    OBVIOUS
<1>1. Idle \in Chore /\ ChoreOK(Idle)
    BY DEF Idle, Chore, ChoreOK
<1>2. PhotoTyped
    BY <1>1 DEF PhotoInit, PhotoTyped, Link
<1>3. Covers = {} /\ Rest
    BY DEF PhotoInit, Covers, Rest, ToDo, Idle
<1>4. QED
    BY <1>2, <1>3 DEF PhotoInit, PhotoInv, CoverInv, OneCover, UsedFileStays

(* One chore changes.                                                      *)
LEMMA ChoreMove ==
    ASSUME chore \in [Uploaders -> Chore], NEW r \in Uploaders, NEW d, chore' = [chore EXCEPT ![r] = d]
    PROVE  /\ chore'[r] = d
           /\ \A o \in Uploaders \ {r} : chore'[o] = chore[o]
           /\ \A at : r \in ToDo(at)' <=> d.at = at
           /\ \A at : ToDo(at)' \ {r} = ToDo(at) \ {r}
BY DEF ToDo

LEMMA PhotoAdd ==
    ASSUME PhotoInv, NEW r \in Uploaders, NEW f \in Photos, NEW isCover \in BOOLEAN, AddPhoto(r, f, isCover)
    PROVE  PhotoInv'
<1> USE DEF PhotoInv, PhotoTyped
<1>1. /\ chore[r].at = "idle" /\ f \in files /\ link[f] = "none" /\ r \notin ToDo("clear")
      /\ UNCHANGED <<files, broken, lost>> /\ late \subseteq late'
    BY DEF AddPhoto, Idle, ToDo
<1>2. link' = [link EXCEPT ![f] = IF isCover THEN "cover" ELSE "photo"]
    BY DEF AddPhoto
<1>3. link' \in [Photos -> Link] /\ \A g \in Photos \ files' : link'[g] = "none"
    BY <1>1, <1>2 DEF Link
<1>4. \A o \in Uploaders : chore[o].at = "delete" /\ chore[o].file = f => f \in late'
    BY DEF AddPhoto, ToDo
<1>5. \A o \in Uploaders : ChoreOK(chore[o])'
    <2> SUFFICES ASSUME NEW o \in Uploaders PROVE ChoreOK(chore[o])'
        OBVIOUS
    <2>1. CASE chore'[o] = chore[o]
        <3>1. ChoreOK(chore[o])
            OBVIOUS
        <3>2. chore[o].at = "delete" /\ link'[chore[o].file] # "none" => chore[o].file \in late'
            <4>1. CASE chore[o].file = f
                BY <1>4, <4>1
            <4>2. CASE chore[o].file # f
                BY <1>1, <1>2, <3>1, <4>2 DEF ChoreOK
            <4>3. QED
                BY <4>1, <4>2
        <3>3. QED
            BY <2>1, <3>1, <3>2 DEF ChoreOK
    <2>2. CASE isCover /\ o = r
        <3>1. chore'[o] = [at |-> "clear", file |-> f]
            BY <2>2 DEF AddPhoto
        <3>2. QED
            BY <3>1 DEF ChoreOK, Chore
    <2>3. QED
        BY <2>1, <2>2 DEF AddPhoto
<1>6. CASE ~isCover
    <2>1. UNCHANGED <<chore, chosen, clash>> /\ ToDo("clear")' = ToDo("clear")
        BY <1>6 DEF AddPhoto, ToDo
    <2>2. Covers' = Covers
        BY <1>1, <1>2, <1>6 DEF Covers
    <2>3. NewCover => NewCover'
        <3>1. \A g \in Photos : link[g] = "cover" => link'[g] = "cover"
            BY <1>1, <1>2
        <3>2. \A o \in ToDo("clear") : chore[o].file \in Photos
            BY DEF ToDo, ChoreOK
        <3>3. QED
            BY <2>1, <3>1, <3>2 DEF NewCover
    <2>4. CoverInv'
        BY <1>1, <2>1, <2>2, <2>3 DEF CoverInv, Rest, OneCover
    <2>5. QED
        BY <1>1, <1>3, <1>5, <2>1, <2>4 DEF UsedFileStays
<1>7. CASE isCover
    <2>1. chore' = [chore EXCEPT ![r] = [at |-> "clear", file |-> f]] /\ chosen' = TRUE
          /\ clash' = (clash \/ ~Rest)
        BY <1>7 DEF AddPhoto, Touch
    <2>2. /\ chore'[r].file = f /\ chore'[r].at = "clear" /\ r \in ToDo("clear")'
          /\ ToDo("clear")' \ {r} = ToDo("clear") \ {r}
        BY <2>1 DEF ToDo
    <2>3. ~clash' => NewCover'
        <3>1. ~clash' => ToDo("clear")' = {r}
            BY <1>1, <2>1, <2>2 DEF Rest
        <3>2. link'[f] = "cover"
            BY <1>2, <1>7
        <3>3. QED
            BY <2>2, <3>1, <3>2 DEF NewCover
    <2>4. CoverInv'
        BY <2>1, <2>2, <2>3 DEF CoverInv, Rest
    <2>5. chore' \in [Uploaders -> Chore]
        BY <2>1 DEF Chore
    <2>6. QED
        BY <1>1, <1>3, <1>5, <2>1, <2>4, <2>5 DEF UsedFileStays
<1>8. QED
    BY <1>6, <1>7

LEMMA OnlyIs ==
    ASSUME link \in [Photos -> Link], NEW f
    PROVE  /\ Only(f) \in [Photos -> Link]
           /\ \A g \in Photos : Only(f)[g] = "none" <=> link[g] = "none"
           /\ \A g \in Photos : Only(f)[g] = "cover" <=> link[g] = "cover" /\ g = f
BY DEF Only, Link

LEMMA PhotoClear ==
    ASSUME PhotoInv, NEW r \in Uploaders, ClearOthers(r)
    PROVE  PhotoInv'
<1> DEFINE f == chore[r].file
<1> USE DEF PhotoInv, PhotoTyped
<1>1. /\ r \in ToDo("clear") /\ link' = Only(f) /\ chore' = [chore EXCEPT ![r] = Idle]
      /\ UNCHANGED <<chosen, clash, broken, files, late, lost>>
    BY DEF ClearOthers
<1>2. f \in Photos
    BY <1>1 DEF ToDo, ChoreOK
<1>3. /\ link' \in [Photos -> Link]
      /\ \A g \in Photos : link'[g] = "none" <=> link[g] = "none"
      /\ \A g \in Photos : link'[g] = "cover" <=> link[g] = "cover" /\ g = f
    BY <1>1, OnlyIs
<1>4. Covers' = {g \in {f} : link[f] = "cover"}
    BY <1>2, <1>3 DEF Covers
<1>5. Idle.at = "idle" /\ Idle \in Chore
    BY DEF Idle, Chore
<1>6. chore' \in [Uploaders -> Chore]
    BY <1>1, <1>5
<1>7. \A o \in Uploaders : ChoreOK(chore[o])'
    <2> SUFFICES ASSUME NEW o \in Uploaders PROVE ChoreOK(chore[o])'
        OBVIOUS
    <2>1. CASE o = r
        BY <1>1, <1>5, <2>1 DEF ChoreOK
    <2>2. CASE o # r
        <3>1. chore'[o] = chore[o] /\ ChoreOK(chore[o])
            BY <1>1, <2>2
        <3>2. QED
            BY <1>1, <1>3, <3>1 DEF ChoreOK
    <2>3. QED
        BY <2>1, <2>2
<1>8. /\ r \notin ToDo("clear")' /\ ToDo("clear")' \ {r} = ToDo("clear") \ {r}
    BY <1>1, <1>5 DEF ToDo
<1>9. CoverInv'
    <2>1. OneCover'
        BY <1>4 DEF OneCover
    <2>2. ASSUME ~clash PROVE Rest' /\ chosen /\ Covers' # {}
        <3>1. ~Rest
            BY <1>1 DEF Rest
        <3>2. NewCover /\ chosen
            BY <2>2, <3>1 DEF CoverInv
        <3>3. ToDo("clear") = {r} /\ link[f] = "cover"
            BY <1>1, <3>2 DEF NewCover
        <3>4. QED
            BY <1>4, <1>8, <3>2, <3>3 DEF Rest
    <2>3. QED
        BY <1>1, <2>1, <2>2 DEF CoverInv
<1>10. QED
    BY <1>1, <1>3, <1>6, <1>7, <1>9 DEF UsedFileStays

LEMMA PhotoSetCover ==
    ASSUME PhotoInv, NEW f \in Photos, SetCover(f)
    PROVE  PhotoInv'
<1> USE DEF PhotoInv, PhotoTyped
<1>1. /\ link[f] # "none" /\ link' = [Only(f) EXCEPT ![f] = "cover"] /\ chosen' = TRUE
      /\ clash' = ~Rest /\ broken' = (broken /\ ~Rest)
      /\ UNCHANGED <<files, chore, late, lost>>
    BY DEF SetCover
<1>2. /\ link' \in [Photos -> Link]
      /\ \A g \in Photos : link'[g] = "none" <=> link[g] = "none"
      /\ \A g \in Photos : link'[g] = "cover" <=> g = f
    BY <1>1, OnlyIs DEF Link
<1>3. \A r \in Uploaders : ChoreOK(chore[r])'
    BY <1>1, <1>2 DEF ChoreOK
<1>4. Covers' = {f} /\ Rest' = Rest
    BY <1>1, <1>2 DEF Covers, Rest, ToDo
<1>5. CoverInv'
    BY <1>1, <1>4 DEF CoverInv, OneCover
<1>6. QED
    BY <1>1, <1>2, <1>3, <1>5 DEF UsedFileStays, Rest

(* A link goes; whose chores have what left to clear stays as it is.       *)
LEMMA PhotoUnlink ==
    ASSUME PhotoInv, NEW f \in Photos, Unlink(f), UNCHANGED <<broken, late>>,
           chore' \in [Uploaders -> Chore], ToDo("clear")' = ToDo("clear"),
           \A r \in Uploaders : chore'[r] \in {chore[r], Idle},
           files' \in {files, files \ {f}}, lost' \subseteq late
    PROVE  PhotoInv'
<1> USE DEF PhotoInv, PhotoTyped
<1>1. /\ link' = [link EXCEPT ![f] = "none"]
      /\ chosen' = (chosen /\ link[f] # "cover")
      /\ clash' = (clash \/ (link[f] = "cover" /\ ~(Rest /\ Covers = {f})))
    BY DEF Unlink
<1>2. link' \in [Photos -> Link] /\ \A g \in Photos \ files' : link'[g] = "none"
    BY <1>1 DEF Link
<1>3. \A r \in Uploaders : ChoreOK(chore[r])'
    <2> SUFFICES ASSUME NEW r \in Uploaders PROVE ChoreOK(chore[r])'
        OBVIOUS
    <2>1. CASE chore'[r] = Idle
        BY <2>1 DEF ChoreOK, Idle
    <2>2. CASE chore'[r] = chore[r]
        BY <1>1, <2>2 DEF ChoreOK
    <2>3. QED
        BY <2>1, <2>2
<1>4. Covers' = Covers \ {f} /\ Rest' = Rest
    BY <1>1 DEF Covers, Rest
<1>5. CASE link[f] = "cover"
    <2>1. ~clash' => Rest /\ Covers = {f}
        BY <1>1, <1>5
    <2>2. QED
        BY <1>1, <1>2, <1>3, <1>4, <1>5, <2>1 DEF CoverInv, OneCover, UsedFileStays
<1>6. CASE link[f] # "cover"
    <2>1. Covers' = Covers /\ clash' = clash /\ chosen' = chosen
        BY <1>1, <1>4, <1>6 DEF Covers
    <2>2. NewCover => NewCover'
        <3> SUFFICES ASSUME NewCover PROVE NewCover'
            OBVIOUS
        <3>1. PICK r \in Uploaders : ToDo("clear") = {r} /\ link[chore[r].file] = "cover"
            BY DEF NewCover
        <3>2. chore'[r].at = "clear" /\ chore[r].at = "clear"
            BY <3>1 DEF ToDo
        <3>3. chore'[r] = chore[r] /\ chore[r].file \in Photos
            BY <3>2 DEF Idle, ChoreOK
        <3>4. link'[chore[r].file] = "cover"
            BY <1>1, <1>6, <3>1, <3>3
        <3>5. QED
            BY <3>1, <3>3, <3>4 DEF NewCover
    <2>3. CoverInv'
        BY <1>4, <2>1, <2>2 DEF CoverInv, OneCover
    <2>4. QED
        BY <1>1, <1>2, <1>3, <2>1, <2>3 DEF UsedFileStays
<1>7. QED
    BY <1>5, <1>6

LEMMA PhotoRemove ==
    ASSUME PhotoInv, NEW f \in Photos, RemovePhoto(f)
    PROVE  PhotoInv'
<1>1. Unlink(f) /\ UNCHANGED <<broken, files, chore, late, lost>>
    BY DEF RemovePhoto
<1>2. ToDo("clear")' = ToDo("clear")
    BY <1>1 DEF ToDo
<1>3. chore' \in [Uploaders -> Chore] /\ lost' \subseteq late
    BY <1>1 DEF PhotoInv, PhotoTyped, UsedFileStays
<1>4. QED
    BY <1>1, <1>2, <1>3, PhotoUnlink

LEMMA PhotoDelete ==
    ASSUME PhotoInv, NEW r \in Uploaders, DeleteFile(r)
    PROVE  PhotoInv'
<1> DEFINE f == chore[r].file
<1>1. /\ r \in ToDo("delete") /\ f \in files /\ files' = files \ {f} /\ Unlink(f)
      /\ lost' = (IF link[f] = "none" THEN lost ELSE lost \cup {f})
      /\ chore' = [chore EXCEPT ![r] = Idle] /\ UNCHANGED <<broken, late>>
    BY DEF DeleteFile
<1>2. f \in Photos /\ chore[r].at = "delete" /\ chore \in [Uploaders -> Chore] /\ ChoreOK(chore[r])
    BY <1>1 DEF PhotoInv, PhotoTyped, ToDo
<1>3. lost' \subseteq late
    BY <1>1, <1>2 DEF PhotoInv, UsedFileStays, ChoreOK
<1>4. Idle \in Chore /\ Idle.at = "idle"
    BY DEF Idle, Chore
<1>5. /\ r \notin ToDo("clear") /\ r \notin ToDo("clear")'
      /\ ToDo("clear")' \ {r} = ToDo("clear") \ {r}
    BY <1>1, <1>2, <1>4, ChoreMove DEF ToDo
<1>6. ToDo("clear")' = ToDo("clear")
    BY <1>5
<1>7. chore' \in [Uploaders -> Chore] /\ \A o \in Uploaders : chore'[o] \in {chore[o], Idle}
    BY <1>1, <1>2, <1>4
<1>8. QED
    BY <1>1, <1>2, <1>3, <1>6, <1>7, PhotoUnlink

(* A chore that has no other to clear begins or ends.                      *)
LEMMA PhotoChore ==
    ASSUME PhotoInv, NEW r \in Uploaders, NEW d, chore' = [chore EXCEPT ![r] = d], ChoreOK(d),
           d.at # "clear", UNCHANGED <<link, chosen, files, late, lost>>,
           IF chore[r].at = "clear" THEN clash' = TRUE /\ broken' = TRUE ELSE UNCHANGED <<clash, broken>>
    PROVE  PhotoInv'
<1> USE DEF PhotoInv, PhotoTyped
<1>1. d \in Chore /\ chore' \in [Uploaders -> Chore]
    BY DEF ChoreOK
<1>2. /\ chore'[r] = d
      /\ \A o \in Uploaders \ {r} : chore'[o] = chore[o]
      /\ r \notin ToDo("clear")'
      /\ ToDo("clear")' \ {r} = ToDo("clear") \ {r}
    BY ChoreMove
<1>3. \A o \in Uploaders : ChoreOK(chore[o])'
    BY <1>2 DEF ChoreOK
<1>4. Covers' = Covers
    BY DEF Covers
<1>5. CoverInv'
    <2>1. CASE chore[r].at = "clear"
        BY <2>1 DEF CoverInv
    <2>2. CASE chore[r].at # "clear"
        <3>1. ToDo("clear")' = ToDo("clear")
            BY <1>2, <2>2 DEF ToDo
        <3>2. NewCover => NewCover'
            <4> SUFFICES ASSUME NewCover PROVE NewCover'
                OBVIOUS
            <4>1. PICK o \in Uploaders : ToDo("clear") = {o} /\ link[chore[o].file] = "cover"
                BY DEF NewCover
            <4>2. o # r
                BY <2>2, <4>1 DEF ToDo
            <4>3. QED
                BY <1>2, <3>1, <4>1, <4>2 DEF NewCover
        <3>3. QED
            BY <1>4, <2>2, <3>1, <3>2 DEF CoverInv, Rest, OneCover
    <2>3. QED
        BY <2>1, <2>2
<1>6. QED
    BY <1>1, <1>3, <1>5 DEF UsedFileStays

LEMMA PhotoStepInv == PhotoInv /\ [PhotoNext]_photoVars => PhotoInv'
<1> SUFFICES ASSUME PhotoInv, [PhotoNext]_photoVars PROVE PhotoInv'
    OBVIOUS
<1>1. ASSUME NEW r \in Uploaders, NEW f \in Photos, NEW isCover \in BOOLEAN, AddPhoto(r, f, isCover)
      PROVE  PhotoInv'
    BY <1>1, PhotoAdd
<1>2. ASSUME NEW r \in Uploaders, NEW f \in Photos, CheckRemove(r, f) PROVE PhotoInv'
    <2> DEFINE d == [at |-> "delete", file |-> f]
    <2>1. /\ chore[r] = Idle /\ link[f] = "none" /\ chore' = [chore EXCEPT ![r] = d]
          /\ UNCHANGED <<coverVars, files, late, lost>>
        BY <1>2 DEF CheckRemove, NotLinked
    <2>2. chore[r].at # "clear"
        BY <2>1 DEF Idle
    <2>3. ChoreOK(d) /\ d.at # "clear"
        BY <2>1 DEF ChoreOK, Chore
    <2>4. UNCHANGED <<link, chosen, files, late, lost>> /\ UNCHANGED <<clash, broken>>
        BY <2>1 DEF coverVars
    <2> HIDE DEF d
    <2>5. QED
        BY <2>1, <2>2, <2>3, <2>4, PhotoChore
<1>3. ASSUME NEW r \in Uploaders, GiveUpChore(r) PROVE PhotoInv'
    <2>1. /\ chore' = [chore EXCEPT ![r] = Idle] /\ UNCHANGED <<link, chosen, files, late, lost>>
          /\ clash' = (clash \/ chore[r].at = "clear") /\ broken' = (broken \/ chore[r].at = "clear")
        BY <1>3 DEF GiveUpChore
    <2>2. ChoreOK(Idle) /\ Idle.at # "clear"
        BY DEF ChoreOK, Chore, Idle
    <2>3. clash \in BOOLEAN /\ broken \in BOOLEAN
        BY DEF PhotoInv, PhotoTyped
    <2>4. IF chore[r].at = "clear" THEN clash' = TRUE /\ broken' = TRUE ELSE UNCHANGED <<clash, broken>>
        BY <2>1, <2>3
    <2>5. QED
        BY <2>1, <2>2, <2>4, PhotoChore
<1>4. ASSUME NEW r \in Uploaders, ClearOthers(r) PROVE PhotoInv'
    BY <1>4, PhotoClear
<1>5. ASSUME NEW r \in Uploaders, DeleteFile(r) PROVE PhotoInv'
    BY <1>5, PhotoDelete
<1>6. ASSUME NEW f \in Photos, SetCover(f) \/ RemovePhoto(f) PROVE PhotoInv'
    BY <1>6, PhotoSetCover, PhotoRemove
<1>7. CASE UNCHANGED photoVars
    <2>1. UNCHANGED <<link, chosen, clash, broken, files, chore, late, lost>>
        BY <1>7 DEF photoVars, coverVars
    <2>2. PhotoTyped'
        BY <2>1 DEF PhotoInv, PhotoTyped, ChoreOK
    <2>3. QED
        BY <2>1, <2>2 DEF PhotoInv, CoverInv, UsedFileStays, Rest, ToDo, OneCover, Covers, NewCover
<1>8. QED
    BY <1>1, <1>2, <1>3, <1>4, <1>5, <1>6, <1>7 DEF PhotoNext

(* Any number of photos and of requests: one cover at most, the one that   *)
(* was chosen, and no linked photo lost, but for the races that are named. *)
THEOREM PhotosHold == PhotoSpec => [](PhotoTypeOK /\ CoverKept /\ UsedFileStays)
<1>1. QED
    BY PhotoInitInv, PhotoStepInv, PhotoInvSafe, PTL DEF PhotoSpec

-----------------------------------------------------------------------------
(* ReviewAggregates.  Who has written a review has its row to itself until *)
(* the commit, and a rating that was counted is that of the rows then.     *)

ReviewRow == [st : {"none", "ACTIVE", "DELETED"}, rating : Ratings \cup {0}]
Tally == [count : 0..Cardinality(Reviewed), sum : Nat]
Deal == [at : {"none", "read", "wrote", "counted"}, op : {"none", "create", "update", "text", "remove"},
         on : Reviewed \cup {"none"}, new : ReviewRow, prev : Ratings \cup {0}, count : Tally,
         old : BOOLEAN]

Writes(d) == d.at \in {"wrote", "counted"}
With(d) == [review EXCEPT ![d.on] = d.new]

DealOK(d) ==
    /\ d \in Deal
    /\ d.at # "none" => d.on \in Reviewed
    /\ Writes(d) /\ d.op \notin {"create", "remove"} => d.new.st = review[d.on].st
    /\ d.at = "wrote" => Recounts(d)
    /\ d.at = "counted" /\ Recounts(d) /\ ~d.old => d.count = Total(With(d))

OneWriter ==
    \A a \in Authors : \A o \in Authors \ {a} :
        Writes(deal[a]) /\ Writes(deal[o]) => deal[a].on # deal[o].on

ReviewTyped ==
    /\ review \in [Reviewed -> ReviewRow]
    /\ rating \in Tally
    /\ deal \in [Authors -> Deal]
    /\ stale \in BOOLEAN /\ reverted \in BOOLEAN

ReviewInv ==
    /\ ReviewTyped
    /\ \A a \in Authors : DealOK(deal[a])
    /\ OneWriter
    /\ RatingUnlessRaced

LEMMA TotalTyped ==
    ASSUME NEW table \in [Reviewed -> ReviewRow]
    PROVE  Total(table) \in Tally
<1> DEFINE active == {b \in Reviewed : table[b].st = "ACTIVE"}
           rated(v) == Cardinality({b \in active : table[b].rating = v})
<1>1. Cardinality(active) \in 0..Cardinality(Reviewed) /\ IsFiniteSet(active)
    <2>1. active \subseteq Reviewed /\ IsFiniteSet(Reviewed)
        BY ReviewAssumption
    <2>2. IsFiniteSet(active) /\ Cardinality(active) <= Cardinality(Reviewed)
        BY <2>1, FS_Subset
    <2>3. QED
        BY <2>1, <2>2, FS_CardinalityType
<1>2. ASSUME NEW v PROVE rated(v) \in Nat
    <2>1. {b \in active : table[b].rating = v} \subseteq active
        OBVIOUS
    <2>2. QED
        BY <1>1, <2>1, FS_Subset, FS_CardinalityType
<1>3. rated(1) \in Nat /\ rated(2) \in Nat /\ rated(3) \in Nat /\ rated(4) \in Nat /\ rated(5) \in Nat
    BY <1>2
<1>4. Total(table) = [count |-> Cardinality(active),
                      sum |-> rated(1) + 2 * rated(2) + 3 * rated(3) + 4 * rated(4) + 5 * rated(5)]
    BY DEF Total
<1> HIDE DEF active, rated
<1>5. rated(1) + 2 * rated(2) + 3 * rated(3) + 4 * rated(4) + 5 * rated(5) \in Nat
    BY <1>3
<1>6. QED
    BY <1>1, <1>4, <1>5 DEF Tally

LEMMA NoDealIs ==
    /\ NoDeal \in Deal /\ DealOK(NoDeal)
    /\ NoDeal.at = "none"
<1>1. Cardinality(Reviewed) \in Nat
    BY ReviewAssumption, FS_CardinalityType
<1>2. QED
    BY <1>1 DEF NoDeal, Deal, DealOK, Writes, NoReview, ReviewRow, Tally

LEMMA ReviewInitInv == ReviewInit => ReviewInv
<1> SUFFICES ASSUME ReviewInit PROVE ReviewInv
    OBVIOUS
<1>1. review \in [Reviewed -> ReviewRow]
    BY DEF ReviewInit, NoReview, ReviewRow
<1>2. ReviewTyped
    BY <1>1, TotalTyped, NoDealIs DEF ReviewInit, ReviewTyped
<1>3. \A a \in Authors : deal[a] = NoDeal
    BY DEF ReviewInit
<1>4. OneWriter
    BY <1>3, NoDealIs DEF OneWriter, Writes
<1>5. QED
    BY <1>2, <1>3, <1>4, NoDealIs DEF ReviewInv, ReviewInit, RatingUnlessRaced

(* One transaction goes on, and commits nothing.                           *)
LEMMA DealMove ==
    ASSUME ReviewInv, NEW a \in Authors, NEW d, DealOK(d), deal' = [deal EXCEPT ![a] = d],
           Writes(d) => \A o \in Authors \ {a} : Writes(deal[o]) => deal[o].on # d.on,
           UNCHANGED <<review, rating, stale, reverted>>
    PROVE  ReviewInv'
<1>1. /\ deal'[a] = d /\ \A o \in Authors \ {a} : deal'[o] = deal[o]
      /\ deal' \in [Authors -> Deal]
    BY DEF ReviewInv, ReviewTyped, DealOK
<1>2. OneWriter'
    <2> SUFFICES ASSUME NEW p \in Authors, NEW o \in Authors \ {p}, Writes(deal'[p]), Writes(deal'[o])
                 PROVE  deal'[p].on # deal'[o].on
        BY DEF OneWriter, Writes
    <2>1. CASE p = a
        BY <1>1, <2>1
    <2>2. CASE o = a
        BY <1>1, <2>2
    <2>3. CASE p # a /\ o # a
        BY <1>1, <2>3 DEF ReviewInv, OneWriter
    <2>4. QED
        BY <2>1, <2>2, <2>3
<1>3. \A o \in Authors : DealOK(deal[o])'
    <2>1. \A e : DealOK(e) => DealOK(e)'
        BY DEF DealOK, With
    <2>2. \A o \in Authors : DealOK(deal'[o])
        BY <1>1 DEF ReviewInv
    <2>3. QED
        BY <2>1, <2>2 DEF DealOK, With
<1>4. QED
    BY <1>1, <1>2, <1>3 DEF ReviewInv, ReviewTyped, RatingUnlessRaced

LEMMA ReviewAsks ==
    ASSUME ReviewInv, NEW a \in Authors, NEW op \in {"create", "update", "text", "remove"},
           NEW b \in Reviewed, NEW new \in Ratings \cup {0}, Ask(a, op, b, new)
    PROVE  ReviewInv'
<1>1. PICK d : d = [NoDeal EXCEPT !.at = "read", !.op = op, !.on = b, !.prev = review[b].rating,
                                  !.new = [st |-> review[b].st, rating |-> new]]
    OBVIOUS
<1>2. deal' = [deal EXCEPT ![a] = d] /\ UNCHANGED <<review, rating, stale, reverted>>
    BY <1>1 DEF Ask
<1>3. review[b] \in ReviewRow
    BY DEF ReviewInv, ReviewTyped
<1>4. d \in Deal /\ d.at = "read" /\ d.on = b
    BY <1>1, <1>3, NoDealIs DEF Deal, ReviewRow
<1>5. DealOK(d) /\ ~Writes(d)
    BY <1>4 DEF DealOK, Writes
<1>6. QED
    BY <1>2, <1>5, DealMove

LEMMA ReviewWrites ==
    ASSUME ReviewInv, NEW a \in Authors, WriteReview(a)
    PROVE  ReviewInv'
<1>1. PICK row : row = review[deal[a].on]
    OBVIOUS
<1>2. PICK new : new = CASE deal[a].op = "create" -> Created(deal[a])
                         [] deal[a].op = "remove" -> Removed(row)
                         [] OTHER -> Updated(deal[a], row)
    OBVIOUS
<1>3. PICK d : d = [deal[a] EXCEPT !.at = IF Recounts(deal[a]) THEN "wrote" ELSE "counted", !.new = new]
    OBVIOUS
<1>4. /\ deal[a].at = "read" /\ deal' = [deal EXCEPT ![a] = d]
      /\ UNCHANGED <<review, rating, stale, reverted>> /\ ~Locked(a, deal[a].on)
    BY <1>1, <1>2, <1>3 DEF WriteReview
<1>5. deal[a] \in Deal /\ row \in ReviewRow /\ deal[a].on \in Reviewed
    BY <1>1, <1>4 DEF ReviewInv, ReviewTyped, DealOK
<1>6. /\ new \in ReviewRow
      /\ deal[a].op \notin {"create", "remove"} => new.st = row.st /\ new.rating = deal[a].new.rating
    <2>1. CASE deal[a].op = "create"
        BY <1>2, <1>5, <2>1 DEF Created, Deal, ReviewRow
    <2>2. CASE deal[a].op = "remove"
        BY <1>2, <1>5, <2>2 DEF Removed, Deal, ReviewRow
    <2>3. CASE deal[a].op \notin {"create", "remove"}
        <3>1. new = Updated(deal[a], row)
            BY <1>2, <2>3
        <3>2. QED
            BY <1>5, <2>3, <3>1 DEF Updated, Deal, ReviewRow
    <2>4. QED
        BY <2>1, <2>2, <2>3
<1>7. /\ d \in Deal /\ d.on = deal[a].on /\ d.op = deal[a].op /\ d.prev = deal[a].prev /\ d.new = new
      /\ d.at = IF Recounts(deal[a]) THEN "wrote" ELSE "counted"
    BY <1>3, <1>5, <1>6 DEF Deal
<1>8. Recounts(d) <=> Recounts(deal[a])
    BY <1>6, <1>7 DEF Recounts
<1>9. DealOK(d)
    BY <1>1, <1>5, <1>6, <1>7, <1>8 DEF DealOK
<1>10. \A o \in Authors \ {a} : Writes(deal[o]) => deal[o].on # d.on
    BY <1>4, <1>7 DEF Locked, Writes
<1>11. QED
    BY <1>4, <1>9, <1>10, DealMove

LEMMA ReviewCounts ==
    ASSUME ReviewInv, NEW a \in Authors, Count(a)
    PROVE  ReviewInv'
<1>1. PICK total : total = Total(With(deal[a]))
    OBVIOUS
<1>2. PICK d : d = [deal[a] EXCEPT !.at = "counted", !.old = FALSE, !.count = total]
    OBVIOUS
<1>3. /\ deal[a].at = "wrote" /\ deal' = [deal EXCEPT ![a] = d]
      /\ UNCHANGED <<review, rating, stale, reverted>>
    BY <1>1, <1>2 DEF Count, With
<1>4. /\ deal[a] \in Deal /\ deal[a].on \in Reviewed /\ Writes(deal[a])
      /\ deal[a].op \notin {"create", "remove"} => deal[a].new.st = review[deal[a].on].st
    BY <1>3 DEF ReviewInv, ReviewTyped, DealOK, Writes
<1>5. total \in Tally
    <2>1. With(deal[a]) \in [Reviewed -> ReviewRow]
        BY <1>4 DEF With, ReviewInv, ReviewTyped, Deal
    <2>2. QED
        BY <1>1, <2>1, TotalTyped
<1>6. /\ d \in Deal /\ d.on = deal[a].on /\ d.op = deal[a].op /\ d.new = deal[a].new
      /\ d.at = "counted" /\ d.count = total
    BY <1>2, <1>4, <1>5 DEF Deal
<1>7. DealOK(d)
    <2>1. With(d) = With(deal[a])
        BY <1>6 DEF With
    <2>2. QED
        BY <1>1, <1>4, <1>6, <2>1 DEF DealOK
<1>8. \A o \in Authors \ {a} : Writes(deal[o]) => deal[o].on # d.on
    BY <1>4, <1>6 DEF ReviewInv, OneWriter
<1>9. QED
    BY <1>3, <1>7, <1>8, DealMove

LEMMA ReviewCommits ==
    ASSUME ReviewInv, NEW a \in Authors, CommitDeal(a)
    PROVE  ReviewInv'
<1>1. PICK d : d = deal[a]
    OBVIOUS
<1>2. /\ d.at = "counted" /\ review' = With(d) /\ d \in Deal /\ d.on \in Reviewed /\ DealOK(d)
      /\ Writes(d)
    BY <1>1 DEF CommitDeal, With, ReviewInv, ReviewTyped, DealOK, Writes
<1>3. /\ review' \in [Reviewed -> ReviewRow] /\ review'[d.on] = d.new
      /\ \A b \in Reviewed \ {d.on} : review'[b] = review[b]
    BY <1>2 DEF With, ReviewInv, ReviewTyped, Deal
<1>4. ASSUME NEW o \in Authors
      PROVE  /\ deal'[o].at # "none" => o # a
             /\ o = a => deal'[o] = NoDeal
             /\ o # a => deal'[o] = [deal[o] EXCEPT !.old = deal[o].at = "counted" \/ @]
    BY NoDealIs DEF CommitDeal
<1>5. ASSUME NEW o \in Authors \ {a}
      PROVE  /\ deal'[o] \in Deal /\ deal'[o].at = deal[o].at /\ deal'[o].on = deal[o].on
             /\ deal'[o].op = deal[o].op /\ deal'[o].new = deal[o].new /\ deal'[o].prev = deal[o].prev
             /\ deal[o].at = "counted" => deal'[o].old
    <2>1. PICK old \in BOOLEAN : old <=> (deal[o].at = "counted" \/ deal[o].old)
        OBVIOUS
    <2>2. deal[o] \in Deal
        BY DEF ReviewInv, ReviewTyped
    <2>3. deal'[o] = [deal[o] EXCEPT !.old = old]
        <3>1. (deal[o].at = "counted" \/ deal[o].old) = old
            BY <2>1, <2>2 DEF Deal
        <3>2. deal'[o] = [deal[o] EXCEPT !.old = (deal[o].at = "counted" \/ deal[o].old)]
            BY <1>4
        <3>3. QED
            BY <3>1, <3>2
    <2>4. QED
        BY <2>1, <2>2, <2>3 DEF Deal
<1>6. deal' \in [Authors -> Deal]
    <2>1. \A o \in Authors : deal'[o] \in Deal
        BY <1>4, <1>5, NoDealIs
    <2>2. DOMAIN deal' = Authors /\ deal' = [o \in Authors |-> deal'[o]]
        BY DEF CommitDeal
    <2>3. QED
        BY <2>1, <2>2
<1>7. \A o \in Authors : DealOK(deal[o])'
    <2> SUFFICES ASSUME NEW o \in Authors PROVE DealOK(deal[o])'
        OBVIOUS
    <2>1. CASE o = a
        BY <1>4, <1>6, <2>1, NoDealIs DEF DealOK, Writes
    <2>2. CASE o # a
        <3>1. DealOK(deal[o])
            BY DEF ReviewInv
        <3>2. Writes(deal[o]) => deal[o].on # d.on /\ deal[o].on \in Reviewed
            BY <1>1, <1>2, <2>2, <3>1 DEF ReviewInv, OneWriter, DealOK, Writes
        <3>3. Writes(deal[o]) => review'[deal[o].on] = review[deal[o].on]
            BY <1>3, <3>2
        <3>4. Writes(deal'[o]) <=> Writes(deal[o])
            BY <1>5, <2>2 DEF Writes
        <3>5. Recounts(deal'[o]) <=> Recounts(deal[o])
            BY <1>5, <2>2 DEF Recounts
        <3>6. QED
            BY <1>5, <2>2, <3>1, <3>3, <3>4, <3>5 DEF DealOK
    <2>3. QED
        BY <2>1, <2>2
<1>8. OneWriter'
    <2> SUFFICES ASSUME NEW p \in Authors, NEW o \in Authors \ {p}, Writes(deal'[p]), Writes(deal'[o])
                 PROVE  deal'[p].on # deal'[o].on
        BY DEF OneWriter, Writes
    <2>1. p # a /\ o # a
        BY <1>4 DEF Writes
    <2>2. Writes(deal[p]) /\ Writes(deal[o])
        BY <1>5, <2>1 DEF Writes
    <2>3. QED
        BY <1>5, <2>1, <2>2 DEF ReviewInv, OneWriter
<1>9. CASE Recounts(d)
    <2>1. rating' = d.count /\ stale' = d.old /\ reverted' = (reverted /\ d.old)
        BY <1>1, <1>9 DEF CommitDeal
    <2>2. ~d.old => rating' = Total(review')
        BY <1>2, <1>9, <2>1 DEF DealOK
    <2>3. Total(review)' = Total(review')
        BY DEF Total
    <2>4. ReviewTyped'
        BY <1>2, <1>3, <1>6, <2>1 DEF ReviewInv, ReviewTyped, Deal
    <2>5. QED
        BY <1>7, <1>8, <2>1, <2>2, <2>3, <2>4 DEF ReviewInv, RatingUnlessRaced
<1>10. CASE ~Recounts(d)
    <2>1. /\ rating' = rating /\ stale' = stale
          /\ reverted' = (reverted \/ d.new.rating # review[d.on].rating)
        BY <1>1, <1>10 DEF CommitDeal
    <2>2. ReviewTyped'
        BY <1>3, <1>6, <2>1 DEF ReviewInv, ReviewTyped
    <2>3. RatingUnlessRaced'
        <3>1. CASE d.new.rating = review[d.on].rating
            <4>1. d.new.st = review[d.on].st
                BY <1>2, <1>10 DEF DealOK, Recounts
            <4>2. d.new \in ReviewRow /\ review[d.on] \in ReviewRow
                BY <1>2 DEF ReviewInv, ReviewTyped, Deal
            <4>3. d.new = review[d.on]
                BY <3>1, <4>1, <4>2 DEF ReviewRow
            <4>4. review' = review
                BY <1>2, <4>3 DEF With, ReviewInv, ReviewTyped
            <4>5. QED
                BY <2>1, <4>4 DEF ReviewInv, RatingUnlessRaced
        <3>2. CASE d.new.rating # review[d.on].rating
            BY <2>1, <3>2 DEF RatingUnlessRaced
        <3>3. QED
            BY <3>1, <3>2
    <2>4. QED
        BY <1>7, <1>8, <2>2, <2>3 DEF ReviewInv
<1>11. QED
    BY <1>9, <1>10

LEMMA ReviewStepInv == ReviewInv /\ [ReviewNext]_reviewVars => ReviewInv'
<1> SUFFICES ASSUME ReviewInv, [ReviewNext]_reviewVars PROVE ReviewInv'
    OBVIOUS
<1>1. ASSUME NEW a \in Authors, NEW b \in Reviewed, NEW new \in Ratings, AskCreate(a, b, new)
      PROVE  ReviewInv'
    BY <1>1, ReviewAsks DEF AskCreate
<1>2. ASSUME NEW a \in Authors, NEW b \in Reviewed, NEW new \in Ratings, AskUpdate(a, b, new)
      PROVE  ReviewInv'
    <2>1. review[b].rating \in Ratings \cup {0}
        BY DEF ReviewInv, ReviewTyped, ReviewRow
    <2>2. QED
        BY <1>2, <2>1, ReviewAsks DEF AskUpdate
<1>3. ASSUME NEW a \in Authors, NEW b \in Reviewed, AskRemove(a, b) PROVE ReviewInv'
    <2>1. review[b].rating \in Ratings \cup {0}
        BY DEF ReviewInv, ReviewTyped, ReviewRow
    <2>2. QED
        BY <1>3, <2>1, ReviewAsks DEF AskRemove
<1>4. ASSUME NEW a \in Authors, WriteReview(a) PROVE ReviewInv'
    BY <1>4, ReviewWrites
<1>5. ASSUME NEW a \in Authors, Count(a) PROVE ReviewInv'
    BY <1>5, ReviewCounts
<1>6. ASSUME NEW a \in Authors, CommitDeal(a) PROVE ReviewInv'
    BY <1>6, ReviewCommits
<1>7. ASSUME NEW a \in Authors, RollBackDeal(a) PROVE ReviewInv'
    <2>1. deal' = [deal EXCEPT ![a] = NoDeal] /\ UNCHANGED <<review, rating, stale, reverted>>
        BY <1>7 DEF RollBackDeal
    <2>2. DealOK(NoDeal) /\ ~Writes(NoDeal)
        BY NoDealIs DEF Writes
    <2>3. QED
        BY <2>1, <2>2, DealMove
<1>8. CASE UNCHANGED reviewVars
    <2>1. UNCHANGED <<review, rating, deal, stale, reverted>>
        BY <1>8 DEF reviewVars
    <2>2. (\A a \in Authors : DealOK(deal[a]))'
        BY <2>1 DEF ReviewInv, DealOK, With
    <2>3. QED
        BY <2>1, <2>2 DEF ReviewInv, ReviewTyped, OneWriter, Writes, RatingUnlessRaced
<1>9. QED
    BY <1>1, <1>2, <1>3, <1>4, <1>5, <1>6, <1>7, <1>8 DEF ReviewNext

LEMMA ReviewInvSafe == ReviewInv => ReviewTypeOK /\ RatingUnlessRaced
BY DEF ReviewInv, ReviewTyped, ReviewTypeOK, ReviewRow, Tally, Deal

(* Any number of reviews and of requests about them: a property's rating   *)
(* is that of its committed reviews, the two races that are named apart.   *)
THEOREM RatingsHold == ReviewSpec => [](ReviewTypeOK /\ RatingUnlessRaced)
<1>1. QED
    BY ReviewInitInv, ReviewStepInv, ReviewInvSafe, PTL DEF ReviewSpec


-----------------------------------------------------------------------------
(* RiskRules.  A hold that was assessed without the fifth one's ground was *)
(* assessed while there were four rows at most; after that each hold under *)
(* way adds one at most.                                                   *)

QuietBids == {b \in Bids : IsQuiet(b)}
BidRow == [at : {"none", "skipped", "assessed"}, grounds : SUBSET DOMAIN Points,
           level : {"LOW", "MEDIUM", "HIGH"}]
BidOK(q) == q \in BidRow /\ q.level = Level(q.grounds)

RiskInv ==
    /\ guest \in [young : BOOLEAN, failed : BOOLEAN]
    /\ dayRows \in [quiet : Nat, other : 0..MaxOther]
    /\ bid \in [Bids -> BidRow]
    /\ \A b \in Bids : BidOK(bid[b])
    /\ QuietBounded

LEMMA PointsAre ==
    /\ DOMAIN Points = {"new", "holds", "pays", "amount"}
    /\ Points["new"] = 20 /\ Points["holds"] = 25 /\ Points["pays"] = 30 /\ Points["amount"] = 10
BY DEF Points

LEMMA MayAdd ==
    ASSUME NEW S, IsFiniteSet(S), NEW g, g \notin S, NEW G
    PROVE  LET T == IF g \in G THEN S \cup {g} ELSE S
           IN  /\ IsFiniteSet(T)
               /\ Cardinality(T) = Cardinality(S) + IF g \in G THEN 1 ELSE 0
<1>1. Cardinality(S) \in Nat
    BY FS_CardinalityType
<1>2. CASE g \in G
    BY <1>2, FS_AddElement
<1>3. CASE g \notin G
    BY <1>1, <1>3
<1>4. QED
    BY <1>2, <1>3

LEMMA GroundsCount ==
    ASSUME NEW G \in SUBSET DOMAIN Points
    PROVE  Cardinality(G) = (IF "new" \in G THEN 1 ELSE 0) + (IF "holds" \in G THEN 1 ELSE 0)
                          + (IF "pays" \in G THEN 1 ELSE 0) + IF "amount" \in G THEN 1 ELSE 0
<1> DEFINE G1 == IF "new" \in G THEN {} \cup {"new"} ELSE {}
           G2 == IF "holds" \in G THEN G1 \cup {"holds"} ELSE G1
           G3 == IF "pays" \in G THEN G2 \cup {"pays"} ELSE G2
           G4 == IF "amount" \in G THEN G3 \cup {"amount"} ELSE G3
<1>1. IsFiniteSet({}) /\ Cardinality({}) = 0
    BY FS_EmptySet
<1>2. IsFiniteSet(G1) /\ Cardinality(G1) = 0 + IF "new" \in G THEN 1 ELSE 0
    BY <1>1, MayAdd
<1>3. /\ "holds" \notin G1 /\ "pays" \notin G1 /\ "amount" \notin G1
      /\ "pays" \notin G2 /\ "amount" \notin G2 /\ "amount" \notin G3
    OBVIOUS
<1>4. G4 = G
    BY PointsAre
<1> HIDE DEF G1
<1>5. IsFiniteSet(G2) /\ Cardinality(G2) = Cardinality(G1) + IF "holds" \in G THEN 1 ELSE 0
    BY <1>2, <1>3, MayAdd
<1> HIDE DEF G2
<1>6. IsFiniteSet(G3) /\ Cardinality(G3) = Cardinality(G2) + IF "pays" \in G THEN 1 ELSE 0
    BY <1>3, <1>5, MayAdd
<1> HIDE DEF G3
<1>7. Cardinality(G4) = Cardinality(G3) + IF "amount" \in G THEN 1 ELSE 0
    BY <1>3, <1>6, MayAdd
<1> HIDE DEF G4
<1>8. QED
    BY <1>2, <1>4, <1>5, <1>6, <1>7

LEMMA LevelsWeigh ==
    ASSUME NEW G \in SUBSET DOMAIN Points
    PROVE  /\ Level(G) \in {"LOW", "MEDIUM", "HIGH"}
           /\ Level(G) = "HIGH" <=> "pays" \in G /\ Cardinality(G) >= 3
           /\ Level(G) = "MEDIUM" <=> \/ "pays" \in G /\ Cardinality(G) = 2
                                      \/ "pays" \notin G /\ {"new", "holds"} \subseteq G
<1>1. Level(G) =
        LET score == (IF "new" \in G THEN 20 ELSE 0) + (IF "holds" \in G THEN 25 ELSE 0)
                   + (IF "pays" \in G THEN 30 ELSE 0) + (IF "amount" \in G THEN 10 ELSE 0)
        IN  IF score >= 60 THEN "HIGH" ELSE IF score >= 40 THEN "MEDIUM" ELSE "LOW"
    BY PointsAre DEF Level
<1>2. PICK n : n = Cardinality(G)
    OBVIOUS
<1>3. n = (IF "new" \in G THEN 1 ELSE 0) + (IF "holds" \in G THEN 1 ELSE 0)
        + (IF "pays" \in G THEN 1 ELSE 0) + IF "amount" \in G THEN 1 ELSE 0
    BY <1>2, GroundsCount
<1>4. CASE "pays" \in G
    BY <1>1, <1>2, <1>3, <1>4
<1>5. CASE "pays" \notin G
    BY <1>1, <1>2, <1>3, <1>5
<1>6. QED
    BY <1>4, <1>5

LEMMA QuietIs ==
    /\ IsFiniteSet(QuietBids) /\ QuietUnderWay = Cardinality(QuietBids)
    /\ QuietUnderWay \in Nat /\ Cardinality(Bids) \in Nat /\ QuietUnderWay <= Cardinality(Bids)
<1>1. QuietBids \subseteq Bids /\ IsFiniteSet(Bids)
    BY RiskAssumption DEF QuietBids
<1>2. QED
    BY <1>1, FS_Subset, FS_CardinalityType DEF QuietBids, QuietUnderWay

LEMMA QuietNext ==
    /\ QuietUnderWay' = Cardinality(QuietBids')
    /\ QuietUnderWay' \in Nat /\ QuietUnderWay' <= Cardinality(Bids)
<1>1. QuietBids' \subseteq Bids /\ IsFiniteSet(Bids)
    BY RiskAssumption DEF QuietBids
<1>2. QuietUnderWay' = Cardinality(QuietBids')
    BY DEF QuietUnderWay, QuietBids
<1>3. QED
    BY <1>1, <1>2, FS_Subset, FS_CardinalityType

LEMMA NoBidIs == BidOK(NoBid) /\ NoBid.at = "none" /\ NoBid.grounds = {}
BY PointsAre DEF NoBid, BidOK, BidRow, Level

LEMMA RiskInitInv == RiskInit => RiskInv
<1> SUFFICES ASSUME RiskInit PROVE RiskInv
    OBVIOUS
<1>1. \A b \in Bids : bid[b] = NoBid
    BY DEF RiskInit
<1>2. QuietBids = {}
    BY <1>1, NoBidIs DEF QuietBids, IsQuiet
<1>3. QuietUnderWay = 0 /\ Cardinality(Bids) \in Nat /\ dayRows.quiet = 0
    BY <1>2, QuietIs, FS_EmptySet DEF RiskInit
<1>4. QuietBounded
    BY <1>3 DEF QuietBounded, HoldsThreshold
<1>5. bid \in [Bids -> BidRow] /\ \A b \in Bids : BidOK(bid[b])
    BY <1>1, NoBidIs DEF RiskInit, BidOK
<1>6. dayRows \in [quiet : Nat, other : 0..MaxOther]
    BY RiskAssumption DEF RiskInit
<1>7. guest \in [young : BOOLEAN, failed : BOOLEAN]
    BY DEF RiskInit
<1>8. QED
    BY <1>4, <1>5, <1>6, <1>7 DEF RiskInv

(* One hold goes on; it is quiet before, or is after, or neither.          *)
LEMMA BidMove ==
    ASSUME RiskInv, NEW b \in Bids, NEW q, BidOK(q), bid' = [bid EXCEPT ![b] = q]
    PROVE  /\ bid' \in [Bids -> BidRow] /\ \A o \in Bids : BidOK(bid'[o])
           /\ b \in QuietBids' <=> q.at = "assessed" /\ "holds" \notin q.grounds
           /\ QuietBids' \ {b} = QuietBids \ {b}
<1>1. bid'[b] = q /\ \A o \in Bids \ {b} : bid'[o] = bid[o]
    BY DEF RiskInv
<1>2. bid' \in [Bids -> BidRow] /\ \A o \in Bids : BidOK(bid'[o])
    BY <1>1 DEF RiskInv, BidOK
<1>3. \A o \in Bids \ {b} : o \in QuietBids' <=> o \in QuietBids
    BY <1>1 DEF QuietBids, IsQuiet
<1>4. QuietBids' \ {b} = QuietBids \ {b}
    BY <1>3 DEF QuietBids
<1>5. QED
    BY <1>1, <1>2, <1>4 DEF QuietBids, IsQuiet

LEMMA RiskAssess ==
    ASSUME RiskInv, NEW b \in Bids, NEW dear \in BOOLEAN, Assess(b, dear)
    PROVE  RiskInv'
<1>1. PICK G : G = RiskGrounds(dear)
    OBVIOUS
<1>2. PICK q : q = [at |-> "assessed", grounds |-> G, level |-> Level(G)]
    OBVIOUS
<1>3. bid[b].at = "none" /\ bid' = [bid EXCEPT ![b] = q] /\ UNCHANGED <<guest, dayRows>>
    BY <1>1, <1>2 DEF Assess
<1>4. /\ G \in SUBSET DOMAIN Points
      /\ "holds" \in G <=> dayRows.quiet + dayRows.other >= HoldsThreshold
    BY <1>1, PointsAre DEF RiskGrounds
<1>5. BidOK(q)
    BY <1>2, <1>4, LevelsWeigh DEF BidOK, BidRow
<1>6. /\ bid' \in [Bids -> BidRow] /\ \A o \in Bids : BidOK(bid'[o])
      /\ b \in QuietBids' <=> "holds" \notin G
      /\ QuietBids' \ {b} = QuietBids \ {b}
    <2>1. q.at = "assessed" /\ q.grounds = G
        BY <1>2
    <2>2. /\ bid' \in [Bids -> BidRow] /\ \A o \in Bids : BidOK(bid'[o])
          /\ b \in QuietBids' <=> q.at = "assessed" /\ "holds" \notin q.grounds
          /\ QuietBids' \ {b} = QuietBids \ {b}
        BY <1>3, <1>5, BidMove, Zenon
    <2>3. QED
        BY <2>1, <2>2, Zenon
<1>7. b \notin QuietBids
    BY <1>3 DEF QuietBids, IsQuiet
<1>8. QuietUnderWay' \in Nat /\ QuietUnderWay' <= Cardinality(Bids) /\ QuietUnderWay' = Cardinality(QuietBids')
    BY QuietNext
<1>9. QuietBounded'
    <2>1. CASE "holds" \in G
        <3>1. QuietBids' = QuietBids
            BY <1>6, <1>7, <2>1
        <3>2. QED
            BY <1>3, <1>8, <3>1, QuietIs DEF RiskInv, QuietBounded
    <2>2. CASE "holds" \notin G
        <3>1. dayRows.quiet \in Nat /\ dayRows.other \in Nat
            BY DEF RiskInv
        <3>2. dayRows.quiet <= 4
            BY <1>4, <2>2, <3>1 DEF HoldsThreshold
        <3>3. QED
            BY <1>3, <1>8, <3>1, <3>2, QuietIs DEF QuietBounded, HoldsThreshold
    <2>3. QED
        BY <2>1, <2>2
<1>10. QED
    BY <1>3, <1>6, <1>9 DEF RiskInv

(* A hold ends, in a row of its own or in none.                            *)
LEMMA RiskEnds ==
    ASSUME RiskInv, NEW b \in Bids, bid' = [bid EXCEPT ![b] = NoBid], UNCHANGED guest,
           dayRows' \in [quiet : Nat, other : 0..MaxOther],
           dayRows'.quiet <= dayRows.quiet + IF IsQuiet(b) THEN 1 ELSE 0
    PROVE  RiskInv'
<1>1. /\ bid' \in [Bids -> BidRow] /\ \A o \in Bids : BidOK(bid'[o])
      /\ b \notin QuietBids' /\ QuietBids' \ {b} = QuietBids \ {b}
    BY NoBidIs, BidMove
<1>2. QuietBids' = QuietBids \ {b} /\ (b \in QuietBids <=> IsQuiet(b))
    BY <1>1 DEF QuietBids
<1>3. QuietUnderWay' = Cardinality(QuietBids')
    BY QuietNext
<1>4. QuietUnderWay' = QuietUnderWay - IF IsQuiet(b) THEN 1 ELSE 0
    BY <1>2, <1>3, QuietIs, Leaves
<1>5. QuietBounded'
    <2>1. dayRows.quiet \in Nat /\ dayRows'.quiet \in Nat
        BY DEF RiskInv
    <2>2. QED
        BY <1>4, <2>1, QuietIs DEF RiskInv, QuietBounded, HoldsThreshold
<1>6. QED
    BY <1>1, <1>5 DEF RiskInv

(* No hold moves and no row is added to the quiet ones.                    *)
LEMMA RiskRests ==
    ASSUME RiskInv, UNCHANGED bid, guest' \in [young : BOOLEAN, failed : BOOLEAN],
           dayRows' \in [quiet : Nat, other : 0..MaxOther], dayRows'.quiet <= dayRows.quiet
    PROVE  RiskInv'
<1>1. QuietUnderWay' = QuietUnderWay
    BY DEF QuietUnderWay, IsQuiet
<1>2. QuietBounded'
    <2>1. dayRows.quiet \in Nat /\ dayRows'.quiet \in Nat
        BY DEF RiskInv
    <2>2. QED
        BY <1>1, <2>1, QuietIs DEF RiskInv, QuietBounded, HoldsThreshold
<1>3. QED
    BY <1>2 DEF RiskInv, BidOK

LEMMA RiskStepInv == RiskInv /\ [RiskNext]_riskVars => RiskInv'
<1> SUFFICES ASSUME RiskInv, [RiskNext]_riskVars PROVE RiskInv'
    OBVIOUS
<1>1. /\ dayRows \in [quiet : Nat, other : 0..MaxOther] /\ MaxOther \in Nat
      /\ guest \in [young : BOOLEAN, failed : BOOLEAN]
    BY RiskAssumption DEF RiskInv
<1>2. ASSUME NEW b \in Bids, Skip(b) PROVE RiskInv'
    <2>1. PICK q : q = [at |-> "skipped", grounds |-> {}, level |-> "LOW"]
        OBVIOUS
    <2>2. bid[b].at = "none" /\ bid' = [bid EXCEPT ![b] = q] /\ UNCHANGED <<guest, dayRows>>
        BY <1>2, <2>1 DEF Skip
    <2>3. BidOK(q)
        BY <2>1, PointsAre DEF BidOK, BidRow, Level
    <2>4. /\ bid' \in [Bids -> BidRow] /\ \A o \in Bids : BidOK(bid'[o])
          /\ b \notin QuietBids' /\ QuietBids' \ {b} = QuietBids \ {b}
        <3>1. q.at # "assessed"
            BY <2>1
        <3>2. QED
            BY <2>2, <2>3, <3>1, BidMove, Zenon
    <2>5. QuietBids' = QuietBids
        BY <2>2, <2>4 DEF QuietBids, IsQuiet
    <2>6. QuietUnderWay' = Cardinality(QuietBids')
        BY QuietNext
    <2>7. QuietBounded'
        BY <2>2, <2>5, <2>6, QuietIs DEF RiskInv, QuietBounded
    <2>8. QED
        BY <2>2, <2>4, <2>7 DEF RiskInv
<1>3. ASSUME NEW b \in Bids, Place(b) PROVE RiskInv'
    <2>1. bid' = [bid EXCEPT ![b] = NoBid] /\ UNCHANGED guest
        BY <1>3 DEF Place
    <2>2. CASE IsQuiet(b)
        <3>1. dayRows' = [dayRows EXCEPT !.quiet = @ + 1]
            BY <1>3, <2>2 DEF Place
        <3>2. /\ dayRows' \in [quiet : Nat, other : 0..MaxOther]
              /\ dayRows'.quiet <= dayRows.quiet + 1
            BY <1>1, <3>1
        <3>3. dayRows'.quiet <= dayRows.quiet + IF IsQuiet(b) THEN 1 ELSE 0
            BY <2>2, <3>2
        <3>4. QED
            BY <2>1, <3>2, <3>3, RiskEnds
    <2>3. CASE ~IsQuiet(b)
        <3>1. dayRows.other < MaxOther /\ dayRows' = [dayRows EXCEPT !.other = @ + 1]
            BY <1>3, <2>3 DEF Place
        <3>2. /\ dayRows' \in [quiet : Nat, other : 0..MaxOther]
              /\ dayRows'.quiet <= dayRows.quiet + 0
            BY <1>1, <3>1
        <3>3. QED
            BY <2>1, <2>3, <3>2, RiskEnds
    <2>4. QED
        BY <2>2, <2>3
<1>4. ASSUME NEW b \in Bids, LoseBid(b) PROVE RiskInv'
    <2>1. bid' = [bid EXCEPT ![b] = NoBid] /\ UNCHANGED <<guest, dayRows>>
        BY <1>4 DEF LoseBid
    <2>2. dayRows.quiet <= dayRows.quiet + IF IsQuiet(b) THEN 1 ELSE 0
        BY <1>1
    <2>3. QED
        BY <1>1, <2>1, <2>2, RiskEnds
<1>5. ASSUME NEW b \in Bids, NEW dear \in BOOLEAN, Assess(b, dear) PROVE RiskInv'
    BY <1>5, RiskAssess
<1>6. CASE PaymentFails
    <2>1. guest' = [guest EXCEPT !.failed = TRUE] /\ UNCHANGED <<dayRows, bid>>
        BY <1>6 DEF PaymentFails
    <2>2. guest' \in [young : BOOLEAN, failed : BOOLEAN]
        BY <1>1, <2>1
    <2>3. dayRows.quiet <= dayRows.quiet
        BY <1>1
    <2>4. QED
        BY <1>1, <2>1, <2>2, <2>3, RiskRests
<1>7. CASE AccountAges
    <2>1. guest' = [guest EXCEPT !.young = FALSE] /\ UNCHANGED <<dayRows, bid>>
        BY <1>7 DEF AccountAges
    <2>2. guest' \in [young : BOOLEAN, failed : BOOLEAN]
        BY <1>1, <2>1
    <2>3. dayRows.quiet <= dayRows.quiet
        BY <1>1
    <2>4. QED
        BY <1>1, <2>1, <2>2, <2>3, RiskRests
<1>8. CASE FailureAges
    <2>1. guest' = [guest EXCEPT !.failed = FALSE] /\ UNCHANGED <<dayRows, bid>>
        BY <1>8 DEF FailureAges
    <2>2. guest' \in [young : BOOLEAN, failed : BOOLEAN]
        BY <1>1, <2>1
    <2>3. dayRows.quiet <= dayRows.quiet
        BY <1>1
    <2>4. QED
        BY <1>1, <2>1, <2>2, <2>3, RiskRests
<1>9. CASE RowAges
    <2>1. PICK kind \in {"quiet", "other"} :
              dayRows[kind] > 0 /\ dayRows' = [dayRows EXCEPT ![kind] = @ - 1]
        BY <1>9 DEF RowAges
    <2>2. UNCHANGED <<guest, bid>>
        BY <1>9 DEF RowAges
    <2>3. CASE kind = "quiet"
        <3>1. dayRows' = [dayRows EXCEPT !.quiet = @ - 1] /\ dayRows.quiet > 0
            BY <2>1, <2>3
        <3>2. dayRows' \in [quiet : Nat, other : 0..MaxOther] /\ dayRows'.quiet <= dayRows.quiet
            BY <1>1, <3>1
        <3>3. QED
            BY <1>1, <2>2, <3>2, RiskRests
    <2>4. CASE kind = "other"
        <3>1. dayRows' = [dayRows EXCEPT !.other = @ - 1] /\ dayRows.other > 0
            BY <2>1, <2>4
        <3>2. dayRows' \in [quiet : Nat, other : 0..MaxOther] /\ dayRows'.quiet <= dayRows.quiet
            BY <1>1, <3>1
        <3>3. QED
            BY <1>1, <2>2, <3>2, RiskRests
    <2>5. QED
        BY <2>3, <2>4
<1>10. CASE UNCHANGED riskVars
    BY <1>1, <1>10, RiskRests DEF riskVars
<1>11. QED
    BY <1>2, <1>3, <1>4, <1>5, <1>6, <1>7, <1>8, <1>9, <1>10 DEF RiskNext

LEMMA RiskInvSafe == RiskInv => RiskTypeOK /\ LevelWeighs /\ QuietBounded
<1> SUFFICES ASSUME RiskInv PROVE RiskTypeOK /\ LevelWeighs /\ QuietBounded
    OBVIOUS
<1>1. dayRows.quiet \in Nat /\ dayRows.quiet <= HoldsThreshold + Cardinality(Bids)
    BY QuietIs DEF RiskInv, QuietBounded, HoldsThreshold
<1>2. dayRows \in [quiet : 0..(HoldsThreshold + Cardinality(Bids)), other : 0..MaxOther]
    BY <1>1, QuietIs DEF RiskInv, HoldsThreshold
<1>3. LevelWeighs
    <2> SUFFICES ASSUME NEW b \in Bids
                 PROVE  LET G == bid[b].grounds
                        IN  /\ bid[b].level = "HIGH" <=> "pays" \in G /\ Cardinality(G) >= 3
                            /\ bid[b].level = "MEDIUM" <=>
                                  \/ "pays" \in G /\ Cardinality(G) = 2
                                  \/ "pays" \notin G /\ {"new", "holds"} \subseteq G
        BY DEF LevelWeighs
    <2>1. bid[b].grounds \in SUBSET DOMAIN Points /\ bid[b].level = Level(bid[b].grounds)
        BY DEF RiskInv, BidOK, BidRow
    <2>2. QED
        BY <2>1, LevelsWeigh
<1>4. QED
    BY <1>2, <1>3 DEF RiskInv, RiskTypeOK, BidRow

(* Any number of holds under way: the level follows from the grounds, and  *)
(* so many bookings at most are placed without the fifth one's.            *)
THEOREM RisksHold == RiskSpec => [](RiskTypeOK /\ LevelWeighs /\ QuietBounded)
<1>1. QED
    BY RiskInitInv, RiskStepInv, RiskInvSafe, PTL DEF RiskSpec


-----------------------------------------------------------------------------
(* BookingTerms.  As long as a code is not applied, or a booking not       *)
(* cancelled, the last preview that nothing has made void says what it     *)
(* would be worth now.                                                     *)

OfferRow == [on : BOOLEAN, kind : Kinds, value : Offered, born : Offered, least : Least,
             now : {"early", "valid", "over"}]
TermsRow == [status : {"HOLD", "PAID", "REFUNDED"}, discount : SUBSET Int, snapshot : Policies,
             refund : SUBSET Int]
Quoted == [discount : SUBSET Int, refund : SUBSET Int]

TermsTyped ==
    /\ offer \in OfferRow
    /\ offer.value = offer.born \/ offer.value \in 1..100
    /\ policy \in Policies
    /\ terms \in TermsRow
    /\ terms.refund # {} <=> terms.status = "REFUNDED"
    /\ lead \in -1..MaxLead
    /\ quoted \in Quoted
    /\ revisions \in 0..MaxRevisions

QuoteStands ==
    /\ terms.discount = {} /\ quoted.discount # {} => quoted.discount = {Discount}
    /\ terms.refund = {} /\ quoted.refund # {} => quoted.refund = {RefundAmount}

TermsInv == TermsTyped /\ DiscountCapped /\ KeptWord /\ QuoteStands

(* The least of a finite set of integers is the greatest turned round.     *)
LEMMA Smallest ==
    ASSUME NEW S \in SUBSET Int, IsFiniteSet(S), S # {}
    PROVE  Min(S) \in S
<1> DEFINE T == {-x : x \in S}
           f == [x \in S |-> -x]
<1>1. f \in Surjection(S, T)
    BY DEF Surjection
<1>2. T \in SUBSET Int /\ T # {} /\ IsFiniteSet(T)
    <2>1. IsFiniteSet(T)
        BY <1>1, FS_Surjection
    <2>2. \A x \in S : -x \in Int
        OBVIOUS
    <2>3. QED
        BY <2>1, <2>2
<1>3. Max(T) \in T /\ \A x \in T : x <= Max(T)
    BY <1>2, Greatest
<1>4. PICK m \in S : Max(T) = -m
    BY <1>3
<1>5. \A x \in S : -x <= -m
    BY <1>3, <1>4
<1>6. \E x \in S : \A y \in S : x <= y
    BY <1>5
<1>7. QED
    BY <1>6, Zenon DEF Min

LEMMA RulesAre ==
    ASSUME NEW rules \in Policies
    PROVE  /\ DOMAIN rules = 1..Len(rules) /\ Len(rules) \in Nat
           /\ \A i \in DOMAIN rules : rules[i].beforeDays \in Int /\ rules[i].refundPercent \in Int
           /\ Met(rules) \subseteq DOMAIN rules /\ Met(rules) \in SUBSET Int
           /\ IsFiniteSet(Met(rules))
<1>1. rules \in Seq([beforeDays : Int, refundPercent : Int])
    BY TermsAssumption
<1>2. DOMAIN rules = 1..Len(rules) /\ Len(rules) \in Nat
    BY <1>1
<1>3. ASSUME NEW i \in DOMAIN rules PROVE rules[i].beforeDays \in Int /\ rules[i].refundPercent \in Int
    <2>1. PICK Rule : Rule = [beforeDays : Int, refundPercent : Int]
        OBVIOUS
    <2>2. rules \in Seq(Rule) /\ i \in 1..Len(rules)
        BY <1>1, <1>2, <2>1
    <2>3. rules[i] \in Rule
        BY <2>2
    <2>4. QED
        BY <2>1, <2>3
<1>4. Met(rules) \subseteq DOMAIN rules
    BY DEF Met
<1>5. IsFiniteSet(1..Len(rules))
    BY <1>2, FS_Interval
<1>6. IsFiniteSet(Met(rules))
    BY <1>2, <1>4, <1>5, FS_Subset
<1>7. QED
    BY <1>2, <1>3, <1>4, <1>6

(* Of the rules that are met, the one that counts has the most days.       *)
LEMMA RuleCounts ==
    ASSUME NEW rules \in Policies, Met(rules) # {}
    PROVE  \E m \in Met(rules) :
              /\ RefundPercent(rules) = rules[m].refundPercent
              /\ \A j \in Met(rules) : rules[j].beforeDays <= rules[m].beforeDays
<1> DEFINE met == Met(rules)
           days == {rules[i].beforeDays : i \in met}
           f == [i \in met |-> rules[i].beforeDays]
           first == {i \in met : \A j \in met : rules[j].beforeDays <= rules[i].beforeDays}
<1>1. f \in Surjection(met, days)
    BY DEF Surjection
<1>2. IsFiniteSet(days) /\ days \in SUBSET Int /\ days # {}
    BY <1>1, RulesAre, FS_Surjection
<1>3. Max(days) \in days /\ \A d \in days : d <= Max(days)
    BY <1>2, Greatest
<1>4. PICK i \in met : rules[i].beforeDays = Max(days)
    BY <1>3
<1>5. i \in first
    BY <1>3, <1>4
<1>6. first \in SUBSET Int /\ IsFiniteSet(first) /\ first # {}
    BY <1>5, RulesAre, FS_Subset
<1>7. Min(first) \in first
    BY <1>6, Smallest
<1>8. RefundPercent(rules) = rules[Min(first)].refundPercent
    BY DEF RefundPercent
<1> HIDE DEF first
<1>9. PICK m \in first : m = Min(first)
    BY <1>7
<1>10. QED
    BY <1>8, <1>9 DEF first

LEMMA BestIs ==
    ASSUME NEW rules \in Policies, Graded(rules)
    PROVE  RefundPercent(rules) = Max({rules[i].refundPercent : i \in Met(rules)} \cup {0})
<1> DEFINE met == Met(rules)
           percents == {rules[i].refundPercent : i \in met}
           all == percents \cup {0}
           f == [i \in met |-> rules[i].refundPercent]
<1>1. f \in Surjection(met, percents)
    BY DEF Surjection
<1>2. IsFiniteSet(percents)
    BY <1>1, RulesAre, FS_Surjection
<1>3. IsFiniteSet(all) /\ all # {}
    BY <1>2, FS_AddElement
<1>4. all \in SUBSET Int
    BY RulesAre
<1>5. Max(all) \in all /\ \A x \in all : x <= Max(all)
    BY <1>3, <1>4, Greatest
<1>6. RefundPercent(rules) \in all /\ \A x \in all : x <= RefundPercent(rules)
    <2>1. CASE met = {}
        BY <2>1 DEF RefundPercent
    <2>2. CASE met # {}
        <3>1. PICK m \in met : /\ RefundPercent(rules) = rules[m].refundPercent
                               /\ \A j \in met : rules[j].beforeDays <= rules[m].beforeDays
            BY <2>2, RuleCounts
        <3>2. \A i \in met : rules[i].beforeDays \in Int /\ i \in DOMAIN rules
            BY RulesAre
        <3>3. \A j \in met : rules[m].beforeDays >= rules[j].beforeDays
            BY <3>1, <3>2
        <3>4. rules[m].refundPercent >= 0 /\ \A j \in met : rules[m].refundPercent >= rules[j].refundPercent
            BY <3>2, <3>3 DEF Graded
        <3>5. \A j \in met : rules[j].refundPercent \in Int
            BY RulesAre
        <3>6. QED
            BY <3>1, <3>4, <3>5
    <2>3. QED
        BY <2>1, <2>2
<1> HIDE DEF all
<1>7. RefundPercent(rules) <= Max(all) /\ Max(all) <= RefundPercent(rules)
    BY <1>5, <1>6
<1>8. RefundPercent(rules) = Max(all)
    <2>1. RefundPercent(rules) \in Int /\ Max(all) \in Int
        BY <1>4, <1>5, <1>6
    <2>2. QED
        BY <1>7, <2>1
<1>9. QED
    BY <1>8 DEF all

LEMMA Products ==
    ASSUME NEW x \in Nat, NEW y \in Int
    PROVE  x * y \in Int /\ (y >= 0 => x * y >= 0)
OBVIOUS

LEMMA RefundTyped ==
    ASSUME TermsTyped
    PROVE  RefundAmount \in Int
<1>1. terms.snapshot \in Policies
    BY DEF TermsTyped, TermsRow
<1>2. RefundPercent(terms.snapshot) \in Int
    <2>1. CASE Met(terms.snapshot) = {}
        BY <2>1 DEF RefundPercent
    <2>2. CASE Met(terms.snapshot) # {}
        BY <1>1, <2>2, RuleCounts, RulesAre
    <2>3. QED
        BY <2>1, <2>2
<1>3. PICK percent \in Int : percent = RefundPercent(terms.snapshot)
    BY <1>2
<1>4. PICK p \in Int : p = Price * percent
    BY Products, TermsAssumption
<1>5. RefundAmount = p \div 100
    BY <1>3, <1>4 DEF RefundAmount
<1>6. QED
    BY <1>5

LEMMA DiscountIs ==
    ASSUME TermsTyped
    PROVE  Discount \in Int /\ Discount <= Price /\ (Discount < 0 => offer.born < 0)
<1>1. /\ Price \in Nat /\ offer.value \in Int /\ offer.born \in Int
      /\ offer.value < 0 => offer.born < 0
    <2>1. offer.value \in Offered /\ offer.born \in Offered
        BY DEF TermsTyped, OfferRow
    <2>2. offer.value \in Int /\ offer.born \in Int /\ Price \in Nat
        BY <2>1, TermsAssumption
    <2>3. offer.value = offer.born \/ offer.value \in 1..100
        BY DEF TermsTyped
    <2>4. offer.value < 0 => offer.born < 0
        BY <2>2, <2>3
    <2>5. QED
        BY <2>2, <2>4
<1>2. PICK p \in Int : p = Price * offer.value /\ (offer.value >= 0 => p >= 0)
    BY <1>1, Products
<1>3. PICK full : full = IF offer.kind = "PERCENT" THEN p \div 100 ELSE offer.value
    OBVIOUS
<1>4. Discount = IF full > Price THEN Price ELSE full
    BY <1>2, <1>3 DEF Discount
<1>5. full \in Int /\ (offer.value >= 0 => full >= 0)
    BY <1>1, <1>2, <1>3
<1>6. QED
    BY <1>1, <1>4, <1>5

LEMMA TermsInitInv == TermsInit => TermsInv
<1> SUFFICES ASSUME TermsInit PROVE TermsInv
    OBVIOUS
<1>1. terms.discount = {} /\ terms.refund = {} /\ terms.status = "HOLD" /\ terms \in TermsRow
    BY TermsAssumption DEF TermsInit, NoTerms, NoAmount, TermsRow
<1>2. quoted.discount = {} /\ quoted.refund = {} /\ quoted \in Quoted
    BY DEF TermsInit, NoQuote, NoAmount, Quoted
<1>3. offer \in OfferRow /\ offer.value = offer.born
    BY DEF TermsInit, Creatable, OfferRow
<1>4. policy \in Policies /\ lead \in -1..MaxLead /\ revisions \in 0..MaxRevisions
    BY TermsAssumption DEF TermsInit
<1>5. TermsTyped
    BY <1>1, <1>2, <1>3, <1>4 DEF TermsTyped
<1>6. DiscountCapped /\ KeptWord /\ QuoteStands
    BY <1>1, <1>2 DEF DiscountCapped, KeptWord, QuoteStands, NoAmount
<1>7. QED
    BY <1>5, <1>6 DEF TermsInv

(* What the booking has been granted stays, and so does what its worth is  *)
(* made of, or the quote is void.                                          *)
LEMMA TermsRest ==
    ASSUME TermsInv, TermsTyped', offer'.born = offer.born,
           UNCHANGED <<terms.discount, terms.refund>>,
           \/ quoted'.discount = quoted.discount /\ offer'.kind = offer.kind /\ offer'.value = offer.value
           \/ quoted'.discount = IF terms.discount = {} THEN {} ELSE quoted.discount
           \/ terms.discount = {} /\ quoted'.discount = {Discount'},
           \/ quoted'.refund = quoted.refund /\ UNCHANGED <<lead, terms.snapshot>>
           \/ quoted'.refund = IF terms.refund = {} THEN {} ELSE quoted.refund
           \/ terms.refund = {} /\ quoted'.refund = {RefundAmount'}
    PROVE  TermsInv'
<1>1. offer'.kind = offer.kind /\ offer'.value = offer.value => Discount' = Discount
    BY DEF Discount
<1>2. UNCHANGED <<lead, terms.snapshot>> => RefundAmount' = RefundAmount
    BY ZenonT(60) DEF RefundAmount, RefundPercent, Met
<1>3. DiscountCapped'
    BY DEF TermsInv, DiscountCapped
<1>4. KeptWord'
    BY DEF TermsInv, KeptWord, NoAmount
<1>5. QuoteStands'
    <2>1. terms'.discount = {} /\ quoted'.discount # {} => quoted'.discount = {Discount'}
        BY <1>1 DEF TermsInv, QuoteStands
    <2>2. terms'.refund = {} /\ quoted'.refund # {} => quoted'.refund = {RefundAmount'}
        BY <1>2 DEF TermsInv, QuoteStands
    <2>3. QED
        BY <2>1, <2>2 DEF QuoteStands
<1>6. QED
    BY <1>3, <1>4, <1>5 DEF TermsInv

LEMMA TermsStepInv == TermsInv /\ [TermsNext]_termVars => TermsInv'
<1> SUFFICES ASSUME TermsInv, [TermsNext]_termVars PROVE TermsInv'
    OBVIOUS
<1>1. /\ offer \in OfferRow /\ terms \in TermsRow /\ quoted \in Quoted /\ policy \in Policies
      /\ TermsTyped /\ lead \in -1..MaxLead /\ revisions \in 0..MaxRevisions
      /\ MaxRevisions \in Nat /\ MaxLead \in Nat
    BY TermsAssumption DEF TermsInv, TermsTyped
<1>2. Revise => revisions' \in 0..MaxRevisions
    BY <1>1 DEF Revise
<1>3. ASSUME NEW kind \in Kinds, NEW value \in Offered, UpdateOffer(kind, value) PROVE TermsInv'
    <2>1. /\ offer' = [offer EXCEPT !.kind = kind, !.value = value] /\ Revise
          /\ value = offer.value \/ value \in 1..100
          /\ UNCHANGED <<policy, terms, lead>>
        BY <1>3 DEF UpdateOffer
    <2>2. PICK voided : voided = IF terms.discount = {} THEN {} ELSE quoted.discount
        OBVIOUS
    <2>3. quoted' = [quoted EXCEPT !.discount = voided]
        BY <1>3, <2>2 DEF UpdateOffer, NoAmount
    <2>4. voided \in SUBSET Int
        BY <1>1, <2>2 DEF Quoted
    <2>5. quoted' \in Quoted /\ quoted'.discount = voided /\ quoted'.refund = quoted.refund
        BY <1>1, <2>3, <2>4 DEF Quoted
    <2>6. offer' \in OfferRow /\ offer'.born = offer.born /\ offer'.value = value
        BY <1>1, <2>1 DEF OfferRow
    <2>7. TermsTyped'
        BY <1>1, <1>2, <2>1, <2>5, <2>6 DEF TermsTyped
    <2>8. QED
        BY <2>1, <2>2, <2>5, <2>6, <2>7, TermsRest
<1>4. CASE SwitchOffer
    <2>1. PICK on \in BOOLEAN : offer' = [offer EXCEPT !.on = on]
        BY <1>1, <1>4 DEF SwitchOffer
    <2>2. Revise /\ UNCHANGED <<policy, terms, lead, quoted>>
        BY <1>4 DEF SwitchOffer
    <2>3. /\ offer' \in OfferRow /\ offer'.born = offer.born /\ offer'.value = offer.value
          /\ offer'.kind = offer.kind
        BY <1>1, <2>1 DEF OfferRow
    <2>4. TermsTyped'
        BY <1>1, <1>2, <2>2, <2>3 DEF TermsTyped
    <2>5. QED
        BY <2>2, <2>3, <2>4, TermsRest
<1>5. CASE WindowMoves
    <2>1. PICK side \in {"valid", "over"} : offer' = [offer EXCEPT !.now = side]
        BY <1>5 DEF WindowMoves
    <2>2. UNCHANGED <<policy, terms, lead, quoted, revisions>>
        BY <1>5 DEF WindowMoves
    <2>3. /\ offer' \in OfferRow /\ offer'.born = offer.born /\ offer'.value = offer.value
          /\ offer'.kind = offer.kind
        BY <1>1, <2>1 DEF OfferRow
    <2>4. TermsTyped'
        BY <1>1, <2>2, <2>3 DEF TermsTyped
    <2>5. QED
        BY <2>2, <2>3, <2>4, TermsRest
<1>6. CASE PreviewOffer
    <2>1. PICK amount : amount = {Discount}
        OBVIOUS
    <2>2. /\ terms.discount = {} /\ quoted' = [quoted EXCEPT !.discount = amount]
          /\ UNCHANGED <<offer, policy, terms, lead, revisions>>
        BY <1>6, <2>1 DEF PreviewOffer, NoAmount
    <2>3. amount \in SUBSET Int
        BY <1>1, <2>1, DiscountIs
    <2>4. quoted' \in Quoted /\ quoted'.discount = amount /\ quoted'.refund = quoted.refund
        BY <1>1, <2>2, <2>3 DEF Quoted
    <2>5. TermsTyped'
        BY <1>1, <2>2, <2>4 DEF TermsTyped
    <2>6. Discount' = Discount
        BY <2>2 DEF Discount
    <2>7. QED
        BY <2>1, <2>2, <2>4, <2>5, <2>6, TermsRest
<1>7. CASE ApplyOffer
    <2>1. PICK amount : amount = {Discount}
        OBVIOUS
    <2>2. /\ terms.discount = {} /\ terms' = [terms EXCEPT !.discount = amount]
          /\ UNCHANGED <<offer, policy, lead, quoted, revisions>>
        BY <1>7, <2>1 DEF ApplyOffer, NoAmount
    <2>3. amount \in SUBSET Int /\ amount # {}
        BY <1>1, <2>1, DiscountIs
    <2>4. /\ terms' \in TermsRow /\ terms'.discount = amount /\ terms'.refund = terms.refund
          /\ terms'.status = terms.status /\ terms'.snapshot = terms.snapshot
        BY <1>1, <2>2, <2>3 DEF TermsRow
    <2>5. TermsTyped'
        BY <1>1, <2>2, <2>4 DEF TermsTyped
    <2>6. DiscountCapped'
        BY <1>1, <2>1, <2>2, <2>4, DiscountIs DEF DiscountCapped
    <2>7. KeptWord'
        BY <2>1, <2>2, <2>4 DEF TermsInv, KeptWord, QuoteStands, NoAmount
    <2>8. RefundAmount' = RefundAmount
        BY <2>2, <2>4 DEF RefundAmount, RefundPercent, Met
    <2>9. QuoteStands'
        BY <2>2, <2>3, <2>4, <2>8 DEF TermsInv, QuoteStands
    <2>10. QED
        BY <2>5, <2>6, <2>7, <2>9 DEF TermsInv
<1>8. CASE AttachPolicy
    <2>1. PICK voided : voided = IF terms.refund = {} THEN {} ELSE quoted.refund
        OBVIOUS
    <2>2. /\ terms' = [terms EXCEPT !.snapshot = policy] /\ quoted' = [quoted EXCEPT !.refund = voided]
          /\ UNCHANGED <<offer, policy, lead, revisions>>
        BY <1>8, <2>1 DEF AttachPolicy, NoAmount
    <2>3. voided \in SUBSET Int
        BY <1>1, <2>1 DEF Quoted
    <2>4. quoted' \in Quoted /\ quoted'.refund = voided /\ quoted'.discount = quoted.discount
        BY <1>1, <2>2, <2>3 DEF Quoted
    <2>5. /\ terms' \in TermsRow /\ terms'.discount = terms.discount /\ terms'.refund = terms.refund
          /\ terms'.status = terms.status
        BY <1>1, <2>2 DEF TermsRow
    <2>6. TermsTyped'
        BY <1>1, <2>2, <2>4, <2>5 DEF TermsTyped
    <2>7. QED
        BY <2>1, <2>2, <2>4, <2>5, <2>6, TermsRest
<1>9. ASSUME NEW rules \in Policies, EditPolicy(rules) PROVE TermsInv'
    <2>1. Revise /\ policy' = rules /\ UNCHANGED <<offer, terms, lead, quoted>>
        BY <1>9 DEF EditPolicy
    <2>2. TermsTyped'
        BY <1>1, <1>2, <2>1 DEF TermsTyped
    <2>3. QED
        BY <2>1, <2>2, TermsRest
<1>10. CASE PreviewCancel
    <2>1. PICK amount : amount = {RefundAmount}
        OBVIOUS
    <2>2. /\ terms.refund = {} /\ quoted' = [quoted EXCEPT !.refund = amount]
          /\ UNCHANGED <<offer, policy, terms, lead, revisions>>
        BY <1>10, <2>1 DEF PreviewCancel, NoAmount
    <2>3. amount \in SUBSET Int
        BY <1>1, <2>1, RefundTyped
    <2>4. quoted' \in Quoted /\ quoted'.refund = amount /\ quoted'.discount = quoted.discount
        BY <1>1, <2>2, <2>3 DEF Quoted
    <2>5. TermsTyped'
        BY <1>1, <2>2, <2>4 DEF TermsTyped
    <2>6. RefundAmount' = RefundAmount
        BY <2>2 DEF RefundAmount, RefundPercent, Met
    <2>7. QED
        BY <2>1, <2>2, <2>4, <2>5, <2>6, TermsRest
<1>11. CASE PayTerms
    <2>1. /\ terms.status = "HOLD" /\ terms' = [terms EXCEPT !.status = "PAID"]
          /\ UNCHANGED <<offer, policy, lead, quoted, revisions>>
        BY <1>11 DEF PayTerms
    <2>2. /\ terms' \in TermsRow /\ terms'.discount = terms.discount /\ terms'.refund = terms.refund
          /\ terms'.status = "PAID" /\ terms'.snapshot = terms.snapshot
        BY <1>1, <2>1 DEF TermsRow
    <2>3. TermsTyped'
        BY <1>1, <2>1, <2>2 DEF TermsTyped
    <2>4. QED
        BY <2>1, <2>2, <2>3, TermsRest
<1>12. CASE CancelOnTerms
    <2>1. PICK amount : amount = {RefundAmount}
        OBVIOUS
    <2>2. /\ terms.status = "PAID" /\ UNCHANGED <<offer, policy, lead, quoted, revisions>>
          /\ terms' = [terms EXCEPT !.status = "REFUNDED", !.refund = amount]
        BY <1>12, <2>1 DEF CancelOnTerms
    <2>3. amount \in SUBSET Int /\ amount # {} /\ terms.refund = {}
        BY <1>1, <2>1, <2>2, RefundTyped DEF TermsTyped
    <2>4. /\ terms' \in TermsRow /\ terms'.discount = terms.discount /\ terms'.refund = amount
          /\ terms'.status = "REFUNDED"
        BY <1>1, <2>2, <2>3 DEF TermsRow
    <2>5. TermsTyped'
        BY <1>1, <2>2, <2>3, <2>4 DEF TermsTyped
    <2>6. DiscountCapped'
        BY <2>2, <2>4 DEF TermsInv, DiscountCapped
    <2>7. KeptWord'
        BY <2>1, <2>2, <2>3, <2>4 DEF TermsInv, KeptWord, QuoteStands, NoAmount
    <2>8. Discount' = Discount
        BY <2>2 DEF Discount
    <2>9. QuoteStands'
        BY <2>2, <2>3, <2>4, <2>8 DEF TermsInv, QuoteStands
    <2>10. QED
        BY <2>5, <2>6, <2>7, <2>9 DEF TermsInv
<1>13. CASE DayPasses
    <2>1. PICK voided : voided = IF terms.refund = {} THEN {} ELSE quoted.refund
        OBVIOUS
    <2>2. /\ lead > -1 /\ lead' = lead - 1 /\ quoted' = [quoted EXCEPT !.refund = voided]
          /\ UNCHANGED <<offer, policy, terms, revisions>>
        BY <1>13, <2>1 DEF DayPasses, NoAmount
    <2>3. voided \in SUBSET Int /\ lead' \in -1..MaxLead
        BY <1>1, <2>1, <2>2 DEF Quoted
    <2>4. quoted' \in Quoted /\ quoted'.refund = voided /\ quoted'.discount = quoted.discount
        BY <1>1, <2>2, <2>3 DEF Quoted
    <2>5. TermsTyped'
        BY <1>1, <2>2, <2>3, <2>4 DEF TermsTyped
    <2>6. QED
        BY <2>1, <2>2, <2>4, <2>5, TermsRest
<1>14. CASE UNCHANGED termVars
    <2>1. UNCHANGED <<offer, policy, terms, lead, quoted, revisions>>
        BY <1>14 DEF termVars
    <2>2. TermsTyped'
        BY <1>1, <2>1 DEF TermsTyped
    <2>3. QED
        BY <2>1, <2>2, TermsRest
<1>15. QED
    BY <1>3, <1>4, <1>5, <1>6, <1>7, <1>8, <1>9, <1>10, <1>11, <1>12, <1>13, <1>14 DEF TermsNext

LEMMA TermsInvSafe == TermsInv => TermsTypeOK /\ DiscountCapped /\ KeptWord /\ BestRuleCounts
<1> SUFFICES ASSUME TermsInv PROVE TermsTypeOK /\ DiscountCapped /\ KeptWord /\ BestRuleCounts
    OBVIOUS
<1>1. TermsTypeOK
    BY DEF TermsInv, TermsTyped, TermsTypeOK, TermsRow, OfferRow, NoAmount
<1>2. BestRuleCounts
    <2> SUFFICES ASSUME quoted.refund # {}, terms.refund = {}, Graded(terms.snapshot)
                 PROVE  quoted.refund =
                          {(Price * Max({terms.snapshot[i].refundPercent : i \in Met(terms.snapshot)} \cup {0}))
                               \div 100}
        BY DEF BestRuleCounts, NoAmount
    <2>1. quoted.refund = {RefundAmount}
        BY DEF TermsInv, QuoteStands
    <2>2. terms.snapshot \in Policies
        BY DEF TermsInv, TermsTyped, TermsRow
    <2>3. RefundPercent(terms.snapshot) =
              Max({terms.snapshot[i].refundPercent : i \in Met(terms.snapshot)} \cup {0})
        BY <2>2, BestIs
    <2>4. QED
        BY <2>1, <2>3 DEF RefundAmount
<1>3. QED
    BY <1>1, <1>2 DEF TermsInv

(* Any price, promotion and policy: a discount is capped, what a preview   *)
(* said is kept, and of a graded policy the best rule that is met counts.  *)
THEOREM TermsHold == TermsSpec => [](TermsTypeOK /\ DiscountCapped /\ KeptWord /\ BestRuleCounts)
<1>1. QED
    BY TermsInitInv, TermsStepInv, TermsInvSafe, PTL DEF TermsSpec


-----------------------------------------------------------------------------
(* MCRequests.  A step of it is a step of one part, and of the others it   *)
(* changes nothing: a behaviour of it is one of every part, so that each   *)
(* of their invariants holds beside the others.                            *)

requestsVars == <<part, vars, hostVars, lockoutVars, mfaVars, photoVars,
                  chatVars, inboxVars, reviewVars, permVars, accessVars, bucketVars, pipeVars, pageVars,
                  formVars, calendarVars, csrfVars, riskVars, termVars>>

RequestPartsInv ==
    /\ LockoutInv /\ MfaInv /\ PermissionInv /\ AccessInv /\ BucketInv /\ PipeInv /\ ChatInv
    /\ InboxInv /\ PagesInv /\ CalendarInv /\ CsrfInv /\ FormInv /\ HostInv /\ PhotoInv /\ ReviewInv
    /\ RiskInv /\ TermsInv

LEMMA RequestPartsInit ==
    RequestsInit =>
        /\ LockoutInit /\ MfaInit /\ PermissionInit /\ AccessInit /\ BucketInit /\ PipeInit
        /\ ChatInit /\ InboxInit /\ PagesInit /\ CalendarInit /\ CsrfInit /\ FormInit /\ HostInit
        /\ PhotoInit /\ ReviewInit /\ RiskInit /\ TermsInit
BY DEF RequestsInit

LEMMA RequestPartsStep ==
    [RequestsNext]_requestsVars =>
        /\ [LockoutNext]_lockoutVars /\ [MfaNext]_mfaVars /\ [PermissionNext]_permVars
        /\ [AccessNext]_accessVars /\ [BucketNext]_bucketVars /\ [PipeNext]_pipeVars
        /\ [ChatNext]_chatVars /\ [InboxNext]_inboxVars /\ [PagesNext]_pageVars
        /\ [CalendarNext]_calendarVars /\ [CsrfNext]_csrfVars /\ [FormNext]_formVars
        /\ [HostNext]_<<vars, hostVars>> /\ [PhotoNext]_photoVars /\ [ReviewNext]_reviewVars
        /\ [RiskNext]_riskVars /\ [TermsNext]_termVars
<1> SUFFICES ASSUME [RequestsNext]_requestsVars
             PROVE
                /\ [LockoutNext]_lockoutVars /\ [MfaNext]_mfaVars /\ [PermissionNext]_permVars
                /\ [AccessNext]_accessVars /\ [BucketNext]_bucketVars /\ [PipeNext]_pipeVars
                /\ [ChatNext]_chatVars /\ [InboxNext]_inboxVars /\ [PagesNext]_pageVars
                /\ [CalendarNext]_calendarVars /\ [CsrfNext]_csrfVars /\ [FormNext]_formVars
                /\ [HostNext]_<<vars, hostVars>> /\ [PhotoNext]_photoVars /\ [ReviewNext]_reviewVars
                /\ [RiskNext]_riskVars /\ [TermsNext]_termVars
    OBVIOUS
<1>1. CASE UNCHANGED requestsVars
    BY <1>1 DEF requestsVars
<1>2. ASSUME RequestsNext, NEW p \in Parts, p # part PROVE Rests(p)
    BY <1>2 DEF RequestsNext
<1>3. ASSUME RequestsNext
      PROVE
          /\ [LockoutNext]_lockoutVars /\ [MfaNext]_mfaVars /\ [PermissionNext]_permVars
          /\ [AccessNext]_accessVars /\ [BucketNext]_bucketVars /\ [PipeNext]_pipeVars
          /\ [ChatNext]_chatVars /\ [InboxNext]_inboxVars /\ [PagesNext]_pageVars
          /\ [CalendarNext]_calendarVars /\ [CsrfNext]_csrfVars /\ [FormNext]_formVars
          /\ [HostNext]_<<vars, hostVars>> /\ [PhotoNext]_photoVars /\ [ReviewNext]_reviewVars
          /\ [RiskNext]_riskVars /\ [TermsNext]_termVars
    <2>1. [LockoutNext]_lockoutVars
        <3>1. part # "lockout" => Rests("lockout")
            BY <1>2, <1>3 DEF Parts
        <3>2. QED
            BY <1>3, <3>1 DEF RequestsNext, Rests
    <2>2. [MfaNext]_mfaVars
        <3>1. part # "mfa" => Rests("mfa")
            BY <1>2, <1>3 DEF Parts
        <3>2. QED
            BY <1>3, <3>1 DEF RequestsNext, Rests
    <2>3. [PermissionNext]_permVars
        <3>1. part # "permission" => Rests("permission")
            BY <1>2, <1>3 DEF Parts
        <3>2. QED
            BY <1>3, <3>1 DEF RequestsNext, Rests
    <2>4. [AccessNext]_accessVars
        <3>1. part # "access" => Rests("access")
            BY <1>2, <1>3 DEF Parts
        <3>2. QED
            BY <1>3, <3>1 DEF RequestsNext, Rests
    <2>5. [BucketNext]_bucketVars
        <3>1. part # "bucket" => Rests("bucket")
            BY <1>2, <1>3 DEF Parts
        <3>2. QED
            BY <1>3, <3>1 DEF RequestsNext, Rests
    <2>6. [PipeNext]_pipeVars
        <3>1. part # "pipeline" => Rests("pipeline")
            BY <1>2, <1>3 DEF Parts
        <3>2. QED
            BY <1>3, <3>1 DEF RequestsNext, Rests
    <2>7. [ChatNext]_chatVars
        <3>1. part # "chat" => Rests("chat")
            BY <1>2, <1>3 DEF Parts
        <3>2. QED
            BY <1>3, <3>1 DEF RequestsNext, Rests
    <2>8. [InboxNext]_inboxVars
        <3>1. part # "inbox" => Rests("inbox")
            BY <1>2, <1>3 DEF Parts
        <3>2. QED
            BY <1>3, <3>1 DEF RequestsNext, Rests
    <2>9. [PagesNext]_pageVars
        <3>1. part # "pages" => Rests("pages")
            BY <1>2, <1>3 DEF Parts
        <3>2. QED
            BY <1>3, <3>1 DEF RequestsNext, Rests
    <2>10. [CalendarNext]_calendarVars
        <3>1. part # "panel" => Rests("panel")
            BY <1>2, <1>3 DEF Parts
        <3>2. QED
            BY <1>3, <3>1 DEF RequestsNext, Rests
    <2>11. [CsrfNext]_csrfVars
        <3>1. part # "csrf" => Rests("csrf")
            BY <1>2, <1>3 DEF Parts
        <3>2. QED
            BY <1>3, <3>1 DEF RequestsNext, Rests
    <2>12. [FormNext]_formVars
        <3>1. part # "form" => Rests("form")
            BY <1>2, <1>3 DEF Parts
        <3>2. QED
            BY <1>3, <3>1 DEF RequestsNext, Rests
    <2>13. [HostNext]_<<vars, hostVars>>
        <3>1. part # "host" => Rests("host")
            BY <1>2, <1>3 DEF Parts
        <3>2. QED
            BY <1>3, <3>1 DEF RequestsNext, Rests
    <2>14. [PhotoNext]_photoVars
        <3>1. part # "photo" => Rests("photo")
            BY <1>2, <1>3 DEF Parts
        <3>2. QED
            BY <1>3, <3>1 DEF RequestsNext, Rests
    <2>15. [ReviewNext]_reviewVars
        <3>1. part # "review" => Rests("review")
            BY <1>2, <1>3 DEF Parts
        <3>2. QED
            BY <1>3, <3>1 DEF RequestsNext, Rests
    <2>16. [RiskNext]_riskVars
        <3>1. part # "risk" => Rests("risk")
            BY <1>2, <1>3 DEF Parts
        <3>2. QED
            BY <1>3, <3>1 DEF RequestsNext, Rests
    <2>17. [TermsNext]_termVars
        <3>1. part # "terms" => Rests("terms")
            BY <1>2, <1>3 DEF Parts
        <3>2. QED
            BY <1>3, <3>1 DEF RequestsNext, Rests
    <2>18. QED
        BY <2>1, <2>2, <2>3, <2>4, <2>5, <2>6, <2>7, <2>8, <2>9, <2>10, <2>11, <2>12, <2>13, <2>14,
           <2>15, <2>16, <2>17
<1>4. QED
    BY <1>1, <1>3

LEMMA RequestPartsInitInv == RequestsInit => RequestPartsInv
BY RequestPartsInit, LockoutInitInv, MfaInitInv, PermissionInitInv, AccessInitInv, BucketInitInv, PipeInitInv,
   ChatInitInv, InboxInitInv, PagesInitInv, CalendarInitInv, CsrfInitInv, FormInitInv, HostInitInv,
   PhotoInitInv, ReviewInitInv, RiskInitInv, TermsInitInv DEF RequestPartsInv

LEMMA RequestPartsStepInv == RequestPartsInv /\ [RequestsNext]_requestsVars => RequestPartsInv'
BY RequestPartsStep, LockoutStepInv, MfaStepInv, PermissionStepInv, AccessStepInv, BucketStepInv, PipeStepInv,
   ChatStepInv, InboxStepInv, PagesStepInv, CalendarStepInv, CsrfStepInv, FormStepInv, HostStepInv,
   PhotoStepInv, ReviewStepInv, RiskStepInv, TermsStepInv DEF RequestPartsInv

(* A behaviour of MCRequests is, for each of these parts, one of that      *)
(* part: what is proved of a part's specification holds here as well.      *)
THEOREM RequestPartsImplemented ==
    RequestsSpec =>
        /\ LockoutSpec /\ MfaSpec /\ PermissionSpec /\ AccessSpec /\ BucketSpec /\ PipeSpec
        /\ ChatSpec /\ InboxSpec /\ PagesSpec /\ CalendarSpec /\ CsrfSpec /\ FormSpec /\ HostSpec
        /\ PhotoSpec /\ ReviewSpec /\ RiskSpec /\ TermsSpec
BY RequestPartsInit, RequestPartsStep, PTL
   DEF RequestsSpec, requestsVars, LockoutSpec, MfaSpec, PermissionSpec, AccessSpec, BucketSpec, PipeSpec, ChatSpec, InboxSpec,
       PagesSpec, CalendarSpec, CsrfSpec, FormSpec, HostSpec, PhotoSpec, ReviewSpec, RiskSpec,
       TermsSpec

(* Sign-in: any number of requests that race each other's counters, tabs   *)
(* that confirm and codes that come twice.                                 *)
THEOREM SignInHolds == RequestsSpec => []SignInSafe
<1>1. RequestPartsInv => SignInSafe
    BY LockoutInvSafe, MfaInvSafe DEF RequestPartsInv, SignInSafe
<1>2. QED
    BY <1>1, RequestPartsInitInv, RequestPartsStepInv, PTL DEF RequestsSpec, requestsVars

(* The guards and the filter: for any number of requests, servers, roles   *)
(* and rules that change under them.                                       *)
THEOREM GuardsHold == RequestsSpec => []GuardsSafe
<1>1. RequestPartsInv => GuardsSafe
    BY PermissionInvSafe, AccessInvSafe, BucketInvSafe, PipeInvSafe DEF RequestPartsInv, GuardsSafe
<1>2. QED
    BY <1>1, RequestPartsInitInv, RequestPartsStepInv, PTL DEF RequestsSpec, requestsVars

(* The chat and its list: any number of members, readers and moves.        *)
THEOREM ChatHolds == RequestsSpec => []ChatSafe
<1>1. RequestPartsInv => ChatSafe
    BY ChatInvSafe, InboxInvSafe DEF RequestPartsInv, ChatSafe
<1>2. QED
    BY <1>1, RequestPartsInitInv, RequestPartsStepInv, PTL DEF RequestsSpec, requestsVars

(* What the pages say and send: any number of bookings, tabs and requests. *)
THEOREM PagesHold == RequestsSpec => []PagesHonest
<1>1. RequestPartsInv => PagesHonest
    BY PagesInvSafe, CalendarInvSafe, CsrfInvSafe DEF RequestPartsInv, PagesHonest
<1>2. QED
    BY <1>1, RequestPartsInitInv, RequestPartsStepInv, PTL DEF RequestsSpec, requestsVars

(* The host's calendar: any number of pages, nights and bookings.          *)
THEOREM HostHolds == RequestsSpec => []HostSafe
<1>1. RequestPartsInv => HostSafe
    BY HostInvSafe DEF RequestPartsInv, HostSafe
<1>2. QED
    BY <1>1, RequestPartsInitInv, RequestPartsStepInv, PTL DEF RequestsSpec, requestsVars

(* A night that is blocked is not sold again.                              *)
THEOREM BlockedHold == RequestsSpec => BlockedStaysUnsold
BY RequestPartsImplemented, BlockedUnsold

(* What guests see and are offered: any number of photos, reviews, holds   *)
(* and of the requests about them, and any price, promotion and policy.    *)
THEOREM ListingHolds == RequestsSpec => []ListingSafe
<1>1. RequestPartsInv => ListingSafe
    BY PhotoInvSafe, ReviewInvSafe, RiskInvSafe, TermsInvSafe DEF RequestPartsInv, ListingSafe
<1>2. QED
    BY <1>1, RequestPartsInitInv, RequestPartsStepInv, PTL DEF RequestsSpec, requestsVars

(* The form of the property page, in any number of tabs.                   *)
THEOREM SavesHold == RequestsSpec => SavesOnlyTyped
BY RequestPartsImplemented, FormsKeep
=============================================================================
