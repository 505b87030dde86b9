----------------------- MODULE BookingInventoryProofs -----------------------
(***************************************************************************)
(* Proofs about BookingInventory: its type invariant, the agreement of the *)
(* booking and its fraud assessment, and the count of the nights.          *)
(***************************************************************************)
EXTENDS BookingInventory, FiniteSetTheorems, TLAPS

(* The handlers of a booking are given a name each, so that a proof about  *)
(* a step is a proof about one of them.                                    *)
LEMMA StepCases ==
    ASSUME [Next]_vars, inFlight \subseteq Request
    PROVE  \/ \E b \in Bookings, nights \in Stays : HoldAutoDeclined(b, nights)
           \/ \E b \in Bookings, nights \in Stays,
                 risk \in {"LOW", "MEDIUM", "HIGH"} : Hold(b, nights, risk)
           \/ \E b \in Bookings : DeadlinePasses(b)
           \/ \E b \in Bookings, topic \in {"booking.cancelled", "booking.expired"} :
                 Withdraw(b, topic)
           \/ \E req \in Request : ReadReview(req)
           \/ \E req \in Request : req \in inFlight /\ Approve(req)
           \/ \E req \in Request : req \in inFlight /\ Decline(req)
           \/ \E req \in Request : req \in inFlight /\ DecideApproved(req)
           \/ \E req \in Request : req \in inFlight /\ DecideRejected(req)
           \/ \E req \in Request : req \in inFlight /\ RollBack(req)
           \/ UNCHANGED vars
  <1>1. CASE UNCHANGED vars
    BY <1>1
  <1>2. CASE \E b \in Bookings :
                \/ \E nights \in Stays :
                      \/ HoldAutoDeclined(b, nights)
                      \/ \E risk \in {"LOW", "MEDIUM", "HIGH"} : Hold(b, nights, risk)
                \/ CancelHold(b)
                \/ DeadlinePasses(b)
                \/ ExpireHold(b)
    BY <1>2 DEF CancelHold, ExpireHold
  <1>3. CASE \E req \in Request : ReadReview(req)
    BY <1>3
  <1>4. CASE \E req \in inFlight :
                \/ Approve(req)
                \/ Decline(req)
                \/ DecideApproved(req)
                \/ DecideRejected(req)
                \/ RollBack(req)
    BY <1>4
  <1>5. QED
    BY <1>1, <1>2, <1>3, <1>4 DEF Next

-----------------------------------------------------------------------------
(* Type correctness: in particular no night is ever sold below zero.       *)

LEMMA TypeInit == Init => TypeOK
  BY ConstantsAssumption DEF Init, TypeOK, Status, Decision, Topic

LEMMA TypeStep == TypeOK /\ [Next]_vars => TypeOK'
  <1> SUFFICES ASSUME TypeOK, [Next]_vars
               PROVE  TypeOK'
    OBVIOUS
  <1> USE DEF TypeOK
  <1>1. ASSUME NEW b \in Bookings, NEW nights \in Stays, HoldAutoDeclined(b, nights)
        PROVE  TypeOK'
    BY <1>1, ConstantsAssumption DEF HoldAutoDeclined, Emit, Status, Decision, Topic
  <1>2. ASSUME NEW b \in Bookings, NEW nights \in Stays,
               NEW risk \in {"LOW", "MEDIUM", "HIGH"}, Hold(b, nights, risk)
        PROVE  TypeOK'
    <2>1. remaining' \in [Days -> Nat]
      BY <1>2, ConstantsAssumption DEF Hold, Available, TakeNights
    <2>2. QED
      BY <1>2, <2>1, ConstantsAssumption DEF Hold, Emit, Status, Decision, Topic
  <1>3. ASSUME NEW b \in Bookings, DeadlinePasses(b)
        PROVE  TypeOK'
    BY <1>3 DEF DeadlinePasses
  <1>4. ASSUME NEW b \in Bookings,
               NEW topic \in {"booking.cancelled", "booking.expired"}, Withdraw(b, topic)
        PROVE  TypeOK'
    <2>1. remaining' \in [Days -> Nat]
      BY <1>4 DEF Withdraw, CreditNights
    <2>2. QED
      BY <1>4, <2>1 DEF Withdraw, Emit, Status, Topic
  <1>5. ASSUME NEW req \in Request, ReadReview(req)
        PROVE  TypeOK'
    BY <1>5 DEF ReadReview
  <1>6. ASSUME NEW req \in Request, Approve(req)
        PROVE  TypeOK'
    BY <1>6 DEF Approve, CommitReview, Emit, Status, Decision, Topic, Request
  <1>7. ASSUME NEW req \in Request, Decline(req)
        PROVE  TypeOK'
    <2>1. remaining' \in [Days -> Nat]
      BY <1>7 DEF Decline, CreditNights
    <2>2. QED
      BY <1>7, <2>1 DEF Decline, CommitReview, Emit, Status, Decision, Topic, Request
  <1>8. ASSUME NEW req \in Request, DecideApproved(req)
        PROVE  TypeOK'
    BY <1>8 DEF DecideApproved, CommitReview, Emit, Status, Decision, Topic, Request
  <1>9. ASSUME NEW req \in Request, DecideRejected(req)
        PROVE  TypeOK'
    <2>1. remaining' \in [Days -> Nat]
      BY <1>9 DEF DecideRejected, CreditNights
    <2>2. QED
      BY <1>9, <2>1 DEF DecideRejected, CommitReview, Emit, Status, Decision, Topic,
                        Request
  <1>10. ASSUME NEW req \in Request, RollBack(req)
         PROVE  TypeOK'
    BY <1>10 DEF RollBack
  <1>11. CASE UNCHANGED vars
    BY <1>11 DEF vars
  <1>12. QED
    BY StepCases, <1>1, <1>2, <1>3, <1>4, <1>5, <1>6, <1>7, <1>8, <1>9, <1>10, <1>11

(* For every calendar, guest and reviewer: the rows keep their types, and  *)
(* AvailabilityDay.remaining is never negative, so hold never sells more   *)
(* of a night than what is left of it.                                     *)
THEOREM TypeCorrect == Spec => []TypeOK
  BY TypeInit, TypeStep, PTL DEF Spec

-----------------------------------------------------------------------------
(* The two rows a reviewer writes.                                         *)

(* A request of the fraud console comes from a fraud reviewer.             *)
LEMMA DecideBy ==
    ASSUME NEW req \in Request, req.op \in {"decideApproved", "decideRejected"}
    PROVE  FraudReviewers # {}
  BY DEF Request, OpsOf, Reviewers

LEMMA VerdictStep ==
    TypeOK /\ VerdictMatchesStatus /\ [Next]_vars => VerdictMatchesStatus'
  <1> SUFFICES ASSUME TypeOK, VerdictMatchesStatus, [Next]_vars
               PROVE  VerdictMatchesStatus'
    OBVIOUS
  <1> USE DEF TypeOK, VerdictMatchesStatus
  <1>1. ASSUME NEW b \in Bookings, NEW nights \in Stays, HoldAutoDeclined(b, nights)
        PROVE  VerdictMatchesStatus'
    BY <1>1 DEF HoldAutoDeclined
  <1>2. ASSUME NEW b \in Bookings, NEW nights \in Stays,
               NEW risk \in {"LOW", "MEDIUM", "HIGH"}, Hold(b, nights, risk)
        PROVE  VerdictMatchesStatus'
    BY <1>2 DEF Hold
  <1>3. ASSUME NEW b \in Bookings, DeadlinePasses(b)
        PROVE  VerdictMatchesStatus'
    BY <1>3 DEF DeadlinePasses
  <1>4. ASSUME NEW b \in Bookings,
               NEW topic \in {"booking.cancelled", "booking.expired"}, Withdraw(b, topic)
        PROVE  VerdictMatchesStatus'
    BY <1>4 DEF Withdraw, Pending
  <1>5. ASSUME NEW req \in Request, ReadReview(req)
        PROVE  VerdictMatchesStatus'
    BY <1>5 DEF ReadReview
  <1>6. ASSUME NEW req \in Request, Approve(req)
        PROVE  VerdictMatchesStatus'
    BY <1>6 DEF Approve, CommitReview, Request
  <1>7. ASSUME NEW req \in Request, Decline(req)
        PROVE  VerdictMatchesStatus'
    BY <1>7 DEF Decline, CommitReview, Request
  <1>8. ASSUME NEW req \in Request, DecideApproved(req)
        PROVE  VerdictMatchesStatus'
    BY <1>8 DEF DecideApproved, CommitReview, Request
  <1>9. ASSUME NEW req \in Request, DecideRejected(req)
        PROVE  VerdictMatchesStatus'
    BY <1>9 DEF DecideRejected, CommitReview, Request
  <1>10. ASSUME NEW req \in Request, RollBack(req)
         PROVE  VerdictMatchesStatus'
    BY <1>10 DEF RollBack
  <1>11. CASE UNCHANGED vars
    BY <1>11 DEF vars
  <1>12. QED
    BY StepCases, <1>1, <1>2, <1>3, <1>4, <1>5, <1>6, <1>7, <1>8, <1>9, <1>10, <1>11

(* For any number of reviewers of both consoles, racing one another and    *)
(* the expiry job: the booking and its assessment never contradict.        *)
THEOREM VerdictsMatch == Spec => []VerdictMatchesStatus
  <1>1. Init => VerdictMatchesStatus
    BY DEF Init, VerdictMatchesStatus
  <1>2. QED
    BY <1>1, VerdictStep, TypeCorrect, PTL DEF Spec

-----------------------------------------------------------------------------
(* Deadlines.                                                              *)

LEMMA DeadlineStep ==
    ASSUME TypeOK, HoldHasDeadline, [Next]_vars
    PROVE  HoldHasDeadline'
  <1> USE DEF TypeOK, HoldHasDeadline, Pending
  <1>1. ASSUME NEW b \in Bookings, NEW nights \in Stays, HoldAutoDeclined(b, nights)
        PROVE  HoldHasDeadline'
    BY <1>1 DEF HoldAutoDeclined
  <1>2. ASSUME NEW b \in Bookings, NEW nights \in Stays,
               NEW risk \in {"LOW", "MEDIUM", "HIGH"}, Hold(b, nights, risk)
        PROVE  HoldHasDeadline'
    BY <1>2 DEF Hold
  <1>3. ASSUME NEW b \in Bookings, DeadlinePasses(b)
        PROVE  HoldHasDeadline'
    BY <1>3 DEF DeadlinePasses
  <1>4. ASSUME NEW b \in Bookings,
               NEW topic \in {"booking.cancelled", "booking.expired"}, Withdraw(b, topic)
        PROVE  HoldHasDeadline'
    BY <1>4 DEF Withdraw
  <1>5. ASSUME NEW req \in Request, ReadReview(req) \/ RollBack(req)
        PROVE  HoldHasDeadline'
    BY <1>5 DEF ReadReview, RollBack
  <1>6. ASSUME NEW req \in Request, Approve(req) \/ Decline(req)
        PROVE  HoldHasDeadline'
    BY <1>6 DEF Approve, Decline, CommitReview
  <1>7. ASSUME NEW req \in Request, DecideApproved(req) \/ DecideRejected(req)
        PROVE  HoldHasDeadline'
    BY <1>7, DecideBy DEF DecideApproved, DecideRejected, CommitReview
  <1>8. CASE UNCHANGED vars
    BY <1>8 DEF vars
  <1>9. QED
    BY StepCases, <1>1, <1>2, <1>3, <1>4, <1>5, <1>6, <1>7, <1>8

(* Whatever reviewers and guests race with, every HOLD or REVIEW row       *)
(* carries the deadline by which expireHolds will find it, unless the      *)
(* fraud console wrote over a confirmed booking.                           *)
THEOREM HoldsHaveDeadlines == Spec => []HoldHasDeadline
  <1>1. Init => HoldHasDeadline
    BY DEF Init, HoldHasDeadline, Pending
  <1>2. TypeOK /\ HoldHasDeadline /\ [Next]_vars => HoldHasDeadline'
    BY DeadlineStep
  <1>3. QED
    BY <1>1, <1>2, TypeCorrect, PTL DEF Spec

-----------------------------------------------------------------------------
(* The nights.  Nights(d) counts what is left of night d and what is taken *)
(* of it; every step keeps it, except that a stale write may add to it,    *)
(* until FraudService.decide rejects.                                      *)

Nights(d) == remaining[d] + Cardinality(Holders(d))

LEMMA HoldersFinite ==
    ASSUME NEW d \in Days
    PROVE  /\ IsFiniteSet(Holders(d))
           /\ Cardinality(Holders(d)) \in Nat
  <1>1. Holders(d) \in SUBSET Bookings
    BY DEF Holders
  <1>2. QED
    BY <1>1, ConstantsAssumption, FS_Subset, FS_CardinalityType

(* One element more or less changes a cardinality by one at most.          *)
LEMMA OneMore ==
    ASSUME NEW S, IsFiniteSet(S), NEW x
    PROVE  /\ Cardinality(S \cup {x}) \in Nat
           /\ Cardinality(S \cup {x}) >= Cardinality(S)
           /\ x \notin S => Cardinality(S \cup {x}) = Cardinality(S) + 1
  <1>1. Cardinality(S) \in Nat
    BY FS_CardinalityType
  <1>2. Cardinality(S \cup {x}) = IF x \in S THEN Cardinality(S) ELSE Cardinality(S) + 1
    BY FS_AddElement
  <1>3. QED
    BY <1>1, <1>2

LEMMA OneLess ==
    ASSUME NEW S, IsFiniteSet(S), NEW x
    PROVE  /\ Cardinality(S \ {x}) \in Nat
           /\ Cardinality(S \ {x}) >= Cardinality(S) - 1
           /\ x \in S => Cardinality(S \ {x}) = Cardinality(S) - 1
  <1>1. Cardinality(S) \in Nat
    BY FS_CardinalityType
  <1>2. Cardinality(S \ {x}) = IF x \in S THEN Cardinality(S) - 1 ELSE Cardinality(S)
    BY FS_RemoveElement
  <1>3. IsFiniteSet(S \ {x})
    BY FS_RemoveElement
  <1>4. Cardinality(S \ {x}) \in Nat
    BY <1>3, FS_CardinalityType
  <1>5. QED
    BY <1>1, <1>2, <1>4

(* What a night counts after a booking joined it or left it.               *)
LEMMA JoinNight ==
    ASSUME NEW d \in Days, NEW b \in Bookings, TypeOK, TypeOK',
           Holders(d)' = Holders(d) \cup {b}
    PROVE  /\ remaining'[d] = remaining[d] => Nights(d)' >= Nights(d)
           /\ (b \notin Holders(d) /\ remaining'[d] = remaining[d] - 1)
                  => Nights(d)' = Nights(d)
  <1>1. /\ Cardinality(Holders(d)') \in Nat
        /\ Cardinality(Holders(d)') >= Cardinality(Holders(d))
        /\ b \notin Holders(d) => Cardinality(Holders(d)') = Cardinality(Holders(d)) + 1
    BY HoldersFinite, OneMore
  <1>2. Nights(d)' = remaining'[d] + Cardinality(Holders(d)')
    BY DEF Nights
  <1>3. QED
    BY <1>1, <1>2, HoldersFinite DEF Nights, TypeOK

LEMMA LeaveNight ==
    ASSUME NEW d \in Days, NEW b \in Bookings, TypeOK, TypeOK',
           Holders(d)' = Holders(d) \ {b}, remaining'[d] = remaining[d] + 1
    PROVE  /\ Nights(d)' >= Nights(d)
           /\ b \in Holders(d) => Nights(d)' = Nights(d)
  <1>1. /\ Cardinality(Holders(d)') \in Nat
        /\ Cardinality(Holders(d)') >= Cardinality(Holders(d)) - 1
        /\ b \in Holders(d) => Cardinality(Holders(d)') = Cardinality(Holders(d)) - 1
    BY HoldersFinite, OneLess
  <1>2. Nights(d)' = remaining'[d] + Cardinality(Holders(d)')
    BY DEF Nights
  <1>3. QED
    BY <1>1, <1>2, HoldersFinite DEF Nights, TypeOK

LEMMA SameNight ==
    ASSUME NEW d \in Days, TypeOK, Holders(d)' = Holders(d), remaining'[d] = remaining[d]
    PROVE  Nights(d)' = Nights(d) /\ Nights(d)' >= Nights(d)
  BY HoldersFinite DEF Nights, TypeOK

(* What has been emitted stays so, and a rejection leaves its mark.        *)
LEMMA RejectionStep ==
    ASSUME TypeOK, [Next]_vars, ~FraudRejected'
    PROVE  /\ ~FraudRejected
           /\ \A req \in Request : ~DecideRejected(req)
  <1> USE DEF TypeOK
  <1>1. \A b \in Bookings : emitted[b] \subseteq emitted'[b]
    <2>1. ASSUME NEW b \in Bookings, NEW topics, Emit(b, topics)
          PROVE  \A c \in Bookings : emitted[c] \subseteq emitted'[c]
      BY <2>1 DEF Emit
    <2>2. ASSUME NEW b \in Bookings, NEW nights \in Stays, HoldAutoDeclined(b, nights)
          PROVE  \E topics : Emit(b, topics)
      BY <2>2 DEF HoldAutoDeclined
    <2>3. ASSUME NEW b \in Bookings, NEW nights \in Stays,
                 NEW risk \in {"LOW", "MEDIUM", "HIGH"}, Hold(b, nights, risk)
          PROVE  \E topics : Emit(b, topics)
      BY <2>3 DEF Hold
    <2>4. ASSUME NEW b \in Bookings,
                 NEW topic \in {"booking.cancelled", "booking.expired"}, Withdraw(b, topic)
          PROVE  \E topics : Emit(b, topics)
      BY <2>4 DEF Withdraw
    <2>5. ASSUME NEW req \in Request,
                 \/ Approve(req) \/ Decline(req)
                 \/ DecideApproved(req) \/ DecideRejected(req)
          PROVE  req.booking \in Bookings /\ \E topics : Emit(req.booking, topics)
      BY <2>5 DEF Approve, Decline, DecideApproved, DecideRejected, CommitReview, Request
    <2>6. ASSUME NEW b \in Bookings, DeadlinePasses(b)
          PROVE  emitted' = emitted
      BY <2>6 DEF DeadlinePasses
    <2>7. ASSUME NEW req \in Request, ReadReview(req) \/ RollBack(req)
          PROVE  emitted' = emitted
      BY <2>7 DEF ReadReview, RollBack
    <2>8. UNCHANGED vars => emitted' = emitted
      BY DEF vars
    <2>9. (\E b \in Bookings : \E topics : Emit(b, topics)) \/ emitted' = emitted
      BY StepCases, <2>2, <2>3, <2>4, <2>5, <2>6, <2>7, <2>8, Zenon
    <2>10. QED
      BY <2>1, <2>9
  <1>2. ASSUME NEW req \in Request, DecideRejected(req)
        PROVE  FALSE
    <2>1. req.booking \in Bookings /\ "booking.review_rejected" \in emitted'[req.booking]
      BY <1>2 DEF DecideRejected, CommitReview, Emit, Request
    <2>2. QED
      BY <2>1 DEF FraudRejected
  <1>3. QED
    BY <1>1, <1>2 DEF FraudRejected

(* A review that writes a status that occupies the nights, and no night:   *)
(* it changes the count only by reviving what had given its nights back.   *)
LEMMA ReviveNight ==
    ASSUME TypeOK, TypeOK', NEW d \in Days, NEW req \in Request,
           NEW newStatus \in {"HOLD", "CONFIRMED"}, NEW decision, NEW topic,
           CommitReview(req, newStatus, decision, topic), remaining' = remaining
    PROVE  /\ Nights(d)' >= Nights(d)
           /\ ~staleWrite' => (~staleWrite /\ Nights(d)' = Nights(d))
  <1> USE DEF TypeOK
  <1>1. req.booking \in Bookings /\ remaining'[d] = remaining[d]
    BY DEF Request
  <1>2. CASE status[req.booking] = "REVIEW"
    <2>1. Holders(d)' = Holders(d)
      BY <1>1, <1>2 DEF CommitReview, Holders, Occupying
    <2>2. staleWrite' = staleWrite
      BY <1>2 DEF CommitReview
    <2>3. QED
      BY <1>1, <2>1, <2>2, SameNight
  <1>3. CASE status[req.booking] # "REVIEW"
    <2>1. staleWrite'
      BY <1>3 DEF CommitReview
    <2>2. CASE d \in stay[req.booking]
      <3>1. Holders(d)' = Holders(d) \cup {req.booking}
        BY <1>1, <2>2 DEF CommitReview, Holders, Occupying
      <3>2. QED
        BY <1>1, <2>1, <3>1, JoinNight
    <2>3. CASE d \notin stay[req.booking]
      <3>1. Holders(d)' = Holders(d)
        BY <1>1, <2>3 DEF CommitReview, Holders, Occupying
      <3>2. QED
        BY <1>1, <2>1, <3>1, SameNight
    <2>4. QED
      BY <2>2, <2>3
  <1>4. QED
    BY <1>2, <1>3

(* The step lemma: without a rejection by FraudService.decide, no step     *)
(* lowers the count of a night, and a step changes it only by leaving a    *)
(* stale write behind.                                                     *)
LEMMA NightsStep ==
    ASSUME ~FraudRejected', TypeOK, TypeOK', [Next]_vars, NEW d \in Days
    PROVE  /\ Nights(d)' >= Nights(d)
           /\ ~staleWrite' => (~staleWrite /\ Nights(d)' = Nights(d))
  <1> DEFINE Goal == /\ Nights(d)' >= Nights(d)
                     /\ ~staleWrite' => (~staleWrite /\ Nights(d)' = Nights(d))
  <1> USE DEF TypeOK
  <1>0. Nights(d) \in Int
    BY HoldersFinite DEF Nights
  <1>1. ASSUME NEW b \in Bookings, NEW nights \in Stays, HoldAutoDeclined(b, nights)
        PROVE  Goal
    <2>1. Holders(d)' = Holders(d)
      BY <1>1 DEF HoldAutoDeclined, Holders, Occupying
    <2>2. QED
      BY <1>1, <2>1, SameNight DEF HoldAutoDeclined
  <1>2. ASSUME NEW b \in Bookings, NEW nights \in Stays,
               NEW risk \in {"LOW", "MEDIUM", "HIGH"}, Hold(b, nights, risk)
        PROVE  Goal
    <2>1. b \notin Holders(d)
      BY <1>2 DEF Hold, Holders, Occupying
    <2>2. CASE d \in nights
      <3>1. Holders(d)' = Holders(d) \cup {b}
        BY <1>2, <2>2, ConstantsAssumption DEF Hold, Holders, Occupying
      <3>2. QED
        BY <1>0, <1>2, <2>1, <2>2, <3>1, JoinNight DEF Hold, TakeNights
    <2>3. CASE d \notin nights
      <3>1. Holders(d)' = Holders(d)
        BY <1>2, <2>1, <2>3, ConstantsAssumption DEF Hold, Holders, Occupying
      <3>2. QED
        BY <1>2, <2>3, <3>1, SameNight DEF Hold, TakeNights
    <2>4. QED
      BY <2>2, <2>3
  <1>3. ASSUME NEW b \in Bookings,
               NEW topic \in {"booking.cancelled", "booking.expired"}, Withdraw(b, topic)
        PROVE  Goal
    <2>1. Holders(d)' = Holders(d) \ {b}
      BY <1>3 DEF Withdraw, Holders, Occupying
    <2>2. b \in Holders(d) <=> d \in stay[b]
      BY <1>3 DEF Withdraw, Pending, Holders, Occupying
    <2>3. CASE d \in stay[b]
      <3>1. remaining'[d] = remaining[d] + 1 /\ staleWrite' = staleWrite
        BY <1>3, <2>3 DEF Withdraw, CreditNights
      <3>2. Nights(d)' = Nights(d) /\ Nights(d)' >= Nights(d)
        BY <2>1, <2>2, <2>3, <3>1, LeaveNight
      <3>3. QED
        BY <3>1, <3>2
    <2>4. CASE d \notin stay[b]
      <3>1. remaining'[d] = remaining[d] /\ staleWrite' = staleWrite
        BY <1>3, <2>4 DEF Withdraw, CreditNights
      <3>2. Holders(d)' = Holders(d)
        BY <2>1, <2>2, <2>4
      <3>3. QED
        BY <3>1, <3>2, SameNight
    <2>5. QED
      BY <2>3, <2>4
  <1>4. ASSUME NEW req \in Request, Approve(req) \/ DecideApproved(req)
        PROVE  Goal
    BY <1>4, ReviveNight DEF Approve, DecideApproved
  <1>5. ASSUME NEW req \in Request, Decline(req)
        PROVE  Goal
    <2>1. req.booking \in Bookings
      BY DEF Request
    <2>2. Holders(d)' = Holders(d) \ {req.booking}
      BY <1>5, <2>1 DEF Decline, CommitReview, Holders, Occupying
    <2>3. ~staleWrite' => (~staleWrite /\ status[req.booking] = "REVIEW")
      BY <1>5 DEF Decline, CommitReview
    <2>4. CASE d \in stay[req.booking]
      <3>1. remaining'[d] = remaining[d] + 1
        BY <1>5, <2>4 DEF Decline, CreditNights
      <3>2. ~staleWrite' => req.booking \in Holders(d)
        BY <2>1, <2>3, <2>4 DEF Holders, Occupying
      <3>3. QED
        BY <2>1, <2>2, <2>3, <3>1, <3>2, LeaveNight
    <2>5. CASE d \notin stay[req.booking]
      <3>1. remaining'[d] = remaining[d]
        BY <1>5, <2>5 DEF Decline, CreditNights
      <3>2. Holders(d)' = Holders(d)
        BY <2>2, <2>5 DEF Holders
      <3>3. QED
        BY <2>3, <3>1, <3>2, SameNight
    <2>6. QED
      BY <2>4, <2>5
  <1>6. \A req \in Request : ~DecideRejected(req)
    BY RejectionStep
  <1>7. ASSUME UNCHANGED <<status, stay, remaining, staleWrite>>
        PROVE  Goal
    <2>1. Holders(d)' = Holders(d)
      BY <1>7 DEF Holders, Occupying
    <2>2. QED
      BY <1>7, <2>1, SameNight
  <1>8. ASSUME NEW b \in Bookings, DeadlinePasses(b)
        PROVE  Goal
    BY <1>7, <1>8 DEF DeadlinePasses
  <1>9. ASSUME NEW req \in Request, ReadReview(req) \/ RollBack(req)
        PROVE  Goal
    BY <1>7, <1>9 DEF ReadReview, RollBack
  <1>10. CASE UNCHANGED vars
    BY <1>7, <1>10 DEF vars
  <1>11. QED
    BY StepCases, <1>1, <1>2, <1>3, <1>4, <1>5, <1>6, <1>8, <1>9, <1>10

LEMMA NightsInit == Init => \A d \in Days : Nights(d) = Capacity[d]
  <1> SUFFICES ASSUME Init, NEW d \in Days
               PROVE  Nights(d) = Capacity[d]
    OBVIOUS
  <1>1. Holders(d) = {}
    BY DEF Init, Holders, Occupying
  <1>2. QED
    BY <1>1, ConstantsAssumption, FS_EmptySet DEF Init, Nights

(* The inductive form of the two invariants below.                         *)
CountInv ==
    ~FraudRejected =>
        /\ \A d \in Days : Nights(d) >= Capacity[d]
        /\ ~staleWrite => \A d \in Days : Nights(d) = Capacity[d]

LEMMA CountStep ==
    ASSUME TypeOK, TypeOK', CountInv, [Next]_vars
    PROVE  CountInv'
  <1> SUFFICES ASSUME ~FraudRejected'
               PROVE  CountInv'
    BY DEF CountInv
  <1>0. ~FraudRejected
    BY RejectionStep
  <1>1. ASSUME NEW d \in Days
        PROVE  /\ Nights(d) \in Int /\ Nights(d)' \in Int /\ Capacity[d] \in Int
               /\ Nights(d) >= Capacity[d]
               /\ Nights(d)' >= Nights(d)
               /\ ~staleWrite' => (~staleWrite /\ Nights(d)' = Nights(d))
    <2>1. Cardinality(Holders(d)) \in Nat
      BY HoldersFinite
    <2>2. Cardinality(Holders(d))' \in Nat
      <3>1. Holders(d)' \in SUBSET Bookings
        BY DEF Holders
      <3>2. QED
        BY <3>1, ConstantsAssumption, FS_Subset, FS_CardinalityType
    <2>3. QED
      BY <1>0, <2>1, <2>2, NightsStep, ConstantsAssumption DEF CountInv, Nights, TypeOK
  <1>2. QED
    BY <1>0, <1>1 DEF CountInv

LEMMA CountTheorem == Spec => []CountInv
  <1>1. Init => CountInv
    BY NightsInit, ConstantsAssumption DEF CountInv
  <1>2. TypeOK /\ TypeOK' /\ CountInv /\ [Next]_vars => CountInv'
    BY CountStep
  <1>3. QED
    BY <1>1, <1>2, TypeCorrect, PTL DEF Spec

(* No interleaving of guests, reviewers and the expiry job loses a night   *)
(* of the calendar; only the fraud console's rejections do.                *)
THEOREM NightsNotLost == Spec => []NoLostNights
  <1>1. CountInv => NoLostNights
    BY DEF CountInv, NoLostNights, Nights
  <1>2. QED
    BY <1>1, CountTheorem, PTL

(* And the calendar is exact unless, moreover, a reviewer's write was      *)
(* stale: the missing re-check of the status is the only other way to sell *)
(* a night twice.                                                          *)
THEOREM NightsConserved == Spec => []ConservedUnlessStale
  <1>1. CountInv => ConservedUnlessStale
    BY DEF CountInv, ConservedUnlessStale, Nights
  <1>2. QED
    BY <1>1, CountTheorem, PTL

-----------------------------------------------------------------------------
(* Without reviewers, the calendar that RoomCalendar promises.             *)

(* What guests and the expiry job alone can do to a booking.               *)
GuestInv ==
    /\ inFlight = {}
    /\ ~staleWrite
    /\ ~FraudRejected
    /\ \A b \in Bookings : status[b] # "none" => stay[b] \in Stays

LEMMA GuestStep ==
    ASSUME Admins = {}, FraudReviewers = {}, TypeOK, GuestInv, [Next]_vars
    PROVE  /\ GuestInv'
           /\ \/ \E b \in Bookings, nights \in Stays : HoldAutoDeclined(b, nights)
              \/ \E b \in Bookings, nights \in Stays,
                    risk \in {"LOW", "MEDIUM", "HIGH"} : Hold(b, nights, risk)
              \/ \E b \in Bookings, topic \in {"booking.cancelled", "booking.expired"} :
                    Withdraw(b, topic)
              \/ UNCHANGED <<status, stay>>
  <1> USE DEF GuestInv, TypeOK, Emit, FraudRejected
  <1>0. Request = {}
    BY DEF Request, Reviewers
  <1>1. ASSUME NEW b \in Bookings, NEW nights \in Stays, HoldAutoDeclined(b, nights)
        PROVE  GuestInv'
    BY <1>1 DEF HoldAutoDeclined
  <1>2. ASSUME NEW b \in Bookings, NEW nights \in Stays,
               NEW risk \in {"LOW", "MEDIUM", "HIGH"}, Hold(b, nights, risk)
        PROVE  GuestInv'
    BY <1>2 DEF Hold
  <1>3. ASSUME NEW b \in Bookings, DeadlinePasses(b)
        PROVE  GuestInv' /\ UNCHANGED <<status, stay>>
    BY <1>3 DEF DeadlinePasses
  <1>4. ASSUME NEW b \in Bookings,
               NEW topic \in {"booking.cancelled", "booking.expired"}, Withdraw(b, topic)
        PROVE  GuestInv'
    BY <1>4 DEF Withdraw, Pending
  <1>5. CASE UNCHANGED vars
    BY <1>5 DEF vars
  <1>6. QED
    BY StepCases, <1>0, <1>1, <1>2, <1>3, <1>4, <1>5

LEMMA CalendarStep ==
    ASSUME Admins = {}, FraudReviewers = {}, TypeOK, CountInv, GuestInv, [Next]_vars
    PROVE  [Calendar!Next]_(Calendar!calendarVars)
  <1> USE DEF TypeOK, GuestInv
  <1>1. ASSUME NEW b \in Bookings, NEW nights \in Stays, HoldAutoDeclined(b, nights)
        PROVE  Calendar!Refuse(b)
    <2>1. \A d \in Days : Holders(d)' = Holders(d)
      BY <1>1 DEF HoldAutoDeclined, Holders, Occupying
    <2>2. {c \in Bookings : status'[c] # "none"}
             = {c \in Bookings : status[c] # "none"} \cup {b}
      BY <1>1 DEF HoldAutoDeclined
    <2>3. QED
      BY <1>1, <2>1, <2>2 DEF HoldAutoDeclined, Calendar!Refuse
  <1>2. ASSUME NEW b \in Bookings, NEW nights \in Stays,
               NEW risk \in {"LOW", "MEDIUM", "HIGH"}, Hold(b, nights, risk)
        PROVE  Calendar!Take(b, nights)
    <2>1. \A d \in nights : Cardinality(Holders(d)) < Capacity[d]
      <3> SUFFICES ASSUME NEW d \in nights
                   PROVE  Cardinality(Holders(d)) < Capacity[d]
        OBVIOUS
      <3>1. d \in Days /\ remaining[d] > 0
        BY <1>2, ConstantsAssumption DEF Hold, Available
      <3>2. remaining[d] + Cardinality(Holders(d)) = Capacity[d]
        BY <3>1 DEF CountInv, Nights
      <3>3. QED
        BY <3>1, <3>2, HoldersFinite, ConstantsAssumption
    <2>2. \A d \in Days : Holders(d)' = IF d \in nights THEN Holders(d) \cup {b}
                                                        ELSE Holders(d)
      BY <1>2 DEF Hold, Holders, Occupying
    <2>3. {c \in Bookings : status'[c] # "none"}
             = {c \in Bookings : status[c] # "none"} \cup {b}
      BY <1>2 DEF Hold
    <2>4. b \notin {c \in Bookings : status[c] # "none"}
      BY <1>2 DEF Hold
    <2>5. nights \subseteq Days
      BY ConstantsAssumption
    <2>6. QED
      BY <2>1, <2>2, <2>3, <2>4, <2>5 DEF Calendar!Take, Calendar!Cardinality, Cardinality
  <1>3. ASSUME NEW b \in Bookings,
               NEW topic \in {"booking.cancelled", "booking.expired"}, Withdraw(b, topic)
        PROVE  Calendar!Release(b)
    <2>1. PICK d \in Days : d \in stay[b]
      BY <1>3, ConstantsAssumption DEF Withdraw, Pending
    <2>2. b \in Holders(d)
      BY <1>3, <2>1 DEF Withdraw, Pending, Holders, Occupying
    <2>3. \A e \in Days : Holders(e)' = Holders(e) \ {b}
      BY <1>3 DEF Withdraw, Holders, Occupying
    <2>4. {c \in Bookings : status'[c] # "none"} = {c \in Bookings : status[c] # "none"}
      BY <1>3 DEF Withdraw, Pending
    <2>5. QED
      BY <2>2, <2>3, <2>4 DEF Calendar!Release, Calendar!Occupies
  <1>4. CASE UNCHANGED <<status, stay>>
    BY <1>4 DEF Calendar!calendarVars, Holders, Occupying
  <1>5. QED
    BY <1>1, <1>2, <1>3, <1>4, GuestStep DEF Calendar!Next

(* For every calendar and any number of guests: every behaviour of hold,   *)
(* cancelHold and expireHolds is a behaviour of the room calendar, in      *)
(* which a stay is taken whole and no night is ever over its capacity.     *)
THEOREM CalendarImplemented ==
    ASSUME Admins = {}, FraudReviewers = {}
    PROVE  Spec => ImplementsCalendar
  <1>1. Init => Calendar!Init
    BY DEF Init, Calendar!Init, Holders, Occupying
  <1>2. Init => GuestInv
    BY DEF Init, GuestInv, FraudRejected
  <1>3. TypeOK /\ GuestInv /\ [Next]_vars => GuestInv'
    BY GuestStep
  <1>4. TypeOK /\ CountInv /\ GuestInv /\ [Next]_vars
           => [Calendar!Next]_(Calendar!calendarVars)
    BY CalendarStep
  <1>5. QED
    BY <1>1, <1>2, <1>3, <1>4, TypeCorrect, CountTheorem, PTL
       DEF Spec, ImplementsCalendar, Calendar!Spec
-----------------------------------------------------------------------------
(* A verdict, once given.                                                  *)

(* Who waits for a reviewer has no verdict yet.                            *)
AwaitsVerdict ==
    \A b \in Bookings :
        /\ status[b] = "none" => assessment[b] = "none"
        /\ status[b] = "REVIEW" => assessment[b] = "PENDING"

AwaitsInv == TypeOK /\ AwaitsVerdict

LEMMA AwaitsInit == Init => AwaitsInv
  BY TypeInit DEF Init, AwaitsInv, AwaitsVerdict

LEMMA AwaitsStep == AwaitsInv /\ [Next]_vars => AwaitsInv'
  <1> SUFFICES ASSUME AwaitsInv, [Next]_vars
               PROVE  AwaitsVerdict'
    BY TypeStep DEF AwaitsInv
  <1> USE DEF AwaitsInv, TypeOK, AwaitsVerdict
  <1>1. ASSUME NEW b \in Bookings, NEW nights \in Stays, HoldAutoDeclined(b, nights)
        PROVE  AwaitsVerdict'
    BY <1>1 DEF HoldAutoDeclined
  <1>2. ASSUME NEW b \in Bookings, NEW nights \in Stays,
               NEW risk \in {"LOW", "MEDIUM", "HIGH"}, Hold(b, nights, risk)
        PROVE  AwaitsVerdict'
    BY <1>2 DEF Hold
  <1>3. ASSUME NEW b \in Bookings,
               NEW topic \in {"booking.cancelled", "booking.expired"}, Withdraw(b, topic)
        PROVE  AwaitsVerdict'
    BY <1>3 DEF Withdraw
  <1>4. ASSUME NEW req \in Request,
               Approve(req) \/ Decline(req) \/ DecideApproved(req) \/ DecideRejected(req)
        PROVE  AwaitsVerdict'
    BY <1>4 DEF Approve, Decline, DecideApproved, DecideRejected, CommitReview, Request
  <1>5. ASSUME UNCHANGED <<status, assessment>>
        PROVE  AwaitsVerdict'
    BY <1>5
  <1>6. QED
    BY StepCases, <1>1, <1>2, <1>3, <1>4, <1>5
    DEF DeadlinePasses, ReadReview, RollBack, vars

(* Only who read a booking in REVIEW, and writes when it is no longer, may *)
(* replace a verdict.                                                      *)
LEMMA ReplacedIsStale ==
    ASSUME AwaitsInv, [Next]_vars,
           NEW b \in Bookings, assessment[b] \in {"APPROVED", "REJECTED"},
           assessment'[b] # assessment[b]
    PROVE  staleWrite'
  <1> USE DEF AwaitsInv, TypeOK, AwaitsVerdict
  <1>1. ASSUME NEW c \in Bookings, NEW nights \in Stays, HoldAutoDeclined(c, nights)
        PROVE  FALSE
    BY <1>1 DEF HoldAutoDeclined
  <1>2. ASSUME NEW c \in Bookings, NEW nights \in Stays,
               NEW risk \in {"LOW", "MEDIUM", "HIGH"}, Hold(c, nights, risk)
        PROVE  FALSE
    BY <1>2 DEF Hold
  <1>3. ASSUME NEW req \in Request,
               Approve(req) \/ Decline(req) \/ DecideApproved(req) \/ DecideRejected(req)
        PROVE  staleWrite'
    BY <1>3 DEF Approve, Decline, DecideApproved, DecideRejected, CommitReview, Request
  <1>4. QED
    BY StepCases, <1>1, <1>2, <1>3
    DEF Withdraw, DeadlinePasses, ReadReview, RollBack, vars

(* A verdict is replaced only by a reviewer who had read the booking       *)
(* before it was given, whatever the reviewers, guests and job do.         *)
THEOREM VerdictsLast == Spec => VerdictIsFinal
  <1>1. AwaitsInv /\ [Next]_vars
        => [\A b \in Bookings :
               assessment[b] \in {"APPROVED", "REJECTED"} /\ assessment'[b] # assessment[b]
                   => staleWrite']_vars
    BY ReplacedIsStale
  <1>2. QED
    BY <1>1, AwaitsInit, AwaitsStep, PTL DEF Spec, VerdictIsFinal
=============================================================================
