---------------------------- MODULE RoomCalendar ----------------------------
(***************************************************************************)
(* What the booking module promises about the nights of one property: a    *)
(* booking takes all the nights of its stay or none, never more bookings   *)
(* share a night than the property has rooms, and a booking that gave its  *)
(* nights back never takes them again.                                     *)
(***************************************************************************)
EXTENDS Integers, FiniteSets

CONSTANTS Bookings, Days, Stays, Capacity

VARIABLES
    holders,    \* holders[d]: the bookings that occupy a room on night d
    known       \* the bookings that have been decided upon, once and for all

calendarVars == <<holders, known>>

Init ==
    /\ holders = [d \in Days |-> {}]
    /\ known = {}

Occupies(b) == \E d \in Days : b \in holders[d]

Take(b, nights) ==
    /\ b \notin known
    /\ \A d \in nights : Cardinality(holders[d]) < Capacity[d]
    /\ holders' = [d \in Days |-> IF d \in nights THEN holders[d] \cup {b}
                                                  ELSE holders[d]]
    /\ known' = known \cup {b}

Refuse(b) ==
    /\ b \notin known
    /\ known' = known \cup {b}
    /\ UNCHANGED holders

Release(b) ==
    /\ Occupies(b)
    /\ holders' = [d \in Days |-> holders[d] \ {b}]
    /\ UNCHANGED known

Next ==
    \E b \in Bookings :
        \/ \E nights \in Stays : Take(b, nights)
        \/ Refuse(b)
        \/ Release(b)

Spec == Init /\ [][Next]_calendarVars
=============================================================================
