------------------------- MODULE MCBookingInventory -------------------------
EXTENDS BookingInventory

(* Three consecutive nights; guests ask for the first two or the last two, *)
(* so that two stays share the middle night only.                          *)
MCDays == 1 .. 3
MCStays == {{1, 2}, {2, 3}}

(* Two rooms on the middle night.                                          *)
MCTwoRooms == [d \in MCDays |-> IF d = 2 THEN 2 ELSE 1]
=============================================================================
