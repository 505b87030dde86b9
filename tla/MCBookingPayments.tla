------------------------- MODULE MCBookingPayments --------------------------
EXTENDS BookingPayments

(* One room for one night: the bookings compete for it.                    *)
MCDays == {1}
MCStays == {{1}}
MCOneRoom == [d \in MCDays |-> 1]
=============================================================================
