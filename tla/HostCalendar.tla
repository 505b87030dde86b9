---------------------------- MODULE HostCalendar ----------------------------
(***************************************************************************)
(* The calendar the host edits (PropertyService.upsertAvailability) while  *)
(* guests hold and release the same nights (BookingInventory).  A save     *)
(* writes remaining absolutely: the number the host worked out from what a *)
(* panel showed earlier.  The nights of a save are written chunk by chunk, *)
(* a transaction each; a chunk is a night here and 150 nights in the code. *)
(***************************************************************************)
EXTENDS BookingInventory

CONSTANTS
    Panels,     \* open calendar pages of the host
    Rooms       \* the rooms the host has, each night

ASSUME HostAssumption ==
    /\ Rooms \in [Days -> Nat]
    /\ \A d \in Days : Capacity[d] \in {0, Rooms[d]}

VARIABLES
    rows,       \* nights with an AvailabilityDay row
    closed,     \* nights with isBlocked
    panel,      \* what each page shows, and what it is saving
    shut,       \* history: nights blocked, or without a row, since remaining was set
    raced       \* history: nights whose remaining was set from an old count

hostVars == <<rows, closed, panel, shut, raced>>

Item == [remaining : BOOLEAN, block : {"keep", "block", "open"}, price : BOOLEAN]
Blank == [at |-> "closed", seen |-> [d \in Days |-> 0], items |-> <<>>]
Taken(d) == Cardinality(Holders(d))

HostInit ==
    /\ Init
    /\ rows = {d \in Days : Capacity[d] > 0}
    /\ closed = {}
    /\ panel = [p \in Panels |-> Blank]
    /\ shut = Days \ rows
    /\ raced = {}

-----------------------------------------------------------------------------

(* getAvailability, beside the host's list of bookings.                    *)
Show(p) ==
    /\ panel[p].at = "closed"
    /\ panel' = [panel EXCEPT ![p].at = "shown", ![p].seen = [d \in Days |-> Taken(d)]]
    /\ UNCHANGED <<vars, rows, closed, shut, raced>>

(* A save names some nights, the last item of a night counts.              *)
Submit(p, nights, item) ==
    /\ panel[p].at = "shown"
    /\ nights # {}
    /\ panel' = [panel EXCEPT ![p].at = "saving", ![p].items = [d \in nights |-> item]]
    /\ UNCHANGED <<vars, rows, closed, shut, raced>>

LeftFault(seen, d) == Rooms[d] - seen

Left(seen, d) == IF seen > Rooms[d] THEN 0 ELSE Rooms[d] - seen

WriteFault(p, d) ==
    LET item == panel[p].items[d] IN
    IF item.block = "block" THEN 0
    ELSE IF item.remaining THEN remaining[d] + Left(panel[p].seen[d], d) ELSE remaining[d]

(* The remaining a save leaves on a night: a blocked night gets 0, even if *)
(* a number came with it.                                                  *)
Write(p, d) ==
    LET item == panel[p].items[d] IN
    IF item.block = "block" THEN 0
    ELSE IF item.remaining THEN Left(panel[p].seen[d], d) ELSE remaining[d]

(* One chunk; the first night without a row and a price ends the request,  *)
(* what was written before it stays.                                       *)
SaveNight(p, d) ==
    LET item == panel[p].items[d] IN
    /\ panel[p].at = "saving"
    /\ d \in DOMAIN panel[p].items
    /\ d \in rows \/ item.price
    /\ remaining' = [remaining EXCEPT ![d] = Write(p, d)]
    /\ rows' = rows \cup {d}
    /\ closed' = CASE item.block = "keep" -> closed
                   [] item.block = "block" -> closed \cup {d}
                   [] item.block = "open" -> closed \ {d}
    /\ shut' = IF item.block = "block" THEN shut \cup {d}
               ELSE IF item.remaining THEN shut \ {d} ELSE shut
    /\ raced' = IF item.block # "block" /\ item.remaining
                THEN IF Taken(d) = panel[p].seen[d] /\ Taken(d) <= Rooms[d]
                     THEN raced \ {d} ELSE raced \cup {d}
                ELSE raced
    /\ panel' = [panel EXCEPT ![p].items = [n \in DOMAIN @ \ {d} |-> @[n]]]
    /\ UNCHANGED <<status, stay, deadline, assessment, emitted, inFlight, staleWrite>>

(* All written, refused for a missing price, or broken off.                *)
Close(p) ==
    /\ panel[p].at # "closed"
    /\ panel' = [panel EXCEPT ![p] = Blank]
    /\ UNCHANGED <<vars, rows, closed, shut, raced>>

(* A guest's booking: hold also finds the rows that are blocked now.       *)
HoldOpenFault(b, nights) ==
    /\ Hold(b, nights, "LOW")
    /\ UNCHANGED hostVars

HoldOpen(b, nights) ==
    /\ nights \cap closed = {}
    /\ Hold(b, nights, "LOW")
    /\ UNCHANGED hostVars

Release(b) == (CancelHold(b) \/ DeadlinePasses(b) \/ ExpireHold(b)) /\ UNCHANGED hostVars

HostNext ==
    \/ \E p \in Panels :
          \/ Show(p) \/ Close(p)
          \/ \E nights \in SUBSET Days, item \in Item : Submit(p, nights, item)
          \/ \E d \in Days : SaveNight(p, d)
    \/ \E b \in Bookings :
          \/ \E nights \in Stays : HoldOpen(b, nights)
          \/ Release(b)

HostSpec == HostInit /\ [][HostNext]_<<vars, hostVars>>

-----------------------------------------------------------------------------

HostTypeOK ==
    /\ TypeOK
    /\ rows \subseteq Days /\ closed \subseteq rows
    /\ \A p \in Panels : panel[p].seen \in [Days -> Nat]
    /\ shut \subseteq Days /\ raced \subseteq Days

(* The host and the guests write the same number without a lock.  A night  *)
(* is sold at most as often as the host has rooms, unless a save worked    *)
(* its number out before another booking came or went; and a night is lost *)
(* only so, or by blocking it and opening it again without a number.       *)
RoomsKept ==
    \A d \in Days \ raced :
        /\ remaining[d] + Taken(d) <= Rooms[d]
        /\ d \notin shut => remaining[d] + Taken(d) = Rooms[d]

(* A night that is blocked while guests hold it keeps them and is not sold *)
(* again, even when one of them lets go and the release credits the night  *)
(* its block had set to 0.                                                 *)
BlockedStaysUnsold ==
    [][\A d \in closed : d \in closed' => Taken(d)' <= Taken(d)]_<<vars, hostVars>>
=============================================================================
