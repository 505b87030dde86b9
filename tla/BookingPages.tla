---------------------------- MODULE BookingPages ----------------------------
(***************************************************************************)
(* The web client's booking pages: BookingHoldPage, which places a hold    *)
(* and may cancel it, and MyBookingsPage with BookingDetailPage, which     *)
(* cancel a booking optimistically in the query cache they share.          *)
(*                                                                         *)
(* Every click of "Create hold" makes up a new idempotency key, so the     *)
(* server cannot tell a second attempt from a second wish.  A page that    *)
(* cancels shows the booking cancelled at once, puts back what it saw if   *)
(* the server refuses, and in either case fetches again.                   *)
(***************************************************************************)
EXTENDS FiniteSets, Integers

CONSTANTS
    PageStays,  \* bookings that may come to be
    MaxFetches,  \* bound: fetches
    MaxChanges   \* bound: changes by others, and answers that are lost

ASSUME PagesAssumption == MaxFetches \in Nat /\ MaxChanges \in Nat

VARIABLES
    booked,     \* the server's Booking.status
    wish,     \* the hold mutation of BookingHoldPage
    result,   \* its panel
    panelCancel, \* the cancel mutation of BookingHoldPage
    list,     \* the cached bookings
    fetch,    \* the fetch of them
    must,     \* the cache was invalidated
    cancel,   \* the cancel mutation of the other two pages
    fetches, changes, \* so far
    overlap,  \* history: a hold answered while the panel's cancel was under way
    touched   \* history: others changed a booking since the list was fetched

pageVars == <<booked, wish, result, panelCancel, list, fetch, must, cancel, fetches, changes, overlap, touched>>
panelVars == <<wish, result, panelCancel, overlap>>
listVars == <<list, fetch, must, cancel, fetches, touched>>

StayStatus == {"none", "HOLD", "CONFIRMED", "CANCELLED"}
Nobody == "nobody"
NoResult == [id |-> Nobody, shown |-> "none"]
Quiet == [at |-> "idle", id |-> Nobody]
QuietCancel == [at |-> "idle", id |-> Nobody, before |-> [b \in PageStays |-> "none"]]

PagesInit ==
    /\ booked = [b \in PageStays |-> "none"]
    /\ wish = Quiet /\ result = NoResult /\ panelCancel = Quiet
    /\ list = booked
    /\ fetch = [at |-> "idle", seen |-> booked]
    /\ must = FALSE
    /\ cancel = QuietCancel
    /\ fetches = 0 /\ changes = 0
    /\ overlap = FALSE /\ touched = FALSE

-----------------------------------------------------------------------------
(* BookingHoldPage                                                         *)

SubmitHold ==
    /\ wish.at = "idle"
    /\ wish' = [Quiet EXCEPT !.at = "sent"]
    /\ UNCHANGED <<booked, result, panelCancel, changes, overlap, listVars>>

ServeHold(b) ==
    /\ wish.at = "sent"
    /\ booked[b] = "none"
    /\ booked' = [booked EXCEPT ![b] = "HOLD"]
    /\ wish' = [at |-> "ok", id |-> b]
    /\ touched' = TRUE
    /\ UNCHANGED <<result, panelCancel, changes, overlap, list, fetch, must, cancel, fetches>>

(* onSuccess.                                                              *)
HoldShown ==
    /\ wish.at = "ok"
    /\ wish' = Quiet
    /\ result' = [id |-> wish.id, shown |-> "HOLD"]
    /\ overlap' = (panelCancel.at # "idle")
    /\ UNCHANGED <<booked, panelCancel, changes, listVars>>

(* onError, though the hold may have been placed.                          *)
HoldFails ==
    /\ wish.at \in {"sent", "ok"}
    /\ changes < MaxChanges
    /\ changes' = changes + 1
    /\ wish' = Quiet /\ result' = NoResult
    /\ UNCHANGED <<booked, panelCancel, overlap, listVars>>

(* The panel's button, disabled while its cancel runs.                     *)
PanelClick ==
    /\ result.id # Nobody /\ result.shown # "CANCELLED"
    /\ panelCancel.at = "idle"
    /\ panelCancel' = [at |-> "sent", id |-> result.id]
    /\ UNCHANGED <<booked, wish, result, changes, overlap, listVars>>

Cancellable(b) == booked[b] \in {"HOLD", "CONFIRMED"}

PanelServe ==
    /\ panelCancel.at = "sent"
    /\ IF booked[panelCancel.id] = "HOLD"
       THEN /\ booked' = [booked EXCEPT ![panelCancel.id] = "CANCELLED"]
            /\ panelCancel' = [panelCancel EXCEPT !.at = "ok"]
            /\ touched' = TRUE
       ELSE /\ panelCancel' = [panelCancel EXCEPT !.at = "refused"]
            /\ UNCHANGED <<booked, touched>>
    /\ UNCHANGED <<wish, result, changes, overlap, list, fetch, must, cancel, fetches>>

PanelAnswerFault ==
    /\ panelCancel.at \in {"ok", "refused"}
    /\ panelCancel' = Quiet
    /\ result' = IF result.id # Nobody THEN [result EXCEPT !.shown = "CANCELLED"] ELSE result
    /\ UNCHANGED <<booked, wish, changes, overlap, listVars>>

(* onSuccess marks whatever the panel shows by now.                        *)
PanelAnswer ==
    /\ panelCancel.at \in {"ok", "refused"}
    /\ panelCancel' = Quiet
    /\ result' = IF panelCancel.at = "ok" /\ result.id # Nobody
                 THEN [result EXCEPT !.shown = "CANCELLED"] ELSE result
    /\ UNCHANGED <<booked, wish, changes, overlap, listVars>>

-----------------------------------------------------------------------------
(* MyBookingsPage and BookingDetailPage                                    *)

(* The page opens, the window is focused, or the cache was invalidated.    *)
StartFetch ==
    /\ fetch.at = "idle"
    /\ fetches < MaxFetches \/ must
    /\ fetches' = IF must THEN fetches ELSE fetches + 1
    /\ must' = FALSE
    /\ fetch' = [fetch EXCEPT !.at = "sent"]
    /\ UNCHANGED <<booked, changes, list, cancel, touched, panelVars>>

ServeFetch ==
    /\ fetch.at = "sent"
    /\ fetch' = [at |-> "ok", seen |-> booked]
    /\ touched' = FALSE
    /\ UNCHANGED <<booked, changes, list, must, cancel, fetches, panelVars>>

ListShown ==
    /\ fetch.at = "ok"
    /\ list' = fetch.seen
    /\ fetch' = [fetch EXCEPT !.at = "idle"]
    /\ UNCHANGED <<booked, changes, must, cancel, fetches, touched, panelVars>>

(* A fetch fails: the old list stays.                                      *)
FetchFails ==
    /\ fetch.at \in {"sent", "ok"}
    /\ changes < MaxChanges
    /\ changes' = changes + 1
    /\ fetch' = [fetch EXCEPT !.at = "idle"]
    /\ touched' = TRUE
    /\ UNCHANGED <<booked, list, must, cancel, fetches, panelVars>>

(* cancelQueries drops a fetch under way.                                  *)
Optimistic(b) ==
    /\ cancel' = [at |-> "sent", id |-> b, before |-> list]
    /\ list' = [list EXCEPT ![b] = "CANCELLED"]
    /\ fetch' = [fetch EXCEPT !.at = "idle"]

ListClick(b) ==
    /\ cancel.at = "idle"
    /\ list[b] \in {"HOLD", "CONFIRMED"}
    /\ Optimistic(b)
    /\ touched' = (touched \/ fetch.at # "idle")
    /\ UNCHANGED <<booked, must, fetches, changes, panelVars>>

(* The page asks for the cancellation that fits the status it saw.         *)
ListServe ==
    /\ cancel.at = "sent"
    /\ IF booked[cancel.id] = cancel.before[cancel.id]
       THEN /\ booked' = [booked EXCEPT ![cancel.id] = "CANCELLED"]
            /\ cancel' = [cancel EXCEPT !.at = "ok"]
       ELSE /\ cancel' = [cancel EXCEPT !.at = "refused"]
            /\ UNCHANGED booked
    /\ UNCHANGED <<changes, list, fetch, must, fetches, touched, panelVars>>

ListAnswerFault ==
    /\ cancel.at \in {"ok", "refused"}
    /\ list' = list
    /\ cancel' = QuietCancel
    /\ must' = (cancel.at = "ok")
    /\ fetch' = [fetch EXCEPT !.at = "idle"]
    /\ UNCHANGED <<booked, fetches, changes, touched, panelVars>>

(* onError puts back, in the detail page its own query only; onSettled     *)
(* invalidates, and a fetch under way is started again.                    *)
ListAnswer ==
    /\ cancel.at \in {"ok", "refused"}
    /\ list' \in IF cancel.at = "refused" THEN {cancel.before, list} ELSE {list}
    /\ cancel' = QuietCancel
    /\ must' = TRUE
    /\ fetch' = [fetch EXCEPT !.at = "idle"]
    /\ UNCHANGED <<booked, fetches, changes, touched, panelVars>>

-----------------------------------------------------------------------------

(* The answer to a cancellation is lost: the page takes it for a refusal.  *)
AnswerLost ==
    /\ changes < MaxChanges
    /\ changes' = changes + 1
    /\ \/ panelCancel.at = "ok" /\ panelCancel' = [panelCancel EXCEPT !.at = "refused"] /\ UNCHANGED cancel
       \/ cancel.at = "ok" /\ cancel' = [cancel EXCEPT !.at = "refused"] /\ UNCHANGED panelCancel
    /\ UNCHANGED <<booked, wish, result, list, fetch, must, fetches, overlap, touched>>

(* The payment, the expiry job or the host.                                *)
OthersChange(b) ==
    /\ changes < MaxChanges
    /\ changes' = changes + 1
    /\ \/ booked[b] = "HOLD" /\ booked' = [booked EXCEPT ![b] = "CONFIRMED"]
       \/ Cancellable(b) /\ booked' = [booked EXCEPT ![b] = "CANCELLED"]
    /\ touched' = TRUE
    /\ UNCHANGED <<list, fetch, must, cancel, fetches, panelVars>>

PagesNext ==
    \/ SubmitHold \/ HoldShown \/ HoldFails \/ PanelClick \/ PanelServe \/ PanelAnswer
    \/ StartFetch \/ ServeFetch \/ ListShown \/ FetchFails \/ ListServe \/ ListAnswer \/ AnswerLost
    \/ \E b \in PageStays : ServeHold(b) \/ ListClick(b) \/ OthersChange(b)

PagesSpec == PagesInit /\ [][PagesNext]_pageVars

-----------------------------------------------------------------------------

PagesTypeOK ==
    /\ booked \in [PageStays -> StayStatus] /\ list \in [PageStays -> StayStatus]
    /\ wish.at \in {"idle", "sent", "ok"}
    /\ panelCancel.at \in {"idle", "sent", "ok", "refused"}
    /\ cancel.at \in {"idle", "sent", "ok", "refused"}
    /\ fetch.at \in {"idle", "sent", "ok"}

(* The panel says "This hold is cancelled" of a hold that is: but for a    *)
(* hold that came in while the cancel of the one before was under way.     *)
PanelHonest == result.shown = "CANCELLED" => overlap \/ booked[result.id] = "CANCELLED"

(* Once nothing is under way or invalidated, the pages show the status of  *)
(* the server, not one they made up, unless others changed it since, or    *)
(* the last fetch was dropped or failed.                                   *)
ListHonest ==
    fetch.at = "idle" /\ cancel.at = "idle" /\ ~must /\ ~touched => list = booked
=============================================================================
