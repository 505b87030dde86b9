--------------------------- MODULE EventDelivery ----------------------------
(***************************************************************************)
(* What the Outbox promises to the code that writes events into it: an     *)
(* event of a transaction that commits is handled at least once, an event  *)
(* of one that rolls back never, and events of one stream are handled for  *)
(* the first time in the order in which they were written one after the    *)
(* other.                                                                  *)
(***************************************************************************)
CONSTANTS Events

VARIABLES
    published,  \* the events of committed transactions
    handled,    \* the events the coordinator has handled
    after       \* after[f]: the events of f's stream committed before f was written

deliveryVars == <<published, handled, after>>

Init ==
    /\ published = {}
    /\ handled = {}
    /\ after = [e \in Events |-> {}]

Write(f) ==
    /\ f \notin published
    /\ after' \in [Events -> SUBSET published]
    /\ \A e \in Events \ {f} : after'[e] = after[e]
    /\ UNCHANGED <<published, handled>>

Publish(e) ==
    /\ published' = published \cup {e}
    /\ UNCHANGED <<handled, after>>

Handle(e) ==
    /\ e \in published
    /\ after[e] \subseteq handled
    /\ handled' = handled \cup {e}
    /\ UNCHANGED <<published, after>>

Next == \E e \in Events : Write(e) \/ Publish(e) \/ Handle(e)

Spec == Init /\ [][Next]_deliveryVars
=============================================================================
