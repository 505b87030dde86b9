----------------------------- MODULE EventRelay -----------------------------
(***************************************************************************)
(* EventsConsumerService behind the OutboxPublisher: the members of a      *)
(* consumer group read the partitions, ask ProcessedEvent whether an event *)
(* is known, let SagaCoordinator.handle act on it, record it and commit    *)
(* the offset.  The whole way of an event, from the transaction that       *)
(* caused it, implements EventDelivery.                                    *)
(***************************************************************************)
EXTENDS OutboxPublisher

CONSTANTS
    Members     \* the consumers of the group

VARIABLES
    owner,      \* the member that each partition is assigned to
    offset,     \* how many messages of each partition the group has committed
    processed,  \* the rows of ProcessedEvent
    handled,    \* history: the events the coordinator has handled
    moved,      \* history: the partitions that went to another member
    work        \* the messages that members are working on

consumerVars == <<owner, offset, processed, handled, moved, work>>
relayVars == <<vars, consumerVars>>

Work == [by: Members, pc: {"handling", "handled", "recorded"},
         stream: Streams, index: 1 .. MaxLog]

RelayInit ==
    /\ Init
    /\ owner \in [Streams -> Members]
    /\ offset = [s \in Streams |-> 0]
    /\ processed = {}
    /\ handled = {}
    /\ moved = {}
    /\ work = {}

Idle(m) == \A w \in work : w.by # m
EventOf(w) == log[w.stream][w.index]

Advance(w, pc) == work' = (work \ {w}) \cup {[w EXCEPT !.pc = pc]}
Leave(w) == work' = work \ {w}

-----------------------------------------------------------------------------
(* eachMessage: a member reads one message at a time of the partitions it  *)
(* owns and commits its offset before it reads the next.                   *)

SeenFault(e) == FALSE

Seen(e) == e \in processed

Next1(m, s) ==
    /\ Idle(m)
    /\ owner[s] = m
    /\ offset[s] < Len(log[s])

Begin(m, s) ==
    /\ Next1(m, s)
    /\ ~Seen(log[s][offset[s] + 1])
    /\ work' = work \cup {[by |-> m, pc |-> "handling", stream |-> s,
                           index |-> offset[s] + 1]}
    /\ UNCHANGED <<vars, owner, offset, processed, handled, moved>>

(* A known event is not handled; its offset is committed.                  *)
Skip(m, s) ==
    /\ Next1(m, s)
    /\ Seen(log[s][offset[s] + 1])
    /\ offset' = [offset EXCEPT ![s] = @ + 1]
    /\ UNCHANGED <<vars, owner, processed, handled, moved, work>>

Handle(w) ==
    /\ w.pc = "handling"
    /\ handled' = handled \cup {EventOf(w)}
    /\ Advance(w, "handled")
    /\ UNCHANGED <<vars, owner, offset, processed, moved>>

RecordFault(w) ==
    /\ w.pc = "handling"
    /\ processed' = processed \cup {EventOf(w)}
    /\ Advance(w, "recorded")
    /\ UNCHANGED <<vars, owner, offset, handled, moved>>

Record(w) ==
    /\ w.pc = "handled"
    /\ EventOf(w) \notin processed
    /\ processed' = processed \cup {EventOf(w)}
    /\ Advance(w, "recorded")
    /\ UNCHANGED <<vars, owner, offset, handled, moved>>

CommitOffsetFault(w) ==
    /\ w.pc \in {"handling", "recorded"}
    /\ owner[w.stream] = w.by
    /\ offset' = [offset EXCEPT ![w.stream] = w.index]
    /\ IF w.pc = "recorded" THEN Leave(w) ELSE UNCHANGED work
    /\ UNCHANGED <<vars, owner, processed, handled, moved>>

CommitOffset(w) ==
    /\ w.pc = "recorded"
    /\ owner[w.stream] = w.by
    /\ offset' = [offset EXCEPT ![w.stream] = w.index]
    /\ Leave(w)
    /\ UNCHANGED <<vars, owner, processed, handled, moved>>

(* Kafka or the unique key of ProcessedEvent turns away a member that is   *)
(* no longer, or not alone, at work on the message.                        *)
TurnedAway(w) ==
    /\ \/ w.pc = "recorded" /\ owner[w.stream] # w.by
       \/ w.pc = "handled" /\ EventOf(w) \in processed
    /\ Leave(w)
    /\ UNCHANGED <<vars, owner, offset, processed, handled, moved>>

(* The handler throws, or the member dies: Kafka delivers the message      *)
(* again.                                                                  *)
Abort(w) ==
    /\ Fault
    /\ Leave(w)
    /\ UNCHANGED <<last, open, committed, before, outbox, locked, tick, log,
                   owner, offset, processed, handled, moved>>

(* The partition goes to another member, without waiting for the old one;  *)
(* a member joins between two messages.                                    *)
Rebalance(s, m) ==
    /\ owner[s] # m
    /\ Idle(m)
    /\ Fault
    /\ owner' = [owner EXCEPT ![s] = m]
    /\ moved' = moved \cup {s}
    /\ UNCHANGED <<last, open, committed, before, outbox, locked, tick, log,
                   offset, processed, handled, work>>

-----------------------------------------------------------------------------

WorkStep(w) == Handle(w) \/ Record(w) \/ CommitOffset(w) \/ TurnedAway(w)

ConsumerNext ==
    \/ \E m \in Members, s \in Streams : Begin(m, s) \/ Skip(m, s) \/ Rebalance(s, m)
    \/ \E w \in work : WorkStep(w) \/ Abort(w)

PublisherStep == Next /\ UNCHANGED consumerVars

RelayNext == PublisherStep \/ ConsumerNext

RelaySpec == RelayInit /\ [][RelayNext]_relayVars

(* The timer keeps calling tick and the consumers keep reading; faults are *)
(* finite.  Nothing obliges a transaction to commit.                       *)
RelayFairness ==
    /\ WF_relayVars(LockExpires /\ UNCHANGED consumerVars)
    /\ \A p \in Processes :
          /\ SF_relayVars(Acquire(p) /\ UNCHANGED consumerVars)
          /\ WF_relayVars(TickStep(p) /\ UNCHANGED consumerVars)
    /\ \A m \in Members, s \in Streams : SF_relayVars(Begin(m, s) \/ Skip(m, s))
    /\ \A m \in Members : WF_relayVars(\E w \in work : w.by = m /\ WorkStep(w))

RelayLiveSpec == RelaySpec /\ RelayFairness

-----------------------------------------------------------------------------
(* Properties.                                                             *)

RelayTypeOK ==
    /\ TypeOK
    /\ owner \in [Streams -> Members]
    /\ \A s \in Streams : offset[s] \in 0 .. Len(log[s])
    /\ processed \subseteq handled
    /\ handled \subseteq committed
    /\ moved \subseteq Streams
    /\ work \subseteq Work

(* What the group has committed has been handled: no crash, error or       *)
(* rebalance makes it step over an event.                                  *)
OffsetMeansHandled ==
    \A s \in Streams : \A i \in 1 .. offset[s] : log[s][i] \in handled

(* While a partition stays with its member, what is recorded is not        *)
(* handled again, though the publisher may have sent it twice and the      *)
(* member may have failed between any two of its steps.                    *)
RecordedIsDone ==
    [][\A w \in work :
          Handle(w) /\ w.stream \notin moved => EventOf(w) \notin processed]_relayVars

(* Every event of a committed transaction reaches the coordinator: once    *)
(* there are no new ones, nothing stays unhandled.                         *)
EveryEventHandled == []<>(committed \subseteq handled)

(* The events of f's stream that were committed before f was written.      *)
Earlier == [f \in Events |-> {e \in before[f] : StreamOf[e] = StreamOf[f]}]

Delivery == INSTANCE EventDelivery
    WITH published <- committed, after <- Earlier

(* From the caller's transaction to the coordinator: handled at least      *)
(* once, only if committed, and in order within a stream.                  *)
DeliversEvents == Delivery!Spec
=============================================================================
