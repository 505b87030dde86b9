-------------------------- MODULE OutboxPublisher ---------------------------
(***************************************************************************)
(* OutboxProducer, which writes an event in the transaction of its cause,  *)
(* and OutboxPublisher.tick, which moves the rows of the Outbox to Kafka   *)
(* under a Redis lock that anyone may lose and anyone may delete.          *)
(*                                                                         *)
(* An event is the number of its row in the order of createdAt, which is   *)
(* fixed when a transaction writes the row, not when it commits.  A stream *)
(* is a partition of a topic: Kafka keeps the messages of one in order.    *)
(***************************************************************************)
EXTENDS Integers, FiniteSets, Sequences

CONSTANTS
    MaxEvents,  \* bound on the rows ever written
    Streams,    \* the partitions
    Topics,     \* the topics
    StreamOf,   \* StreamOf[e]: the partition that e's topic and key select
    TopicOf,    \* TopicOf[s]: the topic that partition s belongs to
    Processes,  \* processes that run the publisher
    Batch,      \* outbox.batchSize
    MaxLog,     \* bound on the messages of a partition
    MaxFaults   \* bound on the crashes, failed sends and lost locks

Events == 1 .. MaxEvents

ASSUME PublisherAssumption ==
    /\ MaxEvents \in Nat
    /\ StreamOf \in [Events -> Streams]
    /\ TopicOf \in [Streams -> Topics]
    /\ Batch \in Nat \ {0}
    /\ MaxLog \in Nat
    /\ MaxFaults \in Nat

VARIABLES
    last,       \* the number of rows written so far
    open,       \* the rows of transactions that have not ended
    committed,  \* history: the events of transactions that committed
    before,     \* history: before[f]: the events committed before f was written
    outbox,     \* the rows of the Outbox table
    locked,     \* the Redis key job:outbox:publish exists
    tick,       \* what each process is doing in tick()
    log,        \* the messages of each partition
    faults      \* the faults so far

vars == <<last, open, committed, before, outbox, locked, tick, log, faults>>

Tick == [pc: {"idle", "locked", "sending", "releasing"},
         rows: SUBSET Events, unsent: SUBSET Events]
IdleTick == [pc |-> "idle", rows |-> {}, unsent |-> {}]

Init ==
    /\ last = 0
    /\ open = {}
    /\ committed = {}
    /\ before = [e \in Events |-> {}]
    /\ outbox = {}
    /\ locked = FALSE
    /\ tick = [p \in Processes |-> IdleTick]
    /\ log = [s \in Streams |-> <<>>]
    /\ faults = 0

Fault == faults < MaxFaults /\ faults' = faults + 1

Copies(e) == {i \in 1 .. Len(log[StreamOf[e]]) : log[StreamOf[e]][i] = e}

-----------------------------------------------------------------------------
(* The producer.                                                           *)

WriteRowFault ==
    /\ last < MaxEvents
    /\ last' = last + 1
    /\ open' = open \cup {last + 1}
    /\ before' = [before EXCEPT ![last + 1] = committed]
    /\ outbox' = outbox \cup {last + 1}
    /\ UNCHANGED <<committed, locked, tick, log, faults>>

WriteRow ==
    /\ last < MaxEvents
    /\ last' = last + 1
    /\ open' = open \cup {last + 1}
    /\ before' = [before EXCEPT ![last + 1] = committed]
    /\ UNCHANGED <<committed, outbox, locked, tick, log, faults>>

CommitRow(e) ==
    /\ e \in open
    /\ open' = open \ {e}
    /\ committed' = committed \cup {e}
    /\ outbox' = outbox \cup {e}
    /\ UNCHANGED <<last, before, locked, tick, log, faults>>

RollBackRow(e) ==
    /\ e \in open
    /\ open' = open \ {e}
    /\ UNCHANGED <<last, committed, before, outbox, locked, tick, log, faults>>

-----------------------------------------------------------------------------
(* tick.  A second tick of a process that finds running set gives the lock *)
(* up again at once, which only shortens the life of the key: LockVanishes *)
(* covers it.                                                              *)

Acquire(p) ==
    /\ tick[p].pc = "idle"
    /\ ~locked
    /\ locked' = TRUE
    /\ tick' = [tick EXCEPT ![p].pc = "locked"]
    /\ UNCHANGED <<last, open, committed, before, outbox, log, faults>>

Abandoned == \A p \in Processes : tick[p].pc = "idle"

(* The key of a process that died expires.                                 *)
LockExpires ==
    /\ locked
    /\ Abandoned
    /\ locked' = FALSE
    /\ UNCHANGED <<last, open, committed, before, outbox, tick, log, faults>>

(* The key is gone while its tick is at work: not renewed in time, or      *)
(* deleted by a tick that had lost it before.                              *)
LockVanishes ==
    /\ locked
    /\ ~Abandoned
    /\ Fault
    /\ locked' = FALSE
    /\ UNCHANGED <<last, open, committed, before, outbox, tick, log>>

Oldest(rows, n) == {e \in rows : Cardinality({f \in rows : f < e}) < n}

Fetch(p) ==
    /\ tick[p].pc = "locked"
    /\ tick' = [tick EXCEPT ![p] =
                   [pc |-> IF outbox = {} THEN "releasing" ELSE "sending",
                    rows |-> Oldest(outbox, Batch),
                    unsent |-> Oldest(outbox, Batch)]]
    /\ UNCHANGED <<last, open, committed, before, outbox, locked, log, faults>>

EventTopic(e) == TopicOf[StreamOf[e]]

(* The topics are sent one after the other, in the order in which they     *)
(* first occur among the rows.                                             *)
TopicsTurn(p, e) ==
    \A f \in tick[p].unsent :
        EventTopic(f) = EventTopic(e)
        \/ \E g \in tick[p].rows : /\ EventTopic(g) = EventTopic(e)
                                   /\ \A h \in tick[p].rows :
                                         EventTopic(h) = EventTopic(f) => g < h

NextInStreamFault(p, e) == TRUE

NextInStream(p, e) ==
    \A f \in tick[p].unsent : StreamOf[f] = StreamOf[e] => e <= f

(* Kafka appends a message of the group being sent: those of one partition *)
(* in the order of the group.                                              *)
Append1(p, e) ==
    /\ tick[p].pc = "sending"
    /\ e \in tick[p].unsent
    /\ TopicsTurn(p, e)
    /\ NextInStream(p, e)
    /\ Len(log[StreamOf[e]]) < MaxLog
    /\ log' = [log EXCEPT ![StreamOf[e]] = Append(@, e)]
    /\ tick' = [tick EXCEPT ![p].unsent = @ \ {e}]
    /\ UNCHANGED <<last, open, committed, before, outbox, locked, faults>>

(* send rejects, whatever Kafka has appended by then.                      *)
SendFails(p) ==
    /\ tick[p].pc = "sending"
    /\ Fault
    /\ tick' = [tick EXCEPT ![p] = [IdleTick EXCEPT !.pc = "releasing"]]
    /\ UNCHANGED <<last, open, committed, before, outbox, locked, log>>

DeleteRowsFault(p) ==
    /\ tick[p].pc = "sending"
    /\ \E e \in tick[p].rows : e \notin tick[p].unsent
    /\ outbox' = outbox \ tick[p].rows
    /\ tick' = [tick EXCEPT ![p] = [IdleTick EXCEPT !.pc = "releasing"]]
    /\ UNCHANGED <<last, open, committed, before, locked, log, faults>>

DeleteRows(p) ==
    /\ tick[p].pc = "sending"
    /\ tick[p].unsent = {}
    /\ outbox' = outbox \ tick[p].rows
    /\ tick' = [tick EXCEPT ![p] = [IdleTick EXCEPT !.pc = "releasing"]]
    /\ UNCHANGED <<last, open, committed, before, locked, log, faults>>

(* finally: the key is deleted whoever holds it.                           *)
Release(p) ==
    /\ tick[p].pc = "releasing"
    /\ locked' = FALSE
    /\ tick' = [tick EXCEPT ![p] = IdleTick]
    /\ UNCHANGED <<last, open, committed, before, outbox, log, faults>>

(* The process dies; its key expires later (LockExpires).                   *)
CrashPublisher(p) ==
    /\ tick[p].pc # "idle"
    /\ Fault
    /\ tick' = [tick EXCEPT ![p] = IdleTick]
    /\ UNCHANGED <<last, open, committed, before, outbox, locked, log>>

-----------------------------------------------------------------------------

TickStep(p) ==
    \/ Fetch(p)
    \/ \E e \in Events : Append1(p, e)
    \/ DeleteRows(p)
    \/ Release(p)

Next ==
    \/ WriteRow
    \/ \E e \in Events : CommitRow(e) \/ RollBackRow(e)
    \/ LockExpires
    \/ LockVanishes
    \/ \E p \in Processes :
          Acquire(p) \/ TickStep(p) \/ SendFails(p) \/ CrashPublisher(p)

Spec == Init /\ [][Next]_vars

-----------------------------------------------------------------------------
(* Properties.                                                             *)

TypeOK ==
    /\ last \in 0 .. MaxEvents
    /\ open \subseteq Events
    /\ committed \subseteq Events
    /\ before \in [Events -> SUBSET Events]
    /\ outbox \subseteq committed
    /\ locked \in BOOLEAN
    /\ tick \in [Processes -> Tick]
    /\ log \in [Streams -> Seq(committed)]
    /\ faults \in 0 .. MaxFaults

(* An event whose transaction committed is in the table until Kafka has    *)
(* it, whoever crashes, loses the lock or publishes at the same time.      *)
NothingLost ==
    \A e \in committed : e \in outbox \/ Copies(e) # {}

(* Of two events of a stream, one committed before the other was written,  *)
(* the first copy of the earlier one comes first, however often the two    *)
(* are published and by however many processes at once.                    *)
FirstCopiesInOrder ==
    \A f \in Events : \A e \in before[f] :
        StreamOf[e] = StreamOf[f]
            => \A j \in Copies(f) : \E i \in Copies(e) : i < j
=============================================================================
