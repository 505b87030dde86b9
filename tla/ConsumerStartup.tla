-------------------------- MODULE ConsumerStartup ---------------------------
(***************************************************************************)
(* How the events consumer comes to read a topic: ensureTopics when the    *)
(* server starts, three attempts of initializeConsumer, and startConsumer, *)
(* which subscribes fromBeginning: false to the topics that were there.    *)
(* Where a group has committed no offset Kafka lets it start at the end of *)
(* the log.  What is done with a message is EventRelay's matter.           *)
(***************************************************************************)
EXTENDS Integers, FiniteSets

CONSTANTS
    Subscribed,   \* EVENT_TOPICS with the prefix
    MaxPublished, \* bound: events of a topic
    MaxStarts     \* bound: starts of the server

ASSUME StartupAssumption ==
    /\ MaxPublished \in Nat /\ MaxStarts \in Nat
    /\ Subscribed \cap {"down", "init", "joining", "idle", "running"} = {}

VARIABLES
    strict,     \* KAFKA_STRICT_TOPICS
    there,      \* topics the broker has
    published,  \* of each topic, how many events its log holds
    committed,  \* of each topic, the group's offset; -1 for none
    consumer,   \* the process: where it is, attempts left, its topics and positions
    joined,     \* history: the position the group last took without an offset
    handledTo,  \* history: of each topic, the events that were handled
    starts

startupVars == <<strict, there, published, committed, consumer, joined, handledTo, starts>>

NoPosition == [t \in Subscribed |-> -1]
Down == [at |-> "down", left |-> 0, topics |-> {}, position |-> NoPosition]

StartupInit ==
    /\ strict \in BOOLEAN
    /\ there \in SUBSET Subscribed
    /\ published = [t \in Subscribed |-> 0]
    /\ committed = NoPosition
    /\ consumer = Down
    /\ joined = NoPosition
    /\ handledTo = [t \in Subscribed |-> {}]
    /\ starts = 0

-----------------------------------------------------------------------------

(* ensureTopics creates what is missing, or fails before or after it did:  *)
(* bootstrap catches the error and goes on.                                *)
StartServer ==
    /\ consumer.at = "down"
    /\ starts < MaxStarts
    /\ starts' = starts + 1
    /\ there' \in {there, Subscribed}
    /\ consumer' = [Down EXCEPT !.at = "init", !.left = 3]
    /\ UNCHANGED <<strict, published, committed, joined, handledTo>>

(* The attempt failed: the broker is away, or strict and topics missing.   *)
(* After the third one onModuleInit throws, and the server does not start. *)
AttemptFails ==
    /\ consumer.at = "init"
    /\ consumer' = IF consumer.left = 1 THEN Down ELSE [consumer EXCEPT !.left = @ - 1]
    /\ UNCHANGED <<strict, there, published, committed, joined, handledTo, starts>>

(* The preflight passed: fetchTopicMetadata tells the topics there are.    *)
(* Without any, the consumer disconnects and nothing connects it again.    *)
Verified ==
    /\ consumer.at = "init"
    /\ strict => there = Subscribed
    /\ consumer' = [consumer EXCEPT !.at = IF there = {} THEN "idle" ELSE "joining",
                                    !.topics = there]
    /\ UNCHANGED <<strict, there, published, committed, joined, handledTo, starts>>

StartAt(t) == IF committed[t] >= 0 THEN committed[t] ELSE published[t]

(* subscribe to each of them, and run.                                     *)
Join ==
    /\ consumer.at = "joining"
    /\ consumer' = [consumer EXCEPT !.at = "running",
           !.position = [t \in Subscribed |-> IF t \in consumer.topics THEN StartAt(t) ELSE -1]]
    /\ joined' = [t \in Subscribed |->
           IF t \in consumer.topics /\ committed[t] < 0 THEN published[t] ELSE joined[t]]
    /\ UNCHANGED <<strict, there, published, committed, handledTo, starts>>

(* Messages are processed one at a time, and the offset is committed after *)
(* each of them.                                                           *)
Process(t) ==
    /\ consumer.at = "running"
    /\ t \in consumer.topics /\ consumer.position[t] < published[t]
    /\ handledTo' = [handledTo EXCEPT ![t] = @ \cup {consumer.position[t]}]
    /\ consumer' = [consumer EXCEPT !.at = t]
    /\ UNCHANGED <<strict, there, published, committed, joined, starts>>

CommitFirst(t) ==
    /\ consumer.at = t
    /\ committed' = [committed EXCEPT ![t] = consumer.position[t] + 1]
    /\ consumer' = [consumer EXCEPT !.at = "running", !.position[t] = @ + 1]
    /\ UNCHANGED <<strict, there, published, joined, handledTo, starts>>

(* onModuleDestroy, or the process is killed, at any point.                *)
StopServer ==
    /\ consumer.at # "down"
    /\ consumer' = Down
    /\ UNCHANGED <<strict, there, published, committed, joined, handledTo, starts>>

(* The outbox publisher, of this server or another one.                    *)
PublishTo(t) ==
    /\ t \in there
    /\ published[t] < MaxPublished
    /\ published' = [published EXCEPT ![t] = @ + 1]
    /\ UNCHANGED <<strict, there, committed, consumer, joined, handledTo, starts>>

StartupNext ==
    \/ StartServer \/ AttemptFails \/ Verified \/ Join \/ StopServer
    \/ \E t \in Subscribed : Process(t) \/ CommitFirst(t) \/ PublishTo(t)

StartupSpec == StartupInit /\ [][StartupNext]_startupVars

-----------------------------------------------------------------------------

StartupTypeOK ==
    /\ there \in SUBSET Subscribed
    /\ published \in [Subscribed -> 0..MaxPublished]
    /\ committed \in [Subscribed -> -1..MaxPublished]
    /\ joined \in [Subscribed -> -1..MaxPublished]
    /\ consumer.at \in {"down", "init", "joining", "idle", "running"} \cup Subscribed
    /\ consumer.left \in 0..3 /\ consumer.topics \subseteq there
    /\ consumer.position \in [Subscribed -> -1..MaxPublished]

(* Events are skipped only where the group has no offset yet: of all that  *)
(* lie between the place it once joined at and the offset it has committed *)
(* or the position it reads at, none is left out, whatever stops and       *)
(* starts, and a topic that was created late begins with its next join.    *)
SkippedBeforeJoinOnly ==
    \A t \in Subscribed :
        /\ joined[t]..(committed[t] - 1) \subseteq handledTo[t]
        /\ consumer.position[t] >= 0 =>
              joined[t] >= 0 /\ joined[t]..(consumer.position[t] - 1) \subseteq handledTo[t]

(* A strict consumer reads every topic or none, and no consumer handles    *)
(* an event of a topic that it did not find when it started.               *)
StrictReadsAll ==
    /\ strict /\ consumer.at \notin {"down", "init"} => consumer.topics = Subscribed
    /\ \A t \in Subscribed : consumer.position[t] >= 0 => t \in consumer.topics
=============================================================================
