---------------------------- MODULE SearchIndex ----------------------------
(***************************************************************************)
(* SearchConsumer and SearchIndexerService: the rating that the search     *)
(* document of one property shows.  An event of a review makes the         *)
(* consumer of its partition read the property and hand the document to    *)
(* Meilisearch, which applies documents in the order it receives them.     *)
(* The reviews of one property are keyed by review, so two consumers of    *)
(* the group may index the property at the same time.                      *)
(*                                                                         *)
(* The events of the property and of its calendar, to which the consumer   *)
(* also subscribes, are emitted nowhere: the lowest price in the document  *)
(* follows the calendar only when a review changes.                        *)
(***************************************************************************)
EXTENDS Integers

CONSTANTS
    Indexers,    \* consumers of the group, each with its partition
    MaxRatings,  \* bound: changes of the rating
    MaxFailures  \* bound: calls that fail and processes that end

ASSUME IndexAssumption == {MaxRatings, MaxFailures} \subseteq Nat /\ "admin" \notin Indexers

VARIABLES
    rated,    \* how often the property's rating changed
    document, \* the rating the index shows
    inbox,    \* events of each partition that were not committed
    indexing,      \* what each consumer, and the administrator, is doing
    failures, \* failures so far
    missed,   \* history: an event was given up since the last newest document
    overtaken \* history: the document was replaced by an older one

indexVars == <<rated, document, inbox, indexing, failures, missed, overtaken>>

Times == 3    \* retry's times
Builders == Indexers \cup {"admin"}
NotIndexing == [at |-> "idle", seen |-> 0, tries |-> 0]

IndexInit ==
    /\ rated = 0 /\ document = 0
    /\ inbox = [i \in Indexers |-> 0]
    /\ indexing = [b \in Builders |-> NotIndexing]
    /\ failures = 0
    /\ missed = FALSE /\ overtaken = FALSE

-----------------------------------------------------------------------------

(* A review commits with its event, which the outbox may send twice.       *)
ReviewChanges(i) ==
    /\ rated < MaxRatings
    /\ rated' = rated + 1
    /\ \E copies \in {1, 2} : inbox' = [inbox EXCEPT ![i] = @ + copies]
    /\ UNCHANGED <<document, indexing, failures, missed, overtaken>>

(* eachMessage takes the partition's first event; reindexAll takes a row.  *)
TakeEvent(b) ==
    /\ indexing[b].at = "idle"
    /\ b \in Indexers => inbox[b] > 0
    /\ indexing' = [indexing EXCEPT ![b].at = "property"]
    /\ UNCHANGED <<rated, document, inbox, failures, missed, overtaken>>

(* buildPropertyDoc reads the property.                                    *)
ReadProperty(b) ==
    /\ indexing[b].at = "property"
    /\ indexing' = [indexing EXCEPT ![b].at = "upsert", ![b].seen = rated]
    /\ UNCHANGED <<rated, document, inbox, failures, missed, overtaken>>

FinishFault(b) == indexing' = [indexing EXCEPT ![b] = NotIndexing] /\ UNCHANGED inbox

(* The event is committed whether handle threw or not.                     *)
Finish(b) ==
    /\ indexing' = [indexing EXCEPT ![b] = NotIndexing]
    /\ inbox' = [i \in Indexers |-> inbox[i] - IF i = b THEN 1 ELSE 0]

(* upsertPropertyDocs.                                                     *)
Upsert(b) ==
    /\ indexing[b].at = "upsert"
    /\ document' = indexing[b].seen
    /\ overtaken' = (indexing[b].seen < rated /\ (overtaken \/ indexing[b].seen < document))
    /\ missed' = (missed /\ indexing[b].seen < rated)
    /\ Finish(b)
    /\ UNCHANGED <<rated, failures>>

GivesUp(b) == indexing[b].tries + 1 = Times \/ b = "admin"

(* A read or the call of Meilisearch fails: retry begins again, and after  *)
(* the third failure eachMessage logs the error and goes on.  A rebuild    *)
(* that fails leaves the document alone.                                   *)
Fails(b) ==
    /\ indexing[b].at # "idle"
    /\ failures < MaxFailures
    /\ failures' = failures + 1
    /\ IF GivesUp(b)
       THEN Finish(b) /\ missed' = (missed \/ b # "admin")
       ELSE /\ indexing' = [indexing EXCEPT ![b] = [NotIndexing EXCEPT !.at = "property", !.tries = indexing[b].tries + 1]]
            /\ UNCHANGED <<inbox, missed>>
    /\ UNCHANGED <<rated, document, overtaken>>

IndexerDiesFault(b) ==
    /\ indexing[b].at # "idle"
    /\ failures < MaxFailures
    /\ failures' = failures + 1
    /\ Finish(b)
    /\ UNCHANGED <<rated, document, missed, overtaken>>

(* The process ends: the event is read again by whoever gets the partition.*)
IndexerDies(b) ==
    /\ indexing[b].at # "idle"
    /\ failures < MaxFailures
    /\ failures' = failures + 1
    /\ indexing' = [indexing EXCEPT ![b] = NotIndexing]
    /\ UNCHANGED <<rated, document, inbox, missed, overtaken>>

Index(b) == TakeEvent(b) \/ ReadProperty(b) \/ Upsert(b)

IndexNext ==
    \/ \E i \in Indexers : ReviewChanges(i)
    \/ \E b \in Builders : Index(b) \/ Fails(b) \/ IndexerDies(b)

IndexSpec == IndexInit /\ [][IndexNext]_indexVars

(* kafkajs calls eachMessage as long as events remain; nobody is obliged   *)
(* to rebuild the index.                                                   *)
IndexFairness == \A i \in Indexers : WF_indexVars(Index(i))
IndexLiveSpec == IndexSpec /\ IndexFairness

-----------------------------------------------------------------------------

IndexTypeOK ==
    /\ rated \in 0..MaxRatings /\ document \in 0..rated
    /\ inbox \in [Indexers -> 0..2 * MaxRatings]
    /\ indexing \in [Builders -> [at : {"idle", "property", "upsert"}, seen : 0..rated, tries : 0..Times - 1]]

Settled == \A i \in Indexers : inbox[i] = 0

(* Once no event of the property is left, the index shows its rating,      *)
(* unless three calls in a row failed for an event or a slower consumer    *)
(* put an older document over a newer one.                                 *)
RatingReachesIndex ==
    Settled => document = rated \/ missed \/ overtaken

(* Every event leaves its partition, if only because it is given up.       *)
EventsDrain == \A i \in Indexers : inbox[i] > 0 ~> inbox[i] = 0
=============================================================================
