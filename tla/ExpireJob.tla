----------------------------- MODULE ExpireJob -----------------------------
(***************************************************************************)
(* The job that ends overdue holds, on every instance of the server: once  *)
(* a minute each takes a Redis lock with a life of 55 seconds, lists the   *)
(* overdue holds in batches, ends each in a transaction of its own and     *)
(* deletes the lock, whoever holds it by then.                             *)
(***************************************************************************)
EXTENDS Integers, FiniteSets

CONSTANTS
    Instances, \* server processes with the cron job
    OpenHolds,     \* bookings in HOLD or REVIEW
    BatchSize, \* take: 200 in the code
    MaxStops   \* bound: transactions that fail, processes that die, overrun locks

ASSUME ExpireAssumption == BatchSize \in Nat \ {0} /\ MaxStops \in Nat

VARIABLES
    hold,  \* open, due, ended or settled
    lock,  \* job:expire-holds exists
    tick,   \* each instance's run: state, cut-off and the rest of its batch
    given, \* history: how often a hold's nights were returned
    stops  \* so far

expireVars == <<hold, lock, tick, given, stops>>

Between == [at |-> "idle", now |-> {}, batch |-> {}]

ExpireInit ==
    /\ hold = [b \in OpenHolds |-> "open"]
    /\ lock = FALSE
    /\ tick = [i \in Instances |-> Between]
    /\ given = [b \in OpenHolds |-> 0]
    /\ stops = 0

-----------------------------------------------------------------------------

(* holdExpiresAt passes, or the booking leaves HOLD and REVIEW first.      *)
DeadlinePasses(b) ==
    /\ hold[b] = "open"
    /\ hold' = [hold EXCEPT ![b] = "due"]
    /\ UNCHANGED <<lock, tick, given, stops>>

PayHold(b) ==
    /\ hold[b] \in {"open", "due"}
    /\ hold' = [hold EXCEPT ![b] = "settled"]
    /\ UNCHANGED <<lock, tick, given, stops>>

(* The cron fires: SET NX EX, with now taken when expireHolds is called.   *)
StartJob(i) ==
    /\ tick[i].at = "idle"
    /\ ~lock
    /\ lock' = TRUE
    /\ tick' = [tick EXCEPT ![i] = [Between EXCEPT !.at = "list", !.now = {b \in OpenHolds : hold[b] = "due"}]]
    /\ UNCHANGED <<hold, given, stops>>

Overdue(i) == {b \in tick[i].now : hold[b] = "due"}

ListHolds(i) ==
    /\ tick[i].at = "list"
    /\ \E batch \in SUBSET Overdue(i) :
          /\ Cardinality(batch) = IF Cardinality(Overdue(i)) < BatchSize THEN Cardinality(Overdue(i)) ELSE BatchSize
          /\ tick' = [tick EXCEPT ![i].batch = batch, ![i].at = IF batch = {} THEN "finally" ELSE "work"]
    /\ UNCHANGED <<hold, lock, given, stops>>

EndableFault(b) == hold[b] # "settled"

(* updateMany counts no row for a hold that has left its status.           *)
Endable(b) == hold[b] = "due"

EndHold(i, b) ==
    /\ tick[i].at = "work"
    /\ b \in tick[i].batch
    /\ IF Endable(b)
       THEN hold' = [hold EXCEPT ![b] = "ended"] /\ given' = [given EXCEPT ![b] = @ + 1]
       ELSE UNCHANGED <<hold, given>>
    /\ tick' = [tick EXCEPT ![i].batch = @ \ {b}, ![i].at = IF tick[i].batch = {b} THEN "list" ELSE @]
    /\ UNCHANGED <<lock, stops>>

Stop == stops < MaxStops /\ stops' = stops + 1

(* A transaction throws: the run is over.                                  *)
JobThrows(i) ==
    /\ tick[i].at \in {"list", "work"}
    /\ Stop
    /\ tick' = [tick EXCEPT ![i] = [Between EXCEPT !.at = "finally"]]
    /\ UNCHANGED <<hold, lock, given>>

(* DEL without a token.                                                    *)
FinishJob(i) ==
    /\ tick[i].at = "finally"
    /\ lock' = FALSE
    /\ tick' = [tick EXCEPT ![i] = Between]
    /\ UNCHANGED <<hold, given, stops>>

JobDies(i) ==
    /\ tick[i].at # "idle"
    /\ Stop
    /\ tick' = [tick EXCEPT ![i] = Between]
    /\ UNCHANGED <<hold, lock, given>>

LockExpiresFault ==
    /\ lock
    /\ \E i \in Instances : tick[i].at # "idle"
    /\ Stop
    /\ lock' = FALSE
    /\ UNCHANGED <<hold, tick, given>>

(* 55 seconds: while a slow run goes on, or after its process has died.    *)
LockExpires ==
    /\ lock
    /\ IF \E i \in Instances : tick[i].at # "idle" THEN Stop ELSE UNCHANGED stops
    /\ lock' = FALSE
    /\ UNCHANGED <<hold, tick, given>>

ExpireNext ==
    \/ \E b \in OpenHolds : DeadlinePasses(b) \/ PayHold(b)
    \/ \E i \in Instances :
          \/ StartJob(i) \/ ListHolds(i) \/ JobThrows(i) \/ FinishJob(i) \/ JobDies(i)
          \/ \E b \in OpenHolds : EndHold(i, b)
    \/ LockExpires

ExpireSpec == ExpireInit /\ [][ExpireNext]_expireVars

(* The cron fires for ever, so when the lock is free again and again some  *)
(* instance takes it; a run goes on; Redis forgets the key.                *)
ExpireFairness ==
    /\ SF_expireVars(\E i \in Instances : StartJob(i))
    /\ \A i \in Instances :
          WF_expireVars(ListHolds(i) \/ FinishJob(i) \/ \E b \in OpenHolds : EndHold(i, b))
    /\ WF_expireVars(LockExpires)

ExpireLiveSpec == ExpireSpec /\ ExpireFairness

-----------------------------------------------------------------------------

(* Two runs at a time, after a lock was overrun or deleted by another run, *)
(* end a hold once, and never one that was paid for.                       *)
NightsGivenOnce ==
    \A b \in OpenHolds : given[b] = IF hold[b] = "ended" THEN 1 ELSE 0

(* Whatever fails, every overdue hold ends.                                *)
OverdueEnds == \A b \in OpenHolds : hold[b] = "due" ~> hold[b] # "due"
=============================================================================
