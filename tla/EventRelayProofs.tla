-------------------------- MODULE EventRelayProofs --------------------------
(***************************************************************************)
(* Proofs that no event is lost or overtaken on its way from a transaction *)
(* to the coordinator, for any number of rows, processes, members, batches *)
(* and faults.                                                             *)
(*                                                                         *)
(* The publisher: what a tick has fetched and no longer has to send is in  *)
(* Kafka, so rows leave the table only after that; and a batch is a prefix *)
(* of the table, so an event committed before f was written is in every    *)
(* batch with f, or was deleted from the table before and is in Kafka.     *)
(*                                                                         *)
(* The consumer: whoever works on a message has all that precede it in the *)
(* partition behind it, handled, even after a rebalance; so do the commit  *)
(* of an offset and, with the order of first copies, each handling.        *)
(***************************************************************************)
EXTENDS EventRelay, FiniteSetTheorems, TLAPS

InKafka(e) == Copies(e) # {}

(* Rows are numbered by last, and before points backwards.                 *)
Numbered ==
    /\ \A e \in open \cup committed : e <= last
    /\ \A f \in Events : f > last => before[f] = {} /\ f \notin open \cup committed
    /\ \A f \in Events : \A e \in before[f] : e < f /\ e \in committed

(* A tick sends what it fetched; what it has sent is in Kafka.             *)
Sent ==
    \A p \in Processes :
        /\ tick[p].unsent \subseteq tick[p].rows
        /\ tick[p].rows \subseteq committed
        /\ \A e \in tick[p].rows : e \in tick[p].unsent \/ InKafka(e)

(* An earlier event of f's stream is in the batch of f, or in Kafka.       *)
Prefix ==
    \A p \in Processes : \A f \in tick[p].rows : \A e \in before[f] :
        StreamOf[e] = StreamOf[f] => e \in tick[p].rows \/ InKafka(e)

RelayInv == TypeOK /\ Numbered /\ NothingLost /\ Sent /\ Prefix /\ FirstCopiesInOrder

-----------------------------------------------------------------------------

LEMMA EventsFinite == \A rows \in SUBSET Events : IsFiniteSet(rows)
  <1>1. IsFiniteSet(Events)
    BY FS_Interval, PublisherAssumption DEF Events
  <1> QED
    BY <1>1, FS_Subset

(* Oldest takes rows from the front.                                       *)
LEMMA OldestIsPrefix ==
    ASSUME NEW rows \in SUBSET Events, NEW n \in Nat,
           NEW f \in Oldest(rows, n), NEW e \in rows, e < f
    PROVE  e \in Oldest(rows, n)
  <1> DEFINE Below(g) == {h \in rows : h < g}
  <1>0. f \in rows
    BY DEF Oldest
  <1>1. Below(e) \subseteq Below(f)
    <2>1. \A h \in rows : h \in Int
      BY PublisherAssumption DEF Events
    <2>2. \A h \in rows : h < e => h < f
      BY <1>0, <2>1
    <2> QED
      BY <2>2
  <1>2. IsFiniteSet(Below(e)) /\ IsFiniteSet(Below(f))
    BY EventsFinite
  <1>3. Cardinality(Below(e)) <= Cardinality(Below(f))
    BY <1>1, <1>2, FS_Subset
  <1>4. Cardinality(Below(f)) < n
    BY DEF Oldest
  <1>5. Cardinality(Below(e)) \in Nat /\ Cardinality(Below(f)) \in Nat
    BY <1>2, FS_CardinalityType
  <1>6. Cardinality(Below(e)) < n
    BY <1>3, <1>4, <1>5
  <1> QED
    BY <1>6 DEF Oldest

LEMMA InitRelay == Init => RelayInv
  <1> SUFFICES ASSUME Init
               PROVE  RelayInv
    OBVIOUS
  <1>1. IdleTick \in Tick /\ IdleTick.rows = {} /\ IdleTick.unsent = {}
    BY DEF Tick, IdleTick
  <1>2. log \in [Streams -> Seq(committed)]
    BY DEF Init
  <1>3. locked \in BOOLEAN
    BY DEF Init
  <1>4. TypeOK
    BY <1>1, <1>2, <1>3, PublisherAssumption DEF Init, TypeOK
  <1>5. Numbered /\ NothingLost /\ FirstCopiesInOrder
    BY DEF Init, Numbered, NothingLost, FirstCopiesInOrder
  <1>6. Sent /\ Prefix
    BY <1>1 DEF Init, Sent, Prefix
  <1> QED
    BY <1>4, <1>5, <1>6 DEF RelayInv

(* Steps that change neither the log nor the ticks keep what is in Kafka.  *)
LEMMA CopiesKept ==
    ASSUME log' = log
    PROVE  \A e : Copies(e)' = Copies(e) /\ (InKafka(e)' <=> InKafka(e))
  BY DEF Copies, InKafka

LEMMA WriteKeeps ==
    ASSUME RelayInv, WriteRow
    PROVE  RelayInv'
  <1>1. /\ last \in 0 .. MaxEvents /\ last + 1 \in Events
        /\ last' = last + 1
        /\ open' = open \cup {last + 1}
        /\ before' = [before EXCEPT ![last + 1] = committed]
        /\ UNCHANGED <<committed, outbox, locked, tick, log, faults>>
    BY PublisherAssumption DEF WriteRow, RelayInv, TypeOK, Events
  <1>2. TypeOK'
    BY <1>1, PublisherAssumption DEF RelayInv, TypeOK, Events
  <1>3. \A f \in Events : before'[f] = IF f = last + 1 THEN committed ELSE before[f]
    BY <1>1 DEF RelayInv, TypeOK
  <1>4. \A e \in committed : e \in Nat /\ e <= last
    BY <1>1 DEF RelayInv, TypeOK, Numbered, Events
  <1>5. Numbered'
    <2>1. \A e \in open' \cup committed' : e <= last'
      BY <1>1, <1>4 DEF RelayInv, TypeOK, Numbered, Events
    <2>2. \A f \in Events : f > last' => before'[f] = {} /\ f \notin open' \cup committed'
      BY <1>1, <1>3 DEF RelayInv, Numbered, Events
    <2>3. \A f \in Events : \A e \in before'[f] : e < f /\ e \in committed'
      BY <1>1, <1>3, <1>4 DEF RelayInv, Numbered
    <2> QED
      BY <2>1, <2>2, <2>3 DEF Numbered
  <1>6. NothingLost' /\ Sent'
    BY <1>1, CopiesKept DEF RelayInv, NothingLost, Sent
  <1>7. \A p \in Processes : last + 1 \notin tick[p].rows
    BY <1>1, <1>4 DEF RelayInv, Sent
  <1>8. Prefix'
    BY <1>1, <1>3, <1>7, CopiesKept DEF RelayInv, Prefix, Sent, TypeOK
  <1>9. Copies(last + 1) = {}
    <2> SUFFICES ASSUME NEW i \in 1 .. Len(log[StreamOf[last + 1]]),
                        log[StreamOf[last + 1]][i] = last + 1
                 PROVE  FALSE
      BY DEF Copies
    <2>1. log[StreamOf[last + 1]] \in Seq(committed)
      BY <1>1, PublisherAssumption DEF RelayInv, TypeOK
    <2>2. log[StreamOf[last + 1]][i] \in committed
      BY <2>1
    <2> QED
      BY <1>1, <1>4, <2>2
  <1>10. FirstCopiesInOrder'
    BY <1>1, <1>3, <1>9, CopiesKept DEF RelayInv, FirstCopiesInOrder
  <1> QED
    BY <1>2, <1>5, <1>6, <1>8, <1>10 DEF RelayInv

LEMMA CommitKeeps ==
    ASSUME RelayInv, NEW e \in Events, CommitRow(e)
    PROVE  RelayInv'
  <1>1. /\ e \in open
        /\ open' = open \ {e}
        /\ committed' = committed \cup {e}
        /\ outbox' = outbox \cup {e}
        /\ UNCHANGED <<last, before, locked, tick, log, faults>>
    BY DEF CommitRow
  <1>2. \A s \in Streams : log[s] \in Seq(committed')
    <2> SUFFICES ASSUME NEW s \in Streams
                 PROVE  log[s] \in Seq(committed')
      OBVIOUS
    <2>1. log[s] \in Seq(committed)
      BY DEF RelayInv, TypeOK
    <2> QED
      BY <1>1, <2>1
  <1>3. TypeOK'
    <2>1. log \in [Streams -> Seq(committed')]
      BY <1>2 DEF RelayInv, TypeOK
    <2> QED
      BY <1>1, <2>1 DEF RelayInv, TypeOK
  <1>4. Numbered'
    BY <1>1 DEF RelayInv, Numbered, TypeOK
  <1>5. NothingLost'
    BY <1>1, CopiesKept DEF RelayInv, NothingLost, InKafka
  <1>6. Sent' /\ Prefix'
    BY <1>1, CopiesKept DEF RelayInv, Sent, Prefix
  <1>7. FirstCopiesInOrder'
    BY <1>1, CopiesKept DEF RelayInv, FirstCopiesInOrder
  <1> QED
    BY <1>3, <1>4, <1>5, <1>6, <1>7 DEF RelayInv

(* A row that is rolled back, and the steps of the lock.                   *)
LEMMA QuietKeeps ==
    ASSUME RelayInv,
           open' \subseteq open, locked' \in BOOLEAN, faults' \in 0 .. MaxFaults,
           UNCHANGED <<last, committed, before, outbox, tick, log>>
    PROVE  RelayInv'
  BY CopiesKept DEF RelayInv, TypeOK, Numbered, NothingLost, Sent, Prefix, FirstCopiesInOrder,
     InKafka

(* A tick that forgets its rows, or has none.                              *)
LEMMA IdleKeeps ==
    ASSUME RelayInv, NEW p \in Processes, NEW t \in Tick,
           t.rows = {}, t.unsent = {},
           tick' = [tick EXCEPT ![p] = t],
           locked' \in BOOLEAN, faults' \in 0 .. MaxFaults,
           UNCHANGED <<last, open, committed, before, outbox, log>>
    PROVE  RelayInv'
  <1>1. \A q \in Processes : tick'[q] = IF q = p THEN t ELSE tick[q]
    BY DEF RelayInv, TypeOK
  <1>2. TypeOK'
    BY DEF RelayInv, TypeOK
  <1>3. Sent' /\ Prefix'
    BY <1>1, CopiesKept DEF RelayInv, Sent, Prefix
  <1> QED
    BY <1>2, <1>3, CopiesKept DEF RelayInv, Numbered, NothingLost, FirstCopiesInOrder, InKafka

LEMMA AcquireKeeps ==
    ASSUME RelayInv, NEW p \in Processes, Acquire(p)
    PROVE  RelayInv'
  <1>1. /\ tick' = [tick EXCEPT ![p].pc = "locked"]
        /\ locked' = TRUE
        /\ UNCHANGED <<last, open, committed, before, outbox, log, faults>>
    BY DEF Acquire
  <1>2. tick[p] \in Tick
    BY DEF RelayInv, TypeOK
  <1>3. tick' \in [Processes -> Tick]
    BY <1>1, <1>2 DEF RelayInv, TypeOK, Tick
  <1>4. \A q \in Processes : tick'[q].rows = tick[q].rows /\ tick'[q].unsent = tick[q].unsent
    BY <1>1, <1>2 DEF RelayInv, TypeOK, Tick
  <1>5. Sent' /\ Prefix'
    BY <1>1, <1>4, CopiesKept DEF RelayInv, Sent, Prefix
  <1> QED
    BY <1>1, <1>3, <1>5, CopiesKept DEF RelayInv, TypeOK, Numbered, NothingLost,
       FirstCopiesInOrder, InKafka

(* What is fetched is a prefix of the table.                               *)
LEMMA FetchKeeps ==
    ASSUME RelayInv, NEW p \in Processes, Fetch(p)
    PROVE  RelayInv'
  <1> DEFINE batch == Oldest(outbox, Batch)
  <1>1. UNCHANGED <<last, open, committed, before, outbox, locked, log, faults>>
    BY DEF Fetch
  <1>2. batch \subseteq outbox /\ outbox \subseteq committed /\ committed \subseteq Events
    BY DEF Oldest, RelayInv, TypeOK
  <1>3. \A f \in batch : \A e \in before[f] : e \in batch \/ InKafka(e)
    <2> SUFFICES ASSUME NEW f \in batch, NEW e \in before[f], ~InKafka(e)
                 PROVE  e \in batch
      OBVIOUS
    <2>1. f \in Events
      BY <1>2
    <2>2. e < f /\ e \in committed
      BY <2>1 DEF RelayInv, Numbered
    <2>3. e \in outbox
      BY <2>2 DEF RelayInv, NothingLost, InKafka
    <2> QED
      BY <1>2, <2>2, <2>3, OldestIsPrefix, PublisherAssumption
  <1> HIDE DEF batch
  <1>4. /\ tick'[p].rows = batch
        /\ tick'[p].unsent = batch
        /\ \A q \in Processes \ {p} : tick'[q] = tick[q]
        /\ tick' \in [Processes -> Tick]
    BY <1>2 DEF Fetch, RelayInv, TypeOK, Tick, batch
  <1>5. Sent'
    BY <1>1, <1>2, <1>4, CopiesKept DEF RelayInv, Sent
  <1>6. Prefix'
    BY <1>1, <1>3, <1>4, CopiesKept DEF RelayInv, Prefix
  <1> QED
    BY <1>1, <1>4, <1>5, <1>6, CopiesKept DEF RelayInv, TypeOK, Numbered, NothingLost,
       FirstCopiesInOrder, InKafka

(* A message is appended behind all messages of its partition.             *)
LEMMA AppendKeeps ==
    ASSUME RelayInv, NEW p \in Processes, NEW e \in Events, Append1(p, e)
    PROVE  RelayInv'
  <1> DEFINE s == StreamOf[e]
             end == Len(log[s]) + 1
  <1>1. /\ e \in tick[p].unsent
        /\ NextInStream(p, e)
        /\ log' = [log EXCEPT ![s] = Append(@, e)]
        /\ tick' = [tick EXCEPT ![p].unsent = @ \ {e}]
        /\ UNCHANGED <<last, open, committed, before, outbox, locked, faults>>
    BY DEF Append1
  <1>2. s \in Streams /\ log[s] \in Seq(committed) /\ end \in Nat /\ Len(log[s]) \in Nat
    BY PublisherAssumption DEF RelayInv, TypeOK
  <1>3. e \in tick[p].rows /\ e \in committed
    BY <1>1 DEF RelayInv, Sent
  <1>4. /\ log'[s] = Append(log[s], e)
        /\ \A r \in Streams \ {s} : log'[r] = log[r]
        /\ log' \in [Streams -> Seq(committed)]
    BY <1>1, <1>2, <1>3 DEF RelayInv, TypeOK
  <1>5. /\ Len(log'[s]) = end
        /\ log'[s][end] = e
        /\ \A i \in 1 .. Len(log[s]) : log'[s][i] = log[s][i]
    BY <1>2, <1>3, <1>4
  <1> HIDE DEF end
  <1>6. \A f \in Events \ {e} : Copies(f)' = Copies(f)
    <2> SUFFICES ASSUME NEW f \in Events, f # e
                 PROVE  Copies(f)' = Copies(f)
      OBVIOUS
    <2>1. StreamOf[f] \in Streams
      BY PublisherAssumption
    <2>2. CASE StreamOf[f] = s
      BY <1>2, <1>4, <1>5, <2>2 DEF Copies, end
    <2>3. CASE StreamOf[f] # s
      BY <1>4, <2>1, <2>3 DEF Copies
    <2> QED
      BY <2>2, <2>3
  <1>7. Copies(e)' = Copies(e) \cup {end}
    BY <1>2, <1>4, <1>5 DEF Copies, end
  <1>8. \A f \in Events : Copies(f) \subseteq Copies(f)'
    BY <1>6, <1>7
  <1>9. InKafka(e)' /\ \A f \in Events : InKafka(f) => InKafka(f)'
    BY <1>7, <1>8 DEF InKafka
  <1>10. tick[p] \in Tick
    BY DEF RelayInv, TypeOK
  <1>11. /\ tick' \in [Processes -> Tick]
         /\ \A q \in Processes : tick'[q].rows = tick[q].rows
         /\ tick'[p].unsent = tick[p].unsent \ {e}
         /\ \A q \in Processes \ {p} : tick'[q].unsent = tick[q].unsent
    BY <1>1, <1>10 DEF RelayInv, TypeOK, Tick
  <1>12. TypeOK'
    BY <1>1, <1>4, <1>11 DEF RelayInv, TypeOK
  <1>13. Numbered'
    BY <1>1 DEF RelayInv, Numbered
  <1>14. NothingLost'
    BY <1>1, <1>9 DEF RelayInv, NothingLost, InKafka, TypeOK
  <1>15. Sent'
    BY <1>1, <1>9, <1>11 DEF RelayInv, Sent, TypeOK
  <1>16. Prefix'
    BY <1>1, <1>9, <1>11 DEF RelayInv, Prefix, TypeOK, Sent
  <1>17. FirstCopiesInOrder'
    <2> SUFFICES ASSUME NEW f \in Events, NEW g \in before[f],
                        StreamOf[g] = StreamOf[f],
                        NEW j \in Copies(f)'
                 PROVE  \E i \in Copies(g)' : i < j
      BY <1>1 DEF FirstCopiesInOrder
    <2>1. g \in Events /\ g < f
      BY DEF RelayInv, TypeOK, Numbered
    <2>2. CASE j \in Copies(f)
      <3>1. PICK i \in Copies(g) : i < j
        BY <2>2 DEF RelayInv, FirstCopiesInOrder
      <3> QED
        BY <1>8, <2>1, <3>1
    <2>3. CASE j \notin Copies(f)
      <3>1. f = e /\ j = end
        BY <1>6, <1>7, <2>3
      <3>2. g \in tick[p].rows \/ InKafka(g)
        BY <1>3, <3>1 DEF RelayInv, Prefix
      <3>3. g \notin tick[p].unsent
        BY <1>1, <2>1, <3>1 DEF NextInStream, Events
      <3>4. InKafka(g)
        BY <3>2, <3>3 DEF RelayInv, Sent
      <3>5. PICK i : i \in Copies(g)
        BY <3>4 DEF InKafka
      <3>6. i \in 1 .. Len(log[s])
        BY <3>1, <3>5 DEF Copies
      <3>7. i < j
        BY <1>2, <3>1, <3>6 DEF end
      <3> QED
        BY <1>8, <2>1, <3>5, <3>7
    <2> QED
      BY <2>2, <2>3
  <1> QED
    BY <1>12, <1>13, <1>14, <1>15, <1>16, <1>17 DEF RelayInv

(* Rows are deleted when all of them are in Kafka.                         *)
LEMMA DeleteKeeps ==
    ASSUME RelayInv, NEW p \in Processes, DeleteRows(p)
    PROVE  RelayInv'
  <1>1. /\ tick[p].unsent = {}
        /\ outbox' = outbox \ tick[p].rows
        /\ tick' = [tick EXCEPT ![p] = [IdleTick EXCEPT !.pc = "releasing"]]
        /\ UNCHANGED <<last, open, committed, before, locked, log, faults>>
    BY DEF DeleteRows
  <1>2. /\ tick' \in [Processes -> Tick]
        /\ tick'[p].rows = {} /\ tick'[p].unsent = {}
        /\ \A q \in Processes \ {p} : tick'[q] = tick[q]
    BY <1>1 DEF RelayInv, TypeOK, Tick, IdleTick
  <1>3. \A e \in tick[p].rows : InKafka(e)
    BY <1>1 DEF RelayInv, Sent
  <1>4. TypeOK' /\ Numbered'
    BY <1>1, <1>2 DEF RelayInv, TypeOK, Numbered
  <1>5. NothingLost'
    BY <1>1, <1>3, CopiesKept DEF RelayInv, NothingLost, InKafka
  <1>6. Sent' /\ Prefix'
    BY <1>1, <1>2, CopiesKept DEF RelayInv, Sent, Prefix
  <1>7. FirstCopiesInOrder'
    BY <1>1, CopiesKept DEF RelayInv, FirstCopiesInOrder
  <1> QED
    BY <1>4, <1>5, <1>6, <1>7 DEF RelayInv

-----------------------------------------------------------------------------

(* RelayInv is inductive.                                                  *)
LEMMA PublisherStepInv == RelayInv /\ [Next]_vars => RelayInv'
    <2> SUFFICES ASSUME RelayInv, [Next]_vars
                 PROVE  RelayInv'
      OBVIOUS
    <2>1. faults \in 0 .. MaxFaults /\ MaxFaults \in Nat /\ locked \in BOOLEAN
      BY PublisherAssumption DEF RelayInv, TypeOK
    <2>0. Fault => faults' \in 0 .. MaxFaults
      BY <2>1 DEF Fault
    <2>2. CASE WriteRow
      BY <2>2, WriteKeeps
    <2>3. ASSUME NEW e \in Events, CommitRow(e) \/ RollBackRow(e)
          PROVE  RelayInv'
      <3>1. CASE CommitRow(e)
        BY <3>1, CommitKeeps
      <3>2. CASE RollBackRow(e)
        BY <2>1, <3>2, QuietKeeps DEF RollBackRow
      <3> QED
        BY <2>3, <3>1, <3>2
    <2>4. CASE LockExpires \/ LockVanishes
      <3>1. /\ locked' = FALSE
            /\ UNCHANGED <<last, open, committed, before, outbox, tick, log>>
        BY <2>4 DEF LockExpires, LockVanishes
      <3>2. faults' \in 0 .. MaxFaults
        BY <2>0, <2>1, <2>4 DEF LockExpires, LockVanishes
      <3>3. locked' \in BOOLEAN
        BY <3>1
      <3> QED
        BY <3>1, <3>2, <3>3, QuietKeeps
    <2>5. ASSUME NEW p \in Processes,
                 Acquire(p) \/ TickStep(p) \/ SendFails(p) \/ CrashPublisher(p)
          PROVE  RelayInv'
      <3>1. CASE Acquire(p)
        BY <3>1, AcquireKeeps
      <3>2. CASE Fetch(p)
        BY <3>2, FetchKeeps
      <3>3. CASE \E e \in Events : Append1(p, e)
        BY <3>3, AppendKeeps
      <3>4. CASE DeleteRows(p)
        BY <3>4, DeleteKeeps
      <3>5. IdleTick \in Tick /\ [IdleTick EXCEPT !.pc = "releasing"] \in Tick
        BY DEF IdleTick, Tick
      <3>6. CASE Release(p)
        BY <2>1, <3>5, <3>6, IdleKeeps DEF Release, IdleTick
      <3>7. CASE SendFails(p)
        <4>1. locked' \in BOOLEAN
          BY <2>1, <3>7 DEF SendFails
        <4> QED
          BY <2>0, <3>5, <3>7, <4>1, IdleKeeps DEF SendFails, IdleTick
      <3>8. CASE CrashPublisher(p)
        <4>1. locked' \in BOOLEAN
          BY <2>1, <3>8 DEF CrashPublisher
        <4> QED
          BY <2>0, <3>5, <3>8, <4>1, IdleKeeps DEF CrashPublisher, IdleTick
      <3> QED
        BY <2>5, <3>1, <3>2, <3>3, <3>4, <3>6, <3>7, <3>8 DEF TickStep
    <2>6. CASE UNCHANGED vars
      BY <2>1, <2>6, QuietKeeps DEF vars
    <2> QED
      BY <2>2, <2>3, <2>4, <2>5, <2>6 DEF Next

THEOREM RelayInvariant == Spec => []RelayInv
  BY InitRelay, PublisherStepInv, PTL DEF Spec

(* The types of the state: the table and Kafka hold committed events only. *)
THEOREM PublisherTyped == Spec => []TypeOK
  <1>1. RelayInv => TypeOK
    BY DEF RelayInv
  <1> QED
    BY RelayInvariant, <1>1, PTL

(* No event of a committed transaction is lost on the way to Kafka.        *)
THEOREM PublisherLosesNothing == Spec => []NothingLost
  <1>1. RelayInv => NothingLost
    BY DEF RelayInv
  <1> QED
    BY RelayInvariant, <1>1, PTL

(* The first copies of a stream's events arrive in the order of their      *)
(* causes.                                                                 *)
THEOREM PublisherKeepsOrder == Spec => []FirstCopiesInOrder
  <1>1. RelayInv => FirstCopiesInOrder
    BY DEF RelayInv
  <1> QED
    BY RelayInvariant, <1>1, PTL

-----------------------------------------------------------------------------
(* The consumer.                                                           *)

(* Offsets lie within the logs, and whoever works on a message has all     *)
(* that precede it behind it, handled.                                     *)
ReadInTurn ==
    /\ offset \in [Streams -> Nat]
    /\ \A s \in Streams : offset[s] <= Len(log[s])
    /\ handled \subseteq committed
    /\ processed \subseteq handled
    /\ \A w \in work :
          /\ w \in [by : Members, pc : {"handling", "handled", "recorded"},
                    stream : Streams, index : Nat]
          /\ w.index \in 1 .. Len(log[w.stream])
          /\ \A i \in 1 .. (w.index - 1) : log[w.stream][i] \in handled
          /\ w.pc # "handling" => EventOf(w) \in handled

(* A partition holds the events of its own stream.                         *)
OwnStream ==
    \A s \in Streams : \A i \in 1 .. Len(log[s]) : StreamOf[log[s][i]] = s

ConsumerInv == RelayInv /\ OwnStream /\ ReadInTurn /\ OffsetMeansHandled

(* Kafka appends, and takes nothing back.                                  *)
Appended ==
    \A s \in Streams :
        /\ Len(log[s]) <= Len(log'[s])
        /\ \A i \in 1 .. Len(log[s]) : log'[s][i] = log[s][i]

LEMMA LogsAppend ==
    ASSUME RelayInv, [Next]_vars
    PROVE  Appended
  <1>1. log \in [Streams -> Seq(committed)]
    BY DEF RelayInv, TypeOK
  <1>2. ASSUME NEW p \in Processes, NEW e \in Events, Append1(p, e)
        PROVE  Appended
    <2>1. log' = [log EXCEPT ![StreamOf[e]] = Append(@, e)]
      BY <1>2 DEF Append1
    <2>2. StreamOf[e] \in Streams
      BY PublisherAssumption
    <2> QED
      BY <1>1, <2>1, <2>2 DEF Appended
  <1>3. CASE log' = log
    BY <1>1, <1>3 DEF Appended
  <1>4. log' = log \/ \E p \in Processes : \E e \in Events : Append1(p, e)
    BY DEF Next, WriteRow, CommitRow, RollBackRow, LockExpires, LockVanishes, Acquire, TickStep,
           Fetch, DeleteRows, Release, SendFails, CrashPublisher, vars
  <1> QED
    BY <1>2, <1>3, <1>4

LEMMA PublisherKeepsStreams ==
    ASSUME RelayInv, OwnStream, [Next]_vars
    PROVE  OwnStream'
  <1>1. log \in [Streams -> Seq(committed)]
    BY DEF RelayInv, TypeOK
  <1>2. ASSUME NEW p \in Processes, NEW e \in Events, Append1(p, e)
        PROVE  OwnStream'
    <2>1. log' = [log EXCEPT ![StreamOf[e]] = Append(@, e)]
      BY <1>2 DEF Append1
    <2>2. StreamOf[e] \in Streams
      BY PublisherAssumption
    <2> QED
      BY <1>1, <2>1, <2>2 DEF OwnStream
  <1>3. CASE log' = log
    BY <1>3 DEF OwnStream
  <1>4. log' = log \/ \E p \in Processes : \E e \in Events : Append1(p, e)
    BY DEF Next, WriteRow, CommitRow, RollBackRow, LockExpires, LockVanishes, Acquire, TickStep,
           Fetch, DeleteRows, Release, SendFails, CrashPublisher, vars
  <1> QED
    BY <1>2, <1>3, <1>4

LEMMA ConsumerInitInv == RelayInit => ConsumerInv
  <1> SUFFICES ASSUME RelayInit
               PROVE  ConsumerInv
    OBVIOUS
  <1>1. RelayInv
    BY InitRelay DEF RelayInit
  <1>2. offset = [s \in Streams |-> 0] /\ log = [s \in Streams |-> <<>>]
    BY DEF RelayInit, Init
  <1>3. OwnStream /\ ReadInTurn /\ OffsetMeansHandled
    BY <1>2 DEF RelayInit, OwnStream, ReadInTurn, OffsetMeansHandled
  <1> QED
    BY <1>1, <1>3 DEF ConsumerInv

(* Whatever the publisher does meanwhile.                                  *)
LEMMA PublisherKeepsConsumer ==
    ASSUME ConsumerInv, [Next]_vars, UNCHANGED consumerVars
    PROVE  ConsumerInv'
  <1>1. RelayInv'
    BY PublisherStepInv DEF ConsumerInv
  <1>2. Appended
    BY LogsAppend DEF ConsumerInv
  <1>3. committed \subseteq committed'
    BY DEF Next, WriteRow, CommitRow, RollBackRow, LockExpires, LockVanishes, Acquire, TickStep,
           Fetch, Append1, DeleteRows, Release, SendFails, CrashPublisher, vars
  <1>4. \A s \in Streams : Len(log[s]) \in Nat /\ Len(log'[s]) \in Nat
    BY <1>1 DEF ConsumerInv, RelayInv, TypeOK
  <1>8. OwnStream'
    BY PublisherKeepsStreams DEF ConsumerInv
  <1>5. UNCHANGED <<offset, processed, handled, work>>
    BY DEF consumerVars
  <1>6. OffsetMeansHandled'
    <2> SUFFICES ASSUME NEW s \in Streams, NEW i \in 1 .. offset[s]
                 PROVE  log'[s][i] \in handled
      BY <1>5 DEF OffsetMeansHandled
    <2>1. offset[s] \in Nat /\ offset[s] <= Len(log[s]) /\ log[s][i] \in handled
      BY DEF ConsumerInv, ReadInTurn, OffsetMeansHandled
    <2>2. i \in 1 .. Len(log[s])
      BY <1>4, <2>1
    <2> QED
      BY <1>2, <2>1, <2>2 DEF Appended
  <1>7. ReadInTurn'
    <2>1. ASSUME NEW w \in work
          PROVE  /\ w.index \in 1 .. Len(log'[w.stream])
                 /\ \A i \in 1 .. (w.index - 1) : log'[w.stream][i] \in handled
                 /\ w.pc # "handling" => log'[w.stream][w.index] \in handled
      <3>1. /\ w.stream \in Streams /\ w.index \in Nat
            /\ w.index \in 1 .. Len(log[w.stream])
            /\ \A i \in 1 .. (w.index - 1) : log[w.stream][i] \in handled
            /\ w.pc # "handling" => log[w.stream][w.index] \in handled
        BY DEF ConsumerInv, ReadInTurn, EventOf
      <3>2. /\ Len(log[w.stream]) <= Len(log'[w.stream])
            /\ \A i \in 1 .. Len(log[w.stream]) : log'[w.stream][i] = log[w.stream][i]
        BY <1>2, <3>1 DEF Appended
      <3>3. Len(log[w.stream]) \in Nat /\ Len(log'[w.stream]) \in Nat
        BY <1>4, <3>1
      <3>4. w.index \in 1 .. Len(log'[w.stream]) /\ w.index - 1 <= Len(log[w.stream])
        BY <3>1, <3>2, <3>3
      <3>5. \A i \in 1 .. (w.index - 1) : i \in 1 .. Len(log[w.stream])
        BY <3>1, <3>3, <3>4
      <3> QED
        BY <3>1, <3>2, <3>4, <3>5
    <2>2. \A s \in Streams : offset[s] <= Len(log'[s])
      BY <1>2, <1>4 DEF ConsumerInv, ReadInTurn, Appended
    <2> QED
      BY <1>3, <1>5, <2>1, <2>2 DEF ConsumerInv, ReadInTurn, EventOf
  <1> QED
    BY <1>1, <1>6, <1>7, <1>8 DEF ConsumerInv

(* A fault is counted among the publisher's.                               *)
LEMMA FaultKeepsRelay ==
    ASSUME RelayInv, Fault, UNCHANGED <<last, open, committed, before, outbox, locked, tick, log>>
    PROVE  RelayInv'
  <1>1. faults' \in 0 .. MaxFaults /\ locked' \in BOOLEAN
    BY PublisherAssumption DEF RelayInv, TypeOK, Fault
  <1> QED
    BY <1>1, QuietKeeps
(* What a step of the group must keep, if it leaves Kafka alone.           *)
LEMMA GroupKeeps ==
    ASSUME ConsumerInv, RelayInv', UNCHANGED <<log, committed>>,
           handled \subseteq handled', handled' \subseteq committed,
           processed' \subseteq handled',
           offset' \in [Streams -> Nat],
           \A s \in Streams :
              /\ offset'[s] <= Len(log[s])
              /\ \A i \in 1 .. offset'[s] : log[s][i] \in handled',
           \A w \in work' :
              \/ w \in work
              \/ /\ w \in [by : Members, pc : {"handling", "handled", "recorded"},
                            stream : Streams, index : Nat]
                 /\ w.index \in 1 .. Len(log[w.stream])
                 /\ \A i \in 1 .. (w.index - 1) : log[w.stream][i] \in handled'
                 /\ w.pc # "handling" => EventOf(w) \in handled'
    PROVE  ConsumerInv'
  <1>1. OwnStream' /\ OffsetMeansHandled'
    BY DEF ConsumerInv, OwnStream, OffsetMeansHandled
  <1>2. ReadInTurn'
    BY DEF ConsumerInv, ReadInTurn, EventOf
  <1> QED
    BY <1>1, <1>2 DEF ConsumerInv

(* What the invariant says of a message that is being worked on.           *)
LEMMA WorkInTurn ==
    ASSUME ConsumerInv, NEW w \in work
    PROVE  /\ w \in [by : Members, pc : {"handling", "handled", "recorded"},
                      stream : Streams, index : Nat]
           /\ w.index \in 1 .. Len(log[w.stream])
           /\ \A i \in 1 .. (w.index - 1) : log[w.stream][i] \in handled
           /\ w.pc # "handling" => EventOf(w) \in handled
           /\ Len(log[w.stream]) \in Nat
           /\ EventOf(w) \in committed
           /\ EventOf(w) \in Events
           /\ StreamOf[EventOf(w)] = w.stream
  <1>1. /\ w \in [by : Members, pc : {"handling", "handled", "recorded"},
                   stream : Streams, index : Nat]
        /\ w.index \in 1 .. Len(log[w.stream])
        /\ \A i \in 1 .. (w.index - 1) : log[w.stream][i] \in handled
        /\ w.pc # "handling" => EventOf(w) \in handled
    BY DEF ConsumerInv, ReadInTurn
  <1>2. w.stream \in Streams /\ log[w.stream] \in Seq(committed)
    BY <1>1 DEF ConsumerInv, RelayInv, TypeOK
  <1>3. EventOf(w) \in committed /\ Len(log[w.stream]) \in Nat
    BY <1>1, <1>2 DEF EventOf
  <1>4. StreamOf[EventOf(w)] = w.stream
    BY <1>1, <1>2 DEF ConsumerInv, OwnStream, EventOf
  <1>5. EventOf(w) \in Events
    BY <1>3 DEF ConsumerInv, RelayInv, TypeOK
  <1> QED
    BY <1>1, <1>3, <1>4, <1>5

(* A message moves on, by one step of its member.                          *)
LEMMA AdvanceKeeps ==
    ASSUME ConsumerInv, NEW w \in work, NEW pc \in {"handled", "recorded"}, Advance(w, pc),
           UNCHANGED <<vars, offset>>,
           handled \subseteq handled', handled' \subseteq committed,
           processed' \subseteq handled', EventOf(w) \in handled'
    PROVE  ConsumerInv'
  <1> DEFINE v == [by |-> w.by, pc |-> pc, stream |-> w.stream, index |-> w.index]
  <1>1. [w EXCEPT !.pc = pc] = v
    BY WorkInTurn
  <1>2. /\ v \in [by : Members, pc : {"handling", "handled", "recorded"},
                   stream : Streams, index : Nat]
        /\ v.index \in 1 .. Len(log[v.stream])
        /\ \A i \in 1 .. (v.index - 1) : log[v.stream][i] \in handled'
        /\ EventOf(v) \in handled'
    BY WorkInTurn DEF EventOf
  <1>3. work' = (work \ {w}) \cup {v}
    BY <1>1 DEF Advance
  <1> HIDE DEF v
  <1>4. RelayInv' /\ UNCHANGED <<log, committed>>
    BY PublisherStepInv DEF ConsumerInv, vars
  <1>5. /\ offset' \in [Streams -> Nat]
        /\ \A s \in Streams :
              /\ offset'[s] <= Len(log[s])
              /\ \A i \in 1 .. offset'[s] : log[s][i] \in handled'
    BY DEF ConsumerInv, ReadInTurn, OffsetMeansHandled
  <1> QED
    BY <1>2, <1>3, <1>4, <1>5, GroupKeeps

(* The group commits that it has read a message that is handled.           *)
LEMMA OffsetKeeps ==
    ASSUME ConsumerInv, NEW s \in Streams, NEW n \in 1 .. Len(log[s]),
           \A i \in 1 .. n : log[s][i] \in handled,
           offset' = [offset EXCEPT ![s] = n], work' \subseteq work,
           UNCHANGED <<vars, processed, handled>>
    PROVE  ConsumerInv'
  <1>1. RelayInv' /\ UNCHANGED <<log, committed>>
    BY PublisherStepInv DEF ConsumerInv, vars
  <1>2. n \in Nat /\ n <= Len(log[s])
    BY DEF ConsumerInv, RelayInv, TypeOK
  <1>3. \A r \in Streams : offset'[r] = IF r = s THEN n ELSE offset[r]
    BY DEF ConsumerInv, ReadInTurn
  <1>4. offset' \in [Streams -> Nat]
    BY <1>2 DEF ConsumerInv, ReadInTurn
  <1>5. \A r \in Streams :
           /\ offset'[r] <= Len(log[r])
           /\ \A i \in 1 .. offset'[r] : log[r][i] \in handled'
    BY <1>2, <1>3 DEF ConsumerInv, ReadInTurn, OffsetMeansHandled
  <1>6. processed' \subseteq handled' /\ handled' \subseteq committed
    BY DEF ConsumerInv, ReadInTurn
  <1> QED
    BY <1>1, <1>4, <1>5, <1>6, GroupKeeps

(* The next message of a partition lies behind the offset's messages.      *)
LEMMA NextIsInTurn ==
    ASSUME ConsumerInv, NEW m \in Members, NEW s \in Streams, Next1(m, s)
    PROVE  /\ offset[s] \in Nat /\ Len(log[s]) \in Nat
           /\ offset[s] + 1 \in 1 .. Len(log[s])
           /\ \A i \in 1 .. offset[s] : log[s][i] \in handled
  <1>1. offset[s] \in Nat /\ log[s] \in Seq(committed)
    BY DEF ConsumerInv, ReadInTurn, RelayInv, TypeOK
  <1>2. Len(log[s]) \in Nat
    BY <1>1
  <1> QED
    BY <1>1, <1>2 DEF Next1, ConsumerInv, OffsetMeansHandled

LEMMA BeginKeeps ==
    ASSUME ConsumerInv, NEW m \in Members, NEW s \in Streams, Begin(m, s)
    PROVE  ConsumerInv'
  <1> DEFINE v == [by |-> m, pc |-> "handling", stream |-> s, index |-> offset[s] + 1]
  <1>1. Next1(m, s) /\ work' = work \cup {v}
        /\ UNCHANGED <<vars, owner, offset, processed, handled, moved>>
    BY DEF Begin
  <1>2. /\ v \in [by : Members, pc : {"handling", "handled", "recorded"},
                   stream : Streams, index : Nat]
        /\ v.index \in 1 .. Len(log[v.stream])
        /\ \A i \in 1 .. (v.index - 1) : log[v.stream][i] \in handled'
        /\ v.pc = "handling"
    BY <1>1, NextIsInTurn
  <1> HIDE DEF v
  <1>3. RelayInv' /\ UNCHANGED <<log, committed>>
    BY <1>1, PublisherStepInv DEF ConsumerInv, vars
  <1>4. /\ offset' \in [Streams -> Nat]
        /\ \A r \in Streams :
              /\ offset'[r] <= Len(log[r])
              /\ \A i \in 1 .. offset'[r] : log[r][i] \in handled'
        /\ handled' \subseteq committed /\ processed' \subseteq handled'
        /\ handled \subseteq handled'
    BY <1>1 DEF ConsumerInv, ReadInTurn, OffsetMeansHandled
  <1> QED
    BY <1>1, <1>2, <1>3, <1>4, GroupKeeps

LEMMA SkipKeeps ==
    ASSUME ConsumerInv, NEW m \in Members, NEW s \in Streams, Skip(m, s)
    PROVE  ConsumerInv'
  <1>1. /\ Next1(m, s) /\ log[s][offset[s] + 1] \in processed
        /\ offset' = [offset EXCEPT ![s] = offset[s] + 1]
        /\ UNCHANGED <<vars, owner, processed, handled, moved, work>>
    BY DEF Skip, Seen
  <1>2. processed \subseteq handled
    BY DEF ConsumerInv, ReadInTurn
  <1>3. \A i \in 1 .. (offset[s] + 1) : log[s][i] \in handled
    BY <1>1, <1>2, NextIsInTurn
  <1>4. offset[s] + 1 \in 1 .. Len(log[s])
    BY <1>1, NextIsInTurn
  <1> QED
    BY <1>1, <1>3, <1>4, OffsetKeeps

LEMMA HandleKeeps ==
    ASSUME ConsumerInv, NEW w \in work, Handle(w)
    PROVE  ConsumerInv'
  <1>1. /\ handled' = handled \cup {EventOf(w)}
        /\ Advance(w, "handled")
        /\ UNCHANGED <<vars, owner, offset, processed, moved>>
    BY DEF Handle
  <1>2. handled' \subseteq committed /\ processed' \subseteq handled'
    BY <1>1, WorkInTurn DEF ConsumerInv, ReadInTurn
  <1> QED
    BY <1>1, <1>2, AdvanceKeeps

LEMMA RecordKeeps ==
    ASSUME ConsumerInv, NEW w \in work, Record(w)
    PROVE  ConsumerInv'
  <1>1. /\ w.pc = "handled"
        /\ processed' = processed \cup {EventOf(w)}
        /\ Advance(w, "recorded")
        /\ UNCHANGED <<vars, owner, offset, handled, moved>>
    BY DEF Record
  <1>2. EventOf(w) \in handled
    BY <1>1, WorkInTurn
  <1>3. handled' \subseteq committed /\ processed' \subseteq handled'
    BY <1>1, <1>2 DEF ConsumerInv, ReadInTurn
  <1> QED
    BY <1>1, <1>2, <1>3, AdvanceKeeps

LEMMA CommitOffsetKeeps ==
    ASSUME ConsumerInv, NEW w \in work, CommitOffset(w)
    PROVE  ConsumerInv'
  <1>1. /\ w.pc = "recorded"
        /\ offset' = [offset EXCEPT ![w.stream] = w.index]
        /\ work' \subseteq work
        /\ UNCHANGED <<vars, owner, processed, handled, moved>>
    BY DEF CommitOffset, Leave
  <1>2. \A i \in 1 .. w.index : log[w.stream][i] \in handled
    BY <1>1, WorkInTurn DEF EventOf
  <1>3. w.stream \in Streams /\ w.index \in 1 .. Len(log[w.stream])
    BY WorkInTurn
  <1> QED
    BY <1>1, <1>2, <1>3, OffsetKeeps

(* A member is turned away or dies, or a partition changes hands.          *)
LEMMA LeaveKeeps ==
    ASSUME ConsumerInv, RelayInv', work' \subseteq work,
           UNCHANGED <<log, committed, offset, processed, handled>>
    PROVE  ConsumerInv'
  BY DEF ConsumerInv, OwnStream, OffsetMeansHandled, ReadInTurn, EventOf

LEMMA ConsumerStepInv ==
    ASSUME ConsumerInv, [RelayNext]_relayVars
    PROVE  ConsumerInv'
  <1>1. CASE PublisherStep
    BY <1>1, PublisherKeepsConsumer DEF PublisherStep
  <1>2. ASSUME NEW m \in Members, NEW s \in Streams, Begin(m, s) \/ Skip(m, s)
        PROVE  ConsumerInv'
    BY <1>2, BeginKeeps, SkipKeeps
  <1>3. ASSUME NEW m \in Members, NEW s \in Streams, Rebalance(s, m)
        PROVE  ConsumerInv'
    BY <1>3, FaultKeepsRelay, LeaveKeeps DEF Rebalance, ConsumerInv
  <1>4. ASSUME NEW w \in work, Handle(w) \/ Record(w) \/ CommitOffset(w)
        PROVE  ConsumerInv'
    BY <1>4, HandleKeeps, RecordKeeps, CommitOffsetKeeps
  <1>5. ASSUME NEW w \in work, TurnedAway(w)
        PROVE  ConsumerInv'
    <2>1. RelayInv'
      BY <1>5, PublisherStepInv DEF TurnedAway, ConsumerInv
    <2> QED
      BY <1>5, <2>1, LeaveKeeps DEF TurnedAway, Leave, vars
  <1>6. ASSUME NEW w \in work, Abort(w)
        PROVE  ConsumerInv'
    BY <1>6, FaultKeepsRelay, LeaveKeeps DEF Abort, Leave, ConsumerInv
  <1>7. CASE UNCHANGED relayVars
    <2>1. [Next]_vars /\ UNCHANGED consumerVars
      BY <1>7 DEF relayVars
    <2> QED
      BY <2>1, PublisherKeepsConsumer
  <1> QED
    BY <1>1, <1>2, <1>3, <1>4, <1>5, <1>6, <1>7 DEF RelayNext, ConsumerNext, WorkStep

LEMMA ConsumerInvariant == RelaySpec => []ConsumerInv
  <1>1. RelayInit => ConsumerInv
    BY ConsumerInitInv
  <1>2. ConsumerInv /\ [RelayNext]_relayVars => ConsumerInv'
    BY ConsumerStepInv
  <1> QED
    BY <1>1, <1>2, PTL DEF RelaySpec

(* What the group has committed has been handled: no crash, error or       *)
(* rebalance makes it step over an event.                                  *)
THEOREM OffsetsHandled == RelaySpec => []OffsetMeansHandled
  <1>1. ConsumerInv => OffsetMeansHandled
    BY DEF ConsumerInv
  <1> QED
    BY ConsumerInvariant, <1>1, PTL

(* With the consumers at work too, no event is lost and none overtaken.    *)
THEOREM RelayLosesNothing == RelaySpec => [](NothingLost /\ FirstCopiesInOrder)
  <1>1. ConsumerInv => NothingLost /\ FirstCopiesInOrder
    BY DEF ConsumerInv, RelayInv
  <1> QED
    BY ConsumerInvariant, <1>1, PTL

-----------------------------------------------------------------------------
(* The refinement: writing a row, committing it and handling its event are *)
(* the steps of EventDelivery; everything else leaves it alone.            *)

LEMMA EarlierTyped ==
    ASSUME ConsumerInv
    PROVE  \A f \in Events : Earlier[f] = {e \in before[f] : StreamOf[e] = StreamOf[f]}
  BY DEF Earlier

LEMMA HandlesInOrder ==
    ASSUME ConsumerInv, NEW w \in work, Handle(w)
    PROVE  Delivery!Handle(EventOf(w))
  <1> DEFINE f == EventOf(w)
  <1>1. /\ f \in committed /\ f \in Events /\ StreamOf[f] = w.stream
        /\ w.index \in 1 .. Len(log[w.stream])
        /\ \A i \in 1 .. (w.index - 1) : log[w.stream][i] \in handled
        /\ w.index \in Nat /\ Len(log[w.stream]) \in Nat
    BY WorkInTurn
  <1>2. w.index \in Copies(f)
    BY <1>1 DEF Copies, EventOf
  <1> HIDE DEF f
  <1>3. ASSUME NEW g \in Earlier[f]
        PROVE  g \in handled
    <2>1. g \in before[f] /\ StreamOf[g] = w.stream
      BY <1>1, EarlierTyped
    <2>2. PICK i \in Copies(g) : i < w.index
      BY <1>1, <1>2, <2>1 DEF ConsumerInv, RelayInv, FirstCopiesInOrder
    <2>3. i \in 1 .. Len(log[w.stream]) /\ log[w.stream][i] = g
      BY <2>1, <2>2 DEF Copies
    <2>4. i \in 1 .. (w.index - 1)
      BY <1>1, <2>2, <2>3
    <2> QED
      BY <1>1, <2>3, <2>4
  <1>4. handled' = handled \cup {f} /\ UNCHANGED <<committed, Earlier>>
    BY DEF Handle, vars, Earlier, f
  <1> QED
    BY <1>1, <1>3, <1>4 DEF Delivery!Handle, f

LEMMA WriteImplements ==
    ASSUME ConsumerInv, WriteRow, UNCHANGED consumerVars
    PROVE  Delivery!Write(last + 1)
  <1>1. /\ last + 1 \in Events
        /\ before' = [before EXCEPT ![last + 1] = committed]
        /\ committed' = committed /\ handled' = handled
    BY PublisherAssumption
    DEF WriteRow, ConsumerInv, RelayInv, TypeOK, Events, consumerVars
  <1>2. last + 1 \notin committed
    BY <1>1 DEF ConsumerInv, RelayInv, TypeOK, Numbered, Events
  <1>3. \A f \in Events : before'[f] = IF f = last + 1 THEN committed ELSE before[f]
    BY <1>1 DEF ConsumerInv, RelayInv, TypeOK
  <1>4. \A f \in Events : before[f] \subseteq committed
    BY DEF ConsumerInv, RelayInv, Numbered
  <1>5. Earlier' \in [Events -> SUBSET committed]
    BY <1>3, <1>4 DEF Earlier
  <1>6. \A f \in Events \ {last + 1} : Earlier'[f] = Earlier[f]
    BY <1>3 DEF Earlier
  <1> QED
    BY <1>1, <1>2, <1>5, <1>6 DEF Delivery!Write

LEMMA CommitImplements ==
    ASSUME NEW e \in Events, CommitRow(e), UNCHANGED consumerVars
    PROVE  Delivery!Publish(e)
  <1>1. committed' = committed \cup {e} /\ before' = before /\ handled' = handled
    BY DEF CommitRow, consumerVars
  <1>2. Earlier' = Earlier
    BY <1>1 DEF Earlier
  <1> QED
    BY <1>1, <1>2 DEF Delivery!Publish

LEMMA StutterImplements ==
    ASSUME UNCHANGED <<committed, before, handled>>
    PROVE  UNCHANGED Delivery!deliveryVars
  BY DEF Delivery!deliveryVars, Earlier

LEMMA RelayStepDelivers ==
    ASSUME ConsumerInv, [RelayNext]_relayVars
    PROVE  [Delivery!Next]_(Delivery!deliveryVars)
  <1>1. ASSUME WriteRow, UNCHANGED consumerVars
        PROVE  Delivery!Next
    <2>1. last + 1 \in Events
      BY <1>1, PublisherAssumption DEF WriteRow, ConsumerInv, RelayInv, TypeOK, Events
    <2> QED
      BY <1>1, <2>1, WriteImplements DEF Delivery!Next
  <1>2. ASSUME NEW e \in Events, CommitRow(e), UNCHANGED consumerVars
        PROVE  Delivery!Next
    BY <1>2, CommitImplements DEF Delivery!Next
  <1>3. ASSUME NEW w \in work, Handle(w)
        PROVE  Delivery!Next
    BY <1>3, HandlesInOrder, WorkInTurn DEF Delivery!Next
  <1>4. ASSUME Next, UNCHANGED consumerVars, ~WriteRow, \A e \in Events : ~CommitRow(e)
        PROVE  UNCHANGED <<committed, before, handled>>
    BY <1>4 DEF Next, RollBackRow, LockExpires, LockVanishes, Acquire, TickStep, Fetch, Append1,
                DeleteRows, Release, SendFails, CrashPublisher, consumerVars
  <1>5. ASSUME ConsumerNext, \A w \in work : ~Handle(w)
        PROVE  UNCHANGED <<committed, before, handled>>
    BY <1>5 DEF ConsumerNext, WorkStep, Begin, Skip, Rebalance, Record, CommitOffset, TurnedAway,
                Abort, vars
  <1>6. CASE UNCHANGED relayVars
    BY <1>6, StutterImplements DEF relayVars, vars, consumerVars
  <1> QED
    BY <1>1, <1>2, <1>3, <1>4, <1>5, <1>6, StutterImplements DEF RelayNext, PublisherStep

(* From the caller's transaction to the coordinator, through the tables,   *)
(* the ticks, Kafka and the group: every event is handled only if its      *)
(* transaction committed, and in order within its stream.                  *)
THEOREM RelayDelivers == RelaySpec => DeliversEvents
  <1>1. RelayInit => Delivery!Init
    BY DEF RelayInit, Init, Delivery!Init, Earlier
  <1>2. ConsumerInv /\ [RelayNext]_relayVars => [Delivery!Next]_(Delivery!deliveryVars)
    BY RelayStepDelivers
  <1> QED
    BY ConsumerInvariant, <1>1, <1>2, PTL DEF RelaySpec, DeliversEvents, Delivery!Spec
-----------------------------------------------------------------------------
(* What is recorded is not handled again, unless its partition moved.      *)

(* A member works on one message at a time; one whose partition has not    *)
(* moved is its owner's, and is not recorded before it is handled.         *)
AloneAtWork ==
    /\ owner \in [Streams -> Members]
    /\ \A v, w \in work : v.by = w.by => v = w
    /\ \A w \in work : w.stream \notin moved =>
          /\ owner[w.stream] = w.by
          /\ w.pc = "handling" => EventOf(w) \notin processed

AloneInv == ConsumerInv /\ AloneAtWork

LEMMA AloneInit == RelayInit => AloneInv
  <1> SUFFICES ASSUME RelayInit
               PROVE  AloneAtWork
    BY ConsumerInitInv DEF AloneInv
  <1> QED
    BY DEF RelayInit, AloneAtWork

(* The publisher moves no partition, and no message of one.                *)
LEMMA AlonePublisher ==
    ASSUME AloneInv, [Next]_vars, UNCHANGED consumerVars
    PROVE  AloneAtWork'
  <1>1. \A w \in work : EventOf(w)' = EventOf(w)
    <2> SUFFICES ASSUME NEW w \in work
                 PROVE  log'[w.stream][w.index] = log[w.stream][w.index]
      BY DEF EventOf
    <2>1. w.stream \in Streams /\ w.index \in 1 .. Len(log[w.stream])
      BY WorkInTurn DEF AloneInv
    <2> QED
      BY <2>1, LogsAppend DEF AloneInv, ConsumerInv, Appended
  <1>2. UNCHANGED <<owner, processed, moved, work>>
    BY DEF consumerVars
  <1>3. \A w \in work : EventOf(w)' \notin processed <=> EventOf(w) \notin processed
    BY <1>1
  <1> QED
    BY <1>2, <1>3 DEF AloneInv, AloneAtWork, EventOf

(* The messages in work leave it, or move on by one step.                  *)
LEMMA AloneAdvance ==
    ASSUME AloneInv, NEW w \in work, NEW pc \in {"handled", "recorded"}, Advance(w, pc),
           UNCHANGED <<log, owner, moved>>,
           processed' = processed \/ processed' = processed \cup {EventOf(w)}
    PROVE  AloneAtWork'
  <1> DEFINE v == [by |-> w.by, pc |-> pc, stream |-> w.stream, index |-> w.index]
  <1>1. [w EXCEPT !.pc = pc] = v
    BY WorkInTurn DEF AloneInv
  <1>2. work' = (work \ {w}) \cup {v}
    BY <1>1 DEF Advance
  <1>3. v.by = w.by /\ v.stream = w.stream /\ v.pc \in {"handled", "recorded"}
    OBVIOUS
  <1> HIDE DEF v
  <1>4. \A t, u \in work' : t.by = u.by => t = u
    BY <1>2, <1>3 DEF AloneInv, AloneAtWork
  <1>5. ASSUME NEW u \in work', u.stream \notin moved'
        PROVE  owner'[u.stream] = u.by
    BY <1>2, <1>3, <1>5 DEF AloneInv, AloneAtWork
  <1>6. ASSUME NEW u \in work', u.stream \notin moved', u.pc = "handling"
        PROVE  EventOf(u)' \notin processed'
    <2>1. u \in work /\ u # w
      BY <1>2, <1>3, <1>6
    <2>2. EventOf(u)' = EventOf(u) /\ EventOf(u) \notin processed
      BY <1>6, <2>1 DEF AloneInv, AloneAtWork, EventOf
    <2>3. CASE w.stream = u.stream
      <3>1. w.by = u.by
        BY <1>6, <2>1, <2>3 DEF AloneInv, AloneAtWork
      <3> QED
        BY <2>1, <3>1 DEF AloneInv, AloneAtWork
    <2>4. CASE w.stream # u.stream
      <3>1. EventOf(w) # EventOf(u)
        BY <2>1, <2>4, WorkInTurn DEF AloneInv
      <3> QED
        BY <2>2, <3>1
    <2> QED
      BY <2>3, <2>4
  <1> QED
    BY <1>4, <1>5, <1>6 DEF AloneInv, AloneAtWork

LEMMA AloneLeave ==
    ASSUME AloneInv, work' \subseteq work,
           UNCHANGED <<log, owner, processed, moved>>
    PROVE  AloneAtWork'
  BY DEF AloneInv, AloneAtWork, EventOf

LEMMA AloneBegin ==
    ASSUME AloneInv, NEW m \in Members, NEW s \in Streams, Begin(m, s)
    PROVE  AloneAtWork'
  <1> DEFINE v == [by |-> m, pc |-> "handling", stream |-> s, index |-> offset[s] + 1]
  <1>1. /\ Idle(m) /\ owner[s] = m /\ log[s][offset[s] + 1] \notin processed
        /\ work' = work \cup {v}
        /\ UNCHANGED <<log, owner, processed, moved>>
    BY DEF Begin, Next1, Seen, vars
  <1>2. v.by = m /\ v.stream = s /\ EventOf(v) \notin processed
    BY <1>1 DEF EventOf
  <1> HIDE DEF v
  <1> QED
    BY <1>1, <1>2 DEF AloneInv, AloneAtWork, Idle, EventOf

LEMMA AloneRebalance ==
    ASSUME AloneInv, NEW m \in Members, NEW s \in Streams, Rebalance(s, m)
    PROVE  AloneAtWork'
  <1>1. /\ owner' = [owner EXCEPT ![s] = m]
        /\ moved' = moved \cup {s}
        /\ UNCHANGED <<log, processed, work>>
    BY DEF Rebalance
  <1>2. \A w \in work : w.stream \in Streams
    BY WorkInTurn DEF AloneInv
  <1> QED
    BY <1>1, <1>2 DEF AloneInv, AloneAtWork, EventOf

LEMMA AloneStep ==
    ASSUME AloneInv, [RelayNext]_relayVars
    PROVE  AloneInv'
  <1> SUFFICES AloneAtWork'
    BY ConsumerStepInv DEF AloneInv
  <1>1. CASE PublisherStep
    BY <1>1, AlonePublisher DEF PublisherStep
  <1>2. ASSUME NEW m \in Members, NEW s \in Streams, Begin(m, s)
        PROVE  AloneAtWork'
    BY <1>2, AloneBegin
  <1>3. ASSUME NEW m \in Members, NEW s \in Streams, Skip(m, s)
        PROVE  AloneAtWork'
    BY <1>3, AloneLeave DEF Skip, vars
  <1>4. ASSUME NEW m \in Members, NEW s \in Streams, Rebalance(s, m)
        PROVE  AloneAtWork'
    BY <1>4, AloneRebalance
  <1>5. ASSUME NEW w \in work, Handle(w) \/ Record(w)
        PROVE  AloneAtWork'
    BY <1>5, AloneAdvance DEF Handle, Record, vars
  <1>6. ASSUME NEW w \in work, CommitOffset(w) \/ TurnedAway(w) \/ Abort(w)
        PROVE  AloneAtWork'
    BY <1>6, AloneLeave DEF CommitOffset, TurnedAway, Abort, Leave, vars
  <1>7. CASE UNCHANGED relayVars
    <2>1. [Next]_vars /\ UNCHANGED consumerVars
      BY <1>7 DEF relayVars
    <2> QED
      BY <2>1, AlonePublisher
  <1> QED
    BY <1>1, <1>2, <1>3, <1>4, <1>5, <1>6, <1>7 DEF RelayNext, ConsumerNext, WorkStep

(* While a partition stays with its member, what is recorded is not        *)
(* handled again, whatever was sent twice or failed between two steps.     *)
THEOREM RecordedDone == RelaySpec => RecordedIsDone
  <1>1. AloneInv /\ [RelayNext]_relayVars
        => [\A w \in work :
               Handle(w) /\ w.stream \notin moved => EventOf(w) \notin processed]_relayVars
    BY DEF AloneInv, AloneAtWork, Handle
  <1> QED
    BY <1>1, AloneInit, AloneStep, PTL DEF RelaySpec, RecordedIsDone
=============================================================================
