------------------------ MODULE NotificationDispatch ------------------------
(***************************************************************************)
(* NotificationsService: send, the scheduler that dispatches what is due   *)
(* (dispatchDueSafely, each minute on every instance), and the owner's     *)
(* markRead, cancelPending and retryFailed.                                *)
(*                                                                         *)
(* A worker claims a row for a minute, then emits and marks it in one      *)
(* transaction that no longer looks at the row's status.  The owner's      *)
(* requests read a row and write it later by id.                           *)
(***************************************************************************)
EXTENDS Integers, FiniteSets

CONSTANTS
    Mails,      \* notifications by e-mail or push; one per deduplication key
    Inapps,     \* notifications in the application
    Workers,    \* schedulers: instances, and ticks of one that overlap
    MaxMishaps, \* bound: errors, crashes and overrun claims of a run
    MaxRetries  \* bound: retries by the owner

ASSUME DispatchAssumption ==
    /\ IsFiniteSet(Workers) /\ Mails \cap Inapps = {}
    /\ MaxMishaps \in Nat /\ MaxRetries \in Nat

VARIABLES
    note,       \* Notification rows
    worker,     \* the list and the claimed row of each scheduler run
    form,       \* the owner's request between its read and its write
    emits,      \* outbox events written for each row
    extra,      \* history: claims overrun and retries, for each row
    mishaps,
    retries

dispatchVars == <<note, worker, form, emits, extra, mishaps, retries>>

Notes == Mails \cup Inapps
Absent == [st |-> "none", sent |-> FALSE, due |-> TRUE, claim |-> "free"]
Off == [at |-> "off", list |-> {}, note |-> "none"]
NoForm == [op |-> "none", note |-> "none"]

DispatchInit ==
    /\ note = [n \in Notes |-> Absent]
    /\ worker = [w \in Workers |-> Off]
    /\ form = NoForm
    /\ emits = [n \in Notes |-> 0]
    /\ extra = [n \in Notes |-> 0]
    /\ mishaps = 0
    /\ retries = 0

Holds(w, n) == worker[w].at = "claimed" /\ worker[w].note = n

Stall == mishaps < MaxMishaps /\ mishaps' = mishaps + 1

Emitted(n) == emits' = [emits EXCEPT ![n] = @ + 1]

-----------------------------------------------------------------------------

(* send: at once with sendNow, left to the scheduler otherwise.  What is   *)
(* in the application is sent at once, whatever its deliverAt says.        *)
Create(n) ==
    /\ note[n].st = "none"
    /\ \/ /\ n \in Inapps
          /\ note' = [note EXCEPT ![n].st = "SENT", ![n].sent = TRUE]
          /\ UNCHANGED emits
       \/ /\ n \in Mails
          /\ note' = [note EXCEPT ![n].st = "SENT", ![n].sent = TRUE]
          /\ Emitted(n)
       \/ /\ n \in Mails
          /\ \E due \in BOOLEAN : note' = [note EXCEPT ![n].st = "PENDING", ![n].due = due]
          /\ UNCHANGED emits
    /\ UNCHANGED <<worker, form, extra, mishaps, retries>>

Due(n) == n \in Mails /\ note[n].st = "PENDING" /\ ~note[n].sent /\ note[n].due

List(w) ==
    /\ worker[w].at = "off"
    /\ \E n \in Notes : Due(n)
    /\ worker' = [worker EXCEPT ![w] = [at |-> "next", list |-> {n \in Notes : Due(n)},
                                        note |-> "none"]]
    /\ UNCHANGED <<note, form, emits, extra, mishaps, retries>>

ClaimableFault(n) == note[n].st = "PENDING"

Claimable(n) == note[n].st = "PENDING" /\ note[n].claim # "fresh"

Claim(w, n) ==
    /\ worker[w].at = "next"
    /\ n \in worker[w].list
    /\ IF Claimable(n)
       THEN /\ note' = [note EXCEPT ![n].claim = "fresh"]
            /\ worker' = [worker EXCEPT ![w] = [at |-> "claimed", list |-> @.list \ {n},
                                                note |-> n]]
       ELSE /\ worker' = [worker EXCEPT ![w].list = @ \ {n}]
            /\ UNCHANGED note
    /\ UNCHANGED <<form, emits, extra, mishaps, retries>>

Next_(w) == worker' = [worker EXCEPT ![w].at = "next", ![w].note = "none"]

(* The transaction of a claimed row.                                       *)
Deliver(w) ==
    LET n == worker[w].note IN
    /\ worker[w].at = "claimed"
    /\ Emitted(n)
    /\ note' = [note EXCEPT ![n].st = "SENT", ![n].sent = TRUE, ![n].claim = "free"]
    /\ Next_(w)
    /\ UNCHANGED <<form, extra, mishaps, retries>>

Return(n) == note' = [note EXCEPT ![n].claim = "free", ![n].due = FALSE]

(* The transaction failed: another try in two minutes, by id alone.        *)
Postpone(w) ==
    LET n == worker[w].note IN
    /\ worker[w].at = "claimed"
    /\ Stall
    /\ Return(n)
    /\ Next_(w)
    /\ UNCHANGED <<form, emits, extra, retries>>

EndRun(w) ==
    /\ worker[w].at = "next" /\ worker[w].list = {}
    /\ worker' = [worker EXCEPT ![w] = Off]
    /\ UNCHANGED <<note, form, emits, extra, mishaps, retries>>

DieWorker(w) ==
    /\ worker[w].at # "off"
    /\ Stall
    /\ worker' = [worker EXCEPT ![w] = Off]
    /\ UNCHANGED <<note, form, emits, extra, retries>>

DueComes(n) ==
    /\ note[n].st = "PENDING" /\ ~note[n].due
    /\ note' = [note EXCEPT ![n].due = TRUE]
    /\ UNCHANGED <<worker, form, emits, extra, mishaps, retries>>

ClaimEndsFault(n) == FALSE /\ UNCHANGED dispatchVars

(* A minute after the claim; its worker may be at work still.              *)
ClaimEnds(n) ==
    /\ note[n].claim = "fresh"
    /\ note' = [note EXCEPT ![n].claim = "over"]
    /\ IF \E w \in Workers : Holds(w, n)
       THEN Stall /\ extra' = [extra EXCEPT ![n] = @ + 1]
       ELSE UNCHANGED <<mishaps, extra>>
    /\ UNCHANGED <<worker, form, emits, retries>>

-----------------------------------------------------------------------------
(* The owner.                                                              *)

ReadNote(n) ==
    /\ form = NoForm
    /\ form' \in [op : IF n \in Inapps THEN {"read"} ELSE
                       CASE note[n].st = "PENDING" -> {"cancel"}
                         [] note[n].st = "CANCELLED" /\ retries < MaxRetries -> {"retry"}
                         [] OTHER -> {},
                  note : {n}]
    /\ note[n].st # "none"
    /\ UNCHANGED <<note, worker, emits, extra, mishaps, retries>>

WriteNote ==
    LET n == form.note IN
    /\ form # NoForm
    /\ form' = NoForm
    /\ CASE form.op = "read" -> note' = [note EXCEPT ![n].st = "READ"]
         [] form.op = "cancel" -> note' = [note EXCEPT ![n].st = "CANCELLED", ![n].claim = "free"]
         [] form.op = "retry" -> note' = [note EXCEPT ![n].st = "PENDING", ![n].claim = "free",
                                                      ![n].due = TRUE]
    /\ IF form.op = "retry"
       THEN retries' = retries + 1 /\ extra' = [extra EXCEPT ![n] = @ + 1]
       ELSE UNCHANGED <<retries, extra>>
    /\ UNCHANGED <<worker, emits, mishaps>>

(* What the owner has not read is read at once, whatever a form holds.     *)
MarkAllRead ==
    /\ \E n \in Inapps : note[n].st = "SENT"
    /\ note' = [n \in Notes |-> IF n \in Inapps /\ note[n].st = "SENT"
                              THEN [note[n] EXCEPT !.st = "READ"] ELSE note[n]]
    /\ UNCHANGED <<worker, form, emits, extra, mishaps, retries>>

-----------------------------------------------------------------------------

DispatchNext ==
    \/ \E n \in Notes : Create(n) \/ DueComes(n) \/ ClaimEnds(n) \/ ReadNote(n)
    \/ \E w \in Workers : \/ List(w) \/ Deliver(w) \/ Postpone(w) \/ EndRun(w) \/ DieWorker(w)
                          \/ \E n \in Notes : Claim(w, n)
    \/ WriteNote \/ MarkAllRead

(* The cron fires each minute; time passes; a claimed row is worked on.    *)
DispatchFairness ==
    /\ \A n \in Notes : WF_dispatchVars(DueComes(n)) /\ WF_dispatchVars(ClaimEnds(n))
    /\ \A w \in Workers :
          /\ WF_dispatchVars(List(w)) /\ WF_dispatchVars(EndRun(w))
          /\ WF_dispatchVars(Deliver(w) \/ \E n \in Notes : Claim(w, n))

DispatchSpec == DispatchInit /\ [][DispatchNext]_dispatchVars
DispatchLiveSpec == DispatchSpec /\ DispatchFairness

-----------------------------------------------------------------------------

DispatchTypeOK ==
    /\ note \in [Notes -> [st : {"none", "PENDING", "SENT", "READ", "CANCELLED"},
                           sent : BOOLEAN, due : BOOLEAN, claim : {"free", "fresh", "over"}]]
    /\ \A w \in Workers : worker[w].list \subseteq Mails
    /\ mishaps \in 0..MaxMishaps /\ retries \in 0..MaxRetries

(* A mail goes out once, whatever the number of schedulers and the order   *)
(* of their claims, cancellations and errors: another copy takes a run     *)
(* that outlives its minute, or the owner's retry.                         *)
MailedOnce == \A n \in Notes : emits[n] <= 1 + extra[n]

(* A mail that is to be sent is sent or cancelled in the end, through      *)
(* crashed workers, failed transactions and claims left behind; only one   *)
(* that was sent, then cancelled by a request that had read it before, and *)
(* retried, waits for ever: its sentAt hides it from the scheduler.        *)
EveryMailLeaves ==
    \A n \in Mails : note[n].st = "PENDING" ~> note[n].st # "PENDING" \/ note[n].sent
=============================================================================
