---------------------------- MODULE MCBackground ----------------------------
(***************************************************************************)
(* Components that work without a user waiting, or must come to an end,    *)
(* and share no state with each other: part says which of them a behaviour *)
(* is about, and the others stand still.                                   *)
(***************************************************************************)
EXTENDS NotificationDispatch, FilePipeline, SearchIndex, FeatureFlags, WebClient, ExpireJob,
        InvoiceMail, ConsumerStartup

VARIABLE part

Parts == {"dispatch", "file", "thumbs", "index", "flag", "web", "expire", "invoice", "startup"}

BackgroundInit ==
    /\ part \in Parts
    /\ DispatchInit /\ FileInit /\ ThumbInit /\ IndexInit /\ FlagInit /\ WebInit /\ ExpireInit
    /\ InvoiceInit /\ StartupInit
    /\ part # "web" => ~cookie /\ token = "none"
    /\ part # "invoice" => setup = [autoConfirm |-> TRUE, enabled |-> TRUE, address |-> TRUE]
    /\ part # "startup" => strict /\ there = {}
    /\ part # "flag" => flag = CHOOSE f \in Flag : ~f.enabled

Rests(p) ==
    CASE p = "dispatch" -> UNCHANGED dispatchVars
      [] p = "file" -> UNCHANGED fileVars
      [] p = "thumbs" -> UNCHANGED thumbVars
      [] p = "index" -> UNCHANGED indexVars
      [] p = "flag" -> UNCHANGED flagVars
      [] p = "web" -> UNCHANGED webVars
      [] p = "expire" -> UNCHANGED expireVars
      [] p = "invoice" -> UNCHANGED invoiceVars
      [] p = "startup" -> UNCHANGED startupVars

BackgroundNext ==
    /\ UNCHANGED part
    /\ \A p \in Parts \ {part} : Rests(p)
    /\ \/ part = "dispatch" /\ DispatchNext
       \/ part = "file" /\ FileNext
       \/ part = "thumbs" /\ ThumbNext
       \/ part = "index" /\ IndexNext
       \/ part = "flag" /\ FlagNext
       \/ part = "web" /\ WebNext
       \/ part = "expire" /\ ExpireNext
       \/ part = "invoice" /\ InvoiceNext
       \/ part = "startup" /\ StartupNext

BackgroundSpec ==
    /\ BackgroundInit
    /\ [][BackgroundNext]_<<part, dispatchVars, fileVars, thumbVars, indexVars, flagVars, webVars,
                             expireVars, invoiceVars, startupVars>>
    /\ \/ part = "dispatch" /\ DispatchFairness
       \/ part = "file" /\ FileFairness
       \/ part = "index" /\ IndexFairness
       \/ part = "flag" /\ FlagFairness
       \/ part = "web" /\ WebFairness
       \/ part = "expire" /\ ExpireFairness
       \/ part \in {"thumbs", "invoice", "startup"}

-----------------------------------------------------------------------------

(* The user u1 is in every rollout above 0, the other from 51 on.          *)
MCBucket == [u \in People |-> IF u = "u1" THEN 0 ELSE 50]

(* A mail is handed over once, only a file that was found clean is named   *)
(* by a message, what a row or a variant names is stored, up to a put or a *)
(* confirm that crossed a deletion, the index holds the last rating,       *)
(* overdue holds give their nights back once, every invoice that leaves is *)
(* accounted for, and a consumer that has an offset skips no event.        *)
WorkSafe ==
    /\ part = "dispatch" => DispatchTypeOK /\ MailedOnce
    /\ part = "file" => FileTypeOK /\ AttachedIsHarmless /\ RowsHaveObjects
    /\ part = "thumbs" => ThumbTypeOK /\ VariantsStored
    /\ part = "index" => IndexTypeOK /\ RatingReachesIndex
    /\ part = "expire" => NightsGivenOnce
    /\ part = "invoice" => InvoiceTypeOK /\ MailsExplained /\ RecordedWasSent /\ InvoiceArrives
    /\ part = "startup" => StartupTypeOK /\ SkippedBeforeJoinOnly /\ StrictReadsAll

(* What is due is done: mails leave, files are scanned, events reach the   *)
(* index and overdue holds end.                                            *)
WorkGetsDone == EveryMailLeaves /\ EveryFileScanned /\ EventsDrain /\ OverdueEnds

(* What is kept beside the database: the cached flag is the row unless an  *)
(* upsert raced with it, and a browser whose user signed out stays so.     *)
CopiesSafe ==
    /\ part = "flag" => FlagTypeOK /\ CopyIsRow
    /\ part = "web" => WebTypeOK /\ SignedOutStays

(* No one loses a flag whose rollout is raised, and a stale copy goes.     *)
FlagServed == RaisingKeepsUsers /\ StaleCopyGoes
=============================================================================
