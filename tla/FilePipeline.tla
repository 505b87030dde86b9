---------------------------- MODULE FilePipeline ----------------------------
(***************************************************************************)
(* Files: rows of PostgreSQL that name objects of MinIO, and nothing spans *)
(* both.  Two halves with a specification each.                            *)
(*                                                                         *)
(* FileSpec: the files under one key.  FilesService.confirm and remove,    *)
(* the saga's handler of file.uploaded, and the attaching of a file to a   *)
(* message.  A file that was removed may be confirmed again, as a row with *)
(* another id, and the presigned URL may be used again while it is valid.  *)
(*                                                                         *)
(* ThumbSpec: the renditions of one file.  ThumbnailService.generate for   *)
(* the saga's handler of file.scanned and for requests, and remove.        *)
(*                                                                         *)
(* Events are delivered at least once: a handler may run again for one     *)
(* that was handled.                                                       *)
(***************************************************************************)
EXTENDS Integers, FiniteSets

CONSTANTS
    Jobs,           \* handlers and requests at a time
    MaxFiles,       \* bound: rows that are created for the key
    Renditions,     \* what generate may render
    TopicPrefix,    \* KAFKA_TOPIC_PREFIX, "dev." or another
    FileTopics,     \* EVENT_TOPICS names dev.file.uploaded and dev.file.scanned
    MaxPuts,        \* bound: uses of the presigned URL
    MaxBreaks       \* bound: crashes of a run

ASSUME FileAssumption ==
    /\ "none" \notin Renditions
    /\ TopicPrefix \in {"", "dev."} /\ FileTopics \in BOOLEAN
    /\ MaxFiles \in Nat /\ MaxPuts \in Nat /\ MaxBreaks \in Nat

VARIABLES
    object,     \* what the key holds in MinIO
    row,        \* File.malwareStatus of each id, "none" or "gone" without a row
    attached,   \* the files that a MessageAttachment names
    uploaded,   \* the files whose file.uploaded was emitted
    job,        \* each handler between two of its calls
    puts, breaks,
    crossed,    \* history: files created while the key was being deleted
    replaced    \* history: files whose object was put again

fileVars == <<object, row, attached, uploaded, job, puts, breaks, crossed, replaced>>

Files == 1 .. MaxFiles

(* unfit: too large, or not of an allowed type.                            *)
Contents == {"clean", "infected", "unfit"}
Verdicts == {"PENDING", "CLEAN", "INFECTED", "ERROR"}

NoJob == [at |-> "idle", file |-> 0, seen |-> "none"]

Live(f) == row[f] \in Verdicts

FileInit ==
    /\ object = "absent"
    /\ row = [f \in Files |-> "none"]
    /\ attached = {} /\ uploaded = {}
    /\ job = [j \in Jobs |-> NoJob]
    /\ puts = 0 /\ breaks = 0
    /\ crossed = {} /\ replaced = {}

GoTo(j, at, f, seen) == job' = [job EXCEPT ![j] = [at |-> at, file |-> f, seen |-> seen]]

EndJob(j) == job' = [job EXCEPT ![j] = NoJob]

(* topicName leaves "dev.file.uploaded" as it is under the prefix "dev.",  *)
(* and the consumer strips it: the saga's case is met under other ones.    *)
(* The default topics name file.uploaded, those of .env.example neither.   *)
FilesConsumed == TopicPrefix # "dev." /\ FileTopics

-----------------------------------------------------------------------------
(* The files under a key.                                                  *)

(* The client puts an object with the presigned URL.                       *)
Put ==
    /\ puts < MaxPuts
    /\ puts' = puts + 1
    /\ object' \in Contents
    /\ replaced' = replaced \cup {f \in Files : Live(f)}
    /\ UNCHANGED <<row, attached, uploaded, job, breaks, crossed>>

(* confirm looks at the object, and deletes it or gives it a row.          *)
Validate(j) ==
    /\ job[j] = NoJob
    /\ object # "absent"
    /\ GoTo(j, IF object = "unfit" THEN "refuse" ELSE "create", 0, "none")
    /\ UNCHANGED <<object, row, attached, uploaded, puts, breaks, crossed, replaced>>

Refuse(j) ==
    /\ job[j].at = "refuse"
    /\ object' = "absent"
    /\ EndJob(j)
    /\ UNCHANGED <<row, attached, uploaded, puts, breaks, crossed, replaced>>

(* The key is unique among the rows.  Ids are taken in turn.               *)
Fresh(f) ==
    /\ row[f] = "none"
    /\ \A g \in Files : ~Live(g) /\ (g < f => row[g] # "none")

BeingDeleted == object \in {"absent", "unfit"} \/ \E j \in Jobs : job[j].at \in {"wipe", "refuse"}

CreateRow(j, f) ==
    /\ job[j].at = "create"
    /\ Fresh(f)
    /\ row' = [row EXCEPT ![f] = "PENDING"]
    /\ crossed' = IF BeingDeleted THEN crossed \cup {f} ELSE crossed
    /\ GoTo(j, "emit", f, "none")
    /\ UNCHANGED <<object, attached, uploaded, puts, breaks, replaced>>

EmitFile(j) ==
    /\ job[j].at = "emit"
    /\ uploaded' = uploaded \cup {job[j].file}
    /\ EndJob(j)
    /\ UNCHANGED <<object, row, attached, puts, breaks, crossed, replaced>>

(* onFileUploaded reads the row and has the object scanned; without one it *)
(* throws, and the event comes again.                                      *)
Scan(j, f) ==
    /\ FilesConsumed /\ f \in uploaded
    /\ job[j] = NoJob
    /\ Live(f) /\ object # "absent"
    /\ \E res \in {"ERROR", IF object = "infected" THEN "INFECTED" ELSE "CLEAN"} :
          GoTo(j, "verdict", f, res)
    /\ UNCHANGED <<object, row, attached, uploaded, puts, breaks, crossed, replaced>>

(* For a clean one file.scanned starts generate, see below.                *)
ScanResult(j) ==
    /\ job[j].at = "verdict" /\ Live(job[j].file)
    /\ row' = [row EXCEPT ![job[j].file] = job[j].seen]
    /\ EndJob(j)
    /\ UNCHANGED <<object, attached, uploaded, puts, breaks, crossed, replaced>>

AttachableFault(f) == Live(f) /\ row[f] # "INFECTED"

Attachable(f) == row[f] = "CLEAN"

(* The attachment part of MessagingService.sendMessage.                    *)
Attach(f) ==
    /\ Attachable(f)
    /\ attached' = attached \cup {f}
    /\ UNCHANGED <<object, row, uploaded, job, puts, breaks, crossed, replaced>>

(* remove: the row deleted, then the object; an attachment restricts the   *)
(* deletion.                                                               *)
DeleteRow(j, f) ==
    /\ job[j] = NoJob
    /\ Live(f) /\ f \notin attached
    /\ row' = [row EXCEPT ![f] = "gone"]
    /\ crossed' = crossed \ {f} /\ replaced' = replaced \ {f}
    /\ GoTo(j, "wipe", f, "none")
    /\ UNCHANGED <<object, attached, uploaded, puts, breaks>>

Wipe(j) ==
    /\ job[j].at = "wipe"
    /\ object' = "absent"
    /\ EndJob(j)
    /\ UNCHANGED <<row, attached, uploaded, puts, breaks, crossed, replaced>>

(* The key has a row already, or the row a scan is about is gone.          *)
FailJob(j) ==
    /\ \/ job[j].at = "create" /\ ~\E f \in Files : Fresh(f)
       \/ job[j].at = "verdict" /\ ~Live(job[j].file)
    /\ EndJob(j)
    /\ UNCHANGED <<object, row, attached, uploaded, puts, breaks, crossed, replaced>>

BreakJob(j) ==
    /\ job[j] # NoJob
    /\ breaks < MaxBreaks
    /\ breaks' = breaks + 1
    /\ EndJob(j)
    /\ UNCHANGED <<object, row, attached, uploaded, puts, crossed, replaced>>

GoOn(j) ==
    \/ Refuse(j) \/ EmitFile(j) \/ ScanResult(j) \/ Wipe(j) \/ FailJob(j)
    \/ \E f \in Files : CreateRow(j, f)

FileNext ==
    \/ Put
    \/ \E j \in Jobs :
          \/ Validate(j) \/ GoOn(j) \/ BreakJob(j)
          \/ \E f \in Files : Scan(j, f) \/ DeleteRow(j, f)
    \/ \E f \in Files : Attach(f)

(* A process goes on.  The consumer delivers what was emitted; where it    *)
(* does not subscribe to the topics of files, Scan is never enabled and    *)
(* nothing is assumed of it.                                               *)
FileFairness ==
    /\ \A j \in Jobs : WF_fileVars(GoOn(j))
    /\ \A f \in Files : SF_fileVars(\E j \in Jobs : Scan(j, f))

FileSpec == FileInit /\ [][FileNext]_fileVars
FileLiveSpec == FileSpec /\ FileFairness

-----------------------------------------------------------------------------
(* The renditions of a file.  One variant kind stands for those of the     *)
(* configuration; its key is a hash of the rendition, one of Renditions.   *)

VARIABLES
    rowThere,   \* the File row exists
    variant,    \* FileVariant.key, "none" without a row
    thumbs,     \* the renditions in MinIO
    drawing,    \* each call between two of its steps
    lapses,
    overlap     \* history: generate ran twice at a time

thumbVars == <<rowThere, variant, thumbs, drawing, lapses, overlap>>

NoDrawing == [at |-> "idle", seen |-> "none", before |-> "none"]

ThumbInit ==
    /\ rowThere = TRUE /\ variant = "none" /\ thumbs = {}
    /\ drawing = [j \in Jobs |-> NoDrawing]
    /\ lapses = 0
    /\ overlap = FALSE

DrawTo(j, at, seen, before) ==
    drawing' = [drawing EXCEPT ![j] = [at |-> at, seen |-> seen, before |-> before]]

EndDrawing(j) == drawing' = [drawing EXCEPT ![j] = NoDrawing]

Thumbing == {j \in Jobs : drawing[j].at \in {"render", "look", "upsert", "drop"}}

Stored == variant = "none" \/ variant \in thumbs

(* The original is read and rendered: by the saga unless there is a row,   *)
(* by a request in any case.                                               *)
Render(j, overwrite) ==
    /\ drawing[j] = NoDrawing
    /\ rowThere
    /\ overwrite \/ (FilesConsumed /\ variant = "none")
    /\ \E k \in Renditions : DrawTo(j, "render", k, "none")
    /\ overlap' = (Thumbing # {} \/ (overlap /\ ~Stored))
    /\ UNCHANGED <<rowThere, variant, thumbs, lapses>>

PutRendition(j) ==
    /\ drawing[j].at = "render"
    /\ thumbs' = thumbs \cup {drawing[j].seen}
    /\ DrawTo(j, "look", drawing[j].seen, "none")
    /\ UNCHANGED <<rowThere, variant, lapses, overlap>>

LookBefore(j) ==
    /\ drawing[j].at = "look"
    /\ DrawTo(j, "upsert", drawing[j].seen, variant)
    /\ UNCHANGED <<rowThere, variant, thumbs, lapses, overlap>>

(* Without a File row the upsert fails.                                    *)
UpsertVariant(j) ==
    /\ drawing[j].at = "upsert" /\ rowThere
    /\ variant' = drawing[j].seen
    /\ DrawTo(j, "drop", drawing[j].seen, drawing[j].before)
    /\ UNCHANGED <<rowThere, thumbs, lapses, overlap>>

DropBefore(j) ==
    /\ drawing[j].at = "drop"
    /\ thumbs' = IF drawing[j].before = drawing[j].seen THEN thumbs ELSE thumbs \ {drawing[j].before}
    /\ EndDrawing(j)
    /\ UNCHANGED <<rowThere, variant, lapses, overlap>>

(* remove: the variants read, the rows deleted, then the objects.          *)
ReadVariants(j) ==
    /\ drawing[j] = NoDrawing
    /\ rowThere
    /\ DrawTo(j, "remove", "none", variant)
    /\ UNCHANGED <<rowThere, variant, thumbs, lapses, overlap>>

DeleteRows(j) ==
    /\ drawing[j].at = "remove" /\ rowThere
    /\ rowThere' = FALSE /\ variant' = "none"
    /\ DrawTo(j, "wipe", "none", drawing[j].before)
    /\ UNCHANGED <<thumbs, lapses, overlap>>

WipeVariants(j) ==
    /\ drawing[j].at = "wipe"
    /\ thumbs' = thumbs \ {drawing[j].before}
    /\ EndDrawing(j)
    /\ UNCHANGED <<rowThere, variant, lapses, overlap>>

(* The row is gone, or is attached and may not be deleted.                 *)
FailDrawing(j) ==
    /\ \/ drawing[j].at = "upsert" /\ ~rowThere
       \/ drawing[j].at = "remove"
    /\ EndDrawing(j)
    /\ UNCHANGED <<rowThere, variant, thumbs, lapses, overlap>>

BreakDrawing(j) ==
    /\ drawing[j] # NoDrawing
    /\ lapses < MaxBreaks
    /\ lapses' = lapses + 1
    /\ EndDrawing(j)
    /\ UNCHANGED <<rowThere, variant, thumbs, overlap>>

ThumbNext ==
    \E j \in Jobs :
        \/ \E overwrite \in BOOLEAN : Render(j, overwrite)
        \/ PutRendition(j) \/ LookBefore(j) \/ UpsertVariant(j) \/ DropBefore(j)
        \/ ReadVariants(j) \/ DeleteRows(j) \/ WipeVariants(j)
        \/ FailDrawing(j) \/ BreakDrawing(j)

ThumbSpec == ThumbInit /\ [][ThumbNext]_thumbVars

-----------------------------------------------------------------------------

FileTypeOK ==
    /\ object \in Contents \cup {"absent"}
    /\ row \in [Files -> Verdicts \cup {"none", "gone"}]
    /\ attached \subseteq Files /\ uploaded \subseteq Files
    /\ puts \in 0..MaxPuts /\ breaks \in 0..MaxBreaks

ThumbTypeOK ==
    /\ variant \in Renditions \cup {"none"}
    /\ thumbs \subseteq Renditions
    /\ lapses \in 0..MaxBreaks

(* What is attached to a message was found clean, although scans run late, *)
(* fail, and run again for a file that is attached already; unless the     *)
(* presigned URL was used again after the file was confirmed.              *)
AttachedIsHarmless ==
    \A f \in attached : Live(f) /\ (object = "infected" => f \in replaced)

(* A file's object exists, through removals, crashes and repeated confirms *)
(* of the key, unless the file was confirmed while the key was being       *)
(* deleted, or was put again.                                              *)
RowsHaveObjects ==
    \A f \in Files : Live(f) => object # "absent" \/ f \in crossed \cup replaced

(* A variant names an object that exists; only two renderings at a time    *)
(* can delete the object another of them is about to name.                 *)
VariantsStored == Stored \/ overlap

(* Where the topics of files are consumed, a confirmed file gets a verdict *)
(* or is removed, but for the two cases above and for a process that ended *)
(* between the row and the event: the event is not in its transaction.     *)
EveryFileScanned ==
    FilesConsumed =>
        \A f \in Files :
            row[f] = "PENDING" ~>
                \/ row[f] # "PENDING"
                \/ f \in crossed \cup replaced
                \/ f \notin uploaded /\ breaks > 0
=============================================================================
