--------------------------- MODULE PropertyPhotos ---------------------------
(***************************************************************************)
(* The photos of one property: PropertyService.addPhoto, removePhoto and   *)
(* setCover, and FilesService.remove, which refuses a file in use.         *)
(*                                                                         *)
(* addPhoto makes the link and takes the cover from the others in two      *)
(* statements; remove counts the links before the transaction that deletes *)
(* the file, and with it every link to it.                                 *)
(***************************************************************************)
EXTENDS Integers, FiniteSets

CONSTANTS
    Photos,     \* the files
    Uploaders   \* requests of the host that may be under way at a time

VARIABLES
    link,       \* PropertyFile of each file: "none", "photo", or "cover"
    files,      \* File rows
    chore,      \* what each request has still to do, and to which file
    chosen,     \* history: the host chose a cover that was not removed
    clash,      \* history: another request touched the cover in between
    broken,     \* history: a request ended with two covers about
    late,       \* history: links made after remove had counted them
    lost        \* history: links that went away with their file

coverVars == <<link, chosen, clash, broken>>
photoVars == <<coverVars, files, chore, late, lost>>

Idle == [at |-> "idle", file |-> "none"]

PhotoInit ==
    /\ link = [f \in Photos |-> "none"]
    /\ files = Photos
    /\ chore = [r \in Uploaders |-> Idle]
    /\ chosen = FALSE /\ clash = FALSE /\ broken = FALSE
    /\ late = {} /\ lost = {}

Covers == {f \in Photos : link[f] = "cover"}
ToDo(at) == {r \in Uploaders : chore[r].at = at}
Rest == ToDo("clear") = {}

Only(f) == [g \in Photos |-> IF link[g] = "cover" /\ g # f THEN "photo" ELSE link[g]]

(* What a request that gives or takes the cover means for the others.      *)
Touch == clash' = (clash \/ ~Rest)

-----------------------------------------------------------------------------

AddPhoto(r, f, isCover) ==
    /\ chore[r] = Idle
    /\ f \in files /\ link[f] = "none"
    /\ link' = [link EXCEPT ![f] = IF isCover THEN "cover" ELSE "photo"]
    /\ late' = IF \E o \in ToDo("delete") : chore[o].file = f THEN late \cup {f} ELSE late
    /\ IF isCover
       THEN /\ chore' = [chore EXCEPT ![r] = [at |-> "clear", file |-> f]]
            /\ chosen' = TRUE
            /\ Touch
       ELSE UNCHANGED <<chore, chosen, clash>>
    /\ UNCHANGED <<files, broken, lost>>

ClearOthersFault(r) ==
    /\ r \in ToDo("clear")
    /\ link' = Only("none")
    /\ chore' = [chore EXCEPT ![r] = Idle]
    /\ UNCHANGED <<chosen, clash, broken, files, late, lost>>

(* updateMany of isCover, for every link but the new one.                  *)
ClearOthers(r) ==
    /\ r \in ToDo("clear")
    /\ link' = Only(chore[r].file)
    /\ chore' = [chore EXCEPT ![r] = Idle]
    /\ UNCHANGED <<chosen, clash, broken, files, late, lost>>

(* setCover locks every link of the property with its first statement.     *)
SetCover(f) ==
    /\ link[f] # "none"
    /\ link' = [Only(f) EXCEPT ![f] = "cover"]
    /\ chosen' = TRUE
    /\ clash' = ~Rest
    /\ broken' = (broken /\ ~Rest)
    /\ UNCHANGED <<files, chore, late, lost>>

Unlink(f) ==
    /\ link' = [link EXCEPT ![f] = "none"]
    /\ chosen' = (chosen /\ link[f] # "cover")
    /\ clash' = (clash \/ (link[f] = "cover" /\ ~(Rest /\ Covers = {f})))

RemovePhoto(f) ==
    /\ link[f] # "none"
    /\ Unlink(f)
    /\ UNCHANGED <<broken, files, chore, late, lost>>

NotLinkedFault(f) == TRUE

NotLinked(f) == link[f] = "none"

(* FilesService.remove: the count, and the transaction.                    *)
CheckRemove(r, f) ==
    /\ chore[r] = Idle
    /\ f \in files /\ NotLinked(f)
    /\ chore' = [chore EXCEPT ![r] = [at |-> "delete", file |-> f]]
    /\ UNCHANGED <<coverVars, files, late, lost>>

DeleteFile(r) ==
    LET f == chore[r].file IN
    /\ r \in ToDo("delete")
    /\ f \in files
    /\ files' = files \ {f}
    /\ lost' = IF link[f] = "none" THEN lost ELSE lost \cup {f}
    /\ Unlink(f)
    /\ chore' = [chore EXCEPT ![r] = Idle]
    /\ UNCHANGED <<broken, late>>

(* A crash, or the file is gone already.                                   *)
GiveUpChore(r) ==
    /\ chore[r] # Idle
    /\ chore' = [chore EXCEPT ![r] = Idle]
    /\ clash' = (clash \/ chore[r].at = "clear")
    /\ broken' = (broken \/ chore[r].at = "clear")
    /\ UNCHANGED <<link, chosen, files, late, lost>>

PhotoNext ==
    \/ \E r \in Uploaders :
          \/ \E f \in Photos, isCover \in BOOLEAN : AddPhoto(r, f, isCover)
          \/ \E f \in Photos : CheckRemove(r, f)
          \/ ClearOthers(r) \/ DeleteFile(r) \/ GiveUpChore(r)
    \/ \E f \in Photos : SetCover(f) \/ RemovePhoto(f)

PhotoSpec == PhotoInit /\ [][PhotoNext]_photoVars

-----------------------------------------------------------------------------

PhotoTypeOK ==
    /\ link \in [Photos -> {"none", "photo", "cover"}]
    /\ files \subseteq Photos
    /\ \A f \in Photos \ files : link[f] = "none"
    /\ chore \in [Uploaders -> [at : {"idle", "clear", "delete"}, file : Photos \cup {"none"}]]

(* When no request is between its two statements a property has one cover  *)
(* at most, unless a request broke off; and it has the one the host chose, *)
(* unless two requests were about the cover at once, which can leave none. *)
CoverKept ==
    Rest => /\ Cardinality(Covers) <= 1 \/ broken
            /\ ~clash => Cardinality(Covers) = IF chosen THEN 1 ELSE 0

(* No photo goes away with its file, unless it was added after remove had  *)
(* counted the file's links.                                               *)
UsedFileStays == lost \subseteq late
=============================================================================
