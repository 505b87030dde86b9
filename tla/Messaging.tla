----------------------------- MODULE Messaging ------------------------------
(***************************************************************************)
(* MessagingService, for the conversation of two users: starting it,       *)
(* sending, listing, marking as read, deleting, blocking.  A message gets  *)
(* its createdAt when the row is written and becomes visible when the      *)
(* transaction commits; lastReadAt is the time of the request.             *)
(*                                                                         *)
(* Time is a counter that the writes of these two columns advance.         *)
(***************************************************************************)
EXTENDS Integers, FiniteSets

CONSTANTS
    Members,    \* the two users
    Texts,      \* the messages, by identity of the row
    MaxTime     \* bound: messages and marks of a run

ASSUME MessagingAssumption == Cardinality(Members) = 2 /\ MaxTime \in Nat

VARIABLES
    opened,     \* the Conversation row, by its unique key, and its participants
    starting,   \* startDirect, startProperty: users that found no row yet
    blocks,     \* UserBlock: <<who, whom>>
    text,       \* Message rows: sender, createdAt, and where they are
    lastRead,   \* ConversationParticipant.lastReadAt of each user
    clock,
    shown,      \* history: the messages listed to each user
    missable    \* history: messages under way or unlisted when the user marked

chatVars == <<opened, starting, blocks, text, lastRead, clock, shown, missable>>

NoText == [from |-> "none", at |-> 0, st |-> "none", hushed |-> FALSE]
Sent == {m \in Texts : text[m].st = "sent"}
Writing == {m \in Texts : text[m].st \in {"checked", "writing"}}
Blocked_ == blocks # {}

ChatInit ==
    /\ opened = {} /\ starting = {} /\ blocks = {}
    /\ text = [m \in Texts |-> NoText]
    /\ lastRead = [u \in Members |-> 0]
    /\ clock = 0
    /\ shown = [u \in Members |-> {}]
    /\ missable = [u \in Members |-> {}]

Tick == clock < MaxTime /\ clock' = clock + 1

-----------------------------------------------------------------------------

(* startDirect, startProperty: the row and both participants in one        *)
(* transaction; the unique key fails the second of two.                    *)
FindDirect(u) ==
    /\ opened = {} /\ u \notin starting
    /\ starting' = starting \cup {u}
    /\ UNCHANGED <<opened, blocks, text, lastRead, clock, shown, missable>>

Open(u) ==
    /\ u \in starting
    /\ starting' = starting \ {u}
    /\ opened' = Members
    /\ UNCHANGED <<blocks, text, lastRead, clock, shown, missable>>

MayWriteFault(u) == u \in opened /\ ~\E v \in Members : <<u, v>> \in blocks

(* participantOrThrow and assertNotBlocked, in either direction.           *)
MayWrite(u) == u \in opened /\ ~Blocked_

(* sendMessage: the checks, the row, the commit.                           *)
CheckSend(u, m) ==
    /\ MayWrite(u)
    /\ text[m].st = "none"
    /\ text' = [text EXCEPT ![m] = [from |-> u, at |-> 0, st |-> "checked", hushed |-> Blocked_]]
    /\ UNCHANGED <<opened, starting, blocks, lastRead, clock, shown, missable>>

NowFault == clock

Now == clock + 1

WriteText(m) ==
    /\ text[m].st = "checked"
    /\ Tick
    /\ text' = [text EXCEPT ![m].st = "writing", ![m].at = Now]
    /\ UNCHANGED <<opened, starting, blocks, lastRead, shown, missable>>

CommitText(m) ==
    /\ text[m].st = "writing"
    /\ text' = [text EXCEPT ![m].st = "sent"]
    /\ UNCHANGED <<opened, starting, blocks, lastRead, clock, shown, missable>>

(* An attachment is refused, or the process ends: nothing is left.         *)
RollBackText(m) ==
    /\ m \in Writing
    /\ text' = [text EXCEPT ![m].st = "refused"]
    /\ UNCHANGED <<opened, starting, blocks, lastRead, clock, shown, missable>>

DeleteMessage(m) ==
    /\ m \in Sent
    /\ text' = [text EXCEPT ![m].st = "deleted"]
    /\ UNCHANGED <<opened, starting, blocks, lastRead, clock, shown, missable>>

-----------------------------------------------------------------------------

(* listMessages; blocked users still read.                                 *)
ListTexts(u) ==
    /\ u \in opened
    /\ shown' = [shown EXCEPT ![u] = @ \cup Sent]
    /\ UNCHANGED <<opened, starting, blocks, text, lastRead, clock, missable>>

MarkRead(u) ==
    /\ u \in opened
    /\ Tick
    /\ lastRead' = [lastRead EXCEPT ![u] = Now]
    /\ missable' = [missable EXCEPT ![u] = @ \cup ((Writing \cup Sent) \ shown[u])]
    /\ UNCHANGED <<opened, starting, blocks, text, shown>>

(* The unread count of listConversations.                                  *)
Unread(u) == {m \in Sent : text[m].from # u /\ text[m].at > lastRead[u]}

Block(u, v) ==
    /\ u # v
    /\ blocks' = blocks \cup {<<u, v>>}
    /\ UNCHANGED <<opened, starting, text, lastRead, clock, shown, missable>>

Unblock(u, v) ==
    /\ blocks' = blocks \ {<<u, v>>}
    /\ UNCHANGED <<opened, starting, text, lastRead, clock, shown, missable>>

ChatNext ==
    \/ \E u \in Members : \/ FindDirect(u) \/ Open(u) \/ ListTexts(u) \/ MarkRead(u)
                          \/ \E m \in Texts : CheckSend(u, m)
                          \/ \E v \in Members : Block(u, v) \/ Unblock(u, v)
    \/ \E m \in Texts : WriteText(m) \/ CommitText(m) \/ RollBackText(m) \/ DeleteMessage(m)

ChatSpec == ChatInit /\ [][ChatNext]_chatVars

-----------------------------------------------------------------------------

ChatTypeOK ==
    /\ opened \in {{}, Members} /\ starting \subseteq Members
    /\ blocks \subseteq Members \X Members
    /\ text \in [Texts -> [from : Members \cup {"none"}, at : 0..MaxTime, hushed : BOOLEAN,
                           st : {"none", "checked", "writing", "sent", "refused", "deleted"}]]
    /\ lastRead \in [Members -> 0..MaxTime]

(* Whoever blocked whom, what arrives between the two was begun before the *)
(* block: a message that is being written then still gets through.         *)
BlockHolds == \A m \in Sent : ~text[m].hushed

(* A message the other has not been shown is unread, unless it was under   *)
(* way, or committed and not yet listed, at the moment of a markRead: the  *)
(* time of a request is no proof that its user saw what was there.         *)
NoneMissed ==
    \A u \in Members : \A m \in Sent :
        text[m].from # u => m \in Unread(u) \cup shown[u] \cup missable[u]

-----------------------------------------------------------------------------

(***************************************************************************)
(* MessagingService.listConversations, for one user: the conversations a   *)
(* page at a time, by pinnedAt and then by the conversation's updatedAt,   *)
(* each page from where the row that ended the one before stands by now.   *)
(* PostgreSQL sorts a missing pinnedAt first: what is pinned comes last.   *)
(* Archiving and muting are kept in the row and read by no list.           *)
(***************************************************************************)
CONSTANTS
    Convs,      \* the user's conversations
    PageSize,   \* limit
    MaxMoves    \* bound on pins, unpins and messages

ASSUME InboxAssumption ==
    /\ IsFiniteSet(Convs) /\ "none" \notin Convs
    /\ PageSize \in Nat \ {0} /\ MaxMoves \in Nat

VARIABLES
    pinnedAt,   \* ConversationParticipant.pinnedAt, 0 for null
    updatedAt,  \* Conversation.updatedAt
    now,        \* time, in moves
    walk,       \* the user's way through the pages
    moved,      \* history: conversations that moved during the walk
    adrift      \* history: the row a page ended with moved before the next

inboxVars == <<pinnedAt, updatedAt, now, walk, moved, adrift>>

NoWalk == [at |-> "idle", cursor |-> "none", listed |-> [c \in Convs |-> 0]]

InboxInit ==
    /\ pinnedAt = [c \in Convs |-> 0]
    /\ updatedAt = CHOOSE f \in [Convs -> 1..Cardinality(Convs)] :
                      \A c, d \in Convs : f[c] = f[d] => c = d
    /\ now = Cardinality(Convs)
    /\ walk = NoWalk
    /\ moved = {} /\ adrift = FALSE

-----------------------------------------------------------------------------

Before(c, d) ==
    IF pinnedAt[c] = pinnedAt[d] THEN updatedAt[c] > updatedAt[d]
    ELSE pinnedAt[c] = 0 \/ (pinnedAt[d] # 0 /\ pinnedAt[c] > pinnedAt[d])

(* cursor with skip: 1.                                                    *)
After(cursor) == {d \in Convs : cursor = "none" \/ Before(cursor, d)}

First(rows) == {d \in rows : Cardinality({e \in rows : Before(e, d)}) < PageSize}

LastOf(rows) == CHOOSE d \in rows : \A e \in rows : e = d \/ Before(e, d)

StartWalk ==
    /\ walk.at = "idle"
    /\ walk' = [NoWalk EXCEPT !.at = "more"]
    /\ moved' = {} /\ adrift' = FALSE
    /\ UNCHANGED <<pinnedAt, updatedAt, now>>

(* A page, and a row beyond it that tells whether there are more.          *)
ListPage ==
    LET rows == After(walk.cursor)  page == First(rows) IN
    /\ walk.at = "more"
    /\ walk' = [at |-> IF page # rows THEN "more" ELSE "end",
                cursor |-> IF page # rows THEN LastOf(page) ELSE "none",
                listed |-> [c \in Convs |-> walk.listed[c] + IF c \in page THEN 1 ELSE 0]]
    /\ UNCHANGED <<pinnedAt, updatedAt, now, moved, adrift>>

LeaveInbox ==
    /\ walk.at # "idle"
    /\ walk' = NoWalk
    /\ UNCHANGED <<pinnedAt, updatedAt, now, moved, adrift>>

Moves(c) ==
    /\ now < Cardinality(Convs) + MaxMoves
    /\ now' = now + 1
    /\ moved' = moved \cup {c}
    /\ adrift' = (adrift \/ c = walk.cursor)
    /\ UNCHANGED walk

Pin(c) ==
    /\ Moves(c)
    /\ pinnedAt' = [pinnedAt EXCEPT ![c] = now + 1]
    /\ UNCHANGED updatedAt

Unpin(c) ==
    /\ Moves(c)
    /\ pinnedAt' = [pinnedAt EXCEPT ![c] = 0]
    /\ UNCHANGED updatedAt

(* sendMessage touches its conversation.                                   *)
MessageArrives(c) ==
    /\ Moves(c)
    /\ updatedAt' = [updatedAt EXCEPT ![c] = now + 1]
    /\ UNCHANGED pinnedAt

InboxNext ==
    \/ StartWalk \/ ListPage \/ LeaveInbox
    \/ \E c \in Convs : Pin(c) \/ Unpin(c) \/ MessageArrives(c)

InboxSpec == InboxInit /\ [][InboxNext]_inboxVars

-----------------------------------------------------------------------------

InboxTypeOK ==
    /\ pinnedAt \in [Convs -> 0..now] /\ updatedAt \in [Convs -> 1..now]
    /\ walk.at \in {"idle", "more", "end"}
    /\ walk.listed \in [Convs -> Nat]
    /\ walk.cursor \in Convs \cup {"none"}

(* A walk to the end lists every conversation once that did not move       *)
(* meanwhile, whatever else moved: but for the row at the end of a page,   *)
(* which takes the place of the next page along when it moves.             *)
ListedOnce ==
    walk.at = "end" /\ ~adrift => \A c \in Convs \ moved : walk.listed[c] = 1
=============================================================================
