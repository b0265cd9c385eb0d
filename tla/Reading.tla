------------------------------ MODULE Reading ------------------------------
(***************************************************************************)
(* What one participant reads of a conversation (conversations.service.ts  *)
(* and conversation-catch-up.ts): the pages of messages, the position up   *)
(* to which messages count as read, and the key moments of a catch-up.     *)
(* All three go by createdAt, which is taken before a message is stored,   *)
(* while memory lists messages in the order their transactions are         *)
(* answered, and after a restart in the order of createdAt.                *)
(***************************************************************************)
EXTENDS Personal, Integers, SequencesExt

CONSTANTS
    Entry,          \* bound: the messages of a behaviour, none the participant's
                    \* own, which never count as unread
    System,         \* those no user sends
    Decision,       \* those with the words of a decision
    Action,         \* others with the words of an action
    MaxTime,        \* bound: the milliseconds of a behaviour
    MaxMarks,       \* bound: marks under way at once
    PageLimit,      \* query.limit of who reads page by page
    RecentLimit,    \* RECENT_MESSAGE_LINK_LIMIT, and the limit of the chat page
    AnalyzedLimit,  \* MAX_ANALYZED_MESSAGES
    MomentLimit     \* MAX_KEY_MOMENTS

ASSUME ReadingConstants ==
    /\ IsFiniteSet(Entry) /\ System \subseteq Entry
    /\ Decision \subseteq Entry /\ Action \subseteq Entry \ Decision
    /\ {MaxTime, MaxMarks, PageLimit, RecentLimit, AnalyzedLimit, MomentLimit}
          \subseteq Nat \ {0}
    /\ RecentLimit <= AnalyzedLimit

VARIABLES
    clock,
    createdAt,      \* of each message; 0 before it is sent
    step,           \* of its creation
    listed,         \* the messages in memory, as a sequence
    deleted,        \* those with deletedAt
    deleting,       \* deletions whose transaction is under way
    deletedRow,     \* those with deletedAt in the table
    lastReadAt,     \* the participant's position; null is 0
    marks,          \* the number of its transactions under way
    lastReadRow,    \* the position in the table
    cursor,         \* before which time to ask next; see AnyTime and NoMore
    sought,         \* the messages in memory at the first page
    received,       \* the messages on the pages so far
    \* History:
    reversed,       \* <<m, n>>: since the first page memory had m before n,
                    \* though m is not older
    markedAt,       \* the last time of markAsRead
    met             \* in memory at a mark, or under way or only in the table
                    \* then, or created in the millisecond of markedAt

readingVars == <<clock, createdAt, step, listed, deleted, deleting, deletedRow,
                 lastReadAt, marks, lastReadRow, cursor, sought, received, reversed,
                 markedAt, met>>

entryVars == <<createdAt, step, listed>>
deletionVars == <<deleted, deleting, deletedRow>>
markVars == <<lastReadAt, marks, lastReadRow, markedAt, met>>
pageVars == <<cursor, sought, received, reversed>>

AnyTime == MaxTime + 1      \* no time: every message is eligible
NoMore == 0                 \* nextBefore is null

Stored == {e \in Entry : step[e] \in {"stored", "listed", "lost"}}
BeingSent == {e \in Entry : step[e] \in {"sent", "stored"}}

ReadingTypeOK ==
    /\ clock \in 1..MaxTime
    /\ createdAt \in [Entry -> 0..MaxTime]
    /\ step \in [Entry -> {"unsent", "sent", "stored", "listed", "lost", "failed"}]
    /\ listed \in SeqOf(Entry, Cardinality(Entry))
    /\ ToSet(listed) = {e \in Entry : step[e] = "listed"}
    /\ deleted \subseteq ToSet(listed)
    /\ deleting \subseteq deleted /\ deletedRow \subseteq Stored
    /\ {lastReadAt, lastReadRow} \subseteq 0..MaxTime
    /\ marks \in 0..MaxMarks
    /\ cursor \in {NoMore, AnyTime} \union 1..MaxTime
    /\ received \subseteq ToSet(listed) /\ sought \subseteq ToSet(listed)
    /\ reversed \subseteq Entry \X Entry
    /\ markedAt \in 0..MaxTime
    /\ met \subseteq Entry

ReadingInit ==
    /\ clock = 1
    /\ createdAt = [e \in Entry |-> 0]
    /\ step = [e \in Entry |-> "unsent"]
    /\ listed = <<>> /\ reversed = {}
    /\ deleted = {} /\ deleting = {} /\ deletedRow = {}
    /\ lastReadAt = 0 /\ marks = 0 /\ lastReadRow = 0
    /\ markedAt = 0 /\ met = {}
    /\ cursor = AnyTime /\ sought = {} /\ received = {}

-----------------------------------------------------------------------------
PassTime ==
    /\ clock < MaxTime
    /\ clock' = clock + 1
    /\ UNCHANGED <<entryVars, deletionVars, markVars, pageVars>>

\* Of some places in the list of messages, the last ones: slice(-limit).
LastOf(places, limit) ==
    {i \in places : Cardinality({j \in places : j > i}) < limit}

MessagesAt(places) == {listed[i] : i \in places}

\* The pairs that a list of messages has in the wrong order.
Reversals(messages) ==
    LET place == DOMAIN messages IN
    UNION {{<<messages[i], messages[j]>> :
               j \in {k \in place : k > i /\ createdAt[messages[k]] <= createdAt[messages[i]]}} :
              i \in place}

Rearranged(messages) ==
    /\ reversed' = IF cursor = AnyTime THEN {} ELSE reversed \union Reversals(messages)
    /\ UNCHANGED <<cursor, sought, received>>

\* createMessage, createMessageWithAttachments and addSystemEvent up to their
\* transaction.
SendEntry(e) ==
    /\ step[e] = "unsent"
    /\ step' = [step EXCEPT ![e] = "sent"]
    /\ createdAt' = [createdAt EXCEPT ![e] = clock]
    /\ met' = IF clock = markedAt THEN met \union {e} ELSE met
    /\ UNCHANGED <<clock, listed, deletionVars, lastReadAt, marks, lastReadRow,
                   markedAt, pageVars>>

\* The transaction writes the participants as they are in memory, unless the
\* message has attachments.  Messages has its lock and its single writes.
StoreEntry(e) ==
    /\ step[e] = "sent"
    /\ step' = [step EXCEPT ![e] = "stored"]
    /\ lastReadRow' \in {lastReadAt, lastReadRow}
    /\ UNCHANGED <<clock, createdAt, listed, deletionVars, lastReadAt, marks,
                   markedAt, met, pageVars>>

ListEntry(e) ==
    /\ step[e] = "stored"
    /\ step' = [step EXCEPT ![e] = "listed"]
    /\ listed' = Append(listed, e)
    /\ Rearranged(listed')
    /\ UNCHANGED <<clock, createdAt, deletionVars, markVars>>

FailEntry(e) ==
    /\ DbMayFail
    /\ e \in BeingSent
    /\ step' = [step EXCEPT ![e] = IF @ = "stored" THEN "lost" ELSE "failed"]
    /\ UNCHANGED <<clock, createdAt, listed, deletionVars, markVars, pageVars>>

\* deleteMessage and deleteMessageAsAdmin: memory first.
DeleteEntry(e) ==
    /\ e \in ToSet(listed) \ (System \union deleted)
    /\ deleted' = deleted \union {e}
    /\ deleting' = deleting \union {e}
    /\ UNCHANGED <<clock, entryVars, deletedRow, markVars, pageVars>>

StoreDeletion(e) ==
    /\ e \in deleting
    /\ deletedRow' = deletedRow \union {e}
    /\ deleting' = deleting \ {e}
    /\ UNCHANGED <<clock, entryVars, deleted, markVars, pageVars>>

FailDeletion(e) ==
    /\ DbMayFail
    /\ e \in deleting
    /\ deleting' = deleting \ {e}
    /\ UNCHANGED <<clock, entryVars, deleted, deletedRow, markVars, pageVars>>

-----------------------------------------------------------------------------
\* The position is in memory before its transaction, and the transaction
\* writes the one memory has by then.
MoveTo(time) ==
    /\ marks < MaxMarks
    /\ lastReadAt' = time
    /\ marks' = marks + 1
    /\ met' = met \union Stored \union BeingSent
    /\ UNCHANGED <<clock, entryVars, deletionVars, lastReadRow, pageVars>>

\* Mutant of MarkAsRead: the position is rounded up.
MarkAheadAsRead ==
    MoveTo(IF clock < MaxTime THEN clock + 1 ELSE clock) /\ markedAt' = clock

MarkAsRead == MoveTo(clock) /\ markedAt' = clock

MarkAsUnread(e) ==
    e \in ToSet(listed) /\ MoveTo(createdAt[e] - 1) /\ UNCHANGED markedAt

StoreMark ==
    /\ marks > 0
    /\ lastReadRow' = lastReadAt
    /\ marks' = marks - 1
    /\ UNCHANGED <<clock, entryVars, deletionVars, lastReadAt, markedAt, met, pageVars>>

FailMark ==
    /\ DbMayFail
    /\ marks > 0
    /\ marks' = marks - 1
    /\ UNCHANGED <<clock, entryVars, deletionVars, lastReadAt, lastReadRow, markedAt, met,
                   pageVars>>

CountsAsUnread(e) ==
    e \in ToSet(listed) \ deleted /\ createdAt[e] > lastReadAt

-----------------------------------------------------------------------------
Earlier(before) == {i \in DOMAIN listed : createdAt[listed[i]] < before}

Page(before) == LastOf(Earlier(before), PageLimit)

\* Mutant of NextCursor: the time is excluded twice.
CursorBelow(before) ==
    IF Page(before) = Earlier(before) THEN NoMore
    ELSE createdAt[listed[Min(Page(before))]] - 1

\* pageInfo.nextBefore: null when there are no more.
NextCursor(before) ==
    IF Page(before) = Earlier(before) THEN NoMore
    ELSE createdAt[listed[Min(Page(before))]]

FindMessages ==
    /\ cursor # NoMore
    /\ received' = received \union MessagesAt(Page(cursor))
    /\ cursor' = NextCursor(cursor)
    /\ IF cursor = AnyTime
         THEN sought' = ToSet(listed) /\ reversed' = Reversals(listed)
         ELSE UNCHANGED <<sought, reversed>>
    /\ UNCHANGED <<clock, entryVars, deletionVars, markVars>>

-----------------------------------------------------------------------------
\* buildConversationCatchUp for the window that begins at startAt: the places of
\* what it may show, and of that the last messages of users.
Undeleted == {i \in DOMAIN listed : listed[i] \notin deleted}

Analyzed(startAt) ==
    LastOf({i \in Undeleted : createdAt[listed[i]] >= startAt /\ listed[i] \notin System},
           AnalyzedLimit)

\* The messages that the chat page can scroll to.
Recent == LastOf(Undeleted, RecentLimit)

Linked(startAt) == Analyzed(startAt) \intersect Recent

\* Replies, attachments, forwarding and length would add to it.
Score(e) == CASE e \in Decision -> 8 [] e \in Action -> 6 [] OTHER -> 0

\* The sort by score, then by time; it is stable.
StandsBefore(i, j) ==
    LET e == listed[i]
        f == listed[j]
    IN \/ Score(e) > Score(f)
       \/ Score(e) = Score(f) /\ createdAt[e] > createdAt[f]
       \/ Score(e) = Score(f) /\ createdAt[e] = createdAt[f] /\ i < j

Foremost(places, limit) ==
    {i \in places : Cardinality({j \in places : StandsBefore(j, i)}) < limit}

\* Mutant of KeyMoments: the list is cut before the sort.
MomentsOfNewest(startAt) == LastOf(Linked(startAt), MomentLimit)

KeyMoments(startAt) ==
    LET scored == {i \in Linked(startAt) : Score(listed[i]) > 0} IN
    IF scored = {}
      THEN LastOf(Linked(startAt), IF MomentLimit < 3 THEN MomentLimit ELSE 3)
      ELSE Foremost(scored, MomentLimit)

-----------------------------------------------------------------------------
InOrderOf(time, messages) ==
    {s \in SetToSeqs(messages) :
        \A i, j \in DOMAIN s : i < j => time[s[i]] <= time[s[j]]}

\* onModuleInit lists what the table has by createdAt; the order of messages
\* of one millisecond is the database's.
RestartReading ==
    /\ MayRestart
    /\ listed' \in InOrderOf(createdAt, Stored)
    /\ Rearranged(listed')
    /\ step' = [e \in Entry |-> CASE e \in Stored -> "listed"
                                  [] step[e] = "sent" -> "failed"
                                  [] OTHER -> step[e]]
    /\ deleted' = deletedRow /\ deleting' = {}
    /\ lastReadAt' = lastReadRow /\ marks' = 0
    /\ UNCHANGED <<clock, createdAt, deletedRow, lastReadRow, markedAt, met>>

ReadingNext ==
    \/ PassTime
    \/ \E e \in Entry :
          \/ SendEntry(e) \/ StoreEntry(e) \/ ListEntry(e) \/ FailEntry(e)
          \/ DeleteEntry(e) \/ StoreDeletion(e) \/ FailDeletion(e)
          \/ MarkAsUnread(e)
    \/ MarkAsRead \/ StoreMark \/ FailMark
    \/ FindMessages
    \/ RestartReading

ReadingSpec == ReadingInit /\ [][ReadingNext]_readingVars

-----------------------------------------------------------------------------
\* Who reads to the last page gets every message that was there at the first
\* one, although new messages arrive, answers overtake one another and the
\* process restarts, except those that memory listed before a received message
\* no younger than they.
PagesAreWhole ==
    cursor = NoMore =>
       \A e \in sought \ received : \E f \in received : <<e, f>> \in reversed

\* Nothing counts as read that the participant had no chance to see: it was in
\* memory when he marked something, or its sending overlapped the mark, or the
\* answer of its transaction was lost before the mark.
ReadWasListed ==
    \A e \in ToSet(listed) \ deleted : CountsAsUnread(e) \/ e \in met

\* The key moments can be opened: they are on the page the chat shows, unless
\* deleted messages take their place there.  And nothing said on that page gives
\* way to what matters less: a decision only to later ones, an action to
\* decisions and later actions.
MomentsStandOut ==
    LET page == LastOf(DOMAIN listed, RecentLimit) IN
    \A startAt \in 1..clock :
       LET moments == KeyMoments(startAt) IN
       /\ deleted = {} => moments \subseteq page
       /\ \A e \in (MessagesAt(page \ moments) \intersect (Decision \union Action))
                    \ (deleted \union System) :
             createdAt[e] >= startAt =>
                /\ Cardinality(moments) = MomentLimit
                /\ \A f \in MessagesAt(moments) :
                      \/ e \in Action /\ f \in Decision
                      \/ /\ e \in Action <=> f \in Action
                         /\ f \in Decision \union Action /\ createdAt[f] >= createdAt[e]
=============================================================================
