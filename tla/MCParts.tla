------------------------------ MODULE MCParts ------------------------------
(***************************************************************************)
(* Small instances of six parts that share no state: the support page, the *)
(* composer and the view of a chat in the frontend, preferences, bookmarks *)
(* and reading in the backend.  Each behaviour exercises one of them, so   *)
(* that their states add up and do not multiply.                           *)
(***************************************************************************)
EXTENDS SupportPage, Composer, ChatView, Preferences, Bookmarks, Reading, TLC

CONSTANTS ann, bob

VARIABLE part       \* the part this behaviour exercises

SupportIdle ==
    /\ ledger = {} /\ selected = {} /\ form = {} /\ editAssignee = {} /\ filled = {}
    /\ call = {} /\ refresh = {} /\ notices = {} /\ heard = {}

ComposerIdle ==
    /\ active = {} /\ text = {} /\ draft = {} /\ contact = {} /\ location = {}
    /\ connected = {} /\ sends = {} /\ messages = {} /\ writtenFor = {} /\ moved = {}

ChatIdle ==
    /\ newest = {} /\ chosen = {} /\ details = {} /\ shown = {} /\ gets = {}
    /\ events = {} /\ answers = {} /\ online = {} /\ passed = {} /\ crossed = {}

PreferencesIdle ==
    /\ preference = {} /\ preferenceRow = {} /\ upsert = {} /\ posting = {}
    /\ log = {} /\ messageRow = {} /\ owed = {} /\ slipped = {} /\ blended = {}

BookmarksIdle ==
    bookmark = {} /\ bookmarkRow = {} /\ change = {} /\ strayed = {}

ReadingIdle ==
    /\ clock = {} /\ createdAt = {} /\ step = {} /\ listed = {} /\ deleted = {}
    /\ deleting = {} /\ deletedRow = {} /\ lastReadAt = {} /\ marks = {}
    /\ lastReadRow = {} /\ markedAt = {} /\ met = {} /\ cursor = {} /\ sought = {} /\ received = {}
    /\ reversed = {}

MCInit ==
    \/ /\ part = "support"
       /\ SupportInit /\ ComposerIdle /\ ChatIdle
       /\ PreferencesIdle /\ BookmarksIdle /\ ReadingIdle
    \/ /\ part = "composer"
       /\ SupportIdle /\ ComposerInit /\ ChatIdle
       /\ PreferencesIdle /\ BookmarksIdle /\ ReadingIdle
    \/ /\ part = "chat"
       /\ SupportIdle /\ ComposerIdle /\ ChatViewInit
       /\ PreferencesIdle /\ BookmarksIdle /\ ReadingIdle
    \/ /\ part = "preferences"
       /\ SupportIdle /\ ComposerIdle /\ ChatIdle
       /\ PreferencesInit /\ BookmarksIdle /\ ReadingIdle
    \/ /\ part = "bookmarks"
       /\ SupportIdle /\ ComposerIdle /\ ChatIdle
       /\ PreferencesIdle /\ BookmarksInit /\ ReadingIdle
    \/ /\ part = "reading"
       /\ SupportIdle /\ ComposerIdle /\ ChatIdle
       /\ PreferencesIdle /\ BookmarksIdle /\ ReadingInit

MCNext ==
    /\ UNCHANGED part
    /\ \/ /\ part = "support" /\ SupportNext
          /\ UNCHANGED <<composerVars, chatVars, preferenceVars, bookmarkVars, readingVars>>
       \/ /\ part = "composer" /\ ComposerNext
          /\ UNCHANGED <<supportVars, chatVars, preferenceVars, bookmarkVars, readingVars>>
       \/ /\ part = "chat" /\ ChatViewNext
          /\ UNCHANGED <<supportVars, composerVars, preferenceVars, bookmarkVars, readingVars>>
       \/ /\ part = "preferences" /\ PreferencesNext
          /\ UNCHANGED <<supportVars, composerVars, chatVars, bookmarkVars, readingVars>>
       \/ /\ part = "bookmarks" /\ BookmarksNext
          /\ UNCHANGED <<supportVars, composerVars, chatVars, preferenceVars, readingVars>>
       \/ /\ part = "reading" /\ ReadingNext
          /\ UNCHANGED <<supportVars, composerVars, chatVars, preferenceVars, bookmarkVars>>

MCSpec ==
    MCInit /\ [][MCNext]_<<part, supportVars, composerVars, chatVars,
                           preferenceVars, bookmarkVars, readingVars>>

\* Tickets, conversations and chats are the same model values, and so are the
\* values of a field, words and titles: no behaviour exercises both.
PartSymmetry ==
    Permutations(Ticket) \union Permutations(Value) \union Permutations(Request)

OnlyDeletes(u) == ~preference[u].isArchived /\ ~preference[u].isBookmarked

\* Nobody both archives and bookmarks, and what follows an update that undid
\* another in memory is left out.  The second reader only deletes the conversation
\* and opens it again, one request at a time, and then so does the first: that is
\* when a message has two preferences to restore.
BobOnlyDeletes ==
    part = "preferences" =>
       /\ \A u \in Reader : ~(preference[u].isArchived /\ preference[u].isBookmarked)
       /\ bob \notin slipped /\ blended = {}
       /\ OnlyDeletes(bob)
       /\ preference[bob].isDeleted \/ (\E r \in Request \intersect UnderWay(upsert) :
                                            upsert[r].user = bob) =>
             OnlyDeletes(ann) /\ ~(Request \subseteq UnderWay(upsert))

Marking == marks # 0 \/ markedAt # 0 \/ met # {}

\* The participant of a conversation reads its pages, marks it, or sees messages
\* of it deleted: what the three do to one another is nothing.
OneKindOfReading ==
    part = "reading" =>
       LET paging == cursor # AnyTime
           deletion == deleted \union deletedRow # {}
       IN /\ ~(paging /\ Marking) /\ ~(paging /\ deletion) /\ ~(Marking /\ deletion)

\* A position is found or refused before the socket goes down.
LocatedWhileConnected ==
    part = "composer" => connected \/ ~location.pending

\* Of a stored version it matters what it holds, and of who stored it from which
\* form only whether they stored no more than their edits.
LedgerView ==
    <<[t \in Ticket |-> [v \in DOMAIN ledger[t] |-> <<ledger[t][v].values, ledger[t][v].assignee>>]],
      SavesOnlyEdits>>

\* No version is older than the first.
HeardView == [t \in Ticket |-> IF heard[t] = 0 THEN 1 ELSE heard[t]]

\* The form of a closed ticket is filled before it is looked at.
FormView == IF selected = Closed THEN <<>> ELSE <<form, editAssignee, filled>>

\* Of a message whose callbacks have run, requests that may still be carried
\* out matter, and whether it was taken for sent.
SendView(send) ==
    LET late == {r \in {"packet", "rest"} : send[r].step = "sent"} IN
    IF send.result = "open" THEN <<send>>
    ELSE <<send.result = "sent",
           IF late = {} THEN <<>>
           ELSE <<send.conversation, send.words, [r \in late |-> send[r].id]>>>>

\* Of a message that was sent, it matters whether it is still under way and
\* where it is, and of one that is nowhere not who was owed it.
PostView(p) ==
    <<IF posting[p] = "done" THEN "failed" ELSE posting[p],
      IF p \in messageRow \/ posting[p] \in {"restoring", "sent"} THEN owed[p] ELSE {}>>

\* Of a message that failed, its time does not matter, and after the last page
\* only what the pages missed.  For marks, messages count and do not have an order.
ReadingView ==
    LET time(e) == IF step[e] = "failed" THEN 0 ELSE createdAt[e]
        kind(e) == <<step[e], time(e), e \in met>>
        missed == sought \ received
    IN IF Marking
         THEN <<clock, lastReadAt, marks, lastReadRow, markedAt,
                {<<kind(e), Cardinality({f \in Entry : kind(f) = kind(e)})>> : e \in Entry}>>
         ELSE <<clock, [e \in Entry |-> time(e)], step, listed, deletionVars, cursor,
                IF cursor = NoMore
                  THEN {e \in missed : ~ \E f \in received : <<e, f>> \in reversed}
                  ELSE <<sought, received, reversed>>>>

PartView ==
    <<part,
      CASE part = "support" ->
             <<LedgerView, selected, FormView, call, refresh, notices, HeardView>>
        [] part = "composer" ->
             <<active, text, draft, contact, location, connected, messages,
               writtenFor, moved, [i \in DOMAIN sends |-> SendView(sends[i])]>>
        [] part = "chat" -> chatVars
        [] part = "preferences" ->
             <<preference, preferenceRow, upsert, log, messageRow, slipped, blended,
               [p \in Post |-> PostView(p)]>>
        [] part = "bookmarks" -> bookmarkVars
        [] part = "reading" -> ReadingView>>

\* The properties of each part, in the behaviours that exercise it.  The page
\* of the support desk saves only what the admin edited there, and shows the
\* open ticket as it is.
SupportPageIsSound == part = "support" => SavesOnlyEdits /\ TicketIsCurrent

ComposerSentHomeOnce == part = "composer" => SentHomeOnce

ChatPageIsCurrent == part = "chat" => ChatIsCurrent

KeptIsStored ==
    /\ part = "preferences" => NewMessageIsListed /\ PreferencesAreStored
    /\ part = "bookmarks" => BookmarkIsStored

\* What a participant reads of a conversation is whole: its pages, what counts
\* as unread, and the key moments of a catch-up.
ReadersAreServed == part = "reading" => PagesAreWhole /\ ReadWasListed /\ MomentsStandOut

=============================================================================
