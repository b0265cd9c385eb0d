---------------------------- MODULE Preferences ----------------------------
(***************************************************************************)
(* The preferences of the participants of one conversation: bookmarked,    *)
(* archived, deleted from their list (conversations.service.ts), and the   *)
(* messages that bring the conversation back into the lists it was deleted *)
(* from.  An update is merged into a copy of the preference, stored, and   *)
(* put into memory as a whole.  A message restores the preferences first,  *)
(* all at once, and is then stored.                                        *)
(***************************************************************************)
EXTENDS Personal

CONSTANTS
    Reader,         \* the participants
    Request,        \* bound: requests of participants under way at once
    Post            \* bound: messages of a behaviour

Flag == {"isBookmarked", "isArchived", "isDeleted"}

Preference == [Flag -> BOOLEAN]

\* The upserts: those of a participant's request, and that of a message for
\* each participant who deleted the conversation.
Upsert == Request \union (Post \X Reader)

ASSUME PreferencesConstants == Request \intersect (Post \X Reader) = {}

VARIABLES
    preference,     \* conversationPreferences; no entry counts as all FALSE
    preferenceRow,  \* the table, likewise
    upsert,         \* the upserts under way
    posting,        \* the step of createMessage
    log,            \* the messages in memory
    messageRow,     \* the messages in the table
    owed,           \* of each message, who has not asked to delete the
                    \* conversation since it was sent
    slipped,        \* whose upserts overtook one another, or lost an answer
    blended         \* whose preference was replaced by a copy of an older one

preferenceVars == <<preference, preferenceRow, upsert, posting, log, messageRow,
                    owed, slipped, blended>>

PreferencesTypeOK ==
    /\ preference \in [Reader -> Preference]
    /\ preferenceRow \in [Reader -> Preference]
    /\ DOMAIN upsert = Upsert
    /\ \A w \in UnderWay(upsert) :
          /\ upsert[w].step \in {"sent", "stored"}
          /\ upsert[w].user \in Reader
          /\ upsert[w].found \in Preference
          /\ DOMAIN upsert[w].changes \subseteq Flag
          /\ upsert[w].older \subseteq UnderWay(upsert)
    /\ posting \in [Post -> {"unsent", "restoring", "sent", "stored", "done", "failed"}]
    /\ log \subseteq messageRow /\ messageRow \subseteq Post
    /\ owed \in [Post -> SUBSET Reader]
    /\ slipped \subseteq Reader /\ blended \subseteq Reader

PreferencesInit ==
    /\ preference = [u \in Reader |-> [f \in Flag |-> FALSE]]
    /\ preferenceRow = preference
    /\ upsert = [w \in Upsert |-> Idle]
    /\ posting = [p \in Post |-> "unsent"]
    /\ log = {} /\ messageRow = {}
    /\ owed = [p \in Post |-> {}]
    /\ slipped = {} /\ blended = {}

-----------------------------------------------------------------------------
\* The flags that an update sets replace those there were.
Merged(changes, flags) ==
    [f \in Flag |-> IF f \in DOMAIN changes THEN changes[f] ELSE flags[f]]

NotDeleted == [f \in {"isDeleted"} |-> FALSE]

\* The part of setConversationPreference before its query.
Begun(u, changes) ==
    [step |-> "sent", user |-> u, changes |-> changes, found |-> preference[u],
     older |-> {w \in UnderWay(upsert) : upsert[w].user = u}]

SetPreference(r, u, changes) ==
    /\ upsert[r] = Idle
    /\ upsert' = [upsert EXCEPT ![r] = Begun(u, changes)]
    /\ UNCHANGED <<preference, preferenceRow, posting, log, messageRow,
                   slipped, blended>>

Toggle(u, flag) ==
    [f \in {flag, "isDeleted"} |-> f = flag /\ ~preference[u][flag]]

ToggleConversationBookmark(r, u) ==
    SetPreference(r, u, Toggle(u, "isBookmarked")) /\ UNCHANGED owed

ToggleConversationArchive(r, u) ==
    SetPreference(r, u, Toggle(u, "isArchived")) /\ UNCHANGED owed

\* createDirectConversation with a participant one already has a conversation
\* with.
CreateExistingDirect(r, u) ==
    SetPreference(r, u, NotDeleted) /\ UNCHANGED owed

DeleteConversationForUser(r, u) ==
    /\ SetPreference(r, u, [f \in Flag |-> f = "isDeleted"])
    /\ owed' = [p \in Post |-> owed[p] \ {u}]

-----------------------------------------------------------------------------
\* Who a message brings the conversation back to.
Deleted == {u \in Reader : preference[u].isDeleted}

BeingDeleted ==
    {upsert[w].user : w \in {v \in UnderWay(upsert) : upsert[v].changes["isDeleted"]}}

\* Mutant of CreateMessage: the preferences are restored without awaiting it.
CreateMessageAtOnce(p) ==
    /\ posting[p] = "unsent"
    /\ upsert' = [w \in Upsert |->
                     IF w \in {p} \X Deleted THEN Begun(w[2], NotDeleted)
                     ELSE upsert[w]]
    /\ posting' = [posting EXCEPT ![p] = "sent"]
    /\ owed' = [owed EXCEPT ![p] = Reader \ BeingDeleted]
    /\ UNCHANGED <<preference, preferenceRow, log, messageRow, slipped, blended>>

CreateMessage(p) ==
    /\ posting[p] = "unsent"
    /\ upsert' = [w \in Upsert |->
                     IF w \in {p} \X Deleted THEN Begun(w[2], NotDeleted)
                     ELSE upsert[w]]
    /\ posting' = [posting EXCEPT ![p] = IF Deleted = {} THEN "sent" ELSE "restoring"]
    /\ owed' = [owed EXCEPT ![p] = Reader \ BeingDeleted]
    /\ UNCHANGED <<preference, preferenceRow, log, messageRow, slipped, blended>>

\* Messages that await an upsert, which is theirs.
Awaiting(w) == {p \in Post : posting[p] = "restoring" /\ w \in {p} \X Reader}

\* Promise.all is done with the last upsert, and goes on at once.
Restored(w) ==
    {p \in Awaiting(w) : UnderWay(upsert) \intersect ({p} \X Reader) = {w}}

StoreUpsert(w) ==
    LET u == upsert[w].user IN
    /\ upsert[w].step = "sent"
    /\ preferenceRow' = [preferenceRow EXCEPT ![u] = Merged(upsert[w].changes, @)]
    /\ upsert' = [upsert EXCEPT ![w].step = "stored"]
    /\ slipped' = slipped \union {v \in {u} : OvertakesQuery(upsert, w)}
    /\ UNCHANGED <<preference, posting, log, messageRow, owed, blended>>

ResumeUpsert(w) ==
    LET u == upsert[w].user IN
    /\ upsert[w].step = "stored"
    /\ preference' = [preference EXCEPT ![u] = Merged(upsert[w].changes, upsert[w].found)]
    /\ upsert' = Ended(upsert, w)
    /\ posting' = [p \in Post |-> IF p \in Restored(w) THEN "sent" ELSE posting[p]]
    /\ slipped' = slipped \union {v \in {u} : OvertakesAnswer(upsert, w)}
    /\ blended' = blended \union {v \in {u} : preference[u] # upsert[w].found}
    /\ UNCHANGED <<preferenceRow, log, messageRow, owed>>

\* Mutant of FailUpsert: the update is kept in memory although it failed.
FailUpsertKept(w) ==
    /\ DbMayFail
    /\ w \in UnderWay(upsert)
    /\ preference' = [preference EXCEPT ![upsert[w].user] =
                         Merged(upsert[w].changes, upsert[w].found)]
    /\ upsert' = Ended(upsert, w)
    /\ posting' = [p \in Post |-> IF p \in Awaiting(w) THEN "failed" ELSE posting[p]]
    /\ slipped' = slipped \union {v \in {upsert[w].user} : upsert[w].step = "stored"}
    /\ UNCHANGED <<preferenceRow, log, messageRow, owed, blended>>

\* The message fails with the first of its upserts; the others go on.
FailUpsert(w) ==
    /\ DbMayFail
    /\ w \in UnderWay(upsert)
    /\ upsert' = Ended(upsert, w)
    /\ posting' = [p \in Post |-> IF p \in Awaiting(w) THEN "failed" ELSE posting[p]]
    /\ slipped' = slipped \union {v \in {upsert[w].user} : upsert[w].step = "stored"}
    /\ UNCHANGED <<preference, preferenceRow, log, messageRow, owed, blended>>

StorePost(p) ==
    /\ posting[p] = "sent"
    /\ messageRow' = messageRow \union {p}
    /\ posting' = [posting EXCEPT ![p] = "stored"]
    /\ UNCHANGED <<preference, preferenceRow, upsert, log, owed, slipped, blended>>

ResumePost(p) ==
    /\ posting[p] = "stored"
    /\ log' = log \union {p}
    /\ posting' = [posting EXCEPT ![p] = "done"]
    /\ UNCHANGED <<preference, preferenceRow, upsert, messageRow, owed, slipped, blended>>

FailPost(p) ==
    /\ DbMayFail
    /\ posting[p] \in {"sent", "stored"}
    /\ posting' = [posting EXCEPT ![p] = "failed"]
    /\ UNCHANGED <<preference, preferenceRow, upsert, log, messageRow, owed,
                   slipped, blended>>

\* onModuleInit reads preferences and messages.
RestartPreferences ==
    /\ MayRestart
    /\ preference' = preferenceRow
    /\ log' = messageRow
    /\ upsert' = [w \in Upsert |-> Idle]
    /\ posting' = [p \in Post |->
                      IF posting[p] \in {"unsent", "done"} THEN posting[p] ELSE "failed"]
    /\ owed' = [p \in Post |-> owed[p] \ slipped]
    /\ slipped' = {} /\ blended' = {}
    /\ UNCHANGED <<preferenceRow, messageRow>>

PreferencesNext ==
    \/ \E r \in Request, u \in Reader :
          \/ ToggleConversationBookmark(r, u)
          \/ ToggleConversationArchive(r, u)
          \/ CreateExistingDirect(r, u)
          \/ DeleteConversationForUser(r, u)
    \/ \E w \in Upsert : StoreUpsert(w) \/ ResumeUpsert(w) \/ FailUpsert(w)
    \/ \E p \in Post :
          \/ CreateMessage(p) \/ StorePost(p) \/ ResumePost(p) \/ FailPost(p)
    \/ RestartPreferences

PreferencesSpec == PreferencesInit /\ [][PreferencesNext]_preferenceVars

-----------------------------------------------------------------------------
\* Nobody misses a message: a conversation with a message that was shown or
\* survived a restart is in the list of everybody who has not asked to delete
\* it since, and a restart does not hide it again, unless upserts of that user
\* overtook one another or lost an answer.
NewMessageIsListed ==
    \A p \in log : \A u \in owed[p] :
       /\ ~preference[u].isDeleted
       /\ u \notin slipped => ~preferenceRow[u].isDeleted

\* With no upsert of a user under way, table and memory agree: on deletion,
\* which every update sets, however the updates overlapped in order, and on the
\* rest unless an update was merged into a copy that was out of date by the
\* time it was put into memory.
PreferencesAreStored ==
    \A u \in Reader :
       (\A w \in UnderWay(upsert) : upsert[w].user # u) /\ u \notin slipped =>
          /\ preference[u].isDeleted = preferenceRow[u].isDeleted
          /\ u \notin blended => preference[u] = preferenceRow[u]
=============================================================================
