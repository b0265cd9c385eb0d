------------------------------- MODULE Groups -------------------------------
(***************************************************************************)
(* One manual group and its management conversation: who belongs to them,  *)
(* in which role, and whose sockets are in their rooms                     *)
(* (backend/src/conversations/conversations.service.ts and                 *)
(* backend/src/chat/chat.gateway.ts).                                      *)
(*                                                                         *)
(* A request checks its actor, changes the participants of the group and   *)
(* then those of the management conversation in memory                     *)
(* (syncManagementParticipants), without interruption.  It then stores the *)
(* management conversation, if that changed, and after it the group, each  *)
(* in a transaction of persistConversationState; what each store leaves to *)
(* tell is told when its transaction has been answered.  A transaction     *)
(* takes the row lock of its conversation and then writes the participants *)
(* one after another, each with the role it has in memory by that time.    *)
(*                                                                         *)
(* Messages, read marks and settings matter here only as further           *)
(* transactions that write all participants.  The group lets its members   *)
(* leave; groups created by the automation are not modelled.               *)
(***************************************************************************)
EXTENDS Faults, Integers, Sequences, FiniteSets

CONSTANTS
    User,           \* users who exist
    Creator,        \* the creator of the group, its first owner
    GlobalAdmin,    \* users with the role admin
    Watcher,        \* users who connect a socket
    Handler,        \* bound: requests under way at once
    Nobody          \* holder of a free lock

ASSUME GroupConstants ==
    /\ Creator \in User
    /\ GlobalAdmin \subseteq User
    /\ Watcher \subseteq User
    /\ Nobody \notin Handler

VARIABLES
    roles,          \* the role of each user in each conversation, in memory
    table,          \* the same in the table
    room,           \* users with a socket in the room of each conversation
    toStore,        \* the conversations each request has left to store
    committed,      \* requests whose transaction is committed, not yet answered
    leaving,        \* whom each request will take out of each room
    holder,         \* the request that holds the row lock of each conversation
    image,          \* what the transaction of that request has written
    lost            \* history: a request was cut short after it changed memory

vars == <<roles, table, room, toStore, committed, leaving, holder, image, lost>>

memory == <<roles, room>>

requests == <<toStore, committed, leaving>>

transactions == <<table, holder, image>>

Conversation == {"group", "management"}

\* "none" is a user who never joined, or one with leftAt.
Role == {"none", "member", "manager", "owner"}

\* A participant the transaction has not written yet.
Unwritten == "unwritten"

NothingWritten == [u \in User |-> Unwritten]

NobodyLeaves == [c \in Conversation |-> {}]

TypeOK ==
    /\ roles \in [Conversation -> [User -> Role]]
    /\ table \in [Conversation -> [User -> Role]]
    /\ room \in [Conversation -> SUBSET User]
    /\ toStore \in [Handler -> SUBSET Conversation]
    /\ committed \subseteq Handler
    /\ leaving \in [Handler -> [Conversation -> SUBSET User]]
    /\ holder \in [Conversation -> Handler \union {Nobody}]
    /\ image \in [Conversation -> [User -> Role \union {Unwritten}]]
    /\ lost \in BOOLEAN

\* createGroup has stored both conversations with their one participant.
Founded == [u \in User |-> IF u = Creator THEN "owner" ELSE "none"]

Init ==
    /\ roles = [c \in Conversation |-> Founded]
    /\ table = [c \in Conversation |-> Founded]
    /\ room = [c \in Conversation |-> {}]
    /\ toStore = [h \in Handler |-> {}]
    /\ committed = {}
    /\ leaving = [h \in Handler |-> NobodyLeaves]
    /\ holder = [c \in Conversation |-> Nobody]
    /\ image = [c \in Conversation |-> NothingWritten]
    /\ lost = FALSE

-----------------------------------------------------------------------------
Participants(of) == {u \in User : of[u] # "none"}

\* canAccessManagementConversation, for a group with these roles.
MayManage(group, u) ==
    \/ group[u] \in {"manager", "owner"}
    \/ group[u] = "member" /\ u \in GlobalAdmin

\* What syncManagementParticipants makes of the management conversation.
Management(group) ==
    [u \in User |-> IF MayManage(group, u) THEN group[u] ELSE "none"]

\* findConversationRecordForUser.
MayOpen(c, u) ==
    IF c = "group" THEN roles["group"][u] # "none" ELSE MayManage(roles["group"], u)

CanManageGroup(u) ==
    \/ roles["group"][u] \in {"manager", "owner"}
    \/ roles["group"][u] = "member" /\ u \in GlobalAdmin

CanChangeSettings(u) ==
    \/ roles["group"][u] = "owner"
    \/ roles["group"][u] # "none" /\ u \in GlobalAdmin

\* Mutant of SyncManagement: changes of a role alone are not noticed.
SyncManagementByMembers(group) ==
    IF Participants(Management(group)) = Participants(roles["management"])
       THEN {} ELSE {"management"}

\* syncManagementParticipants: the management conversation follows a group
\* with the roles "group"; it is stored only if that changes it.
SyncManagement(group) ==
    IF Management(group) = roles["management"] THEN {} ELSE {"management"}

\* Mutant of Expelled: participant.removed is not sent.
ExpelledNobody(group) == {}

Expelled(group) ==
    Participants(roles["management"]) \ Participants(Management(group))

\* Request h has changed the group to "group", and those of "gone" will be
\* taken out of its room; the conversations of "stores" are stored, the
\* management conversation first.
Change(h, group, gone, stores) ==
    /\ toStore[h] = {}
    /\ stores # {}
    /\ roles' = [c \in Conversation |->
                    IF c = "group" THEN group ELSE Management(group)]
    /\ toStore' = [toStore EXCEPT ![h] = stores]
    /\ leaving' = [leaving EXCEPT ![h] =
          [c \in Conversation |-> IF c = "group" THEN gone ELSE Expelled(group)]]
    /\ UNCHANGED <<room, committed, transactions, lost>>

ChangeGroup(h, group, gone) ==
    Change(h, group, gone, SyncManagement(group) \union {"group"})

LeaveConversation(h, u) ==
    /\ roles["group"][u] \in {"member", "manager"}
    /\ ChangeGroup(h, [roles["group"] EXCEPT ![u] = "none"], {u})

AddParticipant(h, actor, u) ==
    /\ CanManageGroup(actor)
    /\ roles["group"][u] = "none"
    /\ ChangeGroup(h, [roles["group"] EXCEPT ![u] = "member"], {})

RemoveParticipant(h, actor, u) ==
    /\ CanManageGroup(actor)
    /\ roles["group"][u] \in {"member", "manager"}
    /\ roles["group"][actor] = "manager" => roles["group"][u] = "member"
    /\ u \in GlobalAdmin => actor \in GlobalAdmin
    /\ ChangeGroup(h, [roles["group"] EXCEPT ![u] = "none"], {u})

\* Mutant of TransferGroupOwner: the previous owner keeps the role.
TransferGroupOwnerTwice(h, actor, u) ==
    /\ CanChangeSettings(actor)
    /\ roles["group"][u] \in {"member", "manager"}
    /\ ChangeGroup(h, [roles["group"] EXCEPT ![u] = "owner"], {})

TransferGroupOwner(h, actor, u) ==
    /\ CanChangeSettings(actor)
    /\ roles["group"][u] \in {"member", "manager"}
    /\ ChangeGroup(h, [v \in User |-> IF v = u THEN "owner"
                                 ELSE IF roles["group"][v] = "owner" THEN "member"
                                 ELSE roles["group"][v]], {})

UpdateParticipantRole(h, actor, u, role) ==
    /\ CanChangeSettings(actor)
    /\ roles["group"][u] \in {"member", "manager"} \ {role}
    /\ ChangeGroup(h, [roles["group"] EXCEPT ![u] = role], {})

\* findManagementConversation brings the participants up to date and stores
\* them only if that changed any.
FindManagementConversation(h, u) ==
    /\ MayManage(roles["group"], u)
    /\ Change(h, roles["group"], {}, SyncManagement(roles["group"]))

\* A message or a read mark stores its conversation with all participants, a
\* change of settings both conversations.
StoreAgain(h, stores) ==
    /\ toStore[h] = {}
    /\ toStore' = [toStore EXCEPT ![h] = stores]
    /\ UNCHANGED <<memory, committed, leaving, transactions, lost>>

PostMessage(h, c, u) ==
    /\ MayOpen(c, u)
    /\ StoreAgain(h, {c})

UpdateGroupConversation(h, actor) ==
    /\ CanManageGroup(actor)
    /\ StoreAgain(h, Conversation)

-----------------------------------------------------------------------------
\* The conversation request h is storing.
Stage(h) == IF "management" \in toStore[h] THEN "management" ELSE "group"

\* The transaction of request h writes participant u of c.  The first write
\* stands for taking the row lock too, and the last one for the commit: in
\* between, other transactions on c wait.
WriteParticipant(h, c, u) ==
    LET written == [image[c] EXCEPT ![u] = roles[c][u]]
    IN  /\ c \in toStore[h]
        /\ c = Stage(h)
        /\ h \notin committed
        /\ holder[c] \in {Nobody, h}
        /\ image[c][u] = Unwritten
        /\ IF \E v \in User : written[v] = Unwritten
              THEN /\ holder' = [holder EXCEPT ![c] = h]
                   /\ image' = [image EXCEPT ![c] = written]
                   /\ UNCHANGED <<table, committed>>
              ELSE /\ holder' = [holder EXCEPT ![c] = Nobody]
                   /\ image' = [image EXCEPT ![c] = NothingWritten]
                   /\ table' = [table EXCEPT ![c] = written]
                   /\ committed' = committed \union {h}
        /\ UNCHANGED <<memory, toStore, leaving, lost>>

\* The transaction is answered: sockets of those who left are taken out of the
\* room (broadcastParticipantLeft, broadcastParticipantRemoved), and the next
\* store begins.
Answered(h) ==
    LET c == Stage(h)
    IN  /\ h \in committed
        /\ committed' = committed \ {h}
        /\ room' = [room EXCEPT ![c] = @ \ leaving[h][c]]
        /\ toStore' = [toStore EXCEPT ![h] = @ \ {c}]
        /\ leaving' = [leaving EXCEPT ![h] = [leaving[h] EXCEPT ![c] = {}]]
        /\ UNCHANGED <<roles, transactions, lost>>

\* A transaction fails, or was committed and its answer is lost: the request
\* ends with an error, and memory stays as it was changed.
Fail(h) ==
    /\ DbMayFail
    /\ toStore[h] # {}
    /\ toStore' = [toStore EXCEPT ![h] = {}]
    /\ leaving' = [leaving EXCEPT ![h] = NobodyLeaves]
    /\ committed' = committed \ {h}
    /\ holder' = [c \in Conversation |-> IF holder[c] = h THEN Nobody ELSE holder[c]]
    /\ image' = [c \in Conversation |->
                    IF holder[c] = h THEN NothingWritten ELSE image[c]]
    /\ lost' = TRUE
    /\ UNCHANGED <<memory, table>>

\* The process ends and onModuleInit reads the table; sockets are gone.
RestartBackend ==
    /\ MayRestart
    /\ roles' = table
    /\ room' = [c \in Conversation |-> {}]
    /\ toStore' = [h \in Handler |-> {}]
    /\ committed' = {}
    /\ leaving' = [h \in Handler |-> NobodyLeaves]
    /\ holder' = [c \in Conversation |-> Nobody]
    /\ image' = [c \in Conversation |-> NothingWritten]
    /\ lost' = (lost \/ \E h \in Handler : toStore[h] # {})
    /\ UNCHANGED table

-----------------------------------------------------------------------------
JoinConversation(c, u) ==
    /\ u \in Watcher \ room[c]
    /\ MayOpen(c, u)
    /\ room' = [room EXCEPT ![c] = @ \union {u}]
    /\ UNCHANGED <<roles, requests, transactions, lost>>

\* The user unsubscribes from a room, or disconnects.
UnsubscribeConversation(c, u) ==
    /\ u \in room[c]
    /\ room' = [room EXCEPT ![c] = @ \ {u}]
    /\ UNCHANGED <<roles, requests, transactions, lost>>

-----------------------------------------------------------------------------
Membership(h) ==
    \E u \in User :
       \/ LeaveConversation(h, u)
       \/ \E actor \in User :
             \/ AddParticipant(h, actor, u)
             \/ RemoveParticipant(h, actor, u)
             \/ TransferGroupOwner(h, actor, u)
             \/ \E role \in {"member", "manager"} :
                   UpdateParticipantRole(h, actor, u, role)

Rewriting(h) ==
    \E u \in User :
       \/ FindManagementConversation(h, u)
       \/ UpdateGroupConversation(h, u)
       \/ \E c \in Conversation : PostMessage(h, c, u)

Transaction(h) ==
    \/ \E c \in Conversation, u \in User : WriteParticipant(h, c, u)
    \/ Answered(h)
    \/ Fail(h)

Socket ==
    \E c \in Conversation, u \in User :
       JoinConversation(c, u) \/ UnsubscribeConversation(c, u)

Next ==
    \/ \E h \in Handler : Membership(h) \/ Rewriting(h) \/ Transaction(h)
    \/ Socket
    \/ RestartBackend

Spec == Init /\ [][Next]_vars

-----------------------------------------------------------------------------
\* Sockets that are still to be taken out of the room of c by a request.
ToldToLeave(c) == UNION {leaving[h][c] : h \in Handler}

\* Whoever is removed from the group, or loses the right to the management
\* conversation, receives no more of its messages: their sockets are out of the
\* room, or the request that ended their right has not been answered yet.
RoomIsPrivate(c) ==
    \A u \in room[c] : MayOpen(c, u) \/ u \in ToldToLeave(c)

RoomsArePrivate == ~lost => \A c \in Conversation : RoomIsPrivate(c)

\* A role in memory that differs from the table is about to be stored: although
\* a transaction writes the participants one after another while others change
\* them, a restart with no request under way brings the same roles back.
RolesAreStored ==
    ~lost => \A c \in Conversation : \A u \in User :
                roles[c][u] # table[c][u] =>
                   \E h \in Handler : c \in toStore[h]

\* The group has one owner, who can only hand ownership on.
GroupHasOneOwner ==
    ~lost => \E u \in User : \A v \in User :
                roles["group"][v] = "owner" <=> v = u

=============================================================================
