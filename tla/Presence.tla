------------------------------ MODULE Presence ------------------------------
(***************************************************************************)
(* Who is shown online: the sockets ChatGateway counts per user            *)
(* (backend/src/chat/chat.gateway.ts), the notices it sends to the peers   *)
(* of a user, the limit on the events of one socket                        *)
(* (socket-rate-limiter.service.ts), and the set of online users each page *)
(* keeps (frontend/src/features/presence/PresenceProvider.tsx).            *)
(*                                                                         *)
(* Peers are the users one shares a conversation with.  A page learns of   *)
(* new peers by the event that announces the conversation or the           *)
(* participant, and then asks for the whole set again (presence:sync).     *)
(* What travels on one socket arrives in order, or is lost with it.        *)
(***************************************************************************)
EXTENDS Faults, Naturals, Sequences

CONSTANTS
    User,
    Founder,        \* owns every conversation, and so never leaves one
    Conversation,   \* direct conversations and groups
    Page,           \* browser tabs; each keeps one socket
    PageUser,       \* PageUser[p] is signed in on page p
    Watcher,        \* the pages whose set of online users, and whose number
                    \* of events, is followed
    Socket,         \* connections, open or dead, the server may hold at once
    PageOf,         \* PageOf[s] is the page that opens socket s
    None,           \* no socket
    Limit,          \* SOCKET_RATE_LIMIT_MAX
    MaxOnTheWay     \* bound: messages on the way to a page before more happens

ASSUME PresenceConstants ==
    /\ Founder \in User
    /\ PageUser \in [Page -> User]
    /\ Watcher \subseteq Page
    /\ PageOf \in [Socket -> Page]
    /\ None \notin Socket
    /\ Limit \in Nat \ {0}
    /\ MaxOnTheWay \in Nat

VARIABLES
    tracked,        \* the sockets in onlineUserSockets, authenticatedSockets
    room,           \* the sockets in the room of each conversation
    used,           \* count of the bucket of each socket, 0 without a bucket
    members,        \* the participants of each conversation, in memory
    rows,           \* the same in the table
    change,         \* the request that changes the participants
    untold,         \* participants whose coming has not been announced
    link,           \* the socket each page takes for connected
    pipe,           \* what is on the way to a page
    asked,          \* presence:sync events on the way to the server
    shown,          \* PresenceProvider.onlineUserIds
    refused         \* the last presence:sync of the page was over the limit

membership == <<members, rows, change, untold>>
page == <<link, pipe, asked, shown>>
vars == <<tracked, room, used, members, rows, change, untold,
          link, pipe, asked, shown, refused>>

UserOf(s) == PageUser[PageOf[s]]

\* "contacts" is presence:contacts, and the acknowledgement of presence:sync,
\* which is sent just before it with the same content; "news" is whatever makes
\* PresenceProvider ask again: connect, session:ready, conversation:created,
\* participant:added.
Message == [type : {"contacts", "online", "offline", "news"},
            users : SUBSET User]

News == [type |-> "news", users |-> {}]
Notice(type, u) == [type |-> type, users |-> {u}]

NoChange == [kind |-> "none", users |-> {}, step |-> "idle"]

Change == [kind : {"none", "create", "add", "remove"}, users : SUBSET User,
           step : {"idle", "sent", "stored"}]

TypeOK ==
    /\ tracked \in SUBSET Socket
    /\ room \in [Conversation -> SUBSET Socket]
    /\ used \in [Socket -> Nat]
    /\ members \in [Conversation -> SUBSET User]
    /\ rows \in [Conversation -> SUBSET User]
    /\ change \in [Conversation -> Change]
    /\ untold \in [Conversation -> SUBSET User]
    /\ link \in [Page -> Socket \union {None}]
    /\ pipe \in [Watcher -> Seq(Message)]
    /\ asked \in [Watcher -> Nat]
    /\ shown \in [Watcher -> SUBSET User]
    /\ refused \in [Watcher -> BOOLEAN]

\* The process has just started; no conversation exists yet.
Init ==
    /\ tracked = {}
    /\ room = [c \in Conversation |-> {}]
    /\ used = [s \in Socket |-> 0]
    /\ members = [c \in Conversation |-> {}]
    /\ rows = [c \in Conversation |-> {}]
    /\ change = [c \in Conversation |-> NoChange]
    /\ untold = [c \in Conversation |-> {}]
    /\ link = [p \in Page |-> None]
    /\ pipe = [p \in Watcher |-> <<>>]
    /\ asked = [p \in Watcher |-> 0]
    /\ shown = [p \in Watcher |-> {}]
    /\ refused = [p \in Watcher |-> FALSE]

-----------------------------------------------------------------------------
\* isUserOnline, for the sockets T.
Online(u, T) == \E s \in T : UserOf(s) = u

\* getPresencePeerIds
Peers(u) == {v \in User \ {u} : \E c \in Conversation : {u, v} \subseteq members[c]}

\* buildPresenceSnapshot
Contacts(u, T) == [type |-> "contacts", users |-> {v \in Peers(u) : Online(v, T)}]

SocketsOf(U) == {s \in tracked : UserOf(s) \in U}

\* The pages that are still there to get what is sent to the sockets S.
Reach(S) == {p \in Watcher : link[p] \in S}

\* pipe after the message m was sent to the sockets S.
Sent(m, S) ==
    [p \in Watcher |-> IF p \in Reach(S) THEN Append(pipe[p], m) ELSE pipe[p]]

\* emitToConversationAudience
Audience(c, U) == SocketsOf(U) \union room[c]

\* SocketRateLimiterService.consume: the event counts, also over the limit, but
\* what exceeds the limit makes no difference.
Consumed(s) ==
    [used EXCEPT ![s] = IF PageOf[s] \in Watcher /\ @ < Limit THEN @ + 1 ELSE @]

Passes(s) == used[s] < Limit

\* Bound: more happens only while little is on the way.
Calm == \A p \in Watcher : Len(pipe[p]) + asked[p] <= MaxOnTheWay

-----------------------------------------------------------------------------
\* handleConnection.  The page hears of its connection first ("connect"), then
\* session:ready, and then gets its contacts.
Connect(s) ==
    LET p == PageOf[s]
        u == UserOf(s)
    IN  /\ Calm
        /\ link[p] = None
        /\ s \notin tracked
        /\ tracked' = tracked \union {s}
        /\ link' = [link EXCEPT ![p] = s]
        /\ pipe' = [q \in Watcher |->
                       IF q = p THEN <<News, News, Contacts(u, tracked')>>
                       ELSE Sent(Notice("online", u), SocketsOf(Peers(u)))[q]]
        /\ UNCHANGED <<room, used, membership, asked, shown, refused>>

\* The connection is gone for the page: what was on the way is lost, and
\* clearPresence empties the set.
LoseLink(p) ==
    /\ link[p] # None
    /\ link' = [link EXCEPT ![p] = None]
    /\ pipe' = [q \in Watcher |-> IF q = p THEN <<>> ELSE pipe[q]]
    /\ asked' = [q \in Watcher |-> IF q = p THEN 0 ELSE asked[q]]
    /\ shown' = [q \in Watcher |-> IF q = p THEN {} ELSE shown[q]]
    /\ refused' = [q \in Watcher |-> IF q = p THEN FALSE ELSE refused[q]]
    /\ UNCHANGED <<tracked, room, used, membership>>

\* handleDisconnect, and what it does in any case.
Untrack(s) ==
    /\ s \in tracked
    /\ tracked' = tracked \ {s}
    /\ room' = [c \in Conversation |-> room[c] \ {s}]
    /\ used' = [used EXCEPT ![s] = 0]
    /\ UNCHANGED <<membership, link, asked, shown, refused>>

\* Mutants of Disconnect: the peers are told although another tab is open; the
\* peers are not told.
DisconnectOneTab(s) ==
    /\ Untrack(s)
    /\ pipe' = Sent(Notice("offline", UserOf(s)), SocketsOf(Peers(UserOf(s))))

DisconnectQuietly(s) ==
    /\ Untrack(s)
    /\ UNCHANGED pipe

\* handleDisconnect: the server notices that a connection is gone, before the
\* page does or after.  The last socket of a user takes its user offline: the
\* peers are told, and the rooms this socket was in (with an event that
\* PresenceProvider treats alike, so that twice is as good as once).
Disconnect(s) ==
    LET u == UserOf(s)
    IN  /\ Untrack(s)
        /\ IF Online(u, tracked') THEN UNCHANGED pipe
           ELSE pipe' = Sent(Notice("offline", u),
                             SocketsOf(Peers(u)) \union
                             UNION {room[c] \ {s} : c \in {d \in Conversation : s \in room[d]}})

\* joinConversation: the others in the room are told that the user is online.
JoinConversation(s, c) ==
    LET u == UserOf(s)
    IN  /\ Calm
        /\ s \in tracked /\ link[PageOf[s]] = s
        /\ u \in members[c]
        /\ Passes(s)
        /\ used' = Consumed(s)
        /\ room' = [room EXCEPT ![c] = @ \union {s}]
        /\ pipe' = Sent(Notice("online", u), room[c] \ {s})
        /\ UNCHANGED <<tracked, membership, link, asked, shown, refused>>

\* unsubscribeConversation
UnsubscribeConversation(s, c) ==
    /\ s \in room[c] /\ link[PageOf[s]] = s
    /\ Passes(s)
    /\ used' = Consumed(s)
    /\ room' = [room EXCEPT ![c] = @ \ {s}]
    /\ UNCHANGED <<tracked, membership, page, refused>>

\* The bucket of the socket reaches its resetAt.
WindowEnds(s) ==
    /\ used[s] > 0
    /\ used' = [used EXCEPT ![s] = 0]
    /\ UNCHANGED <<tracked, room, membership, page, refused>>

-----------------------------------------------------------------------------
\* The handlers of PresenceProvider.
Receive(p) ==
    /\ pipe[p] # <<>>
    /\ LET m == Head(pipe[p])
       IN  /\ shown' = [shown EXCEPT ![p] =
                  CASE m.type = "contacts" -> m.users
                    [] m.type = "online" -> @ \union m.users
                    [] m.type = "offline" -> @ \ m.users
                    [] m.type = "news" -> @]
           /\ asked' = [asked EXCEPT ![p] = IF m.type = "news" THEN @ + 1 ELSE @]
    /\ pipe' = [pipe EXCEPT ![p] = Tail(@)]
    /\ UNCHANGED <<tracked, room, used, membership, link, refused>>

\* syncPresence of the gateway, or consumeRateLimit throws.
SyncPresence(p) ==
    LET s == link[p]
    IN  /\ asked[p] > 0
        /\ s \in tracked
        /\ used' = Consumed(s)
        /\ asked' = [asked EXCEPT ![p] = @ - 1]
        /\ refused' = [refused EXCEPT ![p] = ~Passes(s)]
        /\ IF Passes(s) THEN pipe' = Sent(Contacts(UserOf(s), tracked), {s})
           ELSE UNCHANGED pipe
        /\ UNCHANGED <<tracked, room, membership, link, shown>>

-----------------------------------------------------------------------------
\* A request that changes the participants of c awaits its transaction.
Begin(c, kind, U) ==
    /\ change[c] = NoChange
    /\ change' = [change EXCEPT ![c] = [kind |-> kind, users |-> U, step |-> "sent"]]
    /\ UNCHANGED <<tracked, room, used, rows, page, refused>>

\* createDirectConversation or createGroup: nothing is in memory yet.
BeginCreate(c) ==
    /\ members[c] = {} /\ rows[c] = {}
    /\ \E U \in SUBSET User : Founder \in U /\ U # {Founder} /\ Begin(c, "create", U)
    /\ UNCHANGED <<members, untold>>

\* addParticipant: memory has the participant at once.
BeginAdd(c, u) ==
    /\ members[c] # {} /\ u \notin members[c]
    /\ Begin(c, "add", {u})
    /\ members' = [members EXCEPT ![c] = @ \union {u}]
    /\ untold' = [untold EXCEPT ![c] = @ \union {u}]

\* leaveConversation, removeParticipant: memory has lost it at once.
BeginRemove(c, u) ==
    /\ u \in members[c] \ {Founder}
    /\ Begin(c, "remove", {u})
    /\ members' = [members EXCEPT ![c] = @ \ {u}]
    /\ untold' = [untold EXCEPT ![c] = @ \ {u}]

\* persistNewConversation, persistConversationState
Store(c) ==
    /\ change[c].step = "sent"
    /\ rows' = [rows EXCEPT ![c] = IF change[c].kind = "create" THEN change[c].users
                                   ELSE members[c]]
    /\ change' = [change EXCEPT ![c].step = "stored"]
    /\ UNCHANGED <<tracked, room, used, members, untold, page, refused>>

\* The request goes on, and its event is broadcast: conversation:created or
\* participant:added to the participants and the room; who has left is taken
\* out of the room (the set of online users does not change with that).
Announce(c) ==
    LET k == change[c]
    IN  /\ Calm
        /\ k.step = "stored"
        /\ change' = [change EXCEPT ![c] = NoChange]
        /\ members' = [members EXCEPT ![c] = IF k.kind = "create" THEN k.users ELSE @]
        /\ untold' = [untold EXCEPT ![c] = @ \ k.users]
        /\ room' = [room EXCEPT ![c] = IF k.kind = "remove" THEN @ \ SocketsOf(k.users) ELSE @]
        /\ IF k.kind = "remove" THEN UNCHANGED pipe
           ELSE pipe' = Sent(News, Audience(c, members'[c]))
        /\ UNCHANGED <<tracked, used, rows, link, asked, shown, refused>>

\* The transaction fails, or its answer is lost: the request ends without an
\* event, and memory keeps what it has.
Fail(c) ==
    /\ DbMayFail
    /\ change[c] # NoChange
    /\ change' = [change EXCEPT ![c] = NoChange]
    /\ UNCHANGED <<tracked, room, used, members, rows, untold, page, refused>>

\* The process is gone with its sockets and requests; onModuleInit loads the
\* table.
Restart ==
    /\ MayRestart
    /\ tracked' = {}
    /\ room' = [c \in Conversation |-> {}]
    /\ used' = [s \in Socket |-> 0]
    /\ members' = rows
    /\ change' = [c \in Conversation |-> NoChange]
    /\ untold' = [c \in Conversation |-> {}]
    /\ UNCHANGED <<rows, page, refused>>

-----------------------------------------------------------------------------
Next ==
    \/ \E s \in Socket :
          \/ Connect(s) \/ Disconnect(s) \/ WindowEnds(s)
          \/ \E c \in Conversation :
                JoinConversation(s, c) \/ UnsubscribeConversation(s, c)
    \/ \E p \in Page : LoseLink(p)
    \/ \E p \in Watcher : Receive(p) \/ SyncPresence(p)
    \/ \E c \in Conversation :
          \/ BeginCreate(c) \/ Store(c) \/ Announce(c) \/ Fail(c)
          \/ \E u \in User : BeginAdd(c, u) \/ BeginRemove(c, u)
    \/ Restart

Spec == Init /\ [][Next]_vars

\* A connection that the other end has given up is noticed, by the server and by
\* the page (the pings of Socket.IO), and what was sent over an open one arrives.
Fairness ==
    /\ \A s \in Socket : WF_vars(Disconnect(s) /\ link[PageOf[s]] # s)
    /\ \A p \in Page : WF_vars(LoseLink(p) /\ link[p] \notin tracked)
    /\ \A p \in Watcher : WF_vars(Receive(p)) /\ WF_vars(SyncPresence(p))

FairSpec == Spec /\ Fairness

-----------------------------------------------------------------------------
(***************************************************************************)
(* Properties                                                              *)
(***************************************************************************)

\* The peers whose common conversation with u has been announced.
KnownPeers(u) ==
    {v \in User \ {u} : \E c \in Conversation : {u, v} \subseteq members[c] \ untold[c]}

\* Nothing is on the way between the page and the server, and the page has not
\* been told to slow down when it asked last.
Settled(p) ==
    /\ link[p] \in tracked
    /\ pipe[p] = <<>> /\ asked[p] = 0
    /\ ~refused[p]

\* A settled page shows of its known peers exactly those that are online:
\* whatever tabs are opened and closed, peers come and go, and connections are
\* replaced before the server has noticed that they broke.
PresenceIsCurrent ==
    \A p \in Watcher : Settled(p) =>
       \A v \in KnownPeers(PageUser[p]) : v \in shown[p] <=> Online(v, tracked)

Away(v) == \A p \in Page : PageUser[p] = v => link[p] = None

\* A user who is away is sooner or later shown as offline to each known peer,
\* unless one of them comes back, leaves, or asks too often.
AbsenceIsSeen ==
    \A p \in Watcher, v \in User :
       v # PageUser[p] /\ Away(v) ~>
          \/ ~Away(v) \/ link[p] = None \/ refused[p]
          \/ v \notin KnownPeers(PageUser[p])
          \/ v \notin shown[p]

=============================================================================
