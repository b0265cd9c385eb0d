--------------------------- MODULE PresenceProofs ---------------------------
(***************************************************************************)
(* That a settled page shows exactly its known peers that are online, for  *)
(* any number of users, conversations, tabs and connections.               *)
(*                                                                         *)
(* A page is told of a peer by notices and snapshots that are on the way   *)
(* while others are sent, so what it shows now says little.  The inductive *)
(* invariant speaks of what the page will show of a peer when everything   *)
(* on the way has arrived: the last message that tells of the peer tells   *)
(* the truth, or the page will still ask for a snapshot.                   *)
(***************************************************************************)
EXTENDS Presence, TLAPS

OnlineUsers == {u \in User : Online(u, tracked)}

\* The message m changes or confirms what a page shows of v.
Tells(m, v) == m.type = "contacts" \/ (m.type \in {"online", "offline"} /\ v \in m.users)

\* A page that handled m, which tells of v, shows v.
Shows(m, v) == m.type # "offline" /\ v \in m.users

IsLastWord(q, i, v) ==
    /\ Tells(q[i], v)
    /\ \A j \in 1 .. Len(q) : j > i => ~Tells(q[j], v)

\* A page that shows the users S will show v exactly if v is in U, when the
\* messages q have arrived.
WillShow(q, S, v, U) ==
    /\ \A i \in 1 .. Len(q) : IsLastWord(q, i, v) => (Shows(q[i], v) <=> v \in U)
    /\ (\A i \in 1 .. Len(q) : ~Tells(q[i], v)) => (v \in S <=> v \in U)

\* The page has yet to ask for a snapshot, or to be served, or was refused.
StillAsks(p) ==
    \/ asked[p] > 0
    \/ refused[p]
    \/ \E i \in 1 .. Len(pipe[p]) : pipe[p][i].type = "news"

IsInformed(p, v) == StillAsks(p) \/ WillShow(pipe[p], shown[p], v, OnlineUsers)

LinksAreOwn == \A p \in Page : link[p] # None => PageOf[link[p]] = p

\* Who is being removed is out of memory until the request has ended.
RemovedAreGone ==
    \A c \in Conversation :
       change[c].kind = "remove" => change[c].users \intersect members[c] = {}

PagesAreInformed ==
    \A p \in Watcher : link[p] \in tracked =>
       \A v \in KnownPeers(PageUser[p]) : IsInformed(p, v)

PresenceInv ==
    /\ TypeOK
    /\ LinksAreOwn
    /\ RemovedAreGone
    /\ PagesAreInformed

-----------------------------------------------------------------------------
\* A message at the end that tells of v has the last word.
LEMMA LastMessageDecides ==
    ASSUME NEW q \in Seq(Message), NEW m \in Message, NEW S, NEW v, NEW U,
           Tells(m, v), Shows(m, v) <=> v \in U
    PROVE  WillShow(Append(q, m), S, v, U)
<1> DEFINE r == Append(q, m)
<1>1. Len(r) = Len(q) + 1 /\ r[Len(q) + 1] = m /\ Len(q) \in Nat
    OBVIOUS
<1>. HIDE DEF r
<1>2. ASSUME NEW i \in 1 .. Len(r), IsLastWord(r, i, v)
      PROVE  i = Len(q) + 1
    BY <1>1, <1>2 DEF IsLastWord
<1>. QED  BY <1>1, <1>2 DEF WillShow, r

\* A message that does not tell of v changes nothing of what will be shown.
LEMMA OtherMessagesAreIdle ==
    ASSUME NEW q \in Seq(Message), NEW m \in Message, NEW S, NEW v, NEW U,
           ~Tells(m, v), WillShow(q, S, v, U)
    PROVE  WillShow(Append(q, m), S, v, U)
<1> DEFINE r == Append(q, m)
<1>1. /\ Len(r) = Len(q) + 1 /\ r[Len(q) + 1] = m /\ Len(q) \in Nat
      /\ \A i \in 1 .. Len(q) : r[i] = q[i]
    OBVIOUS
<1>. HIDE DEF r
<1>2. ASSUME NEW i \in 1 .. Len(r), IsLastWord(r, i, v)
      PROVE  i \in 1 .. Len(q) /\ IsLastWord(q, i, v)
    BY <1>1, <1>2 DEF IsLastWord
<1>3. \A i \in 1 .. Len(q) : Tells(q[i], v) => Tells(r[i], v)
    BY <1>1
<1>4. \A i \in 1 .. Len(r) : IsLastWord(r, i, v) => (Shows(r[i], v) <=> v \in U)
    BY <1>1, <1>2 DEF WillShow
<1>5. (\A i \in 1 .. Len(r) : ~Tells(r[i], v)) => (v \in S <=> v \in U)
    BY <1>1, <1>3 DEF WillShow
<1>. QED  BY <1>4, <1>5 DEF WillShow, r

\* The handlers of PresenceProvider show what the first message says.
LEMMA FirstMessageIsShown ==
    ASSUME NEW q \in Seq(Message), q # <<>>, NEW S, NEW T, NEW v, NEW U,
           WillShow(q, S, v, U),
           Tells(Head(q), v) => (v \in T <=> Shows(Head(q), v)),
           ~Tells(Head(q), v) => (v \in T <=> v \in S)
    PROVE  WillShow(Tail(q), T, v, U)
<1> DEFINE r == Tail(q)
<1>1. /\ Len(q) = Len(r) + 1 /\ Len(r) \in Nat /\ Head(q) = q[1]
      /\ \A i \in 1 .. Len(r) : r[i] = q[i + 1]
    OBVIOUS
<1>. HIDE DEF r
<1>2. ASSUME NEW i \in 1 .. Len(r), IsLastWord(r, i, v)
      PROVE  i + 1 \in 1 .. Len(q) /\ IsLastWord(q, i + 1, v)
    <2>1. i + 1 \in 1 .. Len(q) /\ Tells(q[i + 1], v)
        BY <1>1, <1>2 DEF IsLastWord
    <2>2. ASSUME NEW j \in 1 .. Len(q), j > i + 1 PROVE ~Tells(q[j], v)
        <3>1. j - 1 \in 1 .. Len(r) /\ j - 1 > i /\ (j - 1) + 1 = j
            BY <1>1, <2>2
        <3>. QED  BY <1>1, <1>2, <3>1 DEF IsLastWord
    <2>. QED  BY <2>1, <2>2 DEF IsLastWord
<1>3. \A i \in 1 .. Len(r) : IsLastWord(r, i, v) => (Shows(r[i], v) <=> v \in U)
    BY <1>1, <1>2 DEF WillShow
<1>4. ASSUME \A i \in 1 .. Len(r) : ~Tells(r[i], v)
      PROVE  v \in T <=> v \in U
    <2>1. \A j \in 1 .. Len(q) : j > 1 => ~Tells(q[j], v)
        <3> SUFFICES ASSUME NEW j \in 1 .. Len(q), j > 1 PROVE ~Tells(q[j], v)
            OBVIOUS
        <3>1. j - 1 \in 1 .. Len(r) /\ (j - 1) + 1 = j
            BY <1>1
        <3>. QED  BY <1>1, <1>4, <3>1
    <2>2. 1 \in 1 .. Len(q)
        BY <1>1
    <2>3. CASE Tells(q[1], v)
        <3>1. IsLastWord(q, 1, v)
            BY <2>1, <2>3 DEF IsLastWord
        <3>. QED  BY <1>1, <2>2, <2>3, <3>1 DEF WillShow
    <2>4. CASE ~Tells(q[1], v)
        <3>1. \A j \in 1 .. Len(q) : ~Tells(q[j], v)
            BY <1>1, <2>1, <2>4
        <3>. QED  BY <1>1, <2>4, <3>1 DEF WillShow
    <2>. QED  BY <2>3, <2>4
<1>. QED  BY <1>3, <1>4 DEF WillShow, r

-----------------------------------------------------------------------------
\* What is sent reaches the open pages at the end of what is on the way.
LEMMA SentIsAppended ==
    ASSUME TypeOK, NEW m \in Message, NEW S
    PROVE  /\ Sent(m, S) \in [Watcher -> Seq(Message)]
           /\ \A p \in Watcher :
                 Sent(m, S)[p] = IF link[p] \in S THEN Append(pipe[p], m) ELSE pipe[p]
<1>1. ASSUME NEW p \in Watcher
      PROVE  pipe[p] \in Seq(Message) /\ Append(pipe[p], m) \in Seq(Message)
    BY DEF TypeOK
<1>2. \A p \in Watcher : p \in Reach(S) <=> link[p] \in S
    BY DEF Reach
<1>. QED  BY <1>1, <1>2 DEF Sent

LEMMA MessagesAreTyped ==
    /\ News \in Message
    /\ \A u \in User : \A type \in {"online", "offline"} : Notice(type, u) \in Message
    /\ \A u, T : Contacts(u, T) \in Message
BY DEF Message, News, Notice, Contacts, Peers

\* A page that is told nothing of v, whose presence does not change, knows as
\* much as before.
LEMMA UntoldStayInformed ==
    ASSUME TypeOK, NEW p \in Watcher, NEW v, IsInformed(p, v),
           asked'[p] = asked[p], refused'[p] = refused[p], shown'[p] = shown[p],
           v \in OnlineUsers' <=> v \in OnlineUsers,
           \/ pipe'[p] = pipe[p]
           \/ \E m \in Message : ~Tells(m, v) /\ pipe'[p] = Append(pipe[p], m)
    PROVE  IsInformed(p, v)'
<1> DEFINE U == OnlineUsers
           q == pipe[p]
           r == pipe'[p]
<1>1. q \in Seq(Message)
    BY DEF TypeOK
<1>2. CASE r = q
    BY <1>2 DEF IsInformed, StillAsks, WillShow
<1>3. CASE \E m \in Message : ~Tells(m, v) /\ r = Append(q, m)
    <2>1. PICK m \in Message : ~Tells(m, v) /\ r = Append(q, m)
        BY <1>3
    <2>2. CASE StillAsks(p)
        <3>1. /\ Len(r) = Len(q) + 1 /\ Len(q) \in Nat
              /\ \A i \in 1 .. Len(q) : r[i] = q[i]
            BY <1>1, <2>1
        <3>. QED  BY <2>2, <3>1 DEF IsInformed, StillAsks
    <2>3. CASE WillShow(q, shown[p], v, U)
        <3>1. WillShow(r, shown[p], v, U)
            BY <1>1, <2>1, <2>3, OtherMessagesAreIdle
        <3>. QED  BY <3>1 DEF IsInformed, WillShow
    <2>. QED  BY <2>2, <2>3 DEF IsInformed
<1>. QED  BY <1>2, <1>3

\* A page that is told the truth of v, or has reason to ask, is informed.
LEMMA ToldAreInformed ==
    ASSUME TypeOK, NEW p \in Watcher, NEW v, NEW m \in Message,
           pipe'[p] = Append(pipe[p], m),
           \/ m = News
           \/ Tells(m, v) /\ (Shows(m, v) <=> v \in OnlineUsers')
    PROVE  IsInformed(p, v)'
<1> DEFINE q == pipe[p]
           r == pipe'[p]
<1>1. q \in Seq(Message)
    BY DEF TypeOK
<1>2. CASE m = News
    <2>1. Len(r) \in 1 .. Len(r) /\ r[Len(r)] = m
        BY <1>1
    <2>. QED  BY <1>2, <2>1 DEF IsInformed, StillAsks, News
<1>3. CASE Tells(m, v) /\ (Shows(m, v) <=> v \in OnlineUsers')
    <2>1. WillShow(Append(q, m), shown'[p], v, OnlineUsers')
        BY <1>1, <1>3, LastMessageDecides
    <2>. QED  BY <2>1 DEF IsInformed
<1>. QED  BY <1>2, <1>3

\* Where nothing changes that pages are told of, they stay informed.
LEMMA QuietSteps ==
    ASSUME PresenceInv, UNCHANGED <<tracked, page, refused>>,
           \A u \in User : KnownPeers(u)' \subseteq KnownPeers(u)
    PROVE  LinksAreOwn' /\ PagesAreInformed'
<1>1. OnlineUsers' = OnlineUsers
    BY DEF OnlineUsers, Online, UserOf
<1>2. ASSUME NEW p \in Watcher, NEW v, IsInformed(p, v)
      PROVE  IsInformed(p, v)'
    BY <1>1, <1>2 DEF IsInformed, StillAsks, WillShow, page
<1>3. ASSUME NEW p \in Watcher, (link[p] \in tracked)',
             NEW v \in KnownPeers(PageUser[p])'
      PROVE  IsInformed(p, v)'
    <2>1. v \in KnownPeers(PageUser[p])
        BY PresenceConstants DEF PresenceInv, TypeOK
    <2>2. IsInformed(p, v)
        BY <1>3, <2>1 DEF PresenceInv, PagesAreInformed, page
    <2>. QED  BY <1>2, <2>2
<1>4. LinksAreOwn'
    BY DEF PresenceInv, LinksAreOwn, page
<1>. QED  BY <1>3, <1>4 DEF PagesAreInformed

\* Known peers are others, and share a conversation.
LEMMA KnownPeersArePeers ==
    ASSUME NEW u \in User, NEW v \in KnownPeers(u)
    PROVE  v \in User /\ v # u /\ v \in Peers(u) /\ u \in Peers(v)
BY DEF KnownPeers, Peers

\* The page of an own link is there to get what is sent to its user.
LEMMA PagesAreReached ==
    ASSUME TypeOK, LinksAreOwn, NEW p \in Watcher, link[p] \in tracked
    PROVE  /\ p \in Page /\ PageUser[p] \in User
           /\ link[p] \in Socket /\ link[p] # None /\ PageOf[link[p]] = p
           /\ UserOf(link[p]) = PageUser[p]
           /\ \A U : PageUser[p] \in U => link[p] \in SocketsOf(U)
<1>1. p \in Page /\ PageUser[p] \in User /\ link[p] \in Socket /\ link[p] # None
    BY PresenceConstants DEF TypeOK
<1>2. PageOf[link[p]] = p
    BY <1>1 DEF LinksAreOwn
<1>. QED  BY <1>1, <1>2 DEF UserOf, SocketsOf

-----------------------------------------------------------------------------
\* A page that connects will ask for a snapshot; the pages of the peers are
\* told that its user is online.
LEMMA ConnectKeepsInv ==
    ASSUME PresenceInv, NEW s \in Socket, Connect(s)
    PROVE  PresenceInv'
<1> DEFINE p == PageOf[s]
           u == UserOf(s)
           m == Notice("online", u)
           S == SocketsOf(Peers(u))
<1>1. p \in Page /\ u \in User /\ s # None
    BY PresenceConstants DEF UserOf
<1>2. /\ link[p] = None
      /\ tracked' = tracked \union {s}
      /\ link' = [link EXCEPT ![p] = s]
      /\ pipe' = [q \in Watcher |-> IF q = p THEN <<News, News, Contacts(u, tracked')>>
                                    ELSE Sent(m, S)[q]]
      /\ UNCHANGED <<room, used, members, rows, change, untold, asked, shown, refused>>
    BY DEF Connect, membership
<1>3. TypeOK /\ LinksAreOwn /\ PagesAreInformed
    BY DEF PresenceInv
<1>4. m \in Message
    BY <1>1, MessagesAreTyped
<1>5. /\ Sent(m, S) \in [Watcher -> Seq(Message)]
      /\ \A q \in Watcher : Sent(m, S)[q] = IF link[q] \in S THEN Append(pipe[q], m)
                                            ELSE pipe[q]
    BY <1>3, <1>4, SentIsAppended
<1>6. News \in Message /\ Contacts(u, tracked') \in Message
    BY MessagesAreTyped
<1>7. TypeOK'
    <2>1. <<News, News, Contacts(u, tracked')>> \in Seq(Message)
        BY <1>6
    <2>2. pipe' \in [Watcher -> Seq(Message)]
        BY <1>2, <1>5, <2>1
    <2>. QED  BY <1>1, <1>2, <1>3, <2>2 DEF TypeOK
<1>8. LinksAreOwn'
    BY <1>1, <1>2, <1>3 DEF LinksAreOwn, TypeOK
<1>9. ASSUME NEW q \in Watcher, (link[q] \in tracked)',
             NEW v \in KnownPeers(PageUser[q])'
      PROVE  IsInformed(q, v)'
    <2>1. CASE q = p
        <3>1. Len(pipe'[q]) = 3 /\ pipe'[q][1] = News
            BY <1>2, <2>1
        <3>. QED  BY <3>1 DEF IsInformed, StillAsks, News
    <2>2. CASE q # p
        <3>1. link'[q] = link[q] /\ q \in Page
            BY <1>2, <2>2, PresenceConstants DEF TypeOK
        <3>2. link[q] \in tracked
            BY <1>1, <1>2, <1>3, <1>9, <2>2, <3>1 DEF LinksAreOwn
        <3>3. /\ PageUser[q] \in User /\ v \in KnownPeers(PageUser[q])
              /\ \A W : PageUser[q] \in W => link[q] \in SocketsOf(W)
            BY <1>2, <1>3, <1>9, <3>2, PagesAreReached DEF KnownPeers
        <3>4. IsInformed(q, v)
            BY <1>3, <3>2, <3>3 DEF PagesAreInformed
        <3>5. v \in User /\ PageUser[q] \in Peers(v)
            BY <3>3, KnownPeersArePeers
        <3>6. CASE v = u
            <4>1. link[q] \in S
                BY <3>3, <3>5, <3>6
            <4>2. pipe'[q] = Append(pipe[q], m)
                BY <1>2, <1>5, <2>2, <4>1
            <4>3. Tells(m, v) /\ Shows(m, v) /\ v \in OnlineUsers'
                BY <1>2, <3>5, <3>6 DEF Tells, Shows, Notice, OnlineUsers, Online
            <4>. QED  BY <1>3, <1>4, <4>2, <4>3, ToldAreInformed
        <3>7. CASE v # u
            <4>1. v \in OnlineUsers' <=> v \in OnlineUsers
                BY <1>2, <3>7 DEF OnlineUsers, Online
            <4>2. ~Tells(m, v)
                BY <3>7 DEF Tells, Notice
            <4>3. pipe'[q] = pipe[q] \/ pipe'[q] = Append(pipe[q], m)
                BY <1>2, <1>5, <2>2
            <4>. QED
                BY <1>2, <1>3, <1>4, <3>4, <4>1, <4>2, <4>3, UntoldStayInformed
        <3>. QED  BY <3>6, <3>7
    <2>. QED  BY <2>1, <2>2
<1>10. RemovedAreGone'
    BY <1>2 DEF PresenceInv, RemovedAreGone
<1>. QED  BY <1>7, <1>8, <1>9, <1>10 DEF PresenceInv, PagesAreInformed

\* A page that loses its connection shows nobody, and knows it.
LEMMA LoseLinkKeepsInv ==
    ASSUME PresenceInv, NEW p \in Page, LoseLink(p)
    PROVE  PresenceInv'
<1>1. /\ link' = [link EXCEPT ![p] = None]
      /\ pipe' = [q \in Watcher |-> IF q = p THEN <<>> ELSE pipe[q]]
      /\ asked' = [q \in Watcher |-> IF q = p THEN 0 ELSE asked[q]]
      /\ shown' = [q \in Watcher |-> IF q = p THEN {} ELSE shown[q]]
      /\ refused' = [q \in Watcher |-> IF q = p THEN FALSE ELSE refused[q]]
      /\ UNCHANGED <<tracked, room, used, members, rows, change, untold>>
    BY DEF LoseLink, membership
<1>2. TypeOK /\ LinksAreOwn /\ PagesAreInformed
    BY DEF PresenceInv
<1>3. TypeOK'
    <2>1. <<>> \in Seq(Message)
        OBVIOUS
    <2>2. pipe' \in [Watcher -> Seq(Message)]
        BY <1>1, <1>2, <2>1 DEF TypeOK
    <2>3. /\ link' \in [Page -> Socket \union {None}]
          /\ asked' \in [Watcher -> Nat]
          /\ shown' \in [Watcher -> SUBSET User]
          /\ refused' \in [Watcher -> BOOLEAN]
        BY <1>1, <1>2 DEF TypeOK
    <2>. QED  BY <1>1, <1>2, <2>2, <2>3 DEF TypeOK
<1>4. LinksAreOwn'
    BY <1>1, <1>2 DEF LinksAreOwn, TypeOK
<1>5. ASSUME NEW q \in Watcher, (link[q] \in tracked)',
             NEW v \in KnownPeers(PageUser[q])'
      PROVE  IsInformed(q, v)'
    <2>1. q # p /\ link'[q] = link[q]
        BY <1>1, <1>2, <1>5, PresenceConstants DEF TypeOK
    <2>2. IsInformed(q, v)
        BY <1>1, <1>2, <1>5, <2>1 DEF PagesAreInformed, KnownPeers
    <2>3. /\ pipe'[q] = pipe[q] /\ asked'[q] = asked[q]
          /\ shown'[q] = shown[q] /\ refused'[q] = refused[q]
        BY <1>1, <2>1
    <2>4. OnlineUsers' = OnlineUsers
        BY <1>1 DEF OnlineUsers, Online
    <2>. QED  BY <1>2, <2>2, <2>3, <2>4, UntoldStayInformed
<1>6. RemovedAreGone'
    BY <1>1 DEF PresenceInv, RemovedAreGone
<1>. QED  BY <1>3, <1>4, <1>5, <1>6 DEF PresenceInv, PagesAreInformed

\* The last socket of a user is noticed to be gone: every page of a peer that
\* the server still reaches is told.
LEMMA DisconnectKeepsInv ==
    ASSUME PresenceInv, NEW s \in Socket, Disconnect(s)
    PROVE  PresenceInv'
<1> DEFINE u == UserOf(s)
           m == Notice("offline", u)
           S == SocketsOf(Peers(u)) \union
                UNION {room[c] \ {s} : c \in {d \in Conversation : s \in room[d]}}
<1>1. u \in User
    BY PresenceConstants DEF UserOf
<1>2. /\ tracked' = tracked \ {s}
      /\ room' = [c \in Conversation |-> room[c] \ {s}]
      /\ used' = [used EXCEPT ![s] = 0]
      /\ UNCHANGED <<members, rows, change, untold, link, asked, shown, refused>>
      /\ IF Online(u, tracked') THEN UNCHANGED pipe ELSE pipe' = Sent(m, S)
    BY DEF Disconnect, Untrack, membership
<1>3. TypeOK /\ LinksAreOwn /\ PagesAreInformed
    BY DEF PresenceInv
<1>4. m \in Message
    BY <1>1, MessagesAreTyped
<1>. HIDE DEF S
<1>5. /\ Sent(m, S) \in [Watcher -> Seq(Message)]
      /\ \A q \in Watcher : Sent(m, S)[q] = IF link[q] \in S THEN Append(pipe[q], m)
                                            ELSE pipe[q]
    BY <1>3, <1>4, SentIsAppended
<1>6. TypeOK'
    <2>1. pipe' \in [Watcher -> Seq(Message)]
        BY <1>2, <1>3, <1>5 DEF TypeOK
    <2>2. room' \in [Conversation -> SUBSET Socket]
        BY <1>2, <1>3 DEF TypeOK
    <2>3. tracked' \in SUBSET Socket /\ used' \in [Socket -> Nat]
        BY <1>2, <1>3 DEF TypeOK
    <2>. QED  BY <1>2, <1>3, <2>1, <2>2, <2>3 DEF TypeOK
<1>7. LinksAreOwn'
    BY <1>2, <1>3 DEF LinksAreOwn
<1>8. ASSUME NEW q \in Watcher, (link[q] \in tracked)',
             NEW v \in KnownPeers(PageUser[q])'
      PROVE  IsInformed(q, v)'
    <2>1. link[q] \in tracked
        BY <1>2, <1>8
    <2>2. /\ PageUser[q] \in User /\ v \in KnownPeers(PageUser[q])
          /\ \A W : PageUser[q] \in W => link[q] \in SocketsOf(W)
        BY <1>2, <1>3, <1>8, <2>1, PagesAreReached DEF KnownPeers
    <2>3. IsInformed(q, v)
        BY <1>3, <2>1, <2>2 DEF PagesAreInformed
    <2>4. v \in User /\ PageUser[q] \in Peers(v)
        BY <2>2, KnownPeersArePeers
    <2>5. CASE v = u /\ ~Online(u, tracked')
        <3>1. link[q] \in S
            BY <2>2, <2>4, <2>5 DEF S
        <3>2. pipe'[q] = Append(pipe[q], m)
            BY <1>2, <1>5, <2>5, <3>1
        <3>3. Tells(m, v) /\ ~Shows(m, v) /\ v \notin OnlineUsers'
            BY <2>5 DEF Tells, Shows, Notice, OnlineUsers, Online
        <3>. QED  BY <1>3, <1>4, <3>2, <3>3, ToldAreInformed
    <2>6. CASE Online(u, tracked')
        <3>1. v \in OnlineUsers' <=> v \in OnlineUsers
            BY <1>2, <2>6 DEF OnlineUsers, Online
        <3>. QED  BY <1>2, <1>3, <2>3, <2>6, <3>1, UntoldStayInformed
    <2>7. CASE v # u /\ ~Online(u, tracked')
        <3>1. v \in OnlineUsers' <=> v \in OnlineUsers
            BY <1>2, <2>7 DEF OnlineUsers, Online
        <3>2. ~Tells(m, v)
            BY <2>7 DEF Tells, Notice
        <3>3. pipe'[q] = pipe[q] \/ pipe'[q] = Append(pipe[q], m)
            BY <1>2, <1>5, <2>7
        <3>. QED  BY <1>2, <1>3, <1>4, <2>3, <3>1, <3>2, <3>3, UntoldStayInformed
    <2>. QED  BY <2>5, <2>6, <2>7
<1>9. RemovedAreGone'
    BY <1>2 DEF PresenceInv, RemovedAreGone
<1>. QED  BY <1>6, <1>7, <1>8, <1>9 DEF PresenceInv, PagesAreInformed

\* Those in the room are told that a user joins, who is online.
LEMMA JoinConversationKeepsInv ==
    ASSUME PresenceInv, NEW s \in Socket, NEW c \in Conversation, JoinConversation(s, c)
    PROVE  PresenceInv'
<1> DEFINE u == UserOf(s)
           m == Notice("online", u)
           S == room[c] \ {s}
<1>1. u \in User
    BY PresenceConstants DEF UserOf
<1>2. /\ s \in tracked
      /\ used' = Consumed(s)
      /\ room' = [room EXCEPT ![c] = @ \union {s}]
      /\ pipe' = Sent(m, S)
      /\ UNCHANGED <<tracked, members, rows, change, untold, link, asked, shown, refused>>
    BY DEF JoinConversation, membership
<1>3. TypeOK /\ LinksAreOwn /\ PagesAreInformed
    BY DEF PresenceInv
<1>4. m \in Message
    BY <1>1, MessagesAreTyped
<1>5. /\ Sent(m, S) \in [Watcher -> Seq(Message)]
      /\ \A q \in Watcher : Sent(m, S)[q] = IF link[q] \in S THEN Append(pipe[q], m)
                                            ELSE pipe[q]
    BY <1>3, <1>4, SentIsAppended
<1>6. TypeOK'
    <2>1. used' \in [Socket -> Nat]
        BY <1>2, <1>3 DEF TypeOK, Consumed
    <2>2. room' \in [Conversation -> SUBSET Socket]
        BY <1>2, <1>3 DEF TypeOK
    <2>3. pipe' \in [Watcher -> Seq(Message)]
        BY <1>2, <1>5
    <2>. QED  BY <1>2, <1>3, <2>1, <2>2, <2>3 DEF TypeOK
<1>7. LinksAreOwn'
    BY <1>2, <1>3 DEF LinksAreOwn
<1>8. ASSUME NEW q \in Watcher, (link[q] \in tracked)',
             NEW v \in KnownPeers(PageUser[q])'
      PROVE  IsInformed(q, v)'
    <2>1. v \in KnownPeers(PageUser[q]) /\ PageUser[q] \in User
        BY <1>2, <1>8, PresenceConstants DEF KnownPeers
    <2>2. IsInformed(q, v) /\ v \in User
        BY <1>2, <1>3, <1>8, <2>1, KnownPeersArePeers DEF PagesAreInformed
    <2>3. OnlineUsers' = OnlineUsers
        BY <1>2 DEF OnlineUsers, Online
    <2>4. CASE pipe'[q] = Append(pipe[q], m) /\ v = u
        <3>1. Tells(m, v) /\ Shows(m, v) /\ v \in OnlineUsers'
            BY <1>1, <1>2, <2>3, <2>4 DEF Tells, Shows, Notice, OnlineUsers, Online
        <3>. QED  BY <1>3, <1>4, <2>4, <3>1, ToldAreInformed
    <2>5. CASE pipe'[q] = Append(pipe[q], m) /\ v # u
        <3>1. ~Tells(m, v)
            BY <2>5 DEF Tells, Notice
        <3>. QED  BY <1>2, <1>3, <1>4, <2>2, <2>3, <2>5, <3>1, UntoldStayInformed
    <2>6. CASE pipe'[q] = pipe[q]
        BY <1>2, <1>3, <2>2, <2>3, <2>6, UntoldStayInformed
    <2>. QED  BY <1>2, <1>5, <2>4, <2>5, <2>6
<1>9. RemovedAreGone'
    BY <1>2 DEF PresenceInv, RemovedAreGone
<1>. QED  BY <1>6, <1>7, <1>8, <1>9 DEF PresenceInv, PagesAreInformed

\* The page handles the first message on the way.
LEMMA ReceiveKeepsInv ==
    ASSUME PresenceInv, NEW p \in Watcher, Receive(p)
    PROVE  PresenceInv'
<1> DEFINE m == Head(pipe[p])
           after == CASE m.type = "contacts" -> m.users
                      [] m.type = "online" -> shown[p] \union m.users
                      [] m.type = "offline" -> shown[p] \ m.users
                      [] m.type = "news" -> shown[p]
           asks == IF m.type = "news" THEN asked[p] + 1 ELSE asked[p]
<1>1. TypeOK /\ LinksAreOwn /\ PagesAreInformed
    BY DEF PresenceInv
<1>2. /\ pipe[p] # <<>> /\ pipe[p] \in Seq(Message)
      /\ m \in Message /\ Tail(pipe[p]) \in Seq(Message)
    BY <1>1 DEF Receive, TypeOK
<1>. HIDE DEF m
<1>3. /\ shown' = [shown EXCEPT ![p] = after]
      /\ asked' = [asked EXCEPT ![p] = asks]
      /\ pipe' = [pipe EXCEPT ![p] = Tail(pipe[p])]
      /\ UNCHANGED <<tracked, room, used, members, rows, change, untold, link, refused>>
    BY <1>1 DEF Receive, membership, m, TypeOK
<1>4. m.users \subseteq User /\ m.type \in {"contacts", "online", "offline", "news"}
    BY <1>2 DEF Message
<1>5. after \subseteq User /\ asks \in Nat
    BY <1>1, <1>4 DEF TypeOK
<1>6. \A v : /\ Tells(m, v) => (v \in after <=> Shows(m, v))
             /\ ~Tells(m, v) => (v \in after <=> v \in shown[p])
    BY <1>4 DEF Tells, Shows
<1>. HIDE DEF after
<1>7. TypeOK'
    BY <1>1, <1>2, <1>3, <1>5 DEF TypeOK
<1>8. LinksAreOwn'
    BY <1>1, <1>3 DEF LinksAreOwn
<1>9. ASSUME NEW q \in Watcher, (link[q] \in tracked)',
             NEW v \in KnownPeers(PageUser[q])'
      PROVE  IsInformed(q, v)'
    <2>1. IsInformed(q, v)
        BY <1>1, <1>3, <1>9 DEF PagesAreInformed, KnownPeers
    <2>2. OnlineUsers' = OnlineUsers
        BY <1>3 DEF OnlineUsers, Online
    <2>3. CASE q # p
        BY <1>1, <1>3, <2>1, <2>2, <2>3, UntoldStayInformed
    <2>4. CASE q = p /\ (asked[p] > 0 \/ refused[p])
        BY <1>1, <1>3, <2>4 DEF IsInformed, StillAsks, TypeOK
    <2>5. CASE q = p /\ \E i \in 1 .. Len(pipe[p]) : pipe[p][i].type = "news"
        <3>1. PICK i \in 1 .. Len(pipe[p]) : pipe[p][i].type = "news"
            BY <2>5
        <3>2. CASE i = 1
            <4>1. m.type = "news"
                BY <1>2, <3>1, <3>2 DEF m
            <4>. QED  BY <1>1, <1>3, <2>5, <4>1 DEF IsInformed, StillAsks, TypeOK
        <3>3. CASE i # 1
            <4>1. /\ i - 1 \in 1 .. Len(Tail(pipe[p]))
                  /\ Tail(pipe[p])[i - 1] = pipe[p][i]
                BY <1>2, <3>1, <3>3
            <4>2. pipe'[p] = Tail(pipe[p])
                BY <1>1, <1>3 DEF TypeOK
            <4>. QED  BY <2>5, <3>1, <4>1, <4>2 DEF IsInformed, StillAsks
        <3>. QED  BY <3>2, <3>3
    <2>6. CASE q = p /\ WillShow(pipe[p], shown[p], v, OnlineUsers)
        <3>1. WillShow(Tail(pipe[p]), after, v, OnlineUsers)
            BY <1>2, <1>6, <2>6, FirstMessageIsShown DEF m
        <3>2. pipe'[p] = Tail(pipe[p]) /\ shown'[p] = after
            BY <1>1, <1>3 DEF TypeOK
        <3>. QED  BY <2>2, <2>6, <3>1, <3>2 DEF IsInformed
    <2>7. \/ asked[q] > 0 \/ refused[q]
          \/ \E i \in 1 .. Len(pipe[q]) : pipe[q][i].type = "news"
          \/ WillShow(pipe[q], shown[q], v, OnlineUsers)
        BY <2>1 DEF IsInformed, StillAsks
    <2>. QED  BY <2>3, <2>4, <2>5, <2>6, <2>7
<1>10. RemovedAreGone'
    BY <1>3 DEF PresenceInv, RemovedAreGone
<1>. QED  BY <1>7, <1>8, <1>9, <1>10 DEF PresenceInv, PagesAreInformed

\* A snapshot tells the truth of every peer; a page that gets none was refused.
LEMMA SyncPresenceKeepsInv ==
    ASSUME PresenceInv, NEW p \in Watcher, SyncPresence(p)
    PROVE  PresenceInv'
<1> DEFINE s == link[p]
           m == Contacts(UserOf(s), tracked)
<1>1. TypeOK /\ LinksAreOwn /\ PagesAreInformed
    BY DEF PresenceInv
<1>2. /\ asked[p] > 0
      /\ s \in tracked
      /\ used' = Consumed(s)
      /\ asked' = [asked EXCEPT ![p] = @ - 1]
      /\ refused' = [refused EXCEPT ![p] = ~Passes(s)]
      /\ IF Passes(s) THEN pipe' = Sent(m, {s}) ELSE UNCHANGED pipe
      /\ UNCHANGED <<tracked, room, members, rows, change, untold, link, shown>>
    BY DEF SyncPresence, membership
<1>3. m \in Message
    BY MessagesAreTyped
<1>4. p \in Page /\ PageUser[p] \in User /\ PageOf[s] = p /\ UserOf(s) = PageUser[p]
    BY <1>1, <1>2, PagesAreReached
<1>5. /\ Sent(m, {s}) \in [Watcher -> Seq(Message)]
      /\ \A q \in Watcher : Sent(m, {s})[q] = IF link[q] \in {s} THEN Append(pipe[q], m)
                                              ELSE pipe[q]
    BY <1>1, <1>3, SentIsAppended
<1>6. TypeOK'
    <2>1. used' \in [Socket -> Nat]
        BY <1>1, <1>2 DEF TypeOK, Consumed
    <2>2. asked' \in [Watcher -> Nat]
        BY <1>1, <1>2 DEF TypeOK
    <2>3. Passes(s) \in BOOLEAN
        BY DEF Passes
    <2>4. refused' \in [Watcher -> BOOLEAN]
        BY <1>1, <1>2, <2>3 DEF TypeOK
    <2>5. pipe' \in [Watcher -> Seq(Message)]
        BY <1>1, <1>2, <1>5 DEF TypeOK
    <2>. QED  BY <1>1, <1>2, <2>1, <2>2, <2>4, <2>5 DEF TypeOK
<1>7. LinksAreOwn'
    BY <1>1, <1>2 DEF LinksAreOwn
<1>8. ASSUME NEW q \in Watcher, (link[q] \in tracked)',
             NEW v \in KnownPeers(PageUser[q])'
      PROVE  IsInformed(q, v)'
    <2>1. v \in KnownPeers(PageUser[q]) /\ link[q] \in tracked
        BY <1>2, <1>8 DEF KnownPeers
    <2>2. IsInformed(q, v)
        BY <1>1, <2>1 DEF PagesAreInformed
    <2>3. OnlineUsers' = OnlineUsers
        BY <1>2 DEF OnlineUsers, Online
    <2>4. CASE q # p
        <3>1. link[q] # s
            BY <1>1, <1>4, <2>1, <2>4, PagesAreReached
        <3>2. /\ asked'[q] = asked[q] /\ refused'[q] = refused[q]
              /\ shown'[q] = shown[q] /\ pipe'[q] = pipe[q]
            BY <1>1, <1>2, <1>5, <2>4, <3>1 DEF TypeOK
        <3>. QED  BY <1>1, <2>2, <2>3, <3>2, UntoldStayInformed
    <2>5. CASE q = p /\ Passes(s)
        <3>1. pipe'[q] = Append(pipe[q], m)
            BY <1>2, <1>5, <2>5
        <3>2. Tells(m, v)
            BY DEF Tells, Contacts
        <3>3. v \in User /\ v \in Peers(UserOf(s))
            BY <1>4, <2>1, <2>5, KnownPeersArePeers
        <3>4. Shows(m, v) <=> v \in OnlineUsers'
            BY <2>3, <3>3 DEF Shows, Contacts, OnlineUsers
        <3>. QED  BY <1>1, <1>3, <3>1, <3>2, <3>4, ToldAreInformed
    <2>6. CASE q = p /\ ~Passes(s)
        <3>1. refused'[q]
            BY <1>1, <1>2, <2>6 DEF TypeOK
        <3>. QED  BY <3>1 DEF IsInformed, StillAsks
    <2>. QED  BY <2>4, <2>5, <2>6
<1>9. RemovedAreGone'
    BY <1>2 DEF PresenceInv, RemovedAreGone
<1>. QED  BY <1>6, <1>7, <1>8, <1>9 DEF PresenceInv, PagesAreInformed

\* Everybody in the conversation is told to ask for the peers that are new.
LEMMA AnnounceKeepsInv ==
    ASSUME PresenceInv, NEW c \in Conversation, Announce(c)
    PROVE  PresenceInv'
<1> DEFINE k == change[c]
           S == Audience(c, members'[c])
<1>1. TypeOK /\ LinksAreOwn /\ PagesAreInformed
    BY DEF PresenceInv
<1>2. /\ change' = [change EXCEPT ![c] = NoChange]
      /\ members' = [members EXCEPT ![c] = IF k.kind = "create" THEN k.users ELSE @]
      /\ untold' = [untold EXCEPT ![c] = @ \ k.users]
      /\ room' = [room EXCEPT ![c] = IF k.kind = "remove" THEN @ \ SocketsOf(k.users) ELSE @]
      /\ IF k.kind = "remove" THEN UNCHANGED pipe ELSE pipe' = Sent(News, S)
      /\ UNCHANGED <<tracked, used, rows, link, asked, shown, refused>>
    BY DEF Announce
<1>3. k \in Change /\ k.users \subseteq User
    BY <1>1 DEF TypeOK, Change
<1>. HIDE DEF S
<1>4. /\ Sent(News, S) \in [Watcher -> Seq(Message)]
      /\ \A q \in Watcher : Sent(News, S)[q] = IF link[q] \in S THEN Append(pipe[q], News)
                                               ELSE pipe[q]
    BY <1>1, MessagesAreTyped, SentIsAppended
<1>5. TypeOK'
    <2>1. change' \in [Conversation -> Change]
        BY <1>1, <1>2 DEF TypeOK, NoChange, Change
    <2>2. members' \in [Conversation -> SUBSET User]
        BY <1>1, <1>2, <1>3 DEF TypeOK
    <2>3. untold' \in [Conversation -> SUBSET User]
        BY <1>1, <1>2 DEF TypeOK
    <2>4. room' \in [Conversation -> SUBSET Socket]
        BY <1>1, <1>2 DEF TypeOK
    <2>5. pipe' \in [Watcher -> Seq(Message)]
        BY <1>1, <1>2, <1>4 DEF TypeOK
    <2>. QED  BY <1>1, <1>2, <2>1, <2>2, <2>3, <2>4, <2>5 DEF TypeOK
<1>6. LinksAreOwn'
    BY <1>1, <1>2 DEF LinksAreOwn
<1>7. ASSUME NEW q \in Watcher, (link[q] \in tracked)',
             NEW v \in KnownPeers(PageUser[q])'
      PROVE  IsInformed(q, v)'
    <2>1. link[q] \in tracked
        BY <1>2, <1>7
    <2>2. /\ PageUser[q] \in User
          /\ \A W : PageUser[q] \in W => link[q] \in SocketsOf(W)
        BY <1>1, <2>1, PagesAreReached
    <2>3. OnlineUsers' = OnlineUsers
        BY <1>2 DEF OnlineUsers, Online
    <2>4. PICK d \in Conversation : {PageUser[q], v} \subseteq members'[d] \ untold'[d]
        BY <1>7 DEF KnownPeers
    <2>5. v \in User \ {PageUser[q]}
        BY <1>7 DEF KnownPeers
    <2>6. CASE k.kind # "remove" /\ link[q] \in S
        <3>1. pipe'[q] = Append(pipe[q], News)
            BY <1>2, <1>4, <2>6
        <3>. QED  BY <1>1, <3>1, MessagesAreTyped, ToldAreInformed
    <2>7. CASE k.kind # "remove" /\ link[q] \notin S
        <3>1. PageUser[q] \notin members'[c]
            BY <2>2, <2>7 DEF S, Audience
        <3>2. d # c
            BY <2>4, <3>1
        <3>3. {PageUser[q], v} \subseteq members[d] \ untold[d]
            BY <1>1, <1>2, <2>4, <3>2 DEF TypeOK
        <3>4. IsInformed(q, v)
            BY <1>1, <2>1, <2>5, <3>3 DEF PagesAreInformed, KnownPeers
        <3>5. pipe'[q] = pipe[q]
            BY <1>2, <1>4, <2>7
        <3>. QED  BY <1>1, <1>2, <2>3, <3>4, <3>5, UntoldStayInformed
    <2>8. CASE k.kind = "remove"
        <3>1. {PageUser[q], v} \subseteq members[d] \ untold[d]
            <4>1. d = c => {PageUser[q], v} \intersect k.users = {}
                BY <1>1, <1>2, <2>4, <2>8 DEF TypeOK, PresenceInv, RemovedAreGone
            <4>. QED  BY <1>1, <1>2, <2>4, <2>8, <4>1 DEF TypeOK
        <3>2. IsInformed(q, v)
            BY <1>1, <2>1, <2>5, <3>1 DEF PagesAreInformed, KnownPeers
        <3>. QED  BY <1>1, <1>2, <2>3, <2>8, <3>2, UntoldStayInformed
    <2>. QED  BY <2>6, <2>7, <2>8
<1>8. RemovedAreGone'
    <2> SUFFICES ASSUME NEW d \in Conversation, change'[d].kind = "remove"
                 PROVE  change'[d].users \intersect members'[d] = {}
        BY DEF RemovedAreGone
    <2>1. d # c
        BY <1>1, <1>2 DEF NoChange, TypeOK
    <2>2. change'[d] = change[d] /\ members'[d] = members[d]
        BY <1>1, <1>2, <2>1 DEF TypeOK
    <2>. QED  BY <2>2 DEF PresenceInv, RemovedAreGone
<1>. QED  BY <1>5, <1>6, <1>7, <1>8 DEF PresenceInv, PagesAreInformed

\* No page is told of anything while a request changes the participants, which
\* adds nobody to the known peers.
LEMMA BeginKeepsInv ==
    ASSUME PresenceInv, NEW c \in Conversation,
           BeginCreate(c) \/ \E u \in User : BeginAdd(c, u) \/ BeginRemove(c, u)
    PROVE  PresenceInv'
<1>1. TypeOK /\ RemovedAreGone
    BY DEF PresenceInv
<1> DEFINE Begun(kind, U) ==
              /\ change[c] = NoChange
              /\ change' = [change EXCEPT ![c] =
                               [kind |-> kind, users |-> U, step |-> "sent"]]
              /\ UNCHANGED <<tracked, room, used, rows, link, pipe, asked, shown, refused>>
           Joined(U) == /\ members' = [members EXCEPT ![c] = @ \union U]
                        /\ untold' = [untold EXCEPT ![c] = @ \union U]
           Gone(U) == /\ members' = [members EXCEPT ![c] = @ \ U]
                      /\ untold' = [untold EXCEPT ![c] = @ \ U]
<1>2. \E U \in SUBSET User :
         \/ Begun("create", U) /\ UNCHANGED <<members, untold>>
         \/ Begun("add", U) /\ Joined(U)
         \/ Begun("remove", U) /\ Gone(U)
    <2>1. CASE BeginCreate(c)
        BY <2>1 DEF BeginCreate, Begin, page
    <2>2. ASSUME NEW u \in User, BeginAdd(c, u)
          PROVE  {u} \in SUBSET User /\ Begun("add", {u}) /\ Joined({u})
        BY <2>2 DEF BeginAdd, Begin, page
    <2>3. ASSUME NEW u \in User, BeginRemove(c, u)
          PROVE  {u} \in SUBSET User /\ Begun("remove", {u}) /\ Gone({u})
        BY <2>3 DEF BeginRemove, Begin, page
    <2>. HIDE DEF Begun, Joined, Gone
    <2>. QED  BY <2>1, <2>2, <2>3
<1>3. TypeOK'
    <2>1. change' \in [Conversation -> Change]
        BY <1>1, <1>2 DEF TypeOK, Change
    <2>2. members' \in [Conversation -> SUBSET User]
        BY <1>1, <1>2 DEF TypeOK
    <2>3. untold' \in [Conversation -> SUBSET User]
        BY <1>1, <1>2 DEF TypeOK
    <2>. QED  BY <1>1, <1>2, <2>1, <2>2, <2>3 DEF TypeOK
<1>4. \A d \in Conversation : members'[d] \ untold'[d] \subseteq members[d] \ untold[d]
    BY <1>1, <1>2 DEF TypeOK
<1>5. LinksAreOwn' /\ PagesAreInformed'
    BY <1>2, <1>4, QuietSteps DEF KnownPeers, page
<1>6. RemovedAreGone'
    <2> SUFFICES ASSUME NEW d \in Conversation, change'[d].kind = "remove"
                 PROVE  change'[d].users \intersect members'[d] = {}
        BY DEF RemovedAreGone
    <2>1. CASE d = c
        BY <1>1, <1>2, <2>1 DEF TypeOK
    <2>2. CASE d # c
        BY <1>1, <1>2, <2>2 DEF TypeOK, RemovedAreGone
    <2>. QED  BY <2>1, <2>2
<1>. QED  BY <1>3, <1>5, <1>6 DEF PresenceInv

\* The other steps of sockets and requests tell nobody anything.
LEMMA OtherStepsKeepInv ==
    ASSUME PresenceInv,
           \/ \E s \in Socket : WindowEnds(s)
           \/ \E s \in Socket, c \in Conversation : UnsubscribeConversation(s, c)
           \/ \E c \in Conversation : Store(c) \/ Fail(c)
           \/ UNCHANGED vars
    PROVE  PresenceInv'
<1>1. TypeOK /\ RemovedAreGone
    BY DEF PresenceInv
<1>2. UNCHANGED <<tracked, members, untold, link, pipe, asked, shown, refused>>
    BY DEF WindowEnds, UnsubscribeConversation, Store, Fail, vars, membership, page
<1>3. \A u \in User : KnownPeers(u)' = KnownPeers(u)
    BY <1>2 DEF KnownPeers
<1>4. LinksAreOwn' /\ PagesAreInformed'
    BY <1>2, <1>3, QuietSteps DEF page
<1>5. CASE \E s \in Socket : WindowEnds(s)
    <2>1. /\ UNCHANGED <<room, rows, change>>
          /\ used' \in [Socket -> Nat]
        BY <1>1, <1>5 DEF WindowEnds, TypeOK, membership
    <2>. QED  BY <1>1, <1>2, <1>4, <2>1 DEF PresenceInv, TypeOK, RemovedAreGone
<1>6. CASE \E s \in Socket, c \in Conversation : UnsubscribeConversation(s, c)
    <2>1. /\ UNCHANGED <<rows, change>>
          /\ used' \in [Socket -> Nat]
          /\ room' \in [Conversation -> SUBSET Socket]
        BY <1>1, <1>6 DEF UnsubscribeConversation, TypeOK, membership, Consumed
    <2>. QED  BY <1>1, <1>2, <1>4, <2>1 DEF PresenceInv, TypeOK, RemovedAreGone
<1>7. ASSUME NEW c \in Conversation, Store(c)
      PROVE  PresenceInv'
    <2>1. /\ UNCHANGED <<room, used>>
          /\ rows' = [rows EXCEPT ![c] = IF change[c].kind = "create" THEN change[c].users
                                         ELSE members[c]]
          /\ change' = [change EXCEPT ![c].step = "stored"]
        BY <1>7 DEF Store
    <2>2. change[c] \in Change
        BY <1>1 DEF TypeOK
    <2>3. change' \in [Conversation -> Change]
        BY <1>1, <2>1, <2>2 DEF TypeOK, Change
    <2>4. rows' \in [Conversation -> SUBSET User]
        BY <1>1, <2>1, <2>2 DEF TypeOK, Change
    <2>5. TypeOK'
        BY <1>1, <1>2, <2>1, <2>3, <2>4 DEF TypeOK
    <2>6. \A d \in Conversation : /\ change'[d].kind = change[d].kind
                                  /\ change'[d].users = change[d].users
        BY <1>1, <2>1, <2>2 DEF TypeOK, Change
    <2>. QED  BY <1>1, <1>2, <1>4, <2>5, <2>6 DEF PresenceInv, RemovedAreGone
<1>8. ASSUME NEW c \in Conversation, Fail(c)
      PROVE  PresenceInv'
    <2>1. UNCHANGED <<room, used, rows>> /\ change' = [change EXCEPT ![c] = NoChange]
        BY <1>8 DEF Fail
    <2>2. change' \in [Conversation -> Change]
        BY <1>1, <2>1 DEF TypeOK, Change, NoChange
    <2>3. TypeOK'
        BY <1>1, <1>2, <2>1, <2>2 DEF TypeOK
    <2>4. \A d \in Conversation : change'[d].kind = "remove" => change'[d] = change[d]
        BY <1>1, <2>1 DEF TypeOK, NoChange
    <2>. QED  BY <1>1, <1>2, <1>4, <2>3, <2>4 DEF PresenceInv, RemovedAreGone
<1>9. CASE UNCHANGED vars
    BY <1>1, <1>4, <1>9 DEF PresenceInv, TypeOK, RemovedAreGone, vars
<1>. QED  BY <1>5, <1>6, <1>7, <1>8, <1>9

\* After a restart the server reaches no page.
LEMMA RestartKeepsInv ==
    ASSUME PresenceInv, Restart
    PROVE  PresenceInv'
<1>1. TypeOK /\ LinksAreOwn
    BY DEF PresenceInv
<1>2. /\ tracked' = {}
      /\ room' = [c \in Conversation |-> {}]
      /\ used' = [s \in Socket |-> 0]
      /\ members' = rows
      /\ change' = [c \in Conversation |-> NoChange]
      /\ untold' = [c \in Conversation |-> {}]
      /\ UNCHANGED <<rows, link, pipe, asked, shown, refused>>
    BY DEF Restart, page
<1>3. change' \in [Conversation -> Change]
    BY <1>2 DEF NoChange, Change
<1>4. TypeOK'
    BY <1>1, <1>2, <1>3 DEF TypeOK
<1>5. LinksAreOwn' /\ PagesAreInformed'
    BY <1>1, <1>2 DEF LinksAreOwn, PagesAreInformed
<1>6. RemovedAreGone'
    BY <1>2 DEF RemovedAreGone, NoChange
<1>. QED  BY <1>4, <1>5, <1>6 DEF PresenceInv

LEMMA InitEstablishesInv == Init => PresenceInv
<1> SUFFICES ASSUME Init PROVE PresenceInv
    OBVIOUS
<1>1. change \in [Conversation -> Change]
    BY DEF Init, NoChange, Change
<1>2. pipe \in [Watcher -> Seq(Message)]
    <2>1. <<>> \in Seq(Message)
        OBVIOUS
    <2>. QED  BY <2>1 DEF Init
<1>3. TypeOK
    BY <1>1, <1>2 DEF Init, TypeOK
<1>4. LinksAreOwn /\ PagesAreInformed
    BY DEF Init, LinksAreOwn, PagesAreInformed
<1>5. RemovedAreGone
    BY DEF Init, RemovedAreGone, NoChange
<1>. QED  BY <1>3, <1>4, <1>5 DEF PresenceInv

LEMMA NextKeepsInv == PresenceInv /\ [Next]_vars => PresenceInv'
<1> SUFFICES ASSUME PresenceInv, [Next]_vars PROVE PresenceInv'
    OBVIOUS
<1>1. ASSUME NEW s \in Socket, Connect(s) \/ Disconnect(s) \/ WindowEnds(s)
      PROVE  PresenceInv'
    BY <1>1, ConnectKeepsInv, DisconnectKeepsInv, OtherStepsKeepInv
<1>2. ASSUME NEW s \in Socket, NEW c \in Conversation,
             JoinConversation(s, c) \/ UnsubscribeConversation(s, c)
      PROVE  PresenceInv'
    BY <1>2, JoinConversationKeepsInv, OtherStepsKeepInv
<1>3. ASSUME NEW p \in Watcher, Receive(p) \/ SyncPresence(p)
      PROVE  PresenceInv'
    BY <1>3, ReceiveKeepsInv, SyncPresenceKeepsInv
<1>4. ASSUME NEW c \in Conversation, Store(c) \/ Announce(c) \/ Fail(c)
      PROVE  PresenceInv'
    BY <1>4, AnnounceKeepsInv, OtherStepsKeepInv
<1>. QED
    BY <1>1, <1>2, <1>3, <1>4, BeginKeepsInv, LoseLinkKeepsInv, RestartKeepsInv,
       OtherStepsKeepInv DEF Next

LEMMA PresenceInvariant == Spec => []PresenceInv
BY InitEstablishesInv, NextKeepsInv, PTL DEF Spec

-----------------------------------------------------------------------------
\* Sockets, rooms, participants and pages keep their types.
THEOREM PresenceTypeCorrect == Spec => []TypeOK
<1>1. PresenceInv => TypeOK
    BY DEF PresenceInv
<1>. QED  BY <1>1, PresenceInvariant, PTL

\* handleConnection, handleDisconnect and PresenceProvider: a page to which
\* nothing is on the way, and which was not refused when it last asked, shows
\* of its known peers exactly those with a socket.
THEOREM PresenceShownIsCurrent == Spec => []PresenceIsCurrent
<1>1. PresenceInv => PresenceIsCurrent
    <2> SUFFICES ASSUME PresenceInv, NEW p \in Watcher, Settled(p),
                        NEW v \in KnownPeers(PageUser[p])
                 PROVE  v \in shown[p] <=> Online(v, tracked)
        BY DEF PresenceIsCurrent
    <2>1. v \in User /\ IsInformed(p, v)
        BY DEF PresenceInv, PagesAreInformed, Settled, KnownPeers
    <2>2. Len(pipe[p]) = 0 /\ asked[p] = 0 /\ ~refused[p]
        BY DEF Settled
    <2>3. WillShow(pipe[p], shown[p], v, OnlineUsers)
        BY <2>1, <2>2 DEF IsInformed, StillAsks
    <2>. QED  BY <2>1, <2>2, <2>3 DEF WillShow, OnlineUsers
<1>. QED  BY <1>1, PresenceInvariant, PTL

=============================================================================
