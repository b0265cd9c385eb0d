--------------------------- MODULE ContactsProofs ---------------------------
(***************************************************************************)
(* Proofs about Contacts, for every number of users, invitations and       *)
(* overlapping requests, with failing writes, restarts and lost notices.   *)
(***************************************************************************)
EXTENDS Contacts, FiniteSetTheorems, SequenceTheorems, TLAPS

\* The steps of a request that is under way.
Inviting == {"insertInvitation", "invitationStored"}

Opening == {"insertDirect", "directStored"}

Answering == {"updateAnswer", "answerStored"}

Busy == Inviting \union Opening \union Answering \union {"restoreDirect"}

PairOf(h) == {req[h].by, req[h].with}

\* What a request holds at each of its steps.
RequestIsWhole ==
    \A h \in Handler :
       /\ req[h].step # "idle" => req[h].by \in User
       /\ req[h].step \in Busy => req[h].with \in User /\ req[h].by # req[h].with
       /\ req[h].step \in Inviting => req[h].inv \in Invitation /\ req[h].verdict = None
       /\ req[h].step \in Opening \union {"restoreDirect"} => req[h].conv \in Conversation
       /\ req[h].step \in Answering => req[h].inv \in Invitation
       /\ req[h].step = "confirmed" => req[h].inv \in confirmed

\* A new invitation or conversation is one neither memory, the table nor
\* another request has; what is stored of it, the request has.
InvitationIsNew ==
    \A h \in Handler : req[h].step \in Inviting =>
       /\ invitations[req[h].inv] = None
       /\ req[h].step = "insertInvitation" => storedInvitations[req[h].inv] = None
       /\ req[h].step = "invitationStored" =>
             storedInvitations[req[h].inv] =
                [from |-> req[h].by, to |-> req[h].with, status |-> "pending"]
       /\ \A g \in Handler :
             req[g].step \in Inviting /\ req[g].inv = req[h].inv => g = h

DirectIsNew ==
    \A h \in Handler :
       /\ req[h].step \in Opening =>
             /\ directs[req[h].conv] = {}
             /\ req[h].step = "insertDirect" => storedDirects[req[h].conv] = {}
             /\ req[h].step = "directStored" => storedDirects[req[h].conv] = PairOf(h)
             /\ \A g \in Handler :
                   req[g].step \in Opening /\ req[g].conv = req[h].conv => g = h
       /\ req[h].step = "restoreDirect" => directs[req[h].conv] = PairOf(h)

\* Memory has nothing that is not stored.
InvitationsAreStored ==
    \A i \in Invitation :
       /\ storedInvitations[i] # None => storedInvitations[i].from # storedInvitations[i].to
       /\ invitations[i] # None =>
             /\ storedInvitations[i] # None
             /\ storedInvitations[i].from = invitations[i].from
             /\ storedInvitations[i].to = invitations[i].to

DirectsAreStored ==
    \A c \in Conversation : directs[c] # {} => storedDirects[c] = directs[c]

\* An answer under way is the recipient's, to an invitation of the sender; an
\* acceptance has its conversation before it has its status.
AnswerIsFounded ==
    \A h \in Handler :
       req[h].step \in Busy \ Inviting /\ req[h].inv # None =>
          /\ invitations[req[h].inv] # None
          /\ invitations[req[h].inv].from = req[h].with
          /\ invitations[req[h].inv].to = req[h].by
          /\ req[h].verdict \in Verdict
          /\ req[h].step \notin Answering => req[h].verdict = "accepted"
          /\ req[h].step \in Answering =>
                /\ invitations[req[h].inv].status # "pending"
                /\ req[h].verdict = "accepted" => DirectsOf(directs, PairOf(h)) # {}
          /\ req[h].step = "answerStored" =>
                storedInvitations[req[h].inv].status # "pending"

\* No two requests over a pair that did not race.
PairsTakeTurns ==
    \A h, g \in Handler :
       /\ req[h].step \in Busy /\ req[g].step \in Busy
       /\ PairOf(h) = PairOf(g) /\ PairOf(h) \notin raced
       => h = g

\* The invitations and conversations of such a pair: one at most, and what
\* the tables have more than memory is of the request under way.
OneInvitation ==
    \A pair \in Pair \ raced :
       /\ \A i, j \in PendingBetween(invitations, pair) : i = j
       /\ \A i \in PendingBetween(storedInvitations, pair) :
             \/ i \in PendingBetween(invitations, pair)
             \/ \E h \in Handler : /\ PairOf(h) = pair /\ req[h].inv = i
                                   /\ req[h].step \in {"invitationStored", "updateAnswer"}
       /\ \A h \in Handler : PairOf(h) = pair =>
             /\ req[h].step \in Inviting \union Answering =>
                   PendingBetween(invitations, pair) = {}
             /\ req[h].step \in Busy /\ req[h].inv # None =>
                   PendingBetween(invitations, pair) \subseteq {req[h].inv}

OneDirect ==
    \A pair \in Pair \ raced :
       /\ \A c, d \in DirectsOf(directs, pair) : c = d
       /\ \A c \in DirectsOf(storedDirects, pair) :
             \/ c \in DirectsOf(directs, pair)
             \/ \E h \in Handler : /\ PairOf(h) = pair /\ req[h].conv = c
                                   /\ req[h].step = "directStored"
       /\ \A h \in Handler : PairOf(h) = pair /\ req[h].step \in Opening =>
             DirectsOf(directs, pair) = {}

\* The list the page of u shows once all answers under way have arrived.
Latest(u) == IF answers[u] = <<>> THEN page[u].list ELSE answers[u][Len(answers[u])]

\* That list is the one of the backend unless another will be asked for.
LatestIsCurrent ==
    \A u \in Watcher \ missed :
       /\ notices[u] = 0 /\ asked[u] = 0
       /\ \A h \in Handler : req[h].step \in Answering => req[h].by # u
       => Latest(u) = Received(u)

ContactsInv ==
    /\ TypeOK
    /\ RequestIsWhole
    /\ InvitationIsNew /\ DirectIsNew
    /\ InvitationsAreStored /\ DirectsAreStored
    /\ AnswerIsFounded
    /\ AcceptedAreContacts /\ AnswersAreKept
    /\ PairsTakeTurns /\ OneInvitation /\ OneDirect
    /\ LatestIsCurrent

LEMMA InitEstablishesInv == Init => ContactsInv
<1> SUFFICES ASSUME Init
             PROVE  ContactsInv
    OBVIOUS
<1>1. Idle \in Request /\ Idle.step = "idle"
    BY DEF Idle, Request, Step
<1>2. TypeOK
    BY <1>1, ContactConstants DEF Init, TypeOK
<1>3. \A h \in Handler : req[h].step = "idle"
    BY <1>1 DEF Init
<1>4. RequestIsWhole /\ InvitationIsNew /\ DirectIsNew /\ AnswerIsFounded /\ PairsTakeTurns
    BY <1>3 DEF RequestIsWhole, InvitationIsNew, DirectIsNew, AnswerIsFounded,
        PairsTakeTurns, Busy, Inviting, Opening, Answering
<1>5. InvitationsAreStored /\ DirectsAreStored /\ AcceptedAreContacts /\ AnswersAreKept
    BY DEF Init, InvitationsAreStored, DirectsAreStored, AcceptedAreContacts, AnswersAreKept
<1>6. /\ \A pair : /\ PendingBetween(invitations, pair) = {}
                   /\ PendingBetween(storedInvitations, pair) = {}
      /\ \A pair \in Pair : DirectsOf(directs, pair) = {} /\ DirectsOf(storedDirects, pair) = {}
    BY DEF Init, PendingBetween, DirectsOf, Pair
<1>7. OneInvitation /\ OneDirect
    BY <1>3, <1>6 DEF OneInvitation, OneDirect, Busy, Inviting, Opening, Answering
<1>8. LatestIsCurrent
    BY ContactConstants DEF Init, LatestIsCurrent, Latest, Received
<1>. QED  BY <1>2, <1>4, <1>5, <1>7, <1>8 DEF ContactsInv

\* The parts of the invariant about requests and what is stored, and those
\* about pairs.
StoredInv ==
    /\ RequestIsWhole
    /\ InvitationIsNew /\ DirectIsNew
    /\ InvitationsAreStored /\ DirectsAreStored
    /\ AnswerIsFounded
    /\ AcceptedAreContacts /\ AnswersAreKept

PairsInv == PairsTakeTurns /\ OneInvitation /\ OneDirect

\* Two users make a pair.
LEMMA TwoMakeAPair ==
    ASSUME NEW u \in User, NEW v \in User, u # v
    PROVE  {u, v} \in Pair
<1>1. <<u, v>> \in {q \in User \X User : q[1] # q[2]}
    OBVIOUS
<1>2. {<<u, v>>[1], <<u, v>>[2]} \in Pair
    BY <1>1 DEF Pair
<1>. QED  BY <1>2

\* A request that is replaced, and one that goes on to its next step.
LEMMA RequestReplaced ==
    ASSUME TypeOK, NEW h \in Handler, NEW q \in Request, req' = [req EXCEPT ![h] = q]
    PROVE  /\ req' \in [Handler -> Request]
           /\ req'[h] = q
           /\ \A g \in Handler : g # h => req'[g] = req[g]
BY DEF TypeOK

LEMMA RequestMoved ==
    ASSUME TypeOK, NEW h \in Handler, NEW s \in Step, req' = [req EXCEPT ![h].step = s]
    PROVE  /\ req' \in [Handler -> Request]
           /\ req'[h].step = s /\ req'[h].by = req[h].by /\ req'[h].with = req[h].with
           /\ req'[h].inv = req[h].inv /\ req'[h].conv = req[h].conv
           /\ req'[h].verdict = req[h].verdict
           /\ \A g \in Handler : g # h => req'[g] = req[g]
<1>1. req \in [Handler -> Request] /\ req[h] \in Request
    BY DEF TypeOK
<1>2. [req[h] EXCEPT !.step = s] \in Request
    BY <1>1 DEF Request
<1>. QED  BY <1>1, <1>2 DEF Request

\* A step after which some requests are over, which changes neither memory
\* nor the tables.
LEMMA QuietStepKeeps ==
    ASSUME ContactsInv,
           UNCHANGED <<memory, tables>>,
           raced \subseteq raced', confirmed \subseteq confirmed', AnswersAreKept',
           \A h \in Handler : req'[h] # req[h] =>
              /\ req'[h].step \in {"idle", "failed", "confirmed"}
              /\ req'[h].step # "idle" => req'[h].by \in User
              /\ req'[h].step = "confirmed" => req'[h].inv \in confirmed'
              /\ req[h].step \in Busy => PairOf(h) \in raced' \/ req[h].step = "answerStored"
    PROVE  StoredInv' /\ PairsInv'
<1>0. UNCHANGED <<invitations, directs, storedInvitations, storedDirects>>
    BY DEF memory, tables
<1>1. \A h \in Handler : req'[h].step \in Busy => req'[h] = req[h] /\ PairOf(h)' = PairOf(h)
    BY DEF Busy, Inviting, Opening, Answering, PairOf
<1>2. Inviting \subseteq Busy /\ Opening \subseteq Busy /\ Answering \subseteq Busy
      /\ {"restoreDirect", "invitationStored", "updateAnswer", "directStored"} \subseteq Busy
    BY DEF Busy, Inviting, Answering, Opening
<1>3. RequestIsWhole'
    <2> SUFFICES ASSUME NEW h \in Handler
                 PROVE  /\ req'[h].step # "idle" => req'[h].by \in User
                        /\ req'[h].step \in Busy => req'[h].with \in User /\ req'[h].by # req'[h].with
                        /\ req'[h].step \in Inviting => req'[h].inv \in Invitation /\ req'[h].verdict = None
                        /\ req'[h].step \in Opening \union {"restoreDirect"} => req'[h].conv \in Conversation
                        /\ req'[h].step \in Answering => req'[h].inv \in Invitation
                        /\ req'[h].step = "confirmed" => req'[h].inv \in confirmed'
        BY DEF RequestIsWhole
    <2>1. CASE req'[h] = req[h]
        BY <2>1 DEF ContactsInv, RequestIsWhole
    <2>2. CASE req'[h] # req[h]
        BY <2>2 DEF Busy, Inviting, Opening, Answering
    <2>. QED  BY <2>1, <2>2
<1>4. InvitationIsNew' /\ InvitationsAreStored'
    BY <1>0, <1>1, <1>2 DEF ContactsInv, InvitationIsNew, InvitationsAreStored
<1>5. DirectIsNew' /\ DirectsAreStored'
    BY <1>0, <1>1, <1>2 DEF ContactsInv, DirectIsNew, DirectsAreStored, PairOf
<1>6. AnswerIsFounded'
    BY <1>0, <1>1, <1>2 DEF ContactsInv, AnswerIsFounded, PairOf, DirectsOf
<1>7. AcceptedAreContacts' /\ AnswersAreKept'
    BY <1>0 DEF ContactsInv, AcceptedAreContacts, DirectsOf
<1>8. PairsTakeTurns'
    BY <1>1 DEF ContactsInv, PairsTakeTurns
<1>9. \A pair : /\ PendingBetween(invitations, pair)' = PendingBetween(invitations, pair)
                /\ PendingBetween(storedInvitations, pair)' = PendingBetween(storedInvitations, pair)
                /\ DirectsOf(directs, pair)' = DirectsOf(directs, pair)
                /\ DirectsOf(storedDirects, pair)' = DirectsOf(storedDirects, pair)
    BY <1>0 DEF PendingBetween, DirectsOf
<1>10. ASSUME NEW pair \in Pair \ raced', NEW h \in Handler, PairOf(h) = pair,
              req[h].step \in {"invitationStored", "updateAnswer", "directStored"}
       PROVE  req'[h] = req[h] /\ PairOf(h)' = pair
    BY <1>2, <1>10 DEF PairOf
<1>11. OneInvitation'
    <2> SUFFICES ASSUME NEW pair \in Pair \ raced'
                 PROVE  /\ \A i, j \in PendingBetween(invitations, pair) : i = j
                        /\ \A i \in PendingBetween(storedInvitations, pair) :
                              \/ i \in PendingBetween(invitations, pair)
                              \/ \E h \in Handler : /\ PairOf(h)' = pair /\ req'[h].inv = i
                                                    /\ req'[h].step \in {"invitationStored", "updateAnswer"}
                        /\ \A h \in Handler : PairOf(h)' = pair =>
                              /\ req'[h].step \in Inviting \union Answering =>
                                    PendingBetween(invitations, pair) = {}
                              /\ req'[h].step \in Busy /\ req'[h].inv # None =>
                                    PendingBetween(invitations, pair) \subseteq {req'[h].inv}
        BY <1>9 DEF OneInvitation
    <2>1. pair \in Pair \ raced
        OBVIOUS
    <2>2. \A i \in PendingBetween(storedInvitations, pair) :
             \/ i \in PendingBetween(invitations, pair)
             \/ \E h \in Handler : /\ PairOf(h)' = pair /\ req'[h].inv = i
                                   /\ req'[h].step \in {"invitationStored", "updateAnswer"}
        BY <1>2, <1>10, <2>1 DEF ContactsInv, OneInvitation
    <2>3. \A h \in Handler : PairOf(h)' = pair =>
             /\ req'[h].step \in Inviting \union Answering =>
                   PendingBetween(invitations, pair) = {}
             /\ req'[h].step \in Busy /\ req'[h].inv # None =>
                   PendingBetween(invitations, pair) \subseteq {req'[h].inv}
        BY <1>1, <1>2, <2>1 DEF ContactsInv, OneInvitation
    <2>. QED  BY <2>1, <2>2, <2>3 DEF ContactsInv, OneInvitation
<1>12. OneDirect'
    <2> SUFFICES ASSUME NEW pair \in Pair \ raced'
                 PROVE  /\ \A c, d \in DirectsOf(directs, pair) : c = d
                        /\ \A c \in DirectsOf(storedDirects, pair) :
                              \/ c \in DirectsOf(directs, pair)
                              \/ \E h \in Handler : /\ PairOf(h)' = pair /\ req'[h].conv = c
                                                    /\ req'[h].step = "directStored"
                        /\ \A h \in Handler : PairOf(h)' = pair /\ req'[h].step \in Opening =>
                              DirectsOf(directs, pair) = {}
        BY <1>9 DEF OneDirect
    <2>1. pair \in Pair \ raced
        OBVIOUS
    <2>. QED  BY <1>1, <1>2, <1>10, <2>1 DEF ContactsInv, OneDirect
<1>. QED
    BY <1>3, <1>4, <1>5, <1>6, <1>7, <1>8, <1>11, <1>12 DEF StoredInv, PairsInv

\* A step that neither changes a user's invitations, nor ends the way of an
\* answer, nor touches pages, leaves the latest list current.
LEMMA LatestStays ==
    ASSUME ContactsInv,
           UNCHANGED <<asked, answers>>,
           \A u \in Watcher : page'[u].list = page[u].list,
           missed \subseteq missed',
           \A u \in Watcher \ missed' :
              \/ notices'[u] > 0
              \/ /\ notices'[u] = notices[u]
                 /\ \/ Received(u)' = Received(u)
                    \/ \E h \in Handler : req'[h].step \in Answering /\ req'[h].by = u
                 /\ \A h \in Handler : req[h].step \in Answering /\ req[h].by = u =>
                       req'[h].step \in Answering /\ req'[h].by = u
    PROVE  LatestIsCurrent'
<1> SUFFICES ASSUME NEW u \in Watcher \ missed',
                    notices'[u] = 0, asked'[u] = 0,
                    \A h \in Handler : req'[h].step \in Answering => req'[h].by # u
             PROVE  Latest(u)' = Received(u)'
    BY DEF LatestIsCurrent
<1>1. u \in Watcher \ missed
    OBVIOUS
<1>2. notices[u] = 0 /\ Received(u)' = Received(u)
      /\ \A h \in Handler : req[h].step \in Answering => req[h].by # u
    OBVIOUS
<1>3. Latest(u)' = Latest(u)
    BY DEF Latest
<1>. QED  BY <1>1, <1>2, <1>3 DEF ContactsInv, LatestIsCurrent

\* What is left of a sequence without its n-th element.
Without(s, n) == SubSeq(s, 1, n - 1) \o SubSeq(s, n + 1, Len(s))

LEMMA WithoutNth ==
    ASSUME NEW S, NEW s \in Seq(S), NEW n \in 1 .. Len(s)
    PROVE  /\ Without(s, n) \in Seq(S)
           /\ Len(Without(s, n)) = Len(s) - 1
           /\ n = 1 /\ Len(s) > 1 => Without(s, n)[Len(Without(s, n))] = s[Len(s)]
<1> DEFINE t == Without(s, n)
           a == SubSeq(s, 1, n - 1)
           b == SubSeq(s, n + 1, Len(s))
<1>1. Len(s) \in Nat /\ n \in Int /\ \A i \in 1 .. Len(s) : s[i] \in S
    BY ElementOfSeq
<1>2. /\ a \in Seq(S)
      /\ Len(a) = n - 1
    <2>1. n - 1 \in Int /\ \A i \in 1 .. (n - 1) : s[i] \in S
        BY <1>1
    <2>2. /\ a \in Seq(S)
          /\ Len(a) = IF 1 <= n - 1 THEN (n - 1) - 1 + 1 ELSE 0
        BY <2>1, SubSeqProperties
    <2>. QED  BY <1>1, <2>2
<1>3. /\ b \in Seq(S)
      /\ Len(b) = Len(s) - n
      /\ \A i \in 1 .. (Len(s) - n) : b[i] = s[n + i]
    <2>1. n + 1 \in Int /\ Len(s) \in Int /\ \A i \in (n + 1) .. Len(s) : s[i] \in S
        BY <1>1
    <2>2. /\ b \in Seq(S)
          /\ Len(b) = IF n + 1 <= Len(s) THEN Len(s) - (n + 1) + 1 ELSE 0
          /\ \A i \in 1 .. Len(s) - (n + 1) + 1 : b[i] = s[(n + 1) + i - 1]
        BY <2>1, SubSeqProperties
    <2> HIDE DEF b
    <2>3. /\ Len(b) = Len(s) - n
          /\ Len(s) - (n + 1) + 1 = Len(s) - n
          /\ \A i \in 1 .. (Len(s) - n) : (n + 1) + i - 1 = n + i
        BY <1>1, <2>2
    <2>. QED  BY <2>2, <2>3
<1> HIDE DEF a, b, t
<1>4. /\ a \o b \in Seq(S)
      /\ Len(a \o b) = Len(a) + Len(b)
      /\ \A i \in 1 .. Len(a) + Len(b) :
            (a \o b)[i] = IF i <= Len(a) THEN a[i] ELSE b[i - Len(a)]
    BY <1>2, <1>3, ConcatProperties
<1>5. t = a \o b
    BY DEF a, b, t, Without
<1>6. ASSUME n = 1, Len(s) > 1
      PROVE  t[Len(t)] = s[Len(s)]
    <2>1. Len(t) = Len(s) - 1 /\ t[Len(s) - 1] = b[Len(s) - 1]
        BY <1>1, <1>2, <1>3, <1>4, <1>5, <1>6
    <2>2. b[Len(s) - 1] = s[Len(s)]
        BY <1>1, <1>3, <1>6
    <2>. QED  BY <2>1, <2>2
<1>7. Len(a) + Len(b) = Len(s) - 1
    BY <1>1, <1>2, <1>3
<1>8. t \in Seq(S) /\ Len(t) = Len(s) - 1
    BY <1>4, <1>5, <1>7
<1>. QED  BY <1>6, <1>8 DEF t

\* The page of a user and the lists it asks for.
LEMMA PageStepsKeepInv ==
    ASSUME ContactsInv, NEW u \in Watcher,
           \/ Notice(u) \/ LoseNotice(u) \/ ReadReceived(u)
           \/ \E n \in 1 .. MaxRefreshes : ShowReceived(u, n)
    PROVE  ContactsInv'
<1> USE ContactConstants
<1>0. /\ UNCHANGED <<memory, tables, req, raced, confirmed>>
      /\ UNCHANGED <<invitations, directs, storedInvitations, storedDirects>>
    BY DEF Notice, LoseNotice, ReadReceived, ShowReceived, memory, tables
<1>1. StoredInv' /\ PairsInv'
    <2>1. AnswersAreKept'
        BY <1>0 DEF ContactsInv, AnswersAreKept
    <2>. QED  BY <1>0, <2>1, QuietStepKeeps
<1>2. /\ u \in User
      /\ asked \in [User -> 0 .. MaxRefreshes] /\ answers \in [User -> Seq(SUBSET Invitation)]
      /\ notices \in [User -> Nat] /\ missed \subseteq User
      /\ page \in [User -> [list : SUBSET Invitation, processing : Invitation \union {None}]]
      /\ asked[u] \in Nat /\ notices[u] \in Nat /\ Len(answers[u]) \in Nat
      /\ answers[u] \in Seq(SUBSET Invitation)
    BY DEF ContactsInv, TypeOK
<1>3. \A v : Received(v)' = Received(v)
    BY <1>0 DEF Received
<1> DEFINE Rest == TypeOK' /\ LatestIsCurrent'
           Current(v) == /\ notices[v] = 0 /\ asked[v] = 0
                         /\ \A h \in Handler : req[h].step \in Answering => req[h].by # v
                         => Latest(v) = Received(v)
<1>4. \A v \in Watcher \ missed : Current(v)
    BY DEF ContactsInv, LatestIsCurrent
<1>5. ASSUME Notice(u)
      PROVE  Rest
    <2>1. asked[u] + 1 \in 0 .. MaxRefreshes
        BY <1>2, <1>5 DEF Notice, Refreshing
    <2>2. TypeOK'
        BY <1>0, <1>2, <1>5, <2>1 DEF Notice, ContactsInv, TypeOK
    <2>3. asked'[u] > 0 /\ \A v \in User : v # u => asked'[v] = asked[v] /\ notices'[v] = notices[v]
        BY <1>2, <1>5 DEF Notice
    <2>4. LatestIsCurrent'
        BY <1>0, <1>3, <1>4, <1>5, <2>3 DEF Notice, LatestIsCurrent, Latest
    <2>. QED  BY <2>2, <2>4
<1>6. ASSUME LoseNotice(u)
      PROVE  Rest
    <2>1. TypeOK'
        BY <1>0, <1>2, <1>6 DEF LoseNotice, pages, ContactsInv, TypeOK
    <2>2. /\ missed' = missed \union {u}
          /\ \A v \in User : v # u => notices'[v] = notices[v]
          /\ UNCHANGED <<page, asked, answers>>
        BY <1>2, <1>6 DEF LoseNotice, pages
    <2>3. LatestIsCurrent'
        BY <1>0, <1>3, <1>4, <2>2 DEF LatestIsCurrent, Latest
    <2>. QED  BY <2>1, <2>3
<1>7. ASSUME ReadReceived(u)
      PROVE  Rest
    <2>1. asked[u] - 1 \in 0 .. MaxRefreshes
        BY <1>2, <1>7 DEF ReadReceived
    <2>2. Received(u) \in SUBSET Invitation
        BY DEF Received
    <2> DEFINE Lists == SUBSET Invitation
    <2>8. answers[u] \in Seq(Lists) /\ Received(u) \in Lists
        BY <1>2, <2>2
    <2> HIDE DEF Lists
    <2>9. /\ Append(answers[u], Received(u)) \in Seq(SUBSET Invitation)
          /\ Append(answers[u], Received(u)) # <<>>
          /\ Len(Append(answers[u], Received(u))) = Len(answers[u]) + 1
          /\ Append(answers[u], Received(u))[Len(answers[u]) + 1] = Received(u)
        BY <2>8, AppendProperties DEF Lists
    <2>3. TypeOK'
        BY <1>0, <1>2, <1>7, <2>1, <2>9 DEF ReadReceived, ContactsInv, TypeOK
    <2>4. /\ UNCHANGED <<page, notices, missed>>
          /\ answers'[u] = Append(answers[u], Received(u))
          /\ \A v \in User : v # u => answers'[v] = answers[v] /\ asked'[v] = asked[v]
        BY <1>2, <1>7 DEF ReadReceived
    <2>5. answers'[u] # <<>> /\ answers'[u][Len(answers'[u])] = Received(u)
        BY <2>4, <2>9
    <2>6. LatestIsCurrent'
        BY <1>0, <1>3, <1>4, <2>4, <2>5 DEF LatestIsCurrent, Latest
    <2>. QED  BY <2>3, <2>6
<1>8. ASSUME NEW n \in 1 .. MaxRefreshes, ShowReceived(u, n)
      PROVE  Rest
    <2> DEFINE s == answers[u]
               t == Without(s, n)
    <2>0. /\ n \in 1 .. Len(s)
          /\ page' = [page EXCEPT ![u].list = s[n]]
          /\ answers' = [answers EXCEPT ![u] = t]
          /\ missed' = IF n > 1 THEN missed \union {u} ELSE missed
          /\ UNCHANGED <<asked, notices>>
        BY <1>8 DEF ShowReceived, Without
    <2>8. /\ s \in Seq(SUBSET Invitation) /\ Len(s) \in Nat
          /\ Len(s) = 1 \/ Len(s) > 1
          /\ s[n] \in SUBSET Invitation
        <3> DEFINE Lists == SUBSET Invitation
        <3>1. s \in Seq(Lists) /\ Len(s) \in Nat /\ n \in 1 .. Len(s)
            BY <1>2, <2>0
        <3> HIDE DEF Lists, s
        <3>2. s[n] \in Lists
            BY <3>1, ElementOfSeq
        <3>3. Len(s) = 1 \/ Len(s) > 1
            <4>1. n \in Int /\ 1 <= n /\ n <= Len(s)
                BY <3>1
            <4>2. \A k \in Nat : 1 <= n /\ n <= k => k = 1 \/ k > 1
                BY <4>1
            <4>. QED  BY <3>1, <4>1, <4>2
        <3>. QED  BY <1>2, <3>1, <3>2, <3>3 DEF Lists
    <2>1. /\ t \in Seq(SUBSET Invitation)
          /\ Len(t) = Len(s) - 1
          /\ n = 1 /\ Len(s) > 1 => t[Len(t)] = s[Len(s)]
        <3> DEFINE Lists == SUBSET Invitation
        <3>1. s \in Seq(Lists) /\ n \in 1 .. Len(s)
            BY <2>0, <2>8
        <3> HIDE DEF Lists, s
        <3>. QED  BY <3>1, WithoutNth DEF Lists
    <2>2. [page[u] EXCEPT !.list = s[n]] \in
             [list : SUBSET Invitation, processing : Invitation \union {None}]
        BY ZenonT(60), <1>2, <2>8
    <2> HIDE DEF s, t
    <2>3. TypeOK'
        BY <1>0, <1>2, <2>0, <2>1, <2>2 DEF ContactsInv, TypeOK
    <2>4. ASSUME n = 1
          PROVE  Latest(u)' = Latest(u)
        <3>1. page'[u].list = s[1] /\ answers'[u] = t /\ answers[u] = s
            BY <1>2, <2>0, <2>4 DEF s
        <3>2. Latest(u)' = IF t = <<>> THEN s[1] ELSE t[Len(t)]
            BY <3>1 DEF Latest
        <3>3. Latest(u) = s[Len(s)]
            <4>1. s # <<>>
                BY <2>0, <2>8, EmptySeq
            <4>. QED  BY <3>1, <4>1 DEF Latest
        <3>4. CASE Len(s) = 1
            <4>1. t = <<>>
                BY <2>1, <3>4, EmptySeq
            <4>. QED  BY <3>2, <3>3, <3>4, <4>1
        <3>5. CASE Len(s) > 1
            <4>1. t # <<>>
                BY <2>1, <2>8, <3>5
            <4>. QED  BY <2>1, <2>4, <3>2, <3>3, <3>5, <4>1
        <3>. QED  BY <2>8, <3>4, <3>5
    <2>5. \A v \in User : v # u => page'[v] = page[v] /\ answers'[v] = answers[v]
        BY <1>2, <2>0
    <2>6. \A v \in Watcher \ missed' : Latest(v)' = Latest(v)
        BY <2>0, <2>4, <2>5 DEF Latest
    <2>7. LatestIsCurrent'
        BY <1>0, <1>3, <1>4, <2>0, <2>6 DEF LatestIsCurrent
    <2>. QED  BY <2>3, <2>7
<1>. QED  BY <1>1, <1>5, <1>6, <1>7, <1>8 DEF StoredInv, PairsInv, ContactsInv
-----------------------------------------------------------------------------
\* A request is under way when it is busy; a pair has two members.
LEMMA UnderWayIsBusy ==
    ASSUME TypeOK, NEW pair
    PROVE  UnderWay(pair) <=> \E h \in Handler : req[h].step \in Busy /\ PairOf(h) = pair
<1>1. \A h \in Handler : req[h].step \in Step
    BY DEF TypeOK, Request
<1>2. \A h \in Handler :
         req[h].step \notin {"idle", "confirmed", "failed"} <=> req[h].step \in Busy
    BY <1>1 DEF Step, Busy, Inviting, Opening, Answering
<1>. QED  BY <1>2 DEF UnderWay, PairOf

LEMMA ClickKeepsLists ==
    ASSUME TypeOK, NEW u \in Watcher, NEW i \in Invitation, Click(u, i)
    PROVE  /\ page' \in [User -> [list : SUBSET Invitation,
                                  processing : Invitation \union {None}]]
           /\ \A v \in Watcher : page'[v].list = page[v].list
<1>1. u \in User /\ page[u] \in [list : SUBSET Invitation, processing : Invitation \union {None}]
      /\ Watcher \subseteq User
    BY ContactConstants DEF TypeOK
<1>2. /\ [page[u] EXCEPT !.processing = i] \in
            [list : SUBSET Invitation, processing : Invitation \union {None}]
      /\ [page[u] EXCEPT !.processing = i].list = page[u].list
    BY <1>1
<1>3. page' = [page EXCEPT ![u] = [page[u] EXCEPT !.processing = i]]
    BY DEF Click
<1>. QED  BY <1>1, <1>2, <1>3 DEF TypeOK

\* A request over users who are not told yet begins with q; nothing else
\* that the invariant tells apart is changed.
LEMMA BeginKeeps ==
    ASSUME ContactsInv, NEW h \in Handler, NEW q \in Request,
           req[h].step = "idle",
           req' = [req EXCEPT ![h] = q],
           UNCHANGED <<memory, tables, confirmed>>,
           Meet({q.by, q.with}),
           q.by \in User, q.with \in User, q.by # q.with,
           \/ /\ q.step = "insertInvitation"
              /\ q.inv \in Invitation /\ NewInvitation(q.inv) /\ q.verdict = None
              /\ PendingBetween(invitations, {q.by, q.with}) = {}
           \/ /\ \/ /\ q.step = "insertDirect"
                    /\ q.conv \in Conversation /\ NewConversation(q.conv)
                    /\ DirectsOf(directs, {q.by, q.with}) = {}
                 \/ /\ q.step = "restoreDirect"
                    /\ q.conv \in DirectsOf(directs, {q.by, q.with})
              /\ q.inv # None =>
                    /\ q.inv \in PendingBetween(invitations, {q.by, q.with})
                    /\ invitations[q.inv].from = q.with /\ invitations[q.inv].to = q.by
                    /\ q.verdict = "accepted"
    PROVE  /\ StoredInv' /\ PairsInv'
           /\ req' \in [Handler -> Request] /\ raced' \subseteq Pair
<1>0. UNCHANGED <<invitations, directs, storedInvitations, storedDirects, confirmed>>
    BY DEF memory, tables
<1>1. /\ TypeOK
      /\ req' \in [Handler -> Request]
      /\ req'[h] = q /\ \A g \in Handler : g # h => req'[g] = req[g]
    <2>1. TypeOK
        BY DEF ContactsInv
    <2>. QED  BY <2>1, RequestReplaced
<1> DEFINE p == {q.by, q.with}
<1>2. /\ raced' = IF UnderWay(p) THEN raced \union {p} ELSE raced
      /\ p \in Pair
      /\ raced \subseteq Pair
    BY TwoMakeAPair DEF Meet, ContactsInv, TypeOK
<1>3. /\ q.step \in Busy /\ q.step \notin Answering
      /\ q.step \in Inviting => q.step = "insertInvitation"
      /\ q.step \in Opening => q.step = "insertDirect"
      /\ req[h].step \notin Busy
      /\ Inviting \subseteq Busy /\ Opening \subseteq Busy /\ Answering \subseteq Busy
    BY DEF Busy, Inviting, Opening, Answering
<1>4. \A g \in Handler : g # h => PairOf(g)' = PairOf(g)
    BY <1>1 DEF PairOf
<1>5. PairOf(h)' = p
    BY <1>1 DEF PairOf
<1>6. \A g \in Handler : req[g].step \in Busy /\ PairOf(g) = p => p \in raced'
    BY <1>1, <1>2, UnderWayIsBusy
<1>7. raced \subseteq raced' /\ raced' \subseteq Pair
    BY <1>2
<1> HIDE DEF p
<1>8. RequestIsWhole'
    <2> SUFFICES ASSUME NEW g \in Handler
                 PROVE  /\ req'[g].step # "idle" => req'[g].by \in User
                        /\ req'[g].step \in Busy => req'[g].with \in User /\ req'[g].by # req'[g].with
                        /\ req'[g].step \in Inviting => req'[g].inv \in Invitation /\ req'[g].verdict = None
                        /\ req'[g].step \in Opening \union {"restoreDirect"} => req'[g].conv \in Conversation
                        /\ req'[g].step \in Answering => req'[g].inv \in Invitation
                        /\ req'[g].step = "confirmed" => req'[g].inv \in confirmed'
        BY DEF RequestIsWhole
    <2>1. CASE g = h
        BY <1>1, <1>3, <2>1 DEF DirectsOf, Inviting, Opening, Answering
    <2>2. CASE g # h
        BY <1>0, <1>1, <2>2 DEF ContactsInv, RequestIsWhole
    <2>. QED  BY <2>1, <2>2
<1>9. InvitationIsNew'
    <2>1. q.step = "insertInvitation" =>
             /\ invitations[q.inv] = None /\ storedInvitations[q.inv] = None
             /\ \A g \in Handler : req[g].inv # q.inv
        BY DEF NewInvitation
    <2>. QED  BY <1>0, <1>1, <1>3, <2>1 DEF ContactsInv, InvitationIsNew
<1>10. DirectIsNew'
    <2>1. /\ q.step = "insertDirect" =>
                /\ directs[q.conv] = {} /\ storedDirects[q.conv] = {}
                /\ \A g \in Handler : req[g].conv # q.conv
          /\ q.step = "restoreDirect" => directs[q.conv] = p
        BY DEF NewConversation, DirectsOf, p
    <2>. QED  BY <1>0, <1>1, <1>3, <1>4, <1>5, <2>1 DEF ContactsInv, DirectIsNew
<1>11. AnswerIsFounded'
    <2>1. q.inv # None /\ q.step \notin Inviting =>
             /\ invitations[q.inv] # None
             /\ invitations[q.inv].from = q.with /\ invitations[q.inv].to = q.by
             /\ q.verdict = "accepted"
        BY DEF PendingBetween, Inviting
    <2>. QED  BY <1>0, <1>1, <1>3, <1>4, <2>1
              DEF ContactsInv, AnswerIsFounded, DirectsOf, Verdict, Answering
<1>12. InvitationsAreStored' /\ DirectsAreStored' /\ AcceptedAreContacts' /\ AnswersAreKept'
    <2>1. InvitationsAreStored'
        BY <1>0 DEF ContactsInv, InvitationsAreStored
    <2>2. DirectsAreStored'
        BY <1>0 DEF ContactsInv, DirectsAreStored
    <2>3. AcceptedAreContacts'
        BY <1>0 DEF ContactsInv, AcceptedAreContacts, DirectsOf
    <2>4. AnswersAreKept'
        BY <1>0 DEF ContactsInv, AnswersAreKept
    <2>. QED  BY <2>1, <2>2, <2>3, <2>4
<1>13. PairsTakeTurns'
    BY <1>1, <1>3, <1>4, <1>5, <1>6, <1>7 DEF ContactsInv, PairsTakeTurns
<1>14. \A pair : /\ PendingBetween(invitations, pair)' = PendingBetween(invitations, pair)
                 /\ PendingBetween(storedInvitations, pair)' = PendingBetween(storedInvitations, pair)
                 /\ DirectsOf(directs, pair)' = DirectsOf(directs, pair)
                 /\ DirectsOf(storedDirects, pair)' = DirectsOf(storedDirects, pair)
    BY <1>0 DEF PendingBetween, DirectsOf
<1>15. OneInvitation'
    <2> SUFFICES ASSUME NEW pair \in Pair \ raced'
                 PROVE  /\ \A i, j \in PendingBetween(invitations, pair) : i = j
                        /\ \A i \in PendingBetween(storedInvitations, pair) :
                              \/ i \in PendingBetween(invitations, pair)
                              \/ \E g \in Handler : /\ PairOf(g)' = pair /\ req'[g].inv = i
                                                    /\ req'[g].step \in {"invitationStored", "updateAnswer"}
                        /\ \A g \in Handler : PairOf(g)' = pair =>
                              /\ req'[g].step \in Inviting \union Answering =>
                                    PendingBetween(invitations, pair) = {}
                              /\ req'[g].step \in Busy /\ req'[g].inv # None =>
                                    PendingBetween(invitations, pair) \subseteq {req'[g].inv}
        BY <1>14 DEF OneInvitation
    <2>1. pair \in Pair \ raced
        BY <1>7
    <2>2. \A i, j \in PendingBetween(invitations, pair) : i = j
        BY <2>1 DEF ContactsInv, OneInvitation
    <2>3. \A i \in PendingBetween(storedInvitations, pair) :
             \/ i \in PendingBetween(invitations, pair)
             \/ \E g \in Handler : /\ PairOf(g)' = pair /\ req'[g].inv = i
                                   /\ req'[g].step \in {"invitationStored", "updateAnswer"}
        BY <1>1, <1>4, <2>1 DEF ContactsInv, OneInvitation
    <2>4. ASSUME pair = p
          PROVE  /\ q.step \in Inviting \union Answering => PendingBetween(invitations, pair) = {}
                 /\ q.inv # None => PendingBetween(invitations, pair) \subseteq {q.inv}
        BY <1>3, <2>2, <2>4 DEF p
    <2>5. \A g \in Handler : PairOf(g)' = pair =>
             /\ req'[g].step \in Inviting \union Answering =>
                   PendingBetween(invitations, pair) = {}
             /\ req'[g].step \in Busy /\ req'[g].inv # None =>
                   PendingBetween(invitations, pair) \subseteq {req'[g].inv}
        BY <1>1, <1>4, <1>5, <2>1, <2>4 DEF ContactsInv, OneInvitation
    <2>. QED  BY <2>2, <2>3, <2>5
<1>16. OneDirect'
    <2> SUFFICES ASSUME NEW pair \in Pair \ raced'
                 PROVE  /\ \A c, d \in DirectsOf(directs, pair) : c = d
                        /\ \A c \in DirectsOf(storedDirects, pair) :
                              \/ c \in DirectsOf(directs, pair)
                              \/ \E g \in Handler : /\ PairOf(g)' = pair /\ req'[g].conv = c
                                                    /\ req'[g].step = "directStored"
                        /\ \A g \in Handler : PairOf(g)' = pair /\ req'[g].step \in Opening =>
                              DirectsOf(directs, pair) = {}
        BY <1>14 DEF OneDirect
    <2>1. pair \in Pair \ raced
        BY <1>7
    <2>2. pair = p /\ q.step \in Opening => DirectsOf(directs, pair) = {}
        BY <1>3 DEF p
    <2>3. \A g \in Handler : PairOf(g)' = pair /\ req'[g].step \in Opening =>
             DirectsOf(directs, pair) = {}
        BY <1>1, <1>4, <1>5, <2>1, <2>2 DEF ContactsInv, OneDirect
    <2>. QED  BY <1>1, <1>4, <2>1, <2>3 DEF ContactsInv, OneDirect
<1>. QED
    BY <1>1, <1>7, <1>8, <1>9, <1>10, <1>11, <1>12, <1>13, <1>15, <1>16 DEF StoredInv, PairsInv
\* The request r with the step and the conversation of createDirectConversation.
LEMMA BeginDirectKeeps ==
    ASSUME ContactsInv, NEW h \in Handler, NEW r \in Request,
           req[h].step = "idle",
           BeginDirect(h, r),
           UNCHANGED <<memory, tables, confirmed>>,
           Meet({r.by, r.with}),
           r.by \in User, r.with \in User, r.by # r.with,
           r.inv # None =>
              /\ r.inv \in PendingBetween(invitations, {r.by, r.with})
              /\ invitations[r.inv].from = r.with /\ invitations[r.inv].to = r.by
              /\ r.verdict = "accepted"
    PROVE  /\ StoredInv' /\ PairsInv'
           /\ req' \in [Handler -> Request] /\ raced' \subseteq Pair
           /\ req'[h].step \notin Answering
           /\ \A g \in Handler : g # h => req'[g] = req[g]
<1> DEFINE existing == DirectsOf(directs, {r.by, r.with})
<1>1. PICK q :
         /\ req' = [req EXCEPT ![h] = q]
         /\ \/ \E c \in existing : q = [r EXCEPT !.step = "restoreDirect", !.conv = c]
            \/ /\ existing = {}
               /\ \E c \in Conversation :
                     NewConversation(c) /\ q = [r EXCEPT !.step = "insertDirect", !.conv = c]
    BY DEF BeginDirect
<1> HIDE DEF existing
<1>2. existing \subseteq Conversation
    BY DEF existing, DirectsOf
<1>3. /\ q \in Request
      /\ q.by = r.by /\ q.with = r.with /\ q.inv = r.inv /\ q.verdict = r.verdict
      /\ \/ q.step = "insertDirect" /\ q.conv \in Conversation /\ NewConversation(q.conv)
               /\ existing = {}
         \/ q.step = "restoreDirect" /\ q.conv \in existing
    <2>1. CASE \E c \in existing : q = [r EXCEPT !.step = "restoreDirect", !.conv = c]
        <3>1. PICK c \in existing : q = [r EXCEPT !.step = "restoreDirect", !.conv = c]
            BY <2>1
        <3>2. c \in Conversation
            BY <1>2
        <3>. QED  BY <3>1, <3>2 DEF Request, Step
    <2>2. CASE /\ existing = {}
               /\ \E c \in Conversation :
                     NewConversation(c) /\ q = [r EXCEPT !.step = "insertDirect", !.conv = c]
        <3>1. PICK c \in Conversation :
                 NewConversation(c) /\ q = [r EXCEPT !.step = "insertDirect", !.conv = c]
            BY <2>2
        <3>2. q.conv = c /\ q \in Request /\ q.step = "insertDirect"
              /\ q.by = r.by /\ q.with = r.with /\ q.inv = r.inv /\ q.verdict = r.verdict
            BY <3>1 DEF Request, Step
        <3>. QED  BY <2>2, <3>1, <3>2
    <2>. QED  BY <1>1, <2>1, <2>2
<1>4. Meet({q.by, q.with})
    BY <1>3
<1>5. StoredInv' /\ PairsInv' /\ req' \in [Handler -> Request] /\ raced' \subseteq Pair
    BY <1>1, <1>3, <1>4, BeginKeeps DEF existing
<1>6. req'[h] = q /\ \A g \in Handler : g # h => req'[g] = req[g]
    BY <1>1, <1>3, RequestReplaced DEF ContactsInv
<1>. QED  BY <1>3, <1>5, <1>6 DEF Answering

\* A request that is not an answer begins: no list changes.
LEMMA LatestStaysAtBegin ==
    ASSUME ContactsInv, NEW h \in Handler,
           req[h].step = "idle", req'[h].step \notin Answering,
           \A g \in Handler : g # h => req'[g] = req[g],
           UNCHANGED <<memory, asked, answers, notices, missed>>,
           \A u \in Watcher : page'[u].list = page[u].list
    PROVE  LatestIsCurrent'
<1>1. \A u : Received(u)' = Received(u)
    BY DEF Received, memory
<1>2. \A u \in Watcher, g \in Handler :
         req[g].step \in Answering /\ req[g].by = u =>
            req'[g].step \in Answering /\ req'[g].by = u
    BY DEF Answering
<1>. QED  BY <1>1, <1>2, LatestStays

LEMMA InviteKeepsInv ==
    ASSUME ContactsInv, NEW h \in Handler, NEW u \in User, NEW v \in User, Invite(h, u, v)
    PROVE  ContactsInv'
<1> USE ContactConstants
<1>1. PICK i \in Invitation :
         /\ NewInvitation(i)
         /\ req' = [req EXCEPT ![h] = [Idle EXCEPT !.step = "insertInvitation",
                                         !.by = u, !.with = v, !.inv = i]]
    BY DEF Invite, BeginInvite
<1> DEFINE q == [Idle EXCEPT !.step = "insertInvitation", !.by = u, !.with = v, !.inv = i]
<1>2. /\ req[h].step = "idle" /\ u # v
      /\ PendingBetween(invitations, {u, v}) = {}
      /\ Meet({u, v})
      /\ UNCHANGED <<memory, tables, pages, notices, missed, confirmed>>
    BY DEF Invite, BeginInvite, HasPending
<1>3. /\ q \in Request /\ q.step = "insertInvitation" /\ q.by = u /\ q.with = v
      /\ q.inv = i /\ q.verdict = None
    BY DEF Request, Idle, Step
<1>4. req' = [req EXCEPT ![h] = q]
    BY <1>1
<1> HIDE DEF q
<1>5. Meet({q.by, q.with}) /\ PendingBetween(invitations, {q.by, q.with}) = {}
    BY <1>2, <1>3
<1>6. StoredInv' /\ PairsInv' /\ req' \in [Handler -> Request] /\ raced' \subseteq Pair
    BY <1>1, <1>2, <1>3, <1>4, <1>5, BeginKeeps
<1>7. req'[h] = q /\ \A g \in Handler : g # h => req'[g] = req[g]
    BY <1>3, <1>4, RequestReplaced DEF ContactsInv
<1>8. LatestIsCurrent'
    BY <1>2, <1>3, <1>7, LatestStaysAtBegin DEF pages, Answering
<1>9. TypeOK'
    BY <1>2, <1>6 DEF ContactsInv, TypeOK, memory, tables, pages
<1>. QED  BY <1>6, <1>8, <1>9 DEF StoredInv, PairsInv, ContactsInv

LEMMA OpenDirectKeepsInv ==
    ASSUME ContactsInv, NEW h \in Handler, NEW u \in User, NEW v \in User, OpenDirect(h, u, v)
    PROVE  ContactsInv'
<1> USE ContactConstants
<1> DEFINE r == [Idle EXCEPT !.by = u, !.with = v]
<1>1. /\ r \in Request /\ r.by = u /\ r.with = v /\ r.inv = None
    BY DEF Request, Idle, Step
<1>2. /\ req[h].step = "idle" /\ u # v
      /\ BeginDirect(h, r)
      /\ Meet({u, v})
      /\ UNCHANGED <<memory, tables, pages, notices, missed, confirmed>>
    BY DEF OpenDirect
<1> HIDE DEF r
<1>3. Meet({r.by, r.with})
    BY <1>1, <1>2
<1>4. /\ StoredInv' /\ PairsInv'
      /\ req' \in [Handler -> Request] /\ raced' \subseteq Pair
      /\ req'[h].step \notin Answering
      /\ \A g \in Handler : g # h => req'[g] = req[g]
    BY <1>1, <1>2, <1>3, BeginDirectKeeps
<1>5. LatestIsCurrent'
    BY <1>2, <1>4, LatestStaysAtBegin DEF pages
<1>6. TypeOK'
    BY <1>2, <1>4 DEF ContactsInv, TypeOK, memory, tables, pages
<1>. QED  BY <1>4, <1>5, <1>6 DEF StoredInv, PairsInv, ContactsInv

\* A pending invitation is one of its two users, who are distinct.
LEMMA AnswerableIsPending ==
    ASSUME ContactsInv, NEW u \in Watcher, NEW i \in Invitation, MayAnswer(u, i)
    PROVE  /\ u \in User /\ invitations[i].from \in User /\ u # invitations[i].from
           /\ invitations[i] \in InvitationRecord
           /\ invitations[i].status = "pending" /\ invitations[i].to = u
           /\ i \in PendingBetween(invitations, {u, invitations[i].from})
<1>1. invitations[i] \in InvitationRecord /\ u \in User
    BY ContactConstants DEF MayAnswer, ContactsInv, TypeOK
<1>2. invitations[i].from # invitations[i].to
    BY DEF MayAnswer, ContactsInv, InvitationsAreStored
<1>. QED  BY <1>1, <1>2 DEF MayAnswer, PendingBetween, InvitationRecord

LEMMA AcceptKeepsInv ==
    ASSUME ContactsInv, NEW h \in Handler, NEW u \in Watcher, NEW i \in Invitation,
           Accept(h, u, i)
    PROVE  ContactsInv'
<1> USE ContactConstants
<1> DEFINE v == invitations[i].from
           r == [Idle EXCEPT !.by = u, !.with = v, !.inv = i, !.verdict = "accepted"]
<1>1. /\ req[h].step = "idle" /\ Click(u, i) /\ MayAnswer(u, i)
      /\ BeginDirect(h, r)
      /\ Meet({u, v})
      /\ UNCHANGED <<memory, tables, asked, answers, notices, missed, confirmed>>
    BY DEF Accept
<1>2. /\ u \in User /\ v \in User /\ u # v
      /\ i \in PendingBetween(invitations, {u, v})
      /\ invitations[i].to = u
    BY <1>1, AnswerableIsPending
<1>3. /\ r \in Request /\ r.by = u /\ r.with = v /\ r.inv = i /\ r.verdict = "accepted"
    BY <1>2 DEF Request, Idle, Step, Verdict
<1>4. invitations[i].from = v
    OBVIOUS
<1> HIDE DEF r, v
<1>5. Meet({r.by, r.with}) /\ r.inv \in PendingBetween(invitations, {r.by, r.with})
    BY <1>1, <1>2, <1>3
<1>6. /\ StoredInv' /\ PairsInv'
      /\ req' \in [Handler -> Request] /\ raced' \subseteq Pair
      /\ req'[h].step \notin Answering
      /\ \A g \in Handler : g # h => req'[g] = req[g]
    BY <1>1, <1>2, <1>3, <1>4, <1>5, BeginDirectKeeps
<1>7. /\ page' \in [User -> [list : SUBSET Invitation, processing : Invitation \union {None}]]
      /\ \A w \in Watcher : page'[w].list = page[w].list
    BY <1>1, ClickKeepsLists DEF ContactsInv
<1>8. LatestIsCurrent'
    BY <1>1, <1>6, <1>7, LatestStaysAtBegin
<1>9. TypeOK'
    BY <1>1, <1>6, <1>7 DEF ContactsInv, TypeOK, memory, tables
<1>. QED  BY <1>6, <1>8, <1>9 DEF StoredInv, PairsInv, ContactsInv
\* Conversations stay; an invitation that becomes accepted has its own.
LEMMA ContactsAreKept ==
    ASSUME AcceptedAreContacts,
           \A c \in Conversation :
              /\ directs[c] # {} => directs'[c] = directs[c]
              /\ storedDirects[c] # {} => storedDirects'[c] = storedDirects[c],
           \A i \in Invitation :
              invitations'[i] # None /\ invitations'[i].status = "accepted" =>
                 \/ invitations'[i] = invitations[i]
                 \/ \E c \in Conversation :
                       directs'[c] = {invitations'[i].from, invitations'[i].to},
           \A i \in Invitation :
              storedInvitations'[i] # None /\ storedInvitations'[i].status = "accepted" =>
                 \/ storedInvitations'[i] = storedInvitations[i]
                 \/ \E c \in Conversation :
                       storedDirects'[c] = {storedInvitations'[i].from, storedInvitations'[i].to}
    PROVE  AcceptedAreContacts'
<1>1. \A i \in Invitation : invitations[i] # None /\ invitations[i].status = "accepted" =>
         \E c \in Conversation : directs[c] = {invitations[i].from, invitations[i].to}
    BY DEF AcceptedAreContacts, DirectsOf
<1>2. \A i \in Invitation :
         storedInvitations[i] # None /\ storedInvitations[i].status = "accepted" =>
         \E c \in Conversation :
            storedDirects[c] = {storedInvitations[i].from, storedInvitations[i].to}
    BY DEF AcceptedAreContacts, DirectsOf
<1>3. \A i \in Invitation : invitations'[i] # None /\ invitations'[i].status = "accepted" =>
         \E c \in Conversation : directs'[c] = {invitations'[i].from, invitations'[i].to}
    <2> SUFFICES ASSUME NEW i \in Invitation, invitations'[i] = invitations[i],
                        invitations[i] # None, invitations[i].status = "accepted"
                 PROVE  \E c \in Conversation :
                           directs'[c] = {invitations[i].from, invitations[i].to}
        OBVIOUS
    <2>1. PICK c \in Conversation : directs[c] = {invitations[i].from, invitations[i].to}
        BY <1>1
    <2>2. directs[c] # {}
        BY <2>1
    <2>. QED  BY <2>1, <2>2
<1>4. \A i \in Invitation :
         storedInvitations'[i] # None /\ storedInvitations'[i].status = "accepted" =>
         \E c \in Conversation :
            storedDirects'[c] = {storedInvitations'[i].from, storedInvitations'[i].to}
    <2> SUFFICES ASSUME NEW i \in Invitation, storedInvitations'[i] = storedInvitations[i],
                        storedInvitations[i] # None, storedInvitations[i].status = "accepted"
                 PROVE  \E c \in Conversation :
                           storedDirects'[c] =
                              {storedInvitations[i].from, storedInvitations[i].to}
        OBVIOUS
    <2>1. PICK c \in Conversation :
             storedDirects[c] = {storedInvitations[i].from, storedInvitations[i].to}
        BY <1>2
    <2>2. storedDirects[c] # {}
        BY <2>1
    <2>. QED  BY <2>1, <2>2
<1>. QED  BY <1>3, <1>4 DEF AcceptedAreContacts, DirectsOf

LEMMA DeclineKeepsInv ==
    ASSUME ContactsInv, NEW h \in Handler, NEW u \in Watcher, NEW i \in Invitation,
           Decline(h, u, i)
    PROVE  ContactsInv'
<1> USE ContactConstants
<1> DEFINE v == invitations[i].from
           p == {u, v}
           q == [Idle EXCEPT !.step = "updateAnswer", !.by = u, !.with = v,
                             !.inv = i, !.verdict = "declined"]
           rec == [invitations[i] EXCEPT !.status = "declined"]
<1>1. /\ req[h].step = "idle" /\ Click(u, i) /\ MayAnswer(u, i)
      /\ invitations' = [invitations EXCEPT ![i] = rec]
      /\ req' = [req EXCEPT ![h] = q]
      /\ Meet(p)
      /\ UNCHANGED <<directs, storedInvitations, storedDirects, asked, answers, notices,
                     missed, confirmed>>
    BY DEF Decline, tables
<1>2. /\ u \in User /\ v \in User /\ u # v
      /\ invitations[i] \in InvitationRecord /\ invitations[i].status = "pending"
      /\ invitations[i].to = u
      /\ i \in PendingBetween(invitations, p)
    BY <1>1, AnswerableIsPending
<1>3. /\ q \in Request /\ q.step = "updateAnswer" /\ q.by = u /\ q.with = v
      /\ q.inv = i /\ q.verdict = "declined"
    BY <1>2 DEF Request, Idle, Step, Verdict
<1>4. /\ rec \in InvitationRecord /\ rec # None /\ rec.status = "declined"
      /\ rec.from = v /\ rec.to = u
    BY <1>2, NoneIsNoRecord DEF InvitationRecord, Verdict
<1>5. invitations[i].from = v
    OBVIOUS
<1> HIDE DEF q, rec, v
<1>6. /\ TypeOK
      /\ req' \in [Handler -> Request]
      /\ req'[h] = q /\ \A g \in Handler : g # h => req'[g] = req[g]
    <2>1. TypeOK
        BY DEF ContactsInv
    <2>. QED  BY <1>1, <1>3, <2>1, RequestReplaced
<1>7. /\ invitations'[i] = rec
      /\ \A j \in Invitation : j # i => invitations'[j] = invitations[j]
      /\ invitations' \in [Invitation -> InvitationRecord \union {None}]
    BY <1>1, <1>4, <1>6 DEF TypeOK
<1>8. /\ raced' = IF UnderWay(p) THEN raced \union {p} ELSE raced
      /\ p \in Pair
      /\ raced \subseteq Pair
    BY <1>1, <1>2, <1>6, TwoMakeAPair DEF Meet, TypeOK
<1>9. /\ PairOf(h)' = p
      /\ \A g \in Handler : g # h => PairOf(g)' = PairOf(g)
    BY <1>3, <1>6 DEF PairOf
<1>10. \A g \in Handler : req[g].step \in Busy /\ PairOf(g) = p => p \in raced'
    BY <1>6, <1>8, UnderWayIsBusy
<1>11. raced \subseteq raced' /\ raced' \subseteq Pair
    BY <1>8
<1>12. /\ q.step \in Answering /\ q.step \in Busy /\ q.step \notin Opening \union {"restoreDirect"}
       /\ q.step \notin Inviting /\ req[h].step \notin Busy
       /\ Inviting \subseteq Busy /\ Opening \subseteq Busy /\ Answering \subseteq Busy
    BY <1>1, <1>3 DEF Busy, Inviting, Opening, Answering
<1>13. RequestIsWhole'
    <2> SUFFICES ASSUME NEW g \in Handler
                 PROVE  /\ req'[g].step # "idle" => req'[g].by \in User
                        /\ req'[g].step \in Busy => req'[g].with \in User /\ req'[g].by # req'[g].with
                        /\ req'[g].step \in Inviting => req'[g].inv \in Invitation /\ req'[g].verdict = None
                        /\ req'[g].step \in Opening \union {"restoreDirect"} => req'[g].conv \in Conversation
                        /\ req'[g].step \in Answering => req'[g].inv \in Invitation
                        /\ req'[g].step = "confirmed" => req'[g].inv \in confirmed'
        BY DEF RequestIsWhole
    <2>1. CASE g = h
        BY <1>2, <1>3, <1>6, <1>12, <2>1
    <2>2. CASE g # h
        BY <1>1, <1>6, <2>2 DEF ContactsInv, RequestIsWhole
    <2>. QED  BY <2>1, <2>2
<1>14. InvitationIsNew'
    <2>1. \A g \in Handler : req[g].step \in Inviting => req[g].inv \in Invitation /\ req[g].inv # i
        BY ZenonT(60), <1>2, NoneIsNoRecord DEF ContactsInv, RequestIsWhole, InvitationIsNew
    <2>. QED  BY <1>1, <1>6, <1>7, <1>12, <2>1 DEF ContactsInv, InvitationIsNew
<1>15. DirectIsNew' /\ DirectsAreStored'
    BY <1>1, <1>6, <1>9, <1>12 DEF ContactsInv, DirectIsNew, DirectsAreStored
<1>16. InvitationsAreStored'
    BY <1>1, <1>2, <1>4, <1>5, <1>7, NoneIsNoRecord DEF ContactsInv, InvitationsAreStored
<1>17. AnswerIsFounded'
    <2> SUFFICES ASSUME NEW g \in Handler,
                        req'[g].step \in Busy \ Inviting, req'[g].inv # None
                 PROVE  /\ invitations'[req'[g].inv] # None
                        /\ invitations'[req'[g].inv].from = req'[g].with
                        /\ invitations'[req'[g].inv].to = req'[g].by
                        /\ req'[g].verdict \in Verdict
                        /\ req'[g].step \notin Answering => req'[g].verdict = "accepted"
                        /\ req'[g].step \in Answering =>
                              /\ invitations'[req'[g].inv].status # "pending"
                              /\ req'[g].verdict = "accepted" => DirectsOf(directs, PairOf(g))' # {}
                        /\ req'[g].step = "answerStored" =>
                              storedInvitations'[req'[g].inv].status # "pending"
        BY DEF AnswerIsFounded
    <2>1. CASE g = h
        BY <1>3, <1>4, <1>6, <1>7, <1>12, <2>1 DEF Verdict
    <2>2. CASE g # h
        <3>1. req[g].inv \in Invitation
            BY <1>6, <2>2 DEF TypeOK, Request
        <3>2. DirectsOf(directs, PairOf(g))' = DirectsOf(directs, PairOf(g))
            BY <1>1, <1>9, <2>2 DEF DirectsOf
        <3>. QED  BY <1>1, <1>4, <1>5, <1>2, <1>6, <1>7, <2>2, <3>1, <3>2
                  DEF ContactsInv, AnswerIsFounded
    <2>. QED  BY <2>1, <2>2
<1>18. AcceptedAreContacts'
    <2>1. \A j \in Invitation : invitations'[j] # None /\ invitations'[j].status = "accepted" =>
             invitations'[j] = invitations[j]
        BY <1>4, <1>7
    <2>. QED  BY <1>1, <2>1, ContactsAreKept DEF ContactsInv
<1>19. AnswersAreKept'
    BY <1>1, <1>4, <1>6, <1>7 DEF ContactsInv, AnswersAreKept, TypeOK
<1>20. PairsTakeTurns'
    BY <1>6, <1>9, <1>10, <1>11, <1>12 DEF ContactsInv, PairsTakeTurns
<1>21. \A pair : PendingBetween(invitations, pair)' = PendingBetween(invitations, pair) \ {i}
    BY <1>4, <1>7 DEF PendingBetween
<1>22. \A pair : /\ PendingBetween(storedInvitations, pair)' = PendingBetween(storedInvitations, pair)
                 /\ DirectsOf(directs, pair)' = DirectsOf(directs, pair)
                 /\ DirectsOf(storedDirects, pair)' = DirectsOf(storedDirects, pair)
    BY <1>1 DEF PendingBetween, DirectsOf
<1>23. \A pair : i \in PendingBetween(invitations, pair) => pair = p
    BY <1>2, <1>5 DEF PendingBetween
<1>24. OneInvitation'
    <2> SUFFICES ASSUME NEW pair \in Pair \ raced'
                 PROVE  /\ \A j, k \in PendingBetween(invitations, pair)' : j = k
                        /\ \A j \in PendingBetween(storedInvitations, pair) :
                              \/ j \in PendingBetween(invitations, pair)'
                              \/ \E g \in Handler : /\ PairOf(g)' = pair /\ req'[g].inv = j
                                                    /\ req'[g].step \in {"invitationStored", "updateAnswer"}
                        /\ \A g \in Handler : PairOf(g)' = pair =>
                              /\ req'[g].step \in Inviting \union Answering =>
                                    PendingBetween(invitations, pair)' = {}
                              /\ req'[g].step \in Busy /\ req'[g].inv # None =>
                                    PendingBetween(invitations, pair)' \subseteq {req'[g].inv}
        BY <1>22 DEF OneInvitation
    <2>1. pair \in Pair \ raced
        BY <1>11
    <2>2. \A j, k \in PendingBetween(invitations, pair) : j = k
        BY <2>1 DEF ContactsInv, OneInvitation
    <2>3. \A j \in PendingBetween(storedInvitations, pair) :
             \/ j \in PendingBetween(invitations, pair)'
             \/ \E g \in Handler : /\ PairOf(g)' = pair /\ req'[g].inv = j
                                   /\ req'[g].step \in {"invitationStored", "updateAnswer"}
        <3> SUFFICES ASSUME NEW j \in PendingBetween(storedInvitations, pair),
                            j \notin PendingBetween(invitations, pair)'
                     PROVE  \E g \in Handler : /\ PairOf(g)' = pair /\ req'[g].inv = j
                                               /\ req'[g].step \in {"invitationStored", "updateAnswer"}
            OBVIOUS
        <3>1. CASE j \in PendingBetween(invitations, pair)
            <4>1. j = i /\ pair = p
                BY <1>21, <1>23, <3>1
            <4>. QED  BY <1>3, <1>6, <1>9, <4>1
        <3>2. CASE j \notin PendingBetween(invitations, pair)
            <4>1. PICK g \in Handler : /\ PairOf(g) = pair /\ req[g].inv = j
                                       /\ req[g].step \in {"invitationStored", "updateAnswer"}
                BY <2>1, <3>2 DEF ContactsInv, OneInvitation
            <4>2. g # h
                BY <1>1, <4>1
            <4>. QED  BY <1>6, <1>9, <4>1, <4>2
        <3>. QED  BY <3>1, <3>2
    <2>4. pair = p => PendingBetween(invitations, pair)' = {}
        BY SMTT(30), <1>2, <1>21, <2>2
    <2>5. \A g \in Handler : PairOf(g)' = pair =>
             /\ req'[g].step \in Inviting \union Answering =>
                   PendingBetween(invitations, pair)' = {}
             /\ req'[g].step \in Busy /\ req'[g].inv # None =>
                   PendingBetween(invitations, pair)' \subseteq {req'[g].inv}
        BY <1>6, <1>9, <1>21, <2>1, <2>4 DEF ContactsInv, OneInvitation
    <2>. QED  BY <1>21, <2>2, <2>3, <2>5
<1>25. OneDirect'
    <2> SUFFICES ASSUME NEW pair \in Pair \ raced'
                 PROVE  /\ \A c, d \in DirectsOf(directs, pair) : c = d
                        /\ \A c \in DirectsOf(storedDirects, pair) :
                              \/ c \in DirectsOf(directs, pair)
                              \/ \E g \in Handler : /\ PairOf(g)' = pair /\ req'[g].conv = c
                                                    /\ req'[g].step = "directStored"
                        /\ \A g \in Handler : PairOf(g)' = pair /\ req'[g].step \in Opening =>
                              DirectsOf(directs, pair) = {}
        BY <1>22 DEF OneDirect
    <2>1. pair \in Pair \ raced
        BY <1>11
    <2>. QED  BY <1>1, <1>6, <1>9, <1>12, <2>1 DEF ContactsInv, OneDirect
<1>26. /\ page' \in [User -> [list : SUBSET Invitation, processing : Invitation \union {None}]]
       /\ \A w \in Watcher : page'[w].list = page[w].list
    BY <1>1, <1>6, ClickKeepsLists
<1>27. TypeOK'
    BY <1>1, <1>6, <1>7, <1>11, <1>26 DEF TypeOK
<1>28. \A w : w # u => Received(w)' = Received(w)
    BY <1>2, <1>4, <1>7 DEF Received
<1>29. /\ req'[h].step \in Answering /\ req'[h].by = u
       /\ \A w \in Watcher, g \in Handler :
             req[g].step \in Answering /\ req[g].by = w =>
                req'[g].step \in Answering /\ req'[g].by = w
    BY <1>3, <1>6, <1>12
<1>30. LatestIsCurrent'
    BY <1>1, <1>26, <1>28, <1>29, LatestStays
<1>. QED
    BY <1>13, <1>14, <1>15, <1>16, <1>17, <1>18, <1>19, <1>20, <1>24, <1>25, <1>27, <1>30
    DEF ContactsInv

\* respond refuses: the request only tells the page.
LEMMA RefuseAnswerKeepsInv ==
    ASSUME ContactsInv, NEW h \in Handler, NEW u \in Watcher, NEW i \in Invitation,
           RefuseAnswer(h, u, i)
    PROVE  ContactsInv'
<1> USE ContactConstants
<1> DEFINE q == [Idle EXCEPT !.step = "failed", !.by = u, !.inv = i]
<1>1. /\ req[h].step = "idle" /\ Click(u, i)
      /\ req' = [req EXCEPT ![h] = q]
      /\ UNCHANGED <<memory, tables, asked, answers, notices, missed, raced, confirmed>>
    BY DEF RefuseAnswer
<1>2. q \in Request /\ q.step = "failed" /\ q.by \in User
    BY DEF Request, Idle, Step
<1> HIDE DEF q
<1>3. /\ req' \in [Handler -> Request]
      /\ req'[h] = q /\ \A g \in Handler : g # h => req'[g] = req[g]
    BY <1>1, <1>2, RequestReplaced DEF ContactsInv
<1>4. AnswersAreKept'
    BY <1>1 DEF ContactsInv, AnswersAreKept, memory, tables
<1>5. StoredInv' /\ PairsInv'
    <2>1. \A g \in Handler : req'[g] # req[g] =>
             /\ req'[g].step = "failed" /\ req'[g].by \in User
             /\ req[g].step \notin Busy
        BY <1>1, <1>2, <1>3 DEF Busy, Inviting, Opening, Answering
    <2>. QED  BY <1>1, <1>4, <2>1, QuietStepKeeps
<1>6. /\ page' \in [User -> [list : SUBSET Invitation, processing : Invitation \union {None}]]
      /\ \A w \in Watcher : page'[w].list = page[w].list
    BY <1>1, ClickKeepsLists DEF ContactsInv
<1>7. LatestIsCurrent'
    BY <1>1, <1>2, <1>3, <1>6, LatestStaysAtBegin DEF Answering
<1>8. TypeOK'
    BY <1>1, <1>3, <1>6 DEF ContactsInv, TypeOK, memory, tables
<1>. QED  BY <1>5, <1>7, <1>8 DEF StoredInv, PairsInv, ContactsInv
-----------------------------------------------------------------------------
LEMMA NotifyTells ==
    ASSUME TypeOK, NEW users, Notify(users)
    PROVE  /\ notices' \in [User -> Nat]
           /\ \A u \in Watcher : /\ u \in users => notices'[u] > 0
                                 /\ notices'[u] = notices[u] \/ notices'[u] > 0
<1>1. notices \in [User -> Nat] /\ Watcher \subseteq User
    BY ContactConstants DEF TypeOK
<1>. QED  BY <1>1 DEF Notify

\* Requests that stay busy, over the same pair.
LEMMA TurnsAreKept ==
    ASSUME PairsTakeTurns, raced \subseteq raced',
           \A h \in Handler : req'[h].step \in Busy =>
              req[h].step \in Busy /\ PairOf(h)' = PairOf(h)
    PROVE  PairsTakeTurns'
BY DEF PairsTakeTurns

LEMMA FinishInviteKeepsInv ==
    ASSUME ContactsInv, NEW h \in Handler, FinishInvite(h)
    PROVE  ContactsInv'
<1> USE ContactConstants
<1> DEFINE i == req[h].inv
           p == {req[h].by, req[h].with}
           rec == [from |-> req[h].by, to |-> req[h].with, status |-> "pending"]
<1>1. /\ req[h].step = "invitationStored"
      /\ invitations' = [invitations EXCEPT ![i] = rec]
      /\ req' = [req EXCEPT ![h] = Idle]
      /\ Notify({req[h].with})
      /\ UNCHANGED <<directs, storedInvitations, storedDirects, page, asked, answers,
                     missed, raced, confirmed>>
    BY DEF FinishInvite, tables, pages
<1>2. Idle \in Request /\ Idle.step = "idle"
    BY DEF Request, Idle, Step
<1>3. /\ TypeOK
      /\ req' \in [Handler -> Request]
      /\ req'[h] = Idle /\ \A g \in Handler : g # h => req'[g] = req[g]
    <2>1. TypeOK
        BY DEF ContactsInv
    <2>. QED  BY <1>1, <1>2, <2>1, RequestReplaced
<1>4. /\ req[h].step \in Inviting /\ req[h].step \in Busy /\ req'[h].step \notin Busy
      /\ Inviting \subseteq Busy /\ Opening \subseteq Busy /\ Answering \subseteq Busy
    BY <1>1, <1>2, <1>3 DEF Busy, Inviting, Opening, Answering
<1>5. /\ i \in Invitation /\ req[h].by \in User /\ req[h].with \in User
      /\ req[h].by # req[h].with
    BY <1>1, <1>4 DEF ContactsInv, RequestIsWhole
<1>6. /\ rec \in InvitationRecord /\ rec # None /\ rec.status = "pending"
      /\ rec.from = req[h].by /\ rec.to = req[h].with
    BY <1>5, NoneIsNoRecord DEF InvitationRecord
<1>7. /\ invitations[i] = None /\ storedInvitations[i] = rec
      /\ \A g \in Handler : req[g].step \in Inviting /\ req[g].inv = i => g = h
    BY <1>1, <1>4 DEF ContactsInv, InvitationIsNew
<1> HIDE DEF rec, i
<1>8. /\ invitations'[i] = rec
      /\ \A j \in Invitation : j # i => invitations'[j] = invitations[j]
      /\ invitations' \in [Invitation -> InvitationRecord \union {None}]
    BY <1>1, <1>3, <1>5, <1>6 DEF TypeOK
<1>9. \A g \in Handler : req'[g].step \in Busy =>
         g # h /\ req'[g] = req[g] /\ PairOf(g)' = PairOf(g)
    BY <1>3, <1>4 DEF PairOf
<1>10. PairOf(h) = p /\ p = {rec.from, rec.to}
    BY <1>6 DEF PairOf
<1> HIDE DEF p
<1>11. RequestIsWhole'
    BY <1>1, <1>2, <1>3, <1>4 DEF ContactsInv, RequestIsWhole
<1>12. InvitationIsNew'
    <2>1. \A g \in Handler : req'[g].step \in Inviting =>
             g # h /\ req'[g] = req[g] /\ req[g].inv \in Invitation /\ req[g].inv # i
        BY <1>4, <1>7, <1>9 DEF ContactsInv, RequestIsWhole
    <2>. QED  BY SMTT(30), <1>1, <1>8, <2>1 DEF ContactsInv, InvitationIsNew
<1>13. DirectIsNew' /\ DirectsAreStored'
    <2>1. \A g \in Handler : req'[g].step \in Opening \union {"restoreDirect"} =>
             g # h /\ req'[g] = req[g] /\ PairOf(g)' = PairOf(g)
        BY <1>9 DEF Busy
    <2>2. DirectsAreStored'
        BY <1>1 DEF ContactsInv, DirectsAreStored
    <2>3. DirectIsNew'
        <3> SUFFICES ASSUME NEW g \in Handler
                     PROVE  /\ req'[g].step \in Opening =>
                                 /\ directs[req'[g].conv] = {}
                                 /\ req'[g].step = "insertDirect" => storedDirects[req'[g].conv] = {}
                                 /\ req'[g].step = "directStored" =>
                                       storedDirects[req'[g].conv] = PairOf(g)'
                                 /\ \A k \in Handler :
                                       req'[k].step \in Opening /\ req'[k].conv = req'[g].conv => k = g
                            /\ req'[g].step = "restoreDirect" => directs[req'[g].conv] = PairOf(g)'
            BY <1>1 DEF DirectIsNew
        <3>. QED  BY <2>1 DEF ContactsInv, DirectIsNew
    <2>. QED  BY <2>2, <2>3
<1>14. InvitationsAreStored'
    BY <1>1, <1>6, <1>7, <1>8 DEF ContactsInv, InvitationsAreStored
<1>15. AnswerIsFounded'
    <2>1. \A pair : DirectsOf(directs, pair)' = DirectsOf(directs, pair)
        BY <1>1 DEF DirectsOf
    <2>2. ASSUME NEW g \in Handler, req'[g].step \in Busy \ Inviting, req'[g].inv # None
          PROVE  /\ req'[g] = req[g] /\ PairOf(g)' = PairOf(g)
                 /\ invitations'[req[g].inv] = invitations[req[g].inv]
        <3>1. g # h /\ req'[g] = req[g] /\ PairOf(g)' = PairOf(g)
            BY <1>9, <2>2
        <3>2. invitations[req[g].inv] # None
            BY <2>2, <3>1 DEF ContactsInv, AnswerIsFounded
        <3>3. req[g].inv \in Invitation
            BY <1>3, <2>2, <3>1 DEF TypeOK, Request
        <3>. QED  BY <1>7, <1>8, <3>1, <3>2, <3>3
    <2>. QED  BY <1>1, <2>1, <2>2 DEF ContactsInv, AnswerIsFounded
<1>16. AcceptedAreContacts'
    <2>1. \A j \in Invitation : invitations'[j] # None /\ invitations'[j].status = "accepted" =>
             invitations'[j] = invitations[j]
        BY <1>6, <1>8
    <2>. QED  BY <1>1, <2>1, ContactsAreKept DEF ContactsInv
<1>17. AnswersAreKept'
    <2>1. i \notin confirmed
        BY <1>7 DEF ContactsInv, AnswersAreKept
    <2>. QED  BY <1>1, <1>3, <1>8, <2>1 DEF ContactsInv, AnswersAreKept, TypeOK
<1>18. PairsTakeTurns'
    BY <1>1, <1>9, TurnsAreKept DEF ContactsInv
<1>19. \A pair :
          /\ pair = p => PendingBetween(invitations, pair)' =
                            PendingBetween(invitations, pair) \union {i}
          /\ pair # p => PendingBetween(invitations, pair)' = PendingBetween(invitations, pair)
    <2> SUFFICES ASSUME NEW pair
                 PROVE  /\ pair = p => PendingBetween(invitations, pair)' =
                                          PendingBetween(invitations, pair) \union {i}
                        /\ pair # p => PendingBetween(invitations, pair)' =
                                          PendingBetween(invitations, pair)
        OBVIOUS
    <2>1. \A j \in Invitation : j # i =>
             (j \in PendingBetween(invitations, pair)' <=> j \in PendingBetween(invitations, pair))
        BY <1>8 DEF PendingBetween
    <2>2. i \in PendingBetween(invitations, pair)' <=> pair = p
        BY <1>5, <1>6, <1>8, <1>10 DEF PendingBetween
    <2>3. i \notin PendingBetween(invitations, pair)
        BY <1>7 DEF PendingBetween
    <2>4. /\ PendingBetween(invitations, pair)' \subseteq Invitation
          /\ PendingBetween(invitations, pair) \subseteq Invitation
        BY DEF PendingBetween
    <2>. QED  BY <1>5, <2>1, <2>2, <2>3, <2>4
<1>20. \A pair : /\ PendingBetween(storedInvitations, pair)' = PendingBetween(storedInvitations, pair)
                 /\ DirectsOf(directs, pair)' = DirectsOf(directs, pair)
                 /\ DirectsOf(storedDirects, pair)' = DirectsOf(storedDirects, pair)
    BY <1>1 DEF PendingBetween, DirectsOf
<1>21. OneInvitation'
    <2> SUFFICES ASSUME NEW pair \in Pair \ raced
                 PROVE  /\ \A j, k \in PendingBetween(invitations, pair)' : j = k
                        /\ \A j \in PendingBetween(storedInvitations, pair) :
                              \/ j \in PendingBetween(invitations, pair)'
                              \/ \E g \in Handler : /\ PairOf(g)' = pair /\ req'[g].inv = j
                                                    /\ req'[g].step \in {"invitationStored", "updateAnswer"}
                        /\ \A g \in Handler : PairOf(g)' = pair =>
                              /\ req'[g].step \in Inviting \union Answering =>
                                    PendingBetween(invitations, pair)' = {}
                              /\ req'[g].step \in Busy /\ req'[g].inv # None =>
                                    PendingBetween(invitations, pair)' \subseteq {req'[g].inv}
        BY <1>1, <1>20 DEF OneInvitation
    <2>1. /\ \A j, k \in PendingBetween(invitations, pair) : j = k
          /\ \A j \in PendingBetween(storedInvitations, pair) :
                \/ j \in PendingBetween(invitations, pair)
                \/ \E g \in Handler : /\ PairOf(g) = pair /\ req[g].inv = j
                                      /\ req[g].step \in {"invitationStored", "updateAnswer"}
          /\ \A g \in Handler : PairOf(g) = pair =>
                /\ req[g].step \in Inviting \union Answering => PendingBetween(invitations, pair) = {}
                /\ req[g].step \in Busy /\ req[g].inv # None =>
                      PendingBetween(invitations, pair) \subseteq {req[g].inv}
        BY DEF ContactsInv, OneInvitation
    <2>2. {"invitationStored", "updateAnswer"} \subseteq Busy
        BY DEF Busy, Inviting, Answering
    <2>3. CASE pair = p
        <3>1. PendingBetween(invitations, pair)' = {i}
            BY <1>4, <1>10, <1>19, <2>1, <2>3
        <3>2. \A g \in Handler : PairOf(g) = pair /\ req[g].step \in Busy => g = h
            BY <1>4, <1>10, <2>3 DEF ContactsInv, PairsTakeTurns
        <3>3. \A g \in Handler : PairOf(g)' = pair => req'[g].step \notin Busy
            BY <1>9, <3>2
        <3>4. \A j \in PendingBetween(storedInvitations, pair) : j = i
            <4>1. PendingBetween(invitations, pair) = {}
                BY <1>4, <1>10, <2>1, <2>3
            <4>2. \A g \in Handler : req[g].step \in {"invitationStored", "updateAnswer"} =>
                     req[g].step \in Busy
                BY <2>2
            <4>. QED  BY <2>1, <3>2, <4>1, <4>2 DEF i
        <3>. QED  BY <1>4, <3>1, <3>3, <3>4
    <2>4. CASE pair # p
        <3>1. PendingBetween(invitations, pair)' = PendingBetween(invitations, pair)
            BY <1>19, <2>4
        <3>2. \A g \in Handler : PairOf(g) = pair /\ req[g].step \in Busy =>
                 req'[g] = req[g] /\ PairOf(g)' = pair
            BY <1>3, <1>10, <2>4 DEF PairOf
        <3>3. \A j \in PendingBetween(storedInvitations, pair) :
                 \/ j \in PendingBetween(invitations, pair)
                 \/ \E g \in Handler : /\ PairOf(g)' = pair /\ req'[g].inv = j
                                       /\ req'[g].step \in {"invitationStored", "updateAnswer"}
            BY <2>1, <2>2, <3>2
        <3>. QED  BY <1>4, <1>9, <2>1, <3>1, <3>3
    <2>. QED  BY <2>3, <2>4
<1>22. OneDirect'
    <2> SUFFICES ASSUME NEW pair \in Pair \ raced
                 PROVE  /\ \A c, d \in DirectsOf(directs, pair) : c = d
                        /\ \A c \in DirectsOf(storedDirects, pair) :
                              \/ c \in DirectsOf(directs, pair)
                              \/ \E g \in Handler : /\ PairOf(g)' = pair /\ req'[g].conv = c
                                                    /\ req'[g].step = "directStored"
                        /\ \A g \in Handler : PairOf(g)' = pair /\ req'[g].step \in Opening =>
                              DirectsOf(directs, pair) = {}
        BY <1>1, <1>20 DEF OneDirect
    <2>1. \A g \in Handler : req[g].step = "directStored" =>
             req'[g] = req[g] /\ PairOf(g)' = PairOf(g)
        BY <1>1, <1>3 DEF PairOf
    <2>. QED  BY <1>4, <1>9, <2>1 DEF ContactsInv, OneDirect
<1>23. /\ notices' \in [User -> Nat]
       /\ \A u \in Watcher : /\ u \in {req[h].with} => notices'[u] > 0
                             /\ notices'[u] = notices[u] \/ notices'[u] > 0
    BY <1>1, <1>3, NotifyTells
<1>24. TypeOK'
    BY <1>1, <1>3, <1>8, <1>23 DEF TypeOK
<1>25. \A u : u # req[h].with => Received(u)' = Received(u)
    BY <1>6, <1>7, <1>8 DEF Received
<1>26. \A u \in Watcher, g \in Handler :
          req[g].step \in Answering /\ req[g].by = u =>
             req'[g].step \in Answering /\ req'[g].by = u
    BY <1>1, <1>3 DEF Answering
<1>27. LatestIsCurrent'
    BY <1>1, <1>23, <1>25, <1>26, LatestStays
<1>. QED
    BY <1>11, <1>12, <1>13, <1>14, <1>15, <1>16, <1>17, <1>18, <1>21, <1>22, <1>24, <1>27
    DEF ContactsInv
\* createDirectConversation returns: the conversation is in memory now, or
\* was before.
LEMMA AfterDirectKeeps ==
    ASSUME ContactsInv, NEW h \in Handler,
           req[h].step \in {"restoreDirect", "directStored"},
           AfterDirect(h),
           directs' = [directs EXCEPT ![req[h].conv] = {req[h].by, req[h].with}],
           UNCHANGED <<tables, pages, notices, missed, raced, confirmed>>
    PROVE  ContactsInv'
<1> USE ContactConstants
<1> DEFINE i == req[h].inv
           c0 == req[h].conv
           p == {req[h].by, req[h].with}
           rec == [invitations[i] EXCEPT !.status = "accepted"]
<1>1. /\ UNCHANGED <<storedInvitations, storedDirects, page, asked, answers, notices,
                     missed, raced, confirmed>>
      /\ directs' = [directs EXCEPT ![c0] = p]
      /\ \/ /\ i = None /\ invitations' = invitations
            /\ req' = [req EXCEPT ![h] = Idle]
         \/ /\ i # None /\ invitations' = [invitations EXCEPT ![i] = rec]
            /\ req' = [req EXCEPT ![h].step = "updateAnswer"]
    BY DEF AfterDirect, tables, pages
<1>2. Idle \in Request /\ Idle.step = "idle" /\ "updateAnswer" \in Step
    BY DEF Request, Idle, Step
<1>3. /\ TypeOK /\ req[h] \in Request /\ i \in Invitation \union {None}
    BY DEF ContactsInv, TypeOK, Request
<1>4. /\ req' \in [Handler -> Request]
      /\ \A g \in Handler : g # h => req'[g] = req[g]
      /\ i = None => req'[h] = Idle
      /\ i # None => /\ req'[h].step = "updateAnswer" /\ req'[h].by = req[h].by
                     /\ req'[h].with = req[h].with /\ req'[h].inv = i
                     /\ req'[h].verdict = req[h].verdict
    <2>1. CASE i = None
        BY <1>1, <1>2, <1>3, <2>1, RequestReplaced
    <2>2. CASE i # None
        BY <1>1, <1>2, <1>3, <2>2, RequestMoved
    <2>. QED  BY <2>1, <2>2
<1>5. /\ req[h].step \in Busy \ Inviting /\ req[h].step \notin Answering
      /\ req[h].step \in Opening \union {"restoreDirect"}
      /\ req'[h].step \in {"idle", "updateAnswer"}
      /\ req'[h].step \notin Inviting \union Opening \union {"restoreDirect"}
      /\ "updateAnswer" \in Answering /\ "idle" \notin Busy
      /\ Inviting \subseteq Busy /\ Opening \subseteq Busy /\ Answering \subseteq Busy
    BY <1>2, <1>4 DEF Busy, Inviting, Opening, Answering
<1>6. /\ c0 \in Conversation /\ req[h].by \in User /\ req[h].with \in User
      /\ req[h].by # req[h].with
    BY <1>5 DEF ContactsInv, RequestIsWhole
<1>7. p \in Pair /\ p # {} /\ PairOf(h) = p
    BY <1>6, TwoMakeAPair DEF PairOf
<1>8. i # None => /\ i \in Invitation /\ invitations[i] # None
                  /\ invitations[i] \in InvitationRecord
                  /\ invitations[i].from = req[h].with /\ invitations[i].to = req[h].by
                  /\ req[h].verdict = "accepted"
    BY <1>3, <1>5 DEF ContactsInv, AnswerIsFounded, TypeOK
<1>9. i # None => /\ rec \in InvitationRecord /\ rec # None /\ rec.status = "accepted"
                  /\ rec.from = req[h].with /\ rec.to = req[h].by
    BY <1>8, NoneIsNoRecord DEF InvitationRecord, Verdict
<1>10. /\ req[h].step = "directStored" => directs[c0] = {} /\ storedDirects[c0] = p
       /\ req[h].step = "restoreDirect" => directs[c0] = p
    BY <1>5, <1>7 DEF ContactsInv, DirectIsNew, Opening
<1>11. storedDirects[c0] = p
    BY <1>6, <1>7, <1>10 DEF ContactsInv, DirectsAreStored
<1> HIDE DEF rec, i, c0, p
<1>12. /\ directs'[c0] = p
       /\ \A c \in Conversation : c # c0 => directs'[c] = directs[c]
       /\ directs' \in [Conversation -> Pair \union {{}}]
    <2>1. directs' = [directs EXCEPT ![c0] = p] /\ directs \in [Conversation -> Pair \union {{}}]
        BY <1>1, <1>3 DEF TypeOK
    <2>. QED  BY <1>6, <1>7, <2>1
<1>13. \A c \in Conversation : directs[c] # {} => directs'[c] = directs[c]
    BY <1>10, <1>12
<1>14. /\ i # None => invitations'[i] = rec
       /\ \A j \in Invitation : j # i => invitations'[j] = invitations[j]
       /\ invitations' \in [Invitation -> InvitationRecord \union {None}]
    <2>1. invitations \in [Invitation -> InvitationRecord \union {None}]
        BY <1>3 DEF TypeOK
    <2>2. CASE i = None
        <3>1. invitations' = invitations
            BY <1>1, <2>2
        <3>. QED  BY <2>1, <2>2, <3>1
    <2>3. CASE i # None
        <3>1. invitations' = [invitations EXCEPT ![i] = rec]
            BY <1>1, <2>3
        <3>. QED  BY <1>8, <1>9, <2>1, <2>3, <3>1
    <2>. QED  BY <2>2, <2>3
<1>15. \A j \in Invitation :
          /\ invitations'[j] = None <=> invitations[j] = None
          /\ invitations[j] # None => /\ invitations'[j].from = invitations[j].from
                                      /\ invitations'[j].to = invitations[j].to
          /\ invitations[j] # None /\ invitations[j].status # "pending" =>
                invitations'[j].status # "pending"
    BY <1>3, <1>8, <1>9, <1>14
<1>16. /\ \A g \in Handler : g # h => PairOf(g)' = PairOf(g)
       /\ i # None => PairOf(h)' = p
    BY <1>4, <1>7 DEF PairOf
<1>17. \A g \in Handler :
          /\ req'[g].step \in Inviting \union Opening \union {"restoreDirect"} => g # h
          /\ req'[g].step \in Busy => g # h \/ i # None
    BY <1>2, <1>4, <1>5
<1>18. RequestIsWhole'
    <2> SUFFICES ASSUME NEW g \in Handler
                 PROVE  /\ req'[g].step # "idle" => req'[g].by \in User
                        /\ req'[g].step \in Busy => req'[g].with \in User /\ req'[g].by # req'[g].with
                        /\ req'[g].step \in Inviting => req'[g].inv \in Invitation /\ req'[g].verdict = None
                        /\ req'[g].step \in Opening \union {"restoreDirect"} => req'[g].conv \in Conversation
                        /\ req'[g].step \in Answering => req'[g].inv \in Invitation
                        /\ req'[g].step = "confirmed" => req'[g].inv \in confirmed'
        BY DEF RequestIsWhole
    <2>1. CASE g = h
        BY <1>2, <1>4, <1>5, <1>6, <1>8, <2>1
    <2>2. CASE g # h
        BY <1>1, <1>4, <2>2 DEF ContactsInv, RequestIsWhole
    <2>. QED  BY <2>1, <2>2
<1>19. InvitationIsNew'
    <2>1. \A g \in Handler : req'[g].step \in Inviting =>
             g # h /\ req'[g] = req[g] /\ req[g].inv \in Invitation
        BY <1>4, <1>17 DEF ContactsInv, RequestIsWhole
    <2> SUFFICES ASSUME NEW g \in Handler, req'[g].step \in Inviting
                 PROVE  /\ invitations'[req'[g].inv] = None
                        /\ req'[g].step = "insertInvitation" => storedInvitations[req'[g].inv] = None
                        /\ req'[g].step = "invitationStored" =>
                              storedInvitations[req'[g].inv] =
                                 [from |-> req'[g].by, to |-> req'[g].with, status |-> "pending"]
                        /\ \A k \in Handler :
                              req'[k].step \in Inviting /\ req'[k].inv = req'[g].inv => k = g
        BY <1>1 DEF InvitationIsNew
    <2>2. invitations[req[g].inv] = None
        BY <2>1 DEF ContactsInv, InvitationIsNew
    <2>3. invitations'[req[g].inv] = None
        BY <1>15, <2>1, <2>2
    <2>4. \A k \in Handler : req'[k].step \in Inviting /\ req'[k].inv = req'[g].inv => k = g
        BY <2>1 DEF ContactsInv, InvitationIsNew
    <2>. QED  BY <2>1, <2>3, <2>4 DEF ContactsInv, InvitationIsNew
<1>20. DirectIsNew'
    <2> SUFFICES ASSUME NEW g \in Handler
                 PROVE  /\ req'[g].step \in Opening =>
                             /\ directs'[req'[g].conv] = {}
                             /\ req'[g].step = "insertDirect" => storedDirects[req'[g].conv] = {}
                             /\ req'[g].step = "directStored" =>
                                   storedDirects[req'[g].conv] = PairOf(g)'
                             /\ \A k \in Handler :
                                   req'[k].step \in Opening /\ req'[k].conv = req'[g].conv => k = g
                        /\ req'[g].step = "restoreDirect" => directs'[req'[g].conv] = PairOf(g)'
        BY <1>1 DEF DirectIsNew
    <2>1. \A k \in Handler : req'[k].step \in Opening =>
             /\ k # h /\ req'[k] = req[k] /\ req[k].conv \in Conversation
             /\ directs[req[k].conv] = {}
        BY <1>4, <1>17 DEF ContactsInv, RequestIsWhole, DirectIsNew
    <2>2. ASSUME req'[g].step \in Opening
          PROVE  req[g].conv # c0
        <3>1. CASE req[h].step = "restoreDirect"
            BY <1>7, <1>10, <2>1, <2>2, <3>1
        <3>2. CASE req[h].step = "directStored"
            BY <2>1, <2>2, <3>2 DEF ContactsInv, DirectIsNew, c0, Opening
        <3>. QED  BY <3>1, <3>2
    <2>3. req'[g].step \in Opening =>
             /\ directs'[req'[g].conv] = {}
             /\ req'[g].step = "insertDirect" => storedDirects[req'[g].conv] = {}
             /\ req'[g].step = "directStored" => storedDirects[req'[g].conv] = PairOf(g)'
             /\ \A k \in Handler :
                   req'[k].step \in Opening /\ req'[k].conv = req'[g].conv => k = g
        BY <1>12, <1>16, <2>1, <2>2 DEF ContactsInv, DirectIsNew
    <2>4. req'[g].step = "restoreDirect" => directs'[req'[g].conv] = PairOf(g)'
        <3> SUFFICES ASSUME req'[g].step = "restoreDirect"
                     PROVE  directs'[req'[g].conv] = PairOf(g)'
            OBVIOUS
        <3>1. g # h /\ req'[g] = req[g] /\ PairOf(g)' = PairOf(g) /\ req[g].conv \in Conversation
              /\ directs[req[g].conv] = PairOf(g)
            BY <1>4, <1>16, <1>17 DEF ContactsInv, DirectIsNew, RequestIsWhole
        <3>2. PairOf(g) # {}
            BY DEF PairOf
        <3>. QED  BY <1>13, <3>1, <3>2
    <2>. QED  BY <2>3, <2>4
<1>21. InvitationsAreStored' /\ DirectsAreStored'
    <2>1. InvitationsAreStored'
        BY <1>1, <1>15 DEF ContactsInv, InvitationsAreStored
    <2>2. DirectsAreStored'
        BY <1>1, <1>11, <1>12 DEF ContactsInv, DirectsAreStored
    <2>. QED  BY <2>1, <2>2
<1>22. AnswerIsFounded'
    <2> SUFFICES ASSUME NEW g \in Handler,
                        req'[g].step \in Busy \ Inviting, req'[g].inv # None
                 PROVE  /\ invitations'[req'[g].inv] # None
                        /\ invitations'[req'[g].inv].from = req'[g].with
                        /\ invitations'[req'[g].inv].to = req'[g].by
                        /\ req'[g].verdict \in Verdict
                        /\ req'[g].step \notin Answering => req'[g].verdict = "accepted"
                        /\ req'[g].step \in Answering =>
                              /\ invitations'[req'[g].inv].status # "pending"
                              /\ req'[g].verdict = "accepted" => DirectsOf(directs, PairOf(g))' # {}
                        /\ req'[g].step = "answerStored" =>
                              storedInvitations'[req'[g].inv].status # "pending"
        BY DEF AnswerIsFounded
    <2>1. CASE g = h
        <3>1. i # None /\ PairOf(g)' = p
            BY <1>16, <1>17, <2>1
        <3>2. DirectsOf(directs, PairOf(g))' # {}
            BY <1>6, <1>12, <3>1 DEF DirectsOf
        <3>. QED  BY <1>4, <1>5, <1>8, <1>9, <1>14, <2>1, <3>1, <3>2 DEF Verdict
    <2>2. CASE g # h
        <3>1. /\ req'[g] = req[g] /\ PairOf(g)' = PairOf(g) /\ PairOf(g) # {}
              /\ req[g].inv \in Invitation
            BY <1>3, <1>4, <1>16, <2>2 DEF TypeOK, Request, PairOf
        <3>2. DirectsOf(directs, PairOf(g)) # {} => DirectsOf(directs, PairOf(g))' # {}
            BY <1>13, <3>1 DEF DirectsOf
        <3>3. /\ invitations[req[g].inv] # None
              /\ invitations[req[g].inv].from = req[g].with
              /\ invitations[req[g].inv].to = req[g].by
              /\ req[g].verdict \in Verdict
              /\ req[g].step \notin Answering => req[g].verdict = "accepted"
              /\ req[g].step \in Answering =>
                    /\ invitations[req[g].inv].status # "pending"
                    /\ req[g].verdict = "accepted" => DirectsOf(directs, PairOf(g)) # {}
              /\ req[g].step = "answerStored" =>
                    storedInvitations[req[g].inv].status # "pending"
            BY <3>1 DEF ContactsInv, AnswerIsFounded
        <3>. QED  BY ZenonT(60), <1>1, <1>15, <3>1, <3>2, <3>3
    <2>. QED  BY <2>1, <2>2
<1>23. AcceptedAreContacts'
    <2>1. \A j \in Invitation : j # i => invitations'[j] = invitations[j]
        BY <1>14
    <2>2. i # None => directs'[c0] = {invitations'[i].from, invitations'[i].to}
        BY <1>9, <1>12, <1>14 DEF p
    <2>3. \A j \in Invitation : invitations'[j] # None /\ invitations'[j].status = "accepted" =>
             \/ invitations'[j] = invitations[j]
             \/ \E c \in Conversation :
                   directs'[c] = {invitations'[j].from, invitations'[j].to}
        BY <1>6, <2>1, <2>2
    <2>. QED  BY <1>1, <1>13, <2>3, ContactsAreKept DEF ContactsInv
<1>24. AnswersAreKept'
    BY <1>1, <1>3, <1>15 DEF ContactsInv, AnswersAreKept, TypeOK
<1>25. PairsTakeTurns'
    <2>1. \A g \in Handler : req'[g].step \in Busy =>
             req[g].step \in Busy /\ PairOf(g)' = PairOf(g)
        BY <1>4, <1>5, <1>7, <1>16, <1>17
    <2>. QED  BY <1>1, <2>1, TurnsAreKept DEF ContactsInv
<1>26. \A pair : /\ PendingBetween(invitations, pair)' = PendingBetween(invitations, pair) \ {i}
                 /\ pair # p => i \notin PendingBetween(invitations, pair)
    <2> SUFFICES ASSUME NEW pair
                 PROVE  /\ PendingBetween(invitations, pair)' = PendingBetween(invitations, pair) \ {i}
                        /\ pair # p => i \notin PendingBetween(invitations, pair)
        OBVIOUS
    <2>1. \A j \in Invitation : j # i =>
             (j \in PendingBetween(invitations, pair)' <=> j \in PendingBetween(invitations, pair))
        BY <1>14 DEF PendingBetween
    <2>2. i \notin PendingBetween(invitations, pair)'
        BY <1>9, <1>14 DEF PendingBetween
    <2>3. pair # p => i \notin PendingBetween(invitations, pair)
        BY <1>8 DEF PendingBetween, p
    <2>4. /\ PendingBetween(invitations, pair)' \subseteq Invitation
          /\ PendingBetween(invitations, pair) \subseteq Invitation
        BY DEF PendingBetween
    <2>. QED  BY <2>1, <2>2, <2>3, <2>4
<1>27. \A pair : /\ PendingBetween(storedInvitations, pair)' = PendingBetween(storedInvitations, pair)
                 /\ DirectsOf(storedDirects, pair)' = DirectsOf(storedDirects, pair)
    BY <1>1 DEF PendingBetween, DirectsOf
<1>28. \A pair \in Pair \ raced : pair = p =>
          \A g \in Handler : PairOf(g) = pair /\ req[g].step \in Busy => g = h
    BY <1>5, <1>7 DEF ContactsInv, PairsTakeTurns
<1>29. OneInvitation'
    <2> SUFFICES ASSUME NEW pair \in Pair \ raced
                 PROVE  /\ \A j, k \in PendingBetween(invitations, pair)' : j = k
                        /\ \A j \in PendingBetween(storedInvitations, pair) :
                              \/ j \in PendingBetween(invitations, pair)'
                              \/ \E g \in Handler : /\ PairOf(g)' = pair /\ req'[g].inv = j
                                                    /\ req'[g].step \in {"invitationStored", "updateAnswer"}
                        /\ \A g \in Handler : PairOf(g)' = pair =>
                              /\ req'[g].step \in Inviting \union Answering =>
                                    PendingBetween(invitations, pair)' = {}
                              /\ req'[g].step \in Busy /\ req'[g].inv # None =>
                                    PendingBetween(invitations, pair)' \subseteq {req'[g].inv}
        BY <1>1, <1>27 DEF OneInvitation
    <2>1. /\ \A j, k \in PendingBetween(invitations, pair) : j = k
          /\ \A j \in PendingBetween(storedInvitations, pair) :
                \/ j \in PendingBetween(invitations, pair)
                \/ \E g \in Handler : /\ PairOf(g) = pair /\ req[g].inv = j
                                      /\ req[g].step \in {"invitationStored", "updateAnswer"}
          /\ \A g \in Handler : PairOf(g) = pair =>
                /\ req[g].step \in Inviting \union Answering => PendingBetween(invitations, pair) = {}
                /\ req[g].step \in Busy /\ req[g].inv # None =>
                      PendingBetween(invitations, pair) \subseteq {req[g].inv}
        BY DEF ContactsInv, OneInvitation
    <2>2. \A j \in PendingBetween(storedInvitations, pair) :
             \/ j \in PendingBetween(invitations, pair)'
             \/ \E g \in Handler : /\ PairOf(g)' = pair /\ req'[g].inv = j
                                   /\ req'[g].step \in {"invitationStored", "updateAnswer"}
        <3> SUFFICES ASSUME NEW j \in PendingBetween(storedInvitations, pair),
                            j \notin PendingBetween(invitations, pair)'
                     PROVE  \E g \in Handler : /\ PairOf(g)' = pair /\ req'[g].inv = j
                                               /\ req'[g].step \in {"invitationStored", "updateAnswer"}
            OBVIOUS
        <3>1. CASE j \in PendingBetween(invitations, pair)
            <4>1. j = i /\ pair = p
                BY <1>26, <3>1
            <4>2. i # None
                BY <3>1, <4>1 DEF PendingBetween
            <4>. QED  BY <1>4, <1>16, <4>1, <4>2
        <3>2. CASE j \notin PendingBetween(invitations, pair)
            <4>1. PICK g \in Handler : /\ PairOf(g) = pair /\ req[g].inv = j
                                       /\ req[g].step \in {"invitationStored", "updateAnswer"}
                BY <2>1, <3>2
            <4>2. g # h
                BY <4>1
            <4>. QED  BY <1>4, <1>16, <4>1, <4>2
        <3>. QED  BY <3>1, <3>2
    <2>3. ASSUME i # None, pair = p
          PROVE  PendingBetween(invitations, pair)' = {}
        BY <1>5, <1>7, <1>26, <2>1, <2>3 DEF i
    <2>4. ASSUME NEW g \in Handler, PairOf(g)' = pair
          PROVE  /\ req'[g].step \in Inviting \union Answering =>
                       PendingBetween(invitations, pair)' = {}
                 /\ req'[g].step \in Busy /\ req'[g].inv # None =>
                       PendingBetween(invitations, pair)' \subseteq {req'[g].inv}
        <3>1. CASE g = h
            BY <1>5, <1>16, <1>17, <2>3, <2>4, <3>1
        <3>2. CASE g # h
            BY <1>4, <1>16, <1>26, <2>1, <2>4, <3>2
        <3>. QED  BY <3>1, <3>2
    <2>. QED  BY <1>26, <2>1, <2>2, <2>4
<1>30. OneDirect'
    <2> SUFFICES ASSUME NEW pair \in Pair \ raced
                 PROVE  /\ \A c, d \in DirectsOf(directs, pair)' : c = d
                        /\ \A c \in DirectsOf(storedDirects, pair) :
                              \/ c \in DirectsOf(directs, pair)'
                              \/ \E g \in Handler : /\ PairOf(g)' = pair /\ req'[g].conv = c
                                                    /\ req'[g].step = "directStored"
                        /\ \A g \in Handler : PairOf(g)' = pair /\ req'[g].step \in Opening =>
                              DirectsOf(directs, pair)' = {}
        BY <1>1, <1>27 DEF OneDirect
    <2>1. /\ \A c, d \in DirectsOf(directs, pair) : c = d
          /\ \A c \in DirectsOf(storedDirects, pair) :
                \/ c \in DirectsOf(directs, pair)
                \/ \E g \in Handler : /\ PairOf(g) = pair /\ req[g].conv = c
                                      /\ req[g].step = "directStored"
          /\ \A g \in Handler : PairOf(g) = pair /\ req[g].step \in Opening =>
                DirectsOf(directs, pair) = {}
        BY DEF ContactsInv, OneDirect
    <2>2. pair # {}
        BY DEF Pair
    <2>3. /\ \A c \in Conversation : c # c0 =>
                (c \in DirectsOf(directs, pair)' <=> c \in DirectsOf(directs, pair))
          /\ c0 \in DirectsOf(directs, pair)' <=> pair = p
          /\ c0 \in DirectsOf(directs, pair) => pair = p
          /\ DirectsOf(directs, pair)' \subseteq Conversation
          /\ DirectsOf(directs, pair) \subseteq Conversation
        BY <1>6, <1>10, <1>12, <2>2 DEF DirectsOf
    <2>4. /\ {"directStored"} \subseteq Opening /\ {"directStored"} \subseteq Busy
        BY DEF Opening, Busy
    <2>5. CASE pair = p
        <3>1. DirectsOf(directs, pair)' = {c0}
            <4>1. CASE req[h].step = "directStored"
                BY <1>7, <2>1, <2>3, <2>4, <2>5, <4>1
            <4>2. CASE req[h].step = "restoreDirect"
                <5>1. c0 \in DirectsOf(directs, pair)
                    BY <1>6, <1>10, <2>5, <4>2 DEF DirectsOf
                <5>. QED  BY <2>1, <2>3, <2>5, <5>1
            <4>. QED  BY <4>1, <4>2
        <3>2. \A g \in Handler : PairOf(g) = pair /\ req[g].step \in Busy => g = h
            BY <1>28, <2>5
        <3>3. \A g \in Handler : PairOf(g)' = pair => req'[g].step \notin Opening
            BY <1>4, <1>5, <1>16, <1>17, <3>2
        <3>4. \A c \in DirectsOf(storedDirects, pair) :
                 c \in DirectsOf(directs, pair) \/ c = c0
            BY <2>1, <2>4, <3>2 DEF c0
        <3>. QED  BY <2>3, <2>5, <3>1, <3>3, <3>4
    <2>6. CASE pair # p
        <3>1. DirectsOf(directs, pair)' = DirectsOf(directs, pair)
            <4>1. c0 \notin DirectsOf(directs, pair)' /\ c0 \notin DirectsOf(directs, pair)
                BY <2>3, <2>6
            <4>2. \A c : c \in DirectsOf(directs, pair)' <=> c \in DirectsOf(directs, pair)
                BY <2>3, <4>1
            <4>. QED  BY <4>2
        <3>2. \A g \in Handler : PairOf(g) = pair => g # h /\ req'[g] = req[g] /\ PairOf(g)' = pair
            BY <1>4, <1>7, <1>16, <2>6
        <3>3. \A g \in Handler : PairOf(g)' = pair /\ req'[g].step \in Opening =>
                 PairOf(g) = pair /\ req[g].step \in Opening
            BY <1>4, <1>16, <1>17
        <3>4. \A c \in DirectsOf(storedDirects, pair) :
                 \/ c \in DirectsOf(directs, pair)
                 \/ \E g \in Handler : /\ PairOf(g)' = pair /\ req'[g].conv = c
                                       /\ req'[g].step = "directStored"
            BY <2>1, <3>2
        <3>5. \A g \in Handler : PairOf(g)' = pair /\ req'[g].step \in Opening =>
                 DirectsOf(directs, pair) = {}
            BY <2>1, <3>3
        <3>. QED  BY <2>1, <3>1, <3>4, <3>5
    <2>. QED  BY <2>5, <2>6
<1>31. TypeOK'
    BY <1>1, <1>3, <1>4, <1>12, <1>14 DEF TypeOK
<1>32. \A u : \/ Received(u)' = Received(u)
              \/ i # None /\ u = req[h].by
    BY <1>8, <1>9, <1>14, <1>1 DEF Received
<1>33. /\ i # None => req'[h].step \in Answering /\ req'[h].by = req[h].by
       /\ \A u \in Watcher, g \in Handler :
             req[g].step \in Answering /\ req[g].by = u =>
                req'[g].step \in Answering /\ req'[g].by = u
    BY <1>4, <1>5
<1>34. LatestIsCurrent'
    BY <1>1, <1>32, <1>33, LatestStays
<1>. QED
    BY <1>18, <1>19, <1>20, <1>21, <1>22, <1>23, <1>24, <1>25, <1>29, <1>30, <1>31, <1>34
    DEF ContactsInv

LEMMA RestoreDirectKeepsInv ==
    ASSUME ContactsInv, NEW h \in Handler, RestoreDirect(h)
    PROVE  ContactsInv'
<1>1. directs \in [Conversation -> Pair \union {{}}]
    BY DEF ContactsInv, TypeOK
<1>2. directs[req[h].conv] = {req[h].by, req[h].with}
    BY DEF RestoreDirect, ContactsInv, DirectIsNew, PairOf
<1>3. directs' = [directs EXCEPT ![req[h].conv] = {req[h].by, req[h].with}]
    BY <1>1, <1>2 DEF RestoreDirect
<1>. QED  BY <1>3, AfterDirectKeeps DEF RestoreDirect

LEMMA FinishDirectKeepsInv ==
    ASSUME ContactsInv, NEW h \in Handler, FinishDirect(h)
    PROVE  ContactsInv'
BY AfterDirectKeeps DEF FinishDirect
LEMMA FinishAnswerKeepsInv ==
    ASSUME ContactsInv, NEW h \in Handler, FinishAnswer(h)
    PROVE  ContactsInv'
<1> USE ContactConstants
<1>1. /\ req[h].step = "answerStored"
      /\ req' = [req EXCEPT ![h].step = "confirmed"]
      /\ Notify({req[h].by, req[h].with})
      /\ confirmed' = confirmed \union {req[h].inv}
      /\ UNCHANGED <<memory, tables, page, asked, answers, missed, raced>>
    BY DEF FinishAnswer, pages
<1>2. /\ TypeOK
      /\ req' \in [Handler -> Request]
      /\ req'[h].step = "confirmed" /\ req'[h].by = req[h].by /\ req'[h].inv = req[h].inv
      /\ \A g \in Handler : g # h => req'[g] = req[g]
    <2>1. TypeOK /\ "confirmed" \in Step
        BY DEF ContactsInv, Step
    <2>. QED  BY <1>1, <2>1, RequestMoved
<1>3. req[h].step \in Answering /\ req[h].step \in Busy
    BY <1>1 DEF Answering, Busy
<1>4. req[h].by \in User /\ req[h].inv \in Invitation
    BY <1>1, <1>3 DEF ContactsInv, RequestIsWhole
<1>5. /\ invitations[req[h].inv] # None
      /\ invitations[req[h].inv].status # "pending"
      /\ storedInvitations[req[h].inv].status # "pending"
    <2>1. req[h].inv # None /\ req[h].step \in Busy \ Inviting
        BY <1>1, <1>3, <1>4 DEF Inviting
    <2>. QED  BY <1>1, <1>3, <2>1 DEF ContactsInv, AnswerIsFounded
<1>6. AnswersAreKept'
    BY <1>1, <1>5 DEF ContactsInv, AnswersAreKept, memory, tables
<1>7. StoredInv' /\ PairsInv'
    <2>1. \A g \in Handler : req'[g] # req[g] =>
             /\ req'[g].step = "confirmed" /\ req'[g].by \in User /\ req'[g].inv \in confirmed'
             /\ req[g].step = "answerStored"
        BY <1>1, <1>2, <1>4
    <2>. QED  BY <1>1, <1>6, <2>1, QuietStepKeeps
<1>8. /\ notices' \in [User -> Nat]
      /\ \A u \in Watcher : /\ u \in {req[h].by, req[h].with} => notices'[u] > 0
                            /\ notices'[u] = notices[u] \/ notices'[u] > 0
    BY <1>1, <1>2, NotifyTells
<1>9. TypeOK'
    BY <1>1, <1>2, <1>4, <1>8 DEF TypeOK, memory, tables
<1>10. \A u : Received(u)' = Received(u)
    BY <1>1 DEF Received, memory
<1>11. \A u \in Watcher : u # req[h].by =>
          \A g \in Handler : req[g].step \in Answering /\ req[g].by = u =>
             req'[g].step \in Answering /\ req'[g].by = u
    BY <1>2
<1>12. LatestIsCurrent'
    BY <1>1, <1>8, <1>10, <1>11, LatestStays
<1>. QED  BY <1>7, <1>9, <1>12 DEF StoredInv, PairsInv, ContactsInv

LEMMA DbFailsKeepsInv ==
    ASSUME ContactsInv, NEW h \in Handler, DbFails(h)
    PROVE  ContactsInv'
<1> USE ContactConstants
<1> DEFINE q == IF req[h].verdict = None THEN Idle ELSE [req[h] EXCEPT !.step = "failed"]
           p == {req[h].by, req[h].with}
<1>1. /\ req[h].step \notin {"idle", "confirmed", "failed"}
      /\ req' = [req EXCEPT ![h] = q]
      /\ raced' = raced \union {p}
      /\ missed' = missed \union (p \intersect Watcher)
      /\ UNCHANGED <<memory, tables, page, asked, answers, notices, confirmed>>
    BY DEF DbFails, CutShort, pages
<1>2. TypeOK /\ req[h] \in Request
    BY DEF ContactsInv, TypeOK
<1>3. req[h].step \in Busy
    BY <1>1, <1>2 DEF Request, Step, Busy, Inviting, Opening, Answering
<1>4. p \in Pair /\ req[h].by \in User /\ p \subseteq User
    <2>1. req[h].by \in User /\ req[h].with \in User /\ req[h].by # req[h].with
        BY <1>1, <1>3 DEF ContactsInv, RequestIsWhole
    <2>. QED  BY <2>1, TwoMakeAPair
<1>5. /\ q \in Request /\ q.step \in {"idle", "failed"}
      /\ q.step = "failed" => q.by = req[h].by
    <2>1. Idle \in Request /\ Idle.step = "idle"
        BY DEF Request, Idle, Step
    <2>2. /\ [req[h] EXCEPT !.step = "failed"] \in Request
          /\ [req[h] EXCEPT !.step = "failed"].step = "failed"
          /\ [req[h] EXCEPT !.step = "failed"].by = req[h].by
        BY <1>2 DEF Request, Step
    <2>. QED  BY <2>1, <2>2
<1>6. PairOf(h) = p
    BY DEF PairOf
<1> HIDE DEF q
<1>7. /\ req' \in [Handler -> Request]
      /\ req'[h] = q /\ \A g \in Handler : g # h => req'[g] = req[g]
    BY <1>1, <1>2, <1>5, RequestReplaced
<1>8. AnswersAreKept'
    BY <1>1 DEF ContactsInv, AnswersAreKept, memory, tables
<1>9. StoredInv' /\ PairsInv'
    <2>1. \A g \in Handler : req'[g] # req[g] =>
             /\ req'[g].step \in {"idle", "failed"}
             /\ req'[g].step # "idle" => req'[g].by \in User
             /\ PairOf(g) \in raced'
        BY <1>1, <1>4, <1>5, <1>6, <1>7
    <2>. QED  BY <1>1, <1>8, <2>1, QuietStepKeeps
<1>10. TypeOK'
    BY <1>1, <1>2, <1>4, <1>7 DEF TypeOK, memory, tables
<1>11. \A u : Received(u)' = Received(u)
    BY <1>1 DEF Received, memory
<1>12. \A u \in Watcher \ missed', g \in Handler :
          req[g].step \in Answering /\ req[g].by = u =>
             req'[g].step \in Answering /\ req'[g].by = u
    <2> SUFFICES ASSUME NEW u \in Watcher, u \notin missed', NEW g \in Handler, req[g].by = u
                 PROVE  g # h
        BY <1>7
    <2>. QED  BY <1>1
<1>13. LatestIsCurrent'
    BY <1>1, <1>11, <1>12, LatestStays
<1>. QED  BY <1>9, <1>10, <1>13 DEF StoredInv, PairsInv, ContactsInv

LEMMA PageAnsweredKeepsInv ==
    ASSUME ContactsInv, NEW h \in Handler, PageAnswered(h)
    PROVE  ContactsInv'
<1> USE ContactConstants
<1> DEFINE u == req[h].by
           i == req[h].inv
           list == IF req[h].step = "confirmed" THEN page[u].list \ {i} ELSE page[u].list
           shown == [list |-> list, processing |-> None]
<1>1. /\ req[h].step \in {"confirmed", "failed"}
      /\ page' = [page EXCEPT ![u] = shown]
      /\ req' = [req EXCEPT ![h] = Idle]
      /\ UNCHANGED <<memory, tables, asked, answers, notices, missed, raced, confirmed>>
    BY DEF PageAnswered
<1>2. /\ TypeOK /\ Idle \in Request /\ Idle.step = "idle"
      /\ page \in [User -> [list : SUBSET Invitation, processing : Invitation \union {None}]]
    BY DEF ContactsInv, TypeOK, Request, Idle, Step
<1>3. /\ req' \in [Handler -> Request]
      /\ req'[h] = Idle /\ \A g \in Handler : g # h => req'[g] = req[g]
    BY <1>1, <1>2, RequestReplaced
<1>4. u \in User /\ req[h].step \notin Busy
    BY <1>1 DEF ContactsInv, RequestIsWhole, Busy, Inviting, Opening, Answering
<1>5. shown.list = list
      /\ shown \in [list : SUBSET Invitation, processing : Invitation \union {None}]
    BY <1>2, <1>4
<1>6. i \notin Received(u) \/ list = page[u].list
    <2>1. CASE req[h].step = "confirmed"
        <3>1. i \in confirmed
            BY <2>1 DEF ContactsInv, RequestIsWhole
        <3>2. i \notin Received(u)
            BY <3>1 DEF ContactsInv, AnswersAreKept, Received
        <3>. QED  BY <3>2
    <2>2. CASE req[h].step # "confirmed"
        BY <2>2
    <2>. QED  BY <2>1, <2>2
<1>7. list = page[u].list \ {i} \/ list = page[u].list
    OBVIOUS
<1> HIDE DEF list, shown
<1>8. /\ page'[u].list = list
      /\ \A v \in User : v # u => page'[v] = page[v]
      /\ page' \in [User -> [list : SUBSET Invitation, processing : Invitation \union {None}]]
    BY <1>1, <1>2, <1>4, <1>5
<1>9. AnswersAreKept'
    BY <1>1 DEF ContactsInv, AnswersAreKept, memory, tables
<1>10. StoredInv' /\ PairsInv'
    <2>1. \A g \in Handler : req'[g] # req[g] =>
             /\ req'[g].step = "idle" /\ req[g].step \notin Busy
        BY <1>2, <1>3, <1>4
    <2>. QED  BY <1>1, <1>9, <2>1, QuietStepKeeps
<1>11. TypeOK'
    BY <1>1, <1>2, <1>3, <1>8 DEF TypeOK, memory, tables
<1>12. LatestIsCurrent'
    <2> SUFFICES ASSUME NEW v \in Watcher \ missed,
                        notices[v] = 0, asked[v] = 0,
                        \A g \in Handler : req'[g].step \in Answering => req'[g].by # v
                 PROVE  Latest(v)' = Received(v)'
        BY <1>1 DEF LatestIsCurrent
    <2>1. \A g \in Handler : req[g].step \in Answering => req[g].by # v
        BY <1>3, <1>4 DEF Busy
    <2>2. Latest(v) = Received(v)
        BY <2>1 DEF ContactsInv, LatestIsCurrent
    <2>3. Received(v)' = Received(v)
        BY <1>1 DEF Received, memory
    <2>4. CASE v # u
        <3>1. page'[v] = page[v] /\ answers'[v] = answers[v]
            BY <1>1, <1>8, <2>4
        <3>. QED  BY <2>2, <2>3, <3>1 DEF Latest
    <2>5. CASE v = u
        <3>1. CASE answers[v] = <<>>
            <4>1. page[u].list = Received(u)
                BY <2>2, <2>5, <3>1 DEF Latest
            <4>2. list = Received(u)
                BY <1>6, <1>7, <4>1
            <4>. QED  BY <1>1, <1>8, <2>3, <2>5, <3>1, <4>2 DEF Latest
        <3>2. CASE answers[v] # <<>>
            BY <1>1, <2>2, <2>3, <3>2 DEF Latest
        <3>. QED  BY <3>1, <3>2
    <2>. QED  BY <2>4, <2>5
<1>. QED  BY <1>10, <1>11, <1>12 DEF StoredInv, PairsInv, ContactsInv

LEMMA OpenPageKeepsInv ==
    ASSUME ContactsInv, NEW u \in Watcher, OpenPage(u)
    PROVE  ContactsInv'
<1> USE ContactConstants
<1> DEFINE empty == [list |-> {}, processing |-> None]
<1>1. /\ page' = [page EXCEPT ![u] = empty]
      /\ asked' = [asked EXCEPT ![u] = 1]
      /\ answers' = [answers EXCEPT ![u] = <<>>]
      /\ missed' = missed \ {u}
      /\ req' = [h \in Handler |-> IF /\ req[h].by = u
                                      /\ req[h].step \in {"confirmed", "failed"}
                                      THEN Idle ELSE req[h]]
      /\ UNCHANGED <<memory, tables, notices, raced, confirmed>>
    BY DEF OpenPage
<1>2. /\ TypeOK /\ Idle \in Request /\ Idle.step = "idle" /\ u \in User
      /\ empty \in [list : SUBSET Invitation, processing : Invitation \union {None}]
    BY DEF ContactsInv, TypeOK, Request, Idle, Step
<1> HIDE DEF empty
<1>3. /\ req' \in [Handler -> Request]
      /\ \A h \in Handler : req'[h] # req[h] =>
            req'[h].step = "idle" /\ req[h].step \in {"confirmed", "failed"}
    BY <1>1, <1>2 DEF TypeOK
<1>4. AnswersAreKept'
    BY <1>1 DEF ContactsInv, AnswersAreKept, memory, tables
<1>5. StoredInv' /\ PairsInv'
    <2>1. \A h \in Handler : req'[h] # req[h] =>
             req'[h].step = "idle" /\ req[h].step \notin Busy
        BY <1>3 DEF Busy, Inviting, Opening, Answering
    <2>. QED  BY <1>1, <1>4, <2>1, QuietStepKeeps
<1>6. TypeOK'
    <2>1. page' \in [User -> [list : SUBSET Invitation, processing : Invitation \union {None}]]
        BY <1>1, <1>2 DEF TypeOK
    <2>2. asked' \in [User -> 0 .. MaxRefreshes] /\ answers' \in [User -> Seq(SUBSET Invitation)]
          /\ missed' \subseteq User
        BY <1>1, <1>2 DEF TypeOK
    <2>. QED  BY <1>1, <1>2, <1>3, <2>1, <2>2 DEF TypeOK, memory, tables
<1>7. LatestIsCurrent'
    <2> SUFFICES ASSUME NEW v \in Watcher, v \notin missed',
                        notices[v] = 0, asked'[v] = 0,
                        \A g \in Handler : req'[g].step \in Answering => req'[g].by # v
                 PROVE  Latest(v)' = Received(v)'
        BY <1>1 DEF LatestIsCurrent
    <2>1. v # u /\ v \in Watcher \ missed /\ v \in User
        BY <1>1, <1>2 DEF TypeOK
    <2>2. asked[v] = 0 /\ page'[v] = page[v] /\ answers'[v] = answers[v]
        BY <1>1, <1>2, <2>1 DEF TypeOK
    <2>3. \A g \in Handler : req[g].step \in Answering => req[g].by # v
        BY <1>3 DEF Answering
    <2>4. Latest(v) = Received(v)
        BY <2>1, <2>2, <2>3 DEF ContactsInv, LatestIsCurrent
    <2>5. Received(v)' = Received(v)
        BY <1>1 DEF Received, memory
    <2>. QED  BY <2>2, <2>4, <2>5 DEF Latest
<1>. QED  BY <1>5, <1>6, <1>7 DEF StoredInv, PairsInv, ContactsInv
-----------------------------------------------------------------------------
\* The database executes the insert of an invitation.
LEMMA InsertInvitationKeepsInv ==
    ASSUME ContactsInv, NEW h \in Handler,
           req[h].step = "insertInvitation",
           storedInvitations' = [storedInvitations EXCEPT ![req[h].inv] =
              [from |-> req[h].by, to |-> req[h].with, status |-> "pending"]],
           req' = [req EXCEPT ![h].step = "invitationStored"],
           UNCHANGED <<storedDirects, memory, pages, notices, missed, raced, confirmed>>
    PROVE  ContactsInv'
<1> USE ContactConstants
<1> DEFINE i == req[h].inv
           p == {req[h].by, req[h].with}
           rec == [from |-> req[h].by, to |-> req[h].with, status |-> "pending"]
<1>1. /\ UNCHANGED <<invitations, directs, storedDirects, page, asked, answers, notices,
                     missed, raced, confirmed>>
      /\ storedInvitations' = [storedInvitations EXCEPT ![i] = rec]
    BY DEF memory, pages
<1>2. /\ TypeOK
      /\ req' \in [Handler -> Request]
      /\ req'[h].step = "invitationStored" /\ req'[h].by = req[h].by
      /\ req'[h].with = req[h].with /\ req'[h].inv = i /\ req'[h].conv = req[h].conv
      /\ req'[h].verdict = req[h].verdict
      /\ \A g \in Handler : g # h => req'[g] = req[g]
    <2>1. TypeOK /\ "invitationStored" \in Step
        BY DEF ContactsInv, Step
    <2>. QED  BY <2>1, RequestMoved
<1>3. /\ req[h].step \in Inviting /\ req'[h].step \in Inviting
      /\ Inviting \subseteq Busy /\ Opening \subseteq Busy /\ Answering \subseteq Busy
      /\ "invitationStored" \notin Opening \union Answering \union {"restoreDirect", "idle", "confirmed"}
      /\ "insertInvitation" \notin Opening \union Answering
    BY <1>2 DEF Busy, Inviting, Opening, Answering
<1>4. /\ i \in Invitation /\ req[h].by \in User /\ req[h].with \in User
      /\ req[h].by # req[h].with /\ req[h].verdict = None
    BY <1>3 DEF ContactsInv, RequestIsWhole
<1>5. /\ rec \in InvitationRecord /\ rec # None /\ rec.status = "pending"
      /\ rec.from = req[h].by /\ rec.to = req[h].with
    BY <1>4, NoneIsNoRecord DEF InvitationRecord
<1>6. /\ invitations[i] = None /\ storedInvitations[i] = None
      /\ \A g \in Handler : req[g].step \in Inviting /\ req[g].inv = i => g = h
    BY <1>3 DEF ContactsInv, InvitationIsNew
<1>7. rec = [from |-> req'[h].by, to |-> req'[h].with, status |-> "pending"]
    BY <1>2
<1>8. \A g \in Handler : PairOf(g)' = PairOf(g)
    BY <1>2 DEF PairOf
<1>9. PairOf(h) = p /\ p = {rec.from, rec.to}
    BY <1>5 DEF PairOf
<1> HIDE DEF rec, i, p
<1>10. /\ storedInvitations'[i] = rec
       /\ \A j \in Invitation : j # i => storedInvitations'[j] = storedInvitations[j]
       /\ storedInvitations' \in [Invitation -> InvitationRecord \union {None}]
    <2>1. storedInvitations \in [Invitation -> InvitationRecord \union {None}]
        BY <1>2 DEF TypeOK
    <2>. QED  BY <1>1, <1>4, <1>5, <2>1
<1>11. \A g \in Handler : req'[g].step \in Busy \/ req'[g].step = "confirmed" =>
          /\ g # h => req'[g] = req[g]
          /\ req[g].step \in Busy \/ req[g].step = "confirmed"
    BY <1>2, <1>3
<1>12. RequestIsWhole'
    <2> SUFFICES ASSUME NEW g \in Handler
                 PROVE  /\ req'[g].step # "idle" => req'[g].by \in User
                        /\ req'[g].step \in Busy => req'[g].with \in User /\ req'[g].by # req'[g].with
                        /\ req'[g].step \in Inviting => req'[g].inv \in Invitation /\ req'[g].verdict = None
                        /\ req'[g].step \in Opening \union {"restoreDirect"} => req'[g].conv \in Conversation
                        /\ req'[g].step \in Answering => req'[g].inv \in Invitation
                        /\ req'[g].step = "confirmed" => req'[g].inv \in confirmed'
        BY DEF RequestIsWhole
    <2>1. CASE g = h
        BY <1>2, <1>3, <1>4, <2>1
    <2>2. CASE g # h
        BY <1>1, <1>2, <2>2 DEF ContactsInv, RequestIsWhole
    <2>. QED  BY <2>1, <2>2
<1>13. InvitationIsNew'
    <2> SUFFICES ASSUME NEW g \in Handler, req'[g].step \in Inviting
                 PROVE  /\ invitations[req'[g].inv] = None
                        /\ req'[g].step = "insertInvitation" => storedInvitations'[req'[g].inv] = None
                        /\ req'[g].step = "invitationStored" =>
                              storedInvitations'[req'[g].inv] =
                                 [from |-> req'[g].by, to |-> req'[g].with, status |-> "pending"]
                        /\ \A k \in Handler :
                              req'[k].step \in Inviting /\ req'[k].inv = req'[g].inv => k = g
        BY <1>1 DEF InvitationIsNew
    <2>1. \A k \in Handler : req'[k].step \in Inviting =>
             /\ req[k].step \in Inviting /\ req'[k].inv = req[k].inv /\ req[k].inv \in Invitation
        BY <1>2, <1>3, <1>4 DEF ContactsInv, RequestIsWhole
    <2>2. \A k \in Handler : req'[k].step \in Inviting /\ req'[k].inv = req'[g].inv => k = g
        BY <2>1 DEF ContactsInv, InvitationIsNew
    <2>3. CASE g = h
        BY <1>2, <1>6, <1>7, <1>10, <2>2, <2>3
    <2>4. CASE g # h
        <3>1. req'[g] = req[g] /\ storedInvitations'[req[g].inv] = storedInvitations[req[g].inv]
            BY <1>2, <1>6, <1>10, <2>1, <2>4
        <3>. QED  BY <2>1, <2>2, <3>1 DEF ContactsInv, InvitationIsNew
    <2>. QED  BY <2>3, <2>4
<1>14. DirectIsNew' /\ DirectsAreStored'
    <2>1. DirectsAreStored'
        BY <1>1 DEF ContactsInv, DirectsAreStored
    <2>2. \A g \in Handler : req'[g].step \in Opening \union {"restoreDirect"} => req'[g] = req[g]
        BY <1>2, <1>3
    <2>3. DirectIsNew'
        <3> SUFFICES ASSUME NEW g \in Handler
                     PROVE  /\ req'[g].step \in Opening =>
                                 /\ directs[req'[g].conv] = {}
                                 /\ req'[g].step = "insertDirect" => storedDirects[req'[g].conv] = {}
                                 /\ req'[g].step = "directStored" =>
                                       storedDirects[req'[g].conv] = PairOf(g)'
                                 /\ \A k \in Handler :
                                       req'[k].step \in Opening /\ req'[k].conv = req'[g].conv => k = g
                            /\ req'[g].step = "restoreDirect" => directs[req'[g].conv] = PairOf(g)'
            BY <1>1 DEF DirectIsNew
        <3>1. req'[g].step \in Opening =>
                 \A k \in Handler :
                    req'[k].step \in Opening /\ req'[k].conv = req'[g].conv => k = g
            BY <2>2 DEF ContactsInv, DirectIsNew
        <3>2. /\ req'[g].step \in Opening =>
                    /\ directs[req'[g].conv] = {}
                    /\ req'[g].step = "insertDirect" => storedDirects[req'[g].conv] = {}
                    /\ req'[g].step = "directStored" => storedDirects[req'[g].conv] = PairOf(g)
              /\ req'[g].step = "restoreDirect" => directs[req'[g].conv] = PairOf(g)
            BY ZenonT(60), <2>2 DEF ContactsInv, DirectIsNew
        <3>. QED  BY <1>8, <3>1, <3>2
    <2>. QED  BY <2>1, <2>3
<1>15. InvitationsAreStored'
    BY <1>1, <1>4, <1>5, <1>6, <1>10 DEF ContactsInv, InvitationsAreStored
<1>16. AnswerIsFounded'
    <2>1. \A pair : DirectsOf(directs, pair)' = DirectsOf(directs, pair)
        BY <1>1 DEF DirectsOf
    <2>2. ASSUME NEW g \in Handler, req'[g].step \in Busy \ Inviting, req'[g].inv # None
          PROVE  /\ req'[g] = req[g] /\ PairOf(g)' = PairOf(g)
                 /\ storedInvitations'[req[g].inv] = storedInvitations[req[g].inv]
        <3>1. g # h /\ req'[g] = req[g]
            BY <1>2, <1>3, <2>2
        <3>2. invitations[req[g].inv] # None
            BY <2>2, <3>1 DEF ContactsInv, AnswerIsFounded
        <3>3. req[g].inv \in Invitation
            BY <1>2, <2>2, <3>1 DEF TypeOK, Request
        <3>. QED  BY <1>6, <1>8, <1>10, <3>1, <3>2, <3>3
    <2> SUFFICES ASSUME NEW g \in Handler,
                        req'[g].step \in Busy \ Inviting, req'[g].inv # None
                 PROVE  /\ invitations[req'[g].inv] # None
                        /\ invitations[req'[g].inv].from = req'[g].with
                        /\ invitations[req'[g].inv].to = req'[g].by
                        /\ req'[g].verdict \in Verdict
                        /\ req'[g].step \notin Answering => req'[g].verdict = "accepted"
                        /\ req'[g].step \in Answering =>
                              /\ invitations[req'[g].inv].status # "pending"
                              /\ req'[g].verdict = "accepted" => DirectsOf(directs, PairOf(g))' # {}
                        /\ req'[g].step = "answerStored" =>
                              storedInvitations'[req'[g].inv].status # "pending"
        BY <1>1 DEF AnswerIsFounded
    <2>3. DirectsOf(directs, PairOf(g))' = DirectsOf(directs, PairOf(g))
        BY <1>1, <1>8 DEF DirectsOf
    <2>4. /\ req'[g] = req[g] /\ storedInvitations'[req[g].inv] = storedInvitations[req[g].inv]
        BY <2>2
    <2>. QED  BY <2>3, <2>4 DEF ContactsInv, AnswerIsFounded
<1>17. AcceptedAreContacts'
    <2>1. \A j \in Invitation :
             storedInvitations'[j] # None /\ storedInvitations'[j].status = "accepted" =>
                storedInvitations'[j] = storedInvitations[j]
        BY <1>5, <1>10
    <2>. QED  BY <1>1, <2>1, ContactsAreKept DEF ContactsInv
<1>18. AnswersAreKept'
    <2>1. i \notin confirmed /\ confirmed \subseteq Invitation
        BY <1>2, <1>6 DEF ContactsInv, AnswersAreKept, TypeOK
    <2>. QED  BY <1>1, <1>10, <2>1 DEF ContactsInv, AnswersAreKept
<1>19. PairsTakeTurns'
    BY <1>1, <1>2, <1>3, <1>8, TurnsAreKept DEF ContactsInv
<1>20. \A pair : /\ PendingBetween(invitations, pair)' = PendingBetween(invitations, pair)
                 /\ DirectsOf(directs, pair)' = DirectsOf(directs, pair)
                 /\ DirectsOf(storedDirects, pair)' = DirectsOf(storedDirects, pair)
    BY <1>1 DEF PendingBetween, DirectsOf
<1>21. \A pair, j : j \in PendingBetween(storedInvitations, pair)' =>
                      j \in PendingBetween(storedInvitations, pair) \/ (j = i /\ pair = p)
    <2> SUFFICES ASSUME NEW pair, NEW j, j \in PendingBetween(storedInvitations, pair)'
                 PROVE  j \in PendingBetween(storedInvitations, pair) \/ (j = i /\ pair = p)
        OBVIOUS
    <2>1. j \in Invitation
        BY DEF PendingBetween
    <2>2. CASE j = i
        BY <1>5, <1>9, <1>10, <2>2 DEF PendingBetween
    <2>3. CASE j # i
        <3>1. storedInvitations'[j] = storedInvitations[j]
            BY <1>10, <2>1, <2>3
        <3>. QED  BY <2>1, <3>1 DEF PendingBetween
    <2>. QED  BY <2>2, <2>3
<1>22. OneInvitation'
    <2> SUFFICES ASSUME NEW pair \in Pair \ raced
                 PROVE  /\ \A j, k \in PendingBetween(invitations, pair)' : j = k
                        /\ \A j \in PendingBetween(storedInvitations, pair)' :
                              \/ j \in PendingBetween(invitations, pair)'
                              \/ \E g \in Handler : /\ PairOf(g)' = pair /\ req'[g].inv = j
                                                    /\ req'[g].step \in {"invitationStored", "updateAnswer"}
                        /\ \A g \in Handler : PairOf(g)' = pair =>
                              /\ req'[g].step \in Inviting \union Answering =>
                                    PendingBetween(invitations, pair)' = {}
                              /\ req'[g].step \in Busy /\ req'[g].inv # None =>
                                    PendingBetween(invitations, pair)' \subseteq {req'[g].inv}
        BY <1>1 DEF OneInvitation
    <2>1. /\ \A j, k \in PendingBetween(invitations, pair) : j = k
          /\ \A j \in PendingBetween(storedInvitations, pair) :
                \/ j \in PendingBetween(invitations, pair)
                \/ \E g \in Handler : /\ PairOf(g) = pair /\ req[g].inv = j
                                      /\ req[g].step \in {"invitationStored", "updateAnswer"}
          /\ \A g \in Handler : PairOf(g) = pair =>
                /\ req[g].step \in Inviting \union Answering => PendingBetween(invitations, pair) = {}
                /\ req[g].step \in Busy /\ req[g].inv # None =>
                      PendingBetween(invitations, pair) \subseteq {req[g].inv}
        BY DEF ContactsInv, OneInvitation
    <2>2. \A j \in PendingBetween(storedInvitations, pair)' :
             \/ j \in PendingBetween(invitations, pair)
             \/ \E g \in Handler : /\ PairOf(g) = pair /\ req'[g].inv = j
                                   /\ req'[g].step \in {"invitationStored", "updateAnswer"}
        <3> SUFFICES ASSUME NEW j \in PendingBetween(storedInvitations, pair)',
                            j \notin PendingBetween(invitations, pair)
                     PROVE  \E g \in Handler : /\ PairOf(g) = pair /\ req'[g].inv = j
                                               /\ req'[g].step \in {"invitationStored", "updateAnswer"}
            OBVIOUS
        <3>1. CASE j \in PendingBetween(storedInvitations, pair)
            <4>1. PICK g \in Handler : /\ PairOf(g) = pair /\ req[g].inv = j
                                       /\ req[g].step \in {"invitationStored", "updateAnswer"}
                BY <2>1, <3>1
            <4>2. g # h
                BY <4>1
            <4>. QED  BY <1>2, <4>1, <4>2
        <3>2. CASE j = i /\ pair = p
            BY <1>2, <1>9, <3>2
        <3>. QED  BY <1>21, <3>1, <3>2
    <2>3. \A g \in Handler : PairOf(g) = pair =>
             /\ req'[g].step \in Inviting \union Answering =>
                   PendingBetween(invitations, pair) = {}
             /\ req'[g].step \in Busy /\ req'[g].inv # None =>
                   PendingBetween(invitations, pair) \subseteq {req'[g].inv}
        BY <1>2, <1>3, <2>1
    <2>4. PendingBetween(invitations, pair)' = PendingBetween(invitations, pair)
        BY <1>20
    <2>5. \A j, k \in PendingBetween(invitations, pair)' : j = k
        BY <2>1, <2>4
    <2>6. \A j \in PendingBetween(storedInvitations, pair)' :
             \/ j \in PendingBetween(invitations, pair)'
             \/ \E g \in Handler : /\ PairOf(g)' = pair /\ req'[g].inv = j
                                   /\ req'[g].step \in {"invitationStored", "updateAnswer"}
        BY <1>8, <2>2, <2>4
    <2>7. \A g \in Handler : PairOf(g)' = pair =>
             /\ req'[g].step \in Inviting \union Answering =>
                   PendingBetween(invitations, pair)' = {}
             /\ req'[g].step \in Busy /\ req'[g].inv # None =>
                   PendingBetween(invitations, pair)' \subseteq {req'[g].inv}
        BY <1>8, <2>3, <2>4
    <2>. QED  BY <2>5, <2>6, <2>7
<1>23. OneDirect'
    <2> SUFFICES ASSUME NEW pair \in Pair \ raced
                 PROVE  /\ \A c, d \in DirectsOf(directs, pair) : c = d
                        /\ \A c \in DirectsOf(storedDirects, pair) :
                              \/ c \in DirectsOf(directs, pair)
                              \/ \E g \in Handler : /\ PairOf(g)' = pair /\ req'[g].conv = c
                                                    /\ req'[g].step = "directStored"
                        /\ \A g \in Handler : PairOf(g)' = pair /\ req'[g].step \in Opening =>
                              DirectsOf(directs, pair) = {}
        BY <1>1, <1>20 DEF OneDirect
    <2>1. \A g \in Handler :
             req[g].step = "directStored" \/ req'[g].step \in Opening => req'[g] = req[g]
        BY <1>2, <1>3
    <2>2. /\ \A c, d \in DirectsOf(directs, pair) : c = d
          /\ \A c \in DirectsOf(storedDirects, pair) :
                \/ c \in DirectsOf(directs, pair)
                \/ \E g \in Handler : /\ PairOf(g) = pair /\ req[g].conv = c
                                      /\ req[g].step = "directStored"
          /\ \A g \in Handler : PairOf(g) = pair /\ req[g].step \in Opening =>
                DirectsOf(directs, pair) = {}
        BY DEF ContactsInv, OneDirect
    <2>3. \A g \in Handler : PairOf(g)' = pair /\ req'[g].step \in Opening =>
             DirectsOf(directs, pair) = {}
        <3> SUFFICES ASSUME NEW g \in Handler, PairOf(g)' = pair, req'[g].step \in Opening
                     PROVE  DirectsOf(directs, pair) = {}
            OBVIOUS
        <3>1. PairOf(g) = pair
            BY <1>8
        <3>2. req[g].step \in Opening
            BY <2>1
        <3>. QED  BY <2>2, <3>1, <3>2
    <2>. QED  BY <1>8, <2>1, <2>2, <2>3
<1>24. TypeOK'
    BY <1>1, <1>2, <1>10 DEF TypeOK
<1>25. \A u : Received(u)' = Received(u)
    BY <1>1 DEF Received
<1>26. \A u \in Watcher, g \in Handler :
          req[g].step \in Answering /\ req[g].by = u =>
             req'[g].step \in Answering /\ req'[g].by = u
    BY <1>2, <1>3
<1>27. LatestIsCurrent'
    BY <1>1, <1>25, <1>26, LatestStays
<1>. QED
    BY <1>12, <1>13, <1>14, <1>15, <1>16, <1>17, <1>18, <1>19, <1>22, <1>23, <1>24, <1>27
    DEF ContactsInv
\* The database executes the insert of a direct conversation.
LEMMA InsertDirectKeepsInv ==
    ASSUME ContactsInv, NEW h \in Handler,
           req[h].step = "insertDirect",
           storedDirects' = [storedDirects EXCEPT ![req[h].conv] = {req[h].by, req[h].with}],
           req' = [req EXCEPT ![h].step = "directStored"],
           UNCHANGED <<storedInvitations, memory, pages, notices, missed, raced, confirmed>>
    PROVE  ContactsInv'
<1> USE ContactConstants
<1> DEFINE c0 == req[h].conv
           p == {req[h].by, req[h].with}
<1>1. /\ UNCHANGED <<invitations, directs, storedInvitations, page, asked, answers, notices,
                     missed, raced, confirmed>>
      /\ storedDirects' = [storedDirects EXCEPT ![c0] = p]
    BY DEF memory, pages
<1>2. /\ TypeOK
      /\ req' \in [Handler -> Request]
      /\ req'[h].step = "directStored" /\ req'[h].by = req[h].by
      /\ req'[h].with = req[h].with /\ req'[h].inv = req[h].inv /\ req'[h].conv = c0
      /\ req'[h].verdict = req[h].verdict
      /\ \A g \in Handler : g # h => req'[g] = req[g]
    <2>1. TypeOK /\ "directStored" \in Step
        BY DEF ContactsInv, Step
    <2>. QED  BY <2>1, RequestMoved
<1>3. /\ req[h].step \in Opening /\ req'[h].step \in Opening
      /\ Inviting \subseteq Busy /\ Opening \subseteq Busy /\ Answering \subseteq Busy
      /\ "directStored" \notin Inviting \union Answering \union {"restoreDirect", "idle", "confirmed"}
      /\ "insertDirect" \notin Inviting \union Answering
    BY <1>2 DEF Busy, Inviting, Opening, Answering
<1>4. /\ c0 \in Conversation /\ req[h].by \in User /\ req[h].with \in User
      /\ req[h].by # req[h].with
    BY <1>3 DEF ContactsInv, RequestIsWhole
<1>5. p \in Pair /\ PairOf(h) = p
    BY <1>4, TwoMakeAPair DEF PairOf
<1>6. /\ directs[c0] = {} /\ storedDirects[c0] = {}
      /\ \A g \in Handler : req[g].step \in Opening /\ req[g].conv = c0 => g = h
    BY <1>3 DEF ContactsInv, DirectIsNew
<1>7. \A g \in Handler : PairOf(g)' = PairOf(g)
    BY <1>2 DEF PairOf
<1> HIDE DEF c0, p
<1>8. /\ storedDirects'[c0] = p
      /\ \A c \in Conversation : c # c0 => storedDirects'[c] = storedDirects[c]
      /\ storedDirects' \in [Conversation -> Pair \union {{}}]
    <2>1. storedDirects \in [Conversation -> Pair \union {{}}]
        BY <1>2 DEF TypeOK
    <2>. QED  BY <1>1, <1>4, <1>5, <2>1
<1>9. RequestIsWhole'
    <2> SUFFICES ASSUME NEW g \in Handler
                 PROVE  /\ req'[g].step # "idle" => req'[g].by \in User
                        /\ req'[g].step \in Busy => req'[g].with \in User /\ req'[g].by # req'[g].with
                        /\ req'[g].step \in Inviting => req'[g].inv \in Invitation /\ req'[g].verdict = None
                        /\ req'[g].step \in Opening \union {"restoreDirect"} => req'[g].conv \in Conversation
                        /\ req'[g].step \in Answering => req'[g].inv \in Invitation
                        /\ req'[g].step = "confirmed" => req'[g].inv \in confirmed'
        BY DEF RequestIsWhole
    <2>1. CASE g = h
        BY <1>2, <1>3, <1>4, <2>1
    <2>2. CASE g # h
        BY <1>1, <1>2, <2>2 DEF ContactsInv, RequestIsWhole
    <2>. QED  BY <2>1, <2>2
<1>10. InvitationIsNew' /\ InvitationsAreStored'
    <2>1. InvitationsAreStored'
        BY <1>1 DEF ContactsInv, InvitationsAreStored
    <2>2. \A g \in Handler : req'[g].step \in Inviting => req'[g] = req[g]
        BY <1>2, <1>3
    <2>3. InvitationIsNew'
        <3> SUFFICES ASSUME NEW g \in Handler, req'[g].step \in Inviting
                     PROVE  /\ invitations'[req'[g].inv] = None
                            /\ req'[g].step = "insertInvitation" =>
                                  storedInvitations'[req'[g].inv] = None
                            /\ req'[g].step = "invitationStored" =>
                                  storedInvitations'[req'[g].inv] =
                                     [from |-> req'[g].by, to |-> req'[g].with,
                                      status |-> "pending"]
                            /\ \A k \in Handler :
                                  req'[k].step \in Inviting /\ req'[k].inv = req'[g].inv
                                     => k = g
            BY DEF InvitationIsNew
        <3>1. req'[g] = req[g] /\ invitations' = invitations
              /\ storedInvitations' = storedInvitations
            BY <1>1, <2>2
        <3>2. \A k \in Handler : req'[k].step \in Inviting =>
                 req[k].step \in Inviting /\ req'[k].inv = req[k].inv
            BY <2>2
        <3>. QED  BY <3>1, <3>2 DEF ContactsInv, InvitationIsNew
    <2>. QED  BY <2>1, <2>3
<1>11. DirectIsNew'
    <2> SUFFICES ASSUME NEW g \in Handler
                 PROVE  /\ req'[g].step \in Opening =>
                             /\ directs[req'[g].conv] = {}
                             /\ req'[g].step = "insertDirect" => storedDirects'[req'[g].conv] = {}
                             /\ req'[g].step = "directStored" =>
                                   storedDirects'[req'[g].conv] = PairOf(g)'
                             /\ \A k \in Handler :
                                   req'[k].step \in Opening /\ req'[k].conv = req'[g].conv => k = g
                        /\ req'[g].step = "restoreDirect" => directs[req'[g].conv] = PairOf(g)'
        BY <1>1 DEF DirectIsNew
    <2>1. \A k \in Handler : req'[k].step \in Opening =>
             req[k].step \in Opening /\ req'[k].conv = req[k].conv /\ req[k].conv \in Conversation
        BY <1>2, <1>3, <1>4 DEF ContactsInv, RequestIsWhole
    <2>2. req'[g].step \in Opening =>
             \A k \in Handler : req'[k].step \in Opening /\ req'[k].conv = req'[g].conv => k = g
        BY <2>1 DEF ContactsInv, DirectIsNew
    <2>3. PairOf(g)' = PairOf(g)
        BY <1>7
    <2>4. CASE g = h
        BY <1>2, <1>3, <1>5, <1>6, <1>8, <2>2, <2>3, <2>4
    <2>5. CASE g # h
        <3>1. req'[g] = req[g]
            BY <1>2, <2>5
        <3>2. req[g].step \in Opening => storedDirects'[req[g].conv] = storedDirects[req[g].conv]
            BY <1>6, <1>8, <2>1, <2>5, <3>1
        <3>. QED  BY <2>2, <2>3, <3>1, <3>2 DEF ContactsInv, DirectIsNew
    <2>. QED  BY <2>4, <2>5
<1>12. DirectsAreStored'
    BY <1>1, <1>6, <1>8 DEF ContactsInv, DirectsAreStored
<1>13. AnswerIsFounded'
    <2> SUFFICES ASSUME NEW g \in Handler,
                        req'[g].step \in Busy \ Inviting, req'[g].inv # None
                 PROVE  /\ invitations[req'[g].inv] # None
                        /\ invitations[req'[g].inv].from = req'[g].with
                        /\ invitations[req'[g].inv].to = req'[g].by
                        /\ req'[g].verdict \in Verdict
                        /\ req'[g].step \notin Answering => req'[g].verdict = "accepted"
                        /\ req'[g].step \in Answering =>
                              /\ invitations[req'[g].inv].status # "pending"
                              /\ req'[g].verdict = "accepted" => DirectsOf(directs, PairOf(g))' # {}
                        /\ req'[g].step = "answerStored" =>
                              storedInvitations[req'[g].inv].status # "pending"
        BY <1>1 DEF AnswerIsFounded
    <2>1. DirectsOf(directs, PairOf(g))' = DirectsOf(directs, PairOf(g))
        BY <1>1, <1>7 DEF DirectsOf
    <2>2. CASE g = h
        <3>1. req[g].step \in Busy \ Inviting /\ req[g].step \notin Answering /\ req[g].inv # None
            BY <1>2, <1>3, <2>2
        <3>. QED  BY <1>2, <1>3, <2>2, <3>1 DEF ContactsInv, AnswerIsFounded, Answering
    <2>3. CASE g # h
        <3>1. req'[g] = req[g]
            BY <1>2, <2>3
        <3>. QED  BY <2>1, <3>1 DEF ContactsInv, AnswerIsFounded
    <2>. QED  BY <2>2, <2>3
<1>14. AcceptedAreContacts'
    <2>1. \A c \in Conversation : storedDirects[c] # {} => storedDirects'[c] = storedDirects[c]
        BY <1>6, <1>8
    <2>. QED  BY <1>1, <2>1, ContactsAreKept DEF ContactsInv
<1>15. AnswersAreKept'
    BY <1>1 DEF ContactsInv, AnswersAreKept
<1>16. PairsTakeTurns'
    BY <1>1, <1>2, <1>3, <1>7, TurnsAreKept DEF ContactsInv
<1>17. \A pair : /\ PendingBetween(invitations, pair)' = PendingBetween(invitations, pair)
                 /\ PendingBetween(storedInvitations, pair)' = PendingBetween(storedInvitations, pair)
                 /\ DirectsOf(directs, pair)' = DirectsOf(directs, pair)
    BY <1>1 DEF PendingBetween, DirectsOf
<1>18. OneInvitation'
    <2> SUFFICES ASSUME NEW pair \in Pair \ raced
                 PROVE  /\ \A i, j \in PendingBetween(invitations, pair) : i = j
                        /\ \A i \in PendingBetween(storedInvitations, pair) :
                              \/ i \in PendingBetween(invitations, pair)
                              \/ \E g \in Handler : /\ PairOf(g)' = pair /\ req'[g].inv = i
                                                    /\ req'[g].step \in {"invitationStored", "updateAnswer"}
                        /\ \A g \in Handler : PairOf(g)' = pair =>
                              /\ req'[g].step \in Inviting \union Answering =>
                                    PendingBetween(invitations, pair) = {}
                              /\ req'[g].step \in Busy /\ req'[g].inv # None =>
                                    PendingBetween(invitations, pair) \subseteq {req'[g].inv}
        BY <1>1, <1>17 DEF OneInvitation
    <2>1. \A g \in Handler :
             req[g].step \in {"invitationStored", "updateAnswer"} => req'[g] = req[g]
        BY <1>2
    <2>2. \A i \in PendingBetween(storedInvitations, pair) :
             \/ i \in PendingBetween(invitations, pair)
             \/ \E g \in Handler : /\ PairOf(g)' = pair /\ req'[g].inv = i
                                   /\ req'[g].step \in {"invitationStored", "updateAnswer"}
        BY <1>7, <2>1 DEF ContactsInv, OneInvitation
    <2>3. \A g \in Handler : PairOf(g)' = pair =>
             /\ req'[g].step \in Inviting \union Answering =>
                   PendingBetween(invitations, pair) = {}
             /\ req'[g].step \in Busy /\ req'[g].inv # None =>
                   PendingBetween(invitations, pair) \subseteq {req'[g].inv}
        BY <1>2, <1>3, <1>7 DEF ContactsInv, OneInvitation
    <2>. QED  BY <2>2, <2>3 DEF ContactsInv, OneInvitation
<1>19. OneDirect'
    <2> SUFFICES ASSUME NEW pair \in Pair \ raced
                 PROVE  /\ \A c, d \in DirectsOf(directs, pair)' : c = d
                        /\ \A c \in DirectsOf(storedDirects, pair)' :
                              \/ c \in DirectsOf(directs, pair)'
                              \/ \E g \in Handler : /\ PairOf(g)' = pair /\ req'[g].conv = c
                                                    /\ req'[g].step = "directStored"
                        /\ \A g \in Handler : PairOf(g)' = pair /\ req'[g].step \in Opening =>
                              DirectsOf(directs, pair)' = {}
        BY <1>1 DEF OneDirect
    <2>1. /\ \A c, d \in DirectsOf(directs, pair) : c = d
          /\ \A c \in DirectsOf(storedDirects, pair) :
                \/ c \in DirectsOf(directs, pair)
                \/ \E g \in Handler : /\ PairOf(g) = pair /\ req[g].conv = c
                                      /\ req[g].step = "directStored"
          /\ \A g \in Handler : PairOf(g) = pair /\ req[g].step \in Opening =>
                DirectsOf(directs, pair) = {}
        BY DEF ContactsInv, OneDirect
    <2>2. ASSUME NEW c \in DirectsOf(storedDirects, pair)', c \notin DirectsOf(directs, pair)
          PROVE  \E g \in Handler : /\ PairOf(g)' = pair /\ req'[g].conv = c
                                    /\ req'[g].step = "directStored"
        <3>1. c \in Conversation /\ storedDirects'[c] = pair
            BY <2>2 DEF DirectsOf
        <3>2. CASE c = c0
            <4>1. PairOf(h)' = pair
                BY <1>5, <1>7, <1>8, <3>1, <3>2
            <4>. QED  BY <1>2, <3>2, <4>1
        <3>3. CASE c # c0
            <4>1. c \in DirectsOf(storedDirects, pair)
                BY <1>8, <3>1, <3>3 DEF DirectsOf
            <4>2. PICK g \in Handler : /\ PairOf(g) = pair /\ req[g].conv = c
                                       /\ req[g].step = "directStored"
                BY <2>1, <2>2, <4>1
            <4>3. g # h
                BY <4>2
            <4>. QED  BY <1>2, <1>7, <4>2, <4>3
        <3>. QED  BY <3>2, <3>3
    <2>3. \A g \in Handler : PairOf(g)' = pair /\ req'[g].step \in Opening =>
             DirectsOf(directs, pair) = {}
        BY <1>2, <1>3, <1>7, <2>1
    <2>4. DirectsOf(directs, pair)' = DirectsOf(directs, pair)
        BY <1>17
    <2>. QED  BY ZenonT(60), <2>1, <2>2, <2>3, <2>4
<1>20. TypeOK'
    BY <1>1, <1>2, <1>8 DEF TypeOK
<1>21. \A u : Received(u)' = Received(u)
    BY <1>1 DEF Received
<1>22. \A u \in Watcher, g \in Handler :
          req[g].step \in Answering /\ req[g].by = u =>
             req'[g].step \in Answering /\ req'[g].by = u
    BY <1>2, <1>3
<1>23. LatestIsCurrent'
    BY <1>1, <1>21, <1>22, LatestStays
<1>. QED
    BY <1>9, <1>10, <1>11, <1>12, <1>13, <1>14, <1>15, <1>16, <1>18, <1>19, <1>20, <1>23
    DEF ContactsInv
\* The database executes the update of an answered invitation.
LEMMA UpdateAnswerKeepsInv ==
    ASSUME ContactsInv, NEW h \in Handler,
           req[h].step = "updateAnswer",
           storedInvitations' = [storedInvitations EXCEPT ![req[h].inv].status = req[h].verdict],
           req' = [req EXCEPT ![h].step = "answerStored"],
           UNCHANGED <<storedDirects, memory, pages, notices, missed, raced, confirmed>>
    PROVE  ContactsInv'
<1> USE ContactConstants
<1> DEFINE i == req[h].inv
           rec == [storedInvitations[i] EXCEPT !.status = req[h].verdict]
<1>1. /\ UNCHANGED <<invitations, directs, storedDirects, page, asked, answers, notices,
                     missed, raced, confirmed>>
      /\ storedInvitations' = [storedInvitations EXCEPT ![i] = rec]
    BY DEF memory, pages
<1>2. /\ TypeOK
      /\ req' \in [Handler -> Request]
      /\ req'[h].step = "answerStored" /\ req'[h].by = req[h].by
      /\ req'[h].with = req[h].with /\ req'[h].inv = i /\ req'[h].conv = req[h].conv
      /\ req'[h].verdict = req[h].verdict
      /\ \A g \in Handler : g # h => req'[g] = req[g]
    <2>1. TypeOK /\ "answerStored" \in Step
        BY DEF ContactsInv, Step
    <2>. QED  BY <2>1, RequestMoved
<1>3. /\ req[h].step \in Answering /\ req'[h].step \in Answering
      /\ req[h].step \in Busy \ Inviting
      /\ Inviting \subseteq Busy /\ Opening \subseteq Busy /\ Answering \subseteq Busy
      /\ "answerStored" \notin Inviting \union Opening \union {"restoreDirect", "idle", "confirmed"}
      /\ "updateAnswer" \notin Inviting \union Opening
    BY <1>2 DEF Busy, Inviting, Opening, Answering
<1>4. /\ i \in Invitation /\ i # None /\ req[h].by \in User /\ req[h].with \in User
      /\ req[h].by # req[h].with
    BY <1>3 DEF ContactsInv, RequestIsWhole
<1>5. /\ invitations[i] # None /\ invitations[i].from = req[h].with /\ invitations[i].to = req[h].by
      /\ req[h].verdict \in Verdict /\ invitations[i].status # "pending"
      /\ req[h].verdict = "accepted" => DirectsOf(directs, PairOf(h)) # {}
    BY <1>3, <1>4 DEF ContactsInv, AnswerIsFounded
<1>6. /\ storedInvitations[i] \in InvitationRecord /\ storedInvitations[i] # None
      /\ storedInvitations[i].from = req[h].with /\ storedInvitations[i].to = req[h].by
    BY <1>2, <1>4, <1>5 DEF ContactsInv, InvitationsAreStored, TypeOK
<1>7. /\ rec \in InvitationRecord /\ rec # None /\ rec.status = req[h].verdict
      /\ rec.from = req[h].with /\ rec.to = req[h].by /\ rec.status # "pending"
    BY <1>5, <1>6, NoneIsNoRecord DEF InvitationRecord, Verdict
<1>8. \A g \in Handler : PairOf(g)' = PairOf(g)
    BY <1>2 DEF PairOf
<1> HIDE DEF rec, i
<1>9. /\ storedInvitations'[i] = rec
      /\ \A j \in Invitation : j # i => storedInvitations'[j] = storedInvitations[j]
      /\ storedInvitations' \in [Invitation -> InvitationRecord \union {None}]
    <2>1. storedInvitations \in [Invitation -> InvitationRecord \union {None}]
        BY <1>2 DEF TypeOK
    <2>. QED  BY <1>1, <1>4, <1>7, <2>1
<1>10. \A j \in Invitation :
          /\ storedInvitations'[j] = None <=> storedInvitations[j] = None
          /\ storedInvitations[j] # None =>
                /\ storedInvitations'[j].from = storedInvitations[j].from
                /\ storedInvitations'[j].to = storedInvitations[j].to
          /\ storedInvitations[j].status # "pending" => storedInvitations'[j].status # "pending"
    BY <1>6, <1>7, <1>9
<1>11. RequestIsWhole'
    <2> SUFFICES ASSUME NEW g \in Handler
                 PROVE  /\ req'[g].step # "idle" => req'[g].by \in User
                        /\ req'[g].step \in Busy => req'[g].with \in User /\ req'[g].by # req'[g].with
                        /\ req'[g].step \in Inviting => req'[g].inv \in Invitation /\ req'[g].verdict = None
                        /\ req'[g].step \in Opening \union {"restoreDirect"} => req'[g].conv \in Conversation
                        /\ req'[g].step \in Answering => req'[g].inv \in Invitation
                        /\ req'[g].step = "confirmed" => req'[g].inv \in confirmed'
        BY DEF RequestIsWhole
    <2>1. CASE g = h
        BY <1>2, <1>3, <1>4, <2>1
    <2>2. CASE g # h
        BY <1>1, <1>2, <2>2 DEF ContactsInv, RequestIsWhole
    <2>. QED  BY <2>1, <2>2
<1>12. \A g \in Handler : req'[g].step \in Inviting \union Opening \union {"restoreDirect"} =>
          req'[g] = req[g]
    BY <1>2, <1>3
<1>13. InvitationIsNew'
    <2> SUFFICES ASSUME NEW g \in Handler, req'[g].step \in Inviting
                 PROVE  /\ invitations[req'[g].inv] = None
                        /\ req'[g].step = "insertInvitation" => storedInvitations'[req'[g].inv] = None
                        /\ req'[g].step = "invitationStored" =>
                              storedInvitations'[req'[g].inv] =
                                 [from |-> req'[g].by, to |-> req'[g].with, status |-> "pending"]
                        /\ \A k \in Handler :
                              req'[k].step \in Inviting /\ req'[k].inv = req'[g].inv => k = g
        BY <1>1 DEF InvitationIsNew
    <2>1. req'[g] = req[g] /\ req[g].inv \in Invitation /\ invitations[req[g].inv] = None
        BY <1>12 DEF ContactsInv, RequestIsWhole, InvitationIsNew
    <2>2. storedInvitations'[req[g].inv] = storedInvitations[req[g].inv]
        BY <1>5, <1>9, <2>1
    <2>3. \A k \in Handler : req'[k].step \in Inviting /\ req'[k].inv = req'[g].inv => k = g
        BY <1>12, <2>1 DEF ContactsInv, InvitationIsNew
    <2>. QED  BY <2>1, <2>2, <2>3 DEF ContactsInv, InvitationIsNew
<1>14. DirectIsNew' /\ DirectsAreStored'
    <2>1. DirectsAreStored'
        BY <1>1 DEF ContactsInv, DirectsAreStored
    <2>2. DirectIsNew'
        <3> SUFFICES ASSUME NEW g \in Handler
                     PROVE  /\ req'[g].step \in Opening =>
                                 /\ directs[req'[g].conv] = {}
                                 /\ req'[g].step = "insertDirect" => storedDirects[req'[g].conv] = {}
                                 /\ req'[g].step = "directStored" =>
                                       storedDirects[req'[g].conv] = PairOf(g)'
                                 /\ \A k \in Handler :
                                       req'[k].step \in Opening /\ req'[k].conv = req'[g].conv => k = g
                            /\ req'[g].step = "restoreDirect" => directs[req'[g].conv] = PairOf(g)'
            BY <1>1 DEF DirectIsNew
        <3>1. req'[g].step \in Opening =>
                 \A k \in Handler :
                    req'[k].step \in Opening /\ req'[k].conv = req'[g].conv => k = g
            BY <1>12 DEF ContactsInv, DirectIsNew
        <3>2. /\ req'[g].step \in Opening =>
                    /\ directs[req'[g].conv] = {}
                    /\ req'[g].step = "insertDirect" => storedDirects[req'[g].conv] = {}
                    /\ req'[g].step = "directStored" => storedDirects[req'[g].conv] = PairOf(g)
              /\ req'[g].step = "restoreDirect" => directs[req'[g].conv] = PairOf(g)
            BY ZenonT(60), <1>12 DEF ContactsInv, DirectIsNew
        <3>. QED  BY <1>8, <3>1, <3>2
    <2>. QED  BY <2>1, <2>2
<1>15. InvitationsAreStored'
    BY <1>1, <1>10 DEF ContactsInv, InvitationsAreStored
<1>16. AnswerIsFounded'
    <2> SUFFICES ASSUME NEW g \in Handler,
                        req'[g].step \in Busy \ Inviting, req'[g].inv # None
                 PROVE  /\ invitations[req'[g].inv] # None
                        /\ invitations[req'[g].inv].from = req'[g].with
                        /\ invitations[req'[g].inv].to = req'[g].by
                        /\ req'[g].verdict \in Verdict
                        /\ req'[g].step \notin Answering => req'[g].verdict = "accepted"
                        /\ req'[g].step \in Answering =>
                              /\ invitations[req'[g].inv].status # "pending"
                              /\ req'[g].verdict = "accepted" => DirectsOf(directs, PairOf(g))' # {}
                        /\ req'[g].step = "answerStored" =>
                              storedInvitations'[req'[g].inv].status # "pending"
        BY <1>1 DEF AnswerIsFounded
    <2>1. DirectsOf(directs, PairOf(g))' = DirectsOf(directs, PairOf(g))
        BY <1>1, <1>8 DEF DirectsOf
    <2>2. CASE g = h
        BY <1>2, <1>3, <1>5, <1>7, <1>9, <2>1, <2>2
    <2>3. CASE g # h
        <3>1. req'[g] = req[g] /\ req[g].inv \in Invitation
            BY <1>2, <2>3 DEF TypeOK, Request
        <3>2. /\ invitations[req[g].inv] # None
              /\ invitations[req[g].inv].from = req[g].with
              /\ invitations[req[g].inv].to = req[g].by
              /\ req[g].verdict \in Verdict
              /\ req[g].step \notin Answering => req[g].verdict = "accepted"
              /\ req[g].step \in Answering =>
                    /\ invitations[req[g].inv].status # "pending"
                    /\ req[g].verdict = "accepted" => DirectsOf(directs, PairOf(g)) # {}
              /\ req[g].step = "answerStored" =>
                    storedInvitations[req[g].inv].status # "pending"
            BY <3>1 DEF ContactsInv, AnswerIsFounded
        <3>. QED  BY <1>10, <2>1, <3>1, <3>2
    <2>. QED  BY <2>2, <2>3
<1>17. AcceptedAreContacts'
    <2>1. rec.status = "accepted" => \E c \in Conversation : storedDirects[c] = {rec.from, rec.to}
        <3> SUFFICES ASSUME rec.status = "accepted"
                     PROVE  \E c \in Conversation : storedDirects[c] = {rec.from, rec.to}
            OBVIOUS
        <3>1. PICK c \in Conversation : directs[c] = PairOf(h)
            BY <1>5, <1>7 DEF DirectsOf
        <3>2. directs[c] # {} /\ PairOf(h) = {rec.from, rec.to}
            BY <1>7, <3>1 DEF PairOf
        <3>. QED  BY <3>1, <3>2 DEF ContactsInv, DirectsAreStored
    <2>2. \A j \in Invitation :
             storedInvitations'[j] # None /\ storedInvitations'[j].status = "accepted" =>
                \/ storedInvitations'[j] = storedInvitations[j]
                \/ \E c \in Conversation :
                      storedDirects'[c] = {storedInvitations'[j].from, storedInvitations'[j].to}
        BY <1>1, <1>9, <2>1
    <2>. QED  BY <1>1, <2>2, ContactsAreKept DEF ContactsInv
<1>18. AnswersAreKept'
    <2>1. confirmed \subseteq Invitation
        BY <1>2 DEF TypeOK
    <2>. QED  BY <1>1, <1>10, <2>1 DEF ContactsInv, AnswersAreKept
<1>19. PairsTakeTurns'
    BY <1>1, <1>2, <1>3, <1>8, TurnsAreKept DEF ContactsInv
<1>20. \A pair : /\ PendingBetween(invitations, pair)' = PendingBetween(invitations, pair)
                 /\ DirectsOf(directs, pair)' = DirectsOf(directs, pair)
                 /\ DirectsOf(storedDirects, pair)' = DirectsOf(storedDirects, pair)
    BY <1>1 DEF PendingBetween, DirectsOf
<1>21. \A pair : \A j \in PendingBetween(storedInvitations, pair)' :
          j \in PendingBetween(storedInvitations, pair) /\ j # i
    <2> SUFFICES ASSUME NEW pair, NEW j \in PendingBetween(storedInvitations, pair)'
                 PROVE  j \in PendingBetween(storedInvitations, pair) /\ j # i
        OBVIOUS
    <2>1. j \in Invitation /\ storedInvitations'[j].status = "pending"
        BY DEF PendingBetween
    <2>2. j # i /\ storedInvitations'[j] = storedInvitations[j]
        BY <1>7, <1>9, <2>1
    <2>. QED  BY <2>1, <2>2 DEF PendingBetween
<1>22. OneInvitation'
    <2> SUFFICES ASSUME NEW pair \in Pair \ raced
                 PROVE  /\ \A j, k \in PendingBetween(invitations, pair)' : j = k
                        /\ \A j \in PendingBetween(storedInvitations, pair)' :
                              \/ j \in PendingBetween(invitations, pair)'
                              \/ \E g \in Handler : /\ PairOf(g)' = pair /\ req'[g].inv = j
                                                    /\ req'[g].step \in {"invitationStored", "updateAnswer"}
                        /\ \A g \in Handler : PairOf(g)' = pair =>
                              /\ req'[g].step \in Inviting \union Answering =>
                                    PendingBetween(invitations, pair)' = {}
                              /\ req'[g].step \in Busy /\ req'[g].inv # None =>
                                    PendingBetween(invitations, pair)' \subseteq {req'[g].inv}
        BY <1>1 DEF OneInvitation
    <2>1. /\ \A j, k \in PendingBetween(invitations, pair) : j = k
          /\ \A j \in PendingBetween(storedInvitations, pair) :
                \/ j \in PendingBetween(invitations, pair)
                \/ \E g \in Handler : /\ PairOf(g) = pair /\ req[g].inv = j
                                      /\ req[g].step \in {"invitationStored", "updateAnswer"}
          /\ \A g \in Handler : PairOf(g) = pair =>
                /\ req[g].step \in Inviting \union Answering => PendingBetween(invitations, pair) = {}
                /\ req[g].step \in Busy /\ req[g].inv # None =>
                      PendingBetween(invitations, pair) \subseteq {req[g].inv}
        BY DEF ContactsInv, OneInvitation
    <2>2. PendingBetween(invitations, pair)' = PendingBetween(invitations, pair)
        BY <1>20
    <2>3. ASSUME NEW j \in PendingBetween(storedInvitations, pair)',
                 j \notin PendingBetween(invitations, pair)
          PROVE  \E g \in Handler : /\ PairOf(g)' = pair /\ req'[g].inv = j
                                    /\ req'[g].step \in {"invitationStored", "updateAnswer"}
        <3>1. j \in PendingBetween(storedInvitations, pair) /\ j # i
            BY <1>21, <2>3
        <3>2. PICK g \in Handler : /\ PairOf(g) = pair /\ req[g].inv = j
                                   /\ req[g].step \in {"invitationStored", "updateAnswer"}
            BY <2>1, <2>3, <3>1
        <3>3. g # h
            BY <3>1, <3>2 DEF i
        <3>. QED  BY <1>2, <1>8, <3>2, <3>3
    <2>4. \A g \in Handler : PairOf(g)' = pair =>
             /\ req'[g].step \in Inviting \union Answering =>
                   PendingBetween(invitations, pair) = {}
             /\ req'[g].step \in Busy /\ req'[g].inv # None =>
                   PendingBetween(invitations, pair) \subseteq {req'[g].inv}
        BY <1>2, <1>3, <1>8, <2>1
    <2>5. \A j \in PendingBetween(storedInvitations, pair)' :
             \/ j \in PendingBetween(invitations, pair)'
             \/ \E g \in Handler : /\ PairOf(g)' = pair /\ req'[g].inv = j
                                   /\ req'[g].step \in {"invitationStored", "updateAnswer"}
        BY <2>2, <2>3
    <2>6. \A j, k \in PendingBetween(invitations, pair)' : j = k
        BY <2>1, <2>2
    <2>7. \A g \in Handler : PairOf(g)' = pair =>
             /\ req'[g].step \in Inviting \union Answering =>
                   PendingBetween(invitations, pair)' = {}
             /\ req'[g].step \in Busy /\ req'[g].inv # None =>
                   PendingBetween(invitations, pair)' \subseteq {req'[g].inv}
        BY <2>2, <2>4
    <2>. QED  BY <2>5, <2>6, <2>7
<1>23. OneDirect'
    <2> SUFFICES ASSUME NEW pair \in Pair \ raced
                 PROVE  /\ \A c, d \in DirectsOf(directs, pair) : c = d
                        /\ \A c \in DirectsOf(storedDirects, pair) :
                              \/ c \in DirectsOf(directs, pair)
                              \/ \E g \in Handler : /\ PairOf(g)' = pair /\ req'[g].conv = c
                                                    /\ req'[g].step = "directStored"
                        /\ \A g \in Handler : PairOf(g)' = pair /\ req'[g].step \in Opening =>
                              DirectsOf(directs, pair) = {}
        BY <1>1, <1>20 DEF OneDirect
    <2>1. \A g \in Handler :
             req[g].step = "directStored" \/ req'[g].step \in Opening => req'[g] = req[g]
        BY <1>2, <1>3
    <2>2. /\ \A c, d \in DirectsOf(directs, pair) : c = d
          /\ \A c \in DirectsOf(storedDirects, pair) :
                \/ c \in DirectsOf(directs, pair)
                \/ \E g \in Handler : /\ PairOf(g) = pair /\ req[g].conv = c
                                      /\ req[g].step = "directStored"
          /\ \A g \in Handler : PairOf(g) = pair /\ req[g].step \in Opening =>
                DirectsOf(directs, pair) = {}
        BY DEF ContactsInv, OneDirect
    <2>3. \A g \in Handler : PairOf(g)' = pair /\ req'[g].step \in Opening =>
             DirectsOf(directs, pair) = {}
        <3> SUFFICES ASSUME NEW g \in Handler, PairOf(g)' = pair, req'[g].step \in Opening
                     PROVE  DirectsOf(directs, pair) = {}
            OBVIOUS
        <3>1. PairOf(g) = pair
            BY <1>8
        <3>2. req[g].step \in Opening
            BY <2>1
        <3>. QED  BY <2>2, <3>1, <3>2
    <2>. QED  BY <1>8, <2>1, <2>2, <2>3
<1>24. TypeOK'
    BY <1>1, <1>2, <1>9 DEF TypeOK
<1>25. \A u : Received(u)' = Received(u)
    BY <1>1 DEF Received
<1>26. \A u \in Watcher, g \in Handler :
          req[g].step \in Answering /\ req[g].by = u =>
             req'[g].step \in Answering /\ req'[g].by = u
    BY <1>2, <1>3
<1>27. LatestIsCurrent'
    BY <1>1, <1>25, <1>26, LatestStays
<1>. QED
    BY <1>11, <1>13, <1>14, <1>15, <1>16, <1>17, <1>18, <1>19, <1>22, <1>23, <1>24, <1>27
    DEF ContactsInv

LEMMA ExecuteKeepsInv ==
    ASSUME ContactsInv, NEW h \in Handler, Execute(h)
    PROVE  ContactsInv'
BY InsertInvitationKeepsInv, InsertDirectKeepsInv, UpdateAnswerKeepsInv DEF Execute

\* The process is started again: memory is what the tables hold.
LEMMA RestartKeepsInv ==
    ASSUME ContactsInv, Restart
    PROVE  ContactsInv'
<1> USE ContactConstants
<1>1. /\ invitations' = storedInvitations /\ directs' = storedDirects
      /\ req' = [h \in Handler |-> Idle]
      /\ page' = [u \in User |-> [page[u] EXCEPT !.processing = None]]
      /\ asked' = [u \in User |-> 0]
      /\ notices' = [u \in User |-> 0]
      /\ missed' = Watcher
      /\ raced' = raced \union {pair \in Pair : UnderWay(pair)}
      /\ UNCHANGED <<storedInvitations, storedDirects, answers, confirmed>>
    BY DEF Restart, tables
<1>2. /\ TypeOK /\ Idle \in Request /\ Idle.step = "idle"
      /\ page \in [User -> [list : SUBSET Invitation, processing : Invitation \union {None}]]
    BY DEF ContactsInv, TypeOK, Request, Idle, Step
<1>3. req' \in [Handler -> Request] /\ \A h \in Handler : req'[h].step = "idle"
    BY <1>1, <1>2
<1>4. RequestIsWhole' /\ InvitationIsNew' /\ DirectIsNew' /\ AnswerIsFounded' /\ PairsTakeTurns'
    BY <1>3 DEF RequestIsWhole, InvitationIsNew, DirectIsNew, AnswerIsFounded,
        PairsTakeTurns, Busy, Inviting, Opening, Answering
<1>5. InvitationsAreStored' /\ DirectsAreStored'
    BY <1>1 DEF ContactsInv, InvitationsAreStored, DirectsAreStored
<1>6. AcceptedAreContacts'
    <2>1. AcceptedAreContacts
        BY DEF ContactsInv
    <2>. QED  BY <1>1, <2>1 DEF AcceptedAreContacts, DirectsOf
<1>7. AnswersAreKept'
    <2>1. \A i \in confirmed : storedInvitations[i] # None
        BY <1>2 DEF ContactsInv, AnswersAreKept, InvitationsAreStored, TypeOK
    <2>. QED  BY <1>1, <2>1 DEF ContactsInv, AnswersAreKept
<1>8. \A pair : /\ PendingBetween(invitations, pair)' = PendingBetween(storedInvitations, pair)
                /\ PendingBetween(storedInvitations, pair)' = PendingBetween(storedInvitations, pair)
                /\ DirectsOf(directs, pair)' = DirectsOf(storedDirects, pair)
                /\ DirectsOf(storedDirects, pair)' = DirectsOf(storedDirects, pair)
    BY <1>1 DEF PendingBetween, DirectsOf
<1>9. ASSUME NEW pair \in Pair \ raced'
      PROVE  /\ pair \in Pair \ raced
             /\ \A h \in Handler : PairOf(h) = pair => req[h].step \notin Busy
    BY <1>1, <1>2, <1>9, UnderWayIsBusy
<1>10. /\ {"invitationStored", "updateAnswer", "directStored"} \subseteq Busy
       /\ "idle" \notin Inviting \union Opening \union Answering \union Busy
    BY DEF Busy, Inviting, Opening, Answering
<1>11. OneInvitation'
    <2> SUFFICES ASSUME NEW pair \in Pair \ raced'
                 PROVE  \A i, j \in PendingBetween(storedInvitations, pair) : i = j
        BY <1>3, <1>8, <1>10 DEF OneInvitation
    <2>1. PendingBetween(storedInvitations, pair) \subseteq PendingBetween(invitations, pair)
        BY <1>9, <1>10 DEF ContactsInv, OneInvitation
    <2>2. \A i, j \in PendingBetween(invitations, pair) : i = j
        BY <1>9 DEF ContactsInv, OneInvitation
    <2>. QED  BY <2>1, <2>2
<1>12. OneDirect'
    <2> SUFFICES ASSUME NEW pair \in Pair \ raced'
                 PROVE  \A c, d \in DirectsOf(storedDirects, pair) : c = d
        BY <1>3, <1>8, <1>10 DEF OneDirect
    <2>1. DirectsOf(storedDirects, pair) \subseteq DirectsOf(directs, pair)
        BY <1>9, <1>10 DEF ContactsInv, OneDirect
    <2>2. \A c, d \in DirectsOf(directs, pair) : c = d
        BY <1>9 DEF ContactsInv, OneDirect
    <2>. QED  BY <2>1, <2>2
<1>13. LatestIsCurrent'
    BY <1>1 DEF LatestIsCurrent
<1>14. TypeOK'
    <2>1. page' \in [User -> [list : SUBSET Invitation, processing : Invitation \union {None}]]
        BY <1>1, <1>2
    <2>2. asked' \in [User -> 0 .. MaxRefreshes] /\ notices' \in [User -> Nat]
          /\ missed' \subseteq User /\ raced' \subseteq Pair
        BY <1>1, <1>2 DEF TypeOK
    <2>. QED  BY <1>1, <1>2, <1>3, <2>1, <2>2 DEF TypeOK
<1>. QED
    BY <1>4, <1>5, <1>6, <1>7, <1>11, <1>12, <1>13, <1>14 DEF ContactsInv

LEMMA NextKeepsInv == ContactsInv /\ [Next]_vars => ContactsInv'
<1> SUFFICES ASSUME ContactsInv, [Next]_vars
             PROVE  ContactsInv'
    OBVIOUS
<1>1. CASE UNCHANGED vars
    <2>1. /\ UNCHANGED <<memory, tables, page, asked, answers, notices, missed, raced, confirmed, req>>
          /\ TypeOK'
        BY <1>1 DEF vars, memory, tables, pages, ContactsInv, TypeOK
    <2>2. AnswersAreKept'
        BY <2>1 DEF ContactsInv, AnswersAreKept, memory, tables
    <2>3. StoredInv' /\ PairsInv'
        BY <2>1, <2>2, QuietStepKeeps
    <2>4. \A u : Received(u)' = Received(u)
        BY <2>1 DEF Received, memory
    <2>5. LatestIsCurrent'
        BY <2>1, <2>4, LatestStays
    <2>. QED  BY <2>1, <2>3, <2>5 DEF StoredInv, PairsInv, ContactsInv
<1>2. ASSUME NEW h \in Handler, NEW u \in User, NEW v \in User,
             Invite(h, u, v) \/ OpenDirect(h, u, v)
      PROVE  ContactsInv'
    BY <1>2, InviteKeepsInv, OpenDirectKeepsInv
<1>3. ASSUME NEW h \in Handler, NEW u \in Watcher, NEW i \in Invitation,
             Accept(h, u, i) \/ Decline(h, u, i) \/ RefuseAnswer(h, u, i)
      PROVE  ContactsInv'
    BY <1>3, AcceptKeepsInv, DeclineKeepsInv, RefuseAnswerKeepsInv
<1>4. ASSUME NEW h \in Handler,
             \/ FinishInvite(h) \/ RestoreDirect(h) \/ FinishDirect(h) \/ FinishAnswer(h)
             \/ Execute(h) \/ DbFails(h) \/ PageAnswered(h)
      PROVE  ContactsInv'
    BY <1>4, FinishInviteKeepsInv, RestoreDirectKeepsInv, FinishDirectKeepsInv,
       FinishAnswerKeepsInv, ExecuteKeepsInv, DbFailsKeepsInv, PageAnsweredKeepsInv
<1>5. ASSUME NEW u \in Watcher,
             \/ OpenPage(u) \/ Notice(u) \/ LoseNotice(u) \/ ReadReceived(u)
             \/ \E n \in 1 .. MaxRefreshes : ShowReceived(u, n)
      PROVE  ContactsInv'
    BY <1>5, OpenPageKeepsInv, PageStepsKeepInv
<1>6. CASE Restart
    BY <1>6, RestartKeepsInv
<1>. QED  BY <1>1, <1>2, <1>3, <1>4, <1>5, <1>6 DEF Next

LEMMA ContactsInvariant == Spec => []ContactsInv
BY InitEstablishesInv, NextKeepsInv, PTL DEF Spec

-----------------------------------------------------------------------------
\* Memory, tables, requests, pages and histories keep their types, whatever
\* fails and in whichever order requests, answers and notices arrive.
THEOREM ContactsTypeCorrect == Spec => []TypeOK
<1>1. ContactsInv => TypeOK
    BY DEF ContactsInv
<1>. QED  BY <1>1, ContactsInvariant, PTL

\* respond(accepted): the users of an accepted invitation have a direct
\* conversation, in memory and in the tables, at every moment, also when a
\* write failed or the process was restarted between the two writes.
THEOREM ContactsAcceptedAreContacts == Spec => []AcceptedAreContacts
<1>1. ContactsInv => AcceptedAreContacts
    BY DEF ContactsInv
<1>. QED  BY <1>1, ContactsInvariant, PTL

\* respond: an answer that was confirmed to the recipient survives restarts;
\* no overlapping request makes its invitation pending again.
THEOREM ContactsAnswersAreKept == Spec => []AnswersAreKept
<1>1. ContactsInv => AnswersAreKept
    BY DEF ContactsInv
<1>. QED  BY <1>1, ContactsInvariant, PTL

\* A set whose elements are all equal has one at most.
LEMMA OneAtMost ==
    ASSUME NEW S, \A x, y \in S : x = y
    PROVE  Cardinality(S) <= 1
<1>1. CASE S = {}
    BY <1>1, FS_EmptySet
<1>2. CASE S # {}
    <2>1. PICK x \in S : S = {x}
        BY <1>2
    <2>. QED  BY <2>1, FS_Singleton
<1>. QED  BY <1>1, <1>2

\* create and createDirectConversation: two users share one pending
\* invitation and one direct conversation at most, in memory and in the
\* tables, unless two requests over them overlapped or one was cut short.
THEOREM ContactsOneLinkPerPair == Spec => []OneLinkPerPair
<1>1. ContactsInv => OneLinkPerPair
    <2> SUFFICES ASSUME ContactsInv, NEW pair \in Pair \ raced
                 PROVE  /\ Cardinality(PendingBetween(invitations, pair)) <= 1
                        /\ Cardinality(PendingBetween(storedInvitations, pair)) <= 1
                        /\ Cardinality(DirectsOf(directs, pair)) <= 1
                        /\ Cardinality(DirectsOf(storedDirects, pair)) <= 1
        BY DEF OneLinkPerPair
    <2>1. {"invitationStored", "updateAnswer", "directStored"} \subseteq Busy
        BY DEF Busy, Inviting, Opening, Answering
    <2>2. \A h, g \in Handler :
             /\ PairOf(h) = pair /\ PairOf(g) = pair
             /\ req[h].step \in Busy /\ req[g].step \in Busy
             => h = g
        BY DEF ContactsInv, PairsTakeTurns
    <2>3. \A i, j \in PendingBetween(invitations, pair) : i = j
        BY DEF ContactsInv, OneInvitation
    <2>4. \A i, j \in PendingBetween(storedInvitations, pair) : i = j
        <3> SUFFICES ASSUME NEW i \in PendingBetween(storedInvitations, pair),
                            NEW j \in PendingBetween(storedInvitations, pair), i # j
                     PROVE  FALSE
            OBVIOUS
        <3>1. \A k \in PendingBetween(storedInvitations, pair) :
                 \/ k \in PendingBetween(invitations, pair)
                 \/ \E h \in Handler : /\ PairOf(h) = pair /\ req[h].inv = k
                                       /\ req[h].step \in {"invitationStored", "updateAnswer"}
            BY DEF ContactsInv, OneInvitation
        <3>2. \A h \in Handler :
                 PairOf(h) = pair /\ req[h].step \in {"invitationStored", "updateAnswer"} =>
                    PendingBetween(invitations, pair) = {}
            BY DEF ContactsInv, OneInvitation, Inviting, Answering
        <3>. QED  BY <2>1, <2>2, <2>3, <3>1, <3>2
    <2>5. \A c, d \in DirectsOf(directs, pair) : c = d
        BY DEF ContactsInv, OneDirect
    <2>6. \A c, d \in DirectsOf(storedDirects, pair) : c = d
        <3> SUFFICES ASSUME NEW c \in DirectsOf(storedDirects, pair),
                            NEW d \in DirectsOf(storedDirects, pair), c # d
                     PROVE  FALSE
            OBVIOUS
        <3>1. \A k \in DirectsOf(storedDirects, pair) :
                 \/ k \in DirectsOf(directs, pair)
                 \/ \E h \in Handler : /\ PairOf(h) = pair /\ req[h].conv = k
                                       /\ req[h].step = "directStored"
            BY DEF ContactsInv, OneDirect
        <3>2. \A h \in Handler :
                 PairOf(h) = pair /\ req[h].step = "directStored" => DirectsOf(directs, pair) = {}
            BY DEF ContactsInv, OneDirect, Opening
        <3>. QED  BY <2>1, <2>2, <2>5, <3>1, <3>2
    <2>. QED  BY <2>3, <2>4, <2>5, <2>6, OneAtMost
<1>. QED  BY <1>1, ContactsInvariant, PTL

\* The page that lists the received invitations shows exactly the pending
\* ones once it was told everything, unless it missed a notice or an older
\* list overtook a newer one.
THEOREM ContactsPageIsCurrent == Spec => []PageIsCurrent
<1>1. ContactsInv => PageIsCurrent
    <2> SUFFICES ASSUME ContactsInv, NEW u \in Watcher \ missed, Told(u)
                 PROVE  page[u].list = Received(u)
        BY DEF PageIsCurrent
    <2>1. /\ asked[u] \in Nat /\ answers[u] \in Seq(SUBSET Invitation) /\ notices[u] = 0
          /\ asked[u] + Len(answers[u]) = 0
          /\ \A h \in Handler : req[h].step \in Answering => req[h].by # u
        BY ContactConstants DEF ContactsInv, TypeOK, Told, Refreshing, Answering
    <2>2. asked[u] = 0 /\ answers[u] = <<>>
        <3>1. Len(answers[u]) \in Nat
            BY <2>1
        <3>2. asked[u] = 0 /\ Len(answers[u]) = 0
            BY <2>1, <3>1
        <3>. QED  BY <2>1, <3>2, EmptySeq
    <2>. QED  BY <2>1, <2>2 DEF ContactsInv, LatestIsCurrent, Latest
<1>. QED  BY <1>1, ContactsInvariant, PTL

=============================================================================
