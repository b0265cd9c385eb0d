------------------------------ MODULE Contacts ------------------------------
(***************************************************************************)
(* Contact invitations, the direct conversations an accepted one opens,    *)
(* and the page that lists the invitations a user has received             *)
(* (backend/src/contact-invitations, createDirectConversation of           *)
(* conversations.service.ts, pages/Dashboard/Chats/index.tsx).             *)
(*                                                                         *)
(* A request checks memory and asks the database to write; the write is    *)
(* executed; the request is answered, changes memory and tells the users.  *)
(* Only respond changes memory between its two writes.  The page asks for  *)
(* its list when it is opened and at every notice; the answers may arrive  *)
(* in any order.                                                           *)
(***************************************************************************)
EXTENDS Faults, Integers, Sequences, FiniteSets

CONSTANTS
    User,           \* registered users, none of them a bot
    Watcher,        \* users who open the page
    Invitation,     \* bound: ids of the invitations that are ever stored
    Conversation,   \* bound: ids of the direct conversations ever stored
    Handler,        \* bound: requests under way at once
    MaxRefreshes,   \* bound: lists a page has asked for and not yet shown
    None            \* no record, no id

ASSUME ContactConstants ==
    /\ None \notin User \union Invitation \union Conversation
    /\ Watcher \subseteq User
    /\ MaxRefreshes \in Nat \ {0}

VARIABLES
    invitations,    \* ContactInvitationsService.invitations
    storedInvitations,
    directs,        \* the two participants of each direct conversation
    storedDirects,
    req,            \* the requests under way
    page,           \* per user: the list shown, and the invitation being answered
    asked,          \* per user: lists asked for and not yet read by the backend
    answers,        \* per user: lists read and not yet arrived, oldest first
    notices,        \* per user: contact:invitation events not yet delivered
    missed,         \* history: users whose page missed a notice or a newer list
    raced,          \* history: pairs two requests met over, or one was cut short
    confirmed       \* history: invitations whose answer was confirmed

memory == <<invitations, directs>>

tables == <<storedInvitations, storedDirects>>

pages == <<page, asked, answers>>

vars == <<memory, tables, req, pages, notices, missed, raced, confirmed>>

Verdict == {"accepted", "declined"}

InvitationRecord == [from : User, to : User, status : {"pending"} \union Verdict]

ASSUME NoneIsNoRecord == None \notin Verdict \union InvitationRecord

Pair == {{p[1], p[2]} : p \in {q \in User \X User : q[1] # q[2]}}

Step == {"idle",
         "insertInvitation", "invitationStored",
         "restoreDirect",
         "insertDirect", "directStored",
         "updateAnswer", "answerStored",
         "confirmed", "failed"}

Request == [step : Step, by : User \union {None}, with : User \union {None},
            inv : Invitation \union {None}, conv : Conversation \union {None},
            verdict : Verdict \union {None}]

Idle == [step |-> "idle", by |-> None, with |-> None, inv |-> None,
         conv |-> None, verdict |-> None]

TypeOK ==
    /\ invitations \in [Invitation -> InvitationRecord \union {None}]
    /\ storedInvitations \in [Invitation -> InvitationRecord \union {None}]
    /\ directs \in [Conversation -> Pair \union {{}}]
    /\ storedDirects \in [Conversation -> Pair \union {{}}]
    /\ req \in [Handler -> Request]
    /\ page \in [User -> [list : SUBSET Invitation,
                          processing : Invitation \union {None}]]
    /\ asked \in [User -> 0 .. MaxRefreshes]
    /\ answers \in [User -> Seq(SUBSET Invitation)]
    /\ notices \in [User -> Nat]
    /\ missed \subseteq User
    /\ raced \subseteq Pair
    /\ confirmed \subseteq Invitation

Init ==
    /\ invitations = [i \in Invitation |-> None]
    /\ storedInvitations = invitations
    /\ directs = [c \in Conversation |-> {}]
    /\ storedDirects = directs
    /\ req = [h \in Handler |-> Idle]
    /\ page = [u \in User |-> [list |-> {}, processing |-> None]]
    /\ asked = [u \in User |-> 0]
    /\ answers = [u \in User |-> <<>>]
    /\ notices = [u \in User |-> 0]
    /\ missed = {}
    /\ raced = {}
    /\ confirmed = {}

-----------------------------------------------------------------------------
\* hasDirectConversation and findDirectConversation.
DirectsOf(convs, pair) == {c \in Conversation : convs[c] = pair}

PendingBetween(invs, pair) ==
    {i \in Invitation : /\ invs[i] # None
                        /\ invs[i].status = "pending"
                        /\ {invs[i].from, invs[i].to} = pair}

\* Mutant of HasPending: an invitation the other way round is overlooked.
HasPendingFrom(u, v) ==
    \E i \in PendingBetween(invitations, {u, v}) : invitations[i].from = u

HasPending(u, v) == PendingBetween(invitations, {u, v}) # {}

\* findReceived.
Received(u) ==
    {i \in Invitation : /\ invitations[i] # None
                        /\ invitations[i].status = "pending"
                        /\ invitations[i].to = u}

\* Ids are random: one is new if neither memory, nor the table, nor a request has it.
NewInvitation(i) ==
    /\ invitations[i] = None
    /\ storedInvitations[i] = None
    /\ \A h \in Handler : req[h].inv # i

NewConversation(c) ==
    /\ directs[c] = {}
    /\ storedDirects[c] = {}
    /\ \A h \in Handler : req[h].conv # c

UnderWay(pair) ==
    \E h \in Handler : /\ req[h].step \notin {"idle", "confirmed", "failed"}
                       /\ {req[h].by, req[h].with} = pair

\* A request over this pair begins.
Meet(pair) == raced' = IF UnderWay(pair) THEN raced \union {pair} ELSE raced

CutShort(h) == raced' = raced \union {{req[h].by, req[h].with}}

Notify(users) ==
    notices' = [u \in User |->
                  IF u \in users \intersect Watcher THEN notices[u] + 1 ELSE notices[u]]

-----------------------------------------------------------------------------
\* create, up to its insert, for sender u and recipient v.
BeginInvite(h, u, v) ==
    /\ u # v
    /\ DirectsOf(directs, {u, v}) = {}
    /\ ~HasPending(u, v)
    /\ \E i \in Invitation :
          /\ NewInvitation(i)
          /\ req' = [req EXCEPT ![h] = [Idle EXCEPT !.step = "insertInvitation",
                                          !.by = u, !.with = v, !.inv = i]]

\* The form that asks for an email address sends what was typed, however
\* often, and whoever it belongs to.
Invite(h, u, v) ==
    /\ req[h].step = "idle"
    /\ BeginInvite(h, u, v)
    /\ Meet({u, v})
    /\ UNCHANGED <<memory, tables, pages, notices, missed, confirmed>>

\* Mutant of FinishInvite: the recipient's sockets are not told.
FinishInviteQuietly(h) ==
    /\ req[h].step = "invitationStored"
    /\ invitations' = [invitations EXCEPT ![req[h].inv] =
                         [from |-> req[h].by, to |-> req[h].with, status |-> "pending"]]
    /\ req' = [req EXCEPT ![h] = Idle]
    /\ UNCHANGED <<directs, tables, pages, notices, missed, raced, confirmed>>

\* create, from the answer of the insert.
FinishInvite(h) ==
    /\ req[h].step = "invitationStored"
    /\ invitations' = [invitations EXCEPT ![req[h].inv] =
                         [from |-> req[h].by, to |-> req[h].with, status |-> "pending"]]
    /\ req' = [req EXCEPT ![h] = Idle]
    /\ Notify({req[h].with})
    /\ UNCHANGED <<directs, tables, pages, missed, raced, confirmed>>

\* createDirectConversation up to its write, for the request r of u about v:
\* an existing conversation is only unhidden.
BeginDirect(h, r) ==
    LET existing == DirectsOf(directs, {r.by, r.with})
    IN IF existing # {}
          THEN \E c \in existing :
                  req' = [req EXCEPT ![h] = [r EXCEPT !.step = "restoreDirect",
                                                      !.conv = c]]
          ELSE \E c \in Conversation :
                  /\ NewConversation(c)
                  /\ req' = [req EXCEPT ![h] = [r EXCEPT !.step = "insertDirect",
                                                         !.conv = c]]

\* createDirectConversation for a user chosen in the contact list or in a profile.
OpenDirect(h, u, v) ==
    /\ req[h].step = "idle"
    /\ u # v
    /\ BeginDirect(h, [Idle EXCEPT !.by = u, !.with = v])
    /\ Meet({u, v})
    /\ UNCHANGED <<memory, tables, pages, notices, missed, confirmed>>

\* The button of an invitation on the page of u: it is disabled only while
\* that very invitation is being processed.
Click(u, i) ==
    /\ i \in page[u].list
    /\ page[u].processing # i
    /\ page' = [page EXCEPT ![u].processing = i]

\* respond refuses: the page shows the error.
RefuseAnswer(h, u, i) ==
    /\ req[h].step = "idle"
    /\ Click(u, i)
    /\ \/ invitations[i] = None
       \/ invitations[i] # None /\ invitations[i].status # "pending"
    /\ req' = [req EXCEPT ![h] = [Idle EXCEPT !.step = "failed", !.by = u, !.inv = i]]
    /\ UNCHANGED <<memory, tables, asked, answers, notices, missed, raced, confirmed>>

MayAnswer(u, i) ==
    /\ invitations[i] # None
    /\ invitations[i].to = u
    /\ invitations[i].status = "pending"

\* Mutant of Accept: the status is set before the conversation exists.
AcceptAtOnce(h, u, i) ==
    /\ req[h].step = "idle"
    /\ Click(u, i)
    /\ MayAnswer(u, i)
    /\ invitations' = [invitations EXCEPT ![i].status = "accepted"]
    /\ BeginDirect(h, [Idle EXCEPT !.by = u, !.with = invitations[i].from,
                                   !.inv = i, !.verdict = "accepted"])
    /\ Meet({u, invitations[i].from})
    /\ UNCHANGED <<directs, tables, asked, answers, notices, missed, confirmed>>

\* respond with "accepted", up to the first write of createDirectConversation.
Accept(h, u, i) ==
    /\ req[h].step = "idle"
    /\ Click(u, i)
    /\ MayAnswer(u, i)
    /\ BeginDirect(h, [Idle EXCEPT !.by = u, !.with = invitations[i].from,
                                   !.inv = i, !.verdict = "accepted"])
    /\ Meet({u, invitations[i].from})
    /\ UNCHANGED <<memory, tables, asked, answers, notices, missed, confirmed>>

\* respond with "declined", up to its update.
Decline(h, u, i) ==
    /\ req[h].step = "idle"
    /\ Click(u, i)
    /\ MayAnswer(u, i)
    /\ invitations' = [invitations EXCEPT ![i].status = "declined"]
    /\ req' = [req EXCEPT ![h] = [Idle EXCEPT !.step = "updateAnswer", !.by = u,
                                    !.with = invitations[i].from, !.inv = i,
                                    !.verdict = "declined"]]
    /\ Meet({u, invitations[i].from})
    /\ UNCHANGED <<directs, tables, asked, answers, notices, missed, confirmed>>

\* createDirectConversation has returned: it ends there, or respond sets the
\* status, whatever it has become, and asks for the update.
AfterDirect(h) ==
    IF req[h].inv = None
       THEN /\ req' = [req EXCEPT ![h] = Idle]
            /\ UNCHANGED invitations
       ELSE /\ req' = [req EXCEPT ![h].step = "updateAnswer"]
            /\ invitations' = [invitations EXCEPT ![req[h].inv].status = "accepted"]

\* The conversation existed, and the preference that hides it is reset.
RestoreDirect(h) ==
    /\ req[h].step = "restoreDirect"
    /\ AfterDirect(h)
    /\ UNCHANGED <<directs, tables, pages, notices, missed, raced, confirmed>>

FinishDirect(h) ==
    /\ req[h].step = "directStored"
    /\ directs' = [directs EXCEPT ![req[h].conv] = {req[h].by, req[h].with}]
    /\ AfterDirect(h)
    /\ UNCHANGED <<tables, pages, notices, missed, raced, confirmed>>

\* Mutant of FinishAnswer: the update is not awaited.
FinishAnswerAtOnce(h) ==
    /\ req[h].step = "updateAnswer"
    /\ req' = [req EXCEPT ![h].step = "confirmed"]
    /\ Notify({req[h].by, req[h].with})
    /\ confirmed' = confirmed \union {req[h].inv}
    /\ UNCHANGED <<memory, tables, pages, missed, raced>>

\* respond, from the answer of its update.
FinishAnswer(h) ==
    /\ req[h].step = "answerStored"
    /\ req' = [req EXCEPT ![h].step = "confirmed"]
    /\ Notify({req[h].by, req[h].with})
    /\ confirmed' = confirmed \union {req[h].inv}
    /\ UNCHANGED <<memory, tables, pages, missed, raced>>

-----------------------------------------------------------------------------
\* The database executes the write of request h.
Execute(h) ==
    /\ \/ /\ req[h].step = "insertInvitation"
          /\ storedInvitations' = [storedInvitations EXCEPT ![req[h].inv] =
                [from |-> req[h].by, to |-> req[h].with, status |-> "pending"]]
          /\ req' = [req EXCEPT ![h].step = "invitationStored"]
          /\ UNCHANGED storedDirects
       \/ /\ req[h].step = "insertDirect"
          /\ storedDirects' = [storedDirects EXCEPT ![req[h].conv] =
                {req[h].by, req[h].with}]
          /\ req' = [req EXCEPT ![h].step = "directStored"]
          /\ UNCHANGED storedInvitations
       \/ /\ req[h].step = "updateAnswer"
          /\ storedInvitations' =
                [storedInvitations EXCEPT ![req[h].inv].status = req[h].verdict]
          /\ req' = [req EXCEPT ![h].step = "answerStored"]
          /\ UNCHANGED storedDirects
    /\ UNCHANGED <<memory, pages, notices, missed, raced, confirmed>>

\* A write fails, or was executed and its answer is lost: the handler throws.
DbFails(h) ==
    /\ DbMayFail
    /\ req[h].step \notin {"idle", "confirmed", "failed"}
    /\ req' = [req EXCEPT ![h] = IF req[h].verdict = None THEN Idle
                                    ELSE [req[h] EXCEPT !.step = "failed"]]
    /\ CutShort(h)
    /\ missed' = missed \union ({req[h].by, req[h].with} \intersect Watcher)
    /\ UNCHANGED <<memory, tables, pages, notices, confirmed>>

\* onModuleInit of both services.  The sockets and the requests are gone.
Restart ==
    /\ MayRestart
    /\ invitations' = storedInvitations
    /\ directs' = storedDirects
    /\ req' = [h \in Handler |-> Idle]
    /\ page' = [u \in User |-> [page[u] EXCEPT !.processing = None]]
    /\ asked' = [u \in User |-> 0]
    /\ notices' = [u \in User |-> 0]
    /\ missed' = Watcher
    /\ raced' = raced \union {pair \in Pair : UnderWay(pair)}
    /\ UNCHANGED <<tables, answers, confirmed>>

-----------------------------------------------------------------------------
Refreshing(u) == asked[u] + Len(answers[u])

\* The page is opened: a new component, whose list is empty.
OpenPage(u) ==
    /\ page' = [page EXCEPT ![u] = [list |-> {}, processing |-> None]]
    /\ asked' = [asked EXCEPT ![u] = 1]
    /\ answers' = [answers EXCEPT ![u] = <<>>]
    /\ missed' = missed \ {u}
    /\ req' = [h \in Handler |-> IF /\ req[h].by = u
                                    /\ req[h].step \in {"confirmed", "failed"}
                                    THEN Idle ELSE req[h]]
    /\ UNCHANGED <<memory, tables, notices, raced, confirmed>>

\* handleNewInvitation and handleUpdatedInvitation.
Notice(u) ==
    /\ notices[u] > 0
    /\ Refreshing(u) < MaxRefreshes
    /\ notices' = [notices EXCEPT ![u] = @ - 1]
    /\ asked' = [asked EXCEPT ![u] = @ + 1]
    /\ UNCHANGED <<memory, tables, req, page, answers, missed, raced, confirmed>>

\* The socket is down when the event is emitted.
LoseNotice(u) ==
    /\ notices[u] > 0
    /\ notices' = [notices EXCEPT ![u] = @ - 1]
    /\ missed' = missed \union {u}
    /\ UNCHANGED <<memory, tables, req, pages, raced, confirmed>>

\* GET /contact-invitations is read by the backend.
ReadReceived(u) ==
    /\ asked[u] > 0
    /\ asked' = [asked EXCEPT ![u] = @ - 1]
    /\ answers' = [answers EXCEPT ![u] = Append(@, Received(u))]
    /\ UNCHANGED <<memory, tables, req, page, notices, missed, raced, confirmed>>

\* The n-th answer under way arrives, maybe before an older one.
ShowReceived(u, n) ==
    /\ n \in 1 .. Len(answers[u])
    /\ page' = [page EXCEPT ![u].list = answers[u][n]]
    /\ answers' = [answers EXCEPT ![u] =
                     SubSeq(@, 1, n - 1) \o SubSeq(@, n + 1, Len(@))]
    /\ missed' = IF n > 1 THEN missed \union {u} ELSE missed
    /\ UNCHANGED <<memory, tables, req, asked, notices, raced, confirmed>>

\* respondToInvitation of the page: the invitation leaves the list when its
\* answer is confirmed; in any case no invitation is being processed.
PageAnswered(h) ==
    /\ req[h].step \in {"confirmed", "failed"}
    /\ page' = [page EXCEPT ![req[h].by] =
                  [list |-> IF req[h].step = "confirmed" THEN @.list \ {req[h].inv}
                            ELSE @.list,
                   processing |-> None]]
    /\ req' = [req EXCEPT ![h] = Idle]
    /\ UNCHANGED <<memory, tables, asked, answers, notices, missed, raced, confirmed>>

-----------------------------------------------------------------------------
Next ==
    \/ \E h \in Handler :
          \/ \E u, v \in User : Invite(h, u, v) \/ OpenDirect(h, u, v)
          \/ \E u \in Watcher, i \in Invitation :
                \/ Accept(h, u, i)
                \/ Decline(h, u, i)
                \/ RefuseAnswer(h, u, i)
          \/ FinishInvite(h)
          \/ RestoreDirect(h)
          \/ FinishDirect(h)
          \/ FinishAnswer(h)
          \/ Execute(h)
          \/ DbFails(h)
          \/ PageAnswered(h)
    \/ \E u \in Watcher :
          \/ OpenPage(u)
          \/ Notice(u)
          \/ LoseNotice(u)
          \/ ReadReceived(u)
          \/ \E n \in 1 .. MaxRefreshes : ShowReceived(u, n)
    \/ Restart

Spec == Init /\ [][Next]_vars

-----------------------------------------------------------------------------
\* An accepted invitation has made its two users contacts, in memory and in
\* the tables alike, whatever was cut short in between: the conversation is
\* stored before the status is set, and the status is stored last.
AcceptedAreContacts ==
    \A i \in Invitation :
       /\ invitations[i] # None /\ invitations[i].status = "accepted"
             => DirectsOf(directs, {invitations[i].from, invitations[i].to}) # {}
       /\ storedInvitations[i] # None /\ storedInvitations[i].status = "accepted"
             => DirectsOf(storedDirects,
                          {storedInvitations[i].from, storedInvitations[i].to}) # {}

\* An invitation whose answer was confirmed to the recipient never becomes
\* pending again, not even after a restart.
AnswersAreKept ==
    \A i \in confirmed : /\ invitations[i] # None
                         /\ invitations[i].status # "pending"
                         /\ storedInvitations[i].status # "pending"

\* Two users share at most one pending invitation and one direct
\* conversation, in either direction, unless two requests over them were
\* under way at once or one was cut short.
OneLinkPerPair ==
    \A pair \in Pair \ raced :
       /\ Cardinality(PendingBetween(invitations, pair)) <= 1
       /\ Cardinality(PendingBetween(storedInvitations, pair)) <= 1
       /\ Cardinality(DirectsOf(directs, pair)) <= 1
       /\ Cardinality(DirectsOf(storedDirects, pair)) <= 1

\* Every change of u's pending invitations has been told to the page of u.
Told(u) ==
    /\ notices[u] = 0
    /\ Refreshing(u) = 0
    /\ \A h \in Handler : req[h].step \in {"updateAnswer", "answerStored"} => req[h].by # u

\* A page that has been told everything shows exactly the pending
\* invitations, unless it missed a notice or an older list overtook a newer.
PageIsCurrent ==
    \A u \in Watcher \ missed : Told(u) => page[u].list = Received(u)
=============================================================================
