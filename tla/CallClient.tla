----------------------------- MODULE CallClient -----------------------------
(***************************************************************************)
(* The audio call of one page: the call shown, the microphone, the peer    *)
(* connection and the recovery timers of AudioCallProvider.tsx, with the   *)
(* socket to the backend and what the gateway knows of this user's calls   *)
(* (chat.gateway.ts; its own state is the subject of module Calls).        *)
(*                                                                         *)
(* An event handler runs up to an await: for the socket, the microphone or *)
(* an acknowledgement.  It is a task meanwhile, and other handlers run.    *)
(* Packets in flight are lost when the socket closes, and the tasks that   *)
(* await an acknowledgement fail; what is sent while the socket is closed  *)
(* waits for the next connection.  Negotiation is abstracted to offers and *)
(* answers; ICE candidates, playback and diagnostics are left out.         *)
(***************************************************************************)
EXTENDS Naturals, Sequences, FiniteSets, SequencesExt

CONSTANTS
    OutgoingCall,   \* ids of the calls this user starts
    IncomingCall,   \* ids of the calls this user gets
    None,           \* a call without an id yet
    MaxInFlight     \* bound: signals of the peer that the page has still to handle

ASSUME CallClientConstants ==
    /\ OutgoingCall \intersect IncomingCall = {}
    /\ None \notin OutgoingCall \union IncomingCall
    /\ MaxInFlight \in Nat

VARIABLES
    page,           \* the refs of the provider
    tasks,          \* handlers of the page that await something
    socketOpen,     \* the socket is open
    toBackend,      \* packets to the gateway; kept while the socket is closed
    toPage,         \* packets to the page
    session,        \* what the gateway knows of each call
    accepting,      \* calls whose callsService.accept is awaited
    finishing,      \* calls whose callsService.finish is awaited, and by whom
    deaf,           \* calls whose acknowledgement goes to a closed socket
    offers,         \* calls whose peer has still to answer an offer
    overtaken       \* history: a handler was overtaken, see Overtakes

backend == <<session, accepting, finishing, deaf, offers>>

clientVars == <<page, tasks, socketOpen, toBackend, toPage, backend, overtaken>>

CallId == OutgoingCall \union IncomingCall

Status == {"calling", "incoming", "connecting", "reconnecting", "active", "ended", "failed"}

NoCall == [id |-> None, status |-> "none"]

Call == [id : CallId, status : Status] \union [id : {None}, status : Status \ {"incoming"}]
          \union {NoCall}

Packet == [kind : {"start", "sync"}, call : {None}]
            \union [kind : {"accept", "reject", "end", "offer"}, call : CallId]
            \union [kind : {"answer", "recover"}, call : CallId \union {None}]

Event == [kind : {"startFailed", "syncedNone"}, call : {None}]
           \union [kind : {"incoming", "accepted", "rejected", "ended", "dismissed", "recovery",
                           "offer", "answer", "startOk", "acceptOk", "acceptFailed",
                           "syncedRinging", "syncedActive"}, call : CallId]

Task == [kind : {"start"}, at : {"socket", "mic", "ack"}, call : {None}]
          \union [kind : {"accept"}, at : {"mic", "ack"}, call : CallId]
          \union [kind : {"sync"}, at : {"ack"}, call : {None}]
          \union [kind : {"sync", "restore", "offer"}, at : {"mic"}, call : CallId]

ClientTypeOK ==
    /\ page \in [call : Call, mic : BOOLEAN, streams : 0 .. 2,
                 conn : {"none", "new", "checking", "connected", "down"},
                 offered : BOOLEAN, sending : BOOLEAN, socketTimer : BOOLEAN, peerTimer : BOOLEAN,
                 terminal : SUBSET CallId]
    /\ page.conn = "none" => ~page.offered /\ ~page.peerTimer
    /\ tasks \subseteq Task
    /\ socketOpen \in BOOLEAN
    /\ toBackend \in Seq(Packet)
    /\ toPage \in Seq(Event)
    /\ session \in [CallId -> {"unused", "starting", "ringing", "active", "over"}]
    /\ accepting \subseteq CallId
    /\ finishing \in [CallId -> {"no", "end", "reject"}]
    /\ deaf \subseteq CallId
    /\ offers \in [CallId -> 0 .. MaxInFlight + 1]
    /\ overtaken \in BOOLEAN

ClientInit ==
    /\ page = [call |-> NoCall, mic |-> FALSE, streams |-> 0, conn |-> "none",
               offered |-> FALSE, sending |-> FALSE, socketTimer |-> FALSE,
               peerTimer |-> FALSE, terminal |-> {}]
    /\ tasks = {}
    /\ socketOpen = FALSE
    /\ toBackend = <<>> /\ toPage = <<>>
    /\ session = [c \in CallId |-> "unused"]
    /\ accepting = {}
    /\ finishing = [c \in CallId |-> "no"]
    /\ deaf = {}
    /\ offers = [c \in CallId |-> 0]
    /\ overtaken = FALSE

-----------------------------------------------------------------------------
Over(call) == call.status \in {"none", "ended", "failed"}

Live(call) == ~Over(call)

\* Mutant of Released: the microphone is left on.
ReleasedPeer(p) ==
    [p EXCEPT !.conn = "none", !.offered = FALSE, !.sending = FALSE, !.peerTimer = FALSE]

\* releaseMedia.
Released(p) ==
    [p EXCEPT !.conn = "none", !.offered = FALSE, !.sending = FALSE, !.peerTimer = FALSE,
              !.mic = FALSE, !.streams = IF p.mic THEN @ - 1 ELSE @]

\* finishCallLocally.
Finished(p, status) ==
    [Released(p) EXCEPT !.socketTimer = FALSE,
                        !.call.status = IF p.call = NoCall THEN @ ELSE status,
                        !.terminal = @ \union ({p.call.id} \ {None})]

\* getMicrophone: a stream that was there is forgotten, not stopped.
Opened(p) == [p EXCEPT !.mic = TRUE, !.streams = @ + 1]

\* createPeerConnection, with the tracks of the microphone, if it is open.
NewPeer(p) == [p EXCEPT !.conn = "new", !.offered = FALSE, !.sending = p.mic]

Msg(kind, c) == [kind |-> kind, call |-> c]

\* emitTerminalEvent for call c.
Ending(p, kind, c) ==
    IF c \in p.terminal \/ c = None \/ ~socketOpen THEN <<>> ELSE <<Msg(kind, c)>>

\* A handler that awaits acts on the call that is shown when it goes on: a
\* call that ended, or was replaced, while the microphone or the socket was
\* being opened, or that ended while call:start or call:accept was not yet
\* acknowledged; a call that began while such a handler was under way; a
\* peer connection made before the microphone was there; call:accepted or an
\* offer for a call that has ended here; a microphone asked for, a call
\* accepted, or one rejected as one too many, while call:sync is under way.
Overtakes(p, t, m) ==
    LET left == tasks \intersect t
        ends == Live(page.call) /\ Over(p.call)
        begins == Live(p.call) /\ (Over(page.call) \/ p.call.id # page.call.id)
    IN \/ begins /\ \E x \in left : x.kind # "sync" \/ x.at # "ack"
       \/ ends /\ \E x \in left :
             \/ x.kind = "start" /\ (x.at # "ack" \/ p.call # NoCall)
             \/ x.kind = "accept"
             \/ x.kind \in {"sync", "restore", "offer"} /\ x.at = "mic"
       \/ p.conn = "new" /\ ~p.sending /\ \E x \in left : x.at = "mic"
       \/ Over(p.call) /\ \E x \in t : x.kind = "offer"
       \/ /\ Over(page.call) /\ Live(p.call)
          /\ p.call.id = page.call.id /\ t = tasks
       \/ \E x, y \in t : x # y /\ x.at = "mic" /\ y.kind \in {"sync", "restore"}
                                /\ x.kind # "start"
       \/ /\ \E x \in t : x.kind = "sync" /\ x.at = "ack"
          /\ \/ \E y \in t : y.kind = "accept"
             \/ \E c \in CallId \ p.terminal : m = <<Msg("reject", c)>>

\* The page becomes p, its tasks t, and it sends the packets m.
Move(p, t, m) ==
    /\ page' = p
    /\ tasks' = t
    /\ toBackend' = toBackend \o m
    /\ overtaken' = (overtaken \/ Overtakes(p, t, m))

\* failCall.
Fail(p, t) ==
    Move(Finished(p, "failed"), t, Ending(p, "end", p.call.id))

\* Mutant of RestartConnection: there is a peer connection already.
RestartExisting(p, t) ==
    IF socketOpen /\ p.mic /\ p.call.id \in OutgoingCall
       THEN Move([p EXCEPT !.offered = TRUE], t, <<Msg("offer", p.call.id)>>)
       ELSE Move(p, t, <<>>)

\* restartConnection.
RestartConnection(p, t) ==
    IF socketOpen /\ p.mic /\ p.call.id \in OutgoingCall
       THEN Move([(IF p.conn = "none" THEN NewPeer(p) ELSE p) EXCEPT !.offered = TRUE], t,
                 <<Msg("offer", p.call.id)>>)
       ELSE Move(p, t, <<>>)

-----------------------------------------------------------------------------
\* startCall, up to the socket or the microphone.
StartCall ==
    /\ page.call = NoCall
    /\ Move([page EXCEPT !.call = [id |-> None, status |-> "connecting"]],
            tasks \union {[kind |-> "start", at |-> IF socketOpen THEN "mic" ELSE "socket",
                           call |-> None]}, <<>>)
    /\ UNCHANGED <<socketOpen, toPage, backend>>

\* waitForSocket gives up.
SocketUnavailable(x) ==
    /\ x \in tasks /\ x.at = "socket"
    /\ ~socketOpen
    /\ Fail(page, tasks \ {x})
    /\ UNCHANGED <<socketOpen, toPage, backend>>

\* acceptCall, up to the microphone.
AcceptCall ==
    /\ page.call.status = "incoming"
    /\ Move([page EXCEPT !.call.status = "connecting"],
            tasks \union {[kind |-> "accept", at |-> "mic", call |-> page.call.id]}, <<>>)
    /\ UNCHANGED <<socketOpen, toPage, backend>>

\* rejectCall and endCall, by the status of the call shown.
HangUp ==
    LET c == page.call.id
    IN /\ Live(page.call)
       /\ Move([Released(page) EXCEPT !.call = NoCall, !.socketTimer = FALSE,
                                      !.terminal = @ \union ({c} \ {None})],
               tasks,
               Ending(page, IF page.call.status = "incoming" THEN "reject" ELSE "end", c))
       /\ UNCHANGED <<socketOpen, toPage, backend>>

\* dismissCall.
DismissCall ==
    /\ page.call # NoCall /\ Over(page.call)
    /\ Move([Released(page) EXCEPT !.call = NoCall, !.socketTimer = FALSE], tasks, <<>>)
    /\ UNCHANGED <<socketOpen, toPage, backend>>

\* The rest of syncCallState for an active call, and that of the handler of
\* an offer, once there is a microphone.
AfterSync(p, t, c) ==
    LET q == IF p.conn = "none" THEN NewPeer(p) ELSE p
    IN IF q.conn = "connected" THEN Move(q, t, <<>>)
       ELSE IF c \in OutgoingCall THEN RestartConnection(q, t)
       ELSE Move(q, t, <<Msg("recover", c)>>)

AnswerOffer(p, t, c) ==
    Move([p EXCEPT !.conn = IF @ \in {"none", "new"} THEN "checking" ELSE @], t,
         <<Msg("answer", c)>>)

\* getMicrophone resolves, and its handler goes on.
MicOpens(x) ==
    LET p == Opened(page)
        t == tasks \ {x}
    IN /\ x \in tasks /\ x.at = "mic"
       /\ CASE x.kind = "start" ->
                 Move([p EXCEPT !.call = [id |-> None, status |-> "calling"]],
                      t \union {[x EXCEPT !.at = "ack"]}, <<Msg("start", None)>>)
            [] x.kind = "accept" ->
                 Move(NewPeer(p), t \union {[x EXCEPT !.at = "ack"]},
                      <<Msg("accept", x.call)>>)
            [] x.kind = "sync" -> Move(p, t, <<>>)
            [] x.kind = "restore" -> AfterSync(p, t, x.call)
            [] x.kind = "offer" -> AnswerOffer(NewPeer(p), t, x.call)
       /\ UNCHANGED <<socketOpen, toPage, backend>>

\* Permission is denied, or there is no microphone.
MicFails(x) ==
    /\ x \in tasks /\ x.at = "mic"
    /\ IF x.kind = "accept"
          THEN Move(Finished([page EXCEPT !.terminal = @ \union {x.call}], "failed"),
                    tasks \ {x}, Ending(page, "reject", x.call))
          ELSE Fail(page, tasks \ {x})
    /\ UNCHANGED <<socketOpen, toPage, backend>>

-----------------------------------------------------------------------------
\* The peer connection changes its state.
PeerConnects ==
    /\ page.conn \in {"checking", "down"} /\ ~page.offered
    /\ Move([page EXCEPT !.conn = "connected", !.peerTimer = FALSE,
                         !.call.status = IF page.call = NoCall THEN @ ELSE "active"],
            tasks, <<>>)
    /\ UNCHANGED <<socketOpen, toPage, backend>>

\* beginPeerRecovery.
PeerDrops ==
    /\ page.conn \in {"checking", "connected"}
    /\ LET p == [page EXCEPT !.conn = "down", !.peerTimer = TRUE,
                             !.call.status = "reconnecting"]
       IN IF Over(page.call) THEN Move([page EXCEPT !.conn = "down"], tasks, <<>>)
          ELSE IF page.call.id \in OutgoingCall THEN RestartConnection(p, tasks)
          ELSE Move(p, tasks, IF socketOpen THEN <<Msg("recover", page.call.id)>> ELSE <<>>)
    /\ UNCHANGED <<socketOpen, toPage, backend>>

\* The 12 s of CALL_PEER_RECOVERY_MS have passed.
PeerTimerFires ==
    /\ page.peerTimer
    /\ IF page.conn = "connected"
          THEN Move([page EXCEPT !.peerTimer = FALSE], tasks, <<>>)
          ELSE Fail(page, tasks)
    /\ UNCHANGED <<socketOpen, toPage, backend>>

\* The 17 s of CALL_SOCKET_RECOVERY_MS have passed.
SocketTimerFires ==
    /\ page.socketTimer
    /\ Move(Finished(page, "failed"), tasks, <<>>)
    /\ UNCHANGED <<socketOpen, toPage, backend>>

-----------------------------------------------------------------------------
\* onConnect; a startCall that waited for the socket asks for the microphone.
SocketOpens ==
    /\ ~socketOpen
    /\ socketOpen' = TRUE
    /\ Move(page, {IF x.at = "socket" THEN [x EXCEPT !.at = "mic"] ELSE x : x \in tasks}
                    \union {[kind |-> "sync", at |-> "ack", call |-> None]},
            <<Msg("sync", None)>>)
    /\ UNCHANGED <<toPage, backend>>

\* onDisconnect, beginSocketRecovery, and then every task that awaits an
\* acknowledgement fails: its call, or the one shown instead, is finished.
SocketCloses ==
    LET waiting == {x \in tasks : x.at = "ack"}
        p == IF Over(page.call) THEN page
             ELSE [page EXCEPT !.call.status = "reconnecting", !.socketTimer = TRUE]
        q == [p EXCEPT !.terminal = @ \union {x.call : x \in {y \in waiting : y.kind = "accept"}}]
    IN /\ socketOpen
       /\ socketOpen' = FALSE
       /\ page' = IF waiting = {} THEN p ELSE Finished(q, "failed")
       /\ tasks' = tasks \ waiting
       /\ overtaken' = (overtaken \/ Overtakes(page', tasks', <<>>))
       /\ toBackend' = <<>> /\ toPage' = <<>>
       /\ deaf' = deaf \union accepting \union {c \in CallId : session[c] = "starting"}
       /\ UNCHANGED <<session, accepting, finishing, offers>>

\* The packets that wait, without the one m.
Withdrawn(m) ==
    LET at == CHOOSE i \in DOMAIN toBackend : toBackend[i] = m
    IN IF \E i \in DOMAIN toBackend : toBackend[i] = m THEN RemoveAt(toBackend, at)
       ELSE toBackend

\* An acknowledgement asked for while the socket is closed: the packet is
\* withdrawn after 8 s.
AckTimesOut(x) ==
    /\ x \in tasks /\ x.at = "ack"
    /\ ~socketOpen
    /\ page' = Finished([page EXCEPT !.terminal = @ \union ({x.call} \ {None})], "failed")
    /\ tasks' = tasks \ {x}
    /\ overtaken' = (overtaken \/ Overtakes(page', tasks', <<>>))
    /\ toBackend' = Withdrawn(Msg(x.kind, x.call))
    /\ UNCHANGED <<socketOpen, toPage, backend>>

-----------------------------------------------------------------------------
Waiting(kind) == CHOOSE x \in tasks : x.kind = kind /\ x.at = "ack"

\* onEnded and onRejected, for the call that is shown.
OnEnded(c) ==
    Move(IF page.call.id = c THEN Finished(page, "ended") ELSE page, tasks, <<>>)

\* onDismissed.
OnDismissed(c) ==
    Move(IF page.call.id # c THEN page
         ELSE [Released(page) EXCEPT !.call = NoCall, !.socketTimer = FALSE,
                                     !.terminal = @ \union {c}], tasks, <<>>)

OnIncoming(c) ==
    IF page.call # NoCall THEN Move(page, tasks, <<Msg("reject", c)>>)
    ELSE Move([page EXCEPT !.call = [id |-> c, status |-> "incoming"]], tasks, <<>>)

OnAccepted(c) ==
    IF page.call.id # c THEN Move(page, tasks, <<>>)
    ELSE Move([NewPeer(page) EXCEPT !.call.status = "connecting", !.offered = TRUE],
              tasks, <<Msg("offer", c)>>)

OnOffer(c) ==
    IF page.call.id # c THEN Move(page, tasks, <<>>)
    ELSE IF page.conn # "none" THEN AnswerOffer(page, tasks, c)
    ELSE IF page.mic THEN AnswerOffer(NewPeer(page), tasks, c)
    ELSE Move(page, tasks \union {[kind |-> "offer", at |-> "mic", call |-> c]}, <<>>)

\* An answer that meets no open offer is an InvalidStateError.
OnAnswer(c) ==
    IF page.call.id # c \/ page.conn = "none" THEN Move(page, tasks, <<>>)
    ELSE IF ~page.offered THEN Fail(page, tasks)
    ELSE Move([page EXCEPT !.offered = FALSE,
                           !.conn = IF @ = "new" THEN "checking" ELSE @], tasks, <<>>)

OnRecoveryNeeded(c) ==
    IF page.call.id # c THEN Move(page, tasks, <<>>) ELSE RestartConnection(page, tasks)

\* Mutant of OnStarted: a call that was hung up meanwhile is not ended.
OnStartedQuietly(c) ==
    Move(IF page.call = NoCall THEN page
         ELSE [page EXCEPT !.call = [id |-> c, status |-> "calling"]],
         tasks \ {Waiting("start")}, <<>>)

\* startCall, from the acknowledgement.
OnStarted(c) ==
    LET t == tasks \ {Waiting("start")}
    IN IF page.call = NoCall THEN Move(page, t, <<Msg("end", c)>>)
       ELSE Move([page EXCEPT !.call = [id |-> c, status |-> "calling"]], t, <<>>)

\* acceptCall, from the acknowledgement.
OnAcceptDone(c, ok) ==
    LET t == tasks \ {[kind |-> "accept", at |-> "ack", call |-> c]}
    IN IF ok THEN Move(IF page.call = NoCall THEN page
                       ELSE [page EXCEPT !.call.status = "connecting"], t, <<>>)
       ELSE Move(Finished([page EXCEPT !.terminal = @ \union {c}], "failed"), t,
                 Ending(page, "end", c))

\* syncCallState, from the acknowledgement: there is no call, ...
OnSyncedNone ==
    LET p == [page EXCEPT !.socketTimer = FALSE]
    IN Move(IF Live(p.call) THEN Finished(p, "ended") ELSE p, tasks \ {Waiting("sync")}, <<>>)

\* Mutant of OnSynced: a call the page has left is shown again.
OnSyncedAgain(c, active) ==
    LET t == tasks \ {Waiting("sync")}
        p == [page EXCEPT !.socketTimer = FALSE]
        q == IF p.call.id \notin {None, c} THEN Released(p) ELSE p
        status == IF ~active THEN IF c \in IncomingCall THEN "incoming" ELSE "calling"
                  ELSE IF q.conn = "connected" THEN "active" ELSE "reconnecting"
        r == [q EXCEPT !.call = [id |-> c, status |-> status]]
    IN IF ~r.mic /\ (c \in OutgoingCall \/ active)
          THEN Move(r, t \union {[kind |-> IF active THEN "restore" ELSE "sync",
                                  at |-> "mic", call |-> c]}, <<>>)
       ELSE IF active THEN AfterSync(r, t, c)
       ELSE Move(r, t, <<>>)

\* ... or c, which the page has left, or shows from now on.
OnSynced(c, active) ==
    LET t == tasks \ {Waiting("sync")}
        p == [page EXCEPT !.socketTimer = FALSE]
        q == IF p.call.id \notin {None, c} THEN Released(p) ELSE p
        status == IF ~active THEN IF c \in IncomingCall THEN "incoming" ELSE "calling"
                  ELSE IF q.conn = "connected" THEN "active" ELSE "reconnecting"
        r == [q EXCEPT !.call = [id |-> c, status |-> status]]
    IN IF c \in p.terminal THEN Move(p, t, <<Msg("end", c)>>)
       ELSE IF ~r.mic /\ (c \in OutgoingCall \/ active)
          THEN Move(r, t \union {[kind |-> IF active THEN "restore" ELSE "sync",
                                  at |-> "mic", call |-> c]}, <<>>)
       ELSE IF active THEN AfterSync(r, t, c)
       ELSE Move(r, t, <<>>)

\* The page handles the next event.
HandleEvent ==
    /\ toPage # <<>>
    /\ LET e == Head(toPage) IN
          CASE e.kind = "incoming" -> OnIncoming(e.call)
            [] e.kind = "accepted" -> OnAccepted(e.call)
            [] e.kind \in {"ended", "rejected"} -> OnEnded(e.call)
            [] e.kind = "dismissed" -> OnDismissed(e.call)
            [] e.kind = "offer" -> OnOffer(e.call)
            [] e.kind = "answer" -> OnAnswer(e.call)
            [] e.kind = "recovery" -> OnRecoveryNeeded(e.call)
            [] e.kind = "startOk" -> OnStarted(e.call)
            [] e.kind = "startFailed" -> Fail(page, tasks \ {Waiting("start")})
            [] e.kind \in {"acceptOk", "acceptFailed"} ->
                  OnAcceptDone(e.call, e.kind = "acceptOk")
            [] e.kind = "syncedNone" -> OnSyncedNone
            [] e.kind = "syncedRinging" -> OnSynced(e.call, FALSE)
            [] e.kind = "syncedActive" -> OnSynced(e.call, TRUE)
    /\ toPage' = Tail(toPage)
    /\ UNCHANGED <<socketOpen, backend>>

-----------------------------------------------------------------------------
\* The gateway emits to the room of the user: a closed socket misses it.
Emit(m) == toPage' = IF socketOpen THEN toPage \o m ELSE toPage

InMap == {c \in CallId : session[c] \in {"ringing", "active"}}

\* finishCall: a call that is being finished already is cleared at once.
Finish(c, kind) ==
    IF finishing[c] = "no"
       THEN /\ finishing' = [finishing EXCEPT ![c] = kind]
            /\ toPage' = toPage
            /\ session' = session
       ELSE /\ session' = [session EXCEPT ![c] = "over"]
            /\ Emit(IF kind = "end" THEN <<Msg("ended", c)>> ELSE <<>>)
            /\ finishing' = finishing

Acked(c, kind) == Emit(IF c \in deaf THEN <<>> ELSE <<Msg(kind, c)>>)

\* startCall of the gateway, up to callsService.start.
GatewayStarts ==
    \/ /\ Emit(<<Msg("startFailed", None)>>)
       /\ UNCHANGED session
    \/ /\ InMap = {}
       /\ \E c \in OutgoingCall : /\ session[c] = "unused"
                              /\ session' = [session EXCEPT ![c] = "starting"]
       /\ UNCHANGED toPage

\* acceptCall of the gateway, up to callsService.accept, which has nothing to
\* await when the call is being finished; the caller may be gone then.
GatewayAccepts(c) ==
    IF session[c] # "ringing"
       THEN Emit(<<Msg("acceptFailed", c)>>) /\ UNCHANGED <<session, accepting>>
    ELSE IF finishing[c] = "no"
       THEN /\ session' = [session EXCEPT ![c] = "active"]
            /\ accepting' = accepting \union {c}
            /\ UNCHANGED toPage
    ELSE \/ /\ session' = [session EXCEPT ![c] = "active"]
            /\ Emit(<<Msg("acceptOk", c)>>)
            /\ UNCHANGED accepting
         \/ /\ session' = [session EXCEPT ![c] = "over"]
            /\ Emit(<<Msg("ended", c), Msg("acceptFailed", c)>>)
            /\ UNCHANGED accepting

GatewaySyncs ==
    IF InMap = {} THEN Emit(<<Msg("syncedNone", None)>>)
    ELSE \E c \in InMap :
            Emit(<<Msg(IF session[c] = "active" THEN "syncedActive" ELSE "syncedRinging", c)>>)

\* The gateway handles the next packet of the page.  A call whose rejection
\* was told, but is not stored yet, can still be accepted, and is still an
\* answer to call:sync.
GatewayHandles ==
    /\ socketOpen
    /\ toBackend # <<>>
    /\ LET m == Head(toBackend)
           c == m.call
       IN \/ /\ m.kind = "start"
             /\ GatewayStarts
             /\ UNCHANGED <<accepting, finishing, offers>>
          \/ /\ m.kind = "accept"
             /\ GatewayAccepts(c)
             /\ UNCHANGED <<finishing, offers>>
          \/ /\ m.kind = "sync"
             /\ GatewaySyncs
             /\ UNCHANGED <<session, accepting, finishing, offers>>
          \/ /\ \/ m.kind = "reject" /\ session[c] = "ringing"
                \/ m.kind = "end" /\ c \in InMap
             /\ Finish(c, m.kind)
             /\ UNCHANGED <<accepting, offers>>
          \/ /\ m.kind = "offer" /\ session[c] = "active"
             /\ offers' = [offers EXCEPT ![c] = IF @ <= MaxInFlight THEN @ + 1 ELSE @]
             /\ UNCHANGED <<toPage, session, accepting, finishing>>
          \/ /\ \/ m.kind = "reject" /\ session[c] # "ringing"
                \/ m.kind = "end" /\ c \notin InMap
                \/ m.kind = "offer" /\ session[c] # "active"
                \/ m.kind \in {"answer", "recover"}
             /\ UNCHANGED <<toPage, session, accepting, finishing, offers>>
    /\ overtaken' = (overtaken \/ /\ Head(toBackend).kind \in {"sync", "accept"}
                                  /\ \E c \in CallId : finishing[c] = "reject")
    /\ toBackend' = Tail(toBackend)
    /\ UNCHANGED <<page, tasks, socketOpen, deaf>>

\* A page that reconnected meanwhile may have asked for its calls too early,
\* and the user may have been called in between.
StartStored(c) ==
    /\ session[c] = "starting"
    /\ session' = [session EXCEPT ![c] = "ringing"]
    /\ Acked(c, "startOk")
    /\ overtaken' = (overtaken \/ InMap # {} \/ (c \in deaf /\ socketOpen))
    /\ deaf' = deaf \ {c}
    /\ UNCHANGED <<page, tasks, socketOpen, toBackend, accepting, finishing, offers>>

\* The page, or its peer, has accepted; the finish of the call may have
\* overtaken the accept on its way to the database.
AcceptStored(c) ==
    /\ c \in accepting
    /\ accepting' = accepting \ {c}
    /\ IF c \in IncomingCall THEN Acked(c, "acceptOk") ELSE Emit(<<Msg("accepted", c)>>)
    /\ deaf' = deaf \ {c}
    /\ UNCHANGED <<page, tasks, socketOpen, toBackend, session, finishing, offers, overtaken>>

FinishStored(c) ==
    /\ finishing[c] # "no"
    /\ finishing' = [finishing EXCEPT ![c] = "no"]
    /\ session' = [session EXCEPT ![c] = "over"]
    /\ Emit(IF finishing[c] = "end" THEN <<Msg("ended", c)>> ELSE <<>>)
    /\ UNCHANGED <<page, tasks, socketOpen, toBackend, accepting, deaf, offers, overtaken>>

-----------------------------------------------------------------------------
\* What the peer and the timers of the gateway do.  A user with two pages may
\* accept on one the call that the other has just rejected.
PeerCalls(c) ==
    /\ c \in IncomingCall /\ session[c] = "unused"
    /\ socketOpen
    /\ InMap = {}
    /\ session' = [session EXCEPT ![c] = "ringing"]
    /\ Emit(<<Msg("incoming", c)>>)
    /\ UNCHANGED <<accepting, finishing, offers>>

PeerAccepts(c) ==
    /\ c \in OutgoingCall /\ session[c] = "ringing"
    /\ session' = [session EXCEPT ![c] = "active"]
    /\ IF finishing[c] = "no"
          THEN accepting' = accepting \union {c} /\ UNCHANGED toPage
          ELSE Emit(<<Msg("accepted", c)>>) /\ UNCHANGED accepting
    /\ UNCHANGED <<finishing, offers>>

PeerRejects(c) ==
    /\ c \in OutgoingCall /\ session[c] = "ringing"
    /\ Emit(<<Msg("rejected", c)>>)
    /\ IF finishing[c] = "no"
          THEN finishing' = [finishing EXCEPT ![c] = "reject"] /\ UNCHANGED session
          ELSE session' = [session EXCEPT ![c] = "over"] /\ UNCHANGED finishing
    /\ UNCHANGED <<accepting, offers>>

\* Another page of this user rejects the call.
OtherPageRejects(c) ==
    /\ c \in IncomingCall /\ session[c] = "ringing"
    /\ Emit(<<Msg("dismissed", c)>>)
    /\ IF finishing[c] = "no"
          THEN finishing' = [finishing EXCEPT ![c] = "reject"] /\ UNCHANGED session
          ELSE session' = [session EXCEPT ![c] = "over"] /\ UNCHANGED finishing
    /\ UNCHANGED <<accepting, offers>>

\* call:end of the peer, the ring timer, or a grace timer.
PeerEnds(c) ==
    /\ c \in InMap
    /\ Finish(c, "end")
    /\ UNCHANGED <<accepting, offers>>

PeerSignals(c) ==
    /\ session[c] = "active"
    /\ Len(toPage) + Cardinality({x \in tasks : x.kind = "offer"}) < MaxInFlight
    /\ \/ /\ c \in OutgoingCall /\ offers[c] > 0
          /\ offers' = [offers EXCEPT ![c] = @ - 1]
          /\ Emit(<<Msg("answer", c)>>)
       \/ /\ c \in OutgoingCall
          /\ Emit(<<Msg("recovery", c)>>)
          /\ UNCHANGED offers
       \/ /\ c \in IncomingCall
          /\ Emit(<<Msg("offer", c)>>)
          /\ UNCHANGED offers
    /\ UNCHANGED <<session, accepting, finishing>>

Peer(c) ==
    /\ \/ PeerCalls(c) \/ PeerAccepts(c) \/ PeerRejects(c) \/ OtherPageRejects(c)
       \/ PeerEnds(c) \/ PeerSignals(c)
    /\ overtaken' = (overtaken \/ (finishing[c] = "reject" /\ session'[c] = "active"))
    /\ UNCHANGED <<page, tasks, socketOpen, toBackend, deaf>>

\* The backend process is restarted: the sessions are gone.
GatewayRestarts ==
    /\ ~socketOpen
    /\ session' = [c \in CallId |-> IF session[c] = "unused" THEN "unused" ELSE "over"]
    /\ accepting' = {}
    /\ finishing' = [c \in CallId |-> "no"]
    /\ UNCHANGED <<page, tasks, socketOpen, toBackend, toPage, deaf, offers, overtaken>>

-----------------------------------------------------------------------------
ClientNext ==
    \/ StartCall \/ AcceptCall \/ HangUp \/ DismissCall
    \/ \E x \in tasks :
          \/ SocketUnavailable(x)
          \/ MicOpens(x)
          \/ MicFails(x)
          \/ AckTimesOut(x)
    \/ PeerConnects \/ PeerDrops \/ PeerTimerFires
    \/ SocketTimerFires
    \/ SocketOpens \/ SocketCloses
    \/ HandleEvent
    \/ GatewayHandles
    \/ \E c \in CallId : StartStored(c) \/ AcceptStored(c) \/ FinishStored(c) \/ Peer(c)
    \/ GatewayRestarts

ClientSpec == ClientInit /\ [][ClientNext]_clientVars

-----------------------------------------------------------------------------
\* Nothing is on its way between the page and the gateway.
Quiet ==
    /\ socketOpen
    /\ tasks = {} /\ toBackend = <<>> /\ toPage = <<>>
    /\ accepting = {}
    /\ \A c \in CallId : finishing[c] = "no" /\ session[c] # "starting"

\* Whatever dropped, timed out or crossed on the way: once everything has
\* arrived, the page shows the one call the gateway knows, or none.
PageFollowsGateway ==
    Quiet /\ ~overtaken => InMap = IF Live(page.call) THEN {page.call.id} ELSE {}

\* A call that the page has left, or saw end, is not shown as live again.
EndedStaysEnded ==
    ~overtaken /\ Live(page.call) => page.call.id \notin page.terminal

\* No microphone stays open without a call, and none is opened twice; an
\* established call has one, and its peer connection sends it.
MicrophoneFollowsCall ==
    ~overtaken /\ (\A x \in tasks : x.at = "ack") =>
       /\ page.streams = IF page.mic THEN 1 ELSE 0
       /\ Over(page.call) => ~page.mic
       /\ Live(page.call) /\ page.call.status \notin {"incoming", "reconnecting"} => page.mic
       /\ Live(page.call) /\ page.conn # "none" => page.sending
=============================================================================
