------------------------ MODULE CallClientInvariants ------------------------
(***************************************************************************)
(* The inductive invariants of CallClient, and what its steps may do, as   *)
(* the proofs in MessageAndCallProofs use them: of the call that a page    *)
(* shows (EndedInv), of its microphone (MicInv), and of the page and the   *)
(* gateway (FollowInv).                                                    *)
(***************************************************************************)
EXTENDS CallClient, Integers

-----------------------------------------------------------------------------
(***************************************************************************)
(* The call that a page shows.  The page ends a call, or sees it end, and  *)
(* remembers it as terminal; EndedStaysEnded says that it is not shown as  *)
(* live again.  What could break it is an event that was under way: a ring *)
(* or the acknowledgement of a start that names a call the page has left   *)
(* already.  So the invariant also says what has not been told: the first  *)
(* that a page hears of a call is its ring or its start, and until then    *)
(* no handler, packet or pending write of either side names the call.      *)
(* Both hold whether a handler was overtaken or not.                       *)
(***************************************************************************)

\* The page, with any number of streams: a handler that was overtaken may
\* leave one open.
ClientPage ==
    [call : Call, mic : BOOLEAN, streams : Int,
     conn : {"none", "new", "checking", "connected", "down"},
     offered : BOOLEAN, sending : BOOLEAN, socketTimer : BOOLEAN, peerTimer : BOOLEAN,
     terminal : SUBSET CallId]

ClientTypes ==
    /\ page \in ClientPage
    /\ tasks \in SUBSET Task
    /\ socketOpen \in BOOLEAN
    /\ toBackend \in Seq(Packet)
    /\ toPage \in Seq(Event)
    /\ accepting \subseteq CallId
    /\ session \in [CallId -> {"unused", "starting", "ringing", "active", "over"}]
    /\ finishing \in [CallId -> {"no", "end", "reject"}]
    /\ overtaken \in BOOLEAN

\* The calls that a page p with the tasks t has heard of.
KnownOf(p, t) == (p.terminal \union {p.call.id} \union {x.call : x \in t}) \ {None}

Known == KnownOf(page, tasks)

\* The calls that the gateway has told nobody of.
Early == {c \in CallId : session[c] \in {"unused", "starting"}}

News == {"incoming", "startOk"}

Mentions(s, c) == \E i \in DOMAIN s : s[i].call = c

\* The first that the page hears of a call is its ring, or its start.
NewsIsNew ==
    \A i \in DOMAIN toPage : toPage[i].kind \in News =>
       /\ toPage[i].call \notin Known
       /\ \A j \in 1 .. i - 1 : toPage[j].call # toPage[i].call

EarlyIsUnknown ==
    \A c \in Early :
       /\ c \notin Known /\ c \notin accepting /\ finishing[c] = "no"
       /\ ~Mentions(toBackend, c) /\ ~Mentions(toPage, c)

\* An accept under way is for a live call, and the live call has not ended.
CallIsSound(p, t) ==
    /\ \A x \in t : x.kind = "accept" => Live(p.call)
    /\ Live(p.call) => p.call.id \notin p.terminal

EndedInv ==
    /\ ClientTypes
    /\ NewsIsNew
    /\ EarlyIsUnknown
    /\ ~overtaken => CallIsSound(page, tasks)

\* What a page that goes on as p with the tasks t may do to the call shown.
Calm(p, t) ==
    CallIsSound(page, tasks) =>
       /\ Over(p.call) => \A x \in t : x.kind = "accept" => x \in tasks
       /\ Live(p.call) =>
             \/ p.call.id \notin p.terminal
             \/ /\ p.call.id = page.call.id /\ p.terminal = page.terminal
                /\ t = tasks \/ Live(page.call)

\* The page sends nothing, or one packet, of a call it knows or is told of: L.
AtMostOne(m, L) ==
    \/ m = <<>>
    \/ \E e \in Packet : m = <<e>> /\ e.call \in Known \union L \union {None}

\* The page may become p, with the tasks t, and send m, when told of L.
Legal(p, t, m, L) ==
    /\ p \in ClientPage /\ t \in SUBSET Task
    /\ L \subseteq CallId \union {None}
    /\ AtMostOne(m, L)
    /\ KnownOf(p, t) \subseteq Known \union L
    /\ Calm(p, t)

\* The page has learned of L at most.
Learned(L) ==
    /\ page' \in ClientPage /\ tasks' \in SUBSET Task
    /\ toBackend' \in Seq(Packet)
    /\ overtaken' \in BOOLEAN
    /\ KnownOf(page', tasks') \subseteq Known \union L
    /\ \A c \in CallId : Mentions(toBackend', c) => Mentions(toBackend, c) \/ c \in Known \union L
    /\ ~overtaken' => ~overtaken /\ CallIsSound(page', tasks')

\* A page that releases or opens what it has still shows its call.
SameCall(p, q) ==
    q \in ClientPage /\ q.call = p.call /\ q.terminal = p.terminal

\* The gateway tells the page of call c, or nothing.
Tells(c) ==
    \/ toPage' = toPage
    \/ \E m \in Seq(Event) :
          /\ toPage' = toPage \o m
          /\ \A i \in DOMAIN m : m[i].call = c /\ (m[i].kind \in News => c \in Early /\ i = 1)

\* A step of the gateway that is about call c at most.
GatewayStep(c) ==
    /\ UNCHANGED <<page, tasks>>
    /\ socketOpen' \in BOOLEAN /\ overtaken' \in BOOLEAN /\ (~overtaken' => ~overtaken)
    /\ session' \in [CallId -> {"unused", "starting", "ringing", "active", "over"}]
    /\ finishing' \in [CallId -> {"no", "end", "reject"}]
    /\ accepting' \subseteq CallId
    /\ toBackend' \in Seq(Packet)
    /\ Early' \subseteq Early \ {c}
    /\ accepting' \subseteq accepting \union {c}
    /\ \A d \in CallId : finishing'[d] \in {finishing[d], "no"} \/ d = c
    /\ \A d \in CallId : Mentions(toBackend', d) => Mentions(toBackend, d)
    /\ Tells(c)

\* What a step of the peer does to the gateway.
PeerStep(c) ==
    /\ session' \in [CallId -> {"unused", "starting", "ringing", "active", "over"}]
    /\ finishing' \in [CallId -> {"no", "end", "reject"}]
    /\ accepting' \subseteq CallId
    /\ Early' \subseteq Early \ {c}
    /\ accepting' \subseteq accepting \union {c}
    /\ \A d \in CallId : finishing'[d] \in {finishing[d], "no"} \/ d = c
    /\ Tells(c)
    /\ socketOpen' \in BOOLEAN

\* A step of the page by itself, which is told nothing.
PageActs ==
    \/ StartCall \/ AcceptCall \/ HangUp \/ DismissCall
    \/ \E x \in tasks : SocketUnavailable(x) \/ MicOpens(x) \/ MicFails(x) \/ AckTimesOut(x)
    \/ PeerConnects \/ PeerDrops \/ PeerTimerFires \/ SocketTimerFires
    \/ SocketOpens \/ SocketCloses

-----------------------------------------------------------------------------
(***************************************************************************)
(* The microphone.  Between two steps of a handler the page may have it    *)
(* open or not; the invariant says which, of each handler that is under    *)
(* way.  It also says what the page may still be told: each request is     *)
(* answered once, and a call that was accepted here does not ring again.   *)
(* All of it is of behaviours in which no handler was overtaken.           *)
(***************************************************************************)

\* The stream of a call, and its peer connection.
StreamFits(p) ==
    /\ p.streams = IF p.mic THEN 1 ELSE 0
    /\ Over(p.call) => ~p.mic
    /\ p.conn # "none" => p.mic /\ p.sending
    /\ p.call.status = "incoming" => ~p.mic /\ p.call.id \in IncomingCall

SyncAck == [kind |-> "sync", at |-> "ack", call |-> None]

\* One handler at most is on its way to the microphone, for a live call; each
\* handler belongs to the call that is shown.
TasksFit(p, t) ==
    /\ \A x \in t : x.at # "ack" => ~p.mic /\ Live(p.call) /\ p.call.status # "incoming"
    /\ \A x, y \in t : x.at # "ack" /\ y.at # "ack" => x = y
    /\ \A x \in t : x.kind = "start" =>
          IF p.call = NoCall THEN x.at = "ack"
          ELSE Live(p.call) /\ p.call.id = None /\ (x.at = "ack" => p.mic)
    /\ \A x \in t : x.kind = "accept" =>
          /\ x.call \in IncomingCall /\ p.call.id = x.call
          /\ SyncAck \notin t /\ (x.at = "ack" => p.mic)
    /\ \A x \in t : x.kind \in {"sync", "restore", "offer"} /\ x.at = "mic" =>
          p.call.id = x.call /\ (x.kind = "sync" => x.call \in OutgoingCall)

\* A live call has the microphone, or a handler that is to open it.
StreamComes(p, t) ==
    Live(p.call) =>
       /\ p.call.id = None => \E x \in t : x.kind = "start"
       /\ p.call.status \notin {"incoming", "reconnecting"} \/ p.call.id \in OutgoingCall =>
             p.mic \/ \E x \in t : x.at # "ack"

MicIsSound(p, t) == StreamFits(p) /\ TasksFit(p, t) /\ StreamComes(p, t)

Has(s, A) == \E i \in DOMAIN s : s[i] \in A

AtMostOnce(s, A) == \A i, j \in DOMAIN s : s[i] \in A /\ s[j] \in A => i = j

AckTask == {x \in Task : x.at = "ack"}

\* The packet that a waiting handler has sent, and the events that answer it.
Asked(x) == {Msg(x.kind, x.call)}

Answers(x) ==
    {e \in Event : \/ x.kind = "start" /\ e.kind \in {"startOk", "startFailed"}
                   \/ /\ x.kind = "accept" /\ e.kind \in {"acceptOk", "acceptFailed"}
                      /\ e.call = x.call
                   \/ x.kind = "sync" /\ e.kind \in {"syncedNone", "syncedRinging", "syncedActive"}}

\* The calls that the gateway is storing for it.
Served(x) ==
    {c \in CallId \ deaf : \/ x.kind = "start" /\ session[c] = "starting"
                           \/ /\ x.kind = "accept" /\ c = x.call
                              /\ c \in accepting \intersect IncomingCall}

\* The request, the work and the answer are one.
IsAwaited(x) ==
    /\ AtMostOnce(toBackend, Asked(x)) /\ AtMostOnce(toPage, Answers(x))
    /\ \A c, d \in Served(x) : c = d
    /\ Has(toBackend, Asked(x)) => x \in tasks /\ Served(x) = {} /\ ~Has(toPage, Answers(x))
    /\ Served(x) # {} => x \in tasks /\ socketOpen /\ ~Has(toPage, Answers(x))
    /\ Has(toPage, Answers(x)) => x \in tasks

\* Call c rings here: it is shown so, is being accepted, or is about to ring.
RingsAt(p, t, s, c) ==
    \/ p.call.status = "incoming" /\ p.call.id = c
    \/ \E x \in t : x.kind = "accept" /\ x.at = "mic" /\ x.call = c
    \/ Has(s, {Msg("incoming", c), Msg("syncedRinging", c)})

\* Call c was accepted, as the page knows or is about to learn.
TakenAt(p, t, s, c) ==
    \/ /\ p.mic /\ p.call.id = c
       /\ \A x \in t : x.kind = "accept" => x.call # c
    \/ \E x \in t : x.kind \in {"restore", "offer"} /\ x.call = c
    \/ Has(s, {Msg("syncedActive", c), Msg("offer", c), Msg("acceptOk", c)})

Took(c) == session[c] = "active" \/ c \in accepting \/ TakenAt(page, tasks, toPage, c)

TakenIsSilent ==
    \A c \in IncomingCall : Took(c) => ~RingsAt(page, tasks, toPage, c) /\ session[c] # "ringing"

\* What the page is told of a call fits the direction of the call.
EventsFit ==
    \A i \in DOMAIN toPage :
       /\ toPage[i].kind \in {"incoming", "offer", "dismissed"} => toPage[i].call \in IncomingCall
       /\ toPage[i].kind \in {"accepted", "answer", "recovery", "startOk", "rejected"} =>
             toPage[i].call \in OutgoingCall

SocketFits ==
    /\ ~socketOpen => toPage = <<>> /\ SyncAck \notin tasks
    /\ \A c \in CallId : session[c] = "starting" => c \in OutgoingCall

MicHolds ==
    /\ MicIsSound(page, tasks)
    /\ \A x \in AckTask : IsAwaited(x)
    /\ TakenIsSilent
    /\ EventsFit
    /\ SocketFits

MicInv == EndedInv /\ (~overtaken => MicHolds)

\* s2 holds no more of A than s does.
Fewer(s2, s, A) ==
    /\ Has(s2, A) => Has(s, A)
    /\ AtMostOnce(s, A) => AtMostOnce(s2, A)

\* A page that goes on as p, with the tasks t and the events s still to come.
Heard(p, t, s) ==
    \A c \in IncomingCall :
       /\ RingsAt(p, t, s, c) => RingsAt(page, tasks, toPage, c)
       /\ TakenAt(p, t, s, c) => TakenAt(page, tasks, toPage, c)

Sounds(p, t, s) == MicIsSound(p, t) /\ Heard(p, t, s)

\* The events that are still to come.
Rest(s) == \A A : Has(s, A) => Has(toPage, A)

\* No handler was overtaken, nor is one by this step.
Orderly == EndedInv /\ MicHolds /\ ~overtaken /\ ~overtaken'

\* The page sends at most one packet, and asks for no acknowledgement.
Plain(m) ==
    \/ m = <<>>
    \/ \E e \in Packet : m = <<e>> /\ e.kind \notin {"start", "accept", "sync"}

\* A step of the page, after which the events s are still to come; the
\* handlers D may have had their acknowledgement.
PageTurns(s, D) ==
    /\ Sounds(page', tasks', s)
    /\ \E m : Plain(m) /\ toBackend' = toBackend \o m
    /\ (AckTask \intersect tasks) \ D \subseteq tasks'
    /\ SyncAck \in tasks' => SyncAck \in tasks

\* A page with the same call and the same microphone.
Alike(p, q) ==
    /\ q \in ClientPage /\ q.call = p.call /\ q.mic = p.mic
    /\ StreamFits(p) => StreamFits(q)

\* A step of the page that begins to wait, as y.
PageAsks(y) ==
    /\ y \in AckTask /\ y \notin tasks /\ y \in tasks'
    /\ Sounds(page', tasks', toPage)
    /\ toBackend' = toBackend \o <<Msg(y.kind, y.call)>>
    /\ AckTask \intersect tasks \subseteq tasks'
    /\ SyncAck \in tasks' => SyncAck \in tasks \/ y = SyncAck

\* The handlers that an event answers.
AnsweredBy(e) == {x \in AckTask : e \in Answers(x)}

\* A step in which the page handles the event e.
Turns(e) == PageTurns(Tail(toPage), AnsweredBy(e))

StartAck == [kind |-> "start", at |-> "ack", call |-> None]

AcceptAck(c) == [kind |-> "accept", at |-> "ack", call |-> c]

\* What must not be told of a call that goes the other way.
Unfit ==
    {e \in Event :
       \/ e.kind \in {"incoming", "offer", "dismissed"} /\ e.call \notin IncomingCall
       \/ /\ e.kind \in {"accepted", "answer", "recovery", "startOk", "rejected"}
          /\ e.call \notin OutgoingCall}

Silent(c) == Took(c) => ~RingsAt(page, tasks, toPage, c) /\ session[c] # "ringing"

\* What answers no handler, and rings for no call.
Neutral(m) ==
    \/ m = <<>>
    \/ \E c \in OutgoingCall, k \in {"accepted", "rejected", "recovery", "answer"} :
          m = <<Msg(k, c)>>
    \/ \E c \in IncomingCall : m = <<Msg("dismissed", c)>>
    \/ \E c \in CallId : m = <<Msg("ended", c)>>
    \/ \E c \in IncomingCall : m = <<Msg("offer", c)>> /\ Took(c)

-----------------------------------------------------------------------------
(***************************************************************************)
(* The page and the gateway.  What one believes of a call and the other    *)
(* does not is on its way: an event, a packet, a pending write, or the     *)
(* question that the page asks after it was offline.  The invariant says   *)
(* which, and that the events come in an order in which the last is right. *)
(* All of it is of behaviours in which no handler was overtaken.           *)
(***************************************************************************)

\* What tells the page which call the user has, or that there is none.
States ==
    {e \in Event :
       e.kind \in {"incoming", "startOk", "syncedNone", "syncedRinging", "syncedActive"}}

\* What makes a page show call c, and what makes it show c no longer.
Brings(c) == {e \in States : e.call = c}

Closes(c) ==
    {e \in Event : e.kind \in {"ended", "rejected", "dismissed", "acceptFailed"} /\ e.call = c}

Shows(c) == Live(page.call) /\ page.call.id = c

\* Whoever was told of call c, in K or by the events s, and then of another,
\* is not told of c again: c is not among the calls I in the map.
InOrder(s, K, I) ==
    \A j \in DOMAIN s, c \in CallId :
       s[j] \in States \ Brings(c) /\ (c \in K \/ \E i \in 1 .. j - 1 : s[i] \in Brings(c)) =>
          c \notin I /\ \A k \in DOMAIN s : k > j => s[k] \notin Brings(c)

\* Whoever is told by s of a lost call, in G, is told of its end afterwards,
\* or has left it already, in T.
EndsFollow(s, G, T) ==
    \A i \in DOMAIN s, c \in CallId :
       s[i] \in Brings(c) /\ c \in G =>
          c \in T \/ \E j \in DOMAIN s : j > i /\ s[j] \in Closes(c)

\* The calls whose end was told to the page.
Lost == {c \in CallId : finishing[c] = "reject" \/ (c \notin InMap /\ finishing[c] # "end")}

OneInMap == \A c, d \in InMap : c = d

\* A page that shows another call than d knows that d is over.
LeftIsOver ==
    \A d \in page.terminal :
       Live(page.call) /\ page.call.id \notin {None, d} => d \notin InMap /\ ~Has(toPage, Brings(d))

\* The call in the map is shown, or something is about to settle it.
MapIsShown ==
    \A c \in InMap :
       \/ ~socketOpen \/ finishing[c] # "no" \/ Shows(c)
       \/ Has(toBackend, {Msg("end", c), Msg("reject", c), Msg("sync", None)})
       \/ Has(toPage, Brings(c))

\* The call shown is in the map, or the page is about to be told.
ShownIsInMap ==
    \A c \in Lost : Shows(c) =>
       \/ ~socketOpen \/ Has(toPage, Closes(c))
       \/ Has(toBackend, {Msg("sync", None)}) \/ Has(toPage, Answers(SyncAck) \ Brings(c))

ClosedIsOver == \A c \in CallId : Has(toPage, Closes(c)) => c \notin InMap \/ finishing[c] # "no"

\* A call that the page accepts or rejects rings; one that it rejects is not
\* shown again.
RefusalFits ==
    \A c \in CallId :
       /\ Has(toBackend, {Msg("accept", c), Msg("reject", c)}) =>
             c \in IncomingCall /\ session[c] # "active"
       /\ Has(toBackend, {Msg("reject", c)}) =>
             /\ socketOpen /\ ~Shows(c)
             /\ c \in page.terminal \/ (SyncAck \notin tasks /\ ~Has(toPage, Brings(c)))

\* A page that was offline asks for its calls, and is answered.
SyncComes ==
    /\ page.socketTimer /\ socketOpen => SyncAck \in tasks
    /\ SyncAck \in tasks => Has(toBackend, {Msg("sync", None)}) \/ Has(toPage, Answers(SyncAck))

Follows ==
    /\ OneInMap
    /\ InOrder(toPage, page.terminal \union {page.call.id}, InMap)
    /\ EndsFollow(toPage, Lost, page.terminal)
    /\ LeftIsOver /\ MapIsShown /\ ShownIsInMap /\ ClosedIsOver /\ RefusalFits /\ SyncComes

FollowInv == MicInv /\ (~overtaken => Follows)

\* No handler is overtaken by this step, which keeps what was proved above.
Following == Orderly /\ EndedInv' /\ MicHolds' /\ Follows

AskSync == {Msg("sync", None)}

\* A step of the page that shows no other call than before.
PageGoes ==
    /\ page.terminal \subseteq page'.terminal
    /\ page'.terminal \subseteq page.terminal \union {page.call.id}
    /\ page'.call.id \in {page.call.id, None}
    /\ Live(page'.call) => Live(page.call) \/ page'.call.id = None
    /\ page'.socketTimer => page.socketTimer
    /\ SyncAck \in tasks' <=> SyncAck \in tasks

\* It sends m; it rejects only what it has left.
Sends(m) ==
    /\ m \in Seq(Packet) /\ toBackend' = toBackend \o m
    /\ ~Has(m, AskSync)
    /\ \A c \in CallId :
          /\ Has(m, {Msg("accept", c), Msg("reject", c)}) =>
                c \in IncomingCall /\ session[c] # "active"
          /\ Has(m, {Msg("reject", c)}) => socketOpen /\ c \in page'.terminal

\* It tells the gateway of the call that it leaves, or has asked it, or the
\* gateway knows.
Reports ==
    \A c \in CallId : Shows(c) =>
       \/ Shows(c)' \/ ~socketOpen \/ Has(toBackend', {Msg("end", c), Msg("reject", c)})
       \/ SyncAck \in tasks \/ finishing[c] # "no" \/ c \notin InMap

\* It handles an event that brings it no call, or none.
Handles ==
    \/ toPage' = toPage
    \/ /\ toPage # <<>> /\ toPage' = Tail(toPage)
       /\ Head(toPage) \notin States
       /\ \A c \in CallId : Head(toPage) \in Closes(c) => ~Shows(c)'

\* Packets that ask for nothing, and neither accept nor reject a call.
Harmless(m) ==
    \/ m = <<>>
    \/ \E k \in {"offer", "answer", "recover", "end"}, c \in CallId : m = <<Msg(k, c)>>
    \/ \E k \in {"answer", "recover", "start"} : m = <<Msg(k, None)>>

\* A page that differs in what it does with its call, not in which one it is.
Same(p, q) == SameCall(p, q) /\ q.socketTimer = p.socketTimer

\* The page handles the news of the end of call c, and this is all it does.
ClosesHere(c) ==
    /\ UNCHANGED <<socketOpen, session, finishing>>
    /\ toPage # <<>> /\ toPage' = Tail(toPage) /\ Head(toPage) \in Closes(c)

\* The page handles an event that tells which call it has, or that it has none.
IsTold ==
    /\ UNCHANGED <<socketOpen, session, finishing>>
    /\ toPage # <<>> /\ toPage' = Tail(toPage) /\ Head(toPage) \in States

\* Its question is answered now, or still to be answered.
StillAsks ==
    /\ page'.socketTimer => page.socketTimer /\ (SyncAck \in tasks => SyncAck \in tasks')
    /\ SyncAck \in tasks' => SyncAck \in tasks /\ Head(toPage) \notin Answers(SyncAck)

\* What a step of the gateway, or of the peer, that tells the page m does to
\* call c.
CallFits(c, m) ==
    /\ c \in InMap' => c \in InMap \/ (c \in Early /\ (socketOpen => Has(m, Brings(c))))
    /\ finishing[c] # "no" => finishing'[c] # "no" \/ c \notin InMap'
    /\ Has(m, Closes(c)) => c \notin InMap' \/ finishing'[c] # "no"
    /\ Has(m, Brings(c)) => c \notin Lost' /\ (c \in Early \/ SyncAck \in tasks)
    /\ c \in Lost' /\ socketOpen =>
          \/ c \in Lost \/ Has(m, Closes(c))
          \/ ~Shows(c) /\ (c \in page.terminal \/ ~Has(toPage, Brings(c)))
    /\ Has(toBackend', {Msg("accept", c), Msg("reject", c)}) => session'[c] # "active"

\* It tells m, in which at most one event says which call there is.
GatewayTells(m) ==
    /\ m \in Seq(Event) /\ Emit(m)
    /\ UNCHANGED <<page, tasks, socketOpen>>
    /\ OneInMap'
    /\ \/ ~Has(m, States)
       \/ \E e \in States : m = <<e>> /\ \A c \in CallId : c \in InMap' <=> c = e.call
    /\ \A c \in CallId : CallFits(c, m)

\* It has done, or answered, what the page asked for.
Consumes(m) ==
    \/ toBackend' = toBackend
    \/ /\ toBackend # <<>> /\ toBackend' = Tail(toBackend) /\ socketOpen
       /\ \A c \in CallId : Head(toBackend) \in {Msg("end", c), Msg("reject", c)} =>
             c \notin InMap' \/ finishing'[c] # "no"
       /\ Head(toBackend) \in AskSync => Has(m, Answers(SyncAck)) /\ UNCHANGED <<session, finishing>>

=============================================================================
