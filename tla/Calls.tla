------------------------------- MODULE Calls -------------------------------
(***************************************************************************)
(* One-to-one audio calls: the call sessions, ring timers and reconnect    *)
(* grace timers of the chat gateway (backend/src/chat/chat.gateway.ts) and *)
(* the call records of CallsService (backend/src/calls/calls.service.ts),  *)
(* which are kept in memory and written through to PostgreSQL.             *)
(*                                                                         *)
(* The backend is one Node.js process: a handler runs without interruption *)
(* up to its first await of a Prisma query, and is resumed when the query  *)
(* is answered.  Each such handler is therefore split in the step that     *)
(* sends the query, the step in which PostgreSQL executes it, and the step *)
(* that resumes the handler (or makes it throw).  Queries of two handlers  *)
(* run on different connections of the pool, so PostgreSQL may execute     *)
(* them in either order.  The other awaits of these handlers are promises  *)
(* that are already resolved (UsersService and the access checks read      *)
(* memory only), so no other handler runs in between.                      *)
(*                                                                         *)
(* call:signal, call:sync and call:recover only forward or report; they    *)
(* change no state and are not actions here.  A suspended user's event     *)
(* makes getUser disconnect the socket: that is a Disconnect.              *)
(***************************************************************************)
EXTENDS Faults, Naturals, Sequences, FiniteSets

CONSTANTS
    User,           \* users that may call one another
    Call,           \* call ids (randomUUID), each used by one call:start
    Caller,         \* Caller[c]: callerId of the session with id c
    Recipient,      \* Recipient[c]: recipientId of the session with id c
    Socket,         \* names for the sockets of one user (browser tabs)
    MaxStarting     \* bound: call:start handlers that await PostgreSQL at once

ASSUME CallParties ==
    /\ Caller \in [Call -> User]
    /\ Recipient \in [Call -> User]
    /\ \A c \in Call : Caller[c] # Recipient[c]

ASSUME CallBound == MaxStarting \in Nat

VARIABLES
    sockets,        \* onlineUserSockets: the open sockets of each user
    callSessions,   \* status of the session in the map, "none" if not in it
    ringTimer,      \* calls whose 30 s ring timer is running
    graceTimer,     \* callDisconnectTimeouts: users whose 15 s timer runs
    record,         \* CallsService.calls: status of the record in memory
    db,             \* status of the row in the table call_records
    starting,       \* the callsService.start query of each call
    accepting,      \* the callsService.accept query of each call
    finishing,      \* the callsService.finish query of each call
    told            \* call events sent to the room of the caller, in order

vars == <<sockets, callSessions, ringTimer, graceTimer, record, db,
          starting, accepting, finishing, told>>

Query     == {"idle", "sent", "stored"}
Session   == {"none", "ringing", "active"}
LiveCall  == {"ringing", "active"}
DoneCall  == {"completed", "declined", "missed", "failed"}
Status    == {"none"} \union LiveCall \union DoneCall
CallEvent == {"accepted", "rejected", "ended"}

(***************************************************************************)
(* Who awaits a finish query: call:reject, call:end, call:accept when the  *)
(* caller is gone, the ring timer, or the grace timer of either party,     *)
(* which finishes the calls of "rest" one after the other.                 *)
(***************************************************************************)
Finisher == {"reject", "end", "unavailable", "unanswered",
             "callerGone", "recipientGone"}

FinishQuery == [query : Query, by : Finisher, rest : SUBSET Call]

NoFinish == [query |-> "idle", by |-> "end", rest |-> {}]

TypeOK ==
    /\ sockets \in [User -> SUBSET Socket]
    /\ callSessions \in [Call -> Session]
    /\ ringTimer \in SUBSET Call
    /\ graceTimer \in SUBSET User
    /\ record \in [Call -> Status]
    /\ db \in [Call -> Status]
    /\ starting \in [Call -> Query]
    /\ accepting \in [Call -> Query]
    /\ finishing \in [Call -> FinishQuery]
    /\ told \in [Call -> Seq(CallEvent)]

Init ==
    /\ sockets = [u \in User |-> {}]
    /\ callSessions = [c \in Call |-> "none"]
    /\ ringTimer = {}
    /\ graceTimer = {}
    /\ record = [c \in Call |-> "none"]
    /\ db = [c \in Call |-> "none"]
    /\ starting = [c \in Call |-> "idle"]
    /\ accepting = [c \in Call |-> "idle"]
    /\ finishing = [c \in Call |-> NoFinish]
    /\ told = [c \in Call |-> <<>>]

-----------------------------------------------------------------------------
Online(u) == sockets[u] # {}

Parties(c) == {Caller[c], Recipient[c]}

InMap(c) == callSessions[c] # "none"

CallsOf(u) == {c \in Call : InMap(c) /\ u \in Parties(c)}

Reachable(u) == Online(u) \/ u \in graceTimer

\* The status CallsService.finish gives a record (finishedStatus).
FinishedStatus(status, by) ==
    IF status = "active" THEN "completed"
    ELSE IF by = "reject" THEN "declined"
    ELSE IF by = "unanswered" THEN "missed"
    ELSE "failed"

\* clearCall for every call of D: the ring timer and the session go, and, for
\* a session that was still in the map, the grace timers of both parties.
\* "fired" holds the user whose grace timer has just fired, if any.
ClearCalls(D, fired) ==
    /\ callSessions' = [c \in Call |-> IF c \in D THEN "none" ELSE callSessions[c]]
    /\ ringTimer' = ringTimer \ D
    /\ graceTimer' = {u \in graceTimer \ fired :
                         \A c \in D : InMap(c) => u \notin Parties(c)}

Tell(D, event) ==
    told' = [c \in Call |-> IF c \in D THEN Append(told[c], event) ELSE told[c]]

\* CallsService.finish of a live record: the record is finished in memory and
\* the query is sent.  "queries" holds the finish queries before this one.
SendFinish(c, by, rest, queries) ==
    /\ record' = [record EXCEPT ![c] = FinishedStatus(record[c], by)]
    /\ finishing' = [queries EXCEPT
                        ![c] = [query |-> "sent", by |-> by, rest |-> rest]]

\* Mutants of FinishCall: every finisher stops the ring timer at once; a
\* finisher does not look whether the record is finished.
FinishCallUntimed(c, by) ==
    \/ /\ record[c] \in LiveCall
       /\ SendFinish(c, by, {}, finishing)
       /\ ringTimer' = ringTimer \ {c}
       /\ UNCHANGED <<callSessions, graceTimer, told>>
    \/ /\ record[c] \notin LiveCall
       /\ Tell({c}, "ended")
       /\ ClearCalls({c}, {})
       /\ UNCHANGED <<record, finishing>>

FinishCallAgain(c, by) ==
    /\ SendFinish(c, by, {}, finishing)
    /\ ringTimer' = IF by = "unanswered" THEN ringTimer \ {c} ELSE ringTimer
    /\ UNCHANGED <<callSessions, graceTimer, told>>

\* finishCall: the first finisher awaits its query.  One that finds the record
\* finished already does not wait: it sends call:ended and clears the session.
FinishCall(c, by) ==
    \/ /\ record[c] \in LiveCall
       /\ SendFinish(c, by, {}, finishing)
       /\ ringTimer' = IF by = "unanswered" THEN ringTimer \ {c} ELSE ringTimer
       /\ UNCHANGED <<callSessions, graceTimer, told>>
    \/ /\ record[c] \notin LiveCall
       /\ Tell({c}, "ended")
       /\ ClearCalls({c}, {})
       /\ UNCHANGED <<record, finishing>>

\* finishCallsForUser: the loop over the calls S of u, which has just finished
\* the calls of "done".  It runs through calls whose record is finished and
\* stops at the first live one to await its query.  S is visited in the order
\* of the map, which the model leaves open.
SweepCalls(u, done, S, fired, queries) ==
    LET left == {c \in S : InMap(c)} \ done
        live == {c \in left : record[c] \in LiveCall}
    IN
    \/ /\ live = {}
       /\ Tell(done \union left, "ended")
       /\ ClearCalls(done \union left, fired)
       /\ finishing' = queries
       /\ UNCHANGED record
    \/ \E c \in live, D \in SUBSET (left \ live) :
          /\ Tell(done \union D, "ended")
          /\ ClearCalls(done \union D, fired)
          /\ SendFinish(c, IF u = Caller[c] THEN "callerGone" ELSE "recipientGone",
                        left \ (D \union {c}), queries)

-----------------------------------------------------------------------------
\* handleConnection
Connect(u, s) ==
    /\ s \notin sockets[u]
    /\ sockets' = [sockets EXCEPT ![u] = @ \union {s}]
    /\ graceTimer' = graceTimer \ {u}
    /\ UNCHANGED <<callSessions, ringTimer, record, db,
                   starting, accepting, finishing, told>>

\* Mutants of Disconnect: the grace timer starts when any socket closes; it
\* does not start while the call is established.
DisconnectHasty(u, s) ==
    /\ s \in sockets[u]
    /\ sockets' = [sockets EXCEPT ![u] = @ \ {s}]
    /\ graceTimer' = IF CallsOf(u) # {} THEN graceTimer \union {u} ELSE graceTimer
    /\ UNCHANGED <<callSessions, ringTimer, record, db,
                   starting, accepting, finishing, told>>

\* handleDisconnect, with scheduleCallDisconnect when it was the last socket.
Disconnect(u, s) ==
    /\ s \in sockets[u]
    /\ sockets' = [sockets EXCEPT ![u] = @ \ {s}]
    /\ graceTimer' = IF sockets[u] = {s} /\ CallsOf(u) # {}
                     THEN graceTimer \union {u}
                     ELSE graceTimer
    /\ UNCHANGED <<callSessions, ringTimer, record, db,
                   starting, accepting, finishing, told>>

\* Mutants of StartCall: the record enters memory before it is stored; only
\* the caller is checked to be free.
StartCallEarly(c) ==
    /\ record[c] = "none" /\ db[c] = "none" /\ starting[c] = "idle"
    /\ \A u \in Parties(c) : Online(u) /\ CallsOf(u) = {}
    /\ Cardinality({d \in Call : starting[d] # "idle"}) < MaxStarting
    /\ starting' = [starting EXCEPT ![c] = "sent"]
    /\ record' = [record EXCEPT ![c] = "ringing"]
    /\ UNCHANGED <<sockets, callSessions, ringTimer, graceTimer, db,
                   accepting, finishing, told>>

StartCallToBusy(c) ==
    /\ record[c] = "none" /\ db[c] = "none" /\ starting[c] = "idle"
    /\ \A u \in Parties(c) : Online(u)
    /\ CallsOf(Caller[c]) = {}
    /\ Cardinality({d \in Call : starting[d] # "idle"}) < MaxStarting
    /\ starting' = [starting EXCEPT ![c] = "sent"]
    /\ UNCHANGED <<sockets, callSessions, ringTimer, graceTimer, record, db,
                   accepting, finishing, told>>

\* startCall up to callsService.start.
StartCall(c) ==
    /\ record[c] = "none" /\ db[c] = "none" /\ starting[c] = "idle"
    /\ Online(Caller[c])
    /\ Online(Recipient[c])
    /\ CallsOf(Caller[c]) = {}
    /\ CallsOf(Recipient[c]) = {}
    /\ Cardinality({d \in Call : starting[d] # "idle"}) < MaxStarting
    /\ starting' = [starting EXCEPT ![c] = "sent"]
    /\ UNCHANGED <<sockets, callSessions, ringTimer, graceTimer, record, db,
                   accepting, finishing, told>>

\* startCall after callsService.start: whoever went offline meanwhile had no
\* session yet, and gets no grace timer.
ResumeStart(c) ==
    /\ starting[c] = "stored"
    /\ starting' = [starting EXCEPT ![c] = "idle"]
    /\ record' = [record EXCEPT ![c] = "ringing"]
    /\ callSessions' = [callSessions EXCEPT ![c] = "ringing"]
    /\ ringTimer' = ringTimer \union {c}
    /\ UNCHANGED <<sockets, graceTimer, db, accepting, finishing, told>>

\* acceptCall up to its first query.
AcceptCall(c) ==
    /\ callSessions[c] = "ringing"
    /\ Online(Recipient[c])
    /\ \/ /\ ~Reachable(Caller[c])
          /\ FinishCall(c, "unavailable")
          /\ UNCHANGED accepting
       \/ /\ Reachable(Caller[c])
          /\ callSessions' = [callSessions EXCEPT ![c] = "active"]
          /\ ringTimer' = ringTimer \ {c}
          /\ \/ /\ record[c] = "ringing"
                /\ record' = [record EXCEPT ![c] = "active"]
                /\ accepting' = [accepting EXCEPT ![c] = "sent"]
                /\ UNCHANGED told
             \/ /\ record[c] # "ringing"
                /\ Tell({c}, "accepted")
                /\ UNCHANGED <<record, accepting>>
          /\ UNCHANGED <<graceTimer, finishing>>
    /\ UNCHANGED <<sockets, db, starting>>

\* acceptCall after callsService.accept.
ResumeAccept(c) ==
    /\ accepting[c] = "stored"
    /\ accepting' = [accepting EXCEPT ![c] = "idle"]
    /\ Tell({c}, "accepted")
    /\ UNCHANGED <<sockets, callSessions, ringTimer, graceTimer, record, db,
                   starting, finishing>>

\* Mutant of RejectCall: a call that somebody else finishes already is not
\* rejected to the caller.
RejectCallSilent(c) ==
    /\ callSessions[c] = "ringing"
    /\ Online(Recipient[c])
    /\ \/ /\ record[c] \in LiveCall
          /\ Tell({c}, "rejected")
          /\ SendFinish(c, "reject", {}, finishing)
          /\ UNCHANGED <<callSessions, ringTimer, graceTimer>>
       \/ /\ record[c] \notin LiveCall
          /\ ClearCalls({c}, {})
          /\ UNCHANGED <<record, finishing, told>>
    /\ UNCHANGED <<sockets, db, starting, accepting>>

\* rejectCall: the caller is told before the record is finished.
RejectCall(c) ==
    /\ callSessions[c] = "ringing"
    /\ Online(Recipient[c])
    /\ Tell({c}, "rejected")
    /\ \/ /\ record[c] \in LiveCall
          /\ SendFinish(c, "reject", {}, finishing)
          /\ UNCHANGED <<callSessions, ringTimer, graceTimer>>
       \/ /\ record[c] \notin LiveCall
          /\ ClearCalls({c}, {})
          /\ UNCHANGED <<record, finishing>>
    /\ UNCHANGED <<sockets, db, starting, accepting>>

\* endCall, by either party, ringing or active.
EndCall(c) ==
    /\ InMap(c)
    /\ \E u \in Parties(c) : Online(u)
    /\ FinishCall(c, "end")
    /\ UNCHANGED <<sockets, db, starting, accepting>>

\* Mutant of RingTimeout: the timer goes and the call stays.
RingTimeoutIdle(c) ==
    /\ c \in ringTimer
    /\ ringTimer' = ringTimer \ {c}
    /\ UNCHANGED <<sockets, callSessions, graceTimer, record, db,
                   starting, accepting, finishing, told>>

\* The 30 s timer of startCall fires.
RingTimeout(c) ==
    /\ c \in ringTimer
    /\ FinishCall(c, "unanswered")
    /\ UNCHANGED <<sockets, db, starting, accepting>>

\* Mutant of GraceTimeout: the calls are left alone.
GraceTimeoutIdle(u) ==
    /\ u \in graceTimer
    /\ graceTimer' = graceTimer \ {u}
    /\ UNCHANGED <<sockets, callSessions, ringTimer, record, db,
                   starting, accepting, finishing, told>>

\* The 15 s timer of scheduleCallDisconnect fires: nothing but the timer goes
\* if the user is back online.
GraceTimeout(u) ==
    /\ u \in graceTimer
    /\ SweepCalls(u, {}, IF Online(u) THEN {} ELSE CallsOf(u), {u}, finishing)
    /\ UNCHANGED <<sockets, db, starting, accepting>>

\* The handler that awaits callsService.finish goes on.
ResumeFinish(c) ==
    /\ finishing[c].query = "stored"
    /\ \/ /\ finishing[c].by = "reject"
          /\ ClearCalls({c}, {})
          /\ finishing' = [finishing EXCEPT ![c] = NoFinish]
          /\ UNCHANGED <<record, told>>
       \/ /\ finishing[c].by \in {"end", "unavailable", "unanswered"}
          /\ Tell({c}, "ended")
          /\ ClearCalls({c}, {})
          /\ finishing' = [finishing EXCEPT ![c] = NoFinish]
          /\ UNCHANGED record
       \/ /\ finishing[c].by \in {"callerGone", "recipientGone"}
          /\ SweepCalls(IF finishing[c].by = "callerGone" THEN Caller[c]
                                                          ELSE Recipient[c],
                        {c}, finishing[c].rest, {},
                        [finishing EXCEPT ![c] = NoFinish])
    /\ UNCHANGED <<sockets, db, starting, accepting>>

-----------------------------------------------------------------------------
(***************************************************************************)
(* PostgreSQL executes a query.                                            *)
(***************************************************************************)
StoreStart(c) ==
    /\ starting[c] = "sent"
    /\ starting' = [starting EXCEPT ![c] = "stored"]
    /\ db' = [db EXCEPT ![c] = "ringing"]
    /\ UNCHANGED <<sockets, callSessions, ringTimer, graceTimer, record,
                   accepting, finishing, told>>

StoreAccept(c) ==
    /\ accepting[c] = "sent"
    /\ accepting' = [accepting EXCEPT ![c] = "stored"]
    /\ db' = [db EXCEPT ![c] = "active"]
    /\ UNCHANGED <<sockets, callSessions, ringTimer, graceTimer, record,
                   starting, finishing, told>>

StoreFinish(c) ==
    /\ finishing[c].query = "sent"
    /\ finishing' = [finishing EXCEPT ![c].query = "stored"]
    /\ db' = [db EXCEPT ![c] = record[c]]
    /\ UNCHANGED <<sockets, callSessions, ringTimer, graceTimer, record,
                   starting, accepting, told>>

(***************************************************************************)
(* The process is gone: sockets, sessions, timers and handlers with it.    *)
(* onModuleInit of CallsService then marks every live row as failed and    *)
(* loads the table, before the server listens again.                       *)
(***************************************************************************)
RestartBackend ==
    LET recovered == [c \in Call |-> IF db[c] \in LiveCall THEN "failed" ELSE db[c]]
    IN
    /\ sockets' = [u \in User |-> {}]
    /\ callSessions' = [c \in Call |-> "none"]
    /\ ringTimer' = {}
    /\ graceTimer' = {}
    /\ record' = recovered
    /\ db' = recovered
    /\ starting' = [c \in Call |-> "idle"]
    /\ accepting' = [c \in Call |-> "idle"]
    /\ finishing' = [c \in Call |-> NoFinish]
    /\ UNCHANGED told

Restart == MayRestart /\ RestartBackend

(***************************************************************************)
(* A query fails, or is executed but its answer is lost: the handler that  *)
(* awaits it throws.  The grace timer's handler is caught and logged, the  *)
(* socket handlers answer with an exception; the ring timer's promise is   *)
(* not caught, and an unhandled rejection ends the Node.js process, which  *)
(* docker compose starts again.                                            *)
(***************************************************************************)
FailStart(c) ==
    /\ DbMayFail
    /\ starting[c] # "idle"
    /\ starting' = [starting EXCEPT ![c] = "idle"]
    /\ UNCHANGED <<sockets, callSessions, ringTimer, graceTimer, record, db,
                   accepting, finishing, told>>

FailAccept(c) ==
    /\ DbMayFail
    /\ accepting[c] # "idle"
    /\ accepting' = [accepting EXCEPT ![c] = "idle"]
    /\ UNCHANGED <<sockets, callSessions, ringTimer, graceTimer, record, db,
                   starting, finishing, told>>

FailFinish(c) ==
    /\ DbMayFail
    /\ finishing[c].query # "idle"
    /\ \/ /\ finishing[c].by = "unanswered"
          /\ RestartBackend
       \/ /\ finishing[c].by # "unanswered"
          /\ finishing' = [finishing EXCEPT ![c] = NoFinish]
          /\ UNCHANGED <<sockets, callSessions, ringTimer, graceTimer, record,
                         db, starting, accepting, told>>

-----------------------------------------------------------------------------
Next ==
    \/ \E u \in User, s \in Socket : Connect(u, s) \/ Disconnect(u, s)
    \/ \E c \in Call :
          \/ StartCall(c) \/ ResumeStart(c)
          \/ AcceptCall(c) \/ ResumeAccept(c)
          \/ RejectCall(c) \/ EndCall(c) \/ RingTimeout(c)
          \/ ResumeFinish(c)
          \/ StoreStart(c) \/ StoreAccept(c) \/ StoreFinish(c)
          \/ FailStart(c) \/ FailAccept(c) \/ FailFinish(c)
    \/ \E u \in User : GraceTimeout(u)
    \/ Restart

(***************************************************************************)
(* Timers fire, PostgreSQL answers and an answered handler goes on.  Users *)
(* are not obliged to do anything.                                         *)
(***************************************************************************)
Fairness ==
    /\ \A c \in Call :
          /\ WF_vars(RingTimeout(c))
          /\ WF_vars(StoreStart(c) \/ StoreAccept(c))
          /\ WF_vars(StoreFinish(c))
          /\ WF_vars(ResumeStart(c)) /\ WF_vars(ResumeAccept(c))
          /\ WF_vars(ResumeFinish(c))
    /\ \A u \in User : WF_vars(GraceTimeout(u))

Spec == Init /\ [][Next]_vars

FairSpec == Spec /\ Fairness

-----------------------------------------------------------------------------
(***************************************************************************)
(* Properties                                                              *)
(***************************************************************************)

\* A reconnect grace timer runs only for a user who is offline and takes part
\* in a call whose session exists: reconnecting and the end of the call both
\* take the timer away, whatever handlers overlap.
GraceTimerSound ==
    \A u \in graceTimer : ~Online(u) /\ CallsOf(u) # {}

\* A ringing call never loses its way out: its ring timer runs, or the timer
\* has fired and the finish it started is under way.  A running ring timer in
\* turn belongs to a call that rings.
RingingIsTimed ==
    /\ \A c \in ringTimer : callSessions[c] = "ringing"
    /\ \A c \in Call : callSessions[c] = "ringing" =>
          \/ c \in ringTimer
          \/ finishing[c].query # "idle" /\ finishing[c].by = "unanswered"

\* The gateway's session and the record of CallsService agree: a live record
\* has a session, with the same status, so the history never shows a call in
\* progress that nobody can end.
LiveRecordHasSession ==
    \A c \in Call : record[c] \in LiveCall => callSessions[c] = record[c]

\* A finish that awaits PostgreSQL belongs to a record already finished, so a
\* second finisher can tell, and a call is never finished by two queries.
FinishesOnce ==
    \A c \in Call : finishing[c].query # "idle" => record[c] \in DoneCall

\* A finished call keeps its outcome: an accept, a second finisher or a timer
\* that overlaps the finish never reopens or relabels the record.  Only a
\* restart replaces records, by what the table holds.
OutcomeIsFinal ==
    [][~RestartBackend =>
          \A c \in Call : record[c] \in DoneCall => record'[c] = record[c]]_vars

\* A session leaves the map only after the caller was told, by call:rejected
\* or call:ended; a restart is the exception.
NoCallVanishes ==
    [][~RestartBackend =>
          \A c \in Call : InMap(c) /\ ~InMap(c)' =>
             \E i \in DOMAIN told'[c] : told'[c][i] \in {"rejected", "ended"}]_vars

\* USER_BUSY: nobody takes part in two calls.  It holds when call:start
\* handlers do not overlap; findCallForUser is read before the await of
\* callsService.start and the session is stored after it.
UserInOneCall ==
    \A c, d \in Call :
       InMap(c) /\ InMap(d) /\ Parties(c) \cap Parties(d) # {} => c = d

\* A call does not ring for ever, even if PostgreSQL fails: somebody answers,
\* or the ring timer ends it (or its failure restarts the process).
RingingEnds ==
    \A c \in Call : callSessions[c] = "ringing" ~> callSessions[c] # "ringing"

\* A user who stays away ends up in no call, and the peer is free again.
AbandonedCallEnds ==
    \A c \in Call : \A u \in Parties(c) :
       <>[](~Online(u)) => <>[](~InMap(c))

\* No call lasts for ever without somebody: neither while it rings nor after a
\* party has left.
CallsEnd == RingingEnds /\ AbandonedCallEnds

=============================================================================
