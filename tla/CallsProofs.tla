---------------------------- MODULE CallsProofs ----------------------------
(***************************************************************************)
(* What the gateway guarantees about calls for any users, calls, sockets   *)
(* and overlap of handlers, with failing queries and restarts.             *)
(***************************************************************************)
EXTENDS Calls, FiniteSetTheorems, TLAPS

\* startCall stores its session under an id that has no record yet.
StartIsFresh ==
    \A c \in Call : starting[c] # "idle" => record[c] = "none"

\* The inductive invariant.  LiveRecordHasSession needs FinishesOnce (only
\* calls with a finished record are cleared), which needs StartIsFresh (a
\* record does not come to life while a finish is under way).
CallsInv ==
    /\ TypeOK
    /\ StartIsFresh
    /\ FinishesOnce
    /\ LiveRecordHasSession
    /\ RingingIsTimed
    /\ GraceTimerSound

LEMMA FinishedStatusType ==
    ASSUME NEW status \in Status, NEW by \in Finisher
    PROVE  FinishedStatus(status, by) \in DoneCall
BY DEF FinishedStatus, DoneCall

LEMMA InitCallsInv == Init => CallsInv
<1> SUFFICES ASSUME Init PROVE CallsInv
  OBVIOUS
<1>1. TypeOK
  BY DEF Init, TypeOK, NoFinish, FinishQuery, Query, Session, Status, Finisher
<1>2. QED
  BY <1>1 DEF Init, CallsInv, StartIsFresh, FinishesOnce, LiveRecordHasSession,
              RingingIsTimed, GraceTimerSound, NoFinish, LiveCall

-----------------------------------------------------------------------------
(***************************************************************************)
(* Type correctness of the shared steps                                    *)
(***************************************************************************)

LEMMA TellType ==
    ASSUME TypeOK, NEW D, NEW event \in CallEvent, Tell(D, event)
    PROVE  told' \in [Call -> Seq(CallEvent)]
BY DEF TypeOK, Tell

LEMMA ClearCallsType ==
    ASSUME TypeOK, NEW D, NEW fired, ClearCalls(D, fired)
    PROVE  /\ callSessions' \in [Call -> Session]
           /\ ringTimer' \in SUBSET Call
           /\ graceTimer' \in SUBSET User
BY DEF TypeOK, ClearCalls, Session

LEMMA SendFinishEffect ==
    ASSUME TypeOK, NEW c \in Call, NEW by \in Finisher,
           NEW rest \in SUBSET Call, NEW queries \in [Call -> FinishQuery],
           SendFinish(c, by, rest, queries)
    PROVE  /\ record' \in [Call -> Status]
           /\ finishing' \in [Call -> FinishQuery]
           /\ record'[c] \in DoneCall
           /\ finishing'[c].query = "sent"
           /\ finishing'[c].by = by
           /\ \A d \in Call \ {c} : /\ record'[d] = record[d]
                                    /\ finishing'[d] = queries[d]
<1>1. FinishedStatus(record[c], by) \in DoneCall
  BY FinishedStatusType DEF TypeOK
<1>2. [query |-> "sent", by |-> by, rest |-> rest] \in FinishQuery
  BY DEF FinishQuery, Query
<1>3. QED
  BY <1>1, <1>2 DEF TypeOK, SendFinish, Status

LEMMA NoFinishType == NoFinish \in FinishQuery
BY DEF NoFinish, FinishQuery, Query, Finisher

(***************************************************************************)
(* The step shared by all handlers that end calls: the sessions of D are   *)
(* cleared, none of which has a live record, and each other call keeps its *)
(* record and its query, or has its live record finished.  R is the call   *)
(* whose ring timer has fired, if any.                                     *)
(***************************************************************************)
EndStep(D, R, fired) ==
    /\ sockets' = sockets /\ db' = db
    /\ starting' = starting /\ accepting' = accepting
    /\ callSessions' = [c \in Call |-> IF c \in D THEN "none" ELSE callSessions[c]]
    /\ ringTimer' = ringTimer \ (D \union R)
    /\ graceTimer' = {u \in graceTimer \ fired :
                         \A c \in D : InMap(c) => u \notin Parties(c)}
    /\ record' \in [Call -> Status]
    /\ finishing' \in [Call -> FinishQuery]
    /\ told' \in [Call -> Seq(CallEvent)]
    /\ \A d \in Call :
          \/ /\ record'[d] = record[d]
             /\ finishing'[d] = finishing[d] \/ (d \in D /\ finishing'[d] = NoFinish)
          \/ record[d] \in LiveCall /\ record'[d] \in DoneCall /\ d \notin D
    /\ \A d \in R : \/ d \in D
                    \/ /\ finishing'[d].query # "idle"
                       /\ finishing'[d].by = "unanswered"

LEMMA EndStepInv ==
    ASSUME CallsInv, NEW D \in SUBSET Call, NEW R \in SUBSET Call, NEW fired,
           \A d \in D : record[d] \notin LiveCall,
           EndStep(D, R, fired)
    PROVE  CallsInv'
<1> USE DEF CallsInv, EndStep
<1>1. TypeOK'
  BY DEF TypeOK, Session
<1>2. StartIsFresh'
  BY DEF StartIsFresh, LiveCall
<1>3. FinishesOnce'
  <2> SUFFICES ASSUME NEW d \in Call, finishing'[d].query # "idle"
               PROVE  record'[d] \in DoneCall
    BY DEF FinishesOnce
  <2>1. finishing'[d] # NoFinish
    BY DEF NoFinish
  <2>2. QED
    BY <2>1 DEF FinishesOnce
<1>4. LiveRecordHasSession'
  BY DEF LiveRecordHasSession, LiveCall, DoneCall
<1>5. RingingIsTimed'
  <2>1. \A c \in ringTimer' : callSessions'[c] = "ringing"
    BY DEF RingingIsTimed, TypeOK
  <2>2. ASSUME NEW c \in Call, callSessions'[c] = "ringing"
        PROVE  \/ c \in ringTimer'
               \/ finishing'[c].query # "idle" /\ finishing'[c].by = "unanswered"
    <3>1. c \notin D /\ callSessions[c] = "ringing"
      BY <2>2
    <3>2. CASE c \in ringTimer
      BY <3>1, <3>2
    <3>3. CASE finishing[c].query # "idle" /\ finishing[c].by = "unanswered"
      <4>1. record[c] \notin LiveCall
        BY <3>3 DEF FinishesOnce, DoneCall, LiveCall
      <4>2. QED
        BY <3>1, <3>3, <4>1
    <3>4. QED
      BY <3>1, <3>2, <3>3 DEF RingingIsTimed
  <2>3. QED
    BY <2>1, <2>2 DEF RingingIsTimed
<1>6. GraceTimerSound'
  BY DEF GraceTimerSound, CallsOf, Online, InMap, Parties, TypeOK
<1>7. QED
  BY <1>1, <1>2, <1>3, <1>4, <1>5, <1>6

\* A step that only clears sessions.
LEMMA ClearInv ==
    ASSUME CallsInv, NEW D \in SUBSET Call, NEW fired,
           \A d \in D : record[d] \notin LiveCall,
           UNCHANGED <<sockets, db, starting, accepting, record>>,
           ClearCalls(D, fired),
           told' \in [Call -> Seq(CallEvent)],
           finishing' \in [Call -> FinishQuery],
           \A d \in Call : \/ finishing'[d] = finishing[d]
                           \/ d \in D /\ finishing'[d] = NoFinish
    PROVE  CallsInv'
<1>1. ringTimer' = ringTimer \ (D \union {})
  BY DEF ClearCalls
<1>2. /\ record' = record /\ record' \in [Call -> Status]
      /\ sockets' = sockets /\ db' = db
      /\ starting' = starting /\ accepting' = accepting
  BY DEF CallsInv, TypeOK
<1>3. EndStep(D, {}, fired)
  BY <1>1, <1>2, Zenon DEF EndStep, ClearCalls
<1>4. QED
  BY <1>3, EndStepInv

\* A step that finishes the record of c and clears no session.
LEMMA SendInv ==
    ASSUME CallsInv, NEW c \in Call, NEW by \in Finisher, NEW R \in SUBSET {c},
           record[c] \in LiveCall,
           SendFinish(c, by, {}, finishing),
           ringTimer' = ringTimer \ R,
           R # {} => by = "unanswered",
           UNCHANGED <<sockets, db, starting, accepting,
                       callSessions, graceTimer>>,
           told' \in [Call -> Seq(CallEvent)]
    PROVE  CallsInv'
<1>2. /\ record' \in [Call -> Status]
      /\ finishing' \in [Call -> FinishQuery]
      /\ record'[c] \in DoneCall
      /\ finishing'[c].query = "sent"
      /\ finishing'[c].by = by
      /\ \A d \in Call \ {c} : record'[d] = record[d] /\ finishing'[d] = finishing[d]
  BY SendFinishEffect DEF CallsInv, TypeOK
<1>3. callSessions' = [d \in Call |-> IF d \in {} THEN "none" ELSE callSessions[d]]
  BY DEF CallsInv, TypeOK
<1>4. /\ ringTimer' = ringTimer \ ({} \union R)
      /\ sockets' = sockets /\ db' = db
      /\ starting' = starting /\ accepting' = accepting
  OBVIOUS
<1>5. graceTimer' = {u \in graceTimer \ {} :
                       \A d \in {} : InMap(d) => u \notin Parties(d)}
  OBVIOUS
<1>6. \A d \in Call :
         \/ record'[d] = record[d] /\ finishing'[d] = finishing[d]
         \/ record[d] \in LiveCall /\ record'[d] \in DoneCall
  BY <1>2
<1>7. \A d \in R : finishing'[d].query # "idle" /\ finishing'[d].by = "unanswered"
  BY <1>2
<1>8. EndStep({}, R, {})
  BY <1>2, <1>3, <1>4, <1>5, <1>6, <1>7, Zenon DEF EndStep
<1>9. QED
  BY <1>8, EndStepInv

LEMMA FinishCallInv ==
    ASSUME CallsInv, NEW c \in Call,
           NEW by \in {"end", "unavailable", "unanswered"},
           FinishCall(c, by), UNCHANGED <<sockets, db, starting, accepting>>
    PROVE  CallsInv'
<1>1. CASE /\ record[c] \in LiveCall
           /\ SendFinish(c, by, {}, finishing)
           /\ ringTimer' = IF by = "unanswered" THEN ringTimer \ {c} ELSE ringTimer
           /\ UNCHANGED <<callSessions, graceTimer, told>>
  <2> DEFINE R == IF by = "unanswered" THEN {c} ELSE {}
  <2>1. /\ R \in SUBSET {c}
        /\ ringTimer' = ringTimer \ R
        /\ R # {} => by = "unanswered"
        /\ by \in Finisher
        /\ told' \in [Call -> Seq(CallEvent)]
    BY <1>1 DEF Finisher, CallsInv, TypeOK
  <2> HIDE DEF R
  <2>2. QED
    BY <1>1, <2>1, SendInv
<1>2. CASE /\ record[c] \notin LiveCall
           /\ Tell({c}, "ended")
           /\ ClearCalls({c}, {})
           /\ UNCHANGED <<record, finishing>>
  <2> DEFINE D == {c}
  <2>1. /\ told' \in [Call -> Seq(CallEvent)]
        /\ finishing' \in [Call -> FinishQuery]
    BY <1>2, TellType DEF CallsInv, TypeOK, CallEvent
  <2>2. D \in SUBSET Call /\ ClearCalls(D, {}) /\ \A d \in D : record[d] \notin LiveCall
    BY <1>2
  <2> HIDE DEF D
  <2>3. QED
    BY <1>2, <2>1, <2>2, ClearInv
<1>3. QED
  BY <1>1, <1>2 DEF FinishCall

LEMMA SweepCallsInv ==
    ASSUME CallsInv, NEW u \in User,
           NEW done \in SUBSET Call, \A d \in done : record[d] \notin LiveCall,
           NEW S \in SUBSET Call, NEW fired,
           NEW queries \in [Call -> FinishQuery],
           \A d \in Call : \/ queries[d] = finishing[d]
                           \/ d \in done /\ queries[d] = NoFinish,
           SweepCalls(u, done, S, fired, queries),
           UNCHANGED <<sockets, db, starting, accepting>>
    PROVE  CallsInv'
<1> DEFINE left == {c \in S : InMap(c)} \ done
           live == {c \in left : record[c] \in LiveCall}
<1>1. CASE /\ live = {}
           /\ Tell(done \union left, "ended")
           /\ ClearCalls(done \union left, fired)
           /\ finishing' = queries
           /\ UNCHANGED record
  <2>1. /\ done \union left \in SUBSET Call
        /\ \A d \in done \union left : record[d] \notin LiveCall
    BY <1>1
  <2>2. told' \in [Call -> Seq(CallEvent)]
    BY <1>1, TellType DEF CallsInv, CallEvent
  <2> HIDE DEF left
  <2>3. QED
    BY <1>1, <2>1, <2>2, ClearInv
<1>2. ASSUME NEW c \in live, NEW D \in SUBSET (left \ live),
             Tell(done \union D, "ended"),
             ClearCalls(done \union D, fired),
             SendFinish(c, IF u = Caller[c] THEN "callerGone" ELSE "recipientGone",
                        left \ (D \union {c}), queries)
      PROVE  CallsInv'
  <2> DEFINE E == done \union D
             by == IF u = Caller[c] THEN "callerGone" ELSE "recipientGone"
             rest == left \ (D \union {c})
  <2>1. /\ E \in SUBSET Call /\ c \in Call /\ c \notin E
        /\ record[c] \in LiveCall
        /\ \A d \in E : record[d] \notin LiveCall
        /\ by \in Finisher /\ rest \in SUBSET Call
    BY DEF Finisher
  <2>2. told' \in [Call -> Seq(CallEvent)]
    BY <1>2, TellType DEF CallsInv, CallEvent
  <2>3. /\ record' \in [Call -> Status]
        /\ finishing' \in [Call -> FinishQuery]
        /\ record'[c] \in DoneCall
        /\ \A d \in Call \ {c} : record'[d] = record[d] /\ finishing'[d] = queries[d]
    <3> HIDE DEF live, by, rest, left, E
    <3>1. SendFinish(c, by, rest, queries)
      BY <1>2, Zenon DEF by, rest
    <3>2. QED
      BY <2>1, <3>1, SendFinishEffect DEF CallsInv
  <2>4. \A d \in Call :
           \/ /\ record'[d] = record[d]
              /\ finishing'[d] = finishing[d] \/ (d \in E /\ finishing'[d] = NoFinish)
           \/ record[d] \in LiveCall /\ record'[d] \in DoneCall /\ d \notin E
    <3> HIDE DEF live, left
    <3>1. QED
      BY <2>1, <2>3
  <2>5. /\ sockets' = sockets /\ db' = db
        /\ starting' = starting /\ accepting' = accepting
        /\ ringTimer' = ringTimer \ (E \union {})
    BY <1>2 DEF ClearCalls
  <2> HIDE DEF live, left, by, rest
  <2>6. EndStep(E, {}, fired)
    BY <1>2, <2>2, <2>3, <2>4, <2>5, Zenon DEF EndStep, ClearCalls
  <2>7. QED
    BY <2>1, <2>6, EndStepInv
<1>3. QED
  BY <1>1, <1>2 DEF SweepCalls

-----------------------------------------------------------------------------
LEMMA AcceptCallInv ==
    ASSUME CallsInv, NEW c \in Call, AcceptCall(c)
    PROVE  CallsInv'
<1>1. CASE ~Reachable(Caller[c])
  <2>1. FinishCall(c, "unavailable") /\ UNCHANGED <<sockets, db, starting, accepting>>
    BY <1>1 DEF AcceptCall
  <2>2. QED
    BY <2>1, FinishCallInv
<1>2. CASE Reachable(Caller[c])
  <2>1. /\ callSessions[c] = "ringing"
        /\ callSessions' = [callSessions EXCEPT ![c] = "active"]
        /\ ringTimer' = ringTimer \ {c}
        /\ UNCHANGED <<sockets, graceTimer, db, starting, finishing>>
    BY <1>2 DEF AcceptCall
  <2>2. told' \in [Call -> Seq(CallEvent)]
    BY <1>2, TellType DEF AcceptCall, CallsInv, TypeOK, CallEvent
  <2>3. \/ /\ record[c] = "ringing"
           /\ record' = [record EXCEPT ![c] = "active"]
           /\ accepting' = [accepting EXCEPT ![c] = "sent"]
        \/ record[c] # "ringing" /\ UNCHANGED <<record, accepting>>
    BY <1>2 DEF AcceptCall
  <2>4. record[c] # "active"
    BY <2>1 DEF CallsInv, LiveRecordHasSession, LiveCall
  <2>5. TypeOK'
    BY <2>1, <2>2, <2>3 DEF CallsInv, TypeOK, Session, Status, LiveCall, Query
  <2>6. StartIsFresh'
    BY <2>1, <2>3 DEF CallsInv, StartIsFresh, TypeOK
  <2>7. FinishesOnce'
    BY <2>1, <2>3 DEF CallsInv, FinishesOnce, TypeOK, DoneCall
  <2>8. LiveRecordHasSession'
    BY <2>1, <2>3, <2>4 DEF CallsInv, LiveRecordHasSession, TypeOK, LiveCall
  <2>9. RingingIsTimed'
    BY <2>1 DEF CallsInv, RingingIsTimed, TypeOK
  <2>10. GraceTimerSound'
    BY <2>1 DEF CallsInv, GraceTimerSound, CallsOf, Online, InMap, TypeOK
  <2>11. QED
    BY <2>5, <2>6, <2>7, <2>8, <2>9, <2>10 DEF CallsInv
<1>3. QED
  BY <1>1, <1>2

LEMMA RejectCallInv ==
    ASSUME CallsInv, NEW c \in Call, RejectCall(c)
    PROVE  CallsInv'
<1>1. /\ told' \in [Call -> Seq(CallEvent)]
      /\ UNCHANGED <<sockets, db, starting, accepting>>
  BY TellType DEF RejectCall, CallsInv, CallEvent
<1>2. CASE /\ record[c] \in LiveCall
           /\ SendFinish(c, "reject", {}, finishing)
           /\ UNCHANGED <<callSessions, ringTimer, graceTimer>>
  <2>1. ringTimer' = ringTimer \ {} /\ "reject" \in Finisher
    BY <1>2 DEF Finisher
  <2>2. QED
    BY <1>1, <1>2, <2>1, SendInv
<1>3. CASE /\ record[c] \notin LiveCall
           /\ ClearCalls({c}, {})
           /\ UNCHANGED <<record, finishing>>
  <2> DEFINE D == {c}
  <2>1. /\ D \in SUBSET Call /\ ClearCalls(D, {})
        /\ \A d \in D : record[d] \notin LiveCall
        /\ finishing' \in [Call -> FinishQuery]
    BY <1>3 DEF CallsInv, TypeOK
  <2> HIDE DEF D
  <2>2. QED
    BY <1>1, <1>3, <2>1, ClearInv
<1>4. QED
  BY <1>2, <1>3 DEF RejectCall

LEMMA ResumeFinishInv ==
    ASSUME CallsInv, NEW c \in Call, ResumeFinish(c)
    PROVE  CallsInv'
<1> DEFINE D == {c}
           queries == [finishing EXCEPT ![c] = NoFinish]
<1>1. /\ D \in SUBSET Call
      /\ \A d \in D : record[d] \notin LiveCall
      /\ queries \in [Call -> FinishQuery]
      /\ \A d \in Call : \/ queries[d] = finishing[d]
                         \/ d \in D /\ queries[d] = NoFinish
      /\ UNCHANGED <<sockets, db, starting, accepting>>
  BY NoFinishType DEF CallsInv, TypeOK, ResumeFinish, FinishesOnce, DoneCall, LiveCall
<1>2. CASE finishing[c].by \in {"reject", "end", "unavailable", "unanswered"}
  <2>1. /\ ClearCalls(D, {}) /\ finishing' = queries /\ UNCHANGED record
        /\ Tell(D, "ended") \/ UNCHANGED told
    BY <1>2 DEF ResumeFinish
  <2>2. told' \in [Call -> Seq(CallEvent)]
    BY <2>1, TellType DEF CallsInv, TypeOK, CallEvent
  <2> HIDE DEF D, queries
  <2>3. QED
    BY <1>1, <2>1, <2>2, ClearInv
<1>3. CASE finishing[c].by \in {"callerGone", "recipientGone"}
  <2>1. PICK u \in User : SweepCalls(u, D, finishing[c].rest, {}, queries)
    BY <1>3, CallParties DEF ResumeFinish
  <2>2. finishing[c].rest \in SUBSET Call
    BY DEF CallsInv, TypeOK, FinishQuery
  <2> HIDE DEF D, queries
  <2>3. QED
    BY <1>1, <2>1, <2>2, SweepCallsInv
<1>4. QED
  BY <1>2, <1>3 DEF ResumeFinish

LEMMA GraceTimeoutInv ==
    ASSUME CallsInv, NEW u \in User, GraceTimeout(u)
    PROVE  CallsInv'
<1> DEFINE S == IF Online(u) THEN {} ELSE CallsOf(u)
<1>1. /\ S \in SUBSET Call
      /\ SweepCalls(u, {}, S, {u}, finishing)
      /\ UNCHANGED <<sockets, db, starting, accepting>>
      /\ finishing \in [Call -> FinishQuery]
  BY DEF GraceTimeout, CallsOf, CallsInv, TypeOK
<1> HIDE DEF S
<1>2. QED
  BY <1>1, SweepCallsInv

\* The steps that leave sessions and records alone.
LEMMA SocketInv ==
    ASSUME CallsInv, NEW u \in User, NEW s \in Socket,
           Connect(u, s) \/ Disconnect(u, s)
    PROVE  CallsInv'
<1>1. /\ UNCHANGED <<callSessions, ringTimer, record, db, starting, accepting,
                     finishing, told>>
      /\ sockets' \in [User -> SUBSET Socket]
      /\ graceTimer' \in SUBSET User
  BY DEF Connect, Disconnect, CallsInv, TypeOK
<1>2. GraceTimerSound'
  BY DEF Connect, Disconnect, CallsInv, GraceTimerSound, TypeOK, Online,
         CallsOf, InMap, Parties
<1>3. QED
  BY <1>1, <1>2 DEF CallsInv, TypeOK, StartIsFresh, FinishesOnce,
                    LiveRecordHasSession, RingingIsTimed

LEMMA StoreFinishInv ==
    ASSUME CallsInv, NEW c \in Call, StoreFinish(c)
    PROVE  CallsInv'
<1>1. /\ UNCHANGED <<sockets, callSessions, ringTimer, graceTimer, record,
                     starting, accepting, told>>
      /\ db' \in [Call -> Status]
  BY DEF StoreFinish, CallsInv, TypeOK
<1>2. finishing \in [Call -> FinishQuery]
  BY Zenon DEF CallsInv, TypeOK
<1>3. finishing' \in [Call -> FinishQuery]
  BY <1>2 DEF StoreFinish, FinishQuery, Query
<1>4. \A d \in Call : /\ (finishing'[d].query # "idle") <=>
                            (finishing[d].query # "idle")
                      /\ finishing'[d].by = finishing[d].by
  BY <1>2 DEF StoreFinish, FinishQuery
<1>5. TypeOK'
  BY <1>1, <1>3 DEF CallsInv, TypeOK
<1>6. QED
  BY <1>1, <1>4, <1>5 DEF CallsInv, StartIsFresh, FinishesOnce,
       LiveRecordHasSession, RingingIsTimed, GraceTimerSound, CallsOf, InMap, Online

LEMMA QueryInv ==
    ASSUME CallsInv, NEW c \in Call,
           \/ StartCall(c) \/ ResumeAccept(c)
           \/ StoreStart(c) \/ StoreAccept(c)
           \/ FailStart(c) \/ FailAccept(c)
    PROVE  CallsInv'
<1>1. UNCHANGED <<sockets, callSessions, ringTimer, graceTimer, record, finishing>>
  BY Zenon DEF StartCall, ResumeAccept, StoreStart, StoreAccept, FailStart, FailAccept
<1>2. /\ \A d \in Call : starting'[d] # "idle" =>
            starting[d] # "idle" \/ record[d] = "none"
      /\ starting' \in [Call -> Query]
  <2>1. CASE StartCall(c)
    <3>1. record[c] = "none" /\ starting' = [starting EXCEPT ![c] = "sent"]
      BY <2>1, Zenon DEF StartCall
    <3>2. QED
      BY <3>1 DEF CallsInv, TypeOK, Query
  <2>2. CASE StoreStart(c)
    BY <2>2 DEF StoreStart, CallsInv, TypeOK, Query
  <2>3. CASE FailStart(c)
    BY <2>3 DEF FailStart, CallsInv, TypeOK, Query
  <2>4. CASE ResumeAccept(c) \/ StoreAccept(c) \/ FailAccept(c)
    BY <2>4 DEF ResumeAccept, StoreAccept, FailAccept, CallsInv, TypeOK
  <2>5. QED
    BY <2>1, <2>2, <2>3, <2>4, Zenon
<1>3. /\ db' \in [Call -> Status]
      /\ accepting' \in [Call -> Query]
      /\ told' \in [Call -> Seq(CallEvent)]
  <2>1. CASE StartCall(c)
    <3>1. UNCHANGED db /\ UNCHANGED accepting /\ UNCHANGED told
      BY <2>1, Zenon DEF StartCall
    <3>2. QED
      BY <3>1 DEF CallsInv, TypeOK
  <2>2. CASE ResumeAccept(c)
    <3>1. told' \in [Call -> Seq(CallEvent)]
      BY <2>2, TellType DEF ResumeAccept, CallsInv, TypeOK, CallEvent
    <3>2. QED
      BY <2>2, <3>1 DEF ResumeAccept, CallsInv, TypeOK, Query
  <2>3. CASE StoreStart(c)
    BY <2>3 DEF StoreStart, CallsInv, TypeOK, Status, LiveCall
  <2>4. CASE StoreAccept(c)
    BY <2>4 DEF StoreAccept, CallsInv, TypeOK, Status, LiveCall, Query
  <2>5. CASE FailStart(c) \/ FailAccept(c)
    BY <2>5 DEF FailStart, FailAccept, CallsInv, TypeOK, Query
  <2>6. QED
    BY <2>1, <2>2, <2>3, <2>4, <2>5, Zenon
<1>4. TypeOK'
  BY <1>1, <1>2, <1>3 DEF CallsInv, TypeOK
<1>5. QED
  BY <1>1, <1>2, <1>4 DEF CallsInv, StartIsFresh, FinishesOnce,
       LiveRecordHasSession, RingingIsTimed, GraceTimerSound, CallsOf, InMap, Online

LEMMA ResumeStartInv ==
    ASSUME CallsInv, NEW c \in Call, ResumeStart(c)
    PROVE  CallsInv'
<1>1. record[c] = "none" /\ finishing[c].query = "idle"
  BY DEF ResumeStart, CallsInv, StartIsFresh, FinishesOnce, DoneCall
<1>2. TypeOK'
  BY DEF ResumeStart, CallsInv, TypeOK, Query, Status, LiveCall, Session
<1>3. StartIsFresh'
  BY DEF ResumeStart, CallsInv, TypeOK, StartIsFresh
<1>4. FinishesOnce' /\ LiveRecordHasSession' /\ RingingIsTimed'
  BY <1>1 DEF ResumeStart, CallsInv, TypeOK, FinishesOnce, LiveRecordHasSession,
              RingingIsTimed, LiveCall
<1>5. GraceTimerSound'
  BY DEF ResumeStart, CallsInv, TypeOK, GraceTimerSound, CallsOf, InMap, Online
<1>6. QED
  BY <1>2, <1>3, <1>4, <1>5 DEF CallsInv

LEMMA RestartBackendInv ==
    ASSUME CallsInv, RestartBackend
    PROVE  CallsInv'
<1>1. TypeOK'
  BY NoFinishType DEF RestartBackend, CallsInv, TypeOK, Session, Status,
                      LiveCall, DoneCall, Query
<1>2. /\ StartIsFresh' /\ FinishesOnce' /\ LiveRecordHasSession'
      /\ RingingIsTimed' /\ GraceTimerSound'
  BY DEF RestartBackend, StartIsFresh, FinishesOnce, LiveRecordHasSession,
         RingingIsTimed, GraceTimerSound, NoFinish, LiveCall
<1>3. QED
  BY <1>1, <1>2 DEF CallsInv

LEMMA FailFinishInv ==
    ASSUME CallsInv, NEW c \in Call, FailFinish(c)
    PROVE  CallsInv'
<1>1. CASE RestartBackend
  BY <1>1, RestartBackendInv
<1>2. CASE /\ finishing[c].by # "unanswered"
           /\ finishing' = [finishing EXCEPT ![c] = NoFinish]
           /\ UNCHANGED <<sockets, callSessions, ringTimer, graceTimer, record,
                          db, starting, accepting, told>>
  <2>1. TypeOK'
    BY <1>2, NoFinishType DEF CallsInv, TypeOK
  <2>2. FinishesOnce' /\ RingingIsTimed'
    BY <1>2 DEF CallsInv, TypeOK, FinishesOnce, RingingIsTimed, NoFinish
  <2>3. StartIsFresh' /\ LiveRecordHasSession' /\ GraceTimerSound'
    BY <1>2 DEF CallsInv, StartIsFresh, LiveRecordHasSession, GraceTimerSound,
                CallsOf, InMap, Online
  <2>4. QED
    BY <2>1, <2>2, <2>3 DEF CallsInv
<1>3. QED
  BY <1>1, <1>2 DEF FailFinish

LEMMA NextCallsInv ==
    ASSUME CallsInv, [Next]_vars
    PROVE  CallsInv'
<1>1. ASSUME NEW u \in User, NEW s \in Socket, Connect(u, s) \/ Disconnect(u, s)
      PROVE  CallsInv'
  BY <1>1, SocketInv
<1>2. ASSUME NEW c \in Call,
             \/ StartCall(c) \/ ResumeAccept(c)
             \/ StoreStart(c) \/ StoreAccept(c) \/ StoreFinish(c)
             \/ FailStart(c) \/ FailAccept(c)
      PROVE  CallsInv'
  BY <1>2, QueryInv, StoreFinishInv
<1>3. ASSUME NEW c \in Call, ResumeStart(c) PROVE CallsInv'
  BY <1>3, ResumeStartInv
<1>4. ASSUME NEW c \in Call, AcceptCall(c) PROVE CallsInv'
  BY <1>4, AcceptCallInv
<1>5. ASSUME NEW c \in Call, RejectCall(c) PROVE CallsInv'
  BY <1>5, RejectCallInv
<1>6. ASSUME NEW c \in Call, EndCall(c) PROVE CallsInv'
  BY <1>6, FinishCallInv DEF EndCall
<1>7. ASSUME NEW c \in Call, RingTimeout(c) PROVE CallsInv'
  BY <1>7, FinishCallInv DEF RingTimeout
<1>8. ASSUME NEW c \in Call, ResumeFinish(c) PROVE CallsInv'
  BY <1>8, ResumeFinishInv
<1>9. ASSUME NEW c \in Call, FailFinish(c) PROVE CallsInv'
  BY <1>9, FailFinishInv
<1>10. ASSUME NEW u \in User, GraceTimeout(u) PROVE CallsInv'
  BY <1>10, GraceTimeoutInv
<1>11. CASE Restart
  BY <1>11, RestartBackendInv DEF Restart
<1>12. CASE UNCHANGED vars
  BY <1>12 DEF vars, CallsInv, TypeOK, StartIsFresh, FinishesOnce,
               LiveRecordHasSession, RingingIsTimed, GraceTimerSound,
               CallsOf, InMap, Online
<1>13. QED
  BY <1>1, <1>2, <1>3, <1>4, <1>5, <1>6, <1>7, <1>8, <1>9, <1>10, <1>11, <1>12
     DEF Next

-----------------------------------------------------------------------------
LEMMA CallsInvariance == Spec => []CallsInv
<1>1. Init => CallsInv
  BY InitCallsInv
<1>2. CallsInv /\ [Next]_vars => CallsInv'
  BY NextCallsInv
<1>3. QED
  BY <1>1, <1>2, PTL DEF Spec

\* Every variable of the gateway and of CallsService keeps its type.
THEOREM CallsTypeCorrect == Spec => []TypeOK
<1>1. CallsInv => TypeOK
  BY DEF CallsInv
<1>2. QED
  BY <1>1, CallsInvariance, PTL

\* clearCallDisconnectTimeout and scheduleCallDisconnect keep the grace timers
\* exactly to offline users with a call, however finishers overlap and fail.
THEOREM CallsGraceTimerSound == Spec => []GraceTimerSound
<1>1. CallsInv => GraceTimerSound
  BY DEF CallsInv
<1>2. QED
  BY <1>1, CallsInvariance, PTL

\* A ringing session always has its ring timer or the timer's finish ahead.
THEOREM CallsRingingIsTimed == Spec => []RingingIsTimed
<1>1. CallsInv => RingingIsTimed
  BY DEF CallsInv
<1>2. QED
  BY <1>1, CallsInvariance, PTL

\* No record of CallsService is left ringing or active without its session.
THEOREM CallsLiveRecordHasSession == Spec => []LiveRecordHasSession
<1>1. CallsInv => LiveRecordHasSession
  BY DEF CallsInv
<1>2. QED
  BY <1>1, CallsInvariance, PTL

\* A record is finished before its finish query is sent, so by one query only.
THEOREM CallsFinishesOnce == Spec => []FinishesOnce
<1>1. CallsInv => FinishesOnce
  BY DEF CallsInv
<1>2. QED
  BY <1>1, CallsInvariance, PTL

-----------------------------------------------------------------------------
\* Outside a restart, no handler changes the outcome of a finished call.
THEOREM CallsOutcomeIsFinal == Spec => OutcomeIsFinal
<1> DEFINE Kept == \A c \in Call : record[c] \in DoneCall => record'[c] = record[c]
<1>1. ASSUME CallsInv, [Next]_vars, ~RestartBackend
      PROVE  Kept
  <2>1. ASSUME NEW c \in Call, NEW by, NEW rest, NEW queries,
               record[c] \in LiveCall, SendFinish(c, by, rest, queries)
        PROVE  Kept
    BY <1>1, <2>1 DEF SendFinish, CallsInv, TypeOK, LiveCall, DoneCall
  <2>2. CASE UNCHANGED record
    BY <2>2
  <2>3. ASSUME NEW c \in Call, ResumeStart(c)
        PROVE  Kept
    BY <1>1, <2>3 DEF ResumeStart, CallsInv, TypeOK, StartIsFresh, DoneCall
  <2>4. ASSUME NEW c \in Call, AcceptCall(c)
        PROVE  Kept
    BY <1>1, <2>1, <2>2, <2>4
       DEF AcceptCall, FinishCall, CallsInv, TypeOK, DoneCall
  <2>5. ASSUME NEW c \in Call, RejectCall(c) \/ EndCall(c) \/ RingTimeout(c)
        PROVE  Kept
    BY <2>1, <2>2, <2>5 DEF RejectCall, EndCall, RingTimeout, FinishCall
  <2>6. ASSUME NEW u, NEW done, NEW S \in SUBSET Call, NEW fired, NEW queries,
               SweepCalls(u, done, S, fired, queries)
        PROVE  Kept
    BY <2>1, <2>2, <2>6 DEF SweepCalls
  <2>7. ASSUME NEW u \in User, GraceTimeout(u)
        PROVE  Kept
    <3>1. (IF Online(u) THEN {} ELSE CallsOf(u)) \in SUBSET Call
      BY DEF CallsOf
    <3>2. QED
      BY <2>6, <2>7, <3>1 DEF GraceTimeout
  <2>8. ASSUME NEW c \in Call, ResumeFinish(c)
        PROVE  Kept
    <3>1. finishing[c].rest \in SUBSET Call
      BY <1>1 DEF CallsInv, TypeOK, FinishQuery
    <3>2. QED
      BY <2>2, <2>6, <2>8, <3>1 DEF ResumeFinish
  <2>9. QED
    BY <1>1, <2>2, <2>3, <2>4, <2>5, <2>7, <2>8
       DEF Next, Connect, Disconnect, StartCall, ResumeAccept, StoreStart,
           StoreAccept, StoreFinish, FailStart, FailAccept, FailFinish,
           Restart, vars
<1>2. CallsInv /\ [Next]_vars => [~RestartBackend => Kept]_vars
  BY <1>1
<1>3. QED
  BY <1>2, CallsInvariance, PTL DEF Spec, OutcomeIsFinal

-----------------------------------------------------------------------------
(***************************************************************************)
(* USER_BUSY, if no two call:start handlers overlap.  Two more facts are   *)
(* needed: at most one start is under way, and its parties are still free. *)
(***************************************************************************)
OneStarts ==
    \A c, d \in Call : starting[c] # "idle" /\ starting[d] # "idle" => c = d

StartersAreFree ==
    \A c, d \in Call :
       starting[c] # "idle" /\ InMap(d) => Parties(c) \cap Parties(d) = {}

BusyInv ==
    /\ TypeOK
    /\ OneStarts
    /\ StartersAreFree
    /\ UserInOneCall

\* Only StartCall begins a start and only ResumeStart adds a session.
NothingAdded ==
    \A c \in Call : /\ starting'[c] # "idle" => starting[c] # "idle"
                    /\ InMap(c)' => InMap(c)

LEMMA OtherStepsAddNothing ==
    ASSUME TypeOK, [Next]_vars,
           ~\E c \in Call : StartCall(c) \/ ResumeStart(c)
    PROVE  NothingAdded
<1>1. ASSUME NEW D, NEW fired, ClearCalls(D, fired), UNCHANGED starting
      PROVE  NothingAdded
  BY <1>1 DEF ClearCalls, NothingAdded, InMap
<1>2. ASSUME UNCHANGED callSessions, UNCHANGED starting
      PROVE  NothingAdded
  BY <1>2 DEF NothingAdded, InMap
<1>3. ASSUME NEW c \in Call, NEW by, FinishCall(c, by), UNCHANGED starting
      PROVE  NothingAdded
  BY <1>1, <1>2, <1>3, Zenon DEF FinishCall
<1>4. ASSUME NEW u, NEW done, NEW S, NEW fired, NEW queries,
             SweepCalls(u, done, S, fired, queries), UNCHANGED starting
      PROVE  NothingAdded
  BY <1>1, <1>4, Zenon DEF SweepCalls
<1>5. ASSUME NEW c \in Call, AcceptCall(c)
      PROVE  NothingAdded
  <2>1. UNCHANGED starting
    BY <1>5, Zenon DEF AcceptCall
  <2>2. CASE FinishCall(c, "unavailable")
    BY <1>3, <2>1, <2>2
  <2>3. CASE callSessions' = [callSessions EXCEPT ![c] = "active"]
    BY <1>5, <2>1, <2>3 DEF AcceptCall, NothingAdded, InMap, TypeOK
  <2>4. QED
    BY <1>5, <2>2, <2>3, Zenon DEF AcceptCall
<1>6. ASSUME NEW c \in Call, RejectCall(c) \/ EndCall(c) \/ RingTimeout(c)
      PROVE  NothingAdded
  BY <1>1, <1>2, <1>3, <1>6, Zenon DEF RejectCall, EndCall, RingTimeout
<1>7. ASSUME NEW u \in User, GraceTimeout(u)
      PROVE  NothingAdded
  BY <1>4, <1>7, Zenon DEF GraceTimeout
<1>8. ASSUME NEW c \in Call, ResumeFinish(c)
      PROVE  NothingAdded
  BY <1>1, <1>4, <1>8, Zenon DEF ResumeFinish
<1>9. ASSUME NEW c \in Call, StoreStart(c) \/ FailStart(c)
      PROVE  NothingAdded
  BY <1>9 DEF StoreStart, FailStart, NothingAdded, InMap, TypeOK
<1>10. CASE RestartBackend
  BY <1>10 DEF RestartBackend, NothingAdded, InMap
<1>11. ASSUME NEW c \in Call,
              \/ ResumeAccept(c) \/ StoreAccept(c) \/ FailAccept(c)
              \/ StoreFinish(c) \/ FailFinish(c)
       PROVE  NothingAdded
  BY <1>2, <1>10, <1>11, Zenon
     DEF ResumeAccept, StoreAccept, FailAccept, StoreFinish, FailFinish
<1>12. ASSUME NEW u \in User, NEW s \in Socket, Connect(u, s) \/ Disconnect(u, s)
       PROVE  NothingAdded
  BY <1>2, <1>12, Zenon DEF Connect, Disconnect
<1>13. CASE UNCHANGED vars
  BY <1>2, <1>13, Zenon DEF vars
<1>14. QED
  BY <1>5, <1>6, <1>7, <1>8, <1>9, <1>10, <1>11, <1>12, <1>13, Zenon
     DEF Next, Restart

LEMMA StartCallKeepsBusyInv ==
    ASSUME BusyInv, IsFiniteSet(Call), MaxStarting <= 1,
           NEW c \in Call, StartCall(c)
    PROVE  OneStarts' /\ StartersAreFree' /\ UserInOneCall'
<1> DEFINE Under == {d \in Call : starting[d] # "idle"}
<1>1. /\ starting' = [starting EXCEPT ![c] = "sent"]
      /\ UNCHANGED callSessions
      /\ CallsOf(Caller[c]) = {} /\ CallsOf(Recipient[c]) = {}
      /\ Cardinality(Under) < MaxStarting
  BY Zenon DEF StartCall
<1>2. Under = {}
  <2>1. IsFiniteSet(Under)
    BY FS_Subset
  <2>2. Cardinality(Under) = 0
    BY <1>1, <2>1, FS_CardinalityType, CallBound
  <2>3. QED
    BY <2>1, <2>2, FS_EmptySet
<1>3. \A d \in Call : starting'[d] # "idle" => d = c
  BY <1>1, <1>2 DEF BusyInv, TypeOK
<1>4. \A d \in Call : InMap(d)' <=> InMap(d)
  BY <1>1 DEF InMap
<1>5. \A d \in Call : InMap(d) => Parties(c) \cap Parties(d) = {}
  BY <1>1 DEF CallsOf, Parties
<1>6. QED
  BY <1>3, <1>4, <1>5 DEF BusyInv, OneStarts, StartersAreFree, UserInOneCall, Parties

LEMMA ResumeStartKeepsBusyInv ==
    ASSUME BusyInv, NEW c \in Call, ResumeStart(c)
    PROVE  OneStarts' /\ StartersAreFree' /\ UserInOneCall'
<1>1. starting[c] # "idle"
  BY DEF ResumeStart
<1>2. \A d \in Call : starting'[d] = "idle"
  BY <1>1 DEF ResumeStart, BusyInv, TypeOK, OneStarts
<1>3. \A d \in Call : InMap(d)' => d = c \/ InMap(d)
  BY DEF ResumeStart, BusyInv, TypeOK, InMap
<1>4. \A d \in Call : InMap(d) => Parties(c) \cap Parties(d) = {}
  BY <1>1 DEF BusyInv, StartersAreFree
<1>5. QED
  BY <1>2, <1>3, <1>4
     DEF BusyInv, OneStarts, StartersAreFree, UserInOneCall, Parties

\* The busy checks of startCall keep everybody in one call at most as long as
\* a second call:start does not begin while one awaits callsService.start: it
\* is the await between check and callSessions.set alone that breaks them.
THEOREM CallsUserInOneCall ==
    ASSUME IsFiniteSet(Call), MaxStarting <= 1
    PROVE  Spec => []UserInOneCall
<1>1. ASSUME Init, TypeOK PROVE BusyInv
  BY <1>1 DEF Init, BusyInv, OneStarts, StartersAreFree, UserInOneCall, InMap
<1>2. ASSUME BusyInv, TypeOK', [Next]_vars PROVE BusyInv'
  <2>1. CASE \E c \in Call : StartCall(c)
    BY <1>2, <2>1, StartCallKeepsBusyInv DEF BusyInv
  <2>2. CASE \E c \in Call : ResumeStart(c)
    BY <1>2, <2>2, ResumeStartKeepsBusyInv DEF BusyInv
  <2>3. CASE ~\E c \in Call : StartCall(c) \/ ResumeStart(c)
    <3>1. NothingAdded
      BY <1>2, <2>3, OtherStepsAddNothing DEF BusyInv
    <3>2. QED
      BY <1>2, <3>1 DEF BusyInv, NothingAdded, OneStarts, StartersAreFree,
                        UserInOneCall, Parties
  <2>4. QED
    BY <2>1, <2>2, <2>3
<1>3. BusyInv => UserInOneCall
  BY DEF BusyInv
<1>4. QED
  BY <1>1, <1>2, <1>3, CallsTypeCorrect, PTL DEF Spec

-----------------------------------------------------------------------------
(***************************************************************************)
(* No call vanishes.  A rejection tells the caller before it finishes the  *)
(* record and clears the session after the query, without telling again:   *)
(* so a session that goes needs that its rejecter has told.                *)
(***************************************************************************)
HeardOf(c) == \E i \in DOMAIN told[c] : told[c][i] \in {"rejected", "ended"}

Rejecting(c) == finishing[c].query # "idle" /\ finishing[c].by = "reject"

RejectionIsTold == \A c \in Call : Rejecting(c) => HeardOf(c)

\* What every step but a restart does: nothing told is taken back, and both
\* who begins to reject and who loses a session have been told of.
StepTells ==
    \A c \in Call : /\ HeardOf(c) => HeardOf(c)'
                    /\ Rejecting(c)' => Rejecting(c) \/ HeardOf(c)'
                    /\ InMap(c) /\ ~InMap(c)' => HeardOf(c)'

LEMMA AppendedIsHeard ==
    ASSUME NEW s \in Seq(CallEvent), NEW event \in CallEvent
    PROVE  /\ DOMAIN s \subseteq DOMAIN Append(s, event)
           /\ \A i \in DOMAIN s : Append(s, event)[i] = s[i]
           /\ \E i \in DOMAIN Append(s, event) : Append(s, event)[i] = event
<1>1. /\ DOMAIN s = 1 .. Len(s)
      /\ DOMAIN Append(s, event) = 1 .. (Len(s) + 1)
      /\ Len(s) \in Nat
      /\ Append(s, event)[Len(s) + 1] = event
      /\ \A i \in 1 .. Len(s) : Append(s, event)[i] = s[i]
  OBVIOUS
<1>2. QED
  BY <1>1

LEMMA TellIsHeard ==
    ASSUME TypeOK, NEW D, NEW event \in CallEvent, Tell(D, event)
    PROVE  /\ \A c \in Call : HeardOf(c) => HeardOf(c)'
           /\ event # "accepted" => \A c \in Call : c \in D => HeardOf(c)'
<1> SUFFICES ASSUME NEW c \in Call
             PROVE  /\ HeardOf(c) => HeardOf(c)'
                    /\ event # "accepted" /\ c \in D => HeardOf(c)'
  OBVIOUS
<1>1. told[c] \in Seq(CallEvent)
  BY DEF TypeOK
<1>2. CASE c \in D
  <2>1. told'[c] = Append(told[c], event)
    BY <1>2 DEF Tell
  <2>2. event # "accepted" => event \in {"rejected", "ended"}
    BY DEF CallEvent
  <2>3. QED
    BY <1>1, <2>1, <2>2, AppendedIsHeard DEF HeardOf
<1>3. CASE c \notin D
  BY <1>3 DEF Tell, HeardOf
<1>4. QED
  BY <1>2, <1>3

\* A step that keeps the sessions and what was told, and rejects nothing new.
LEMMA QuietStepTells ==
    ASSUME UNCHANGED told,
           \A c \in Call : InMap(c) => InMap(c)',
           \A c \in Call : Rejecting(c)' => Rejecting(c)
    PROVE  StepTells
BY DEF StepTells, HeardOf

\* A step that clears the sessions of D, all of which are told of.
LEMMA ClearStepTells ==
    ASSUME NEW D, NEW fired, ClearCalls(D, fired),
           \A c \in Call : HeardOf(c) => HeardOf(c)',
           \A c \in Call : c \in D => HeardOf(c)',
           \A c \in Call : Rejecting(c)' => Rejecting(c)
    PROVE  StepTells
BY DEF StepTells, ClearCalls, InMap

LEMMA FinishCallTells ==
    ASSUME TypeOK, NEW c \in Call, NEW by \in Finisher \ {"reject"}, FinishCall(c, by)
    PROVE  StepTells
<1>1. CASE /\ SendFinish(c, by, {}, finishing)
           /\ UNCHANGED <<callSessions, told>>
  <2>1. \A d \in Call : Rejecting(d)' => Rejecting(d)
    BY <1>1 DEF SendFinish, Rejecting, TypeOK
  <2>2. QED
    BY <1>1, <2>1, QuietStepTells DEF InMap
<1>2. CASE /\ Tell({c}, "ended")
           /\ ClearCalls({c}, {})
           /\ UNCHANGED finishing
  <2>1. \A d \in Call : /\ HeardOf(d) => HeardOf(d)'
                        /\ d \in {c} => HeardOf(d)'
    BY <1>2, TellIsHeard DEF CallEvent
  <2>2. \A d \in Call : Rejecting(d)' => Rejecting(d)
    BY <1>2 DEF Rejecting
  <2>3. QED
    BY <1>2, <2>1, <2>2, ClearStepTells
<1>3. QED
  BY <1>1, <1>2, Zenon DEF FinishCall

LEMMA SweepCallsTells ==
    ASSUME TypeOK, NEW u, NEW done, NEW S, NEW fired,
           NEW queries \in [Call -> FinishQuery],
           \A d \in Call : queries[d] = finishing[d] \/ queries[d] = NoFinish,
           SweepCalls(u, done, S, fired, queries)
    PROVE  StepTells
<1>1. \A d \in Call : queries[d].query # "idle" /\ queries[d].by = "reject"
                         => Rejecting(d)
  BY DEF NoFinish, Rejecting
<1>2. \E D : Tell(D, "ended") /\ ClearCalls(D, fired)
  BY Zenon DEF SweepCalls
<1>3. \/ finishing' = queries
      \/ \E c, rest : \E by \in {"callerGone", "recipientGone"} :
            finishing' = [queries EXCEPT
                ![c] = [query |-> "sent", by |-> by, rest |-> rest]]
  <2>1. \/ finishing' = queries
        \/ \E c, rest :
              SendFinish(c, IF u = Caller[c] THEN "callerGone" ELSE "recipientGone",
                         rest, queries)
    BY Zenon DEF SweepCalls
  <2>2. QED
    BY <2>1 DEF SendFinish
<1>4. \A d \in Call : Rejecting(d)' => Rejecting(d)
  BY <1>1, <1>3 DEF Rejecting
<1>5. QED
  BY <1>2, <1>4, TellIsHeard, ClearStepTells DEF CallEvent

LEMMA RejectCallTells ==
    ASSUME TypeOK, NEW c \in Call, RejectCall(c)
    PROVE  StepTells
<1>1. \A d \in Call : HeardOf(d) => HeardOf(d)'
  BY TellIsHeard DEF RejectCall, CallEvent
<1>2. HeardOf(c)'
  BY TellIsHeard DEF RejectCall, CallEvent
<1>3. CASE /\ SendFinish(c, "reject", {}, finishing)
           /\ UNCHANGED callSessions
  <2>1. \A d \in Call : d # c => finishing'[d] = finishing[d]
    BY <1>3 DEF SendFinish, TypeOK
  <2>2. \A d \in Call : InMap(d)' <=> InMap(d)
    BY <1>3 DEF InMap
  <2>3. QED
    BY <1>1, <1>2, <2>1, <2>2 DEF StepTells, Rejecting
<1>4. CASE ClearCalls({c}, {}) /\ UNCHANGED finishing
  <2>1. \A d \in Call : d \in {c} => HeardOf(d)'
    BY <1>2
  <2>2. \A d \in Call : Rejecting(d)' => Rejecting(d)
    BY <1>4 DEF Rejecting
  <2>3. QED
    BY <1>1, <1>4, <2>1, <2>2, ClearStepTells
<1>5. QED
  BY <1>3, <1>4, Zenon DEF RejectCall

\* The handler of a rejection finds what RejectionIsTold says it has told.
LEMMA ResumeFinishTells ==
    ASSUME TypeOK, RejectionIsTold, NEW c \in Call, ResumeFinish(c)
    PROVE  StepTells
<1> DEFINE queries == [finishing EXCEPT ![c] = NoFinish]
<1>1. /\ queries \in [Call -> FinishQuery]
      /\ \A d \in Call : queries[d] = finishing[d] \/ queries[d] = NoFinish
  BY NoFinishType DEF TypeOK
<1>2. \A d \in Call : finishing' = queries /\ Rejecting(d)' => Rejecting(d)
  BY <1>1 DEF Rejecting, NoFinish
<1>3. CASE /\ finishing[c].by = "reject" /\ ClearCalls({c}, {})
           /\ finishing' = queries /\ UNCHANGED told
  <2>1. HeardOf(c)
    BY <1>3 DEF ResumeFinish, RejectionIsTold, Rejecting
  <2>2. \A d \in Call : HeardOf(d)' <=> HeardOf(d)
    BY <1>3 DEF HeardOf
  <2>3. QED
    BY <1>2, <1>3, <2>1, <2>2, ClearStepTells
<1>4. CASE Tell({c}, "ended") /\ ClearCalls({c}, {}) /\ finishing' = queries
  BY <1>2, <1>4, TellIsHeard, ClearStepTells DEF CallEvent
<1>5. ASSUME NEW u, NEW S, SweepCalls(u, {c}, S, {}, queries)
      PROVE  StepTells
  BY <1>1, <1>5, SweepCallsTells
<1>6. QED
  BY <1>3, <1>4, <1>5, Zenon DEF ResumeFinish

LEMMA AcceptCallTells ==
    ASSUME TypeOK, NEW c \in Call, AcceptCall(c)
    PROVE  StepTells
<1>1. CASE FinishCall(c, "unavailable")
  BY <1>1, FinishCallTells DEF Finisher
<1>2. CASE /\ callSessions' = [callSessions EXCEPT ![c] = "active"]
           /\ UNCHANGED finishing
           /\ Tell({c}, "accepted") \/ UNCHANGED told
  <2>1. \A d \in Call : HeardOf(d) => HeardOf(d)'
    BY <1>2, TellIsHeard DEF CallEvent, HeardOf
  <2>2. \A d \in Call : InMap(d) => InMap(d)'
    BY <1>2 DEF InMap, TypeOK
  <2>3. \A d \in Call : Rejecting(d)' <=> Rejecting(d)
    BY <1>2 DEF Rejecting
  <2>4. QED
    BY <2>1, <2>2, <2>3 DEF StepTells
<1>3. QED
  BY <1>1, <1>2, Zenon DEF AcceptCall

LEMMA EveryStepTells ==
    ASSUME TypeOK, RejectionIsTold, [Next]_vars, ~RestartBackend
    PROVE  StepTells
<1>1. ASSUME NEW c \in Call, AcceptCall(c) PROVE StepTells
  BY <1>1, AcceptCallTells
<1>2. ASSUME NEW c \in Call, RejectCall(c) PROVE StepTells
  BY <1>2, RejectCallTells
<1>3. ASSUME NEW c \in Call, EndCall(c) \/ RingTimeout(c) PROVE StepTells
  BY <1>3, FinishCallTells DEF EndCall, RingTimeout, Finisher
<1>4. ASSUME NEW c \in Call, ResumeFinish(c) PROVE StepTells
  BY <1>4, ResumeFinishTells
<1>5. ASSUME NEW u \in User, GraceTimeout(u) PROVE StepTells
  <2>1. finishing \in [Call -> FinishQuery]
    BY DEF TypeOK
  <2>2. QED
    BY <1>5, <2>1, SweepCallsTells, Zenon DEF GraceTimeout
<1>6. ASSUME NEW c \in Call, ResumeStart(c) PROVE StepTells
  <2>1. \A d \in Call : InMap(d) => InMap(d)'
    BY <1>6 DEF ResumeStart, InMap, TypeOK
  <2>2. UNCHANGED told /\ UNCHANGED finishing
    BY <1>6 DEF ResumeStart
  <2>3. QED
    BY <2>1, <2>2, QuietStepTells DEF Rejecting
<1>7. ASSUME NEW c \in Call, ResumeAccept(c) PROVE StepTells
  <2>1. \A d \in Call : HeardOf(d) => HeardOf(d)'
    BY <1>7, TellIsHeard DEF ResumeAccept, CallEvent
  <2>2. QED
    BY <1>7, <2>1 DEF ResumeAccept, StepTells, InMap, Rejecting
<1>8. ASSUME NEW c \in Call, StoreFinish(c) \/ FailFinish(c) PROVE StepTells
  <2>1. /\ UNCHANGED told /\ UNCHANGED callSessions
        /\ \/ finishing' = [finishing EXCEPT ![c].query = "stored"]
           \/ finishing' = [finishing EXCEPT ![c] = NoFinish]
        /\ finishing[c].query # "idle"
    BY <1>8 DEF StoreFinish, FailFinish
  <2>2. \A d \in Call : Rejecting(d)' => Rejecting(d)
    <3>1. finishing \in [Call -> FinishQuery]
      BY Zenon DEF TypeOK
    <3>2. QED
      BY <2>1, <3>1 DEF Rejecting, NoFinish, FinishQuery
  <2>3. QED
    BY <2>1, <2>2, QuietStepTells DEF InMap
<1>9. CASE UNCHANGED <<callSessions, finishing, told>>
  BY <1>9, QuietStepTells DEF InMap, Rejecting
<1>10. QED
  BY <1>1, <1>2, <1>3, <1>4, <1>5, <1>6, <1>7, <1>8, <1>9, Zenon
     DEF Next, Connect, Disconnect, StartCall, StoreStart, StoreAccept,
         FailStart, FailAccept, Restart, vars

\* A session goes only after call:rejected or call:ended was sent, although a
\* rejection clears it long after it told, and a sweep runs through calls that
\* others are finishing.
THEOREM CallsNoCallVanishes == Spec => NoCallVanishes
<1> DEFINE Gone == \A c \in Call : InMap(c) /\ ~InMap(c)' =>
                      \E i \in DOMAIN told'[c] : told'[c][i] \in {"rejected", "ended"}
<1>1. Init => RejectionIsTold
  BY DEF Init, RejectionIsTold, Rejecting, NoFinish
<1>2. ASSUME TypeOK, RejectionIsTold, [Next]_vars PROVE RejectionIsTold'
  <2>1. CASE RestartBackend
    BY <2>1 DEF RestartBackend, RejectionIsTold, Rejecting, NoFinish
  <2>2. CASE StepTells
    BY <1>2, <2>2 DEF StepTells, RejectionIsTold
  <2>3. QED
    BY <1>2, <2>1, <2>2, EveryStepTells
<1>3. Spec => []RejectionIsTold
  BY <1>1, <1>2, CallsTypeCorrect, PTL DEF Spec
<1>4. ASSUME TypeOK, RejectionIsTold, [Next]_vars, ~RestartBackend PROVE Gone
  BY <1>4, EveryStepTells DEF StepTells, HeardOf
<1>5. TypeOK /\ RejectionIsTold /\ [Next]_vars => [~RestartBackend => Gone]_vars
  BY <1>4
<1>6. QED
  BY <1>3, <1>5, CallsTypeCorrect, PTL DEF Spec, NoCallVanishes

=============================================================================
