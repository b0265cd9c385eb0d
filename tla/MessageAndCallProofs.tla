------------------------ MODULE MessageAndCallProofs ------------------------
(***************************************************************************)
(* Proofs about Messages, for every number of users, attempts, messages    *)
(* and overlapping requests, with failing queries and restarts, and then   *)
(* about the audio call of a page (CallClient), for any number of calls.   *)
(* The two share no state.  The invariants of the latter are in            *)
(* CallClientInvariants.                                                   *)
(***************************************************************************)
EXTENDS Messages, CallClientInvariants, FiniteSetTheorems, TLAPS

\* No two rows have the same sender and clientMessageId.
RowsAreUnique == \A a, b \in rows : a # b => b \notin Twins(a, rows)

\* No message is in memory twice.
LogIsInjective == \A i, j \in DOMAIN log : i # j => log[i] # log[j]

\* Where the message of an attempt is, as its handler goes on: it is not in
\* the table before the commit, and not in memory before the handler resumes.
FreshIsNew ==
    \A a \in Attempt :
       answer[a] = "none" /\ creating[a] = "idle" => a \notin rows

PendingIsNew ==
    \A a \in Attempt : creating[a] \in {"sent", "locked"} => a \notin rows

StoredIsHeld ==
    \A a \in Attempt : creating[a] = "stored" => a \in rows /\ a \notin InLog

\* A message on its way or stored has its time, which is not the time before
\* all times.
IsStamped ==
    /\ now >= 1
    /\ \A a \in Attempt : creating[a] # "idle" \/ a \in rows => stamp[a] >= 1

MessagesInv ==
    /\ TypeOK
    /\ RowsAreUnique
    /\ LogIsInjective
    /\ DeliveredIsStored
    /\ FreshIsNew
    /\ PendingIsNew
    /\ StoredIsHeld
    /\ IsStamped

\* The invariant implies the property the runs check.
LEMMA InvImpliesSentOnce == MessagesInv => SentOnce
<1> SUFFICES ASSUME MessagesInv
             PROVE  SentOnce
    OBVIOUS
<1>1. ASSUME NEW a \in rows
      PROVE  Twins(a, rows) = {a}
      BY DEF MessagesInv, RowsAreUnique, Twins
<1>2. ASSUME NEW i \in DOMAIN log, NEW j \in DOMAIN log, i # j
      PROVE  log[i] # log[j] /\ log[j] \notin Twins(log[i], InLog)
    <2>1. log[i] # log[j]
        BY <1>2 DEF MessagesInv, LogIsInjective
    <2>2. log[i] \in rows /\ log[j] \in rows
        BY DEF MessagesInv, DeliveredIsStored, InLog
    <2>. QED  BY <2>1, <2>2 DEF MessagesInv, RowsAreUnique, Twins
<1>. QED  BY <1>1, <1>2 DEF SentOnce

LEMMA InitEstablishesInv == Init => MessagesInv
<1> SUFFICES ASSUME Init
             PROVE  MessagesInv
    OBVIOUS
<1>1. TypeOK
    BY MessageConstants DEF Init, TypeOK, Content, Time, Query, Answer, NoChange
<1>2. InLog = {}
    BY DEF Init, InLog
<1>. QED
    BY <1>1, <1>2 DEF Init, MessagesInv, RowsAreUnique, LogIsInjective,
        DeliveredIsStored, FreshIsNew, PendingIsNew, StoredIsHeld, IsStamped

\* Appending a message adds it to the messages in memory.
LEMMA AppendedLog ==
    ASSUME NEW a \in Attempt, log \in Seq(Attempt), log' = Append(log, a)
    PROVE  /\ InLog' = InLog \union {a}
           /\ LogIsInjective /\ a \notin InLog => LogIsInjective'
<1>1. /\ DOMAIN log' = DOMAIN log \union {Len(log) + 1}
      /\ Len(log) + 1 \notin DOMAIN log
      /\ \A i \in DOMAIN log : log'[i] = log[i]
      /\ log'[Len(log) + 1] = a
    OBVIOUS
<1>2. InLog' = InLog \union {a}
    BY <1>1 DEF InLog
<1>3. ASSUME LogIsInjective, a \notin InLog
      PROVE  LogIsInjective'
    BY <1>1, <1>3 DEF LogIsInjective, InLog
<1>. QED  BY <1>2, <1>3

\* A restart reads each row of the table once.
LEMMA RestartedLog ==
    ASSUME rows \subseteq Attempt, NEW s \in OrdersOf(rows)
    PROVE  /\ s \in Seq(Attempt)
           /\ \A i \in DOMAIN s : s[i] \in rows
           /\ \A i, j \in DOMAIN s : i # j => s[i] # s[j]
           /\ \A a \in rows : \E i \in DOMAIN s : s[i] = a
<1>1. IsFiniteSet(rows)
    BY AttemptsAreFinite, FS_Subset
<1>2. Cardinality(rows) \in Nat
    BY <1>1, FS_CardinalityType
<1>3. s \in [1 .. Cardinality(rows) -> rows]
    BY DEF OrdersOf
<1>4. \A i, j \in 1 .. Cardinality(rows) : i < j => s[i] # s[j]
    BY <1>3 DEF OrdersOf
<1>5. s \in Seq(Attempt)
    BY <1>2, <1>3
<1>6. \A i, j \in DOMAIN s : i # j => s[i] # s[j]
    <2> TAKE i, j \in DOMAIN s
    <2>1. i \in 1 .. Cardinality(rows) /\ j \in 1 .. Cardinality(rows)
        BY <1>3
    <2>2. i \in Int /\ j \in Int
        BY <1>2, <2>1
    <2>. QED  BY <1>4, <2>1, <2>2
<1>7. s \in Injection(1 .. Cardinality(rows), rows)
    BY <1>3, <1>6 DEF Injection, IsInjective
<1>8. Cardinality(1 .. Cardinality(rows)) = Cardinality(rows)
    BY <1>2, FS_Interval
<1>9. s \in Surjection(1 .. Cardinality(rows), rows)
    BY <1>1, <1>7, <1>8, FS_Injection
<1>. QED  BY <1>3, <1>5, <1>6, <1>9 DEF Surjection

LEMMA NextKeepsType == MessagesInv /\ [Next]_vars => TypeOK'
<1> SUFFICES ASSUME MessagesInv, [Next]_vars
             PROVE  TypeOK'
    OBVIOUS
<1> USE MessageConstants
<1>0. TypeOK /\ IsStamped /\ DeliveredIsStored
    BY DEF MessagesInv
<1>1. CASE Tick
    BY <1>0, <1>1 DEF Tick, TypeOK, Time, IsStamped
<1>2. ASSUME NEW a \in Attempt,
             \/ CreateMessage(a) \/ LockForMessage(a)
             \/ ResumeMessage(a) \/ FailMessage(a)
      PROVE  TypeOK'
    <2>1. CASE CreateMessage(a)
        <3>1. answer' \in [Attempt -> Answer]
            BY <1>0, <2>1 DEF CreateMessage, TypeOK, Answer
        <3>2. creating' \in [Attempt -> Query]
            BY <1>0, <2>1 DEF CreateMessage, TypeOK, Query
        <3>3. stamp' \in [Attempt -> Time]
            BY <1>0, <2>1 DEF CreateMessage, TypeOK
        <3>. QED  BY <1>0, <2>1, <3>1, <3>2, <3>3 DEF CreateMessage, TypeOK
    <2>2. CASE LockForMessage(a)
        BY <1>0, <2>2 DEF LockForMessage, TypeOK, Query
    <2>3. CASE ResumeMessage(a)
        BY <1>0, <2>3 DEF ResumeMessage, TypeOK, Query, Answer
    <2>4. CASE FailMessage(a)
        BY <1>0, <2>4 DEF FailMessage, TypeOK, Query, Answer
    <2>. QED  BY <1>2, <2>1, <2>2, <2>3, <2>4
<1>3. ASSUME StoreParticipants
      PROVE  dbRead' \in [User -> Time]
    BY <1>0, <1>3 DEF StoreParticipants, TypeOK
<1>4. ASSUME NEW a \in Attempt, StoreMessage(a)
      PROVE  TypeOK'
    <2>1. dbRead' \in [User -> Time]
        BY <1>0, <1>3, <1>4 DEF StoreMessage, TypeOK
    <2>. QED  BY ZenonT(60), <1>0, <1>4, <2>1 DEF StoreMessage, TypeOK, Query, Answer
<1>5. ASSUME NEW k \in Marker, NEW u \in User, NEW t \in Time, Mark(k, u, t)
      PROVE  TypeOK'
    BY <1>0, <1>5 DEF Mark, TypeOK, Query
<1>6. ASSUME NEW k \in Marker, NEW u \in User, MarkAsRead(k, u) \/ MarkAsUnread(k, u)
      PROVE  TypeOK'
    <2>1. CASE MarkAsRead(k, u)
        BY <1>0, <1>5, <2>1 DEF MarkAsRead, TypeOK
    <2>2. CASE MarkAsUnread(k, u)
        <3>1. PICK a \in InLog : Mark(k, u, stamp[a] - 1)
            BY <2>2 DEF MarkAsUnread
        <3>2. a \in Attempt /\ a \in rows
            BY <1>0 DEF DeliveredIsStored, TypeOK
        <3>3. stamp[a] \in Time /\ stamp[a] >= 1
            BY <1>0, <3>2 DEF IsStamped, TypeOK
        <3>4. stamp[a] - 1 \in Time
            BY <3>3 DEF Time
        <3>. QED  BY <1>5, <3>1, <3>4
    <2>. QED  BY <1>6, <2>1, <2>2
<1>7. ASSUME NEW k \in Marker, LockForMark(k) \/ StoreMark(k) \/ FailMark(k)
      PROVE  TypeOK'
    <2>1. CASE LockForMark(k)
        BY <1>0, <2>1 DEF LockForMark, TypeOK, Query
    <2>2. CASE StoreMark(k)
        BY <1>0, <1>3, <2>2 DEF StoreMark, TypeOK, Query
    <2>3. CASE FailMark(k)
        BY <1>0, <2>3 DEF FailMark, TypeOK, Query
    <2>. QED  BY <1>7, <2>1, <2>2, <2>3
<1>8. ASSUME NEW e \in Changer, changing[e] # NoChange
      PROVE  changing[e] \in Change
    BY <1>0, <1>8 DEF TypeOK
<1>9. ASSUME NEW e \in Changer, NEW a \in Attempt, NEW t \in Content,
             ChangeMessage(e, a, t)
      PROVE  TypeOK'
    BY <1>0, <1>9 DEF ChangeMessage, TypeOK, Change
<1>10. ASSUME NEW e \in Changer, BeginChange(e)
       PROVE  TypeOK'
    <2>1. changing[e] \in Change
        BY <1>8, <1>10 DEF BeginChange, NoChange
    <2>2. text[changing[e].of] \in Content
        BY <1>0, <2>1 DEF TypeOK, Change
    <2>3. [[changing[e] EXCEPT !.query = "begun"]
              EXCEPT !.as = text[changing[e].of]] \in Change
        BY <2>1, <2>2 DEF Change
    <2>4. changing' \in [Changer -> Change \union {NoChange}]
        BY <1>0, <1>10, <2>3 DEF BeginChange, TypeOK
    <2>. QED  BY <1>0, <1>10, <2>4 DEF BeginChange, TypeOK
<1>11. ASSUME NEW e \in Changer, StoreChange(e) \/ ResumeChange(e)
       PROVE  TypeOK'
    <2>1. changing[e] \in Change
        BY <1>8, <1>11 DEF StoreChange, ResumeChange, NoChange
    <2>2. CASE StoreChange(e)
        <3>1. [changing[e] EXCEPT !.query = "stored"] \in Change
            BY <2>1 DEF Change
        <3>2. changing' \in [Changer -> Change \union {NoChange}]
            BY <1>0, <2>2, <3>1 DEF StoreChange, TypeOK
        <3>3. dbText' \in [Attempt -> Content]
            BY <1>0, <2>1, <2>2 DEF StoreChange, TypeOK, Change
        <3>. QED  BY <1>0, <2>2, <3>2, <3>3 DEF StoreChange, TypeOK
    <2>3. CASE ResumeChange(e)
        BY <1>0, <2>1, <2>3 DEF ResumeChange, TypeOK, Change
    <2>. QED  BY <1>11, <2>2, <2>3
<1>12. ASSUME NEW e \in Changer, FailChange(e)
       PROVE  TypeOK'
    BY <1>0, <1>12 DEF FailChange, TypeOK
<1>13. CASE Restart
    <2>1. log' \in Seq(Attempt)
        BY <1>0, <1>13, RestartedLog DEF Restart, RestartBackend, TypeOK
    <2>. QED
        BY <1>0, <1>13, <2>1 DEF Restart, RestartBackend, TypeOK, Query, Answer
<1>14. CASE UNCHANGED vars
    BY <1>0, <1>14 DEF vars, TypeOK
<1>. QED
    BY <1>1, <1>2, <1>4, <1>6, <1>7, <1>9, <1>10, <1>11, <1>12, <1>13, <1>14
    DEF Next

\* The parts of the invariant other than the types speak of these variables.
LEMMA OtherStepsKeepInv ==
    ASSUME MessagesInv, now' \in Nat, now' >= now,
           UNCHANGED <<log, stamp, rows, creating, answer>>
    PROVE  /\ RowsAreUnique' /\ LogIsInjective' /\ DeliveredIsStored'
           /\ FreshIsNew' /\ PendingIsNew' /\ StoredIsHeld' /\ IsStamped'
<1>1. now \in Nat
    BY MessageConstants DEF MessagesInv, TypeOK, Time
<1>2. now' >= 1
    BY <1>1 DEF MessagesInv, IsStamped
<1>3. InLog' = InLog
    BY DEF InLog
<1>. QED
    BY <1>2, <1>3 DEF MessagesInv, RowsAreUnique, LogIsInjective,
        DeliveredIsStored, FreshIsNew, PendingIsNew, StoredIsHeld, IsStamped, Twins

LEMMA NextKeepsInv == MessagesInv /\ [Next]_vars => MessagesInv'
<1> SUFFICES ASSUME MessagesInv, [Next]_vars
             PROVE  MessagesInv'
    OBVIOUS
<1> DEFINE Kept == /\ RowsAreUnique /\ LogIsInjective /\ DeliveredIsStored
                   /\ FreshIsNew /\ PendingIsNew /\ StoredIsHeld /\ IsStamped
<1>1. TypeOK'
    BY NextKeepsType
<1>2. SUFFICES Kept'
    BY <1>1 DEF MessagesInv
<1>0. TypeOK /\ now \in Nat
    BY MessageConstants DEF MessagesInv, TypeOK, Time
<1>3. ASSUME NEW a \in Attempt, CreateMessage(a)
      PROVE  Kept'
    <2>1. InLog' = InLog
        BY <1>3 DEF CreateMessage, InLog
    <2>2. a \notin rows
        BY <1>3 DEF CreateMessage, MessagesInv, FreshIsNew
    <2>. QED
        BY <1>0, <1>3, <2>1, <2>2 DEF CreateMessage, MessagesInv, TypeOK,
            RowsAreUnique, LogIsInjective, DeliveredIsStored, FreshIsNew,
            PendingIsNew, StoredIsHeld, IsStamped, Twins
<1>4. ASSUME NEW a \in Attempt, LockForMessage(a)
      PROVE  Kept'
    <2>1. InLog' = InLog
        BY <1>4 DEF LockForMessage, InLog
    <2>. QED
        BY <1>0, <1>4, <2>1 DEF LockForMessage, MessagesInv, TypeOK,
            RowsAreUnique, LogIsInjective, DeliveredIsStored, FreshIsNew,
            PendingIsNew, StoredIsHeld, IsStamped, Twins
<1>5. ASSUME NEW a \in Attempt, StoreMessage(a)
      PROVE  Kept'
    <2>1. InLog' = InLog
        BY <1>5 DEF StoreMessage, InLog
    <2>2. a \notin rows /\ a \notin InLog /\ stamp[a] >= 1
        BY <1>5 DEF StoreMessage, MessagesInv, PendingIsNew, DeliveredIsStored,
            IsStamped
    <2>3. CASE Twins(a, rows) = {} /\ rows' = rows \union {a}
        <3>1. RowsAreUnique'
            BY <2>3 DEF MessagesInv, RowsAreUnique, Twins
        <3>. QED
            BY <1>0, <1>5, <2>1, <2>2, <2>3, <3>1 DEF StoreMessage, MessagesInv,
                TypeOK, LogIsInjective, DeliveredIsStored, FreshIsNew,
                PendingIsNew, StoredIsHeld, IsStamped
    <2>4. CASE Twins(a, rows) # {} /\ rows' = rows
        BY <1>0, <1>5, <2>1, <2>2, <2>4 DEF StoreMessage, MessagesInv, TypeOK,
            RowsAreUnique, LogIsInjective, DeliveredIsStored, FreshIsNew,
            PendingIsNew, StoredIsHeld, IsStamped, Twins
    <2>. QED  BY <1>5, <2>3, <2>4 DEF StoreMessage
<1>6. ASSUME NEW a \in Attempt, ResumeMessage(a)
      PROVE  Kept'
    <2>1. a \in rows /\ a \notin InLog
        BY <1>6 DEF ResumeMessage, MessagesInv, StoredIsHeld
    <2>2. InLog' = InLog \union {a} /\ LogIsInjective'
        BY <1>0, <1>6, <2>1, AppendedLog DEF ResumeMessage, MessagesInv, TypeOK
    <2>. QED
        BY <1>0, <1>6, <2>1, <2>2 DEF ResumeMessage, MessagesInv, TypeOK,
            RowsAreUnique, DeliveredIsStored, FreshIsNew, PendingIsNew,
            StoredIsHeld, IsStamped, Twins
<1>7. ASSUME NEW a \in Attempt, FailMessage(a)
      PROVE  Kept'
    <2>1. InLog' = InLog
        BY <1>7 DEF FailMessage, InLog
    <2>. QED
        BY <1>0, <1>7, <2>1 DEF FailMessage, MessagesInv, TypeOK,
            RowsAreUnique, LogIsInjective, DeliveredIsStored, FreshIsNew,
            PendingIsNew, StoredIsHeld, IsStamped, Twins
<1>8. CASE Restart
    <2>1. /\ log' \in OrdersOf(rows)
          /\ UNCHANGED <<now, stamp, rows>>
          /\ \A a \in Attempt : creating'[a] = "idle"
          /\ \A a \in Attempt : answer'[a] = "none" =>
                                   answer[a] = "none" /\ creating[a] = "idle"
        BY <1>8 DEF Restart, RestartBackend
    <2>2. LogIsInjective' /\ DeliveredIsStored'
        BY <1>0, <2>1, RestartedLog DEF TypeOK, LogIsInjective,
            DeliveredIsStored, InLog
    <2>. QED
        BY <2>1, <2>2 DEF MessagesInv, RowsAreUnique, FreshIsNew, PendingIsNew,
            StoredIsHeld, IsStamped, Twins
<1>9. ASSUME now' \in Nat, now' >= now, UNCHANGED <<log, stamp, rows, creating, answer>>
      PROVE  Kept'
    BY <1>9, OtherStepsKeepInv
<1>10. CASE Tick \/ UNCHANGED vars
    BY <1>0, <1>9, <1>10 DEF Tick, vars
<1>11. ASSUME NEW k \in Marker,
              \/ \E u \in User : MarkAsRead(k, u) \/ MarkAsUnread(k, u)
              \/ LockForMark(k) \/ StoreMark(k) \/ FailMark(k)
       PROVE  Kept'
    BY <1>0, <1>9, <1>11 DEF MarkAsRead, MarkAsUnread, Mark, LockForMark,
        StoreMark, FailMark
<1>12. ASSUME NEW e \in Changer,
              \/ \E a \in Attempt, t \in Content : ChangeMessage(e, a, t)
              \/ BeginChange(e) \/ StoreChange(e) \/ ResumeChange(e)
              \/ FailChange(e)
       PROVE  Kept'
    BY <1>0, <1>9, <1>12 DEF ChangeMessage, BeginChange, StoreChange,
        ResumeChange, FailChange
<1> HIDE DEF Kept
<1>. QED
    BY <1>3, <1>4, <1>5, <1>6, <1>7, <1>8, <1>10, <1>11, <1>12 DEF Next

LEMMA MessagesInvariant == Spec => []MessagesInv
BY InitEstablishesInv, NextKeepsInv, PTL DEF Spec

\* Every variable keeps its type: in particular no read position falls below
\* the null of a participant who never read.
THEOREM MessagesTypeCorrect == Spec => []TypeOK
<1>1. MessagesInv => TypeOK
    BY DEF MessagesInv
<1>. QED  BY <1>1, MessagesInvariant, PTL

\* clientMessageId: however attempts overlap, fail and are repeated, neither
\* memory nor the table holds two messages of one sender with one key.
THEOREM MessagesSentOnce == Spec => []SentOnce
BY InvImpliesSentOnce, MessagesInvariant, PTL

\* The messages in memory are those of before or more, also after a restart.
LEMMA LogGrows ==
    ASSUME MessagesInv, [Next]_vars
    PROVE  InLog \subseteq InLog'
<1>1. TypeOK /\ InLog \subseteq rows
    BY DEF MessagesInv, DeliveredIsStored
<1>2. ASSUME NEW a \in Attempt, ResumeMessage(a)
      PROVE  InLog \subseteq InLog'
    BY <1>1, <1>2, AppendedLog DEF ResumeMessage, TypeOK
<1>3. CASE Restart
    <2>1. log' \in OrdersOf(rows)
        BY <1>3 DEF Restart, RestartBackend
    <2>2. \A a \in rows : \E i \in DOMAIN log' : log'[i] = a
        BY <1>1, <2>1, RestartedLog DEF TypeOK
    <2>. QED  BY <1>1, <2>2 DEF InLog
<1>4. ASSUME log' = log
      PROVE  InLog \subseteq InLog'
    BY <1>4 DEF InLog
<1>5. CASE Tick \/ UNCHANGED vars
    BY <1>4, <1>5 DEF Tick, vars
<1>6. ASSUME NEW a \in Attempt,
             \/ CreateMessage(a) \/ LockForMessage(a) \/ StoreMessage(a)
             \/ FailMessage(a)
      PROVE  InLog \subseteq InLog'
    BY <1>4, <1>6 DEF CreateMessage, LockForMessage, StoreMessage, FailMessage
<1>7. ASSUME NEW k \in Marker,
             \/ \E u \in User : MarkAsRead(k, u) \/ MarkAsUnread(k, u)
             \/ LockForMark(k) \/ StoreMark(k) \/ FailMark(k)
      PROVE  InLog \subseteq InLog'
    BY <1>4, <1>7 DEF MarkAsRead, MarkAsUnread, Mark, LockForMark, StoreMark, FailMark
<1>8. ASSUME NEW e \in Changer,
             \/ \E a \in Attempt, t \in Content : ChangeMessage(e, a, t)
             \/ BeginChange(e) \/ StoreChange(e) \/ ResumeChange(e)
             \/ FailChange(e)
      PROVE  InLog \subseteq InLog'
    BY <1>4, <1>8 DEF ChangeMessage, BeginChange, StoreChange, ResumeChange, FailChange
<1>. QED  BY <1>2, <1>3, <1>5, <1>6, <1>7, <1>8 DEF Next

\* The steps that answer an attempt.
LEMMA AnswersAreGiven ==
    ASSUME MessagesInv, [Next]_vars, NEW a \in Attempt, answer'[a] # answer[a]
    PROVE  /\ answer'[a] = "created" => a \in InLog'
           /\ answer'[a] = "first" => Twins(a, InLog) # {}
<1>1. TypeOK
    BY DEF MessagesInv
<1>2. CASE \E b \in Attempt : CreateMessage(b)
    BY <1>1, <1>2 DEF CreateMessage, TypeOK
<1>3. CASE \E b \in Attempt : ResumeMessage(b)
    BY <1>1, <1>3, AppendedLog DEF ResumeMessage, TypeOK
<1>4. CASE \E b \in Attempt : StoreMessage(b) \/ FailMessage(b)
    BY <1>1, <1>4 DEF StoreMessage, FailMessage, TypeOK
<1>5. CASE Restart
    BY <1>1, <1>5 DEF Restart, RestartBackend, TypeOK
<1>6. ASSUME answer' = answer
      PROVE  FALSE
    BY <1>6
<1>7. CASE \/ Tick \/ UNCHANGED vars
           \/ \E b \in Attempt : LockForMessage(b)
    BY <1>6, <1>7 DEF Tick, vars, LockForMessage
<1>8. CASE \E k \in Marker :
             \/ \E u \in User : MarkAsRead(k, u) \/ MarkAsUnread(k, u)
             \/ LockForMark(k) \/ StoreMark(k) \/ FailMark(k)
    BY <1>6, <1>8 DEF MarkAsRead, MarkAsUnread, Mark, LockForMark, StoreMark, FailMark
<1>9. CASE \E e \in Changer :
             \/ \E b \in Attempt, t \in Content : ChangeMessage(e, b, t)
             \/ BeginChange(e) \/ StoreChange(e) \/ ResumeChange(e)
             \/ FailChange(e)
    BY <1>6, <1>9 DEF ChangeMessage, BeginChange, StoreChange, ResumeChange, FailChange
<1>. QED
    BY <1>2, <1>3, <1>4, <1>5, <1>7, <1>8, <1>9 DEF Next

LEMMA NextKeepsAnswers ==
    MessagesInv /\ AnsweredIsDelivered /\ [Next]_vars => AnsweredIsDelivered'
<1> SUFFICES ASSUME MessagesInv, AnsweredIsDelivered, [Next]_vars,
                    NEW a \in Attempt
             PROVE  /\ answer'[a] = "created" => a \in InLog'
                    /\ answer'[a] = "first" => Twins(a, InLog') # {}
    BY DEF AnsweredIsDelivered, Twins
<1>1. InLog \subseteq InLog'
    BY LogGrows
<1>2. Twins(a, InLog) \subseteq Twins(a, InLog')
    BY <1>1 DEF Twins
<1>3. CASE answer'[a] = answer[a]
    BY <1>1, <1>2, <1>3 DEF AnsweredIsDelivered
<1>4. CASE answer'[a] # answer[a]
    BY <1>2, <1>4, AnswersAreGiven
<1>. QED  BY <1>3, <1>4

\* An attempt answered with a message, its own or the first of its key, finds
\* it in memory ever after: neither failures nor restarts take it away.
THEOREM MessagesAnsweredIsDelivered == Spec => []AnsweredIsDelivered
<1>1. Init => AnsweredIsDelivered
    BY DEF Init, AnsweredIsDelivered
<1>. QED  BY <1>1, NextKeepsAnswers, MessagesInvariant, PTL DEF Spec

\* A message in memory, which participants were shown, is in the table.
THEOREM MessagesDeliveredIsStored == Spec => []DeliveredIsStored
<1>1. MessagesInv => DeliveredIsStored
    BY DEF MessagesInv
<1>. QED  BY <1>1, MessagesInvariant, PTL

-----------------------------------------------------------------------------
(***************************************************************************)
(* What is stored: changes of messages and read positions                  *)
(***************************************************************************)

\* No two changes of one message are under way at once.  The code does not
\* see to it (persistMessageUpdate reads the message before its transaction
\* waits for the row); the two theorems below hold as long as the requests do.
ChangesTakeTurns ==
    \A e, f \in Changer :
       changing[e] # NoChange /\ changing[f] # NoChange
       /\ changing[e].of = changing[f].of => e = f

\* What the transaction of a change has read and written.
ChangeIsSound ==
    \A e \in Changer : changing[e] # NoChange =>
       /\ changing[e].of \in rows
       /\ changing[e].query \in {"begun", "stored"} =>
             changing[e].as = text[changing[e].of]
       /\ changing[e].query = "stored" =>
             dbText[changing[e].of] = changing[e].as

\* A message whose deletion was broadcast is deleted in the table, too.
DeletionIsStored ==
    \A a \in announced : a \in rows /\ text[a] = Empty /\ dbText[a] = Empty

ChangesInv == ChangeIsSound /\ DeletionIsStored

\* A step that leaves texts, changes and broadcasts alone.
LEMMA OtherStepsKeepChanges ==
    ASSUME ChangesInv, rows \subseteq rows',
           UNCHANGED <<text, dbText, changing, announced>>
    PROVE  ChangesInv'
BY DEF ChangesInv, ChangeIsSound, DeletionIsStored

\* The only steps that touch a text, a change or a broadcast.
LEMMA StepsOfTexts ==
    ASSUME MessagesInv, [Next]_vars
    PROVE  \/ rows \subseteq rows' /\ UNCHANGED <<text, dbText, changing, announced>>
           \/ \E e \in Changer :
                 \/ \E a \in Attempt, t \in Content : ChangeMessage(e, a, t)
                 \/ BeginChange(e) \/ StoreChange(e) \/ ResumeChange(e)
                 \/ FailChange(e)
           \/ RestartBackend
<1> DEFINE Kept == rows \subseteq rows' /\ UNCHANGED <<text, dbText, changing, announced>>
<1>1. ASSUME Tick \/ UNCHANGED vars
      PROVE  Kept
    BY <1>1 DEF Tick, vars
<1>2. ASSUME NEW a \in Attempt,
             \/ CreateMessage(a) \/ LockForMessage(a) \/ StoreMessage(a)
             \/ ResumeMessage(a) \/ FailMessage(a)
      PROVE  Kept
    BY <1>2 DEF CreateMessage, LockForMessage, StoreMessage, ResumeMessage, FailMessage
<1>3. ASSUME NEW k \in Marker,
             \/ \E u \in User : MarkAsRead(k, u) \/ MarkAsUnread(k, u)
             \/ LockForMark(k) \/ StoreMark(k) \/ FailMark(k)
      PROVE  Kept
    BY <1>3 DEF MarkAsRead, MarkAsUnread, Mark, LockForMark, StoreMark, FailMark
<1> HIDE DEF Kept
<1>4. CASE Restart
    BY <1>4 DEF Restart
<1>5. Kept => rows \subseteq rows' /\ UNCHANGED <<text, dbText, changing, announced>>
    BY DEF Kept
<1>. QED  BY <1>1, <1>2, <1>3, <1>4, <1>5 DEF Next

\* The request and its transaction of one change.
LEMMA ChangeStepsKeepChanges ==
    ASSUME MessagesInv, ChangesInv, ChangesTakeTurns, ChangesTakeTurns',
           NEW e \in Changer,
           \/ \E a \in Attempt, t \in Content : ChangeMessage(e, a, t)
           \/ BeginChange(e) \/ StoreChange(e) \/ ResumeChange(e)
           \/ FailChange(e)
    PROVE  ChangesInv'
<1>1. /\ text \in [Attempt -> Content] /\ dbText \in [Attempt -> Content]
      /\ changing \in [Changer -> Change \union {NoChange}]
      /\ InLog \subseteq rows /\ rows \subseteq Attempt
      /\ announced \subseteq Attempt
    BY DEF MessagesInv, TypeOK, DeliveredIsStored
<1>2. ASSUME NEW f \in Changer, changing[f] # NoChange
      PROVE  changing[f] \in Change /\ changing[f].of \in Attempt
    BY <1>1, <1>2 DEF Change
<1>3. NoChange.query = "idle"
    BY DEF NoChange
<1>4. ASSUME NEW a \in Attempt, NEW t \in Content, ChangeMessage(e, a, t)
      PROVE  ChangesInv'
    <2>1. /\ changing' = [changing EXCEPT ![e] = [query |-> "sent", of |-> a, as |-> t]]
          /\ text' = [text EXCEPT ![a] = t]
          /\ a \in rows /\ text[a] # Empty
          /\ UNCHANGED <<rows, dbText, announced>>
        BY <1>1, <1>4 DEF ChangeMessage
    <2>2. changing'[e] = [query |-> "sent", of |-> a, as |-> t] /\ changing'[e] # NoChange
        BY <1>1, <2>1 DEF NoChange
    <2>3. ASSUME NEW f \in Changer, f # e, changing'[f] # NoChange
          PROVE  changing[f] = changing'[f] /\ changing[f].of # a
        BY <1>1, <2>1, <2>2, <2>3 DEF ChangesTakeTurns
    <2>4. ChangeIsSound'
        <3> SUFFICES ASSUME NEW f \in Changer, changing'[f] # NoChange
                     PROVE  /\ changing'[f].of \in rows'
                            /\ changing'[f].query \in {"begun", "stored"} =>
                                  changing'[f].as = text'[changing'[f].of]
                            /\ changing'[f].query = "stored" =>
                                  dbText'[changing'[f].of] = changing'[f].as
            BY DEF ChangeIsSound
        <3>1. CASE f = e
            BY <2>1, <2>2, <3>1
        <3>2. CASE f # e
            BY <1>1, <1>2, <2>1, <2>3, <3>2 DEF ChangesInv, ChangeIsSound
        <3>. QED  BY <3>1, <3>2
    <2>5. DeletionIsStored'
        BY <1>1, <2>1 DEF ChangesInv, DeletionIsStored
    <2>. QED  BY <2>4, <2>5 DEF ChangesInv
<1>5. CASE BeginChange(e)
    <2>1. changing[e] # NoChange /\ changing[e] \in Change
        BY <1>2, <1>3, <1>5 DEF BeginChange
    <2>2. /\ changing'[e].of = changing[e].of
          /\ changing'[e].query = "begun"
          /\ changing'[e].as = text[changing[e].of]
          /\ \A f \in Changer : f # e => changing'[f] = changing[f]
          /\ UNCHANGED <<rows, text, dbText, announced>>
        BY <1>1, <1>5, <2>1 DEF BeginChange, Change
    <2>. QED
        BY <2>1, <2>2 DEF ChangesInv, ChangeIsSound, DeletionIsStored
<1>6. CASE StoreChange(e)
    <2>1. changing[e] # NoChange /\ changing[e] \in Change
        BY <1>2, <1>3, <1>6 DEF StoreChange
    <2>2. /\ changing'[e].of = changing[e].of
          /\ changing'[e].query = "stored"
          /\ changing'[e].as = changing[e].as
          /\ changing[e].query = "begun"
          /\ \A f \in Changer : f # e => changing'[f] = changing[f]
          /\ dbText' = [dbText EXCEPT ![changing[e].of] = changing[e].as]
          /\ UNCHANGED <<rows, text, announced>>
        BY <1>1, <1>6, <2>1 DEF StoreChange, Change
    <2>3. changing[e].as = text[changing[e].of]
        BY <2>1, <2>2 DEF ChangesInv, ChangeIsSound
    <2>4. ChangeIsSound'
        <3> SUFFICES ASSUME NEW f \in Changer, changing'[f] # NoChange
                     PROVE  /\ changing'[f].of \in rows'
                            /\ changing'[f].query \in {"begun", "stored"} =>
                                  changing'[f].as = text'[changing'[f].of]
                            /\ changing'[f].query = "stored" =>
                                  dbText'[changing'[f].of] = changing'[f].as
            BY DEF ChangeIsSound
        <3>1. CASE f = e
            BY <1>1, <1>2, <2>1, <2>2, <2>3, <3>1 DEF ChangesInv, ChangeIsSound
        <3>2. CASE f # e
            <4>1. changing'[f] = changing[f] /\ changing[f].of # changing[e].of
                BY <2>1, <2>2, <3>2 DEF ChangesTakeTurns
            <4>. QED  BY <1>1, <1>2, <2>2, <4>1 DEF ChangesInv, ChangeIsSound
        <3>. QED  BY <3>1, <3>2
    <2>5. DeletionIsStored'
        BY <1>1, <2>2, <2>3 DEF ChangesInv, DeletionIsStored
    <2>. QED  BY <2>4, <2>5 DEF ChangesInv
<1>7. CASE ResumeChange(e)
    <2>1. changing[e] # NoChange
        BY <1>3, <1>7 DEF ResumeChange
    <2>2. /\ changing[e].query = "stored"
          /\ announced' = IF text[changing[e].of] = Empty
                          THEN announced \union {changing[e].of} ELSE announced
          /\ \A f \in Changer : changing'[f] # NoChange => changing'[f] = changing[f]
          /\ UNCHANGED <<rows, text, dbText>>
        BY <1>1, <1>7 DEF ResumeChange
    <2>3. /\ changing[e].of \in rows
          /\ dbText[changing[e].of] = text[changing[e].of]
        BY <2>1, <2>2 DEF ChangesInv, ChangeIsSound
    <2>4. ChangeIsSound'
        BY <2>2 DEF ChangesInv, ChangeIsSound
    <2>5. DeletionIsStored'
        BY <2>2, <2>3 DEF ChangesInv, DeletionIsStored
    <2>. QED  BY <2>4, <2>5 DEF ChangesInv
<1>8. CASE FailChange(e)
    <2>1. /\ \A f \in Changer : changing'[f] # NoChange => changing'[f] = changing[f]
          /\ UNCHANGED <<rows, text, dbText, announced>>
        BY <1>1, <1>8 DEF FailChange
    <2>. QED  BY <2>1 DEF ChangesInv, ChangeIsSound, DeletionIsStored
<1>. QED  BY <1>4, <1>5, <1>6, <1>7, <1>8

LEMMA NextKeepsChanges ==
    ASSUME MessagesInv, ChangesInv, ChangesTakeTurns, ChangesTakeTurns', [Next]_vars
    PROVE  ChangesInv'
<1>1. ASSUME RestartBackend
      PROVE  ChangesInv'
    <2>1. /\ \A a \in rows : text'[a] = dbText[a]
          /\ \A f \in Changer : changing'[f] = NoChange
          /\ UNCHANGED <<rows, dbText, announced>>
        BY <1>1 DEF RestartBackend, MessagesInv, TypeOK
    <2>. QED  BY <2>1 DEF ChangesInv, ChangeIsSound, DeletionIsStored
<1>. QED  BY <1>1, StepsOfTexts, OtherStepsKeepChanges, ChangeStepsKeepChanges

\* A deletion that was broadcast is never undone, neither by a failed query
\* nor by a restart, as long as no two changes of one message overlap.
THEOREM MessagesDeletionIsFinal == Spec /\ []ChangesTakeTurns => []DeletionIsFinal
<1>1. Init => ChangesInv
    BY DEF Init, ChangesInv, ChangeIsSound, DeletionIsStored
<1>2. ChangesInv => DeletionIsFinal
    BY DEF ChangesInv, DeletionIsStored, DeletionIsFinal
<1>3. /\ MessagesInv /\ ChangesInv /\ ChangesTakeTurns /\ ChangesTakeTurns'
      /\ [Next]_vars
      => ChangesInv'
    BY NextKeepsChanges
<1>. QED  BY <1>1, <1>2, <1>3, MessagesInvariant, PTL DEF Spec

\* Whoever holds the row lock has read the latest read positions, unless a
\* later mark waits for the lock.
HolderIsCurrent ==
    RowLocked /\ (\A k \in Marker : marking[k] # "sent") => written = lastRead

ReadInv == HolderIsCurrent /\ ReadPositionIsStored

\* A content the table does not have is on its way there.
ContentIsOnItsWay ==
    \A a \in Attempt : dbText[a] # text[a] =>
       \E e \in Changer :
          changing[e] # NoChange /\ changing[e].of = a /\ changing[e].query # "stored"

LEMMA StoredParticipants ==
    ASSUME MessagesInv, StoreParticipants, written = lastRead
    PROVE  dbRead' = lastRead
<1>1. lastRead \in [User -> Time] /\ dbRead' \in [User -> Time]
    BY DEF MessagesInv, TypeOK, StoreParticipants
<1>2. \A u \in User : dbRead'[u] = lastRead[u]
    BY DEF StoreParticipants
<1>. QED  BY <1>1, <1>2

LEMMA NextKeepsRead ==
    ASSUME ~DbMayFail, MessagesInv, ReadInv, [Next]_vars
    PROVE  ReadInv'
<1>0. /\ creating \in [Attempt -> Query] /\ marking \in [Marker -> Query]
      /\ lastRead \in [User -> Time] /\ written \in [User -> Time]
    BY DEF MessagesInv, TypeOK
<1>1. ASSUME UNCHANGED <<lastRead, dbRead, creating, marking, written>>
      PROVE  ReadInv'
    BY <1>1 DEF ReadInv, HolderIsCurrent, RowLocked, ReadPositionIsStored
<1>2. ASSUME Tick \/ UNCHANGED vars
      PROVE  ReadInv'
    BY <1>1, <1>2 DEF Tick, vars
<1>3. ASSUME NEW e \in Changer,
             \/ \E a \in Attempt, t \in Content : ChangeMessage(e, a, t)
             \/ BeginChange(e) \/ StoreChange(e) \/ ResumeChange(e)
             \/ FailChange(e)
      PROVE  ReadInv'
    BY <1>1, <1>3 DEF ChangeMessage, BeginChange, StoreChange, ResumeChange, FailChange
<1>4. ASSUME NEW a \in Attempt, CreateMessage(a) \/ ResumeMessage(a)
      PROVE  ReadInv'
    <2>1. /\ \A b \in Attempt : creating'[b] = "locked" => creating[b] = "locked"
          /\ UNCHANGED <<lastRead, dbRead, marking, written>>
        BY <1>0, <1>4 DEF CreateMessage, ResumeMessage
    <2>. QED  BY <2>1 DEF ReadInv, HolderIsCurrent, RowLocked, ReadPositionIsStored
<1>5. ASSUME NEW a \in Attempt, LockForMessage(a)
      PROVE  ReadInv'
    BY <1>5 DEF LockForMessage, ReadInv, HolderIsCurrent, ReadPositionIsStored
<1>6. ASSUME NEW a \in Attempt, StoreMessage(a)
      PROVE  ReadInv'
    <2>1. /\ RowLocked
          /\ \A b \in Attempt : creating'[b] = "locked" => creating[b] = "locked"
          /\ UNCHANGED <<lastRead, marking, written>>
          /\ dbRead' = dbRead \/ StoreParticipants
        BY <1>0, <1>6 DEF StoreMessage, RowLocked
    <2>2. HolderIsCurrent'
        BY <2>1 DEF ReadInv, HolderIsCurrent, RowLocked
    <2>3. ASSUME \A k \in Marker : marking[k] = "idle"
          PROVE  dbRead' = lastRead
        <3>1. written = lastRead /\ dbRead = lastRead
            BY <2>1, <2>3 DEF ReadInv, HolderIsCurrent, ReadPositionIsStored
        <3>. QED  BY <2>1, <3>1, StoredParticipants
    <2>. QED  BY <2>1, <2>2, <2>3 DEF ReadInv, ReadPositionIsStored
<1>7. ASSUME NEW a \in Attempt, FailMessage(a)
      PROVE  ReadInv'
    BY <1>7 DEF FailMessage
<1>8. ASSUME NEW k \in Marker, NEW u \in User, MarkAsRead(k, u) \/ MarkAsUnread(k, u)
      PROVE  ReadInv'
    <2>1. marking'[k] = "sent"
        BY <1>0, <1>8 DEF MarkAsRead, MarkAsUnread, Mark
    <2>. QED  BY <2>1 DEF ReadInv, HolderIsCurrent, ReadPositionIsStored
<1>9. ASSUME NEW k \in Marker, LockForMark(k)
      PROVE  ReadInv'
    <2>1. marking'[k] = "locked" /\ written' = lastRead /\ UNCHANGED lastRead
        BY <1>0, <1>9 DEF LockForMark
    <2>. QED  BY <2>1 DEF ReadInv, HolderIsCurrent, ReadPositionIsStored
<1>10. ASSUME NEW k \in Marker, StoreMark(k)
       PROVE  ReadInv'
    <2>1. /\ RowLocked
          /\ marking[k] = "locked"
          /\ marking' = [marking EXCEPT ![k] = "idle"]
          /\ StoreParticipants
          /\ UNCHANGED <<lastRead, creating, written>>
        BY <1>10 DEF StoreMark, RowLocked
    <2>2. ASSUME \A l \in Marker : marking'[l] # "sent"
          PROVE  written = lastRead
        <3>1. \A l \in Marker : marking[l] # "sent"
            BY <1>0, <2>1, <2>2
        <3>. QED  BY <2>1, <3>1 DEF ReadInv, HolderIsCurrent
    <2>3. HolderIsCurrent'
        BY <2>1, <2>2 DEF HolderIsCurrent
    <2>4. ASSUME \A l \in Marker : marking'[l] = "idle"
          PROVE  dbRead' = lastRead
        <3>1. written = lastRead
            BY <2>2, <2>4
        <3>. QED  BY <2>1, <3>1, StoredParticipants
    <2>. QED  BY <2>1, <2>3, <2>4 DEF ReadInv, ReadPositionIsStored
<1>11. ASSUME NEW k \in Marker, FailMark(k)
       PROVE  ReadInv'
    BY <1>11 DEF FailMark
<1>12. ASSUME Restart
       PROVE  ReadInv'
    BY <1>12 DEF Restart, RestartBackend, ReadInv, HolderIsCurrent, RowLocked,
        ReadPositionIsStored
<1>. QED
    BY <1>2, <1>3, <1>4, <1>5, <1>6, <1>7, <1>8, <1>9, <1>10, <1>11, <1>12 DEF Next

LEMMA NextKeepsContent ==
    ASSUME ~DbMayFail, MessagesInv, ChangesInv, ContentIsOnItsWay, [Next]_vars
    PROVE  ContentIsOnItsWay'
<1>1. /\ text \in [Attempt -> Content] /\ dbText \in [Attempt -> Content]
      /\ changing \in [Changer -> Change \union {NoChange}]
      /\ rows \subseteq Attempt
    BY DEF MessagesInv, TypeOK
<1>2. NoChange.query = "idle"
    BY DEF NoChange
<1>3. CASE UNCHANGED <<text, dbText, changing, announced>>
    BY <1>3 DEF ContentIsOnItsWay
<1>4. CASE RestartBackend
    <2>1. /\ \A a \in Attempt : text'[a] = IF a \in rows THEN dbText[a] ELSE text[a]
          /\ dbText' = dbText
        BY <1>4 DEF RestartBackend
    <2>2. \A a \in Attempt : a \notin rows => dbText[a] = text[a]
        BY DEF ContentIsOnItsWay, ChangesInv, ChangeIsSound
    <2>. QED  BY <2>1, <2>2 DEF ContentIsOnItsWay
<1>5. ASSUME NEW e \in Changer, NEW a \in Attempt, NEW t \in Content,
             ChangeMessage(e, a, t)
      PROVE  ContentIsOnItsWay'
    <2>1. /\ changing[e] = NoChange
          /\ changing'[e] = [query |-> "sent", of |-> a, as |-> t]
          /\ \A f \in Changer : f # e => changing'[f] = changing[f]
          /\ \A b \in Attempt : b # a => text'[b] = text[b]
          /\ dbText' = dbText
        BY <1>1, <1>5 DEF ChangeMessage
    <2>2. /\ changing'[e] # NoChange /\ changing'[e].of = a
          /\ changing'[e].query # "stored"
        BY <2>1 DEF NoChange
    <2>. QED  BY <2>1, <2>2 DEF ContentIsOnItsWay
<1>6. ASSUME NEW e \in Changer, BeginChange(e)
      PROVE  ContentIsOnItsWay'
    <2>1. changing[e] # NoChange /\ changing[e] \in Change
        BY <1>1, <1>2, <1>6 DEF BeginChange
    <2>2. /\ changing'[e] # NoChange
          /\ changing'[e].of = changing[e].of
          /\ changing'[e].query = "begun"
          /\ \A f \in Changer : f # e => changing'[f] = changing[f]
          /\ UNCHANGED <<text, dbText>>
        BY <1>1, <1>2, <1>6, <2>1 DEF BeginChange, Change
    <2>. QED  BY <2>2 DEF ContentIsOnItsWay
<1>7. ASSUME NEW e \in Changer, StoreChange(e)
      PROVE  ContentIsOnItsWay'
    <2>1. changing[e] # NoChange /\ changing[e] \in Change
        BY <1>1, <1>2, <1>7 DEF StoreChange
    <2>2. changing[e].as = text[changing[e].of]
        BY <1>7, <2>1 DEF StoreChange, ChangesInv, ChangeIsSound
    <2>3. /\ \A f \in Changer : f # e => changing'[f] = changing[f]
          /\ changing[e].of \in Attempt
          /\ dbText' = [dbText EXCEPT ![changing[e].of] = changing[e].as]
          /\ UNCHANGED text
        BY <1>1, <1>7, <2>1 DEF StoreChange, Change
    <2>. QED  BY <1>1, <2>2, <2>3 DEF ContentIsOnItsWay
<1>8. ASSUME NEW e \in Changer, ResumeChange(e)
      PROVE  ContentIsOnItsWay'
    BY <1>1, <1>8 DEF ResumeChange, ContentIsOnItsWay
<1>9. ASSUME NEW e \in Changer, FailChange(e)
      PROVE  ContentIsOnItsWay'
    BY <1>9 DEF FailChange
<1>. QED
    BY <1>3, <1>4, <1>5, <1>6, <1>7, <1>8, <1>9, StepsOfTexts

\* As long as queries do not fail: once no mark is under way the table holds
\* the read positions of memory, however the transactions of marks and of new
\* messages wait for one another; and once no change is, the contents, if no
\* two changes of one message overlap.
THEOREM MessagesMemoryIsStored ==
    ASSUME ~DbMayFail
    PROVE  Spec /\ []ChangesTakeTurns => []MemoryIsStored
<1>1. Init => ReadInv /\ ChangesInv /\ ContentIsOnItsWay
    BY DEF Init, ReadInv, HolderIsCurrent, RowLocked, ReadPositionIsStored,
        ChangesInv, ChangeIsSound, DeletionIsStored, ContentIsOnItsWay
<1>2. /\ MessagesInv /\ ReadInv /\ ChangesInv /\ ContentIsOnItsWay
      /\ ChangesTakeTurns /\ ChangesTakeTurns' /\ [Next]_vars
      => ReadInv' /\ ChangesInv' /\ ContentIsOnItsWay'
    BY NextKeepsRead, NextKeepsChanges, NextKeepsContent
<1>3. MessagesInv /\ ReadInv /\ ContentIsOnItsWay => MemoryIsStored
    <2> SUFFICES ASSUME MessagesInv, ReadInv, ContentIsOnItsWay
                 PROVE  ReadPositionIsStored /\ ContentIsStored
        BY DEF MemoryIsStored
    <2>1. InLog \subseteq Attempt
        BY DEF MessagesInv, TypeOK, DeliveredIsStored
    <2>. QED  BY <2>1 DEF ReadInv, ContentIsOnItsWay, ContentIsStored
<1>. QED  BY <1>1, <1>2, <1>3, MessagesInvariant, PTL DEF Spec

-----------------------------------------------------------------------------

\* The call that a page shows: EndedInv.

\* A calm step that overtakes no handler keeps the call sound.
LEMMA CalmIsSound ==
    ASSUME NEW p \in ClientPage, NEW t \in SUBSET Task, NEW m,
           Calm(p, t), CallIsSound(page, tasks), ~Overtakes(p, t, m)
    PROVE  CallIsSound(p, t)
<1>1. CASE Over(p.call)
  <2>1. ASSUME NEW x \in t, x.kind = "accept" PROVE FALSE
    <3>1. x \in tasks /\ Live(page.call)
      BY <1>1, <2>1 DEF Calm, CallIsSound
    <3>2. QED
      BY <1>1, <2>1, <3>1 DEF Overtakes
  <2>2. QED
    BY <1>1, <2>1 DEF CallIsSound, Live
<1>2. CASE Live(p.call)
  <2>1. p.call.id \notin p.terminal
    <3>1. CASE p.call.id \notin p.terminal
      BY <3>1
    <3>2. CASE /\ p.call.id = page.call.id /\ p.terminal = page.terminal
               /\ t = tasks \/ Live(page.call)
      <4>1. Live(page.call)
        BY <1>2, <3>2 DEF Overtakes, Live
      <4>2. QED
        BY <3>2, <4>1 DEF CallIsSound
    <3>3. QED
      BY <1>2, <3>1, <3>2 DEF Calm
  <2>2. QED
    BY <1>2, <2>1 DEF CallIsSound
<1>3. QED
  BY <1>1, <1>2 DEF Live

LEMMA MentionsOfConcat ==
    ASSUME NEW S, NEW s \in Seq(S), NEW m \in Seq(S), NEW c, Mentions(s \o m, c)
    PROVE  Mentions(s, c) \/ Mentions(m, c)
<1>1. PICK i \in DOMAIN (s \o m) : (s \o m)[i].call = c
  BY DEF Mentions
<1>2. CASE i \in 1 .. Len(s)
  <2>1. (s \o m)[i] = s[i] /\ i \in DOMAIN s
    BY <1>2
  <2>2. QED
    BY <1>1, <2>1 DEF Mentions
<1>3. CASE i \notin 1 .. Len(s)
  <2>1. (s \o m)[i] = m[i - Len(s)] /\ i - Len(s) \in DOMAIN m
    BY <1>1, <1>3
  <2>2. QED
    BY <1>1, <2>1 DEF Mentions
<1>4. QED
  BY <1>2, <1>3

LEMMA AtMostOneDoes ==
    ASSUME ClientTypes, NEW m, NEW L \in SUBSET (CallId \union {None}), AtMostOne(m, L)
    PROVE  /\ m \in Seq(Packet)
           /\ \A c \in CallId : Mentions(m, c) => c \in Known \union L
<1>1. Known \subseteq CallId
  BY DEF Known, KnownOf, ClientTypes, ClientPage, Call, NoCall, Task
<1>2. CASE m = <<>>
  BY <1>2 DEF Mentions
<1>3. CASE m # <<>>
  <2>1. PICK e \in Packet : m = <<e>> /\ e.call \in Known \union L \union {None}
    BY <1>3 DEF AtMostOne
  <2>2. m \in Seq(Packet) /\ DOMAIN m = {1} /\ m[1] = e
    BY <2>1
  <2>3. None \notin CallId
    BY CallClientConstants DEF CallId
  <2>4. QED
    BY <2>1, <2>2, <2>3 DEF Mentions
<1>4. QED
  BY <1>2, <1>3

\* A legal move tells the page no more than L.
LEMMA MoveLearns ==
    ASSUME EndedInv, NEW p, NEW t, NEW m, NEW L, Legal(p, t, m, L), Move(p, t, m)
    PROVE  Learned(L)
<1>1. m \in Seq(Packet) /\ \A c \in CallId : Mentions(m, c) => c \in Known \union L
  BY AtMostOneDoes DEF EndedInv, Legal
<1>2. toBackend' = toBackend \o m /\ toBackend' \in Seq(Packet)
  BY <1>1 DEF Move, EndedInv, ClientTypes
<1>3. ASSUME NEW c \in CallId, Mentions(toBackend', c)
      PROVE  Mentions(toBackend, c) \/ c \in Known \union L
  <2>1. Mentions(toBackend, c) \/ Mentions(m, c)
    BY <1>1, <1>2, <1>3, MentionsOfConcat DEF EndedInv, ClientTypes
  <2>2. QED
    BY <1>1, <2>1
<1>4. overtaken' \in BOOLEAN
  BY DEF Move
<1>5. ASSUME ~overtaken' PROVE ~overtaken /\ CallIsSound(page', tasks')
  <2>1. ~overtaken /\ ~Overtakes(p, t, m)
    BY <1>5 DEF Move
  <2>2. CallIsSound(p, t)
    BY <2>1, CalmIsSound DEF EndedInv, Legal
  <2>3. QED
    BY <2>1, <2>2 DEF Move
<1>6. page' = p /\ tasks' = t
  BY DEF Move
<1>7. QED
  BY <1>2, <1>3, <1>4, <1>5, <1>6 DEF Learned, Legal

-----------------------------------------------------------------------------

LEMMA IdsAreKnown ==
    ASSUME ClientTypes
    PROVE  /\ page.call.id \in Known \union {None}
           /\ \A x \in tasks : x.call \in Known \union {None}
BY DEF Known, KnownOf

LEMMA ReleasedDoes ==
    ASSUME NEW p \in ClientPage
    PROVE  SameCall(p, Released(p))
<1> DEFINE n == IF p.mic THEN p.streams - 1 ELSE p.streams
<1>1. n \in Int
  BY DEF ClientPage
<1> DEFINE q == [p EXCEPT !.conn = "none", !.offered = FALSE, !.sending = FALSE,
                          !.peerTimer = FALSE, !.mic = FALSE, !.streams = n]
<1>2. Released(p) = q
  BY DEF Released, ClientPage
<1> HIDE DEF n
<1>3. q \in ClientPage
  BY <1>1 DEF ClientPage
<1>4. q.call = p.call /\ q.terminal = p.terminal
  BY DEF ClientPage
<1> HIDE DEF q
<1>5. QED
  BY <1>2, <1>3, <1>4 DEF SameCall

LEMMA OpenedDoes ==
    ASSUME NEW p \in ClientPage
    PROVE  SameCall(p, Opened(p))
<1> DEFINE n == p.streams + 1
<1>1. n \in Int
  BY DEF ClientPage
<1>2. Opened(p) = [p EXCEPT !.mic = TRUE, !.streams = n]
  BY DEF Opened, ClientPage
<1> HIDE DEF n
<1>3. QED
  BY <1>1, <1>2 DEF ClientPage, SameCall

LEMMA NewPeerDoes ==
    ASSUME NEW p \in ClientPage
    PROVE  SameCall(p, NewPeer(p))
BY DEF ClientPage, NewPeer, SameCall

LEMMA FinishedDoes ==
    ASSUME NEW p \in ClientPage, NEW s \in {"ended", "failed"}
    PROVE  /\ Finished(p, s) \in ClientPage
           /\ Over(Finished(p, s).call)
           /\ Finished(p, s).call.id = p.call.id
           /\ Finished(p, s).terminal = p.terminal \union ({p.call.id} \ {None})
<1> DEFINE r == Released(p)
           u == IF p.call = NoCall THEN p.call.status ELSE s
           showing == [p.call EXCEPT !.status = u]
           f == [r EXCEPT !.socketTimer = FALSE, !.call = showing,
                          !.terminal = p.terminal \union ({p.call.id} \ {None})]
<1>1. r \in ClientPage /\ r.call = p.call /\ r.terminal = p.terminal
  BY ReleasedDoes DEF SameCall
<1>2. showing \in Call /\ Over(showing) /\ showing.id = p.call.id
  BY DEF ClientPage, Call, Status, NoCall, Over
<1>3. Finished(p, s) = f
  BY <1>1 DEF Finished, ClientPage
<1>4. p.terminal \union ({p.call.id} \ {None}) \in SUBSET CallId
  BY DEF ClientPage, Call, NoCall
<1> HIDE DEF r, showing
<1>5. f \in ClientPage /\ f.call = showing /\ f.terminal = p.terminal \union ({p.call.id} \ {None})
  BY <1>1, <1>2, <1>4 DEF ClientPage
<1>6. QED
  BY <1>2, <1>3, <1>5

LEMMA EndingIsLegal ==
    ASSUME ClientTypes, NEW p, NEW L, NEW c \in CallId \union {None},
           c \in Known \union L \union {None}, NEW k \in {"end", "reject"}
    PROVE  AtMostOne(Ending(p, k, c), L)
<1>1. CASE Ending(p, k, c) = <<>>
  BY <1>1 DEF AtMostOne
<1>2. CASE Ending(p, k, c) # <<>>
  <2>1. Ending(p, k, c) = <<Msg(k, c)>> /\ c # None
    BY <1>2 DEF Ending
  <2>2. Msg(k, c) \in Packet /\ Msg(k, c).call = c
    BY <2>1 DEF Msg, Packet
  <2>3. QED
    BY <2>1, <2>2 DEF AtMostOne
<1>3. QED
  BY <1>1, <1>2

\* A page that shows no live call, or the one it has shown all along, with
\* tasks of the calls it knows.
LEMMA QuietIsLegal ==
    ASSUME EndedInv, NEW p \in ClientPage, NEW t \in SUBSET Task, NEW m,
           AtMostOne(m, {}),
           p.call.id \in Known \union {None}, p.terminal \subseteq Known,
           \A x \in t : x.call \in Known \union {None},
           Calm(p, t)
    PROVE  Legal(p, t, m, {})
BY DEF Legal, KnownOf

LEMMA FailLearns ==
    ASSUME EndedInv, NEW p \in ClientPage, NEW t \in SUBSET tasks,
           p.call.id \in Known \union {None}, p.terminal \subseteq Known,
           Fail(p, t)
    PROVE  Learned({})
<1>1. /\ Finished(p, "failed") \in ClientPage
      /\ Over(Finished(p, "failed").call)
      /\ Finished(p, "failed").call.id = p.call.id
      /\ Finished(p, "failed").terminal = p.terminal \union ({p.call.id} \ {None})
  BY FinishedDoes
<1>2. AtMostOne(Ending(p, "end", p.call.id), {})
  BY EndingIsLegal DEF EndedInv, ClientPage, Call, NoCall
<1>3. Calm(Finished(p, "failed"), t)
  BY <1>1 DEF Calm, Live
<1>4. t \in SUBSET Task /\ \A x \in t : x.call \in Known \union {None}
  BY IdsAreKnown DEF EndedInv, ClientTypes
<1>5. Legal(Finished(p, "failed"), t, Ending(p, "end", p.call.id), {})
  BY <1>1, <1>2, <1>3, <1>4, QuietIsLegal
<1>6. QED
  BY <1>5, MoveLearns DEF Fail

LEMMA LegalAgain ==
    ASSUME NEW p, NEW q, NEW t, NEW m, NEW n, NEW L,
           Legal(p, t, m, L), SameCall(p, q), AtMostOne(n, L)
    PROVE  Legal(q, t, n, L)
BY DEF Legal, SameCall, KnownOf, Calm

\* A page that shows the call it has shown, live or not.
LEMMA SameIsLegal ==
    ASSUME EndedInv, NEW p, NEW t \in SUBSET Task, NEW m, NEW L \in SUBSET (CallId \union {None}),
           p \in ClientPage, p.call.id = page.call.id, p.terminal = page.terminal,
           AtMostOne(m, L), \A x \in t : x.call \in Known \union L \union {None},
           CallIsSound(page, tasks) => t = tasks \/ Over(p.call) \/ Live(page.call),
           CallIsSound(page, tasks) /\ Over(p.call) => \A x \in t : x.kind = "accept" => x \in tasks
    PROVE  Legal(p, t, m, L)
<1>1. Calm(p, t)
  BY DEF Calm, Live
<1>2. page.terminal \subseteq CallId /\ None \notin CallId
  BY CallClientConstants DEF EndedInv, ClientTypes, ClientPage, CallId
<1>3. KnownOf(p, t) \subseteq Known \union L
  BY <1>2 DEF KnownOf, Known
<1>4. QED
  BY <1>1, <1>3 DEF Legal

LEMMA RestartLearns ==
    ASSUME EndedInv, NEW p, NEW t, NEW L, Legal(p, t, <<>>, L), RestartConnection(p, t)
    PROVE  Learned(L)
<1> DEFINE n == IF p.conn = "none" THEN NewPeer(p) ELSE p
           q == [n EXCEPT !.offered = TRUE]
<1>1. n \in ClientPage /\ n.call = p.call /\ n.terminal = p.terminal
  BY NewPeerDoes DEF SameCall, Legal
<1> HIDE DEF n
<1>2. SameCall(p, q)
  BY <1>1 DEF ClientPage, SameCall
<1>3. p.call.id \in Known \union L \union {None}
  BY DEF Legal, KnownOf
<1>4. \/ p.call.id \in OutgoingCall /\ Move(q, t, <<Msg("offer", p.call.id)>>)
      \/ Move(p, t, <<>>)
  BY DEF RestartConnection, n
<1> HIDE DEF q
<1>5. CASE p.call.id \in OutgoingCall /\ Move(q, t, <<Msg("offer", p.call.id)>>)
  <2>1. Msg("offer", p.call.id) \in Packet /\ Msg("offer", p.call.id).call = p.call.id
    BY <1>5 DEF Msg, Packet, CallId
  <2>2. AtMostOne(<<Msg("offer", p.call.id)>>, L)
    BY <1>3, <2>1 DEF AtMostOne
  <2>3. QED
    BY <1>2, <1>5, <2>2, LegalAgain, MoveLearns
<1>6. CASE Move(p, t, <<>>)
  BY <1>6, MoveLearns
<1>7. QED
  BY <1>4, <1>5, <1>6

LEMMA AnswerLearns ==
    ASSUME EndedInv, NEW p, NEW t, NEW L, NEW c \in CallId \union {None},
           c \in Known \union L \union {None},
           Legal(p, t, <<>>, L), AnswerOffer(p, t, c)
    PROVE  Learned(L)
<1> DEFINE n == IF p.conn \in {"none", "new"} THEN "checking" ELSE p.conn
           q == [p EXCEPT !.conn = n]
<1>1. SameCall(p, q)
  BY DEF ClientPage, SameCall, Legal
<1>2. Move(q, t, <<Msg("answer", c)>>)
  BY DEF AnswerOffer
<1> HIDE DEF q
<1>3. AtMostOne(<<Msg("answer", c)>>, L)
  <2>1. Msg("answer", c) \in Packet /\ Msg("answer", c).call = c
    BY DEF Msg, Packet
  <2>2. QED
    BY <2>1 DEF AtMostOne
<1>4. QED
  BY <1>1, <1>2, <1>3, LegalAgain, MoveLearns

LEMMA AfterSyncLearns ==
    ASSUME EndedInv, NEW p, NEW t, NEW L, NEW c \in CallId \union {None},
           c \in Known \union L \union {None},
           Legal(p, t, <<>>, L), AfterSync(p, t, c)
    PROVE  Learned(L)
<1> DEFINE q == IF p.conn = "none" THEN NewPeer(p) ELSE p
<1>1. SameCall(p, q)
  BY NewPeerDoes DEF SameCall, Legal
<1>2. Move(q, t, <<>>) \/ RestartConnection(q, t) \/ Move(q, t, <<Msg("recover", c)>>)
  BY DEF AfterSync
<1> HIDE DEF q
<1>3. AtMostOne(<<Msg("recover", c)>>, L) /\ AtMostOne(<<>>, L)
  <2>1. Msg("recover", c) \in Packet /\ Msg("recover", c).call = c
    BY DEF Msg, Packet
  <2>2. QED
    BY <2>1 DEF AtMostOne
<1>4. Legal(q, t, <<>>, L) /\ Legal(q, t, <<Msg("recover", c)>>, L)
  BY <1>1, <1>3, LegalAgain
<1>5. QED
  BY <1>2, <1>4, MoveLearns, RestartLearns

-----------------------------------------------------------------------------

LEMMA TerminalIsKnown ==
    ASSUME ClientTypes
    PROVE  page.terminal \subseteq Known
BY CallClientConstants DEF Known, KnownOf, ClientTypes, ClientPage, CallId

LEMMA EmptyIsLegal ==
    ASSUME NEW L
    PROVE  AtMostOne(<<>>, L)
BY DEF AtMostOne

LEMMA OneIsLegal ==
    ASSUME NEW L, NEW c \in L \intersect CallId, NEW k \in {"reject", "end", "offer"}
    PROVE  AtMostOne(<<Msg(k, c)>>, L)
<1>1. Msg(k, c) \in Packet /\ Msg(k, c).call = c
  BY DEF Msg, Packet
<1>2. QED
  BY <1>1 DEF AtMostOne

\* The page without a call, which has heard of L.
LEMMA LeftIsLegal ==
    ASSUME EndedInv, NEW p, NEW m, NEW L \in SUBSET (CallId \union {None}), AtMostOne(m, L),
           p \in ClientPage, p.call = NoCall, p.terminal \subseteq Known \union L
    PROVE  Legal(p, tasks, m, L)
<1>1. p.call.id = None /\ Over(p.call)
  BY DEF NoCall, Over
<1>2. tasks \in SUBSET Task /\ \A x \in tasks : x.call \in Known \union {None}
  BY IdsAreKnown DEF EndedInv, ClientTypes
<1>3. Calm(p, tasks)
  BY <1>1 DEF Calm, Live
<1>4. QED
  BY <1>1, <1>2, <1>3 DEF Legal, KnownOf

LEMMA StartCallLearns ==
    ASSUME EndedInv, StartCall
    PROVE  Learned({})
<1> DEFINE p == [page EXCEPT !.call = [id |-> None, status |-> "connecting"]]
           x == [kind |-> "start", at |-> IF socketOpen THEN "mic" ELSE "socket", call |-> None]
           t == tasks \union {x}
<1>1. p \in ClientPage /\ p.call = [id |-> None, status |-> "connecting"]
      /\ p.terminal = page.terminal
  BY DEF EndedInv, ClientTypes, ClientPage, Call, Status
<1>2. x \in Task /\ x.call = None
  BY DEF Task
<1>3. Move(p, t, <<>>)
  BY DEF StartCall
<1> HIDE DEF p, x
<1>4. t \in SUBSET Task /\ \A y \in t : y.call \in Known \union {None}
  BY <1>2, IdsAreKnown DEF EndedInv, ClientTypes
<1>5. None \notin p.terminal
  BY <1>1, CallClientConstants DEF EndedInv, ClientTypes, ClientPage, CallId
<1>6. Calm(p, t)
  BY <1>1, <1>5 DEF Calm, Live, Over
<1>7. AtMostOne(<<>>, {})
  BY DEF AtMostOne
<1>8. p.terminal \subseteq Known
  BY <1>1, TerminalIsKnown DEF EndedInv
<1>9. QED
  BY <1>1, <1>3, <1>4, <1>6, <1>7, <1>8, QuietIsLegal, MoveLearns

LEMMA SocketUnavailableLearns ==
    ASSUME EndedInv, NEW x, SocketUnavailable(x)
    PROVE  Learned({})
<1>1. Fail(page, tasks \ {x})
  BY DEF SocketUnavailable
<1>2. QED
  BY <1>1, FailLearns, IdsAreKnown, TerminalIsKnown DEF EndedInv, ClientTypes

LEMMA AcceptCallLearns ==
    ASSUME EndedInv, AcceptCall
    PROVE  Learned({})
<1> DEFINE c == page.call.id
           q == [page.call EXCEPT !.status = "connecting"]
           p == [page EXCEPT !.call = q]
           x == [kind |-> "accept", at |-> "mic", call |-> c]
<1>0. q \in Call /\ q.id = c /\ Live(q)
  BY DEF EndedInv, ClientTypes, ClientPage, Call, Status, NoCall, Live, Over, AcceptCall
<1>1. p \in ClientPage /\ p.call.id = c /\ p.terminal = page.terminal /\ Live(p.call)
  <2> HIDE DEF q
  <2> QED BY <1>0 DEF EndedInv, ClientTypes, ClientPage
<1>2. x \in Task /\ x.call = c
  <2>1. page.call.status = "incoming" /\ page.call \in Call
    BY DEF AcceptCall, EndedInv, ClientTypes, ClientPage
  <2>2. c \in CallId
    BY <2>1 DEF Call, NoCall
  <2>3. QED
    BY <2>2 DEF Task
<1>3. Move(p, tasks \union {x}, <<>>) /\ Live(page.call)
  BY DEF AcceptCall, Live, Over, EndedInv, ClientTypes, ClientPage
<1> HIDE DEF p, q, x
<1>4. tasks \union {x} \in SUBSET Task
      /\ \A y \in tasks \union {x} : y.call \in Known \union {} \union {None}
  BY <1>2, IdsAreKnown DEF EndedInv, ClientTypes
<1>5. AtMostOne(<<>>, {})
  BY DEF AtMostOne
<1>6. QED
  BY <1>1, <1>3, <1>4, <1>5, SameIsLegal, MoveLearns DEF Live

LEMMA HangUpLearns ==
    ASSUME EndedInv, HangUp
    PROVE  Learned({})
<1> DEFINE c == page.call.id
           k == IF page.call.status = "incoming" THEN "reject" ELSE "end"
           r == Released(page)
           s == page.terminal \union ({c} \ {None})
           p == [r EXCEPT !.call = NoCall, !.socketTimer = FALSE, !.terminal = s]
<1>1. r \in ClientPage /\ r.terminal = page.terminal
  BY ReleasedDoes DEF SameCall, EndedInv, ClientTypes
<1>2. s \subseteq Known /\ s \in SUBSET CallId
  BY TerminalIsKnown, IdsAreKnown DEF EndedInv, ClientTypes, ClientPage, Call, NoCall
<1>3. Move(p, tasks, Ending(page, k, c))
  BY <1>1 DEF HangUp, ClientPage
<1>4. AtMostOne(Ending(page, k, c), {})
  BY EndingIsLegal, IdsAreKnown DEF EndedInv, ClientTypes, ClientPage, Call, NoCall
<1> HIDE DEF r, s
<1>5. p \in ClientPage /\ p.call = NoCall /\ p.terminal = s
  BY <1>1, <1>2 DEF ClientPage, Call
<1> HIDE DEF p
<1>6. QED
  BY <1>2, <1>3, <1>4, <1>5, LeftIsLegal, MoveLearns

LEMMA DismissCallLearns ==
    ASSUME EndedInv, DismissCall
    PROVE  Learned({})
<1> DEFINE r == Released(page)
           p == [r EXCEPT !.call = NoCall, !.socketTimer = FALSE]
<1>1. r \in ClientPage /\ r.terminal = page.terminal
  BY ReleasedDoes DEF SameCall, EndedInv, ClientTypes
<1>2. Move(p, tasks, <<>>)
  BY DEF DismissCall
<1>3. AtMostOne(<<>>, {})
  BY DEF AtMostOne
<1> HIDE DEF r
<1>4. p \in ClientPage /\ p.call = NoCall /\ p.terminal = page.terminal
  BY <1>1 DEF ClientPage, Call
<1> HIDE DEF p
<1>5. QED
  BY <1>2, <1>3, <1>4, LeftIsLegal, MoveLearns, TerminalIsKnown DEF EndedInv

-----------------------------------------------------------------------------

LEMMA MicOpensLearns ==
    ASSUME EndedInv, NEW x, MicOpens(x)
    PROVE  Learned({})
<1> DEFINE p == Opened(page)
           t == tasks \ {x}
           y == [x EXCEPT !.at = "ack"]
<1>1. x \in tasks /\ x \in Task /\ x.call \in Known \union {None}
  BY IdsAreKnown DEF MicOpens, EndedInv, ClientTypes
<1>2. SameCall(page, p)
  BY OpenedDoes DEF EndedInv, ClientTypes
<1>3. x.kind \in {"start", "accept"} => y \in Task /\ y.call = x.call /\ y.kind = x.kind
  BY <1>1 DEF Task
<1>4. t \in SUBSET Task /\ \A z \in t : z.call \in Known \union {None}
  BY IdsAreKnown DEF EndedInv, ClientTypes
<1>5. x.kind \in {"start", "accept"} =>
         t \union {y} \in SUBSET Task /\ \A z \in t \union {y} : z.call \in Known \union {None}
  BY <1>1, <1>3, <1>4
<1>6. page.terminal \subseteq Known /\ None \notin page.terminal
  BY TerminalIsKnown, CallClientConstants DEF EndedInv, ClientTypes, ClientPage, CallId
<1>7. x.kind \in {"start", "accept", "sync", "restore", "offer"}
      /\ x.call \in CallId \union {None}
  BY <1>1 DEF Task
<1> HIDE DEF p, y
<1>8. ASSUME NEW q \in ClientPage, SameCall(page, q)
      PROVE  Legal(q, t, <<>>, {})
  <2>1. q.call.id = page.call.id /\ q.terminal = page.terminal /\ q.call = page.call
    BY <1>8 DEF SameCall
  <2>2. AtMostOne(<<>>, {})
    BY DEF AtMostOne
  <2>3. Over(q.call) \/ Live(page.call)
    BY <2>1 DEF Live
  <2>4. \A z \in t : z.kind = "accept" => z \in tasks
    OBVIOUS
  <2> HIDE DEF t
  <2>5. QED
    BY <1>4, <2>1, <2>2, <2>3, <2>4, SameIsLegal
<1>9. SameCall(page, NewPeer(p))
  BY <1>2, NewPeerDoes DEF SameCall
<1>10. CASE x.kind = "start"
  <2> DEFINE q == [p EXCEPT !.call = [id |-> None, status |-> "calling"]]
  <2>1. Move(q, t \union {y}, <<Msg("start", None)>>)
    BY <1>10 DEF MicOpens, p, y
  <2>2. q \in ClientPage /\ q.terminal = page.terminal /\ q.call.id = None /\ Live(q.call)
    BY <1>2 DEF SameCall, ClientPage, Call, Status, Live, Over
  <2>3. AtMostOne(<<Msg("start", None)>>, {})
    <3>1. Msg("start", None) \in Packet /\ Msg("start", None).call = None
      BY DEF Msg, Packet
    <3>2. QED
      BY <3>1 DEF AtMostOne
  <2> HIDE DEF q, t
  <2>4. Calm(q, t \union {y})
    BY <1>6, <2>2 DEF Calm, Live
  <2>5. QED
    BY <1>5, <1>6, <1>10, <2>1, <2>2, <2>3, <2>4, QuietIsLegal, MoveLearns
<1>11. CASE x.kind = "accept"
  <2> DEFINE q == NewPeer(p)
  <2>1. Move(q, t \union {y}, <<Msg("accept", x.call)>>)
    BY <1>11 DEF MicOpens, p, y
  <2>2. q \in ClientPage /\ q.call = page.call /\ q.terminal = page.terminal
    BY <1>9 DEF SameCall
  <2>3. AtMostOne(<<Msg("accept", x.call)>>, {})
    <3>1. x.call \in CallId
      BY <1>1, <1>11 DEF Task
    <3>2. Msg("accept", x.call) \in Packet /\ Msg("accept", x.call).call = x.call
      BY <3>1 DEF Msg, Packet
    <3>3. QED
      BY <1>1, <3>2 DEF AtMostOne
  <2>4. CallIsSound(page, tasks) => Live(page.call)
    BY <1>1, <1>11 DEF CallIsSound
  <2> HIDE DEF q, t
  <2>5. CallIsSound(page, tasks) => ~Over(q.call)
    BY <2>2, <2>4 DEF Live
  <2>6. Legal(q, t \union {y}, <<Msg("accept", x.call)>>, {})
    BY <1>5, <1>11, <2>2, <2>3, <2>4, <2>5, SameIsLegal
  <2>7. QED
    BY <2>1, <2>6, MoveLearns
<1>12. CASE x.kind = "sync"
  <2>1. Move(p, t, <<>>)
    BY <1>12 DEF MicOpens, p
  <2>2. QED
    BY <1>2, <1>8, <2>1, MoveLearns DEF SameCall
<1>13. CASE x.kind = "restore"
  <2>1. AfterSync(p, t, x.call)
    BY <1>13 DEF MicOpens, p
  <2>2. QED
    BY <1>1, <1>2, <1>7, <1>8, <2>1, AfterSyncLearns DEF SameCall
<1>14. CASE x.kind = "offer"
  <2>1. AnswerOffer(NewPeer(p), t, x.call)
    BY <1>14 DEF MicOpens, p
  <2>2. Legal(NewPeer(p), t, <<>>, {})
    BY <1>8, <1>9 DEF SameCall
  <2>3. QED
    BY <1>1, <1>7, <2>1, <2>2, AnswerLearns
<1>15. QED
  BY <1>7, <1>10, <1>11, <1>12, <1>13, <1>14

\* A page whose call is over.
LEMMA FinishedIsLegal ==
    ASSUME EndedInv, NEW p \in ClientPage, NEW t \in SUBSET tasks, NEW m,
           NEW L \in SUBSET (CallId \union {None}), NEW s \in {"ended", "failed"}, AtMostOne(m, L),
           p.call.id \in Known \union {None}, p.terminal \subseteq Known \union L
    PROVE  Legal(Finished(p, s), t, m, L)
<1> DEFINE f == Finished(p, s)
<1>1. /\ f \in ClientPage
      /\ Over(f.call)
      /\ f.call.id = p.call.id
      /\ f.terminal = p.terminal \union ({p.call.id} \ {None})
  BY FinishedDoes
<1>2. t \in SUBSET Task /\ \A x \in t : x.call \in Known \union {None}
  BY IdsAreKnown DEF EndedInv, ClientTypes
<1> HIDE DEF f
<1>3. Calm(f, t)
  BY <1>1 DEF Calm, Live
<1>4. KnownOf(f, t) \subseteq Known \union L
  BY <1>1, <1>2 DEF KnownOf
<1>5. Legal(f, t, m, L)
  BY <1>1, <1>2, <1>3, <1>4 DEF Legal
<1>6. QED
  BY <1>5 DEF f

LEMMA MicFailsLearns ==
    ASSUME EndedInv, NEW x, MicFails(x)
    PROVE  Learned({})
<1>1. x \in tasks /\ x.call \in Known \union {None} /\ page.call.id \in Known \union {None}
      /\ page.terminal \subseteq Known
  BY IdsAreKnown, TerminalIsKnown DEF MicFails, EndedInv
<1>2. CASE x.kind = "accept"
  <2> DEFINE s == page.terminal \union {x.call}
             q == [page EXCEPT !.terminal = s]
  <2>1. Move(Finished(q, "failed"), tasks \ {x}, Ending(page, "reject", x.call))
    BY <1>2 DEF MicFails, EndedInv, ClientTypes, ClientPage
  <2>2. x.call \in CallId
    BY <1>1, <1>2 DEF Task, EndedInv, ClientTypes
  <2>3. AtMostOne(Ending(page, "reject", x.call), {})
    BY <1>1, <2>2, EndingIsLegal DEF EndedInv
  <2>4. q \in ClientPage /\ q.call = page.call /\ q.terminal = s
    BY <2>2 DEF EndedInv, ClientTypes, ClientPage
  <2> HIDE DEF q, s
  <2>5. s \subseteq Known
    BY <1>1, <2>2, CallClientConstants DEF CallId, s
  <2>6. QED
    BY <1>1, <2>1, <2>3, <2>4, <2>5, FinishedIsLegal, MoveLearns
<1>3. CASE x.kind # "accept"
  <2>1. Fail(page, tasks \ {x})
    BY <1>3 DEF MicFails
  <2>2. QED
    BY <1>1, <2>1, FailLearns DEF EndedInv, ClientTypes
<1>4. QED
  BY <1>2, <1>3

-----------------------------------------------------------------------------

LEMMA PeerConnectsLearns ==
    ASSUME EndedInv, PeerConnects
    PROVE  Learned({})
<1> DEFINE s == IF page.call = NoCall THEN page.call.status ELSE "active"
           showing == [page.call EXCEPT !.status = s]
           p == [page EXCEPT !.conn = "connected", !.peerTimer = FALSE, !.call = showing]
<1>1. showing \in Call /\ showing.id = page.call.id
  BY DEF EndedInv, ClientTypes, ClientPage, Call, Status, NoCall
<1>2. Move(p, tasks, <<>>)
  BY DEF PeerConnects, EndedInv, ClientTypes, ClientPage
<1> HIDE DEF showing
<1>3. p \in ClientPage /\ p.call.id = page.call.id /\ p.terminal = page.terminal
  BY <1>1 DEF EndedInv, ClientTypes, ClientPage
<1>4. AtMostOne(<<>>, {})
  BY DEF AtMostOne
<1> HIDE DEF p
<1>5. Legal(p, tasks, <<>>, {})
  BY <1>3, <1>4, IdsAreKnown, SameIsLegal DEF EndedInv, ClientTypes
<1>6. QED
  BY <1>2, <1>5, MoveLearns

LEMMA PeerDropsLearns ==
    ASSUME EndedInv, PeerDrops
    PROVE  Learned({})
<1> DEFINE showing == [page.call EXCEPT !.status = "reconnecting"]
           p == [page EXCEPT !.conn = "down", !.peerTimer = TRUE, !.call = showing]
           q == [page EXCEPT !.conn = "down"]
           m == <<Msg("recover", page.call.id)>>
<1>1. SameCall(page, q)
  BY DEF EndedInv, ClientTypes, ClientPage, SameCall
<1>2. ~Over(page.call) => showing \in Call /\ showing.id = page.call.id
  BY DEF EndedInv, ClientTypes, ClientPage, Call, Status, NoCall, Over
<1>3. \/ Move(q, tasks, <<>>)
      \/ ~Over(page.call) /\ (RestartConnection(p, tasks) \/ Move(p, tasks, <<>>) \/ Move(p, tasks, m))
  BY DEF PeerDrops, EndedInv, ClientTypes, ClientPage
<1> HIDE DEF showing
<1>4. ~Over(page.call) =>
         p \in ClientPage /\ p.call.id = page.call.id /\ p.terminal = page.terminal
  BY <1>2 DEF EndedInv, ClientTypes, ClientPage
<1> HIDE DEF p, q
<1>5. AtMostOne(<<>>, {})
  BY DEF AtMostOne
<1>6. AtMostOne(m, {})
  <2>1. page.call.id \in CallId \union {None} /\ page.call.id \in Known \union {None}
    BY IdsAreKnown DEF EndedInv, ClientTypes, ClientPage, Call, NoCall
  <2>2. Msg("recover", page.call.id) \in Packet /\ Msg("recover", page.call.id).call = page.call.id
    BY <2>1 DEF Msg, Packet
  <2>3. QED
    BY <2>1, <2>2 DEF AtMostOne
<1> HIDE DEF m
<1>7. tasks \in SUBSET Task /\ \A x \in tasks : x.call \in Known \union {None}
  BY IdsAreKnown DEF EndedInv, ClientTypes
<1>8. CASE Move(q, tasks, <<>>)
  <2>1. Legal(q, tasks, <<>>, {})
    BY <1>1, <1>5, <1>7, SameIsLegal DEF SameCall
  <2>2. QED
    BY <1>8, <2>1, MoveLearns
<1>9. CASE ~Over(page.call) /\ (RestartConnection(p, tasks) \/ Move(p, tasks, <<>>) \/ Move(p, tasks, m))
  <2>1. Legal(p, tasks, <<>>, {})
    BY <1>4, <1>5, <1>7, <1>9, SameIsLegal
  <2>2. Legal(p, tasks, m, {})
    BY <1>4, <1>6, <1>7, <1>9, SameIsLegal
  <2>3. QED
    BY <1>9, <2>1, <2>2, MoveLearns, RestartLearns
<1>10. QED
  BY <1>3, <1>8, <1>9

LEMMA PeerTimerFiresLearns ==
    ASSUME EndedInv, PeerTimerFires
    PROVE  Learned({})
<1> DEFINE p == [page EXCEPT !.peerTimer = FALSE]
<1>1. SameCall(page, p)
  BY DEF EndedInv, ClientTypes, ClientPage, SameCall
<1>2. Move(p, tasks, <<>>) \/ Fail(page, tasks)
  BY DEF PeerTimerFires
<1> HIDE DEF p
<1>3. CASE Move(p, tasks, <<>>)
  <2>1. AtMostOne(<<>>, {})
    BY DEF AtMostOne
  <2>2. Legal(p, tasks, <<>>, {})
    BY <1>1, <2>1, IdsAreKnown, SameIsLegal DEF SameCall, EndedInv, ClientTypes
  <2>3. QED
    BY <1>3, <2>2, MoveLearns
<1>4. CASE Fail(page, tasks)
  BY <1>4, FailLearns, IdsAreKnown, TerminalIsKnown DEF EndedInv, ClientTypes
<1>5. QED
  BY <1>2, <1>3, <1>4

LEMMA SocketTimerFiresLearns ==
    ASSUME EndedInv, SocketTimerFires
    PROVE  Learned({})
<1>1. AtMostOne(<<>>, {})
  BY DEF AtMostOne
<1>2. Move(Finished(page, "failed"), tasks, <<>>)
  BY DEF SocketTimerFires
<1>3. Legal(Finished(page, "failed"), tasks, <<>>, {})
  BY <1>1, FinishedIsLegal, IdsAreKnown, TerminalIsKnown DEF EndedInv, ClientTypes
<1>4. QED
  BY <1>2, <1>3, MoveLearns

LEMMA SocketOpensLearns ==
    ASSUME EndedInv, SocketOpens
    PROVE  Learned({})
<1> DEFINE sync == [kind |-> "sync", at |-> "ack", call |-> None]
           t == {IF x.at = "socket" THEN [x EXCEPT !.at = "mic"] ELSE x : x \in tasks}
                  \union {sync}
<1>1. ASSUME NEW y \in t
      PROVE  /\ y \in Task /\ y.call \in Known \union {None}
             /\ y.kind = "accept" => y \in tasks
  <2>1. CASE y = sync
    BY <2>1 DEF Task
  <2>2. CASE y # sync
    <3>1. PICK x \in tasks : y = IF x.at = "socket" THEN [x EXCEPT !.at = "mic"] ELSE x
      BY <2>2
    <3>2. x \in Task /\ x.call \in Known \union {None}
      BY IdsAreKnown DEF EndedInv, ClientTypes
    <3>3. CASE x.at = "socket"
      BY <3>1, <3>2, <3>3 DEF Task
    <3>4. CASE x.at # "socket"
      BY <3>1, <3>2, <3>4
    <3>5. QED
      BY <3>3, <3>4
  <2>3. QED
    BY <2>1, <2>2
<1>2. Move(page, t, <<Msg("sync", None)>>)
  BY DEF SocketOpens
<1>3. AtMostOne(<<Msg("sync", None)>>, {})
  <2>1. Msg("sync", None) \in Packet /\ Msg("sync", None).call = None
    BY DEF Msg, Packet
  <2>2. QED
    BY <2>1 DEF AtMostOne
<1> HIDE DEF t
<1>4. t \in SUBSET Task /\ \A x \in t : x.call \in Known \union {} \union {None}
  BY <1>1
<1>5. page \in ClientPage
  BY DEF EndedInv, ClientTypes
<1>6. Over(page.call) \/ Live(page.call)
  BY DEF Live
<1>7. Legal(page, t, <<Msg("sync", None)>>, {})
  BY <1>1, <1>3, <1>4, <1>5, <1>6, SameIsLegal
<1>8. QED
  BY <1>2, <1>7, MoveLearns

\* A step in which packets are lost.
LEMMA LosingLearns ==
    ASSUME EndedInv, Legal(page', tasks', <<>>, {}),
           overtaken' = (overtaken \/ Overtakes(page', tasks', <<>>)),
           toBackend' \in Seq(Packet),
           \A c \in CallId : Mentions(toBackend', c) => Mentions(toBackend, c)
    PROVE  Learned({})
<1>1. overtaken' \in BOOLEAN
  OBVIOUS
<1>2. ASSUME ~overtaken' PROVE ~overtaken /\ CallIsSound(page', tasks')
  <2>1. ~overtaken /\ ~Overtakes(page', tasks', <<>>)
    BY <1>2
  <2>2. QED
    BY <2>1, CalmIsSound DEF EndedInv, Legal
<1>3. QED
  BY <1>1, <1>2 DEF Learned, Legal

LEMMA SocketClosesLearns ==
    ASSUME EndedInv, SocketCloses
    PROVE  Learned({})
<1> DEFINE waiting == {x \in tasks : x.at = "ack"}
           showing == [page.call EXCEPT !.status = "reconnecting"]
           p == IF Over(page.call) THEN page
                ELSE [page EXCEPT !.call = showing, !.socketTimer = TRUE]
           s == page.terminal \union {x.call : x \in {y \in waiting : y.kind = "accept"}}
           q == [p EXCEPT !.terminal = s]
<1>1. ~Over(page.call) => showing \in Call /\ showing.id = page.call.id
  BY DEF EndedInv, ClientTypes, ClientPage, Call, Status, NoCall, Over
<1> HIDE DEF showing
<1>2. p \in ClientPage /\ p.call.id = page.call.id /\ p.terminal = page.terminal
      /\ (Over(p.call) \/ Live(page.call))
  BY <1>1 DEF EndedInv, ClientTypes, ClientPage, Live
<1>3. page' = (IF waiting = {} THEN p ELSE Finished(q, "failed")) /\ tasks' = tasks \ waiting
  BY <1>2 DEF SocketCloses, EndedInv, ClientTypes, ClientPage, showing
<1>4. AtMostOne(<<>>, {})
  BY DEF AtMostOne
<1>5. tasks' \in SUBSET Task /\ \A x \in tasks' : x.call \in Known \union {} \union {None}
  BY <1>3, IdsAreKnown DEF EndedInv, ClientTypes
<1>6. tasks' \subseteq tasks
  BY <1>3
<1>7. s \subseteq Known /\ s \in SUBSET CallId
  <2>1. ASSUME NEW x \in tasks, x.kind = "accept" PROVE x.call \in CallId /\ x.call \in Known
    <3>1. x.call \in CallId
      BY <2>1 DEF EndedInv, ClientTypes, Task
    <3>2. QED
      BY <3>1, IdsAreKnown, CallClientConstants DEF EndedInv, CallId
  <2>2. QED
    BY <2>1, TerminalIsKnown DEF EndedInv, ClientTypes, ClientPage
<1> HIDE DEF p, s
<1>8. q \in ClientPage /\ q.call.id = page.call.id /\ q.terminal = s
  BY <1>2, <1>7 DEF ClientPage
<1> HIDE DEF q
<1>9. Legal(page', tasks', <<>>, {})
  <2>1. CASE waiting = {}
    <3>1. page' = p
      BY <1>3, <2>1
    <3> HIDE DEF waiting
    <3>2. QED
      BY <1>2, <1>4, <1>5, <1>6, <3>1, SameIsLegal
  <2>2. CASE waiting # {}
    <3>1. page' = Finished(q, "failed")
      BY <1>3, <2>2
    <3> HIDE DEF waiting
    <3>2. QED
      BY <1>4, <1>6, <1>7, <1>8, <3>1, IdsAreKnown, FinishedIsLegal DEF EndedInv
  <2>3. QED
    BY <2>1, <2>2
<1>10. toBackend' = <<>> /\ overtaken' = (overtaken \/ Overtakes(page', tasks', <<>>))
  BY DEF SocketCloses
<1>11. toBackend' \in Seq(Packet) /\ \A c \in CallId : ~Mentions(toBackend', c)
  BY <1>10 DEF Mentions
<1>12. QED
  BY <1>9, <1>10, <1>11, LosingLearns

LEMMA WithdrawnDoes ==
    ASSUME NEW m, toBackend \in Seq(Packet)
    PROVE  /\ Withdrawn(m) \in Seq(Packet)
           /\ \A c : Mentions(Withdrawn(m), c) => Mentions(toBackend, c)
<1> DEFINE at == CHOOSE i \in DOMAIN toBackend : toBackend[i] = m
           l == SubSeq(toBackend, 1, at - 1)
           r == SubSeq(toBackend, at + 1, Len(toBackend))
<1>1. CASE \E i \in DOMAIN toBackend : toBackend[i] = m
  <2>1. at \in 1 .. Len(toBackend)
    BY <1>1
  <2>2. Withdrawn(m) = l \o r
    BY <1>1 DEF Withdrawn, RemoveAt
  <2> HIDE DEF at
  <2>3. l \in Seq(Packet) /\ r \in Seq(Packet)
    BY <2>1
  <2>4. ASSUME NEW c, Mentions(l, c) PROVE Mentions(toBackend, c)
    <3>1. PICK i \in DOMAIN l : l[i].call = c
      BY <2>4 DEF Mentions
    <3>2. i \in DOMAIN toBackend /\ toBackend[i] = l[i]
      BY <2>1, <3>1
    <3>3. QED
      BY <3>1, <3>2 DEF Mentions
  <2>5. ASSUME NEW c, Mentions(r, c) PROVE Mentions(toBackend, c)
    <3>1. PICK i \in DOMAIN r : r[i].call = c
      BY <2>5 DEF Mentions
    <3>2. i + at \in DOMAIN toBackend /\ toBackend[i + at] = r[i]
      BY <2>1, <3>1
    <3>3. QED
      BY <3>1, <3>2 DEF Mentions
  <2> HIDE DEF l, r
  <2>6. QED
    BY <2>2, <2>3, <2>4, <2>5, MentionsOfConcat
<1>2. CASE ~\E i \in DOMAIN toBackend : toBackend[i] = m
  BY <1>2 DEF Withdrawn
<1>3. QED
  BY <1>1, <1>2

LEMMA AckTimesOutLearns ==
    ASSUME EndedInv, NEW x, AckTimesOut(x)
    PROVE  Learned({})
<1> DEFINE s == page.terminal \union ({x.call} \ {None})
           p == [page EXCEPT !.terminal = s]
<1>1. x \in tasks /\ x.call \in Known \union {None} /\ x.call \in CallId \union {None}
  BY IdsAreKnown DEF AckTimesOut, EndedInv, ClientTypes, Task
<1>2. s \subseteq Known /\ s \in SUBSET CallId
  BY <1>1, TerminalIsKnown DEF EndedInv, ClientTypes, ClientPage
<1>3. page' = Finished(p, "failed") /\ tasks' = tasks \ {x}
  BY DEF AckTimesOut, EndedInv, ClientTypes, ClientPage
<1> HIDE DEF s
<1>4. p \in ClientPage /\ p.call.id = page.call.id /\ p.terminal = s
  BY <1>2 DEF EndedInv, ClientTypes, ClientPage
<1> HIDE DEF p
<1>5. AtMostOne(<<>>, {})
  BY DEF AtMostOne
<1>6. Legal(page', tasks', <<>>, {})
  BY <1>2, <1>3, <1>4, <1>5, IdsAreKnown, FinishedIsLegal DEF EndedInv
<1>7. toBackend' \in Seq(Packet) /\ \A c : Mentions(toBackend', c) => Mentions(toBackend, c)
  BY WithdrawnDoes DEF AckTimesOut, EndedInv, ClientTypes
<1>8. QED
  BY <1>6, <1>7, LosingLearns DEF AckTimesOut

-----------------------------------------------------------------------------

\* A page whose call is the one it has shown, with some tasks done.
LEMMA ShownIsLegal ==
    ASSUME EndedInv, NEW p, SameCall(page, p), NEW t \in SUBSET tasks, NEW m,
           NEW L \in SUBSET (CallId \union {None}), AtMostOne(m, L)
    PROVE  Legal(p, t, m, L)
<1>1. p \in ClientPage /\ p.call.id = page.call.id /\ p.terminal = page.terminal
      /\ (Over(p.call) \/ Live(page.call))
  BY DEF SameCall, Live
<1>2. t \in SUBSET Task /\ \A x \in t : x.call \in Known \union L \union {None}
  BY IdsAreKnown DEF EndedInv, ClientTypes
<1>3. QED
  BY <1>1, <1>2, SameIsLegal

LEMMA PageIsItself ==
    ASSUME ClientTypes
    PROVE  SameCall(page, page) /\ tasks \in SUBSET Task
BY DEF SameCall, ClientTypes

LEMMA OnEndedLearns ==
    ASSUME EndedInv, NEW c \in CallId, OnEnded(c)
    PROVE  Learned({c})
<1>1. AtMostOne(<<>>, {c})
  BY EmptyIsLegal
<1>2. Legal(page, tasks, <<>>, {c})
  BY <1>1, ShownIsLegal, PageIsItself DEF EndedInv
<1>3. Legal(Finished(page, "ended"), tasks, <<>>, {c})
  BY <1>1, FinishedIsLegal, IdsAreKnown, TerminalIsKnown DEF EndedInv, ClientTypes
<1>4. QED
  BY <1>2, <1>3, MoveLearns DEF OnEnded

LEMMA OnDismissedLearns ==
    ASSUME EndedInv, NEW c \in CallId, OnDismissed(c)
    PROVE  Learned({c})
<1> DEFINE r == Released(page)
           s == page.terminal \union {c}
           p == [r EXCEPT !.call = NoCall, !.socketTimer = FALSE, !.terminal = s]
<1>1. r \in ClientPage /\ r.terminal = page.terminal
  BY ReleasedDoes DEF SameCall, EndedInv, ClientTypes
<1>2. s \subseteq Known \union {c} /\ s \in SUBSET CallId
  BY TerminalIsKnown DEF EndedInv, ClientTypes, ClientPage
<1>3. Move(page, tasks, <<>>) \/ Move(p, tasks, <<>>)
  BY <1>1 DEF OnDismissed, ClientPage
<1> HIDE DEF r, s
<1>4. p \in ClientPage /\ p.call = NoCall /\ p.terminal = s
  BY <1>1, <1>2 DEF ClientPage, Call
<1> HIDE DEF p
<1>5. Legal(page, tasks, <<>>, {c})
  BY EmptyIsLegal, ShownIsLegal, PageIsItself DEF EndedInv
<1>6. Legal(p, tasks, <<>>, {c})
  BY <1>2, <1>4, EmptyIsLegal, LeftIsLegal
<1>7. QED
  BY <1>3, <1>5, <1>6, MoveLearns

\* A page that shows call c from now on.
LEMMA NewCallIsLegal ==
    ASSUME EndedInv, NEW c \in CallId, NEW p, NEW t \in SUBSET Task, NEW m, AtMostOne(m, {c}),
           p \in ClientPage, p.call.id = c, Live(p.call), p.terminal = page.terminal,
           c \notin p.terminal, \A x \in t : x.call \in Known \union {c, None}
    PROVE  Legal(p, t, m, {c})
<1>1. Calm(p, t)
  BY DEF Calm, Live
<1>2. KnownOf(p, t) \subseteq Known \union {c}
  BY TerminalIsKnown DEF KnownOf, EndedInv
<1>3. QED
  BY <1>1, <1>2 DEF Legal

LEMMA OnIncomingLearns ==
    ASSUME EndedInv, NEW c \in CallId, c \notin Known, OnIncoming(c)
    PROVE  Learned({c})
<1> DEFINE p == [page EXCEPT !.call = [id |-> c, status |-> "incoming"]]
<1>1. p \in ClientPage /\ p.call.id = c /\ Live(p.call) /\ p.terminal = page.terminal
  BY DEF EndedInv, ClientTypes, ClientPage, Call, Status, Live, Over
<1>2. Move(page, tasks, <<Msg("reject", c)>>) \/ Move(p, tasks, <<>>)
  BY DEF OnIncoming
<1> HIDE DEF p
<1>3. Legal(page, tasks, <<Msg("reject", c)>>, {c})
  BY OneIsLegal, ShownIsLegal, PageIsItself DEF EndedInv
<1>4. c \notin p.terminal
  BY <1>1, TerminalIsKnown DEF EndedInv
<1>5. Legal(p, tasks, <<>>, {c})
  BY <1>1, <1>4, EmptyIsLegal, NewCallIsLegal, IdsAreKnown, PageIsItself DEF EndedInv
<1>6. QED
  BY <1>2, <1>3, <1>5, MoveLearns

LEMMA OnAcceptedLearns ==
    ASSUME EndedInv, NEW c \in CallId, OnAccepted(c)
    PROVE  Learned({c})
<1> DEFINE n == NewPeer(page)
           showing == [page.call EXCEPT !.status = "connecting"]
           p == [n EXCEPT !.call = showing, !.offered = TRUE]
<1>1. n \in ClientPage /\ n.call = page.call /\ n.terminal = page.terminal
  BY NewPeerDoes DEF SameCall, EndedInv, ClientTypes
<1>2. page.call.id = c => showing \in Call /\ showing.id = page.call.id
  BY CallClientConstants DEF EndedInv, ClientTypes, ClientPage, Call, Status, NoCall, CallId
<1>3. Move(page, tasks, <<>>) \/ (page.call.id = c /\ Move(p, tasks, <<Msg("offer", c)>>))
  BY <1>1 DEF OnAccepted, ClientPage
<1> HIDE DEF n, showing
<1>4. page.call.id = c => p \in ClientPage /\ p.call.id = page.call.id /\ p.terminal = page.terminal
  BY <1>1, <1>2 DEF ClientPage
<1> HIDE DEF p
<1>5. Legal(page, tasks, <<>>, {c})
  BY EmptyIsLegal, ShownIsLegal, PageIsItself DEF EndedInv
<1>6. page.call.id = c => Legal(p, tasks, <<Msg("offer", c)>>, {c})
  BY <1>4, OneIsLegal, SameIsLegal, IdsAreKnown, PageIsItself DEF EndedInv
<1>7. QED
  BY <1>3, <1>5, <1>6, MoveLearns

LEMMA OnOfferLearns ==
    ASSUME EndedInv, NEW c \in CallId, OnOffer(c)
    PROVE  Learned({c})
<1> DEFINE x == [kind |-> "offer", at |-> "mic", call |-> c]
           t == tasks \union {x}
<1>1. \/ Move(page, tasks, <<>>) \/ AnswerOffer(page, tasks, c) \/ AnswerOffer(NewPeer(page), tasks, c)
      \/ Move(page, t, <<>>) /\ page.call.id = c
  BY DEF OnOffer
<1>2. x \in Task /\ x.call = c /\ x.kind # "accept"
  BY DEF Task
<1> HIDE DEF x
<1>3. /\ t \in SUBSET Task
      /\ \A y \in t : y.call \in Known \union {c} \union {None}
      /\ \A y \in t : y.kind = "accept" => y \in tasks
  BY <1>2, IdsAreKnown DEF EndedInv, ClientTypes
<1> HIDE DEF t
<1>4. Legal(page, tasks, <<>>, {c})
  BY EmptyIsLegal, ShownIsLegal, PageIsItself DEF EndedInv
<1>5. Legal(NewPeer(page), tasks, <<>>, {c})
  BY EmptyIsLegal, ShownIsLegal, PageIsItself, NewPeerDoes DEF EndedInv, ClientTypes
<1>6. Over(page.call) \/ Live(page.call)
  BY DEF Live
<1>7. Legal(page, t, <<>>, {c})
  BY <1>3, <1>6, EmptyIsLegal, SameIsLegal, PageIsItself DEF EndedInv, ClientTypes
<1>8. QED
  BY <1>1, <1>4, <1>5, <1>7, MoveLearns, AnswerLearns

LEMMA OnAnswerLearns ==
    ASSUME EndedInv, NEW c \in CallId, OnAnswer(c)
    PROVE  Learned({c})
<1> DEFINE n == IF page.conn = "new" THEN "checking" ELSE page.conn
           p == [page EXCEPT !.offered = FALSE, !.conn = n]
<1>1. n \in {"none", "new", "checking", "connected", "down"}
  BY DEF EndedInv, ClientTypes, ClientPage
<1>2. Move(page, tasks, <<>>) \/ Fail(page, tasks) \/ Move(p, tasks, <<>>)
  BY DEF OnAnswer
<1> HIDE DEF n
<1>3. SameCall(page, p)
  BY <1>1 DEF EndedInv, ClientTypes, ClientPage, SameCall
<1> HIDE DEF p
<1>4. Legal(page, tasks, <<>>, {c}) /\ Legal(p, tasks, <<>>, {c})
  BY <1>3, EmptyIsLegal, ShownIsLegal, PageIsItself DEF EndedInv
<1>5. CASE Fail(page, tasks)
  <2>1. Learned({})
    BY <1>5, FailLearns, IdsAreKnown, TerminalIsKnown DEF EndedInv, ClientTypes
  <2>2. QED
    BY <2>1 DEF Learned
<1>6. QED
  BY <1>2, <1>4, <1>5, MoveLearns

LEMMA OnRecoveryNeededLearns ==
    ASSUME EndedInv, NEW c \in CallId, OnRecoveryNeeded(c)
    PROVE  Learned({c})
<1>1. Legal(page, tasks, <<>>, {c})
  BY EmptyIsLegal, ShownIsLegal, PageIsItself DEF EndedInv
<1>2. QED
  BY <1>1, MoveLearns, RestartLearns DEF OnRecoveryNeeded

LEMMA OnStartedLearns ==
    ASSUME EndedInv, NEW c \in CallId, c \notin Known, OnStarted(c)
    PROVE  Learned({c})
<1> DEFINE p == [page EXCEPT !.call = [id |-> c, status |-> "calling"]]
           t == tasks \ {Waiting("start")}
<1>1. p \in ClientPage /\ p.call.id = c /\ Live(p.call) /\ p.terminal = page.terminal
  BY DEF EndedInv, ClientTypes, ClientPage, Call, Status, Live, Over
<1>2. Move(page, t, <<Msg("end", c)>>) \/ Move(p, t, <<>>)
  BY DEF OnStarted
<1>3. t \in SUBSET tasks
  OBVIOUS
<1> HIDE DEF p, t
<1>4. Legal(page, t, <<Msg("end", c)>>, {c})
  BY <1>3, OneIsLegal, ShownIsLegal, PageIsItself DEF EndedInv
<1>5. c \notin p.terminal
  BY <1>1, TerminalIsKnown DEF EndedInv
<1>6. t \in SUBSET Task /\ \A x \in t : x.call \in Known \union {c, None}
  BY <1>3, IdsAreKnown DEF EndedInv, ClientTypes
<1>7. Legal(p, t, <<>>, {c})
  BY <1>1, <1>5, <1>6, EmptyIsLegal, NewCallIsLegal
<1>8. QED
  BY <1>2, <1>4, <1>7, MoveLearns

LEMMA OnAcceptDoneLearns ==
    ASSUME EndedInv, NEW c \in CallId, NEW ok \in BOOLEAN, OnAcceptDone(c, ok)
    PROVE  Learned({c})
<1> DEFINE a == [kind |-> "accept", at |-> "ack", call |-> c]
           t == tasks \ {a}
           showing == [page.call EXCEPT !.status = "connecting"]
           p == [page EXCEPT !.call = showing]
           s == page.terminal \union {c}
           q == [page EXCEPT !.terminal = s]
<1>1. t \in SUBSET tasks /\ t \in SUBSET Task
      /\ \A x \in t : x.call \in Known \union {c} \union {None}
  BY IdsAreKnown DEF EndedInv, ClientTypes
<1>2. CASE ok /\ page.call = NoCall
  <2>1. Move(page, t, <<>>)
    BY <1>2 DEF OnAcceptDone
  <2> HIDE DEF t
  <2>2. Legal(page, t, <<>>, {c})
    BY <1>1, EmptyIsLegal, ShownIsLegal, PageIsItself DEF EndedInv
  <2>3. QED
    BY <2>1, <2>2, MoveLearns
<1>3. CASE ok /\ page.call # NoCall
  <2>1. Move(p, t, <<>>)
    BY <1>3 DEF OnAcceptDone, EndedInv, ClientTypes, ClientPage
  <2>2. showing \in Call /\ showing.id = page.call.id /\ Live(showing)
    BY <1>3 DEF EndedInv, ClientTypes, ClientPage, Call, Status, Live, Over
  <2>3. CallIsSound(page, tasks) => t = tasks \/ Live(page.call)
    <3>1. CASE a \in tasks
      BY <3>1 DEF CallIsSound
    <3>2. CASE a \notin tasks
      BY <3>2
    <3>3. QED
      BY <3>1, <3>2
  <2> HIDE DEF t, showing
  <2>4. p \in ClientPage /\ p.call.id = page.call.id /\ p.terminal = page.terminal /\ ~Over(p.call)
    BY <2>2 DEF EndedInv, ClientTypes, ClientPage, Live
  <2> HIDE DEF p
  <2>5. Legal(p, t, <<>>, {c})
    BY <1>1, <2>3, <2>4, EmptyIsLegal, SameIsLegal
  <2>6. QED
    BY <2>1, <2>5, MoveLearns
<1>4. CASE ~ok
  <2>1. Move(Finished(q, "failed"), t, Ending(page, "end", c))
    BY <1>4 DEF OnAcceptDone, EndedInv, ClientTypes, ClientPage
  <2>2. s \in SUBSET CallId /\ s \subseteq Known \union {c}
    BY TerminalIsKnown DEF EndedInv, ClientTypes, ClientPage
  <2>3. AtMostOne(Ending(page, "end", c), {c})
    BY EndingIsLegal DEF EndedInv
  <2> HIDE DEF s, t
  <2>4. q \in ClientPage /\ q.call.id = page.call.id /\ q.terminal = s
    BY <2>2 DEF EndedInv, ClientTypes, ClientPage
  <2> HIDE DEF q
  <2>5. Legal(Finished(q, "failed"), t, Ending(page, "end", c), {c})
    BY <1>1, <2>2, <2>3, <2>4, IdsAreKnown, FinishedIsLegal DEF EndedInv
  <2>6. QED
    BY <2>1, <2>5, MoveLearns
<1>5. QED
  BY <1>2, <1>3, <1>4

LEMMA OnSyncedNoneLearns ==
    ASSUME EndedInv, OnSyncedNone
    PROVE  Learned({})
<1> DEFINE p == [page EXCEPT !.socketTimer = FALSE]
           t == tasks \ {Waiting("sync")}
<1>1. SameCall(page, p)
  BY DEF SameCall, EndedInv, ClientTypes, ClientPage
<1>2. Move(Finished(p, "ended"), t, <<>>) \/ Move(p, t, <<>>)
  BY DEF OnSyncedNone
<1>3. t \in SUBSET tasks
  OBVIOUS
<1> HIDE DEF p, t
<1>4. Legal(p, t, <<>>, {})
  BY <1>1, <1>3, EmptyIsLegal, ShownIsLegal
<1>5. Legal(Finished(p, "ended"), t, <<>>, {})
  BY <1>1, <1>3, EmptyIsLegal, FinishedIsLegal, IdsAreKnown, TerminalIsKnown
  DEF EndedInv, SameCall
<1>6. QED
  BY <1>2, <1>4, <1>5, MoveLearns

LEMMA OnSyncedLearns ==
    ASSUME EndedInv, NEW c \in CallId, NEW on \in BOOLEAN, OnSynced(c, on)
    PROVE  Learned({c})
<1> DEFINE t == tasks \ {Waiting("sync")}
           p == [page EXCEPT !.socketTimer = FALSE]
           q == IF p.call.id \notin {None, c} THEN Released(p) ELSE p
           status == IF ~on THEN IF c \in IncomingCall THEN "incoming" ELSE "calling"
                     ELSE IF q.conn = "connected" THEN "active" ELSE "reconnecting"
           r == [q EXCEPT !.call = [id |-> c, status |-> status]]
           x == [kind |-> IF on THEN "restore" ELSE "sync", at |-> "mic", call |-> c]
<1>1. SameCall(page, p)
  BY DEF SameCall, EndedInv, ClientTypes, ClientPage
<1>2. \/ Move(p, t, <<Msg("end", c)>>)
      \/ /\ c \notin p.terminal
         /\ \/ Move(r, t \union {x}, <<>>)
            \/ AfterSync(r, t, c)
            \/ Move(r, t, <<>>)
  BY DEF OnSynced
<1>3. t \in SUBSET tasks
  OBVIOUS
<1>4. x \in Task /\ x.call = c
  BY DEF Task
<1> HIDE DEF p, t, x
<1>5. SameCall(page, q)
  BY <1>1, ReleasedDoes DEF SameCall
<1>6. status \in {"incoming", "calling", "active", "reconnecting"}
  OBVIOUS
<1> HIDE DEF q, status
<1>7. r \in ClientPage /\ r.call.id = c /\ Live(r.call) /\ r.terminal = page.terminal
  BY <1>5, <1>6 DEF SameCall, ClientPage, Call, Status, Live, Over
<1> HIDE DEF r
<1>8. Legal(p, t, <<Msg("end", c)>>, {c})
  BY <1>1, <1>3, OneIsLegal, ShownIsLegal
<1>9. p.terminal = page.terminal
  BY <1>1 DEF SameCall
<1>10. t \in SUBSET Task /\ \A y \in t : y.call \in Known \union {c, None}
  BY <1>3, IdsAreKnown DEF EndedInv, ClientTypes
<1>11. t \union {x} \in SUBSET Task /\ \A y \in t \union {x} : y.call \in Known \union {c, None}
  BY <1>4, <1>10
<1>12. c \notin p.terminal => Legal(r, t, <<>>, {c}) /\ Legal(r, t \union {x}, <<>>, {c})
  BY <1>7, <1>9, <1>10, <1>11, EmptyIsLegal, NewCallIsLegal
<1>13. QED
  BY <1>2, <1>8, <1>12, MoveLearns, AfterSyncLearns

LEMMA HandleEventLearns ==
    ASSUME EndedInv, HandleEvent
    PROVE  Learned({Head(toPage).call} \ {None})
<1> DEFINE e == Head(toPage)
           c == e.call
<1>1. e \in Event /\ toPage # <<>> /\ e = toPage[1] /\ 1 \in DOMAIN toPage
  BY DEF HandleEvent, EndedInv, ClientTypes
<1>2. e.kind \in News => c \notin Known
  BY <1>1 DEF EndedInv, NewsIsNew
<1>3. None \notin CallId
  BY CallClientConstants DEF CallId
<1>4. CASE e.kind \in {"startFailed", "syncedNone"}
  <2>1. {c} \ {None} = {}
    BY <1>1, <1>3, <1>4 DEF Event
  <2>2. CASE e.kind = "startFailed"
    <3>1. Fail(page, tasks \ {Waiting("start")})
      BY <2>2 DEF HandleEvent
    <3>2. QED
      BY <2>1, <3>1, FailLearns, IdsAreKnown, TerminalIsKnown DEF EndedInv, ClientTypes
  <2>3. CASE e.kind = "syncedNone"
    <3>1. OnSyncedNone
      BY <2>3 DEF HandleEvent
    <3>2. QED
      BY <2>1, <3>1, OnSyncedNoneLearns
  <2>4. QED
    BY <1>4, <2>2, <2>3
<1>5. CASE e.kind \notin {"startFailed", "syncedNone"}
  <2>1. c \in CallId /\ {c} \ {None} = {c}
    BY <1>1, <1>3, <1>5 DEF Event
  <2>2. e.kind \in {"incoming", "accepted", "rejected", "ended", "dismissed", "recovery",
                    "offer", "answer", "startOk", "acceptOk", "acceptFailed",
                    "syncedRinging", "syncedActive"}
    BY <1>1, <1>5 DEF Event
  <2>3. CASE e.kind = "incoming"
    BY <1>2, <2>1, <2>3, OnIncomingLearns DEF HandleEvent, News
  <2>4. CASE e.kind = "accepted"
    BY <2>1, <2>4, OnAcceptedLearns DEF HandleEvent
  <2>5. CASE e.kind \in {"rejected", "ended"}
    BY <2>1, <2>5, OnEndedLearns DEF HandleEvent
  <2>6. CASE e.kind = "dismissed"
    BY <2>1, <2>6, OnDismissedLearns DEF HandleEvent
  <2>7. CASE e.kind = "recovery"
    BY <2>1, <2>7, OnRecoveryNeededLearns DEF HandleEvent
  <2>8. CASE e.kind = "offer"
    BY <2>1, <2>8, OnOfferLearns DEF HandleEvent
  <2>9. CASE e.kind = "answer"
    BY <2>1, <2>9, OnAnswerLearns DEF HandleEvent
  <2>10. CASE e.kind = "startOk"
    BY <1>2, <2>1, <2>10, OnStartedLearns DEF HandleEvent, News
  <2>11. CASE e.kind \in {"acceptOk", "acceptFailed"}
    <3>1. OnAcceptDone(c, e.kind = "acceptOk")
      BY <2>11 DEF HandleEvent
    <3>2. QED
      BY <2>1, <3>1, OnAcceptDoneLearns
  <2>12. CASE e.kind = "syncedRinging"
    BY <2>1, <2>12, OnSyncedLearns DEF HandleEvent
  <2>13. CASE e.kind = "syncedActive"
    BY <2>1, <2>13, OnSyncedLearns DEF HandleEvent
  <2>14. QED
    BY <2>2, <2>3, <2>4, <2>5, <2>6, <2>7, <2>8, <2>9, <2>10, <2>11, <2>12, <2>13
<1>6. QED
  BY <1>4, <1>5

-----------------------------------------------------------------------------

\* A step of the page's own tells it of no call.
LEMMA PageStepKeeps ==
    ASSUME EndedInv, Learned({}), toPage' \in {toPage, <<>>},
           UNCHANGED <<session, accepting, finishing>>, socketOpen' \in BOOLEAN
    PROVE  EndedInv'
<1>1. Known' \subseteq Known
  BY DEF Learned, Known
<1>2. Early' = Early
  BY DEF Early
<1>3. ClientTypes'
  <2>1. toPage' \in Seq(Event)
    <3>1. toPage \in Seq(Event) /\ <<>> \in Seq(Event)
      BY DEF ClientTypes, EndedInv
    <3>2. QED
      BY <3>1
  <2>2. QED
    BY <2>1 DEF ClientTypes, EndedInv, Learned
<1>4. NewsIsNew'
  BY <1>1 DEF NewsIsNew, EndedInv
<1>5. ASSUME NEW c \in Early' 
      PROVE  (/\ c \notin Known /\ c \notin accepting /\ finishing[c] = "no"
              /\ ~Mentions(toBackend, c) /\ ~Mentions(toPage, c))'
  <2>1. c \in CallId /\ c \in Early
    BY <1>2 DEF Early
  <2>2. /\ c \notin Known /\ c \notin accepting /\ finishing[c] = "no"
        /\ ~Mentions(toBackend, c) /\ ~Mentions(toPage, c)
    BY <2>1 DEF EndedInv, EarlyIsUnknown
  <2>3. ~Mentions(toBackend', c)
    BY <2>1, <2>2 DEF Learned
  <2>4. ~Mentions(toPage', c)
    BY <2>2 DEF Mentions
  <2>5. QED
    BY <1>1, <2>2, <2>3, <2>4
<1>6. EarlyIsUnknown'
  BY <1>5 DEF EarlyIsUnknown
<1>7. (~overtaken => CallIsSound(page, tasks))'
  BY DEF Learned
<1>8. QED
  BY <1>3, <1>4, <1>6, <1>7 DEF EndedInv

\* The page hears of the call that the first event names, and of no other.
LEMMA HandleEventKeeps ==
    ASSUME EndedInv, HandleEvent
    PROVE  EndedInv'
<1> DEFINE c == Head(toPage).call
<1>1. Learned({c} \ {None})
  BY HandleEventLearns
<1>2. toPage \in Seq(Event) /\ toPage # <<>> /\ toPage' = Tail(toPage) /\ c = toPage[1].call
  BY DEF HandleEvent, EndedInv, ClientTypes
<1>3. /\ toPage' \in Seq(Event)
      /\ \A i \in DOMAIN toPage' : i + 1 \in DOMAIN toPage /\ toPage'[i] = toPage[i + 1]
  BY <1>2
<1>4. UNCHANGED <<session, accepting, finishing, socketOpen>>
  BY DEF HandleEvent, backend
<1>5. ClientTypes'
  BY <1>1, <1>3, <1>4 DEF ClientTypes, EndedInv, Learned
<1>6. Known' \subseteq Known \union ({c} \ {None})
  BY <1>1 DEF Learned, Known
<1>7. NewsIsNew'
  <2> SUFFICES ASSUME NEW i \in DOMAIN toPage', toPage'[i].kind \in News
               PROVE  /\ toPage'[i].call \notin Known'
                      /\ \A j \in 1 .. i - 1 : toPage'[j].call # toPage'[i].call
    BY DEF NewsIsNew
  <2>1. i + 1 \in DOMAIN toPage /\ toPage'[i] = toPage[i + 1] /\ i \in Nat \ {0}
    BY <1>3, <1>2
  <2>2. /\ toPage[i + 1].call \notin Known
        /\ \A j \in 1 .. (i + 1) - 1 : toPage[j].call # toPage[i + 1].call
    BY <2>1 DEF NewsIsNew, EndedInv
  <2>3. toPage'[i].call \notin Known'
    BY <1>2, <1>6, <2>1, <2>2
  <2>4. ASSUME NEW j \in 1 .. i - 1 PROVE toPage'[j].call # toPage'[i].call
    <3>1. j \in DOMAIN toPage' /\ j + 1 \in 1 .. (i + 1) - 1
      BY <1>3, <2>1
    <3>2. QED
      BY <1>3, <2>1, <2>2, <3>1
  <2>5. QED
    BY <2>3, <2>4
<1>8. EarlyIsUnknown'
  <2> SUFFICES ASSUME NEW d \in Early'
               PROVE  /\ d \notin Known' /\ d \notin accepting' /\ finishing'[d] = "no"
                      /\ ~Mentions(toBackend', d) /\ ~Mentions(toPage', d)
    BY DEF EarlyIsUnknown
  <2>1. d \in CallId /\ d \in Early
    BY <1>4 DEF Early
  <2>2. /\ d \notin Known /\ d \notin accepting /\ finishing[d] = "no"
        /\ ~Mentions(toBackend, d) /\ ~Mentions(toPage, d)
    BY <2>1 DEF EndedInv, EarlyIsUnknown
  <2>3. d # c
    BY <1>2, <2>2 DEF Mentions
  <2>4. ~Mentions(toBackend', d)
    BY <1>1, <2>1, <2>2, <2>3 DEF Learned
  <2>5. ~Mentions(toPage', d)
    BY <1>3, <2>2 DEF Mentions
  <2>6. QED
    BY <1>4, <1>6, <2>2, <2>3, <2>4, <2>5
<1>9. (~overtaken => CallIsSound(page, tasks))'
  BY <1>1 DEF Learned
<1>10. QED
  BY <1>5, <1>7, <1>8, <1>9 DEF EndedInv

-----------------------------------------------------------------------------

LEMMA GatewayStepKeeps ==
    ASSUME EndedInv, NEW c, GatewayStep(c)
    PROVE  EndedInv'
<1>1. Known' = Known
  BY DEF GatewayStep, Known
<1>2. toPage \in Seq(Event) /\ toPage' \in Seq(Event)
  <2>1. CASE toPage' = toPage
    BY <2>1 DEF EndedInv, ClientTypes
  <2>2. CASE toPage' # toPage
    <3>1. PICK m \in Seq(Event) : toPage' = toPage \o m
      BY <2>2 DEF GatewayStep, Tells
    <3>2. toPage \in Seq(Event)
      BY DEF EndedInv, ClientTypes
    <3>3. QED
      BY <3>1, <3>2
  <2>3. QED
    BY <2>1, <2>2
<1>3. ClientTypes'
  BY <1>2 DEF ClientTypes, EndedInv, GatewayStep
<1>4. NewsIsNew'
  <2>1. CASE toPage' = toPage
    BY <1>1, <2>1 DEF NewsIsNew, EndedInv
  <2>2. CASE toPage' # toPage
    <3>1. PICK m \in Seq(Event) :
             /\ toPage' = toPage \o m
             /\ \A i \in DOMAIN m : m[i].call = c /\ (m[i].kind \in News => c \in Early /\ i = 1)
      BY <2>2 DEF GatewayStep, Tells
    <3> SUFFICES ASSUME NEW i \in DOMAIN toPage', toPage'[i].kind \in News
                 PROVE  /\ toPage'[i].call \notin Known
                        /\ \A j \in 1 .. i - 1 : toPage'[j].call # toPage'[i].call
      BY <1>1 DEF NewsIsNew
    <3>2. CASE i <= Len(toPage)
      <4>1. i \in DOMAIN toPage /\ \A j \in 1 .. i : toPage'[j] = toPage[j]
        BY <1>2, <3>1, <3>2
      <4>2. i \in 1 .. i /\ \A j \in 1 .. i - 1 : j \in 1 .. i
        BY <4>1, <1>2
      <4>3. QED
        BY <4>1, <4>2 DEF NewsIsNew, EndedInv
    <3>3. CASE ~(i <= Len(toPage))
      <4>1. i - Len(toPage) \in DOMAIN m /\ toPage'[i] = m[i - Len(toPage)]
        BY <1>2, <3>1, <3>3
      <4>2. toPage'[i].call = c /\ c \in Early /\ i - Len(toPage) = 1
        BY <3>1, <4>1
      <4>3. c \notin Known /\ ~Mentions(toPage, c)
        BY <4>2 DEF EndedInv, EarlyIsUnknown
      <4>4. ASSUME NEW j \in 1 .. i - 1 PROVE toPage'[j].call # c
        <5>1. j \in DOMAIN toPage /\ toPage'[j] = toPage[j]
          BY <1>2, <3>1, <4>2
        <5>2. QED
          BY <4>3, <5>1 DEF Mentions
      <4>5. QED
        BY <4>2, <4>3, <4>4
    <3>4. QED
      BY <3>2, <3>3
  <2>3. QED
    BY <2>1, <2>2
<1>5. EarlyIsUnknown'
  <2> SUFFICES ASSUME NEW d \in Early'
               PROVE  /\ d \notin Known' /\ d \notin accepting' /\ finishing'[d] = "no"
                      /\ ~Mentions(toBackend', d) /\ ~Mentions(toPage', d)
    BY DEF EarlyIsUnknown
  <2>1. d \in Early /\ d # c
    BY DEF GatewayStep
  <2>2. d \in CallId
    BY <2>1 DEF Early
  <2>3. /\ d \notin Known /\ d \notin accepting /\ finishing[d] = "no"
        /\ ~Mentions(toBackend, d) /\ ~Mentions(toPage, d)
    BY <2>1 DEF EndedInv, EarlyIsUnknown
  <2>4. finishing'[d] = "no" /\ d \notin accepting' /\ ~Mentions(toBackend', d)
    BY <2>1, <2>2, <2>3 DEF GatewayStep
  <2>5. ~Mentions(toPage', d)
    <3>1. CASE toPage' = toPage
      BY <2>3, <3>1
    <3>2. CASE toPage' # toPage
      <4>1. PICK m \in Seq(Event) : toPage' = toPage \o m /\ \A i \in DOMAIN m : m[i].call = c
        BY <3>2 DEF GatewayStep, Tells
      <4>2. ~Mentions(m, d)
        BY <2>1, <4>1 DEF Mentions
      <4>3. QED
        BY <1>2, <2>3, <4>1, <4>2, MentionsOfConcat
    <3>3. QED
      BY <3>1, <3>2
  <2>6. QED
    BY <1>1, <2>3, <2>4, <2>5
<1>6. (~overtaken => CallIsSound(page, tasks))'
  BY DEF EndedInv, GatewayStep
<1>7. QED
  BY <1>3, <1>4, <1>5, <1>6 DEF EndedInv

\* What the gateway tells of call c that is not news.
LEMMA EmitTells ==
    ASSUME NEW c \in CallId \union {None}, NEW m, Emit(m),
           \/ m = <<>>
           \/ \E k \in {"accepted", "rejected", "ended", "dismissed", "recovery", "offer", "answer",
                        "acceptOk", "acceptFailed", "syncedRinging", "syncedActive"} :
                 m = <<Msg(k, c)>> /\ c \in CallId
           \/ \E k \in {"startFailed", "syncedNone"} : m = <<Msg(k, c)>> /\ c = None
    PROVE  Tells(c)
<1>1. CASE toPage' = toPage
  BY <1>1 DEF Tells
<1>2. CASE toPage' = toPage \o m
  <2>1. CASE m = <<>>
    <3>1. m \in Seq(Event) /\ DOMAIN m = {}
      BY <2>1
    <3>2. QED
      BY <1>2, <3>1 DEF Tells
  <2>2. CASE m # <<>>
    <3>1. PICK k : m = <<Msg(k, c)>> /\ Msg(k, c) \in Event /\ k \notin News
      BY <2>2 DEF Msg, Event, News
    <3>2. m \in Seq(Event) /\ DOMAIN m = {1} /\ m[1].call = c /\ m[1].kind \notin News
      BY <3>1 DEF Msg
    <3>3. QED
      BY <1>2, <3>2 DEF Tells
  <2>3. QED
    BY <2>1, <2>2
<1>3. QED
  BY <1>1, <1>2 DEF Emit

LEMMA NewsTells ==
    ASSUME NEW c \in Early, NEW k \in News, Emit(<<Msg(k, c)>>)
    PROVE  Tells(c)
<1>1. Msg(k, c) \in Event /\ c \in CallId
  BY DEF Msg, Event, News, Early
<1> DEFINE m == <<Msg(k, c)>>
<1>2. m \in Seq(Event) /\ DOMAIN m = {1} /\ m[1].call = c
  BY <1>1 DEF Msg
<1>3. toPage' = toPage \/ toPage' = toPage \o m
  BY DEF Emit
<1> HIDE DEF m
<1>4. QED
  BY <1>2, <1>3 DEF Tells

LEMMA FinishTells ==
    ASSUME EndedInv, NEW c \in CallId, NEW k \in {"reject", "end"}, Finish(c, k), c \notin Early
    PROVE  /\ Tells(c)
           /\ session' \in [CallId -> {"unused", "starting", "ringing", "active", "over"}]
           /\ finishing' \in [CallId -> {"no", "end", "reject"}]
           /\ Early' \subseteq Early \ {c}
           /\ \A d \in CallId : finishing'[d] \in {finishing[d], "no"} \/ d = c
<1>1. CASE finishing[c] = "no"
  <2>1. finishing' = [finishing EXCEPT ![c] = k] /\ toPage' = toPage /\ session' = session
    BY <1>1 DEF Finish
  <2>2. QED
    BY <2>1 DEF Tells, Early, EndedInv, ClientTypes
<1>2. CASE finishing[c] # "no"
  <2>1. /\ session' = [session EXCEPT ![c] = "over"] /\ finishing' = finishing
        /\ Emit(IF k = "end" THEN <<Msg("ended", c)>> ELSE <<>>)
    BY <1>2 DEF Finish
  <2>2. Tells(c)
    BY <2>1, EmitTells
  <2>3. QED
    BY <2>1, <2>2 DEF Early, EndedInv, ClientTypes
<1>3. QED
  BY <1>1, <1>2

\* A packet names no call that nobody was told of.
LEMMA HandledPacket ==
    ASSUME EndedInv, toBackend # <<>>, toBackend' = Tail(toBackend)
    PROVE  /\ Head(toBackend) \in Packet
           /\ Head(toBackend).call \notin Early
           /\ toBackend' \in Seq(Packet)
           /\ \A d : Mentions(toBackend', d) => Mentions(toBackend, d)
<1>1. /\ toBackend \in Seq(Packet)
      /\ \A i \in DOMAIN toBackend' : i + 1 \in DOMAIN toBackend /\ toBackend'[i] = toBackend[i + 1]
  BY DEF EndedInv, ClientTypes
<1>2. Head(toBackend) = toBackend[1] /\ 1 \in DOMAIN toBackend
  BY <1>1
<1>3. Mentions(toBackend, Head(toBackend).call)
  BY <1>2 DEF Mentions
<1>4. Head(toBackend).call \notin Early
  BY <1>3 DEF EndedInv, EarlyIsUnknown
<1>5. \A d : Mentions(toBackend', d) => Mentions(toBackend, d)
  BY <1>1 DEF Mentions
<1>6. QED
  BY <1>1, <1>4, <1>5

LEMMA GatewayStartsStep ==
    ASSUME EndedInv, GatewayStarts
    PROVE  /\ session' \in [CallId -> {"unused", "starting", "ringing", "active", "over"}]
           /\ Early' \subseteq Early \ {None} /\ Tells(None)
<1>1. None \notin Early
  BY CallClientConstants DEF Early, CallId
<1>2. CASE Emit(<<Msg("startFailed", None)>>) /\ session' = session
  BY <1>1, <1>2, EmitTells DEF Early, EndedInv, ClientTypes
<1>3. CASE toPage' = toPage /\ \E c \in OutgoingCall :
                session[c] = "unused" /\ session' = [session EXCEPT ![c] = "starting"]
  <2>1. PICK c \in OutgoingCall :
                session[c] = "unused" /\ session' = [session EXCEPT ![c] = "starting"]
    BY <1>3
  <2>2. c \in CallId
    BY DEF CallId
  <2>3. QED
    BY <1>1, <1>3, <2>1, <2>2 DEF Early, EndedInv, ClientTypes, Tells
<1>4. QED
  BY <1>2, <1>3 DEF GatewayStarts

LEMMA GatewayAcceptsStep ==
    ASSUME EndedInv, NEW c \in CallId, c \notin Early, GatewayAccepts(c)
    PROVE  /\ session' \in [CallId -> {"unused", "starting", "ringing", "active", "over"}]
           /\ accepting' \subseteq CallId /\ accepting' \subseteq accepting \union {c}
           /\ Early' \subseteq Early \ {c} /\ Tells(c)
<1>1. CASE session[c] # "ringing"
  <2>1. Emit(<<Msg("acceptFailed", c)>>) /\ session' = session /\ accepting' = accepting
    BY <1>1 DEF GatewayAccepts
  <2>2. Tells(c)
    BY <2>1, EmitTells
  <2>3. QED
    BY <2>1, <2>2 DEF Early, EndedInv, ClientTypes
<1>2. CASE session[c] = "ringing" /\ finishing[c] = "no"
  <2>1. session' = [session EXCEPT ![c] = "active"] /\ accepting' = accepting \union {c}
        /\ toPage' = toPage
    BY <1>2 DEF GatewayAccepts
  <2>2. QED
    BY <2>1 DEF Early, EndedInv, ClientTypes, Tells
<1>3. CASE session[c] = "ringing" /\ finishing[c] # "no"
  <2>1. CASE /\ session' = [session EXCEPT ![c] = "active"] /\ Emit(<<Msg("acceptOk", c)>>)
             /\ accepting' = accepting
    <3>1. Tells(c)
      BY <2>1, EmitTells
    <3>2. QED
      BY <2>1, <3>1 DEF Early, EndedInv, ClientTypes
  <2>2. CASE /\ session' = [session EXCEPT ![c] = "over"] /\ accepting' = accepting
             /\ Emit(<<Msg("ended", c), Msg("acceptFailed", c)>>)
    <3> DEFINE m == <<Msg("ended", c), Msg("acceptFailed", c)>>
    <3>1. Msg("ended", c) \in Event /\ Msg("acceptFailed", c) \in Event
      BY DEF Msg, Event
    <3>2. m \in Seq(Event) /\ DOMAIN m = {1, 2} /\ m[1] = Msg("ended", c)
          /\ m[2] = Msg("acceptFailed", c)
      BY <3>1
    <3>3. \A i \in DOMAIN m : m[i].call = c /\ m[i].kind \notin News
      BY <3>2 DEF Msg, News
    <3>4. toPage' = toPage \/ toPage' = toPage \o m
      BY <2>2 DEF Emit
    <3> HIDE DEF m
    <3>5. Tells(c)
      BY <3>2, <3>3, <3>4 DEF Tells
    <3>6. QED
      BY <2>2, <3>5 DEF Early, EndedInv, ClientTypes
  <2>3. QED
    BY <1>3, <2>1, <2>2 DEF GatewayAccepts
<1>4. QED
  BY <1>1, <1>2, <1>3

LEMMA GatewaySyncsStep ==
    ASSUME EndedInv, GatewaySyncs
    PROVE  \E c \in CallId \union {None} : c \notin Early /\ Tells(c)
<1>1. CASE InMap = {}
  <2>1. None \notin Early
    BY CallClientConstants DEF Early, CallId
  <2>2. Tells(None)
    BY <1>1, EmitTells DEF GatewaySyncs
  <2>3. QED
    BY <2>1, <2>2
<1>2. CASE InMap # {}
  <2>1. PICK c \in InMap :
           Emit(<<Msg(IF session[c] = "active" THEN "syncedActive" ELSE "syncedRinging", c)>>)
    BY <1>2 DEF GatewaySyncs
  <2>2. c \in CallId /\ c \notin Early
    BY DEF InMap, Early
  <2>3. Tells(c)
    BY <2>1, <2>2, EmitTells
  <2>4. QED
    BY <2>2, <2>3
<1>3. QED
  BY <1>1, <1>2

LEMMA GatewayHandlesKeeps ==
    ASSUME EndedInv, GatewayHandles
    PROVE  EndedInv'
<1> DEFINE m == Head(toBackend)
           c == m.call
<1>1. /\ m \in Packet /\ c \notin Early /\ toBackend' \in Seq(Packet)
      /\ \A d : Mentions(toBackend', d) => Mentions(toBackend, d)
  BY HandledPacket DEF GatewayHandles
<1>2. UNCHANGED <<page, tasks, socketOpen>> /\ socketOpen' \in BOOLEAN
  BY DEF GatewayHandles, EndedInv, ClientTypes
<1>3. overtaken' \in BOOLEAN /\ (~overtaken' => ~overtaken)
  BY DEF GatewayHandles
<1>4. None \notin CallId /\ None \notin Early
  BY CallClientConstants DEF Early, CallId
<1> DEFINE G == \E d \in CallId \union {None} :
              /\ session' \in [CallId -> {"unused", "starting", "ringing", "active", "over"}]
              /\ finishing' \in [CallId -> {"no", "end", "reject"}]
              /\ accepting' \subseteq CallId
              /\ Early' \subseteq Early \ {d}
              /\ accepting' \subseteq accepting \union {d}
              /\ \A b \in CallId : finishing'[b] \in {finishing[b], "no"} \/ b = d
              /\ Tells(d)
<1>5. ASSUME UNCHANGED finishing
      PROVE  /\ finishing' \in [CallId -> {"no", "end", "reject"}]
             /\ \A b \in CallId : finishing'[b] \in {finishing[b], "no"}
  BY <1>5 DEF EndedInv, ClientTypes
<1>6. ASSUME UNCHANGED accepting
      PROVE  accepting' \subseteq CallId /\ \A d : accepting' \subseteq accepting \union {d}
  BY <1>6 DEF EndedInv, ClientTypes
<1>7. ASSUME UNCHANGED session, NEW d, d \notin Early
      PROVE  /\ session' \in [CallId -> {"unused", "starting", "ringing", "active", "over"}]
             /\ Early' \subseteq Early \ {d}
  BY <1>7 DEF Early, EndedInv, ClientTypes
<1>8. G
  <2>1. CASE GatewayStarts /\ UNCHANGED <<accepting, finishing>>
    BY <1>5, <1>6, <2>1, GatewayStartsStep
  <2>2. CASE m.kind = "accept" /\ GatewayAccepts(c) /\ UNCHANGED finishing
    <3>1. c \in CallId
      BY <1>1, <2>2 DEF Packet
    <3>2. QED
      BY <1>1, <1>5, <2>2, <3>1, GatewayAcceptsStep
  <2>3. CASE GatewaySyncs /\ UNCHANGED <<session, accepting, finishing>>
    BY <1>5, <1>6, <1>7, <2>3, GatewaySyncsStep
  <2>4. CASE m.kind \in {"reject", "end"} /\ Finish(c, m.kind) /\ UNCHANGED accepting
    <3>1. c \in CallId
      BY <1>1, <2>4 DEF Packet
    <3>2. QED
      BY <1>1, <1>6, <2>4, <3>1, FinishTells
  <2>5. CASE UNCHANGED <<toPage, session, accepting, finishing>>
    <3>1. Tells(None)
      BY <2>5 DEF Tells
    <3>2. QED
      BY <1>4, <1>5, <1>6, <1>7, <2>5, <3>1
  <2>6. QED
    BY <2>1, <2>2, <2>3, <2>4, <2>5 DEF GatewayHandles
<1>9. PICK d \in CallId \union {None} :
              /\ session' \in [CallId -> {"unused", "starting", "ringing", "active", "over"}]
              /\ finishing' \in [CallId -> {"no", "end", "reject"}]
              /\ accepting' \subseteq CallId
              /\ Early' \subseteq Early \ {d}
              /\ accepting' \subseteq accepting \union {d}
              /\ \A b \in CallId : finishing'[b] \in {finishing[b], "no"} \/ b = d
              /\ Tells(d)
  BY <1>8
<1> HIDE DEF G
<1>10. GatewayStep(d)
  BY <1>1, <1>2, <1>3, <1>9 DEF GatewayStep
<1>11. QED
  BY <1>10, GatewayStepKeeps

-----------------------------------------------------------------------------

\* What the gateway does by itself.
LEMMA StartStoredKeeps ==
    ASSUME EndedInv, NEW c \in CallId, StartStored(c)
    PROVE  EndedInv'
<1>1. session[c] = "starting" /\ c \in Early
  BY DEF StartStored, Early
<1>2. Tells(c)
  <2>1. CASE c \in deaf
    <3>1. toPage' = toPage
      <4>1. Emit(<<>>)
        BY <2>1 DEF StartStored, Acked
      <4>2. toPage \o <<>> = toPage
        BY DEF EndedInv, ClientTypes
      <4>3. QED
        BY <4>1, <4>2 DEF Emit
    <3>2. QED
      BY <3>1 DEF Tells
  <2>2. CASE c \notin deaf
    BY <1>1, <2>2, NewsTells DEF StartStored, Acked, News
  <2>3. QED
    BY <2>1, <2>2
<1>3. UNCHANGED <<page, tasks, socketOpen, toBackend, accepting, finishing>>
      /\ session' = [session EXCEPT ![c] = "ringing"]
      /\ overtaken' \in BOOLEAN /\ (~overtaken' => ~overtaken)
  BY DEF StartStored
<1>4. Early' \subseteq Early \ {c}
      /\ session' \in [CallId -> {"unused", "starting", "ringing", "active", "over"}]
  BY <1>3 DEF Early, EndedInv, ClientTypes
<1>5. GatewayStep(c)
  BY <1>2, <1>3, <1>4 DEF GatewayStep, EndedInv, ClientTypes
<1>6. QED
  BY <1>5, GatewayStepKeeps

LEMMA AcceptStoredKeeps ==
    ASSUME EndedInv, NEW c \in CallId, AcceptStored(c)
    PROVE  EndedInv'
<1>1. c \notin Early
  BY DEF AcceptStored, EndedInv, EarlyIsUnknown
<1>2. Tells(c)
  BY EmitTells DEF AcceptStored, Acked
<1>3. UNCHANGED <<page, tasks, socketOpen, toBackend, session, finishing, overtaken>>
      /\ accepting' = accepting \ {c}
  BY DEF AcceptStored
<1>4. Early' \subseteq Early \ {c}
  BY <1>1, <1>3 DEF Early
<1>5. GatewayStep(c)
  BY <1>2, <1>3, <1>4 DEF GatewayStep, EndedInv, ClientTypes
<1>6. QED
  BY <1>5, GatewayStepKeeps

LEMMA FinishStoredKeeps ==
    ASSUME EndedInv, NEW c \in CallId, FinishStored(c)
    PROVE  EndedInv'
<1>1. c \notin Early
  BY DEF FinishStored, EndedInv, EarlyIsUnknown
<1>2. Tells(c)
  BY EmitTells DEF FinishStored
<1>3. UNCHANGED <<page, tasks, socketOpen, toBackend, accepting, overtaken>>
      /\ session' = [session EXCEPT ![c] = "over"]
      /\ finishing' = [finishing EXCEPT ![c] = "no"]
  BY DEF FinishStored
<1>4. Early' \subseteq Early \ {c}
      /\ session' \in [CallId -> {"unused", "starting", "ringing", "active", "over"}]
  BY <1>1, <1>3 DEF Early, EndedInv, ClientTypes
<1>5. GatewayStep(c)
  BY <1>2, <1>3, <1>4 DEF GatewayStep, EndedInv, ClientTypes
<1>6. QED
  BY <1>5, GatewayStepKeeps

LEMMA PeerSteps ==
    ASSUME EndedInv, NEW c \in CallId, UNCHANGED socketOpen,
           \/ PeerCalls(c) \/ PeerAccepts(c) \/ PeerRejects(c) \/ OtherPageRejects(c)
           \/ PeerEnds(c) \/ PeerSignals(c)
    PROVE  PeerStep(c)
<1>1. CASE PeerCalls(c)
  <2>1. c \in Early
    BY <1>1 DEF PeerCalls, Early
  <2>2. Tells(c)
    BY <1>1, <2>1, NewsTells DEF PeerCalls, News
  <2>3. session' = [session EXCEPT ![c] = "ringing"] /\ UNCHANGED <<accepting, finishing>>
    BY <1>1 DEF PeerCalls
  <2>4. QED
    BY <2>2, <2>3 DEF PeerStep, Early, EndedInv, ClientTypes
<1>2. CASE PeerAccepts(c)
  <2>1. c \notin Early
    BY <1>2 DEF PeerAccepts, Early
  <2>2. Tells(c)
    BY <1>2, EmitTells DEF PeerAccepts, Tells
  <2>3. session' = [session EXCEPT ![c] = "active"] /\ UNCHANGED finishing
        /\ accepting' \in {accepting, accepting \union {c}}
    BY <1>2 DEF PeerAccepts
  <2>4. QED
    BY <2>1, <2>2, <2>3 DEF PeerStep, Early, EndedInv, ClientTypes
<1>3. CASE PeerRejects(c) \/ OtherPageRejects(c)
  <2>1. c \notin Early
    BY <1>3 DEF PeerRejects, OtherPageRejects, Early
  <2>2. Tells(c)
    BY <1>3, EmitTells DEF PeerRejects, OtherPageRejects
  <2>3. /\ \/ finishing' = [finishing EXCEPT ![c] = "reject"] /\ session' = session
           \/ session' = [session EXCEPT ![c] = "over"] /\ finishing' = finishing
        /\ accepting' = accepting
    BY <1>3 DEF PeerRejects, OtherPageRejects
  <2>4. QED
    BY <2>1, <2>2, <2>3 DEF PeerStep, Early, EndedInv, ClientTypes
<1>4. CASE PeerEnds(c)
  <2>1. c \notin Early
    BY <1>4 DEF PeerEnds, InMap, Early
  <2>2. Finish(c, "end") /\ UNCHANGED accepting
    BY <1>4 DEF PeerEnds
  <2>3. QED
    BY <2>1, <2>2, FinishTells DEF PeerStep, EndedInv, ClientTypes
<1>5. CASE PeerSignals(c)
  <2>1. c \notin Early
    BY <1>5 DEF PeerSignals, Early
  <2>2. Tells(c)
    BY <1>5, EmitTells DEF PeerSignals
  <2>3. UNCHANGED <<session, accepting, finishing>>
    BY <1>5 DEF PeerSignals
  <2>4. QED
    BY <2>1, <2>2, <2>3 DEF PeerStep, Early, EndedInv, ClientTypes
<1>6. QED
  BY <1>1, <1>2, <1>3, <1>4, <1>5

LEMMA PeerKeeps ==
    ASSUME EndedInv, NEW c \in CallId, Peer(c)
    PROVE  EndedInv'
<1>1. UNCHANGED <<page, tasks, socketOpen, toBackend>>
      /\ overtaken' \in BOOLEAN /\ (~overtaken' => ~overtaken)
  BY DEF Peer
<1>2. PeerStep(c)
  BY <1>1, PeerSteps DEF Peer
<1>3. GatewayStep(c)
  BY <1>1, <1>2 DEF GatewayStep, PeerStep, EndedInv, ClientTypes
<1>4. QED
  BY <1>3, GatewayStepKeeps

LEMMA GatewayRestartsKeeps ==
    ASSUME EndedInv, GatewayRestarts
    PROVE  EndedInv'
<1>1. UNCHANGED <<page, tasks, socketOpen, toBackend, toPage, overtaken>>
      /\ session' = [c \in CallId |-> IF session[c] = "unused" THEN "unused" ELSE "over"]
      /\ accepting' = {} /\ finishing' = [c \in CallId |-> "no"]
  BY DEF GatewayRestarts
<1>2. None \notin Early
  BY CallClientConstants DEF Early, CallId
<1>3. Early' \subseteq Early \ {None}
  BY <1>1, <1>2 DEF Early
<1>4. Tells(None)
  BY <1>1 DEF Tells
<1>5. GatewayStep(None)
  BY <1>1, <1>3, <1>4 DEF GatewayStep, EndedInv, ClientTypes
<1>6. QED
  BY <1>5, GatewayStepKeeps

-----------------------------------------------------------------------------

LEMMA PageLearns ==
    ASSUME EndedInv, PageActs
    PROVE  Learned({})
BY StartCallLearns, AcceptCallLearns, HangUpLearns, DismissCallLearns,
   SocketUnavailableLearns, MicOpensLearns, MicFailsLearns, AckTimesOutLearns,
   PeerConnectsLearns, PeerDropsLearns, PeerTimerFiresLearns, SocketTimerFiresLearns,
   SocketOpensLearns, SocketClosesLearns DEF PageActs

LEMMA PageKeeps ==
    ASSUME EndedInv, PageActs
    PROVE  EndedInv'
<1>1. Learned({})
  BY PageLearns
<1>2. toPage' \in {toPage, <<>>} /\ UNCHANGED <<session, accepting, finishing>>
  BY DEF PageActs, StartCall, AcceptCall, HangUp, DismissCall, SocketUnavailable, MicOpens,
         MicFails, AckTimesOut, PeerConnects, PeerDrops, PeerTimerFires, SocketTimerFires,
         SocketOpens, SocketCloses, backend
<1>3. socketOpen' \in BOOLEAN
  BY DEF PageActs, StartCall, AcceptCall, HangUp, DismissCall, SocketUnavailable, MicOpens,
         MicFails, AckTimesOut, PeerConnects, PeerDrops, PeerTimerFires, SocketTimerFires,
         SocketOpens, SocketCloses, EndedInv, ClientTypes
<1>4. QED
  BY <1>1, <1>2, <1>3, PageStepKeeps

LEMMA ClientInitEnded == ClientInit => EndedInv
<1> SUFFICES ASSUME ClientInit PROVE EndedInv
  OBVIOUS
<1>1. ClientTypes
  <2>1. page \in ClientPage
    BY DEF ClientInit, ClientPage, Call, NoCall
  <2>2. /\ <<>> \in Seq(Packet) /\ <<>> \in Seq(Event)
        /\ [c \in CallId |-> "unused"] \in
              [CallId -> {"unused", "starting", "ringing", "active", "over"}]
        /\ [c \in CallId |-> "no"] \in [CallId -> {"no", "end", "reject"}]
    OBVIOUS
  <2>3. QED
    BY <2>1, <2>2 DEF ClientInit, ClientTypes
<1>2. Known = {}
  BY DEF ClientInit, Known, KnownOf, NoCall
<1>3. NewsIsNew /\ EarlyIsUnknown
  BY <1>2 DEF ClientInit, NewsIsNew, EarlyIsUnknown, Early, Mentions
<1>4. CallIsSound(page, tasks)
  BY DEF ClientInit, CallIsSound, Live, Over, NoCall
<1>5. QED
  BY <1>1, <1>3, <1>4 DEF EndedInv

LEMMA ClientNextKeepsEnded ==
    ASSUME EndedInv, [ClientNext]_clientVars
    PROVE  EndedInv'
<1>1. CASE UNCHANGED clientVars
  BY <1>1 DEF clientVars, backend, EndedInv, ClientTypes, NewsIsNew, EarlyIsUnknown, Known,
              KnownOf, Early, Mentions, CallIsSound
<1>2. CASE ClientNext
  BY <1>2, PageKeeps, HandleEventKeeps, GatewayHandlesKeeps, StartStoredKeeps,
     AcceptStoredKeeps, FinishStoredKeeps, PeerKeeps, GatewayRestartsKeeps DEF ClientNext, PageActs
<1>3. QED
  BY <1>1, <1>2

\* A call that the page has left, or that it saw end, is not shown as live
\* again, whatever was under way; handlers that were overtaken are excepted.
\* Of AudioCallProvider.tsx (terminalCallIdsRef) and chat.gateway.ts, for any
\* number of calls in both directions.
THEOREM ClientEndedStaysEnded == ClientSpec => []EndedStaysEnded
<1>1. EndedInv => EndedStaysEnded
  BY DEF EndedInv, CallIsSound, EndedStaysEnded
<1>2. QED
  BY <1>1, ClientInitEnded, ClientNextKeepsEnded, PTL DEF ClientSpec

-----------------------------------------------------------------------------

\* The microphone: MicInv.

LEMMA SameIsFewer ==
    ASSUME NEW s, NEW A
    PROVE  Fewer(s, s, A)
BY DEF Fewer

LEMMA NothingIsFewer ==
    ASSUME NEW s, NEW A
    PROVE  Fewer(<<>>, s, A) /\ ~Has(<<>>, A)
BY DEF Fewer, Has, AtMostOnce

LEMMA TailIsFewer ==
    ASSUME NEW S, NEW s \in Seq(S), s # <<>>, NEW A
    PROVE  /\ Fewer(Tail(s), s, A)
           /\ Head(s) \in A => Has(s, A)
           /\ Head(s) \in A /\ AtMostOnce(s, A) => ~Has(Tail(s), A)
           /\ Has(s, A) /\ Head(s) \notin A => Has(Tail(s), A)
<1>1. /\ Head(s) = s[1] /\ 1 \in DOMAIN s
      /\ \A i \in DOMAIN Tail(s) : i \in Nat \ {0} /\ i + 1 \in DOMAIN s /\ Tail(s)[i] = s[i + 1]
      /\ \A i \in DOMAIN s : i = 1 \/ (i - 1 \in DOMAIN Tail(s) /\ Tail(s)[i - 1] = s[i])
  OBVIOUS
<1>2. Has(Tail(s), A) => Has(s, A)
  BY <1>1 DEF Has
<1>3. ASSUME AtMostOnce(s, A) PROVE AtMostOnce(Tail(s), A)
  <2> SUFFICES ASSUME NEW i \in DOMAIN Tail(s), NEW j \in DOMAIN Tail(s),
                      Tail(s)[i] \in A, Tail(s)[j] \in A
               PROVE  i = j
    BY DEF AtMostOnce
  <2>1. i + 1 = j + 1
    BY <1>1, <1>3 DEF AtMostOnce
  <2>2. QED
    BY <1>1, <2>1
<1>4. Head(s) \in A => Has(s, A)
  BY <1>1 DEF Has
<1>5. ASSUME Head(s) \in A, AtMostOnce(s, A), Has(Tail(s), A) PROVE FALSE
  <2>1. PICK i \in DOMAIN Tail(s) : Tail(s)[i] \in A
    BY <1>5 DEF Has
  <2>2. i + 1 = 1
    BY <1>1, <1>5, <2>1 DEF AtMostOnce
  <2>3. QED
    BY <1>1, <2>1, <2>2
<1>6. Has(s, A) /\ Head(s) \notin A => Has(Tail(s), A)
  BY <1>1 DEF Has
<1>7. QED
  BY <1>2, <1>3, <1>4, <1>5, <1>6 DEF Fewer

LEMMA ConcatHas ==
    ASSUME NEW S, NEW s \in Seq(S), NEW m \in Seq(S), NEW A
    PROVE  /\ Has(s \o m, A) <=> Has(s, A) \/ Has(m, A)
           /\ ~Has(m, A) => Fewer(s \o m, s, A)
           /\ ~Has(s, A) /\ AtMostOnce(m, A) => AtMostOnce(s \o m, A)
<1> DEFINE r == s \o m
           n == Len(s)
<1>1. /\ n \in Nat
      /\ \A i \in DOMAIN s : i \in DOMAIN r /\ r[i] = s[i]
      /\ \A i \in DOMAIN m : i + n \in DOMAIN r /\ r[i + n] = m[i]
      /\ \A i \in DOMAIN r : \/ i \in DOMAIN s /\ r[i] = s[i]
                             \/ i \in Nat /\ i - n \in DOMAIN m /\ r[i] = m[i - n]
  OBVIOUS
<1> HIDE DEF r, n
<1>2. Has(r, A) <=> Has(s, A) \/ Has(m, A)
  BY <1>1 DEF Has
<1>3. ASSUME ~Has(m, A), AtMostOnce(s, A) PROVE AtMostOnce(r, A)
  <2> SUFFICES ASSUME NEW i \in DOMAIN r, NEW j \in DOMAIN r, r[i] \in A, r[j] \in A
               PROVE  i = j
    BY DEF AtMostOnce
  <2>1. i \in DOMAIN s /\ r[i] = s[i] /\ j \in DOMAIN s /\ r[j] = s[j]
    BY <1>1, <1>3 DEF Has
  <2>2. QED
    BY <1>3, <2>1 DEF AtMostOnce
<1>4. ASSUME ~Has(s, A), AtMostOnce(m, A) PROVE AtMostOnce(r, A)
  <2> SUFFICES ASSUME NEW i \in DOMAIN r, NEW j \in DOMAIN r, r[i] \in A, r[j] \in A
               PROVE  i = j
    BY DEF AtMostOnce
  <2>1. /\ i \in Nat /\ i - n \in DOMAIN m /\ r[i] = m[i - n]
        /\ j \in Nat /\ j - n \in DOMAIN m /\ r[j] = m[j - n]
    BY <1>1, <1>4 DEF Has
  <2>2. i - n = j - n
    BY <1>4, <2>1 DEF AtMostOnce
  <2>3. QED
    BY <1>1, <2>1, <2>2
<1>5. QED
  BY <1>2, <1>3, <1>4 DEF Fewer, r

LEMMA OneHas ==
    ASSUME NEW e, NEW A
    PROVE  (Has(<<e>>, A) <=> e \in A) /\ AtMostOnce(<<e>>, A)
<1>1. DOMAIN <<e>> = {1} /\ <<e>>[1] = e
  OBVIOUS
<1>2. QED
  BY <1>1 DEF Has, AtMostOnce

\* What a subsequence holds.
LEMMA SubSeqAt ==
    ASSUME NEW S, NEW s \in Seq(S), NEW a \in Nat, a >= 1, NEW b \in Nat, b <= Len(s),
           NEW i \in Nat, 1 <= i, i <= b - a + 1
    PROVE  SubSeq(s, a, b)[i] = s[a + i - 1]
  OBVIOUS

LEMMA WithdrawnIsFewer ==
    ASSUME NEW m, toBackend \in Seq(Packet), NEW A
    PROVE  /\ Fewer(Withdrawn(m), toBackend, A)
           /\ AtMostOnce(toBackend, {m}) => ~Has(Withdrawn(m), {m})
<1> DEFINE at == CHOOSE i \in DOMAIN toBackend : toBackend[i] = m
           l == SubSeq(toBackend, 1, at - 1)
           r == SubSeq(toBackend, at + 1, Len(toBackend))
           w == l \o r
           f(i) == IF i < at THEN i ELSE i + 1
<1>1. CASE \E i \in DOMAIN toBackend : toBackend[i] = m
  <2>1. at \in 1 .. Len(toBackend) /\ toBackend[at] = m
    BY <1>1
  <2>2. Withdrawn(m) = w
    BY <1>1 DEF Withdrawn, RemoveAt
  <2> HIDE DEF at
  <2>3. ASSUME NEW i \in DOMAIN w
        PROVE  i \in Nat /\ f(i) \in DOMAIN toBackend /\ w[i] = toBackend[f(i)]
    <3>1. /\ Len(l) = at - 1 /\ Len(r) = Len(toBackend) - at
          /\ l \in Seq(Packet) /\ r \in Seq(Packet)
      BY <2>1
    <3>2. i \in 1 .. Len(toBackend) - 1
      <4> HIDE DEF l, r
      <4> QED BY <2>1, <3>1
    <3>3. CASE i < at
      <4>1. w[i] = l[i]
        <5> HIDE DEF l, r
        <5> QED BY <2>1, <3>1, <3>2, <3>3
      <4>2. l[i] = toBackend[i]
        <5>1. at - 1 \in Nat /\ at - 1 <= Len(toBackend) /\ i \in Nat /\ 1 <= i /\ i <= at - 1
          BY <2>1, <3>2, <3>3
        <5>2. SubSeq(toBackend, 1, at - 1)[i] = toBackend[1 + i - 1]
          BY <5>1, SubSeqAt
        <5>3. 1 + i - 1 = i
          BY <5>1
        <5>4. QED
          BY <5>2, <5>3, Zenon DEF l
      <4>3. QED
        BY <2>1, <3>2, <3>3, <4>1, <4>2
    <3>4. CASE ~(i < at)
      <4>1. w[i] = r[i - (at - 1)]
        <5> HIDE DEF l, r
        <5> QED BY <2>1, <3>1, <3>2, <3>4
      <4>2. r[i - (at - 1)] = toBackend[i + 1]
        <5> DEFINE j == i - (at - 1)
        <5>1. /\ at + 1 \in Nat /\ at + 1 >= 1 /\ Len(toBackend) \in Nat
              /\ Len(toBackend) <= Len(toBackend) /\ j \in Nat /\ 1 <= j
              /\ j <= Len(toBackend) - (at + 1) + 1 /\ at + 1 + j - 1 = i + 1
          BY <2>1, <3>2, <3>4
        <5> HIDE DEF j
        <5>2. SubSeq(toBackend, at + 1, Len(toBackend))[j] = toBackend[at + 1 + j - 1]
          BY <5>1, SubSeqAt
        <5>3. QED
          BY <5>1, <5>2, Zenon DEF j, r
      <4>3. QED
        BY <2>1, <3>2, <3>4, <4>1, <4>2
    <3>5. QED
      BY <3>3, <3>4
  <2> HIDE DEF w
  <2>4. Has(w, A) => Has(toBackend, A)
    BY <2>3 DEF Has
  <2>5. ASSUME AtMostOnce(toBackend, A) PROVE AtMostOnce(w, A)
    <3> SUFFICES ASSUME NEW i \in DOMAIN w, NEW j \in DOMAIN w, w[i] \in A, w[j] \in A
                 PROVE  i = j
      BY DEF AtMostOnce
    <3>1. f(i) = f(j)
      BY <2>3, <2>5 DEF AtMostOnce
    <3>2. QED
      BY <2>1, <2>3, <3>1
  <2>6. ASSUME AtMostOnce(toBackend, {m}), Has(w, {m}) PROVE FALSE
    <3>1. PICK i \in DOMAIN w : w[i] = m
      BY <2>6 DEF Has
    <3>2. f(i) \in DOMAIN toBackend /\ toBackend[f(i)] = m /\ i \in Nat
      BY <2>3, <3>1
    <3>3. f(i) = at
      BY <2>1, <2>6, <3>2 DEF AtMostOnce
    <3>4. QED
      BY <2>1, <3>2, <3>3
  <2>7. QED
    BY <2>2, <2>4, <2>5, <2>6 DEF Fewer
<1>2. CASE ~\E i \in DOMAIN toBackend : toBackend[i] = m
  BY <1>2 DEF Withdrawn, Fewer, Has
<1>3. QED
  BY <1>1, <1>2

-----------------------------------------------------------------------------

LEMMA ReleasedStream ==
    ASSUME NEW p \in ClientPage, StreamFits(p)
    PROVE  LET r == Released(p)
           IN r.call = p.call /\ r.mic = FALSE /\ r.streams = 0 /\ r.conn = "none"
<1> DEFINE n == IF p.mic THEN p.streams - 1 ELSE p.streams
<1>1. n = 0
  BY DEF ClientPage, StreamFits
<1>2. Released(p) = [p EXCEPT !.conn = "none", !.offered = FALSE, !.sending = FALSE,
                              !.peerTimer = FALSE, !.mic = FALSE, !.streams = n]
  BY DEF Released, ClientPage
<1> HIDE DEF n
<1>3. QED
  BY <1>1, <1>2 DEF ClientPage

LEMMA FinishedStream ==
    ASSUME NEW p \in ClientPage, StreamFits(p), NEW u \in {"ended", "failed"}
    PROVE  LET f == Finished(p, u)
           IN /\ f \in ClientPage /\ Over(f.call) /\ f.mic = FALSE /\ f.streams = 0
              /\ f.conn = "none" /\ (p.call = NoCall => f.call = NoCall)
<1> DEFINE r == Released(p)
           showing == [p.call EXCEPT !.status = IF p.call = NoCall THEN p.call.status ELSE u]
           f == [r EXCEPT !.socketTimer = FALSE, !.call = showing,
                          !.terminal = p.terminal \union ({p.call.id} \ {None})]
<1>1. r \in ClientPage /\ r.call = p.call /\ r.terminal = p.terminal
      /\ r.mic = FALSE /\ r.streams = 0 /\ r.conn = "none"
  BY ReleasedDoes, ReleasedStream DEF SameCall
<1>2. p.call = NoCall => showing = NoCall
  BY DEF NoCall
<1>3. Finished(p, u) = f
  BY <1>1 DEF Finished, ClientPage
<1> HIDE DEF r, showing
<1>4. f.mic = FALSE /\ f.streams = 0 /\ f.conn = "none" /\ f.call = showing
  BY <1>1 DEF ClientPage
<1>5. QED
  BY <1>2, <1>3, <1>4, FinishedDoes

LEMMA SoundNow ==
    ASSUME EndedInv, ~overtaken, MicHolds
    PROVE  /\ StreamFits(page) /\ TasksFit(page, tasks) /\ StreamComes(page, tasks)
           /\ CallIsSound(page, tasks) /\ page \in ClientPage /\ tasks \in SUBSET Task
           /\ page.call \in Call
BY DEF EndedInv, MicHolds, MicIsSound, ClientTypes, ClientPage

\* A page whose call is over, and which released what it had.
LEMMA OverIsSound ==
    ASSUME EndedInv, ~overtaken, MicHolds,
           NEW p \in ClientPage, NEW t \in SUBSET tasks, NEW m, NEW s, Rest(s),
           ~Overtakes(p, t, m), Over(p.call), p.mic = FALSE, p.streams = 0, p.conn = "none",
           page.call = NoCall => p.call = NoCall
    PROVE  Sounds(p, t, s)
<1>1. /\ TasksFit(page, tasks) /\ CallIsSound(page, tasks) /\ t \in SUBSET Task
  BY SoundNow
<1>2. p.call.status # "incoming" /\ p.call \in Call
  BY DEF Over, ClientPage
<1>3. \A x \in t : /\ x.kind \in {"start", "sync"} /\ x.at = "ack"
                   /\ x.kind = "start" => p.call = NoCall
  <2>1. CASE Live(page.call)
    <3>1. ASSUME NEW x \in t
          PROVE  /\ ~(x.kind = "start" /\ (x.at # "ack" \/ p.call # NoCall))
                 /\ x.kind # "accept"
                 /\ ~(x.kind \in {"sync", "restore", "offer"} /\ x.at = "mic")
      BY <2>1 DEF Overtakes
    <3>2. QED
      BY <1>1, <3>1 DEF Task
  <2>2. CASE ~Live(page.call)
    <3>1. ASSUME NEW x \in t
          PROVE  /\ x.at = "ack" /\ x.kind # "accept" /\ (x.kind = "start" => page.call = NoCall)
      BY <1>1, <2>2 DEF TasksFit, CallIsSound
    <3>2. QED
      BY <1>1, <3>1 DEF Task
  <2>3. QED
    BY <2>1, <2>2
<1>4. StreamFits(p) /\ StreamComes(p, t)
  BY <1>2 DEF StreamFits, StreamComes, Live
<1>5. TasksFit(p, t)
  BY <1>3 DEF TasksFit
<1>6. Heard(p, t, s)
  BY <1>2, <1>3 DEF Heard, RingsAt, TakenAt, Rest
<1>7. QED
  BY <1>4, <1>5, <1>6 DEF Sounds, MicIsSound

-----------------------------------------------------------------------------

LEMMA MoveDoes ==
    ASSUME NEW p, NEW t, NEW m, Move(p, t, m), ~overtaken'
    PROVE  /\ page' = p /\ tasks' = t /\ toBackend' = toBackend \o m
           /\ ~Overtakes(p, t, m)
BY DEF Move

LEMMA EmptyIsPlain == Plain(<<>>)
BY DEF Plain

LEMMA OneIsPlain ==
    ASSUME NEW k \in {"reject", "end", "offer", "answer", "recover"}, NEW c \in CallId
    PROVE  Plain(<<Msg(k, c)>>)
<1>1. Msg(k, c) \in Packet /\ Msg(k, c).kind = k
  BY DEF Msg, Packet
<1>2. QED
  BY <1>1 DEF Plain

LEMMA EndingIsPlain ==
    ASSUME NEW p, NEW k \in {"reject", "end"}, NEW c \in CallId \union {None}
    PROVE  Plain(Ending(p, k, c))
BY EmptyIsPlain, OneIsPlain DEF Ending

LEMMA AlikeSounds ==
    ASSUME NEW p, NEW q, NEW t, NEW s, Alike(p, q), Sounds(p, t, s)
    PROVE  Sounds(q, t, s)
BY DEF Alike, Sounds, MicIsSound, TasksFit, StreamComes, Heard, RingsAt, TakenAt

LEMMA NewPeerIsAlike ==
    ASSUME NEW p \in ClientPage, p.mic
    PROVE  Alike(p, NewPeer(p)) /\ NewPeer(p).mic
BY DEF NewPeer, Alike, ClientPage, StreamFits

LEMMA RestartMoves ==
    ASSUME NEW p \in ClientPage, NEW t, RestartConnection(p, t)
    PROVE  \E q, m : Alike(p, q) /\ Plain(m) /\ Move(q, t, m)
<1> DEFINE n == IF p.conn = "none" THEN NewPeer(p) ELSE p
           q == [n EXCEPT !.offered = TRUE]
<1>1. CASE socketOpen /\ p.mic /\ p.call.id \in OutgoingCall
  <2>1. Alike(p, n)
    BY <1>1, NewPeerIsAlike DEF Alike
  <2>2. Move(q, t, <<Msg("offer", p.call.id)>>)
    BY <1>1 DEF RestartConnection
  <2> HIDE DEF n
  <2>3. Alike(p, q)
    BY <2>1 DEF Alike, ClientPage, StreamFits
  <2>4. Plain(<<Msg("offer", p.call.id)>>)
    BY <1>1, OneIsPlain DEF CallId
  <2>5. QED
    BY <2>2, <2>3, <2>4
<1>2. CASE ~(socketOpen /\ p.mic /\ p.call.id \in OutgoingCall)
  <2>1. Move(p, t, <<>>) /\ Alike(p, p)
    BY <1>2 DEF RestartConnection, Alike
  <2>2. QED
    BY <2>1, EmptyIsPlain
<1>3. QED
  BY <1>1, <1>2

LEMMA AnswerMoves ==
    ASSUME NEW p \in ClientPage, NEW t, NEW c \in CallId, p.conn # "none", AnswerOffer(p, t, c)
    PROVE  \E q, m : Alike(p, q) /\ Plain(m) /\ Move(q, t, m)
<1> DEFINE n == IF p.conn \in {"none", "new"} THEN "checking" ELSE p.conn
           q == [p EXCEPT !.conn = n]
<1>1. Alike(p, q)
  BY DEF Alike, ClientPage, StreamFits
<1>2. Move(q, t, <<Msg("answer", c)>>) /\ Plain(<<Msg("answer", c)>>)
  BY OneIsPlain DEF AnswerOffer
<1>3. QED
  BY <1>1, <1>2

LEMMA AlikeAgain ==
    ASSUME NEW p, NEW n, NEW q, Alike(p, n), Alike(n, q)
    PROVE  Alike(p, q)
BY DEF Alike

LEMMA AfterSyncMoves ==
    ASSUME NEW p \in ClientPage, p.mic, NEW t, NEW c \in CallId, AfterSync(p, t, c)
    PROVE  \E q, m : Alike(p, q) /\ Plain(m) /\ Move(q, t, m)
<1> DEFINE n == IF p.conn = "none" THEN NewPeer(p) ELSE p
<1>1. Alike(p, n) /\ n \in ClientPage
  BY NewPeerIsAlike DEF Alike
<1>2. Move(n, t, <<>>) \/ RestartConnection(n, t) \/ Move(n, t, <<Msg("recover", c)>>)
  BY DEF AfterSync
<1> HIDE DEF n
<1>3. CASE RestartConnection(n, t)
  BY <1>1, <1>3, RestartMoves, AlikeAgain
<1>4. CASE Move(n, t, <<>>) \/ Move(n, t, <<Msg("recover", c)>>)
  BY <1>1, <1>4, EmptyIsPlain, OneIsPlain
<1>5. QED
  BY <1>2, <1>3, <1>4

\* A page whose call is over, and which released what it had.
LEMMA OverTurns ==
    ASSUME Orderly, NEW p \in ClientPage, NEW t \in SUBSET tasks, NEW m, NEW s, NEW D,
           Rest(s), Plain(m), Move(p, t, m),
           Over(p.call), p.mic = FALSE, p.streams = 0, p.conn = "none",
           page.call = NoCall => p.call = NoCall,
           (AckTask \intersect tasks) \ D \subseteq t
    PROVE  PageTurns(s, D)
<1>1. page' = p /\ tasks' = t /\ toBackend' = toBackend \o m /\ ~Overtakes(p, t, m)
  BY MoveDoes DEF Orderly
<1>2. Sounds(p, t, s)
  BY <1>1, OverIsSound DEF Orderly
<1>3. QED
  BY <1>1, <1>2 DEF PageTurns

LEMMA FinishedTurns ==
    ASSUME Orderly, NEW p \in ClientPage, p.call = page.call, StreamFits(p),
           NEW t \in SUBSET tasks, NEW m, NEW s, NEW D, NEW u \in {"ended", "failed"},
           Rest(s), Plain(m), Move(Finished(p, u), t, m),
           (AckTask \intersect tasks) \ D \subseteq t
    PROVE  PageTurns(s, D)
<1> DEFINE f == Finished(p, u)
<1>1. /\ f \in ClientPage /\ Over(f.call) /\ f.mic = FALSE /\ f.streams = 0
      /\ f.conn = "none" /\ (p.call = NoCall => f.call = NoCall)
  BY FinishedStream
<1> HIDE DEF f
<1>2. Move(f, t, m)
  BY DEF f
<1>3. QED
  BY <1>1, <1>2, OverTurns

LEMMA FailTurns ==
    ASSUME Orderly, NEW t \in SUBSET tasks, NEW s, NEW D, Rest(s), Fail(page, t),
           (AckTask \intersect tasks) \ D \subseteq t
    PROVE  PageTurns(s, D)
<1>1. page \in ClientPage /\ StreamFits(page) /\ page.call \in Call
  BY SoundNow DEF Orderly
<1>2. Plain(Ending(page, "end", page.call.id))
  BY <1>1, EndingIsPlain DEF Call, NoCall
<1>3. Move(Finished(page, "failed"), t, Ending(page, "end", page.call.id))
  BY DEF Fail
<1>4. QED
  BY <1>1, <1>2, <1>3, FinishedTurns

\* The page stays what it was, but for some handlers that are done.
LEMMA PageFits ==
    ASSUME Orderly, NEW s, Rest(s)
    PROVE  Sounds(page, tasks, s)
<1>1. Heard(page, tasks, s)
  BY DEF Heard, RingsAt, TakenAt, Rest
<1>2. QED
  BY <1>1 DEF Sounds, Orderly, MicHolds

LEMMA StayTurns ==
    ASSUME Orderly, NEW p, Alike(page, p), NEW m, NEW s, NEW D, Rest(s), Plain(m),
           Move(p, tasks, m)
    PROVE  PageTurns(s, D)
<1>1. Sounds(p, tasks, s)
  BY PageFits, AlikeSounds
<1>2. QED
  BY <1>1, MoveDoes DEF PageTurns, Orderly

LEMMA AllIsRest == Rest(toPage)
BY DEF Rest

-----------------------------------------------------------------------------

LEMMA StartCallTurns ==
    ASSUME Orderly, StartCall
    PROVE  PageTurns(toPage, {})
<1> DEFINE showing == [id |-> None, status |-> "connecting"]
           p == [page EXCEPT !.call = showing]
           x == [kind |-> "start", at |-> IF socketOpen THEN "mic" ELSE "socket", call |-> None]
           t == tasks \union {x}
<1>0. /\ StreamFits(page) /\ TasksFit(page, tasks) /\ page \in ClientPage /\ page.call = NoCall
      /\ tasks \in SUBSET Task
  BY SoundNow DEF Orderly, StartCall
<1>1. /\ showing.id = None /\ showing.status = "connecting" /\ showing \in Call /\ Live(showing) /\ showing # NoCall
      /\ Over(NoCall) /\ NoCall.id = None
  BY DEF Live, Over, NoCall, Call, Status
<1>2. x.kind = "start" /\ x.at \in {"mic", "socket"} /\ x.call = None
  OBVIOUS
<1>3. Move(p, t, <<>>)
  BY DEF StartCall
<1> HIDE DEF showing
<1>4. p \in ClientPage /\ p.call = showing /\ p.mic = page.mic /\ p.streams = page.streams
      /\ p.conn = page.conn /\ p.sending = page.sending
  BY <1>0, <1>1 DEF ClientPage
<1> HIDE DEF p, x, t
<1>5. page' = p /\ tasks' = t /\ toBackend' = toBackend \o <<>> /\ ~Overtakes(p, t, <<>>)
  BY <1>3, MoveDoes DEF Orderly
<1>6. \A y \in tasks : y.kind = "sync" /\ y.at = "ack"
  <2>1. tasks \subseteq t /\ Live(p.call) /\ Over(page.call)
    BY <1>0, <1>1, <1>4 DEF t
  <2>2. QED
    BY <1>5, <2>1 DEF Overtakes
<1>7. p.mic = FALSE
  BY <1>0, <1>1, <1>4 DEF StreamFits, ClientPage
<1>8. StreamFits(p)
  BY <1>0, <1>1, <1>4, <1>7 DEF StreamFits
<1>9. \A y \in t : y = x \/ (y \in tasks /\ y.kind = "sync" /\ y.at = "ack")
  BY <1>6 DEF t
<1>10. TasksFit(p, t)
  BY <1>1, <1>2, <1>4, <1>7, <1>9 DEF TasksFit
<1>11. x \in t
  BY DEF t
<1>12. StreamComes(p, t)
  BY <1>2, <1>11 DEF StreamComes
<1>13. Heard(p, t, toPage)
  BY <1>1, <1>2, <1>4, <1>7, <1>9 DEF Heard, RingsAt, TakenAt
<1>14. SyncAck # x
  BY <1>2 DEF SyncAck
<1>15. QED
  BY <1>5, <1>8, <1>10, <1>12, <1>13, <1>14, EmptyIsPlain
     DEF PageTurns, Sounds, MicIsSound, t

LEMMA SocketUnavailableTurns ==
    ASSUME Orderly, NEW x, SocketUnavailable(x)
    PROVE  PageTurns(toPage, {})
<1>1. Fail(page, tasks \ {x}) /\ x.at = "socket"
  BY DEF SocketUnavailable
<1>2. (AckTask \intersect tasks) \ {} \subseteq tasks \ {x}
  BY <1>1 DEF AckTask
<1>3. QED
  BY <1>1, <1>2, FailTurns, AllIsRest

LEMMA AcceptCallTurns ==
    ASSUME Orderly, AcceptCall
    PROVE  PageTurns(toPage, {})
<1> DEFINE c == page.call.id
           showing == [page.call EXCEPT !.status = "connecting"]
           p == [page EXCEPT !.call = showing]
           x == [kind |-> "accept", at |-> "mic", call |-> c]
           t == tasks \union {x}
<1>0. /\ StreamFits(page) /\ TasksFit(page, tasks) /\ page \in ClientPage
      /\ page.call.status = "incoming" /\ page.call \in Call
      /\ tasks \in SUBSET Task
  BY SoundNow DEF Orderly, AcceptCall
<1>1. /\ showing.id = c /\ showing.status = "connecting" /\ showing \in Call /\ Live(showing) /\ showing # NoCall
      /\ page.call # NoCall /\ c \in IncomingCall /\ c # None /\ page.mic = FALSE
  BY <1>0, CallClientConstants DEF Live, Over, NoCall, Call, Status, StreamFits, ClientPage
<1>2. x.kind = "accept" /\ x.at = "mic" /\ x.call = c
  OBVIOUS
<1>3. Move(p, t, <<>>)
  BY <1>0 DEF AcceptCall, ClientPage
<1> HIDE DEF showing
<1>4. p \in ClientPage /\ p.call = showing /\ p.mic = page.mic /\ p.streams = page.streams
      /\ p.conn = page.conn /\ p.sending = page.sending
  BY <1>0, <1>1 DEF ClientPage
<1> HIDE DEF p, x, t, c
<1>5. page' = p /\ tasks' = t /\ toBackend' = toBackend \o <<>> /\ ~Overtakes(p, t, <<>>)
  BY <1>3, MoveDoes DEF Orderly
<1>6. \A y \in tasks : y.kind = "sync" /\ y.at = "ack"
  <2>1. ASSUME NEW y \in tasks PROVE y.at = "ack" /\ y.kind \notin {"start", "accept"}
    BY <1>0, <1>1, <2>1 DEF TasksFit, c
  <2>2. QED
    BY <1>0, <2>1 DEF Task
<1>7. SyncAck \notin t
  <2>1. x \in t
    BY DEF t
  <2>2. SyncAck.kind = "sync" /\ SyncAck.at = "ack"
    BY DEF SyncAck
  <2>3. QED
    BY <1>2, <1>5, <2>1, <2>2 DEF Overtakes
<1>8. StreamFits(p)
  BY <1>0, <1>1, <1>4 DEF StreamFits
<1>9. \A y \in t : y = x \/ (y \in tasks /\ y.kind = "sync" /\ y.at = "ack")
  BY <1>6 DEF t
<1>10. TasksFit(p, t)
  BY <1>1, <1>2, <1>4, <1>7, <1>9 DEF TasksFit
<1>11. x \in t
  BY DEF t
<1>12. StreamComes(p, t)
  BY <1>1, <1>2, <1>4, <1>11 DEF StreamComes
<1>13. Heard(p, t, toPage)
  BY <1>0, <1>1, <1>2, <1>4, <1>9 DEF Heard, RingsAt, TakenAt, c
<1>14. QED
  BY <1>5, <1>7, <1>8, <1>10, <1>12, <1>13, EmptyIsPlain
     DEF PageTurns, Sounds, MicIsSound, t

LEMMA HangUpTurns ==
    ASSUME Orderly, HangUp
    PROVE  PageTurns(toPage, {})
<1> DEFINE c == page.call.id
           k == IF page.call.status = "incoming" THEN "reject" ELSE "end"
           r == Released(page)
           s == page.terminal \union ({c} \ {None})
           p == [r EXCEPT !.call = NoCall, !.socketTimer = FALSE, !.terminal = s]
<1>0. StreamFits(page) /\ page \in ClientPage /\ page.call \in Call
  BY SoundNow DEF Orderly
<1>1. r \in ClientPage /\ r.terminal = page.terminal
      /\ r.mic = FALSE /\ r.streams = 0 /\ r.conn = "none"
  BY <1>0, ReleasedDoes, ReleasedStream DEF SameCall
<1>2. s \in SUBSET CallId
  BY <1>0 DEF ClientPage, Call, NoCall
<1>3. Move(p, tasks, Ending(page, k, c))
  BY <1>1 DEF HangUp, ClientPage
<1>4. Plain(Ending(page, k, c))
  BY <1>0, EndingIsPlain DEF Call, NoCall
<1> HIDE DEF r, s
<1>5. p \in ClientPage /\ p.call = NoCall /\ p.mic = FALSE /\ p.streams = 0 /\ p.conn = "none"
  BY <1>1, <1>2 DEF ClientPage, Call
<1>6. Over(NoCall)
  BY DEF Over, NoCall
<1> HIDE DEF p
<1>7. QED
  BY <1>3, <1>4, <1>5, <1>6, OverTurns, AllIsRest

LEMMA DismissCallTurns ==
    ASSUME Orderly, DismissCall
    PROVE  PageTurns(toPage, {})
<1> DEFINE r == Released(page)
           p == [r EXCEPT !.call = NoCall, !.socketTimer = FALSE]
<1>0. StreamFits(page) /\ page \in ClientPage
  BY SoundNow DEF Orderly
<1>1. r \in ClientPage /\ r.mic = FALSE /\ r.streams = 0 /\ r.conn = "none"
  BY <1>0, ReleasedDoes, ReleasedStream DEF SameCall
<1>2. Move(p, tasks, <<>>)
  BY DEF DismissCall
<1> HIDE DEF r
<1>3. p \in ClientPage /\ p.call = NoCall /\ p.mic = FALSE /\ p.streams = 0 /\ p.conn = "none"
  BY <1>1 DEF ClientPage, Call
<1>4. Over(NoCall)
  BY DEF Over, NoCall
<1> HIDE DEF p
<1>5. QED
  BY <1>2, <1>3, <1>4, EmptyIsPlain, OverTurns, AllIsRest

LEMMA MicFailsTurns ==
    ASSUME Orderly, NEW x, MicFails(x)
    PROVE  PageTurns(toPage, {})
<1>0. StreamFits(page) /\ page \in ClientPage /\ tasks \in SUBSET Task
  BY SoundNow DEF Orderly
<1>1. x \in tasks /\ x.at = "mic" /\ (AckTask \intersect tasks) \ {} \subseteq tasks \ {x}
  BY DEF MicFails, AckTask
<1>2. CASE x.kind = "accept"
  <2> DEFINE s == page.terminal \union {x.call}
             q == [page EXCEPT !.terminal = s]
  <2>1. Move(Finished(q, "failed"), tasks \ {x}, Ending(page, "reject", x.call))
    BY <1>0, <1>2 DEF MicFails, ClientPage
  <2>2. x.call \in CallId
    BY <1>0, <1>1, <1>2 DEF Task
  <2>3. Plain(Ending(page, "reject", x.call))
    BY <2>2, EndingIsPlain
  <2>4. s \in SUBSET CallId
    BY <1>0, <2>2 DEF ClientPage
  <2> HIDE DEF s
  <2>5. q \in ClientPage /\ q.call = page.call /\ StreamFits(q)
    BY <1>0, <2>4 DEF ClientPage, StreamFits
  <2> HIDE DEF q
  <2>6. QED
    BY <1>1, <2>1, <2>3, <2>5, FinishedTurns, AllIsRest
<1>3. CASE x.kind # "accept"
  <2>1. Fail(page, tasks \ {x})
    BY <1>3 DEF MicFails
  <2>2. QED
    BY <1>1, <2>1, FailTurns, AllIsRest
<1>4. QED
  BY <1>2, <1>3

-----------------------------------------------------------------------------

\* A handler that is on its way to the microphone is the only one.
LEMMA OnTheWay ==
    ASSUME Orderly, NEW x \in tasks, x.at = "mic"
    PROVE  /\ page.mic = FALSE /\ page.streams = 0 /\ page.conn = "none"
           /\ Live(page.call) /\ page.call.status # "incoming" /\ page.call # NoCall
           /\ \A y \in tasks \ {x} : y.at = "ack" /\ y.kind = "sync"
           /\ x.kind = "start" => page.call.id = None
           /\ x.kind # "start" => x.call = page.call.id /\ x.call \in CallId
           /\ x.kind = "accept" => x.call \in IncomingCall /\ SyncAck \notin tasks
           /\ x.kind = "sync" => x.call \in OutgoingCall
<1>0. /\ StreamFits(page) /\ TasksFit(page, tasks) /\ page \in ClientPage
      /\ tasks \in SUBSET Task
  BY SoundNow DEF Orderly
<1>1. page.mic = FALSE /\ Live(page.call) /\ page.call.status # "incoming"
  BY <1>0 DEF TasksFit, ClientPage
<1>2. page.streams = 0 /\ page.conn = "none"
  BY <1>0, <1>1 DEF StreamFits
<1>3. page.call # NoCall
  BY <1>1 DEF NoCall, Live, Over
<1>4. ASSUME NEW y \in tasks \ {x} PROVE y.at = "ack" /\ y.kind = "sync"
  <2>1. y.at = "ack"
    BY <1>0 DEF TasksFit
  <2>2. y.kind \notin {"start", "accept"}
    BY <1>0, <1>1, <1>3, <2>1 DEF TasksFit
  <2>3. QED
    BY <1>0, <2>1, <2>2 DEF Task
<1>5. x.kind = "start" => page.call.id = None
  BY <1>0, <1>3 DEF TasksFit
<1>6. x.kind # "start" => x.call = page.call.id /\ x.call \in CallId
  BY <1>0 DEF TasksFit, Task
<1>7. x.kind = "accept" => x.call \in IncomingCall /\ SyncAck \notin tasks
  BY <1>0 DEF TasksFit
<1>8. x.kind = "sync" => x.call \in OutgoingCall
  BY <1>0 DEF TasksFit
<1>9. QED
  BY <1>1, <1>2, <1>3, <1>4, <1>5, <1>6, <1>7, <1>8

LEMMA OpenedStream ==
    ASSUME NEW p \in ClientPage, p.streams = 0
    PROVE  LET o == Opened(p)
           IN /\ o \in ClientPage /\ o.call = p.call /\ o.mic = TRUE /\ o.streams = 1
              /\ o.conn = p.conn /\ o.sending = p.sending
<1> DEFINE n == p.streams + 1
<1>1. n = 1
  OBVIOUS
<1>2. Opened(p) = [p EXCEPT !.mic = TRUE, !.streams = n]
  BY DEF Opened, ClientPage
<1> HIDE DEF n
<1>3. Opened(p).mic = TRUE /\ Opened(p).streams = n /\ Opened(p).conn = p.conn
      /\ Opened(p).sending = p.sending
  BY <1>2 DEF ClientPage
<1>4. QED
  BY <1>1, <1>3, OpenedDoes DEF SameCall

LEMMA MicOpensForStart ==
    ASSUME Orderly, NEW x, MicOpens(x), x.kind = "start"
    PROVE  PageAsks([x EXCEPT !.at = "ack"])
<1> DEFINE o == Opened(page)
           showing == [id |-> None, status |-> "calling"]
           p == [o EXCEPT !.call = showing]
           y == [x EXCEPT !.at = "ack"]
           t == (tasks \ {x}) \union {y}
<1>0. /\ StreamFits(page) /\ TasksFit(page, tasks) /\ page \in ClientPage
      /\ tasks \in SUBSET Task /\ x \in tasks /\ x.at = "mic"
  BY SoundNow DEF Orderly, MicOpens
<1>1. /\ page.mic = FALSE /\ page.streams = 0 /\ page.conn = "none"
      /\ page.call # NoCall /\ page.call.id = None
      /\ \A z \in tasks \ {x} : z.at = "ack" /\ z.kind = "sync"
  BY <1>0, OnTheWay
<1>2. o \in ClientPage /\ o.mic = TRUE /\ o.streams = 1 /\ o.conn = "none"
  BY <1>0, <1>1, OpenedStream
<1>3. showing.id = None /\ showing.status = "calling" /\ showing \in Call /\ Live(showing) /\ showing # NoCall
  BY DEF Live, Over, NoCall, Call, Status
<1>4. y \in Task /\ y.kind = "start" /\ y.at = "ack" /\ y.call = None
  BY <1>0 DEF Task
<1>5. Move(p, t, <<Msg("start", None)>>)
  BY <1>0 DEF MicOpens
<1> HIDE DEF o, showing, y
<1>6. p \in ClientPage /\ p.call = showing /\ p.mic = TRUE /\ p.streams = 1 /\ p.conn = "none"
  BY <1>2, <1>3 DEF ClientPage
<1> HIDE DEF p
<1>7. page' = p /\ tasks' = t /\ toBackend' = toBackend \o <<Msg(y.kind, y.call)>>
  BY <1>4, <1>5, MoveDoes DEF Orderly
<1>8. y \notin tasks /\ y \in AckTask
  BY <1>0, <1>1, <1>4 DEF AckTask
<1>9. \A z \in t : z = y \/ (z \in tasks /\ z.at = "ack" /\ z.kind = "sync")
  BY <1>1
<1>10. StreamFits(p)
  BY <1>3, <1>6 DEF StreamFits, Live
<1>11. TasksFit(p, t)
  BY <1>3, <1>4, <1>6, <1>9 DEF TasksFit
<1>12. StreamComes(p, t)
  BY <1>4, <1>6 DEF StreamComes
<1>13. Heard(p, t, toPage)
  BY <1>3, <1>4, <1>6, <1>9, CallClientConstants DEF Heard, RingsAt, TakenAt
<1>14. AckTask \intersect tasks \subseteq t
  BY <1>0 DEF AckTask
<1>15. SyncAck # y
  BY <1>4 DEF SyncAck
<1> HIDE DEF t
<1>16. y \in t /\ (SyncAck \in t => SyncAck \in tasks)
  BY <1>15 DEF t
<1>17. PageAsks(y)
  BY <1>7, <1>8, <1>10, <1>11, <1>12, <1>13, <1>14, <1>16 DEF PageAsks, Sounds, MicIsSound
<1>18. QED
  BY <1>17 DEF y

LEMMA MicOpensForAccept ==
    ASSUME Orderly, NEW x, MicOpens(x), x.kind = "accept"
    PROVE  PageAsks([x EXCEPT !.at = "ack"])
<1> DEFINE o == Opened(page)
           p == NewPeer(o)
           y == [x EXCEPT !.at = "ack"]
           t == (tasks \ {x}) \union {y}
<1>0. /\ StreamFits(page) /\ TasksFit(page, tasks) /\ page \in ClientPage
      /\ tasks \in SUBSET Task /\ x \in tasks /\ x.at = "mic"
  BY SoundNow DEF Orderly, MicOpens
<1>1. /\ page.mic = FALSE /\ page.streams = 0 /\ page.conn = "none"
      /\ page.call # NoCall /\ Live(page.call) /\ page.call.status # "incoming"
      /\ x.call = page.call.id /\ x.call \in CallId /\ x.call \in IncomingCall
      /\ SyncAck \notin tasks
      /\ \A z \in tasks \ {x} : z.at = "ack" /\ z.kind = "sync"
  BY <1>0, OnTheWay
<1>2. o \in ClientPage /\ o.mic = TRUE /\ o.streams = 1 /\ o.conn = "none" /\ o.call = page.call
  BY <1>0, <1>1, OpenedStream
<1>3. x.call # None
  BY <1>1, CallClientConstants
<1>4. y \in Task /\ y.kind = "accept" /\ y.at = "ack" /\ y.call = x.call
  BY <1>0 DEF Task
<1>5. Move(p, t, <<Msg("accept", x.call)>>)
  BY <1>0 DEF MicOpens
<1> HIDE DEF o, y
<1>6. p \in ClientPage /\ p.call = page.call /\ p.mic = TRUE /\ p.streams = 1 /\ p.sending = TRUE
  BY <1>2 DEF ClientPage, NewPeer
<1> HIDE DEF p
<1>7. page' = p /\ tasks' = t /\ toBackend' = toBackend \o <<Msg(y.kind, y.call)>>
  BY <1>4, <1>5, MoveDoes DEF Orderly
<1>8. y \notin tasks /\ y \in AckTask
  BY <1>0, <1>1, <1>4 DEF AckTask
<1>9. \A z \in t : z = y \/ (z \in tasks /\ z.at = "ack" /\ z.kind = "sync")
  BY <1>1
<1>10. StreamFits(p)
  BY <1>1, <1>6 DEF StreamFits, Live
<1>11. SyncAck # y
  BY <1>4 DEF SyncAck
<1>12. SyncAck \notin t
  BY <1>1, <1>11
<1>13. TasksFit(p, t)
  BY <1>1, <1>4, <1>6, <1>9, <1>12 DEF TasksFit
<1>14. StreamComes(p, t)
  BY <1>1, <1>3, <1>6 DEF StreamComes
<1>15. y \in t
  OBVIOUS
<1>16. Heard(p, t, toPage)
  BY <1>1, <1>4, <1>6, <1>9, <1>15 DEF Heard, RingsAt, TakenAt
<1>17. AckTask \intersect tasks \subseteq t
  BY <1>0 DEF AckTask
<1> HIDE DEF t
<1>18. PageAsks(y)
  BY <1>7, <1>8, <1>10, <1>12, <1>13, <1>14, <1>15, <1>16, <1>17
     DEF PageAsks, Sounds, MicIsSound
<1>19. QED
  BY <1>18 DEF y

\* A handler that goes on with the microphone, and asks for nothing.
LEMMA MicOpensForOthers ==
    ASSUME Orderly, NEW x, MicOpens(x), x.kind \notin {"start", "accept"}
    PROVE  PageTurns(toPage, {})
<1> DEFINE o == Opened(page)
           t == tasks \ {x}
           c == x.call
<1>0. /\ StreamFits(page) /\ TasksFit(page, tasks) /\ StreamComes(page, tasks) /\ page \in ClientPage
      /\ tasks \in SUBSET Task /\ x \in tasks /\ x.at = "mic"
  BY SoundNow DEF Orderly, MicOpens
<1>1. /\ page.mic = FALSE /\ page.streams = 0 /\ page.conn = "none"
      /\ page.call # NoCall /\ Live(page.call) /\ page.call.status # "incoming"
      /\ c = page.call.id /\ c \in CallId
      /\ \A z \in tasks \ {x} : z.at = "ack" /\ z.kind = "sync"
      /\ x.kind = "sync" => c \in OutgoingCall
  BY <1>0, OnTheWay
<1>2. o \in ClientPage /\ o.mic = TRUE /\ o.streams = 1 /\ o.conn = "none" /\ o.call = page.call
  BY <1>0, <1>1, OpenedStream
<1>3. c # None
  BY <1>1, CallClientConstants DEF CallId
<1>4. x.kind \in {"sync", "restore", "offer"}
  BY <1>0 DEF Task
<1>5. \/ x.kind = "sync" /\ Move(o, t, <<>>)
      \/ x.kind = "restore" /\ AfterSync(o, t, c)
      \/ x.kind = "offer" /\ AnswerOffer(NewPeer(o), t, c)
  BY <1>4 DEF MicOpens
<1> HIDE DEF o
<1>6. StreamFits(o)
  BY <1>1, <1>2 DEF StreamFits, Live
<1>7. TasksFit(o, t)
  BY <1>1, <1>2 DEF TasksFit
<1>8. StreamComes(o, t)
  BY <1>1, <1>2, <1>3 DEF StreamComes
<1>9. Heard(o, t, toPage)
  <2>1. x.kind = "sync" => c \notin IncomingCall
    BY <1>1, CallClientConstants
  <2>2. QED
    BY <1>0, <1>1, <1>2, <1>4, <2>1 DEF Heard, RingsAt, TakenAt
<1>10. Sounds(o, t, toPage)
  BY <1>6, <1>7, <1>8, <1>9 DEF Sounds, MicIsSound
<1>11. \E q, m : Alike(o, q) /\ Plain(m) /\ Move(q, t, m)
  <2>1. CASE x.kind = "sync" /\ Move(o, t, <<>>)
    BY <1>2, <2>1, EmptyIsPlain DEF Alike
  <2>2. CASE x.kind = "restore" /\ AfterSync(o, t, c)
    BY <1>1, <1>2, <2>2, AfterSyncMoves
  <2>3. CASE x.kind = "offer" /\ AnswerOffer(NewPeer(o), t, c)
    <3>1. Alike(o, NewPeer(o))
      BY <1>2, NewPeerIsAlike
    <3>2. NewPeer(o) \in ClientPage /\ NewPeer(o).conn # "none"
      BY <1>2 DEF NewPeer, ClientPage
    <3>3. \E q, m : Alike(NewPeer(o), q) /\ Plain(m) /\ Move(q, t, m)
      BY <1>1, <2>3, <3>2, AnswerMoves
    <3>4. QED
      BY <3>1, <3>3, AlikeAgain
  <2>4. QED
    BY <1>5, <2>1, <2>2, <2>3
<1>12. PICK q, m : Alike(o, q) /\ Plain(m) /\ Move(q, t, m)
  BY <1>11
<1>13. page' = q /\ tasks' = t /\ toBackend' = toBackend \o m
  BY <1>12, MoveDoes DEF Orderly
<1>14. Sounds(q, t, toPage)
  BY <1>10, <1>12, AlikeSounds
<1>15. (AckTask \intersect tasks) \ {} \subseteq t
  BY <1>0 DEF AckTask
<1>16. QED
  BY <1>12, <1>13, <1>14, <1>15 DEF PageTurns

-----------------------------------------------------------------------------

LEMMA PeerConnectsTurns ==
    ASSUME Orderly, PeerConnects
    PROVE  PageTurns(toPage, {})
<1> DEFINE u == IF page.call = NoCall THEN page.call.status ELSE "active"
           showing == [page.call EXCEPT !.status = u]
           p == [page EXCEPT !.conn = "connected", !.peerTimer = FALSE, !.call = showing]
<1>0. /\ StreamFits(page) /\ TasksFit(page, tasks) /\ StreamComes(page, tasks) /\ page \in ClientPage
      /\ page.call \in Call /\ page.conn \in {"checking", "down"}
  BY SoundNow DEF Orderly, PeerConnects
<1>1. page.mic /\ page.sending /\ Live(page.call) /\ page.call # NoCall
  BY <1>0 DEF StreamFits, Live, NoCall, Over
<1>2. Move(p, tasks, <<>>)
  BY <1>0 DEF PeerConnects, ClientPage
<1>3. showing \in Call /\ showing.id = page.call.id /\ showing.status = "active" /\ Live(showing) /\ showing # NoCall
  BY <1>0, <1>1 DEF Call, Status, NoCall, Live, Over
<1> HIDE DEF showing
<1>4. p \in ClientPage /\ p.call = showing /\ p.mic = page.mic /\ p.streams = page.streams
      /\ p.conn = "connected" /\ p.sending = page.sending
  BY <1>0, <1>3 DEF ClientPage
<1> HIDE DEF p
<1>5. StreamFits(p)
  BY <1>0, <1>1, <1>3, <1>4 DEF StreamFits, Live
<1>6. TasksFit(p, tasks)
  BY <1>0, <1>1, <1>3, <1>4 DEF TasksFit
<1>7. StreamComes(p, tasks)
  BY <1>0, <1>1, <1>3, <1>4 DEF StreamComes
<1>8. Heard(p, tasks, toPage)
  BY <1>3, <1>4 DEF Heard, RingsAt, TakenAt
<1>9. page' = p /\ tasks' = tasks /\ toBackend' = toBackend \o <<>>
  BY <1>2, MoveDoes DEF Orderly
<1>10. QED
  BY <1>5, <1>6, <1>7, <1>8, <1>9, EmptyIsPlain DEF PageTurns, Sounds, MicIsSound

LEMMA PeerDropsTurns ==
    ASSUME Orderly, PeerDrops
    PROVE  PageTurns(toPage, {})
<1> DEFINE showing == [page.call EXCEPT !.status = "reconnecting"]
           p == [page EXCEPT !.conn = "down", !.peerTimer = TRUE, !.call = showing]
           n == <<Msg("recover", page.call.id)>>
<1>0. /\ StreamFits(page) /\ TasksFit(page, tasks) /\ StreamComes(page, tasks) /\ page \in ClientPage
      /\ page.call \in Call /\ page.conn \in {"checking", "connected"}
  BY SoundNow DEF Orderly, PeerDrops
<1>1. page.mic /\ page.sending /\ ~Over(page.call) /\ page.call # NoCall
  BY <1>0 DEF StreamFits, NoCall, Over
<1>2. RestartConnection(p, tasks) \/ Move(p, tasks, <<>>) \/ Move(p, tasks, n)
  BY <1>0, <1>1 DEF PeerDrops, ClientPage
<1>3. /\ showing \in Call /\ showing.id = page.call.id /\ showing.status = "reconnecting"
      /\ Live(showing) /\ showing # NoCall
  BY <1>0, <1>1 DEF Call, Status, NoCall, Live, Over
<1> HIDE DEF showing
<1>4. p \in ClientPage /\ p.call = showing /\ p.mic = page.mic /\ p.streams = page.streams
      /\ p.conn = "down" /\ p.sending = page.sending
  BY <1>0, <1>3 DEF ClientPage
<1> HIDE DEF p
<1>5. StreamFits(p)
  BY <1>0, <1>1, <1>3, <1>4 DEF StreamFits, Live
<1>6. TasksFit(p, tasks)
  BY <1>0, <1>1, <1>3, <1>4 DEF TasksFit, Live
<1>7. StreamComes(p, tasks)
  BY <1>0, <1>1, <1>3, <1>4 DEF StreamComes, Live
<1>8. Heard(p, tasks, toPage)
  BY <1>3, <1>4 DEF Heard, RingsAt, TakenAt
<1>9. Plain(n)
  <2>1. CASE page.call.id \in CallId
    BY <2>1, OneIsPlain
  <2>2. CASE page.call.id \notin CallId
    <3>1. Msg("recover", page.call.id) \in Packet /\ Msg("recover", page.call.id).kind = "recover"
      BY <1>0, <2>2 DEF Msg, Packet, Call, NoCall
    <3>2. QED
      BY <3>1 DEF Plain
  <2>3. QED
    BY <2>1, <2>2
<1> HIDE DEF n
<1>10. \E q, m : Alike(p, q) /\ Plain(m) /\ Move(q, tasks, m)
  <2>1. CASE RestartConnection(p, tasks)
    BY <1>4, <2>1, RestartMoves
  <2>2. CASE Move(p, tasks, <<>>) \/ Move(p, tasks, n)
    BY <1>4, <1>9, <2>2, EmptyIsPlain DEF Alike
  <2>3. QED
    BY <1>2, <2>1, <2>2
<1>11. PICK q, m : Alike(p, q) /\ Plain(m) /\ Move(q, tasks, m)
  BY <1>10
<1>12. page' = q /\ tasks' = tasks /\ toBackend' = toBackend \o m
  BY <1>11, MoveDoes DEF Orderly
<1>13. Sounds(p, tasks, toPage)
  BY <1>5, <1>6, <1>7, <1>8 DEF Sounds, MicIsSound
<1>14. Sounds(q, tasks, toPage)
  BY <1>11, <1>13, AlikeSounds
<1>15. QED
  BY <1>11, <1>12, <1>14 DEF PageTurns

LEMMA PeerTimerFiresTurns ==
    ASSUME Orderly, PeerTimerFires
    PROVE  PageTurns(toPage, {})
<1> DEFINE p == [page EXCEPT !.peerTimer = FALSE]
<1>1. Alike(page, p)
  BY SoundNow DEF Orderly, Alike, ClientPage, StreamFits
<1>2. Move(p, tasks, <<>>) \/ Fail(page, tasks)
  BY DEF PeerTimerFires
<1> HIDE DEF p
<1>3. CASE Move(p, tasks, <<>>)
  BY <1>1, <1>3, StayTurns, AllIsRest, EmptyIsPlain
<1>4. CASE Fail(page, tasks)
  BY <1>4, FailTurns, AllIsRest
<1>5. QED
  BY <1>2, <1>3, <1>4

LEMMA SocketTimerFiresTurns ==
    ASSUME Orderly, SocketTimerFires
    PROVE  PageTurns(toPage, {})
<1>1. page \in ClientPage /\ StreamFits(page)
  BY SoundNow DEF Orderly
<1>2. Move(Finished(page, "failed"), tasks, <<>>)
  BY DEF SocketTimerFires
<1>3. QED
  BY <1>1, <1>2, FinishedTurns, AllIsRest, EmptyIsPlain

LEMMA SocketOpensAsks ==
    ASSUME Orderly, SocketOpens
    PROVE  PageAsks(SyncAck)
<1> DEFINE f(x) == IF x.at = "socket" THEN [x EXCEPT !.at = "mic"] ELSE x
           t == {f(x) : x \in tasks} \union {SyncAck}
<1>0. /\ StreamFits(page) /\ TasksFit(page, tasks) /\ StreamComes(page, tasks)
      /\ page \in ClientPage /\ tasks \in SUBSET Task
  BY SoundNow DEF Orderly
<1>1. SyncAck \notin tasks
  BY DEF Orderly, MicHolds, SocketFits, SocketOpens
<1>2. SyncAck \in AckTask /\ SyncAck.kind = "sync" /\ SyncAck.call = None /\ SyncAck.at = "ack"
  BY DEF SyncAck, AckTask, Task
<1>3. Move(page, t, <<Msg("sync", None)>>)
  BY DEF SocketOpens, SyncAck
<1>4. \A x \in tasks : /\ f(x).kind = x.kind /\ f(x).call = x.call /\ f(x) \in Task
                       /\ f(x).at = "ack" <=> x.at = "ack"
                       /\ x.at = "ack" => f(x) = x
                       /\ f(x).at # "ack" => f(x).at = "mic"
                       /\ x.at = "socket" => x.kind = "start"
                       /\ x.at # "socket" => f(x) = x
  BY <1>0 DEF Task
<1>5. \A x \in tasks : f(x) \in t
  OBVIOUS
<1>6. \A y \in t : y = SyncAck \/ \E x \in tasks : y = f(x)
  OBVIOUS
<1>7. SyncAck \in t
  OBVIOUS
<1> HIDE DEF f, t
<1>8. page' = page /\ tasks' = t /\ toBackend' = toBackend \o <<Msg("sync", None)>>
      /\ ~Overtakes(page, t, <<Msg("sync", None)>>)
  BY <1>3, MoveDoes DEF Orderly
<1>9. \A y \in t : y.kind # "accept" /\ (y.at = "mic" => y.kind = "start")
  <2>1. ASSUME NEW y \in t
        PROVE  y.kind # "accept" /\ ~(y # SyncAck /\ y.at = "mic" /\ y.kind # "start")
    BY <1>2, <1>7, <1>8 DEF Overtakes
  <2>2. QED
    BY <1>2, <2>1
<1>10. TasksFit(page, t)
  <2>1. \A y \in t : y.at # "ack" => ~page.mic /\ Live(page.call) /\ page.call.status # "incoming"
    BY <1>0, <1>2, <1>4, <1>6 DEF TasksFit
  <2>2. ASSUME NEW x \in t, NEW y \in t, x.at # "ack", y.at # "ack" PROVE x = y
    <3>1. PICK a \in tasks, b \in tasks : x = f(a) /\ y = f(b)
      BY <1>2, <1>6, <2>2
    <3>2. a = b
      BY <1>0, <1>4, <2>2, <3>1 DEF TasksFit
    <3>3. QED
      BY <3>1, <3>2
  <2>3. ASSUME NEW y \in t, y.kind = "start"
        PROVE  IF page.call = NoCall THEN y.at = "ack"
               ELSE Live(page.call) /\ page.call.id = None /\ (y.at = "ack" => page.mic)
    <3>1. PICK a \in tasks : y = f(a)
      BY <1>2, <1>6, <2>3
    <3>2. QED
      BY <1>0, <1>4, <2>3, <3>1 DEF TasksFit
  <2>4. QED
    BY <1>9, <2>1, <2>2, <2>3 DEF TasksFit
<1>11. StreamComes(page, t)
  <2>1. (\E x \in tasks : x.kind = "start") => \E y \in t : y.kind = "start"
    BY <1>4, <1>5
  <2>2. (\E x \in tasks : x.at # "ack") => \E y \in t : y.at # "ack"
    BY <1>4, <1>5
  <2>3. QED
    BY <1>0, <2>1, <2>2 DEF StreamComes
<1>12. Heard(page, t, toPage)
  <2>1. \A y \in t : y.kind \notin {"restore", "offer"}
    <3>1. \A y \in t : y \in Task
      BY <1>2, <1>4, <1>6 DEF AckTask
    <3>2. QED
      BY <1>9, <3>1 DEF Task
  <2>2. \A x \in tasks : x.kind # "accept"
    BY <1>4, <1>5, <1>9
  <2>3. QED
    BY <1>9, <2>1, <2>2 DEF Heard, RingsAt, TakenAt
<1>13. AckTask \intersect tasks \subseteq t
  <2>1. ASSUME NEW x \in tasks, x \in AckTask PROVE x \in t
    <3>1. f(x) = x
      BY <1>4, <2>1 DEF AckTask
    <3>2. QED
      BY <1>5, <3>1
  <2>2. QED
    BY <2>1
<1>14. QED
  BY <1>0, <1>1, <1>2, <1>7, <1>8, <1>10, <1>11, <1>12, <1>13 DEF PageAsks, Sounds, MicIsSound

-----------------------------------------------------------------------------

LEMMA SocketClosesSounds ==
    ASSUME Orderly, SocketCloses
    PROVE  Sounds(page', tasks', <<>>)
<1> DEFINE waiting == {x \in tasks : x.at = "ack"}
           showing == [page.call EXCEPT !.status = "reconnecting"]
           p == IF Over(page.call) THEN page
                ELSE [page EXCEPT !.call = showing, !.socketTimer = TRUE]
           s == page.terminal \union {x.call : x \in {y \in waiting : y.kind = "accept"}}
           q == [p EXCEPT !.terminal = s]
           t == tasks \ waiting
<1>0. /\ StreamFits(page) /\ TasksFit(page, tasks) /\ StreamComes(page, tasks)
      /\ page \in ClientPage /\ tasks \in SUBSET Task /\ page.call \in Call
  BY SoundNow DEF Orderly
<1>1. ~Over(page.call) =>
         /\ showing \in Call /\ showing.id = page.call.id /\ showing.status = "reconnecting"
         /\ ~Over(showing) /\ showing # NoCall
  BY <1>0 DEF Call, Status, NoCall, Over
<1>2. page' = (IF waiting = {} THEN p ELSE Finished(q, "failed")) /\ tasks' = t
  BY <1>0 DEF SocketCloses, ClientPage
<1>3. ~Overtakes(page', t, <<>>)
  BY <1>2 DEF SocketCloses, Orderly
<1> HIDE DEF showing
<1>4. p \in ClientPage /\ p.mic = page.mic /\ p.streams = page.streams /\ p.conn = page.conn
      /\ p.sending = page.sending /\ p.call = (IF Over(page.call) THEN page.call ELSE showing)
  BY <1>0, <1>1 DEF ClientPage
<1>5. StreamFits(p)
  BY <1>0, <1>1, <1>4 DEF StreamFits
<1>6. Rest(<<>>)
  BY DEF Rest, Has
<1> HIDE DEF p
<1>7. CASE waiting = {}
  <2>1. t = tasks
    BY <1>7
  <2>2. TasksFit(p, tasks)
    <3>1. CASE Over(page.call)
      <4>1. p.call = page.call
        BY <1>4, <3>1
      <4>2. QED
        BY <1>0, <1>4, <4>1 DEF TasksFit
    <3>2. CASE ~Over(page.call)
      <4>1. p.call.id = page.call.id /\ p.call.status = "reconnecting" /\ Live(p.call)
            /\ p.call # NoCall /\ page.call # NoCall
        BY <1>1, <1>4, <3>2 DEF Live, NoCall, Over
      <4>2. QED
        BY <1>0, <1>4, <4>1 DEF TasksFit
    <3>3. QED
      BY <3>1, <3>2
  <2>3. StreamComes(p, tasks)
    BY <1>0, <1>1, <1>4, CallClientConstants DEF StreamComes, Live, StreamFits
  <2>4. Heard(p, tasks, <<>>)
    BY <1>0, <1>1, <1>4 DEF Heard, RingsAt, TakenAt, Has
  <2>5. QED
    BY <1>2, <1>5, <1>7, <2>1, <2>2, <2>3, <2>4 DEF Sounds, MicIsSound
<1>8. CASE waiting # {}
  <2> DEFINE f == Finished(q, "failed")
  <2>1. s \in SUBSET CallId
    BY <1>0 DEF ClientPage, Task
  <2> HIDE DEF s
  <2>2. q \in ClientPage /\ q.call = p.call /\ StreamFits(q)
    BY <1>4, <1>5, <2>1 DEF ClientPage, StreamFits
  <2> HIDE DEF q, t
  <2>3. f \in ClientPage /\ Over(f.call) /\ f.mic = FALSE /\ f.streams = 0
        /\ f.conn = "none" /\ (q.call = NoCall => f.call = NoCall)
    BY <2>2, FinishedStream
  <2>4. page.call = NoCall => f.call = NoCall
    BY <1>4, <2>2, <2>3 DEF NoCall, Over
  <2>5. t \in SUBSET tasks /\ page' = f
    BY <1>2, <1>8 DEF t
  <2> HIDE DEF f
  <2>6. Sounds(f, t, <<>>)
    BY <1>3, <1>6, <2>3, <2>4, <2>5, OverIsSound DEF Orderly
  <2>7. QED
    BY <1>2, <2>5, <2>6
<1>9. QED
  BY <1>7, <1>8

LEMMA AckTimesOutSounds ==
    ASSUME Orderly, NEW x, AckTimesOut(x)
    PROVE  Sounds(page', tasks', toPage)
<1> DEFINE s == page.terminal \union ({x.call} \ {None})
           p == [page EXCEPT !.terminal = s]
           f == Finished(p, "failed")
<1>0. StreamFits(page) /\ page \in ClientPage /\ tasks \in SUBSET Task
  BY SoundNow DEF Orderly
<1>1. s \in SUBSET CallId
  BY <1>0 DEF AckTimesOut, Task, ClientPage
<1>2. page' = f /\ tasks' = tasks \ {x} /\ ~Overtakes(page', tasks', <<>>)
  BY <1>0 DEF AckTimesOut, ClientPage, Orderly
<1> HIDE DEF s
<1>3. p \in ClientPage /\ p.call = page.call /\ StreamFits(p)
  BY <1>0, <1>1 DEF ClientPage, StreamFits
<1> HIDE DEF p
<1>4. f \in ClientPage /\ Over(f.call) /\ f.mic = FALSE /\ f.streams = 0
      /\ f.conn = "none" /\ (p.call = NoCall => f.call = NoCall)
  BY <1>3, FinishedStream
<1> HIDE DEF f
<1>5. QED
  BY <1>2, <1>3, <1>4, OverIsSound, AllIsRest DEF Orderly

-----------------------------------------------------------------------------

\* What the page knows when it handles the next event.
LEMMA NextEvent ==
    ASSUME Orderly, HandleEvent
    PROVE  /\ Head(toPage) \in Event /\ Rest(Tail(toPage)) /\ toPage' = Tail(toPage)
           /\ \A A : Head(toPage) \in A => Has(toPage, A)
           /\ \A x \in AckTask : Head(toPage) \in Answers(x) =>
                 /\ x \in tasks
                 /\ AtMostOnce(toPage, Answers(x)) /\ Served(x) = {}
                 /\ ~Has(toBackend, Asked(x))
           /\ Head(toPage).kind \in {"incoming", "offer", "dismissed"} =>
                 Head(toPage).call \in IncomingCall
           /\ Head(toPage).kind \in {"accepted", "answer", "recovery", "startOk", "rejected"} =>
                 Head(toPage).call \in OutgoingCall
<1>1. toPage \in Seq(Event) /\ toPage # <<>> /\ toPage' = Tail(toPage)
  BY DEF HandleEvent, Orderly, EndedInv, ClientTypes
<1>2. Head(toPage) \in Event /\ Head(toPage) = toPage[1] /\ 1 \in DOMAIN toPage
  BY <1>1
<1>3. Rest(Tail(toPage))
  BY <1>1, TailIsFewer DEF Rest, Fewer
<1>4. \A A : Head(toPage) \in A => Has(toPage, A)
  BY <1>1, TailIsFewer
<1>5. ASSUME NEW x \in AckTask, Head(toPage) \in Answers(x)
      PROVE  /\ x \in tasks /\ AtMostOnce(toPage, Answers(x)) /\ Served(x) = {}
             /\ ~Has(toBackend, Asked(x))
  <2>1. Has(toPage, Answers(x)) /\ IsAwaited(x)
    BY <1>4, <1>5 DEF Orderly, MicHolds
  <2>2. QED
    BY <2>1 DEF IsAwaited
<1>6. EventsFit
  BY DEF Orderly, MicHolds
<1>7. QED
  BY <1>1, <1>2, <1>3, <1>4, <1>5, <1>6 DEF EventsFit

-----------------------------------------------------------------------------

LEMMA OnEndedTurns ==
    ASSUME Orderly, NEW e, Rest(Tail(toPage)), NEW c, OnEnded(c)
    PROVE  Turns(e)
<1>1. page \in ClientPage /\ StreamFits(page) /\ Alike(page, page)
  BY SoundNow DEF Orderly, Alike
<1>2. Move(page, tasks, <<>>) \/ Move(Finished(page, "ended"), tasks, <<>>)
  BY DEF OnEnded
<1>3. QED
  BY <1>1, <1>2, FinishedTurns, StayTurns, EmptyIsPlain DEF Turns

LEMMA OnDismissedTurns ==
    ASSUME Orderly, NEW e, Rest(Tail(toPage)), NEW c \in CallId, OnDismissed(c)
    PROVE  Turns(e)
<1> DEFINE r == Released(page)
           s == page.terminal \union {c}
           p == [r EXCEPT !.call = NoCall, !.socketTimer = FALSE, !.terminal = s]
<1>0. page \in ClientPage /\ StreamFits(page) /\ Alike(page, page)
  BY SoundNow DEF Orderly, Alike
<1>1. r \in ClientPage /\ r.terminal = page.terminal
      /\ r.mic = FALSE /\ r.streams = 0 /\ r.conn = "none"
  BY <1>0, ReleasedDoes, ReleasedStream DEF SameCall
<1>2. s \in SUBSET CallId
  BY <1>0 DEF ClientPage
<1>3. Move(page, tasks, <<>>) \/ Move(p, tasks, <<>>)
  BY <1>1 DEF OnDismissed, ClientPage
<1> HIDE DEF r, s
<1>4. p \in ClientPage /\ p.call = NoCall /\ p.mic = FALSE /\ p.streams = 0 /\ p.conn = "none"
  BY <1>1, <1>2 DEF ClientPage, Call
<1>5. Over(NoCall)
  BY DEF Over, NoCall
<1> HIDE DEF p
<1>6. QED
  BY <1>0, <1>3, <1>4, <1>5, OverTurns, StayTurns, EmptyIsPlain DEF Turns

LEMMA OnIncomingTurns ==
    ASSUME Orderly, NEW e, Rest(Tail(toPage)), NEW c \in IncomingCall,
           Has(toPage, {Msg("incoming", c)}), OnIncoming(c)
    PROVE  Turns(e)
<1> DEFINE showing == [id |-> c, status |-> "incoming"]
           p == [page EXCEPT !.call = showing]
<1>0. page \in ClientPage /\ StreamFits(page) /\ TasksFit(page, tasks) /\ Alike(page, page)
      /\ tasks \in SUBSET Task
  BY SoundNow DEF Orderly, Alike
<1>1. CASE page.call # NoCall
  <2>1. Move(page, tasks, <<Msg("reject", c)>>) /\ Plain(<<Msg("reject", c)>>)
    BY <1>1, OneIsPlain DEF OnIncoming, CallId
  <2>2. QED
    BY <1>0, <2>1, StayTurns DEF Turns
<1>2. CASE page.call = NoCall
  <2>1. Move(p, tasks, <<>>)
    BY <1>2 DEF OnIncoming
  <2>2. showing \in Call /\ showing.id = c /\ showing.status = "incoming" /\ Live(showing) /\ showing # NoCall
        /\ Over(NoCall) /\ c # None
    BY CallClientConstants DEF Call, Status, CallId, Live, Over, NoCall
  <2> HIDE DEF showing
  <2>3. p \in ClientPage /\ p.call = showing /\ p.mic = page.mic /\ p.streams = page.streams
        /\ p.conn = page.conn /\ p.sending = page.sending
    BY <1>0, <2>2 DEF ClientPage
  <2> HIDE DEF p
  <2>4. page' = p /\ tasks' = tasks /\ toBackend' = toBackend \o <<>> /\ ~Overtakes(p, tasks, <<>>)
    BY <2>1, MoveDoes DEF Orderly
  <2>5. \A x \in tasks : x.kind = "sync" /\ x.at = "ack"
    BY <1>2, <2>2, <2>3, <2>4 DEF Overtakes
  <2>6. p.mic = FALSE
    BY <1>0, <1>2, <2>2, <2>3 DEF StreamFits, ClientPage
  <2>7. StreamFits(p)
    BY <1>0, <1>2, <2>2, <2>3, <2>6 DEF StreamFits
  <2>8. TasksFit(p, tasks)
    BY <2>5 DEF TasksFit
  <2>9. StreamComes(p, tasks)
    BY <2>2, <2>3, CallClientConstants DEF StreamComes
  <2>10. Heard(p, tasks, Tail(toPage))
    <3> SUFFICES ASSUME NEW d \in IncomingCall
                 PROVE  /\ RingsAt(p, tasks, Tail(toPage), d) => RingsAt(page, tasks, toPage, d)
                        /\ TakenAt(p, tasks, Tail(toPage), d) => TakenAt(page, tasks, toPage, d)
      BY DEF Heard
    <3>1. TakenAt(p, tasks, Tail(toPage), d) => TakenAt(page, tasks, toPage, d)
      BY <2>5, <2>6 DEF TakenAt, Rest
    <3>2. d # c /\ RingsAt(p, tasks, Tail(toPage), d) => RingsAt(page, tasks, toPage, d)
      BY <2>2, <2>3 DEF RingsAt, Rest
    <3>3. RingsAt(page, tasks, toPage, c)
      BY DEF RingsAt, Has
    <3>4. QED
      BY <3>1, <3>2, <3>3
  <2>11. QED
    BY <2>4, <2>7, <2>8, <2>9, <2>10, EmptyIsPlain DEF Turns, PageTurns, Sounds, MicIsSound
<1>3. QED
  BY <1>1, <1>2

LEMMA OnAcceptedTurns ==
    ASSUME Orderly, NEW e, Rest(Tail(toPage)), NEW c \in OutgoingCall, OnAccepted(c)
    PROVE  Turns(e)
<1> DEFINE n == NewPeer(page)
           showing == [page.call EXCEPT !.status = "connecting"]
           p == [n EXCEPT !.call = showing, !.offered = TRUE]
<1>0. page \in ClientPage /\ StreamFits(page) /\ TasksFit(page, tasks) /\ StreamComes(page, tasks)
      /\ Alike(page, page) /\ tasks \in SUBSET Task /\ page.call \in Call
  BY SoundNow DEF Orderly, Alike
<1>1. CASE page.call.id # c
  <2>1. Move(page, tasks, <<>>)
    BY <1>1 DEF OnAccepted
  <2>2. QED
    BY <1>0, <2>1, StayTurns, EmptyIsPlain DEF Turns
<1>2. CASE page.call.id = c
  <2>1. n \in ClientPage /\ n.call = page.call /\ n.mic = page.mic /\ n.streams = page.streams
        /\ n.conn = "new" /\ n.sending = page.mic
    BY <1>0 DEF NewPeer, ClientPage
  <2>2. c # None /\ page.call # NoCall
    BY <1>2, CallClientConstants DEF NoCall
  <2>3. showing \in Call /\ showing.id = c /\ showing.status = "connecting" /\ Live(showing) /\ showing # NoCall
    BY <1>0, <1>2, <2>2 DEF Call, Status, NoCall, Live, Over
  <2>4. Move(p, tasks, <<Msg("offer", c)>>)
    BY <1>2, <2>1 DEF OnAccepted, ClientPage
  <2> HIDE DEF n, showing
  <2>5. p \in ClientPage /\ p.call = showing /\ p.mic = page.mic /\ p.streams = page.streams
        /\ p.conn = "new" /\ p.sending = page.mic
    BY <2>1, <2>3 DEF ClientPage
  <2> HIDE DEF p
  <2>6. page' = p /\ tasks' = tasks /\ toBackend' = toBackend \o <<Msg("offer", c)>>
        /\ ~Overtakes(p, tasks, <<Msg("offer", c)>>)
    BY <2>4, MoveDoes DEF Orderly
  <2>7. Live(page.call)
    BY <1>2, <2>3, <2>5, <2>6 DEF Overtakes, Live
  <2>8. page.mic
    <3> SUFFICES ASSUME ~page.mic PROVE FALSE
      OBVIOUS
    <3>1. PICK x \in tasks : x.at # "ack"
      BY <1>0, <1>2, <2>7 DEF StreamComes
    <3>2. x.at = "mic"
      <4>1. x.kind # "start"
        BY <1>0, <1>2, <2>2 DEF TasksFit
      <4>2. QED
        BY <1>0, <3>1, <4>1 DEF Task
    <3>3. QED
      BY <1>0, <2>5, <2>6, <3>2 DEF Overtakes, ClientPage
  <2>9. StreamFits(p)
    BY <1>0, <2>3, <2>5, <2>8 DEF StreamFits, Live
  <2>10. TasksFit(p, tasks)
    BY <1>0, <1>2, <2>2, <2>3, <2>5, <2>8 DEF TasksFit
  <2>11. StreamComes(p, tasks)
    BY <2>2, <2>3, <2>5, <2>8 DEF StreamComes
  <2>12. Heard(p, tasks, Tail(toPage))
    BY <1>2, <2>3, <2>5 DEF Heard, RingsAt, TakenAt, Rest
  <2>13. Plain(<<Msg("offer", c)>>)
    BY OneIsPlain DEF CallId
  <2>14. QED
    BY <2>6, <2>9, <2>10, <2>11, <2>12, <2>13 DEF Turns, PageTurns, Sounds, MicIsSound
<1>3. QED
  BY <1>1, <1>2

LEMMA OnOfferTurns ==
    ASSUME Orderly, NEW e, Rest(Tail(toPage)), NEW c \in IncomingCall,
           Has(toPage, {Msg("offer", c)}), OnOffer(c)
    PROVE  Turns(e)
<1> DEFINE x == [kind |-> "offer", at |-> "mic", call |-> c]
           t == tasks \union {x}
           n == NewPeer(page)
           s == Tail(toPage)
<1>0. page \in ClientPage /\ StreamFits(page) /\ TasksFit(page, tasks) /\ StreamComes(page, tasks)
      /\ Alike(page, page) /\ tasks \in SUBSET Task /\ page.call \in Call
  BY SoundNow DEF Orderly, Alike
<1>1. c \in CallId
  BY DEF CallId
<1>2. CASE \E q, m : Alike(page, q) /\ Plain(m) /\ Move(q, tasks, m)
  BY <1>2, StayTurns DEF Turns
<1>3. CASE page.call.id # c
  <2>1. Move(page, tasks, <<>>)
    BY <1>3 DEF OnOffer
  <2>2. QED
    BY <1>0, <1>2, <2>1, EmptyIsPlain
<1>4. CASE page.call.id = c /\ page.conn # "none"
  <2>1. AnswerOffer(page, tasks, c)
    BY <1>4 DEF OnOffer
  <2>2. QED
    BY <1>0, <1>1, <1>2, <1>4, <2>1, AnswerMoves
<1>5. CASE page.call.id = c /\ page.conn = "none" /\ page.mic
  <2>1. AnswerOffer(n, tasks, c)
    BY <1>5 DEF OnOffer
  <2>2. Alike(page, n) /\ n \in ClientPage /\ n.conn # "none"
    BY <1>0, <1>5, NewPeerIsAlike DEF Alike, NewPeer, ClientPage
  <2> HIDE DEF n
  <2>3. QED
    BY <1>1, <1>2, <2>1, <2>2, AnswerMoves, AlikeAgain
<1>6. CASE page.call.id = c /\ page.conn = "none" /\ ~page.mic
  <2>1. Move(page, t, <<>>)
    BY <1>6 DEF OnOffer
  <2>2. x.kind = "offer" /\ x.at = "mic" /\ x.call = c /\ x \in t
    OBVIOUS
  <2>3. page' = page /\ tasks' = t /\ toBackend' = toBackend \o <<>> /\ ~Overtakes(page, t, <<>>)
    BY <2>1, MoveDoes DEF Orderly
  <2>4. TakenAt(page, tasks, toPage, c)
    BY DEF TakenAt, Has
  <2>5. ~RingsAt(page, tasks, toPage, c)
    BY <2>4 DEF Orderly, MicHolds, TakenIsSilent, Took
  <2>6. /\ page.call.status # "incoming"
        /\ \A y \in tasks : y.kind = "accept" /\ y.at = "mic" => y.call # c
    BY <1>6, <2>5 DEF RingsAt
  <2> HIDE DEF x
  <2>7. Live(page.call)
    BY <2>2, <2>3 DEF Overtakes, Live
  <2>8. c # None /\ page.call # NoCall
    BY <1>1, <1>6, CallClientConstants DEF CallId, NoCall
  <2>9. \A y \in tasks : y.at = "ack" \/ y = x
    <3> SUFFICES ASSUME NEW y \in tasks, y.at # "ack", y # x PROVE FALSE
      OBVIOUS
    <3>1. y.kind # "start"
      BY <1>0, <1>6, <2>8 DEF TasksFit
    <3>2. y.kind # "accept"
      <4>1. y.kind = "accept" => y.at = "mic"
        BY <1>0, <3>1 DEF Task
      <4>2. QED
        BY <1>0, <1>6, <2>6, <4>1 DEF TasksFit
    <3>3. y.at = "mic" /\ y.kind \in {"sync", "restore", "offer"}
      BY <1>0, <3>1, <3>2 DEF Task
    <3>4. y.kind \notin {"sync", "restore"}
      BY <2>2, <2>3 DEF Overtakes
    <3>5. y.kind = "offer" /\ y.call = c
      BY <1>0, <1>6, <3>3, <3>4 DEF TasksFit
    <3>6. QED
      BY <1>0, <3>3, <3>5 DEF Task, x
  <2>10. \A y \in t : y = x \/ (y \in tasks /\ y.at = "ack")
    BY <2>9
  <2>11. SyncAck \in t => SyncAck \in tasks
    BY <2>2 DEF SyncAck
  <2> HIDE DEF t
  <2>12. TasksFit(page, t)
    BY <1>0, <1>6, <2>2, <2>6, <2>7, <2>10, <2>11 DEF TasksFit
  <2>13. StreamComes(page, t)
    BY <1>6, <2>2, <2>8 DEF StreamComes
  <2>14. Heard(page, t, s)
    <3> SUFFICES ASSUME NEW d \in IncomingCall
                 PROVE  /\ RingsAt(page, t, s, d) => RingsAt(page, tasks, toPage, d)
                        /\ TakenAt(page, t, s, d) => TakenAt(page, tasks, toPage, d)
      BY DEF Heard
    <3>1. RingsAt(page, t, s, d) => RingsAt(page, tasks, toPage, d)
      BY <2>2, <2>10 DEF RingsAt, Rest
    <3>2. d # c /\ TakenAt(page, t, s, d) => TakenAt(page, tasks, toPage, d)
      BY <1>6, <2>2, <2>10 DEF TakenAt, Rest
    <3>3. QED
      BY <2>4, <3>1, <3>2
  <2>15. (AckTask \intersect tasks) \ AnsweredBy(e) \subseteq t
    BY DEF t
  <2>16. QED
    BY <1>0, <2>3, <2>11, <2>12, <2>13, <2>14, <2>15, EmptyIsPlain
       DEF Turns, PageTurns, Sounds, MicIsSound
<1>7. QED
  BY <1>3, <1>4, <1>5, <1>6

LEMMA OnAnswerTurns ==
    ASSUME Orderly, NEW e, Rest(Tail(toPage)), NEW c \in CallId, OnAnswer(c)
    PROVE  Turns(e)
<1> DEFINE n == IF page.conn = "new" THEN "checking" ELSE page.conn
           p == [page EXCEPT !.offered = FALSE, !.conn = n]
<1>0. page \in ClientPage /\ StreamFits(page) /\ Alike(page, page)
  BY SoundNow DEF Orderly, Alike
<1>1. n \in {"none", "new", "checking", "connected", "down"} /\ (n = "none" <=> page.conn = "none")
  BY <1>0 DEF ClientPage
<1>2. Move(page, tasks, <<>>) \/ Fail(page, tasks) \/ Move(p, tasks, <<>>)
  BY DEF OnAnswer
<1> HIDE DEF n
<1>3. Alike(page, p)
  BY <1>0, <1>1 DEF Alike, ClientPage, StreamFits
<1> HIDE DEF p
<1>4. QED
  BY <1>0, <1>2, <1>3, StayTurns, FailTurns, EmptyIsPlain DEF Turns

LEMMA OnRecoveryNeededTurns ==
    ASSUME Orderly, NEW e, Rest(Tail(toPage)), NEW c \in CallId, OnRecoveryNeeded(c)
    PROVE  Turns(e)
<1>1. page \in ClientPage /\ Alike(page, page)
  BY SoundNow DEF Orderly, Alike
<1>2. Move(page, tasks, <<>>) \/ RestartConnection(page, tasks)
  BY DEF OnRecoveryNeeded
<1>3. \E q, m : Alike(page, q) /\ Plain(m) /\ Move(q, tasks, m)
  BY <1>1, <1>2, RestartMoves, EmptyIsPlain
<1>4. QED
  BY <1>3, StayTurns DEF Turns

\* A handler that got its acknowledgement goes on, with the call it had.
LEMMA LeavesTurns ==
    ASSUME Orderly, NEW e, Rest(Tail(toPage)), NEW t \in SUBSET tasks, NEW m, Plain(m),
           NEW p, Alike(page, p), Move(p, t, m),
           (AckTask \intersect tasks) \ AnsweredBy(e) \subseteq t,
           \A x \in tasks \ t : x.at = "ack" /\ x.kind \in {"start", "sync"},
           Live(page.call) => \A x \in tasks \ t : x.kind # "start"
    PROVE  Turns(e)
<1>0. page \in ClientPage /\ StreamFits(page) /\ TasksFit(page, tasks) /\ StreamComes(page, tasks)
  BY SoundNow DEF Orderly
<1>1. page' = p /\ tasks' = t /\ toBackend' = toBackend \o m
  BY MoveDoes DEF Orderly
<1>2. TasksFit(page, t)
  BY <1>0 DEF TasksFit
<1>3. StreamComes(page, t)
  BY <1>0 DEF StreamComes
<1>4. Heard(page, t, Tail(toPage))
  <2>1. \A x \in tasks : x.kind = "accept" => x \in t
    OBVIOUS
  <2>2. QED
    BY <2>1 DEF Heard, RingsAt, TakenAt, Rest
<1>5. Sounds(p, t, Tail(toPage))
  BY <1>0, <1>2, <1>3, <1>4, AlikeSounds DEF Sounds, MicIsSound
<1>6. QED
  BY <1>1, <1>5 DEF Turns, PageTurns

-----------------------------------------------------------------------------

LEMMA AckTasks ==
    /\ StartAck \in AckTask /\ SyncAck \in AckTask
    /\ \A c \in CallId : AcceptAck(c) \in AckTask
    /\ \A x \in AckTask : x = StartAck \/ x = SyncAck \/ \E c \in CallId : x = AcceptAck(c)
BY DEF StartAck, SyncAck, AcceptAck, AckTask, Task

LEMMA StartWaits ==
    ASSUME tasks \in SUBSET Task, StartAck \in tasks
    PROVE  Waiting("start") = StartAck
<1>1. StartAck.kind = "start" /\ StartAck.at = "ack"
  BY DEF StartAck
<1>2. \A x \in tasks : x.kind = "start" /\ x.at = "ack" => x = StartAck
  BY DEF StartAck, Task
<1>3. QED
  BY <1>1, <1>2 DEF Waiting

LEMMA SyncWaits ==
    ASSUME tasks \in SUBSET Task, SyncAck \in tasks
    PROVE  Waiting("sync") = SyncAck
<1>1. SyncAck.kind = "sync" /\ SyncAck.at = "ack"
  BY DEF SyncAck
<1>2. \A x \in tasks : x.kind = "sync" /\ x.at = "ack" => x = SyncAck
  BY DEF SyncAck, Task
<1>3. QED
  BY <1>1, <1>2 DEF Waiting

LEMMA StartedIsDone ==
    ASSUME NEW e \in Event, e.kind \in {"startOk", "startFailed"}
    PROVE  e \in Answers(StartAck) /\ StartAck \in AnsweredBy(e)
BY AckTasks DEF Answers, AnsweredBy, StartAck

LEMMA SyncedIsDone ==
    ASSUME NEW e \in Event, e.kind \in {"syncedNone", "syncedRinging", "syncedActive"}
    PROVE  e \in Answers(SyncAck) /\ SyncAck \in AnsweredBy(e)
BY AckTasks DEF Answers, AnsweredBy, SyncAck

LEMMA AcceptedIsDone ==
    ASSUME NEW e \in Event, e.kind \in {"acceptOk", "acceptFailed"}
    PROVE  e \in Answers(AcceptAck(e.call)) /\ AcceptAck(e.call) \in AnsweredBy(e)
<1>1. e.call \in CallId
  BY DEF Event
<1>2. AcceptAck(e.call) \in AckTask
  BY <1>1, AckTasks
<1>3. QED
  BY <1>2 DEF Answers, AnsweredBy, AcceptAck

\* The acknowledgement of a start that failed.
LEMMA StartFailedTurns ==
    ASSUME Orderly, NEW e, Rest(Tail(toPage)), StartAck \in tasks, StartAck \in AnsweredBy(e),
           Fail(page, tasks \ {Waiting("start")})
    PROVE  Turns(e)
<1>1. Waiting("start") = StartAck
  BY SoundNow, StartWaits DEF Orderly
<1>2. QED
  BY <1>1, FailTurns DEF Turns

LEMMA OnStartedTurns ==
    ASSUME Orderly, NEW e, Rest(Tail(toPage)), StartAck \in tasks, StartAck \in AnsweredBy(e),
           NEW c \in OutgoingCall, OnStarted(c)
    PROVE  Turns(e)
<1> DEFINE showing == [id |-> c, status |-> "calling"]
           p == [page EXCEPT !.call = showing]
           t == tasks \ {StartAck}
<1>0. page \in ClientPage /\ StreamFits(page) /\ TasksFit(page, tasks) /\ StreamComes(page, tasks)
      /\ Alike(page, page) /\ tasks \in SUBSET Task /\ page.call \in Call
  BY SoundNow DEF Orderly, Alike
<1>1. Waiting("start") = StartAck
  BY <1>0, StartWaits
<1>2. StartAck.kind = "start" /\ StartAck.at = "ack"
  BY DEF StartAck
<1>3. (AckTask \intersect tasks) \ AnsweredBy(e) \subseteq t
  OBVIOUS
<1>4. CASE page.call = NoCall
  <2>1. Move(page, t, <<Msg("end", c)>>) /\ Plain(<<Msg("end", c)>>)
    BY <1>1, <1>4, OneIsPlain DEF OnStarted, CallId
  <2>2. ~Live(page.call)
    BY <1>4 DEF Live, Over, NoCall
  <2>3. \A x \in tasks \ t : x.at = "ack" /\ x.kind \in {"start", "sync"}
    BY <1>2
  <2> HIDE DEF t
  <2>4. t \in SUBSET tasks
    BY DEF t
  <2>5. QED
    BY <1>0, <1>3, <2>1, <2>2, <2>3, <2>4, LeavesTurns
<1>5. CASE page.call # NoCall
  <2>1. Move(p, t, <<>>)
    BY <1>1, <1>5 DEF OnStarted
  <2>2. page.call.id = None /\ page.mic
    BY <1>0, <1>2, <1>5 DEF TasksFit
  <2>3. /\ showing \in Call /\ showing.id = c /\ showing.status = "calling" /\ Live(showing) /\ showing # NoCall
        /\ c # None /\ c \notin IncomingCall
    BY CallClientConstants DEF Call, Status, CallId, Live, Over, NoCall
  <2> HIDE DEF showing
  <2>4. p \in ClientPage /\ p.call = showing /\ p.mic = page.mic /\ p.streams = page.streams
        /\ p.conn = page.conn /\ p.sending = page.sending
    BY <1>0, <2>3 DEF ClientPage
  <2> HIDE DEF p
  <2>5. page' = p /\ tasks' = t /\ toBackend' = toBackend \o <<>> /\ ~Overtakes(p, t, <<>>)
    BY <2>1, MoveDoes DEF Orderly
  <2>6. \A x \in t : x \in tasks /\ x.kind = "sync" /\ x.at = "ack"
    BY <2>2, <2>3, <2>4, <2>5 DEF Overtakes
  <2>7. StreamFits(p)
    BY <1>0, <2>2, <2>3, <2>4 DEF StreamFits, Live
  <2>8. TasksFit(p, t)
    BY <2>6 DEF TasksFit
  <2>9. StreamComes(p, t)
    BY <2>2, <2>3, <2>4 DEF StreamComes
  <2>10. Heard(p, t, Tail(toPage))
    BY <2>3, <2>4, <2>6 DEF Heard, RingsAt, TakenAt, Rest
  <2>11. SyncAck \in t => SyncAck \in tasks
    OBVIOUS
  <2> HIDE DEF t
  <2>12. QED
    BY <1>3, <2>5, <2>7, <2>8, <2>9, <2>10, <2>11, EmptyIsPlain
       DEF Turns, PageTurns, Sounds, MicIsSound
<1>6. QED
  BY <1>4, <1>5

LEMMA OnAcceptFailedTurns ==
    ASSUME Orderly, NEW e, Rest(Tail(toPage)), NEW c \in CallId, AcceptAck(c) \in AnsweredBy(e),
           OnAcceptDone(c, FALSE)
    PROVE  Turns(e)
<1> DEFINE t == tasks \ {AcceptAck(c)}
           s == page.terminal \union {c}
           q == [page EXCEPT !.terminal = s]
<1>0. page \in ClientPage /\ StreamFits(page)
  BY SoundNow DEF Orderly
<1>1. Move(Finished(q, "failed"), t, Ending(page, "end", c))
  BY <1>0 DEF OnAcceptDone, AcceptAck, ClientPage
<1>2. s \in SUBSET CallId
  BY <1>0 DEF ClientPage
<1> HIDE DEF s
<1>3. q \in ClientPage /\ q.call = page.call /\ StreamFits(q)
  BY <1>0, <1>2 DEF ClientPage, StreamFits
<1> HIDE DEF q
<1>4. (AckTask \intersect tasks) \ AnsweredBy(e) \subseteq t /\ t \in SUBSET tasks
  OBVIOUS
<1> HIDE DEF t
<1>5. QED
  BY <1>1, <1>3, <1>4, EndingIsPlain, FinishedTurns DEF Turns

LEMMA OnAcceptedHereTurns ==
    ASSUME Orderly, NEW e, Rest(Tail(toPage)), NEW c \in CallId,
           AcceptAck(c) \in tasks, AcceptAck(c) \in AnsweredBy(e),
           Has(toPage, {Msg("acceptOk", c)}), OnAcceptDone(c, TRUE)
    PROVE  Turns(e)
<1> DEFINE showing == [page.call EXCEPT !.status = "connecting"]
           p == [page EXCEPT !.call = showing]
           t == tasks \ {AcceptAck(c)}
<1>0. page \in ClientPage /\ StreamFits(page) /\ TasksFit(page, tasks) /\ StreamComes(page, tasks)
      /\ tasks \in SUBSET Task /\ page.call \in Call
  BY SoundNow DEF Orderly
<1>1. AcceptAck(c).kind = "accept" /\ AcceptAck(c).at = "ack" /\ AcceptAck(c).call = c
  BY DEF AcceptAck
<1>2. page.call.id = c /\ page.mic /\ SyncAck \notin tasks
  BY <1>0, <1>1 DEF TasksFit
<1>3. c # None /\ page.call # NoCall
  BY <1>2, CallClientConstants DEF NoCall, CallId
<1>4. Move(p, t, <<>>)
  BY <1>0, <1>3 DEF OnAcceptDone, AcceptAck, ClientPage
<1>5. showing \in Call /\ showing.id = c /\ showing.status = "connecting" /\ Live(showing) /\ showing # NoCall
  BY <1>0, <1>2, <1>3 DEF Call, Status, NoCall, Live, Over
<1> HIDE DEF showing
<1>6. p \in ClientPage /\ p.call = showing /\ p.mic = page.mic /\ p.streams = page.streams
      /\ p.conn = page.conn /\ p.sending = page.sending
  BY <1>0, <1>5 DEF ClientPage
<1> HIDE DEF p
<1>7. page' = p /\ tasks' = t /\ toBackend' = toBackend \o <<>>
  BY <1>4, MoveDoes DEF Orderly
<1>8. StreamFits(p)
  BY <1>0, <1>2, <1>5, <1>6 DEF StreamFits, Live
<1>9. TasksFit(p, t)
  BY <1>0, <1>2, <1>3, <1>5, <1>6 DEF TasksFit
<1>10. StreamComes(p, t)
  BY <1>2, <1>3, <1>5, <1>6 DEF StreamComes
<1>11. Heard(p, t, Tail(toPage))
  <2> SUFFICES ASSUME NEW d \in IncomingCall
               PROVE  /\ RingsAt(p, t, Tail(toPage), d) => RingsAt(page, tasks, toPage, d)
                      /\ TakenAt(p, t, Tail(toPage), d) => TakenAt(page, tasks, toPage, d)
    BY DEF Heard
  <2>1. RingsAt(p, t, Tail(toPage), d) => RingsAt(page, tasks, toPage, d)
    BY <1>5, <1>6 DEF RingsAt, Rest
  <2>2. d # c /\ TakenAt(p, t, Tail(toPage), d) => TakenAt(page, tasks, toPage, d)
    BY <1>5, <1>6 DEF TakenAt, Rest
  <2>3. TakenAt(page, tasks, toPage, c)
    BY DEF TakenAt, Has
  <2>4. QED
    BY <2>1, <2>2, <2>3
<1>12. (AckTask \intersect tasks) \ AnsweredBy(e) \subseteq t /\ SyncAck \notin t
  BY <1>2
<1> HIDE DEF t
<1>13. QED
  BY <1>7, <1>8, <1>9, <1>10, <1>11, <1>12, EmptyIsPlain
     DEF Turns, PageTurns, Sounds, MicIsSound

LEMMA OnSyncedNoneTurns ==
    ASSUME Orderly, NEW e, Rest(Tail(toPage)), SyncAck \in tasks, SyncAck \in AnsweredBy(e),
           OnSyncedNone
    PROVE  Turns(e)
<1> DEFINE p == [page EXCEPT !.socketTimer = FALSE]
           t == tasks \ {SyncAck}
<1>0. page \in ClientPage /\ StreamFits(page) /\ tasks \in SUBSET Task
  BY SoundNow DEF Orderly
<1>1. Alike(page, p) /\ p \in ClientPage
  BY <1>0 DEF Alike, ClientPage, StreamFits
<1>2. Waiting("sync") = SyncAck
  BY <1>0, SyncWaits
<1>3. Move(Finished(p, "ended"), t, <<>>) \/ Move(p, t, <<>>)
  BY <1>2 DEF OnSyncedNone
<1>4. (AckTask \intersect tasks) \ AnsweredBy(e) \subseteq t /\ t \in SUBSET tasks
  OBVIOUS
<1>5. \A x \in tasks \ t : x.at = "ack" /\ x.kind = "sync"
  BY DEF SyncAck
<1> HIDE DEF p, t
<1>6. CASE Move(Finished(p, "ended"), t, <<>>)
  BY <1>0, <1>1, <1>4, <1>6, FinishedTurns, EmptyIsPlain DEF Turns, Alike
<1>7. CASE Move(p, t, <<>>)
  BY <1>1, <1>4, <1>5, <1>7, LeavesTurns, EmptyIsPlain
<1>8. QED
  BY <1>3, <1>6, <1>7

\* The gateway knows of c: the page shows it from now on, or has left it.
LEMMA OnSyncedTurns ==
    ASSUME Orderly, NEW e, Rest(Tail(toPage)), SyncAck \in tasks, SyncAck \in AnsweredBy(e),
           NEW c \in CallId, NEW on \in BOOLEAN, OnSynced(c, on),
           on => Has(toPage, {Msg("syncedActive", c)}),
           ~on => Has(toPage, {Msg("syncedRinging", c)})
    PROVE  Turns(e)
<1> DEFINE t == tasks \ {SyncAck}
           p == [page EXCEPT !.socketTimer = FALSE]
           q == IF p.call.id \notin {None, c} THEN Released(p) ELSE p
           status == IF ~on THEN IF c \in IncomingCall THEN "incoming" ELSE "calling"
                     ELSE IF q.conn = "connected" THEN "active" ELSE "reconnecting"
           showing == [id |-> c, status |-> status]
           r == [q EXCEPT !.call = showing]
           x == [kind |-> IF on THEN "restore" ELSE "sync", at |-> "mic", call |-> c]
           s == Tail(toPage)
<1>0. /\ page \in ClientPage /\ StreamFits(page) /\ TasksFit(page, tasks) /\ StreamComes(page, tasks)
      /\ tasks \in SUBSET Task /\ page.call \in Call
  BY SoundNow DEF Orderly
<1>1. Waiting("sync") = SyncAck
  BY <1>0, SyncWaits
<1>2. \/ Move(p, t, <<Msg("end", c)>>)
      \/ ~r.mic /\ (c \in OutgoingCall \/ on) /\ Move(r, t \union {x}, <<>>)
      \/ r.mic /\ on /\ AfterSync(r, t, c)
      \/ ~on /\ (r.mic \/ c \notin OutgoingCall) /\ Move(r, t, <<>>)
  BY <1>1 DEF OnSynced
<1>3. /\ t \in SUBSET tasks /\ \A y \in tasks \ t : y = SyncAck
      /\ (AckTask \intersect tasks) \ AnsweredBy(e) \subseteq t /\ SyncAck \notin t
  OBVIOUS
<1>4. SyncAck.kind = "sync" /\ SyncAck.at = "ack" /\ SyncAck.call = None
  BY DEF SyncAck
<1>5. /\ x.at = "mic" /\ x.call = c /\ x.kind = (IF on THEN "restore" ELSE "sync") /\ x \in Task
      /\ x # SyncAck
  BY <1>4 DEF Task
<1>6. /\ Alike(page, p) /\ p \in ClientPage /\ StreamFits(p)
      /\ p.conn = page.conn /\ p.sending = page.sending
      /\ p.call = page.call /\ p.mic = page.mic /\ p.streams = page.streams
  BY <1>0 DEF Alike, ClientPage, StreamFits
<1> HIDE DEF p, t, x
<1>7. /\ q \in ClientPage /\ q.call = page.call
      /\ q.mic => page.mic /\ page.call.id \in {None, c} /\ q.streams = page.streams
                  /\ q.conn = page.conn /\ q.sending = page.sending
      /\ ~q.mic => q.streams = 0 /\ q.conn = "none"
  <2>1. CASE page.call.id \in {None, c}
    BY <1>0, <1>6, <2>1 DEF StreamFits
  <2>2. CASE page.call.id \notin {None, c}
    <3>1. q = Released(p)
      BY <1>6, <2>2
    <3>2. /\ q \in ClientPage /\ q.call = p.call /\ q.mic = FALSE /\ q.streams = 0 /\ q.conn = "none"
      <4> HIDE DEF q
      <4> QED BY <1>6, <3>1, ReleasedDoes, ReleasedStream DEF SameCall
    <3>3. QED
      BY <1>6, <3>2
  <2>3. QED
    BY <2>1, <2>2
<1>8. /\ status \in {"incoming", "calling", "active", "reconnecting"}
      /\ status = "incoming" <=> ~on /\ c \in IncomingCall
      /\ ~on /\ c \notin IncomingCall => status = "calling"
      /\ on /\ q.conn = "none" => status = "reconnecting"
  OBVIOUS
<1>9. c # None /\ ~(c \in IncomingCall /\ c \in OutgoingCall)
  BY CallClientConstants DEF CallId
<1> HIDE DEF q, status
<1>10. showing \in Call /\ showing.id = c /\ showing.status = status /\ Live(showing) /\ showing # NoCall
  BY <1>8, <1>9 DEF Call, Status, Live, Over, NoCall
<1> HIDE DEF showing
<1>11. /\ r \in ClientPage /\ r.call = showing /\ r.mic = q.mic /\ r.streams = q.streams
       /\ r.conn = q.conn /\ r.sending = q.sending
  BY <1>7, <1>10 DEF ClientPage
<1> HIDE DEF r
<1>12. \A y \in tasks : y.kind # "accept"
  BY <1>0 DEF TasksFit
<1>13. ASSUME NEW n, NEW u, NEW m, t \subseteq u, n.call = showing, ~Overtakes(n, u, m),
              Over(page.call) \/ page.call.id # c
       PROVE  t = {}
  <2>1. \A y \in tasks \intersect u : y.kind = "sync" /\ y.at = "ack"
    BY <1>10, <1>13 DEF Overtakes
  <2>2. \A y \in tasks \intersect u : y = SyncAck
    BY <1>0, <2>1 DEF Task, SyncAck
  <2>3. QED
    BY <1>3, <1>13, <2>2
<1>14. Live(page.call) /\ page.call.id = None => \E y \in t : y.kind = "start"
  <2> SUFFICES ASSUME Live(page.call), page.call.id = None
               PROVE  \E y \in t : y.kind = "start"
    OBVIOUS
  <2>1. PICK y \in tasks : y.kind = "start"
    BY <1>0 DEF StreamComes
  <2>2. y \in t
    BY <1>4, <2>1 DEF t
  <2>3. QED
    BY <2>1, <2>2
<1>15. ~Over(page.call) /\ page.call.id = c =>
          \A y \in t : y.kind \in {"sync", "restore", "offer"} /\ y.at = "mic"
  <2> SUFFICES ASSUME ~Over(page.call), page.call.id = c, NEW y \in t
               PROVE  y.kind \in {"sync", "restore", "offer"} /\ y.at = "mic"
    OBVIOUS
  <2>1. y.kind # "start"
    BY <1>0, <1>3, <1>9 DEF TasksFit, NoCall, Over
  <2>2. y # SyncAck /\ y \in Task /\ y.kind # "accept"
    BY <1>0, <1>3, <1>12
  <2>3. QED
    BY <2>1, <2>2 DEF Task, SyncAck
\* A page that keeps the microphone keeps the call, and no handler is left.
<1>16. ASSUME NEW n, NEW m, n.call = showing, ~Overtakes(n, t, m), r.mic
       PROVE  t = {} /\ page.call.id = c /\ page.mic
  <2>1. page.mic /\ page.call.id \in {None, c} /\ ~Over(page.call)
    BY <1>0, <1>7, <1>11, <1>16 DEF StreamFits
  <2>2. page.call.id = c
    BY <1>13, <1>14, <1>16, <2>1 DEF Live
  <2>3. \A y \in t : y.at = "ack"
    BY <1>0, <1>3, <2>1 DEF TasksFit
  <2>4. t = {}
    BY <1>15, <2>1, <2>2, <2>3
  <2>5. QED
    BY <2>1, <2>2, <2>4
<1>17. ASSUME r.mic => status # "incoming", status = "incoming" => c \in IncomingCall
       PROVE  StreamFits(r)
  BY <1>0, <1>7, <1>10, <1>11, <1>17 DEF StreamFits, ClientPage, Live
<1>18. ASSUME NEW d \in IncomingCall, d # c
       PROVE  \A u : u \subseteq t \union {x} =>
                 /\ RingsAt(r, u, s, d) => RingsAt(page, tasks, toPage, d)
                 /\ TakenAt(r, u, s, d) => TakenAt(page, tasks, toPage, d)
  BY <1>3, <1>5, <1>10, <1>11, <1>12, <1>18 DEF RingsAt, TakenAt, Rest
<1>19. CASE Move(p, t, <<Msg("end", c)>>)
  <2>1. Plain(<<Msg("end", c)>>) /\ \A y \in tasks \ t : y.at = "ack" /\ y.kind = "sync"
    BY <1>3, <1>4, OneIsPlain
  <2>2. QED
    BY <1>3, <1>6, <1>19, <2>1, LeavesTurns
<1>20. CASE ~r.mic /\ (c \in OutgoingCall \/ on) /\ Move(r, t \union {x}, <<>>)
  <2> DEFINE u == t \union {x}
  <2>1. page' = r /\ tasks' = u /\ toBackend' = toBackend \o <<>> /\ ~Overtakes(r, u, <<>>)
    BY <1>20, MoveDoes DEF Orderly
  <2>2. \A y \in u : y = x
    <3>1. CASE Over(page.call) \/ page.call.id # c
      BY <1>11, <1>13, <2>1, <3>1
    <3>2. CASE ~Over(page.call) /\ page.call.id = c
      <4>1. ASSUME NEW y \in t, y # x PROVE FALSE
        <5>1. y.at = "mic" /\ y.kind # "start" /\ x \in u /\ y \in u
          BY <1>15, <3>2, <4>1
        <5>2. QED
          BY <1>5, <2>1, <4>1, <5>1 DEF Overtakes
      <4>2. QED
        BY <4>1
    <3>3. QED
      BY <3>1, <3>2
  <2>3. x \in u /\ status # "incoming"
    BY <1>8, <1>9, <1>20
  <2>4. StreamFits(r)
    BY <1>17, <2>3
  <2>5. SyncAck \notin u
    BY <1>3, <1>5
  <2>6. (AckTask \intersect tasks) \ AnsweredBy(e) \subseteq u
    BY <1>3
  <2>7. u \subseteq t \union {x}
    OBVIOUS
  <2> HIDE DEF u
  <2>8. TasksFit(r, u)
    BY <1>5, <1>8, <1>10, <1>11, <1>20, <2>2, <2>3 DEF TasksFit
  <2>9. StreamComes(r, u)
    BY <1>5, <1>9, <1>10, <1>11, <2>3 DEF StreamComes
  <2>10. Heard(r, u, s)
    <3> SUFFICES ASSUME NEW d \in IncomingCall
                 PROVE  /\ RingsAt(r, u, s, d) => RingsAt(page, tasks, toPage, d)
                        /\ TakenAt(r, u, s, d) => TakenAt(page, tasks, toPage, d)
      BY DEF Heard
    <3>1. RingsAt(r, u, s, d) => RingsAt(page, tasks, toPage, d)
      BY <1>5, <1>10, <1>11, <2>2, <2>3 DEF RingsAt, Rest
    <3>2. d = c => TakenAt(page, tasks, toPage, d)
      <4>1. d = c => on
        BY <1>9, <1>20
      <4>2. QED
        BY <4>1 DEF TakenAt, Has
    <3>3. QED
      BY <1>18, <2>7, <3>1, <3>2
  <2>11. QED
    BY <2>1, <2>4, <2>5, <2>6, <2>8, <2>9, <2>10, EmptyIsPlain
       DEF Turns, PageTurns, Sounds, MicIsSound
<1>21. CASE r.mic /\ on /\ AfterSync(r, t, c)
  <2>1. PICK n, m : Alike(r, n) /\ Plain(m) /\ Move(n, t, m)
    BY <1>11, <1>21, AfterSyncMoves
  <2>2. page' = n /\ tasks' = t /\ toBackend' = toBackend \o m /\ ~Overtakes(n, t, m)
    BY <2>1, MoveDoes DEF Orderly
  <2>3. t = {}
    BY <1>11, <1>16, <1>21, <2>1, <2>2 DEF Alike
  <2>4. StreamFits(r)
    BY <1>8, <1>17, <1>21
  <2>5. TasksFit(r, t) /\ StreamComes(r, t)
    BY <1>9, <1>10, <1>11, <1>21, <2>3 DEF TasksFit, StreamComes
  <2>6. Heard(r, t, s)
    <3> SUFFICES ASSUME NEW d \in IncomingCall
                 PROVE  /\ RingsAt(r, t, s, d) => RingsAt(page, tasks, toPage, d)
                        /\ TakenAt(r, t, s, d) => TakenAt(page, tasks, toPage, d)
      BY DEF Heard
    <3>1. RingsAt(r, t, s, d) => RingsAt(page, tasks, toPage, d)
      BY <1>8, <1>10, <1>11, <1>21, <2>3 DEF RingsAt, Rest
    <3>2. d = c => TakenAt(page, tasks, toPage, d)
      BY <1>21 DEF TakenAt, Has
    <3>3. QED
      BY <1>18, <3>1, <3>2
  <2>7. Sounds(n, t, s)
    BY <2>1, <2>4, <2>5, <2>6, AlikeSounds DEF Sounds, MicIsSound
  <2>8. QED
    BY <1>3, <2>1, <2>2, <2>7 DEF Turns, PageTurns
<1>22. CASE ~on /\ (r.mic \/ c \notin OutgoingCall) /\ Move(r, t, <<>>)
  <2>1. page' = r /\ tasks' = t /\ toBackend' = toBackend \o <<>> /\ ~Overtakes(r, t, <<>>)
    BY <1>22, MoveDoes DEF Orderly
  <2>2. RingsAt(page, tasks, toPage, c)
    BY <1>22 DEF RingsAt, Has
  <2>3. c \in IncomingCall => ~TakenAt(page, tasks, toPage, c)
    BY <2>2 DEF Orderly, MicHolds, TakenIsSilent, Took
  <2>4. c \in IncomingCall => ~r.mic
    BY <1>11, <1>12, <1>16, <2>1, <2>3 DEF TakenAt
  <2>5. t = {}
    <3>1. CASE Over(page.call) \/ page.call.id # c
      BY <1>11, <1>13, <2>1, <3>1
    <3>2. CASE r.mic
      BY <1>11, <1>16, <2>1, <3>2
    <3>3. CASE ~Over(page.call) /\ page.call.id = c /\ ~r.mic
      <4>1. c \in IncomingCall /\ c \notin OutgoingCall
        BY <1>9, <1>22, <3>3 DEF CallId
      <4>2. ASSUME NEW y \in t PROVE FALSE
        <5>1. y \in tasks /\ y.kind \in {"sync", "restore", "offer"} /\ y.at = "mic"
          BY <1>3, <1>15, <3>3
        <5>2. y.call = c /\ y.kind # "sync"
          BY <1>0, <3>3, <4>1, <5>1 DEF TasksFit
        <5>3. QED
          BY <2>3, <4>1, <5>1, <5>2 DEF TakenAt
      <4>3. QED
        BY <4>2
    <3>4. QED
      BY <3>1, <3>2, <3>3
  <2>6. StreamFits(r)
    BY <1>8, <1>17, <2>4
  <2>7. TasksFit(r, t)
    BY <2>5 DEF TasksFit
  <2>8. StreamComes(r, t)
    <3>1. c \notin IncomingCall => r.mic
      BY <1>22 DEF CallId
    <3>2. QED
      BY <1>8, <1>9, <1>10, <1>11, <1>22, <3>1 DEF StreamComes
  <2>9. Heard(r, t, s)
    <3> SUFFICES ASSUME NEW d \in IncomingCall
                 PROVE  /\ RingsAt(r, t, s, d) => RingsAt(page, tasks, toPage, d)
                        /\ TakenAt(r, t, s, d) => TakenAt(page, tasks, toPage, d)
      BY DEF Heard
    <3>1. d = c /\ TakenAt(r, t, s, d) => TakenAt(page, tasks, toPage, d)
      BY <2>4, <2>5 DEF TakenAt, Rest
    <3>2. QED
      BY <1>18, <2>2, <3>1
  <2>10. QED
    BY <1>3, <2>1, <2>6, <2>7, <2>8, <2>9, EmptyIsPlain
       DEF Turns, PageTurns, Sounds, MicIsSound
<1>23. QED
  BY <1>2, <1>19, <1>20, <1>21, <1>22

-----------------------------------------------------------------------------

LEMMA HandleEventTurns ==
    ASSUME Orderly, HandleEvent
    PROVE  Turns(Head(toPage))
<1> SUFFICES ASSUME NEW e, e = Head(toPage)
             PROVE  Turns(e)
  OBVIOUS
<1> DEFINE c == e.call
<1>1. /\ e \in Event /\ Rest(Tail(toPage))
      /\ \A A : e \in A => Has(toPage, A)
      /\ \A x \in AckTask : e \in Answers(x) => x \in tasks
      /\ e.kind \in {"incoming", "offer", "dismissed"} => c \in IncomingCall
      /\ e.kind \in {"accepted", "answer", "recovery", "startOk", "rejected"} => c \in OutgoingCall
  BY NextEvent
<1>2. ASSUME NEW k, e.kind = k PROVE e = Msg(k, c)
  BY <1>1, <1>2 DEF Event, Msg
<1>3. /\ e.kind \in {"startFailed", "syncedNone", "incoming", "accepted", "rejected", "ended",
                     "dismissed", "recovery", "offer", "answer", "startOk", "acceptOk",
                     "acceptFailed", "syncedRinging", "syncedActive"}
      /\ e.kind \notin {"startFailed", "syncedNone"} => c \in CallId
  BY <1>1 DEF Event
<1>4. e.kind \in {"startOk", "startFailed"} => StartAck \in tasks /\ StartAck \in AnsweredBy(e)
  BY <1>1, StartedIsDone, AckTasks
<1>5. e.kind \in {"syncedNone", "syncedRinging", "syncedActive"} =>
         SyncAck \in tasks /\ SyncAck \in AnsweredBy(e)
  BY <1>1, SyncedIsDone, AckTasks
<1>6. e.kind \in {"acceptOk", "acceptFailed"} =>
         AcceptAck(c) \in tasks /\ AcceptAck(c) \in AnsweredBy(e)
  BY <1>1, <1>3, AcceptedIsDone, AckTasks
<1>7. CASE e.kind = "startFailed"
  <2>1. Fail(page, tasks \ {Waiting("start")})
    BY <1>7 DEF HandleEvent
  <2>2. QED
    BY <1>1, <1>4, <1>7, <2>1, StartFailedTurns
<1>8. CASE e.kind = "syncedNone"
  <2>1. OnSyncedNone
    BY <1>8 DEF HandleEvent
  <2>2. QED
    BY <1>1, <1>5, <1>8, <2>1, OnSyncedNoneTurns
<1>9. CASE e.kind = "incoming"
  <2>1. OnIncoming(c) /\ Has(toPage, {Msg("incoming", c)})
    BY <1>1, <1>2, <1>9 DEF HandleEvent
  <2>2. QED
    BY <1>1, <1>9, <2>1, OnIncomingTurns
<1>10. CASE e.kind = "accepted"
  <2>1. OnAccepted(c)
    BY <1>10 DEF HandleEvent
  <2>2. QED
    BY <1>1, <1>10, <2>1, OnAcceptedTurns
<1>11. CASE e.kind \in {"rejected", "ended"}
  <2>1. OnEnded(c)
    BY <1>11 DEF HandleEvent
  <2>2. QED
    BY <1>1, <2>1, OnEndedTurns
<1>12. CASE e.kind = "dismissed"
  <2>1. OnDismissed(c)
    BY <1>12 DEF HandleEvent
  <2>2. QED
    BY <1>1, <1>3, <1>12, <2>1, OnDismissedTurns
<1>13. CASE e.kind = "recovery"
  <2>1. OnRecoveryNeeded(c)
    BY <1>13 DEF HandleEvent
  <2>2. QED
    BY <1>1, <1>3, <1>13, <2>1, OnRecoveryNeededTurns
<1>14. CASE e.kind = "offer"
  <2>1. OnOffer(c) /\ Has(toPage, {Msg("offer", c)})
    BY <1>1, <1>2, <1>14 DEF HandleEvent
  <2>2. QED
    BY <1>1, <1>14, <2>1, OnOfferTurns
<1>15. CASE e.kind = "answer"
  <2>1. OnAnswer(c)
    BY <1>15 DEF HandleEvent
  <2>2. QED
    BY <1>1, <1>3, <1>15, <2>1, OnAnswerTurns
<1>16. CASE e.kind = "startOk"
  <2>1. OnStarted(c)
    BY <1>16 DEF HandleEvent
  <2>2. QED
    BY <1>1, <1>4, <1>16, <2>1, OnStartedTurns
<1>17. CASE e.kind = "acceptOk"
  <2>1. OnAcceptDone(c, TRUE) /\ Has(toPage, {Msg("acceptOk", c)})
    <3>1. OnAcceptDone(c, e.kind = "acceptOk")
      BY <1>17 DEF HandleEvent
    <3>2. (e.kind = "acceptOk") = TRUE
      BY <1>17
    <3>3. QED
      BY <1>1, <1>2, <1>17, <3>1, <3>2
  <2>2. QED
    BY <1>1, <1>3, <1>6, <1>17, <2>1, OnAcceptedHereTurns
<1>18. CASE e.kind = "acceptFailed"
  <2>1. OnAcceptDone(c, FALSE)
    <3>1. OnAcceptDone(c, e.kind = "acceptOk")
      BY <1>18 DEF HandleEvent
    <3>2. (e.kind = "acceptOk") = FALSE
      BY <1>18
    <3>3. QED
      BY <3>1, <3>2
  <2>2. QED
    BY <1>1, <1>3, <1>6, <1>18, <2>1, OnAcceptFailedTurns
<1>19. CASE e.kind = "syncedRinging"
  <2>1. OnSynced(c, FALSE) /\ Has(toPage, {Msg("syncedRinging", c)})
    BY <1>1, <1>2, <1>19 DEF HandleEvent
  <2>2. QED
    BY <1>1, <1>3, <1>5, <1>19, <2>1, OnSyncedTurns
<1>20. CASE e.kind = "syncedActive"
  <2>1. OnSynced(c, TRUE) /\ Has(toPage, {Msg("syncedActive", c)})
    BY <1>1, <1>2, <1>20 DEF HandleEvent
  <2>2. QED
    BY <1>1, <1>3, <1>5, <1>20, <2>1, OnSyncedTurns
<1> HIDE DEF c
<1>21. QED
  BY <1>3, <1>7, <1>8, <1>9, <1>10, <1>11, <1>12, <1>13, <1>14, <1>15, <1>16, <1>17,
     <1>18, <1>19, <1>20

-----------------------------------------------------------------------------

\* Nothing new is asked, nothing new is told.
LEMMA AwaitKeeps ==
    ASSUME NEW x \in AckTask, IsAwaited(x),
           Fewer(toBackend', toBackend, Asked(x)), Fewer(toPage', toPage, Answers(x)),
           Served(x)' \subseteq Served(x), Served(x)' # {} => socketOpen',
           x \in tasks => x \in tasks'
    PROVE  IsAwaited(x)'
BY DEF IsAwaited, Fewer

\* Nothing is under way.
LEMMA AwaitsNothing ==
    ASSUME NEW x \in AckTask, ~Has(toBackend', Asked(x)), ~Has(toPage', Answers(x)),
           Served(x)' = {}
    PROVE  IsAwaited(x)'
BY DEF IsAwaited, Has, AtMostOnce

LEMMA PlainIsPacket ==
    ASSUME NEW m, Plain(m)
    PROVE  m \in Seq(Packet) /\ \A x \in AckTask : ~Has(m, Asked(x))
<1>1. CASE m = <<>>
  BY <1>1 DEF Has
<1>2. CASE m # <<>>
  <2>1. PICK e \in Packet : m = <<e>> /\ e.kind \notin {"start", "accept", "sync"}
    BY <1>2 DEF Plain
  <2>2. ASSUME NEW x \in AckTask PROVE e \notin Asked(x)
    <3>1. x.kind \in {"start", "accept", "sync"}
      BY DEF AckTask, Task
    <3>2. QED
      BY <2>1, <3>1 DEF Asked, Msg
  <2>3. QED
    BY <2>1, <2>2, OneHas
<1>3. QED
  BY <1>1, <1>2

\* What the gateway has to do stays the same.
LEMMA ServedStays ==
    ASSUME NEW x, UNCHANGED <<session, accepting, deaf>>
    PROVE  Served(x)' = Served(x)
BY DEF Served

\* The silence of the calls that were taken, after a step of the page.
LEMMA PageStaysSilent ==
    ASSUME Orderly, UNCHANGED <<session, accepting>>, Heard(page', tasks', toPage')
    PROVE  TakenIsSilent'
BY DEF Orderly, MicHolds, TakenIsSilent, Took, Heard

LEMMA PageTurnsKeeps ==
    ASSUME Orderly, PageTurns(toPage, {}), UNCHANGED <<socketOpen, toPage, backend>>
    PROVE  MicHolds'
<1>1. UNCHANGED <<session, accepting, deaf>>
  BY DEF backend
<1>2. PICK m : Plain(m) /\ toBackend' = toBackend \o m
  BY DEF PageTurns
<1>3. toBackend \in Seq(Packet)
  BY DEF Orderly, EndedInv, ClientTypes
<1>4. ASSUME NEW x \in AckTask PROVE IsAwaited(x)'
  <2>1. IsAwaited(x)
    BY DEF Orderly, MicHolds
  <2>2. Fewer(toBackend', toBackend, Asked(x))
    BY <1>2, <1>3, PlainIsPacket, ConcatHas
  <2>3. Fewer(toPage', toPage, Answers(x))
    BY SameIsFewer
  <2>4. Served(x)' = Served(x)
    BY <1>1, ServedStays
  <2>5. Served(x)' # {} => socketOpen'
    BY <2>1, <2>4 DEF IsAwaited
  <2>6. x \in tasks => x \in tasks'
    BY DEF PageTurns
  <2>7. QED
    BY <2>1, <2>2, <2>3, <2>4, <2>5, <2>6, AwaitKeeps
<1>5. TakenIsSilent'
  BY <1>1, PageStaysSilent DEF PageTurns, Sounds
<1>6. EventsFit' /\ SocketFits'
  BY <1>1 DEF Orderly, MicHolds, EventsFit, SocketFits, PageTurns
<1>7. MicIsSound(page, tasks)'
  BY DEF PageTurns, Sounds
<1>8. QED
  BY <1>4, <1>5, <1>6, <1>7 DEF MicHolds

\* The handler y is the only one to ask for what it asks for.
LEMMA PageAsksKeeps ==
    ASSUME Orderly, NEW y, PageAsks(y), UNCHANGED <<toPage, backend>>,
           ~socketOpen' => ~socketOpen /\ y # SyncAck
    PROVE  MicHolds'
<1> DEFINE e == Msg(y.kind, y.call)
<1>1. UNCHANGED <<session, accepting, deaf>>
  BY DEF backend
<1>2. toBackend \in Seq(Packet) /\ toBackend' = toBackend \o <<e>> /\ y \in AckTask
  BY DEF Orderly, EndedInv, ClientTypes, PageAsks
<1>3. e \in Packet
  BY <1>2 DEF AckTask, Task, Msg, Packet
<1>4. <<e>> \in Seq(Packet)
  BY <1>3
<1>5. ASSUME NEW x \in AckTask PROVE IsAwaited(x)'
  <2>1. IsAwaited(x)
    BY DEF Orderly, MicHolds
  <2>2. Served(x)' = Served(x)
    BY <1>1, ServedStays
  <2>3. Served(x) # {} => socketOpen'
    BY <2>1 DEF IsAwaited
  <2>4. CASE x = y
    <3>1. ~Has(toBackend, Asked(x)) /\ ~Has(toPage, Answers(x)) /\ Served(x) = {}
      BY <2>1, <2>4 DEF IsAwaited, PageAsks
    <3>2. AtMostOnce(<<e>>, Asked(x))
      BY OneHas
    <3> HIDE DEF e
    <3>3. AtMostOnce(toBackend \o <<e>>, Asked(x))
      BY <1>2, <1>4, <3>1, <3>2, ConcatHas
    <3>4. AtMostOnce(toPage', Answers(x)) /\ ~Has(toPage', Answers(x))
      BY <2>1, <3>1 DEF IsAwaited
    <3>5. x \in tasks'
      BY <2>4 DEF PageAsks
    <3>6. AtMostOnce(toBackend', Asked(x))
      BY <1>2, <3>3
    <3>7. QED
      BY <2>2, <3>1, <3>4, <3>5, <3>6 DEF IsAwaited
  <2>5. CASE x # y
    <3>0. x.kind # y.kind \/ x.call # y.call
      <4>1. \A z \in AckTask : z = [kind |-> z.kind, at |-> "ack", call |-> z.call]
        BY DEF AckTask, Task
      <4>2. QED
        BY <1>2, <2>5, <4>1
    <3>1. e \notin Asked(x)
      BY <3>0 DEF Asked, Msg
    <3>2. ~Has(<<e>>, Asked(x))
      BY <3>1, OneHas
    <3>3. Fewer(toBackend', toBackend, Asked(x))
      <4> HIDE DEF e
      <4>1. QED
        BY <1>2, <1>4, <3>2, ConcatHas
    <3>4. Fewer(toPage', toPage, Answers(x))
      BY SameIsFewer
    <3>5. x \in tasks => x \in tasks'
      BY DEF PageAsks
    <3>6. QED
      BY <2>1, <2>2, <2>3, <3>3, <3>4, <3>5, AwaitKeeps
  <2>6. QED
    BY <2>4, <2>5
<1>6. TakenIsSilent'
  BY <1>1, PageStaysSilent DEF PageAsks, Sounds
<1>7. EventsFit' /\ SocketFits'
  BY <1>1 DEF Orderly, MicHolds, EventsFit, SocketFits, PageAsks
<1>8. MicIsSound(page, tasks)'
  BY DEF PageAsks, Sounds
<1>9. QED
  BY <1>5, <1>6, <1>7, <1>8 DEF MicHolds

LEMMA HandleEventKeepsMic ==
    ASSUME Orderly, HandleEvent
    PROVE  MicHolds'
<1> DEFINE e == Head(toPage)
<1>0. PageTurns(Tail(toPage), AnsweredBy(e))
  BY HandleEventTurns DEF Turns
<1>1. UNCHANGED <<session, accepting, deaf, socketOpen>> /\ toPage' = Tail(toPage) /\ toPage # <<>>
  BY DEF backend, HandleEvent
<1>2. PICK m : Plain(m) /\ toBackend' = toBackend \o m
  BY <1>0 DEF PageTurns
<1>3. toBackend \in Seq(Packet) /\ toPage \in Seq(Event)
  BY DEF Orderly, EndedInv, ClientTypes
<1>4. ASSUME NEW x \in AckTask PROVE IsAwaited(x)'
  <2>1. IsAwaited(x)
    BY DEF Orderly, MicHolds
  <2>2. Fewer(toBackend', toBackend, Asked(x))
    BY <1>2, <1>3, PlainIsPacket, ConcatHas
  <2>3. Fewer(toPage', toPage, Answers(x))
        /\ (e \in Answers(x) /\ AtMostOnce(toPage, Answers(x)) => ~Has(toPage', Answers(x)))
    BY <1>1, <1>3, TailIsFewer
  <2>4. Served(x)' = Served(x)
    BY <1>1, ServedStays
  <2>5. CASE e \in Answers(x)
    <3>1. AtMostOnce(toPage, Answers(x)) /\ Served(x) = {} /\ ~Has(toBackend, Asked(x))
      BY <2>5, NextEvent
    <3>2. QED
      BY <2>2, <2>3, <2>4, <2>5, <3>1, AwaitsNothing DEF Fewer
  <2>6. CASE e \notin Answers(x)
    <3>1. x \in tasks => x \in tasks'
      BY <1>0, <2>6 DEF PageTurns, AnsweredBy
    <3>2. Served(x)' # {} => socketOpen'
      BY <1>1, <2>1, <2>4 DEF IsAwaited
    <3>3. QED
      BY <2>1, <2>2, <2>3, <2>4, <3>1, <3>2, AwaitKeeps
  <2>7. QED
    BY <2>5, <2>6
<1>5. TakenIsSilent'
  BY <1>0, <1>1, PageStaysSilent DEF PageTurns, Sounds
<1>6. EventsFit'
  <2>1. \A i \in DOMAIN Tail(toPage) : i + 1 \in DOMAIN toPage /\ Tail(toPage)[i] = toPage[i + 1]
    BY <1>1, <1>3
  <2>2. EventsFit
    BY DEF Orderly, MicHolds
  <2>3. QED
    BY <1>1, <2>1, <2>2 DEF EventsFit
<1>7. SocketFits'
  BY <1>0, <1>1 DEF Orderly, MicHolds, SocketFits
<1>8. MicIsSound(page, tasks)'
  BY <1>0 DEF PageTurns, Sounds
<1>9. QED
  BY <1>4, <1>5, <1>6, <1>7, <1>8 DEF MicHolds

LEMMA SocketClosesKeepsMic ==
    ASSUME Orderly, SocketCloses
    PROVE  MicHolds'
<1>1. /\ toBackend' = <<>> /\ toPage' = <<>> /\ UNCHANGED <<session, accepting>>
      /\ deaf' = deaf \union accepting \union {c \in CallId : session[c] = "starting"}
      /\ tasks' = tasks \ {x \in tasks : x.at = "ack"}
  BY DEF SocketCloses
<1>2. Sounds(page', tasks', toPage')
  BY <1>1, SocketClosesSounds
<1>3. ASSUME NEW x \in AckTask PROVE IsAwaited(x)'
  <2>1. Served(x)' = {}
    BY <1>1 DEF Served
  <2>2. ~Has(toBackend', Asked(x)) /\ ~Has(toPage', Answers(x))
    BY <1>1, NothingIsFewer
  <2>3. QED
    BY <2>1, <2>2, AwaitsNothing
<1>4. TakenIsSilent'
  BY <1>1, <1>2, PageStaysSilent DEF Sounds
<1>5. EventsFit'
  BY <1>1 DEF EventsFit
<1>6. SocketFits'
  BY <1>1 DEF Orderly, MicHolds, SocketFits, SyncAck
<1>7. QED
  BY <1>2, <1>3, <1>4, <1>5, <1>6 DEF MicHolds, Sounds

LEMMA AckTimesOutKeepsMic ==
    ASSUME Orderly, NEW x, AckTimesOut(x)
    PROVE  MicHolds'
<1>1. /\ UNCHANGED <<session, accepting, deaf, socketOpen, toPage>> /\ ~socketOpen
      /\ x \in tasks /\ tasks' = tasks \ {x} /\ toBackend' = Withdrawn(Msg(x.kind, x.call))
  BY DEF AckTimesOut, backend
<1>2. toBackend \in Seq(Packet) /\ toPage = <<>> /\ SyncAck \notin tasks
  BY <1>1 DEF Orderly, EndedInv, ClientTypes, MicHolds, SocketFits
<1>3. ASSUME NEW y \in AckTask PROVE IsAwaited(y)'
  <2>1. IsAwaited(y)
    BY DEF Orderly, MicHolds
  <2>2. /\ Fewer(toBackend', toBackend, Asked(y))
        /\ y = x /\ AtMostOnce(toBackend, Asked(y)) => ~Has(toBackend', Asked(y))
    BY <1>1, <1>2, WithdrawnIsFewer DEF Asked
  <2>3. Fewer(toPage', toPage, Answers(y)) /\ ~Has(toPage', Answers(y))
    BY <1>1, <1>2, SameIsFewer, NothingIsFewer
  <2>4. Served(y)' = Served(y) /\ Served(y) = {}
    BY <1>1, <2>1, ServedStays DEF IsAwaited
  <2>5. CASE y = x
    BY <2>1, <2>2, <2>3, <2>4, <2>5, AwaitsNothing DEF IsAwaited
  <2>6. CASE y # x
    <3>1. y \in tasks => y \in tasks'
      BY <1>1, <2>6
    <3>2. QED
      BY <2>1, <2>2, <2>3, <2>4, <3>1, AwaitKeeps
  <2>7. QED
    BY <2>5, <2>6
<1>4. Sounds(page', tasks', toPage')
  BY <1>1, AckTimesOutSounds
<1>5. TakenIsSilent'
  BY <1>1, <1>4, PageStaysSilent DEF Sounds
<1>6. EventsFit' /\ SocketFits'
  BY <1>1, <1>2 DEF Orderly, MicHolds, EventsFit, SocketFits
<1>7. QED
  BY <1>3, <1>4, <1>5, <1>6 DEF MicHolds, Sounds

LEMMA MicOpensKeepsMic ==
    ASSUME Orderly, NEW x, MicOpens(x)
    PROVE  MicHolds'
<1> DEFINE y == [x EXCEPT !.at = "ack"]
<1>1. UNCHANGED <<socketOpen, toPage, backend>> /\ x \in tasks /\ x \in Task /\ x.at = "mic"
  BY DEF MicOpens, Orderly, EndedInv, ClientTypes
<1>2. CASE x.kind \in {"start", "accept"}
  <2>1. PageAsks(y)
    BY <1>2, MicOpensForStart, MicOpensForAccept
  <2>2. y # SyncAck
    BY <1>1, <1>2 DEF Task, SyncAck
  <2> HIDE DEF y
  <2>3. QED
    BY <1>1, <2>1, <2>2, PageAsksKeeps
<1>3. CASE x.kind \notin {"start", "accept"}
  BY <1>1, <1>3, MicOpensForOthers, PageTurnsKeeps
<1>4. QED
  BY <1>2, <1>3

LEMMA SocketOpensKeepsMic ==
    ASSUME Orderly, SocketOpens
    PROVE  MicHolds'
<1>1. PageAsks(SyncAck)
  BY SocketOpensAsks
<1>2. socketOpen' = TRUE /\ UNCHANGED <<toPage, backend>>
  BY DEF SocketOpens
<1>3. QED
  BY <1>1, <1>2, PageAsksKeeps

\* The other steps of the page, which ask for no acknowledgement.
LEMMA PageKeepsMic ==
    ASSUME Orderly,
           \/ StartCall \/ AcceptCall \/ HangUp \/ DismissCall
           \/ \E x \in tasks : SocketUnavailable(x) \/ MicFails(x)
           \/ PeerConnects \/ PeerDrops \/ PeerTimerFires \/ SocketTimerFires
    PROVE  MicHolds'
<1>1. PageTurns(toPage, {})
  BY StartCallTurns, AcceptCallTurns, HangUpTurns, DismissCallTurns, SocketUnavailableTurns,
     MicFailsTurns, PeerConnectsTurns, PeerDropsTurns, PeerTimerFiresTurns, SocketTimerFiresTurns
<1>2. UNCHANGED <<socketOpen, toPage, backend>>
  BY DEF StartCall, AcceptCall, HangUp, DismissCall, SocketUnavailable, MicFails,
         PeerConnects, PeerDrops, PeerTimerFires, SocketTimerFires
<1>3. QED
  BY <1>1, <1>2, PageTurnsKeeps

-----------------------------------------------------------------------------

LEMMA EmitHas ==
    ASSUME Orderly, NEW m \in Seq(Event), Emit(m), NEW A
    PROVE  /\ Has(toPage', A) => Has(toPage, A) \/ Has(m, A)
           /\ ~Has(m, A) => Fewer(toPage', toPage, A)
           /\ ~Has(toPage, A) /\ AtMostOnce(m, A) => AtMostOnce(toPage', A)
           /\ toPage' \in Seq(Event)
<1>1. toPage \in Seq(Event)
  BY DEF Orderly, EndedInv, ClientTypes
<1>2. CASE toPage' = toPage
  BY <1>1, <1>2 DEF Fewer, Has, AtMostOnce
<1>3. CASE toPage' = toPage \o m
  BY <1>1, <1>3, ConcatHas
<1>4. QED
  BY <1>2, <1>3 DEF Emit

LEMMA FitsHas ==
    ASSUME NEW s \in Seq(Event)
    PROVE  (\A i \in DOMAIN s :
              /\ s[i].kind \in {"incoming", "offer", "dismissed"} => s[i].call \in IncomingCall
              /\ s[i].kind \in {"accepted", "answer", "recovery", "startOk", "rejected"} =>
                    s[i].call \in OutgoingCall)
           <=> ~Has(s, Unfit)
<1>1. \A i \in DOMAIN s : s[i] \in Event
  OBVIOUS
<1>2. QED
  BY <1>1 DEF Has, Unfit

\* What the gateway has to see to, when it tells the page m.
LEMMA GatewayKeepsMic ==
    ASSUME Orderly, UNCHANGED <<page, tasks, socketOpen>>,
           NEW m \in Seq(Event), Emit(m), ~Has(m, Unfit),
           \A c \in CallId : session'[c] = "starting" => c \in OutgoingCall,
           \A x \in AckTask : IsAwaited(x)',
           \A c \in IncomingCall : Silent(c)'
    PROVE  MicHolds'
<1>1. MicIsSound(page, tasks)' /\ toPage \in Seq(Event) /\ EventsFit /\ SocketFits
  BY DEF Orderly, MicHolds, EndedInv, ClientTypes
<1>2. TakenIsSilent'
  BY DEF TakenIsSilent, Silent
<1>3. EventsFit'
  <2>1. ~Has(toPage, Unfit)
    BY <1>1, FitsHas DEF EventsFit
  <2>2. toPage' \in Seq(Event) /\ ~Has(toPage', Unfit)
    BY <2>1, EmitHas
  <2>3. QED
    BY <2>2, FitsHas DEF EventsFit
<1>4. SocketFits'
  BY <1>1 DEF SocketFits, Emit
<1>5. QED
  BY <1>1, <1>2, <1>3, <1>4 DEF MicHolds

\* A handler that is told nothing.
LEMMA UntoldAwaits ==
    ASSUME Orderly, NEW x \in AckTask, UNCHANGED <<tasks, socketOpen>>,
           NEW m \in Seq(Event), Emit(m), ~Has(m, Answers(x)),
           Fewer(toBackend', toBackend, Asked(x)), Served(x)' \subseteq Served(x)
    PROVE  IsAwaited(x)'
<1>1. IsAwaited(x)
  BY DEF Orderly, MicHolds
<1>2. Fewer(toPage', toPage, Answers(x))
  BY EmitHas
<1>3. Served(x)' # {} => socketOpen'
  BY <1>1 DEF IsAwaited
<1>4. QED
  BY <1>1, <1>2, <1>3, AwaitKeeps

\* A handler whose request is being served from now on, for call c.
LEMMA ServedAwaits ==
    ASSUME Orderly, NEW x \in tasks \intersect AckTask, UNCHANGED <<tasks, toPage>>, socketOpen',
           NEW c, ~Has(toBackend', Asked(x)), ~Has(toPage, Answers(x)), Served(x)' \subseteq {c}
    PROVE  IsAwaited(x)'
BY DEF IsAwaited, Has, AtMostOnce

\* A handler that is told the answer.
LEMMA ToldAwaits ==
    ASSUME Orderly, NEW x \in tasks \intersect AckTask, UNCHANGED tasks,
           NEW m \in Seq(Event), Emit(m), AtMostOnce(m, Answers(x)),
           ~Has(toBackend', Asked(x)), ~Has(toPage, Answers(x)), Served(x)' = {}
    PROVE  IsAwaited(x)'
<1>1. AtMostOnce(toPage', Answers(x))
  BY EmitHas
<1>2. AtMostOnce(toBackend', Asked(x)) /\ \A c, d \in Served(x)' : c = d
  BY DEF Has, AtMostOnce
<1>3. QED
  BY <1>1, <1>2 DEF IsAwaited

\* A call that is neither taken now nor rings now.
LEMMA StaysSilent ==
    ASSUME Orderly, UNCHANGED <<page, tasks>>, NEW m \in Seq(Event), Emit(m),
           NEW c \in IncomingCall,
           session'[c] = "active" \/ c \in accepting' => Took(c),
           session'[c] = "ringing" => session[c] = "ringing",
           Has(m, {Msg("syncedActive", c), Msg("offer", c), Msg("acceptOk", c)}) => Took(c),
           ~Has(m, {Msg("incoming", c), Msg("syncedRinging", c)})
    PROVE  Silent(c)'
<1> DEFINE A == {Msg("syncedActive", c), Msg("offer", c), Msg("acceptOk", c)}
           B == {Msg("incoming", c), Msg("syncedRinging", c)}
<1>1. Silent(c)
  BY DEF Orderly, MicHolds, TakenIsSilent, Silent
<1>2. Has(toPage', A) => Has(toPage, A) \/ Has(m, A)
  BY EmitHas
<1>3. Has(toPage', B) => Has(toPage, B)
  BY EmitHas
<1> HIDE DEF A, B
<1>4. TakenAt(page', tasks', toPage', c) => Took(c)
  BY <1>2 DEF TakenAt, Took, A
<1>5. RingsAt(page', tasks', toPage', c) => RingsAt(page, tasks, toPage, c)
  BY <1>3 DEF RingsAt, B
<1>6. Took(c)' => Took(c)
  BY <1>4 DEF Took
<1>7. QED
  BY <1>1, <1>5, <1>6 DEF Silent

-----------------------------------------------------------------------------

LEMMA OneTold ==
    ASSUME NEW k, NEW c, Msg(k, c) \in Event
    PROVE  /\ <<Msg(k, c)>> \in Seq(Event)
           /\ \A A : Has(<<Msg(k, c)>>, A) <=> Msg(k, c) \in A
           /\ \A A : AtMostOnce(<<Msg(k, c)>>, A)
<1> DEFINE e == Msg(k, c)
<1>1. e \in Event
  OBVIOUS
<1> HIDE DEF e
<1>2. <<e>> \in Seq(Event)
  BY <1>1
<1>3. (\A A : Has(<<e>>, A) <=> e \in A) /\ \A A : AtMostOnce(<<e>>, A)
  BY OneHas
<1>4. QED
  BY <1>2, <1>3 DEF e

LEMMA NeutralDoes ==
    ASSUME NEW m, Neutral(m)
    PROVE  /\ m \in Seq(Event) /\ ~Has(m, Unfit)
           /\ \A x \in AckTask : ~Has(m, Answers(x))
           /\ \A c \in IncomingCall :
                 /\ ~Has(m, {Msg("incoming", c), Msg("syncedRinging", c)})
                 /\ Has(m, {Msg("syncedActive", c), Msg("offer", c), Msg("acceptOk", c)}) => Took(c)
<1>1. CASE m = <<>>
  BY <1>1 DEF Has
<1>2. CASE m # <<>>
  <2>1. PICK k, d : /\ m = <<Msg(k, d)>> /\ d \in CallId
                    /\ k \in {"accepted", "rejected", "recovery", "answer", "dismissed",
                              "ended", "offer"}
                    /\ k \in {"accepted", "rejected", "recovery", "answer"} => d \in OutgoingCall
                    /\ k \in {"dismissed", "offer"} => d \in IncomingCall
                    /\ k = "offer" => Took(d)
    BY <1>2 DEF Neutral, CallId
  <2>2. Msg(k, d) \in Event
    BY <2>1 DEF Msg, Event
  <2>3. Msg(k, d) \notin Unfit
    BY <2>1 DEF Msg, Unfit
  <2>4. \A x \in AckTask : Msg(k, d) \notin Answers(x)
    BY <2>1 DEF Msg, Answers
  <2>5. ASSUME NEW c \in IncomingCall
        PROVE  /\ Msg(k, d) \notin {Msg("incoming", c), Msg("syncedRinging", c)}
               /\ Msg(k, d) \in {Msg("syncedActive", c), Msg("offer", c), Msg("acceptOk", c)} =>
                     Took(c)
    <3>1. \A j : Msg(k, d) = Msg(j, c) => k = j /\ d = c
      BY DEF Msg
    <3>2. Msg(k, d) \in {Msg("syncedActive", c), Msg("offer", c), Msg("acceptOk", c)} =>
             k \in {"syncedActive", "offer", "acceptOk"} /\ d = c
      BY <3>1
    <3>3. Msg(k, d) \in {Msg("incoming", c), Msg("syncedRinging", c)} =>
             k \in {"incoming", "syncedRinging"}
      BY <3>1
    <3>4. QED
      BY <2>1, <3>2, <3>3
  <2>6. QED
    BY <2>1, <2>2, <2>3, <2>4, <2>5, OneTold
<1>3. QED
  BY <1>1, <1>2

LEMMA NeutralKeepsMic ==
    ASSUME Orderly, UNCHANGED <<page, tasks, socketOpen>>, NEW m, Neutral(m), Emit(m),
           \A x \in AckTask : /\ Fewer(toBackend', toBackend, Asked(x))
                              /\ Served(x)' \subseteq Served(x),
           \A c \in CallId : session'[c] = "starting" => session[c] = "starting",
           \A c \in IncomingCall : /\ session'[c] = "active" \/ c \in accepting' => Took(c)
                                   /\ session'[c] = "ringing" => session[c] = "ringing"
    PROVE  MicHolds'
<1>1. m \in Seq(Event) /\ ~Has(m, Unfit)
  BY NeutralDoes
<1>2. \A x \in AckTask : IsAwaited(x)'
  BY <1>1, NeutralDoes, UntoldAwaits
<1>3. \A c \in IncomingCall : Silent(c)'
  BY <1>1, NeutralDoes, StaysSilent
<1>4. \A c \in CallId : session'[c] = "starting" => c \in OutgoingCall
  BY DEF Orderly, MicHolds, SocketFits
<1>5. QED
  BY <1>1, <1>2, <1>3, <1>4, GatewayKeepsMic

LEMMA EmptyEmit ==
    ASSUME Orderly, toPage' = toPage
    PROVE  Emit(<<>>) /\ Neutral(<<>>)
<1>1. toPage \o <<>> = toPage
  BY DEF Orderly, EndedInv, ClientTypes
<1>2. QED
  BY <1>1 DEF Emit, Neutral

LEMMA IncomingIsCall ==
    /\ IncomingCall \subseteq CallId /\ OutgoingCall \subseteq CallId
    /\ \A c \in IncomingCall : c \notin OutgoingCall
    /\ None \notin CallId
BY CallClientConstants DEF CallId

\* A step in which no call comes to be served, and none to be taken.
LEMMA LessIsServed ==
    ASSUME deaf \subseteq deaf',
           \A c \in CallId : session'[c] = "starting" => session[c] = "starting",
           accepting' \intersect IncomingCall \subseteq accepting
    PROVE  \A x \in AckTask : Served(x)' \subseteq Served(x)
BY DEF Served

LEMMA LessIsTaken ==
    ASSUME accepting' \intersect IncomingCall \subseteq accepting, NEW c \in IncomingCall,
           session'[c] = "active" => session[c] = "active"
    PROVE  session'[c] = "active" \/ c \in accepting' => Took(c)
BY DEF Took

-----------------------------------------------------------------------------

\* call:end and call:reject, of the page or of the peer.
LEMMA FinishDoes ==
    ASSUME Orderly, NEW c \in CallId, NEW k, Finish(c, k)
    PROVE  /\ \E m : Neutral(m) /\ Emit(m)
           /\ \A d \in CallId : session'[d] \in {session[d], "over"}
<1>1. CASE finishing[c] = "no"
  BY <1>1, EmptyEmit DEF Finish
<1>2. CASE finishing[c] # "no"
  <2>1. Emit(IF k = "end" THEN <<Msg("ended", c)>> ELSE <<>>)
        /\ session' = [session EXCEPT ![c] = "over"]
    BY <1>2 DEF Finish
  <2>2. Neutral(IF k = "end" THEN <<Msg("ended", c)>> ELSE <<>>)
    BY DEF Neutral
  <2>3. QED
    BY <2>1, <2>2 DEF Orderly, EndedInv, ClientTypes
<1>3. QED
  BY <1>1, <1>2

\* A step of the gateway, or of the peer, that ends calls at most.
LEMMA EndsKeepMic ==
    ASSUME Orderly, UNCHANGED <<page, tasks, socketOpen, accepting, deaf>>,
           \E m : Neutral(m) /\ Emit(m),
           \A d \in CallId : session'[d] \in {session[d], "over"},
           \A x \in AckTask : Fewer(toBackend', toBackend, Asked(x))
    PROVE  MicHolds'
<1>1. PICK m : Neutral(m) /\ Emit(m)
  OBVIOUS
<1>2. \A x \in AckTask : Served(x)' \subseteq Served(x)
  BY LessIsServed
<1>3. \A d \in IncomingCall : session'[d] = "active" \/ d \in accepting' => Took(d)
  BY IncomingIsCall, LessIsTaken
<1>4. QED
  BY <1>1, <1>2, <1>3, IncomingIsCall, NeutralKeepsMic

LEMMA FinishStoredKeepsMic ==
    ASSUME Orderly, NEW c \in CallId, FinishStored(c)
    PROVE  MicHolds'
<1> DEFINE m == IF finishing[c] = "end" THEN <<Msg("ended", c)>> ELSE <<>>
<1>1. /\ UNCHANGED <<page, tasks, socketOpen, toBackend, accepting, deaf>>
      /\ session' = [session EXCEPT ![c] = "over"] /\ Emit(m)
  BY DEF FinishStored
<1>2. Neutral(m)
  BY DEF Neutral
<1>3. \A d \in CallId : session'[d] \in {session[d], "over"}
  BY <1>1 DEF Orderly, EndedInv, ClientTypes
<1>4. \A x \in AckTask : Fewer(toBackend', toBackend, Asked(x))
  BY <1>1, SameIsFewer
<1> HIDE DEF m
<1>5. QED
  BY <1>1, <1>2, <1>3, <1>4, EndsKeepMic

LEMMA GatewayRestartsKeepsMic ==
    ASSUME Orderly, GatewayRestarts
    PROVE  MicHolds'
<1>1. /\ UNCHANGED <<page, tasks, socketOpen, toBackend, toPage, deaf>>
      /\ session' = [c \in CallId |-> IF session[c] = "unused" THEN "unused" ELSE "over"]
      /\ accepting' = {}
  BY DEF GatewayRestarts
<1>2. Emit(<<>>) /\ Neutral(<<>>)
  BY <1>1, EmptyEmit
<1>3. \A d \in CallId : session'[d] \in {session[d], "over"}
  BY <1>1
<1>4. \A x \in AckTask : Served(x)' \subseteq Served(x)
  BY <1>1, <1>3, LessIsServed
<1>5. \A x \in AckTask : Fewer(toBackend', toBackend, Asked(x))
  BY <1>1, SameIsFewer
<1>6. \A d \in IncomingCall : session'[d] = "active" \/ d \in accepting' => Took(d)
  BY <1>1, <1>3, IncomingIsCall, LessIsTaken
<1>7. QED
  BY <1>1, <1>2, <1>3, <1>4, <1>5, <1>6, IncomingIsCall, NeutralKeepsMic

-----------------------------------------------------------------------------

LEMMA PeerCallsKeepsMic ==
    ASSUME Orderly, NEW c \in CallId, PeerCalls(c),
           UNCHANGED <<page, tasks, socketOpen, toBackend, deaf>>
    PROVE  MicHolds'
<1> DEFINE e == Msg("incoming", c)
           m == <<e>>
<1>1. /\ c \in IncomingCall /\ session[c] = "unused"
      /\ session' = [session EXCEPT ![c] = "ringing"] /\ Emit(m) /\ UNCHANGED accepting
  BY DEF PeerCalls
<1>2. c \in Early /\ c # None
  BY <1>1, IncomingIsCall DEF Early
<1>3. c \notin Known /\ c \notin accepting /\ ~Mentions(toPage, c)
  BY <1>2 DEF Orderly, EndedInv, EarlyIsUnknown
<1>4. e \in Event /\ e.kind = "incoming" /\ e.call = c
  BY DEF Msg, Event
<1>5. m \in Seq(Event) /\ \A A : Has(m, A) <=> e \in A
  BY <1>4, OneTold
<1>6. e \notin Unfit /\ \A x \in AckTask : e \notin Answers(x)
  BY <1>1, <1>4 DEF Unfit, Answers
<1> HIDE DEF e, m
<1>7. /\ \A d \in CallId \ {c} : session'[d] = session[d]
      /\ session'[c] = "ringing"
  BY <1>1 DEF Orderly, EndedInv, ClientTypes
<1>8. \A d \in CallId : session'[d] = "starting" => session[d] = "starting"
  BY <1>7
<1>9. ASSUME NEW x \in AckTask PROVE IsAwaited(x)'
  <2>1. Served(x)' \subseteq Served(x)
    BY <1>1, <1>8, LessIsServed
  <2>2. Fewer(toBackend', toBackend, Asked(x))
    BY SameIsFewer
  <2>3. ~Has(m, Answers(x))
    BY <1>5, <1>6
  <2>4. QED
    BY <1>1, <1>5, <2>1, <2>2, <2>3, UntoldAwaits
<1>10. ASSUME NEW d \in IncomingCall PROVE Silent(d)'
  <2>1. CASE d = c
    <3> DEFINE A == {Msg("syncedActive", c), Msg("offer", c), Msg("acceptOk", c)}
    <3>1. \A b \in A : b.call = c /\ b.kind # "incoming"
      BY DEF Msg
    <3>2. ~Has(m, A)
      BY <1>4, <1>5, <3>1
    <3>3. ~Has(toPage, A)
      BY <1>3, <3>1 DEF Has, Mentions
    <3>4. ~Has(toPage', A)
      BY <1>1, <1>5, <3>2, <3>3, EmitHas
    <3>5. page.call.id # c /\ \A x \in tasks : x.call # c
      BY <1>2, <1>3 DEF Known, KnownOf
    <3>6. ~TakenAt(page', tasks', toPage', c)
      BY <3>4, <3>5 DEF TakenAt
    <3>7. QED
      BY <1>1, <1>3, <1>7, <2>1, <3>6 DEF Silent, Took
  <2>2. CASE d # c
    <3>1. \A k : Msg(k, d) # e
      BY <1>4, <2>2 DEF Msg
    <3>2. /\ ~Has(m, {Msg("incoming", d), Msg("syncedRinging", d)})
          /\ ~Has(m, {Msg("syncedActive", d), Msg("offer", d), Msg("acceptOk", d)})
      BY <1>5, <3>1
    <3>3. session'[d] = session[d]
      BY <1>7, <2>2, IncomingIsCall
    <3>4. session'[d] = "active" \/ d \in accepting' => Took(d)
      BY <1>1, <3>3 DEF Took
    <3>5. QED
      BY <1>1, <1>5, <3>2, <3>3, <3>4, StaysSilent
  <2>3. QED
    BY <2>1, <2>2
<1>11. ~Has(m, Unfit)
  BY <1>5, <1>6
<1>12. \A d \in CallId : session'[d] = "starting" => d \in OutgoingCall
  BY <1>8 DEF Orderly, MicHolds, SocketFits
<1>13. QED
  BY <1>1, <1>5, <1>9, <1>10, <1>11, <1>12, GatewayKeepsMic

LEMMA PeerAcceptsKeepsMic ==
    ASSUME Orderly, NEW c \in CallId, PeerAccepts(c),
           UNCHANGED <<page, tasks, socketOpen, toBackend, deaf>>
    PROVE  MicHolds'
<1>1. /\ c \in OutgoingCall /\ session' = [session EXCEPT ![c] = "active"]
      /\ accepting' \subseteq accepting \union {c}
  BY DEF PeerAccepts
<1>2. PICK m : Neutral(m) /\ Emit(m)
  <2>1. CASE finishing[c] = "no"
    BY <2>1, EmptyEmit DEF PeerAccepts
  <2>2. CASE finishing[c] # "no"
    <3>1. Emit(<<Msg("accepted", c)>>)
      BY <2>2 DEF PeerAccepts
    <3>2. Neutral(<<Msg("accepted", c)>>)
      BY <1>1 DEF Neutral
    <3>3. QED
      BY <3>1, <3>2
  <2>3. QED
    BY <2>1, <2>2
<1>3. /\ \A d \in CallId \ {c} : session'[d] = session[d]
      /\ session'[c] = "active"
  BY <1>1 DEF Orderly, EndedInv, ClientTypes
<1>4. c \notin IncomingCall
  BY <1>1, IncomingIsCall
<1>5. \A x \in AckTask : Served(x)' \subseteq Served(x) /\ Fewer(toBackend', toBackend, Asked(x))
  BY <1>1, <1>3, <1>4, LessIsServed, SameIsFewer
<1>6. \A d \in IncomingCall : /\ session'[d] = session[d]
                              /\ session'[d] = "active" \/ d \in accepting' => Took(d)
  BY <1>1, <1>3, <1>4, IncomingIsCall DEF Took
<1>7. QED
  BY <1>2, <1>3, <1>5, <1>6, NeutralKeepsMic

\* Outgoing calls are rejected by the peer, incoming ones by another page.
LEMMA RejectsDo ==
    ASSUME Orderly, NEW c \in CallId, PeerRejects(c) \/ OtherPageRejects(c)
    PROVE  /\ \E m : Neutral(m) /\ Emit(m)
           /\ \A d \in CallId : session'[d] \in {session[d], "over"}
           /\ UNCHANGED accepting
<1>1. \E m : Neutral(m) /\ Emit(m)
  <2>1. CASE PeerRejects(c)
    <3>1. Neutral(<<Msg("rejected", c)>>) /\ Emit(<<Msg("rejected", c)>>)
      BY <2>1 DEF PeerRejects, Neutral
    <3>2. QED
      BY <3>1
  <2>2. CASE OtherPageRejects(c)
    <3>1. Neutral(<<Msg("dismissed", c)>>) /\ Emit(<<Msg("dismissed", c)>>)
      BY <2>2 DEF OtherPageRejects, Neutral
    <3>2. QED
      BY <3>1
  <2>3. QED
    BY <2>1, <2>2
<1>2. /\ session' = session \/ session' = [session EXCEPT ![c] = "over"]
      /\ UNCHANGED accepting
  BY DEF PeerRejects, OtherPageRejects
<1>3. QED
  BY <1>1, <1>2 DEF Orderly, EndedInv, ClientTypes

LEMMA PeerSignalsDo ==
    ASSUME NEW c \in CallId, PeerSignals(c)
    PROVE  (\E m : Neutral(m) /\ Emit(m)) /\ UNCHANGED <<session, accepting>>
<1>1. session[c] = "active" /\ UNCHANGED <<session, accepting>>
  BY DEF PeerSignals
<1>2. CASE c \in OutgoingCall /\ Emit(<<Msg("answer", c)>>)
  BY <1>1, <1>2 DEF Neutral
<1>3. CASE c \in OutgoingCall /\ Emit(<<Msg("recovery", c)>>)
  BY <1>1, <1>3 DEF Neutral
<1>4. CASE c \in IncomingCall /\ Emit(<<Msg("offer", c)>>)
  <2>1. Took(c)
    BY <1>1 DEF Took
  <2>2. QED
    BY <1>1, <1>4, <2>1 DEF Neutral
<1>5. QED
  BY <1>2, <1>3, <1>4 DEF PeerSignals

LEMMA PeerKeepsMic ==
    ASSUME Orderly, NEW c \in CallId, Peer(c)
    PROVE  MicHolds'
<1>1. UNCHANGED <<page, tasks, socketOpen, toBackend, deaf>>
  BY DEF Peer
<1>2. \A x \in AckTask : Fewer(toBackend', toBackend, Asked(x))
  BY <1>1, SameIsFewer
<1>3. CASE PeerCalls(c)
  BY <1>1, <1>3, PeerCallsKeepsMic
<1>4. CASE PeerAccepts(c)
  BY <1>1, <1>4, PeerAcceptsKeepsMic
<1>5. CASE PeerRejects(c) \/ OtherPageRejects(c)
  BY <1>1, <1>2, <1>5, RejectsDo, EndsKeepMic
<1>6. CASE PeerEnds(c)
  <2>1. Finish(c, "end") /\ UNCHANGED accepting
    BY <1>6 DEF PeerEnds
  <2>2. QED
    BY <1>1, <1>2, <2>1, FinishDoes, EndsKeepMic
<1>7. CASE PeerSignals(c)
  <2>1. (\E m : Neutral(m) /\ Emit(m)) /\ UNCHANGED <<session, accepting>>
    BY <1>7, PeerSignalsDo
  <2>2. \A d \in CallId : session'[d] \in {session[d], "over"}
    BY <2>1
  <2>3. QED
    BY <1>1, <1>2, <2>1, <2>2, EndsKeepMic
<1>8. QED
  BY <1>3, <1>4, <1>5, <1>6, <1>7 DEF Peer

-----------------------------------------------------------------------------

\* The start is stored, and the page that waits is told so.
LEMMA StartStoredKeepsMic ==
    ASSUME Orderly, NEW c \in CallId, StartStored(c)
    PROVE  MicHolds'
<1> DEFINE e == Msg("startOk", c)
           m == IF c \in deaf THEN <<>> ELSE <<e>>
<1>1. /\ session[c] = "starting" /\ session' = [session EXCEPT ![c] = "ringing"]
      /\ Emit(m) /\ deaf' = deaf \ {c}
      /\ UNCHANGED <<page, tasks, socketOpen, toBackend, accepting>>
  BY DEF StartStored, Acked
<1>2. c \in OutgoingCall /\ c \notin IncomingCall
  BY <1>1, IncomingIsCall DEF Orderly, MicHolds, SocketFits
<1>3. e \in Event /\ e.kind = "startOk" /\ e.call = c
  BY DEF Msg, Event
<1>4. <<e>> \in Seq(Event) /\ (\A A : Has(<<e>>, A) <=> e \in A) /\ \A A : AtMostOnce(<<e>>, A)
  BY <1>3, OneTold
<1> HIDE DEF e
<1>5. m \in Seq(Event) /\ (\A A : Has(m, A) => e \in A /\ c \notin deaf) /\ \A A : AtMostOnce(m, A)
  <2>1. CASE c \in deaf
    BY <2>1 DEF Has, AtMostOnce
  <2>2. CASE c \notin deaf
    BY <1>4, <2>2
  <2>3. QED
    BY <2>1, <2>2
<1> HIDE DEF m
<1>6. /\ \A d \in CallId \ {c} : session'[d] = session[d]
      /\ session'[c] = "ringing"
  BY <1>1 DEF Orderly, EndedInv, ClientTypes
<1>7. ASSUME NEW x \in AckTask PROVE IsAwaited(x)'
  <2>1. Served(x)' \subseteq Served(x) \ {c}
    BY <1>1, <1>2, <1>6 DEF Served
  <2>2. CASE Has(m, Answers(x))
    <3>1. x.kind = "start" /\ c \notin deaf
      BY <1>3, <1>5, <2>2 DEF Answers
    <3>2. c \in Served(x)
      BY <1>1, <3>1 DEF Served
    <3>3. IsAwaited(x)
      BY DEF Orderly, MicHolds
    <3>4. x \in tasks /\ ~Has(toPage, Answers(x)) /\ ~Has(toBackend, Asked(x))
      BY <3>2, <3>3 DEF IsAwaited
    <3>5. Served(x)' = {}
      BY <2>1, <3>2, <3>3 DEF IsAwaited
    <3>6. QED
      BY <1>1, <1>5, <3>4, <3>5, ToldAwaits
  <2>3. CASE ~Has(m, Answers(x))
    <3>1. Fewer(toBackend', toBackend, Asked(x))
      BY <1>1, SameIsFewer
    <3>2. QED
      BY <1>1, <1>5, <2>1, <2>3, <3>1, UntoldAwaits
  <2>4. QED
    BY <2>2, <2>3
<1>8. ASSUME NEW d \in IncomingCall PROVE Silent(d)'
  <2>1. /\ ~Has(m, {Msg("incoming", d), Msg("syncedRinging", d)})
        /\ ~Has(m, {Msg("syncedActive", d), Msg("offer", d), Msg("acceptOk", d)})
    BY <1>3, <1>5 DEF Msg
  <2>2. session'[d] = session[d]
    BY <1>2, <1>6, IncomingIsCall
  <2>3. session'[d] = "active" \/ d \in accepting' => Took(d)
    BY <1>1, <2>2 DEF Took
  <2>4. QED
    BY <1>1, <1>5, <2>1, <2>2, <2>3, StaysSilent
<1>9. ~Has(m, Unfit)
  BY <1>2, <1>3, <1>5 DEF Unfit
<1>10. \A d \in CallId : session'[d] = "starting" => d \in OutgoingCall
  BY <1>2, <1>6 DEF Orderly, MicHolds, SocketFits
<1>11. QED
  BY <1>1, <1>5, <1>7, <1>8, <1>9, <1>10, GatewayKeepsMic

\* The accept is stored: the page that waits is told, or the caller.
LEMMA AcceptStoredKeepsMic ==
    ASSUME Orderly, NEW c \in CallId, AcceptStored(c)
    PROVE  MicHolds'
<1> DEFINE e == Msg(IF c \in IncomingCall THEN "acceptOk" ELSE "accepted", c)
           m == IF c \in IncomingCall /\ c \in deaf THEN <<>> ELSE <<e>>
<1>1. /\ c \in accepting /\ accepting' = accepting \ {c} /\ deaf' = deaf \ {c}
      /\ Emit(m) /\ UNCHANGED <<page, tasks, socketOpen, toBackend, session>>
  BY DEF AcceptStored, Acked
<1>2. session[c] # "starting"
  <2>1. c \notin Early
    BY <1>1 DEF Orderly, EndedInv, EarlyIsUnknown
  <2>2. QED
    BY <2>1 DEF Early
<1>3. /\ e \in Event /\ e.call = c
      /\ e.kind = (IF c \in IncomingCall THEN "acceptOk" ELSE "accepted")
  BY DEF Msg, Event
<1>4. <<e>> \in Seq(Event) /\ (\A A : Has(<<e>>, A) <=> e \in A) /\ \A A : AtMostOnce(<<e>>, A)
  BY <1>3, OneTold
<1> HIDE DEF e
<1>5. /\ m \in Seq(Event) /\ \A A : AtMostOnce(m, A)
      /\ \A A : Has(m, A) => e \in A /\ (c \in IncomingCall => c \notin deaf)
  <2>1. CASE c \in IncomingCall /\ c \in deaf
    BY <2>1 DEF Has, AtMostOnce
  <2>2. CASE ~(c \in IncomingCall /\ c \in deaf)
    BY <1>4, <2>2
  <2>3. QED
    BY <2>1, <2>2
<1> HIDE DEF m
<1>6. ASSUME NEW x \in AckTask PROVE IsAwaited(x)'
  <2>1. Served(x)' \subseteq Served(x) \ {c}
    BY <1>1, <1>2 DEF Served
  <2>2. CASE Has(m, Answers(x))
    <3>1. x.kind = "accept" /\ x.call = c /\ c \in IncomingCall /\ c \notin deaf
      BY <1>3, <1>5, <2>2 DEF Answers
    <3>2. c \in Served(x)
      BY <1>1, <3>1 DEF Served
    <3>3. IsAwaited(x)
      BY DEF Orderly, MicHolds
    <3>4. x \in tasks /\ ~Has(toPage, Answers(x)) /\ ~Has(toBackend, Asked(x))
      BY <3>2, <3>3 DEF IsAwaited
    <3>5. Served(x)' = {}
      BY <2>1, <3>2, <3>3 DEF IsAwaited
    <3>6. QED
      BY <1>1, <1>5, <3>4, <3>5, ToldAwaits
  <2>3. CASE ~Has(m, Answers(x))
    <3>1. Fewer(toBackend', toBackend, Asked(x))
      BY <1>1, SameIsFewer
    <3>2. QED
      BY <1>1, <1>5, <2>1, <2>3, <3>1, UntoldAwaits
  <2>4. QED
    BY <2>2, <2>3
<1>7. ASSUME NEW d \in IncomingCall PROVE Silent(d)'
  <2>1. ~Has(m, {Msg("incoming", d), Msg("syncedRinging", d)})
    BY <1>3, <1>5 DEF Msg
  <2>2. session[d] = "active" \/ d \in accepting => Took(d)
    BY DEF Took
  <2>3. ASSUME Has(m, {Msg("syncedActive", d), Msg("offer", d), Msg("acceptOk", d)}) PROVE Took(d)
    <3>1. d = c
      BY <1>3, <1>5, <2>3 DEF Msg
    <3>2. QED
      BY <1>1, <2>2, <3>1
  <2>4. QED
    BY <1>1, <1>5, <2>1, <2>2, <2>3, StaysSilent
<1>8. ~Has(m, Unfit)
  <2>1. e \notin Unfit
    BY <1>3 DEF Unfit, CallId
  <2>2. QED
    BY <1>5, <2>1
<1>9. \A d \in CallId : session'[d] = "starting" => d \in OutgoingCall
  BY <1>1 DEF Orderly, MicHolds, SocketFits
<1>10. QED
  BY <1>1, <1>5, <1>6, <1>7, <1>8, <1>9, GatewayKeepsMic

-----------------------------------------------------------------------------

\* The request that the gateway handles next is no longer on its way.
LEMMA NextPacket ==
    ASSUME Orderly, toBackend # <<>>, toBackend' = Tail(toBackend)
    PROVE  /\ Head(toBackend) \in Packet
           /\ \A x \in AckTask : Fewer(toBackend', toBackend, Asked(x))
           /\ \A x \in AckTask : Head(toBackend) \in Asked(x) =>
                 /\ x \in tasks /\ Served(x) = {}
                 /\ ~Has(toPage, Answers(x)) /\ ~Has(toBackend', Asked(x))
<1>1. toBackend \in Seq(Packet)
  BY DEF Orderly, EndedInv, ClientTypes
<1>2. Head(toBackend) \in Packet
  BY <1>1
<1>3. ASSUME NEW x \in AckTask
      PROVE  /\ Fewer(toBackend', toBackend, Asked(x))
             /\ Head(toBackend) \in Asked(x) =>
                   /\ x \in tasks /\ Served(x) = {}
                   /\ ~Has(toPage, Answers(x)) /\ ~Has(toBackend', Asked(x))
  <2>1. IsAwaited(x)
    BY DEF Orderly, MicHolds
  <2>2. /\ Fewer(Tail(toBackend), toBackend, Asked(x))
        /\ Head(toBackend) \in Asked(x) => Has(toBackend, Asked(x))
        /\ Head(toBackend) \in Asked(x) /\ AtMostOnce(toBackend, Asked(x)) =>
              ~Has(Tail(toBackend), Asked(x))
    BY <1>1, TailIsFewer
  <2>3. QED
    BY <2>1, <2>2 DEF IsAwaited
<1>4. QED
  BY <1>2, <1>3

\* The gateway answers the handler x, and serves nobody.
LEMMA AnswersOne ==
    ASSUME Orderly, UNCHANGED <<tasks, socketOpen>>, NEW x \in AckTask \intersect tasks,
           NEW m \in Seq(Event), Emit(m), AtMostOnce(m, Answers(x)),
           \A y \in AckTask \ {x} : ~Has(m, Answers(y)),
           Served(x) = {}, ~Has(toPage, Answers(x)), ~Has(toBackend', Asked(x)),
           \A y \in AckTask : /\ Fewer(toBackend', toBackend, Asked(y))
                              /\ Served(y)' \subseteq Served(y)
    PROVE  \A y \in AckTask : IsAwaited(y)'
<1> SUFFICES ASSUME NEW y \in AckTask PROVE IsAwaited(y)'
  OBVIOUS
<1>1. CASE y = x
  <2>1. Served(x)' = {}
    OBVIOUS
  <2>2. QED
    BY <1>1, <2>1, ToldAwaits
<1>2. CASE y # x
  BY <1>2, UntoldAwaits
<1>3. QED
  BY <1>1, <1>2

\* The gateway serves the handler x from now on, and answers nobody.
LEMMA ServesOne ==
    ASSUME Orderly, UNCHANGED <<tasks, toPage, socketOpen>>, socketOpen,
           NEW x \in AckTask \intersect tasks, NEW c,
           Served(x)' \subseteq {c}, ~Has(toPage, Answers(x)), ~Has(toBackend', Asked(x)),
           \A y \in AckTask : Fewer(toBackend', toBackend, Asked(y)),
           \A y \in AckTask \ {x} : Served(y)' \subseteq Served(y)
    PROVE  \A y \in AckTask : IsAwaited(y)'
<1> SUFFICES ASSUME NEW y \in AckTask PROVE IsAwaited(y)'
  OBVIOUS
<1>1. CASE y = x
  BY <1>1, ServedAwaits
<1>2. CASE y # x
  <2>1. Emit(<<>>) /\ <<>> \in Seq(Event) /\ ~Has(<<>>, Answers(y))
    BY EmptyEmit DEF Has
  <2>2. QED
    BY <1>2, <2>1, UntoldAwaits
<1>3. QED
  BY <1>1, <1>2

\* The answers of one handler are not those of another.
LEMMA AnswersDiffer ==
    ASSUME NEW x \in AckTask, NEW y \in AckTask, NEW e, e \in Answers(x), e \in Answers(y)
    PROVE  x = y
BY AckTasks DEF Answers, StartAck, SyncAck, AcceptAck

LEMMA GatewayStartsKeepsMic ==
    ASSUME Orderly, toBackend # <<>>, toBackend' = Tail(toBackend), Head(toBackend).kind = "start",
           GatewayStarts, socketOpen,
           UNCHANGED <<page, tasks, socketOpen, accepting, deaf>>
    PROVE  MicHolds'
<1>1. /\ StartAck \in AckTask \intersect tasks /\ Served(StartAck) = {}
      /\ ~Has(toPage, Answers(StartAck)) /\ ~Has(toBackend', Asked(StartAck))
      /\ \A x \in AckTask : Fewer(toBackend', toBackend, Asked(x))
  <2>1. Head(toBackend) \in Packet
    BY NextPacket
  <2>2. Head(toBackend) \in Asked(StartAck)
    BY <2>1 DEF Packet, Asked, StartAck, Msg
  <2>3. QED
    BY <2>2, NextPacket, AckTasks
<1>2. CASE Emit(<<Msg("startFailed", None)>>) /\ UNCHANGED session
  <2> DEFINE e == Msg("startFailed", None)
             m == <<e>>
  <2>1. e \in Event /\ e.kind = "startFailed" /\ e.call = None
    BY DEF Msg, Event
  <2>2. m \in Seq(Event) /\ (\A A : Has(m, A) <=> e \in A) /\ \A A : AtMostOnce(m, A)
    BY <2>1, OneTold
  <2>3. Emit(m)
    BY <1>2
  <2> HIDE DEF e, m
  <2>4. e \in Answers(StartAck) /\ e \notin Unfit
    BY <2>1 DEF Answers, StartAck, Unfit
  <2>5. \A y \in AckTask \ {StartAck} : ~Has(m, Answers(y))
    BY <1>1, <2>2, <2>4, AnswersDiffer
  <2>6. \A y \in AckTask : Served(y)' = Served(y)
    BY <1>2, ServedStays
  <2>7. \A y \in AckTask : IsAwaited(y)'
    BY <1>1, <2>2, <2>3, <2>5, <2>6, AnswersOne
  <2>8. ASSUME NEW d \in IncomingCall PROVE Silent(d)'
    <3>1. /\ ~Has(m, {Msg("incoming", d), Msg("syncedRinging", d)})
          /\ ~Has(m, {Msg("syncedActive", d), Msg("offer", d), Msg("acceptOk", d)})
      BY <2>1, <2>2 DEF Msg
    <3>2. session'[d] = "active" \/ d \in accepting' => Took(d)
      BY <1>2 DEF Took
    <3>3. QED
      BY <1>2, <2>2, <2>3, <3>1, <3>2, StaysSilent
  <2>9. ~Has(m, Unfit)
    BY <2>2, <2>4
  <2>10. \A d \in CallId : session'[d] = "starting" => d \in OutgoingCall
    BY <1>2 DEF Orderly, MicHolds, SocketFits
  <2>11. QED
    BY <2>2, <2>3, <2>7, <2>8, <2>9, <2>10, GatewayKeepsMic
<1>3. CASE /\ UNCHANGED toPage
           /\ \E c \in OutgoingCall : /\ session[c] = "unused"
                                      /\ session' = [session EXCEPT ![c] = "starting"]
  <2>1. PICK c \in OutgoingCall : session' = [session EXCEPT ![c] = "starting"]
    BY <1>3
  <2>2. /\ \A d \in CallId \ {c} : session'[d] = session[d]
        /\ session'[c] = "starting" /\ c \notin IncomingCall
    BY <2>1, IncomingIsCall DEF Orderly, EndedInv, ClientTypes
  <2>3. Served(StartAck)' \subseteq {c}
    BY <1>1, <2>2 DEF Served, StartAck
  <2>4. \A y \in AckTask \ {StartAck} : Served(y)' \subseteq Served(y)
    BY AckTasks DEF Served, StartAck, SyncAck, AcceptAck
  <2>5. \A y \in AckTask : IsAwaited(y)'
    BY <1>1, <1>3, <2>3, <2>4, ServesOne
  <2>6. Emit(<<>>) /\ <<>> \in Seq(Event) /\ \A A : ~Has(<<>>, A)
    BY <1>3, EmptyEmit DEF Has
  <2>7. ASSUME NEW d \in IncomingCall PROVE Silent(d)'
    <3>1. session'[d] = session[d]
      BY <2>2, IncomingIsCall
    <3>2. session'[d] = "active" \/ d \in accepting' => Took(d)
      BY <3>1 DEF Took
    <3>3. QED
      BY <2>6, <3>1, <3>2, StaysSilent
  <2>8. \A d \in CallId : session'[d] = "starting" => d \in OutgoingCall
    BY <2>2 DEF Orderly, MicHolds, SocketFits
  <2>9. QED
    BY <2>5, <2>6, <2>7, <2>8, GatewayKeepsMic
<1>4. QED
  BY <1>2, <1>3 DEF GatewayStarts

LEMMA GatewaySyncsKeepsMic ==
    ASSUME Orderly, toBackend # <<>>, toBackend' = Tail(toBackend), Head(toBackend).kind = "sync",
           GatewaySyncs, UNCHANGED <<page, tasks, socketOpen, session, accepting, deaf>>
    PROVE  MicHolds'
<1>1. /\ SyncAck \in AckTask \intersect tasks /\ Served(SyncAck) = {}
      /\ ~Has(toPage, Answers(SyncAck)) /\ ~Has(toBackend', Asked(SyncAck))
      /\ \A x \in AckTask : Fewer(toBackend', toBackend, Asked(x))
  <2>1. Head(toBackend) \in Packet
    BY NextPacket
  <2>2. Head(toBackend) \in Asked(SyncAck)
    BY <2>1 DEF Packet, Asked, SyncAck, Msg
  <2>3. QED
    BY <2>2, NextPacket, AckTasks
<1>2. PICK k, c : /\ Emit(<<Msg(k, c)>>) /\ Msg(k, c) \in Event
                  /\ k \in {"syncedNone", "syncedRinging", "syncedActive"}
                  /\ k = "syncedActive" => session[c] = "active"
                  /\ k = "syncedRinging" => session[c] = "ringing"
  <2>1. CASE InMap = {}
    <3>1. Emit(<<Msg("syncedNone", None)>>) /\ Msg("syncedNone", None) \in Event
      BY <2>1 DEF GatewaySyncs, Msg, Event
    <3>2. QED
      BY <3>1
  <2>2. CASE InMap # {}
    <3>1. PICK c \in InMap :
             Emit(<<Msg(IF session[c] = "active" THEN "syncedActive" ELSE "syncedRinging", c)>>)
      BY <2>2 DEF GatewaySyncs
    <3>2. c \in CallId /\ session[c] \in {"ringing", "active"}
      BY DEF InMap
    <3>3. Msg("syncedActive", c) \in Event /\ Msg("syncedRinging", c) \in Event
      BY <3>2 DEF Msg, Event
    <3>4. CASE session[c] = "active"
      BY <3>1, <3>3, <3>4
    <3>5. CASE session[c] = "ringing"
      BY <3>1, <3>3, <3>5
    <3>6. QED
      BY <3>2, <3>4, <3>5
  <2>3. QED
    BY <2>1, <2>2
<1> DEFINE e == Msg(k, c)
           m == <<e>>
<1>3. e.kind = k /\ e.call = c
  BY DEF Msg
<1>4. m \in Seq(Event) /\ (\A A : Has(m, A) <=> e \in A) /\ \A A : AtMostOnce(m, A)
  BY <1>2, OneTold
<1>5. Emit(m) /\ e \in Event
  BY <1>2
<1> HIDE DEF e, m
<1>6. e \in Answers(SyncAck) /\ e \notin Unfit
  BY <1>2, <1>3, <1>5 DEF Answers, SyncAck, Unfit
<1>7. \A y \in AckTask \ {SyncAck} : ~Has(m, Answers(y))
  BY <1>1, <1>4, <1>6, AnswersDiffer
<1>8. \A y \in AckTask : Served(y)' = Served(y)
  BY ServedStays
<1>9. \A y \in AckTask : IsAwaited(y)'
  BY <1>1, <1>4, <1>5, <1>7, <1>8, AnswersOne
<1>10. ASSUME NEW d \in IncomingCall PROVE Silent(d)'
  <2> DEFINE A == {Msg("syncedActive", d), Msg("offer", d), Msg("acceptOk", d)}
             B == {Msg("incoming", d), Msg("syncedRinging", d)}
  <2>1. Has(m, A) => k = "syncedActive" /\ c = d
    BY <1>2, <1>3, <1>4 DEF Msg
  <2>2. Has(m, B) => k = "syncedRinging" /\ c = d
    BY <1>2, <1>3, <1>4 DEF Msg
  <2>3. session'[d] = "active" \/ d \in accepting' => Took(d)
    BY DEF Took
  <2>4. Has(m, A) => Took(d)
    BY <1>2, <2>1 DEF Took
  <2>5. CASE Has(m, B)
    <3>1. session[d] = "ringing" /\ ~Has(m, A)
      BY <1>2, <2>1, <2>2, <2>5
    <3>2. ~Took(d)
      BY <3>1 DEF Orderly, MicHolds, TakenIsSilent
    <3>3. ~Has(toPage, A)
      BY <3>2 DEF Took, TakenAt
    <3>4. ~Has(toPage', A)
      BY <1>4, <1>5, <3>1, <3>3, EmitHas
    <3> HIDE DEF B
    <3>5. ~Took(d)'
      BY <3>2, <3>4 DEF Took, TakenAt
    <3>6. QED
      BY <3>5 DEF Silent
  <2>6. CASE ~Has(m, B)
    BY <1>4, <1>5, <2>3, <2>4, <2>6, StaysSilent
  <2>7. QED
    BY <2>5, <2>6
<1>11. ~Has(m, Unfit)
  BY <1>4, <1>6
<1>12. \A d \in CallId : session'[d] = "starting" => d \in OutgoingCall
  BY DEF Orderly, MicHolds, SocketFits
<1>13. QED
  BY <1>4, <1>5, <1>9, <1>10, <1>11, <1>12, GatewayKeepsMic

\* A page that has asked to accept a call does not hear it ring again.
LEMMA AcceptIsHeard ==
    ASSUME Orderly, NEW c \in CallId, AcceptAck(c) \in tasks
    PROVE  c \in IncomingCall /\ ~RingsAt(page, tasks, toPage, c)
<1> DEFINE x == AcceptAck(c)
           B == {Msg("incoming", c), Msg("syncedRinging", c)}
<1>1. /\ StreamFits(page) /\ TasksFit(page, tasks) /\ toPage \in Seq(Event) /\ c # None
  BY SoundNow, IncomingIsCall DEF Orderly, EndedInv, ClientTypes
<1>2. x \in tasks /\ x.kind = "accept" /\ x.call = c /\ x.at = "ack"
  BY DEF AcceptAck
<1> HIDE DEF x
<1>3. c \in IncomingCall /\ page.call.id = c /\ page.mic /\ SyncAck \notin tasks
  BY <1>1, <1>2 DEF TasksFit
<1>4. page.call.status # "incoming"
  BY <1>1, <1>3 DEF StreamFits
<1>5. \A y \in tasks : y.at = "ack"
  BY <1>1, <1>3 DEF TasksFit
<1>6. ASSUME NEW i \in DOMAIN toPage, toPage[i] \in B PROVE FALSE
  <2>1. CASE toPage[i] = Msg("incoming", c)
    <3>1. toPage[i].kind \in News /\ toPage[i].call = c
      BY <2>1 DEF News, Msg
    <3>2. c \notin Known
      BY <3>1 DEF Orderly, EndedInv, NewsIsNew
    <3>3. QED
      BY <1>1, <1>3, <3>2 DEF Known, KnownOf
  <2>2. CASE toPage[i] = Msg("syncedRinging", c)
    <3>1. Msg("syncedRinging", c) \in Event
      BY DEF Msg, Event
    <3>2. Msg("syncedRinging", c) \in Answers(SyncAck)
      BY <3>1 DEF Msg, Answers, SyncAck
    <3>3. Has(toPage, Answers(SyncAck))
      BY <2>2, <3>2 DEF Has
    <3>4. SyncAck \in tasks
      BY <3>3, AckTasks DEF Orderly, MicHolds, IsAwaited
    <3>5. QED
      BY <1>3, <3>4
  <2>3. QED
    BY <1>6, <2>1, <2>2
<1>7. ~Has(toPage, B)
  BY <1>6 DEF Has
<1>8. QED
  BY <1>3, <1>4, <1>5, <1>7 DEF RingsAt

\* The answer to an accept, after which the call does not ring.
LEMMA AcceptAnswered ==
    ASSUME Orderly, NEW c \in CallId, UNCHANGED <<page, tasks, socketOpen, accepting, deaf>>,
           AcceptAck(c) \in tasks, Served(AcceptAck(c)) = {},
           ~Has(toPage, Answers(AcceptAck(c))), ~Has(toBackend', Asked(AcceptAck(c))),
           \A x \in AckTask : Fewer(toBackend', toBackend, Asked(x)),
           NEW m \in Seq(Event), Emit(m), AtMostOnce(m, Answers(AcceptAck(c))),
           \A A : Has(m, A) =>
              {Msg("acceptOk", c), Msg("acceptFailed", c), Msg("ended", c)} \intersect A # {},
           \A d \in CallId \ {c} : session'[d] = session[d],
           session'[c] = session[c] \/ session'[c] \in {"active", "over"},
           Has(m, {Msg("acceptOk", c)}) => session'[c] = "active"
    PROVE  MicHolds'
<1> DEFINE x == AcceptAck(c)
           T == {Msg("acceptOk", c), Msg("acceptFailed", c), Msg("ended", c)}
<1>1. c \in IncomingCall /\ c \notin OutgoingCall /\ ~RingsAt(page, tasks, toPage, c)
  BY AcceptIsHeard, IncomingIsCall
<1>2. x \in AckTask \intersect tasks
  BY AckTasks
<1>3. \A d \in CallId : session'[d] = "starting" => session[d] = "starting"
  OBVIOUS
<1>4. \A y \in AckTask : Served(y)' \subseteq Served(y)
  BY <1>3, LessIsServed
<1>5. \A b \in T : b.kind \in {"acceptOk", "acceptFailed", "ended"} /\ b.call = c
  BY DEF Msg
<1>6. \A A : Has(m, A) => T \intersect A # {}
  OBVIOUS
<1>7. \A y \in AckTask \ {x} : ~Has(m, Answers(y))
  <2> SUFFICES ASSUME NEW y \in AckTask, y # x, NEW b \in T, b \in Answers(y) PROVE FALSE
    BY <1>6
  <2>1. y.kind = "accept" /\ y.call = c
    BY <1>5 DEF Answers
  <2>2. QED
    BY <2>1 DEF AckTask, Task, AcceptAck
<1> HIDE DEF x
<1>8. \A y \in AckTask : IsAwaited(y)'
  <2>1. Served(x) = {} /\ ~Has(toPage, Answers(x)) /\ ~Has(toBackend', Asked(x))
        /\ AtMostOnce(m, Answers(x))
    BY DEF x
  <2>2. QED
    BY <1>2, <1>4, <1>7, <2>1, AnswersOne
<1> HIDE DEF T
<1>9. ~Has(m, Unfit)
  BY <1>5, <1>6 DEF Unfit
<1>10. \A d \in CallId : session'[d] = "starting" => d \in OutgoingCall
  BY <1>3 DEF Orderly, MicHolds, SocketFits
<1>11. \A d : ~Has(m, {Msg("incoming", d), Msg("syncedRinging", d)})
  BY <1>5, <1>6 DEF Msg
<1>12. ASSUME NEW d \in IncomingCall PROVE Silent(d)'
  <2> DEFINE A == {Msg("syncedActive", d), Msg("offer", d), Msg("acceptOk", d)}
             B == {Msg("incoming", d), Msg("syncedRinging", d)}
  <2>1. CASE d = c /\ session'[c] \in {"active", "over"}
    <3>1. ~Has(toPage, B)
      BY <1>1, <2>1 DEF RingsAt
    <3>2. ~Has(m, B)
      BY <1>11
    <3>3. ~Has(toPage', B)
      BY <3>1, <3>2, EmitHas
    <3>4. ~RingsAt(page', tasks', toPage', c)
      BY <1>1, <2>1, <3>3 DEF RingsAt
    <3>5. QED
      BY <2>1, <3>4 DEF Silent
  <2>2. CASE session'[d] = session[d] /\ (d = c => session'[c] # "active")
    <3>1. session'[d] = "active" \/ d \in accepting' => Took(d)
      BY <2>2 DEF Took
    <3>2. ASSUME Has(m, A) PROVE FALSE
      <4>1. PICK b \in T : b \in A
        BY <1>6, <3>2
      <4>2. d = c /\ b = Msg("acceptOk", c)
        BY <1>5, <4>1 DEF Msg
      <4>3. A = {Msg("syncedActive", c), Msg("offer", c), Msg("acceptOk", c)}
        BY <4>2
      <4>4. ~Has(m, {Msg("acceptOk", c)})
        BY <2>2, <4>2
      <4>5. PICK i \in DOMAIN m : m[i] \in A
        BY <3>2 DEF Has
      <4>6. Has(m, {m[i]})
        BY <4>5 DEF Has
      <4>7. PICK a \in T : a = m[i]
        BY <1>6, <4>6
      <4>8. a.kind = "acceptOk" /\ a = Msg("acceptOk", c)
        BY <1>5, <4>3, <4>5, <4>7 DEF Msg
      <4>9. QED
        BY <4>4, <4>6, <4>7, <4>8
    <3>3. ~Has(m, B)
      BY <1>11
    <3>4. QED
      BY <2>2, <3>1, <3>2, <3>3, StaysSilent
  <2>3. QED
    BY <2>1, <2>2, IncomingIsCall
<1>13. QED
  BY <1>8, <1>9, <1>10, <1>12, GatewayKeepsMic

LEMMA GatewayAcceptsKeepsMic ==
    ASSUME Orderly, toBackend # <<>>, toBackend' = Tail(toBackend), Head(toBackend).kind = "accept",
           GatewayAccepts(Head(toBackend).call), socketOpen,
           UNCHANGED <<page, tasks, socketOpen, deaf>>
    PROVE  MicHolds'
<1> SUFFICES ASSUME NEW c, c = Head(toBackend).call
             PROVE  MicHolds'
  OBVIOUS
<1> DEFINE x == AcceptAck(c)
<1>1. /\ x \in tasks /\ Served(x) = {} /\ c \in CallId
      /\ ~Has(toPage, Answers(x)) /\ ~Has(toBackend', Asked(x))
      /\ \A y \in AckTask : Fewer(toBackend', toBackend, Asked(y))
  <2>1. Head(toBackend) \in Packet
    BY NextPacket
  <2>2. Head(toBackend) \in Asked(x) /\ c \in CallId
    BY <2>1 DEF Packet, Asked, AcceptAck, Msg
  <2>3. QED
    BY <2>2, NextPacket, AckTasks
<1>2. c \in IncomingCall /\ ~RingsAt(page, tasks, toPage, c)
  BY <1>1, AcceptIsHeard
<1>3. GatewayAccepts(c)
  OBVIOUS
<1> HIDE DEF x
<1>4. \A k \in {"acceptOk", "acceptFailed", "ended"} :
         Msg(k, c) \in Event /\ (k = "ended" => Msg(k, c) \notin Answers(x))
  BY <1>1 DEF Msg, Event, Answers, x, AcceptAck
<1>5. CASE session[c] # "ringing"
  <2>1. Emit(<<Msg("acceptFailed", c)>>) /\ UNCHANGED <<session, accepting>>
    BY <1>3, <1>5 DEF GatewayAccepts
  <2>2. \A A : Has(<<Msg("acceptFailed", c)>>, A) <=> Msg("acceptFailed", c) \in A
    BY <1>4, OneTold
  <2>3. /\ <<Msg("acceptFailed", c)>> \in Seq(Event)
        /\ AtMostOnce(<<Msg("acceptFailed", c)>>, Answers(x))
    BY <1>4, OneTold
  <2>4. ~Has(<<Msg("acceptFailed", c)>>, {Msg("acceptOk", c)})
    BY <2>2 DEF Msg
  <2>5. QED
    BY <1>1, <2>1, <2>2, <2>3, <2>4, AcceptAnswered DEF x
<1>6. CASE session[c] = "ringing" /\ finishing[c] = "no"
  <2>1. session' = [session EXCEPT ![c] = "active"] /\ accepting' = accepting \union {c}
        /\ toPage' = toPage
    BY <1>3, <1>6 DEF GatewayAccepts
  <2>2. /\ \A d \in CallId \ {c} : session'[d] = session[d]
        /\ session'[c] = "active"
    BY <1>1, <2>1 DEF Orderly, EndedInv, ClientTypes
  <2>3. Served(x)' \subseteq {c}
    BY DEF Served, x, AcceptAck
  <2>4. ASSUME NEW y \in AckTask \ {x} PROVE Served(y)' \subseteq Served(y)
    <3>1. y.kind = "accept" => y.call # c
      BY <2>4 DEF AckTask, Task, x, AcceptAck
    <3>2. QED
      BY <2>1, <2>2, <3>1 DEF Served
  <2>5. \A y \in AckTask : IsAwaited(y)'
    BY <1>1, <2>1, <2>3, <2>4, AckTasks, ServesOne DEF x
  <2>6. Emit(<<>>) /\ <<>> \in Seq(Event) /\ \A A : ~Has(<<>>, A)
    BY <2>1, EmptyEmit DEF Has
  <2>7. ASSUME NEW d \in IncomingCall PROVE Silent(d)'
    <3>1. CASE d = c
      <4>1. ~RingsAt(page', tasks', toPage', c)
        BY <1>2, <2>1
      <4>2. QED
        BY <2>2, <3>1, <4>1 DEF Silent
    <3>2. CASE d # c
      <4>1. session'[d] = session[d]
        BY <2>2, <3>2, IncomingIsCall
      <4>2. session'[d] = "active" \/ d \in accepting' => Took(d)
        BY <2>1, <3>2, <4>1 DEF Took
      <4>3. QED
        BY <2>6, <4>1, <4>2, StaysSilent
    <3>3. QED
      BY <3>1, <3>2
  <2>8. \A d \in CallId : session'[d] = "starting" => d \in OutgoingCall
    BY <2>2 DEF Orderly, MicHolds, SocketFits
  <2>9. QED
    BY <2>5, <2>6, <2>7, <2>8, GatewayKeepsMic
<1>7. CASE session[c] = "ringing" /\ finishing[c] # "no"
  <2>1. UNCHANGED accepting
    BY <1>3, <1>7 DEF GatewayAccepts
  <2>2. CASE session' = [session EXCEPT ![c] = "active"] /\ Emit(<<Msg("acceptOk", c)>>)
    <3>1. \A A : Has(<<Msg("acceptOk", c)>>, A) <=> Msg("acceptOk", c) \in A
      BY <1>4, OneTold
    <3>2. <<Msg("acceptOk", c)>> \in Seq(Event) /\ AtMostOnce(<<Msg("acceptOk", c)>>, Answers(x))
      BY <1>4, OneTold
    <3>3. /\ \A d \in CallId \ {c} : session'[d] = session[d]
          /\ session'[c] = "active"
      BY <1>1, <2>2 DEF Orderly, EndedInv, ClientTypes
    <3>4. QED
      BY <1>1, <2>1, <2>2, <3>1, <3>2, <3>3, AcceptAnswered DEF x
  <2>3. CASE /\ session' = [session EXCEPT ![c] = "over"]
             /\ Emit(<<Msg("ended", c), Msg("acceptFailed", c)>>)
    <3> DEFINE m == <<Msg("ended", c), Msg("acceptFailed", c)>>
    <3>1. /\ m \in Seq(Event) /\ DOMAIN m = {1, 2}
          /\ m[1] = Msg("ended", c) /\ m[2] = Msg("acceptFailed", c)
      BY <1>4
    <3>2. Emit(m)
      BY <2>3
    <3> HIDE DEF m
    <3>3. AtMostOnce(m, Answers(x))
      BY <1>4, <3>1 DEF AtMostOnce
    <3>4. \A A : Has(m, A) =>
             {Msg("acceptOk", c), Msg("acceptFailed", c), Msg("ended", c)} \intersect A # {}
      BY <3>1 DEF Has
    <3>5. ~Has(m, {Msg("acceptOk", c)})
      BY <3>1 DEF Has, Msg
    <3>6. /\ \A d \in CallId \ {c} : session'[d] = session[d]
          /\ session'[c] = "over"
      BY <1>1, <2>3 DEF Orderly, EndedInv, ClientTypes
    <3>7. QED
      BY <1>1, <2>1, <3>1, <3>2, <3>3, <3>4, <3>5, <3>6, AcceptAnswered DEF x
  <2>4. QED
    BY <1>3, <1>7, <2>2, <2>3 DEF GatewayAccepts
<1>8. QED
  BY <1>5, <1>6, <1>7

LEMMA GatewayHandlesKeepsMic ==
    ASSUME Orderly, GatewayHandles
    PROVE  MicHolds'
<1> DEFINE b == Head(toBackend)
           c == b.call
<1>1. /\ toBackend # <<>> /\ toBackend' = Tail(toBackend) /\ socketOpen
      /\ UNCHANGED <<page, tasks, socketOpen, deaf>>
  BY DEF GatewayHandles
<1>2. b \in Packet /\ \A x \in AckTask : Fewer(toBackend', toBackend, Asked(x))
  BY <1>1, NextPacket
<1>3. CASE b.kind = "start" /\ GatewayStarts /\ UNCHANGED accepting
  BY <1>1, <1>3, GatewayStartsKeepsMic
<1>4. CASE b.kind = "accept" /\ GatewayAccepts(c)
  BY <1>1, <1>4, GatewayAcceptsKeepsMic
<1>5. CASE b.kind = "sync" /\ GatewaySyncs /\ UNCHANGED <<session, accepting>>
  BY <1>1, <1>5, GatewaySyncsKeepsMic
<1>6. CASE b.kind \in {"reject", "end"} /\ Finish(c, b.kind) /\ UNCHANGED accepting
  <2>1. c \in CallId
    BY <1>2, <1>6 DEF Packet
  <2>2. QED
    BY <1>1, <1>2, <1>6, <2>1, FinishDoes, EndsKeepMic
<1>7. CASE UNCHANGED <<toPage, session, accepting>>
  <2>1. \E m : Neutral(m) /\ Emit(m)
    BY <1>7, EmptyEmit
  <2>2. \A d \in CallId : session'[d] \in {session[d], "over"}
    BY <1>7
  <2>3. QED
    BY <1>1, <1>2, <1>7, <2>1, <2>2, EndsKeepMic
<1> HIDE DEF c
<1>8. QED
  BY <1>3, <1>4, <1>5, <1>6, <1>7 DEF GatewayHandles, c

-----------------------------------------------------------------------------

LEMMA ClientInitMic == ClientInit => MicInv
<1> SUFFICES ASSUME ClientInit PROVE MicInv
  OBVIOUS
<1>1. EndedInv
  BY ClientInitEnded
<1>2. /\ page.call = NoCall /\ page.mic = FALSE /\ page.streams = 0 /\ page.conn = "none"
      /\ tasks = {} /\ toBackend = <<>> /\ toPage = <<>> /\ accepting = {}
      /\ \A c \in CallId : session[c] = "unused"
  BY DEF ClientInit
<1>3. NoCall.status = "none" /\ NoCall.id = None /\ Over(NoCall)
  BY DEF NoCall, Over
<1>4. MicIsSound(page, tasks)
  BY <1>2, <1>3 DEF MicIsSound, StreamFits, TasksFit, StreamComes, Live
<1>5. \A A : ~Has(<<>>, A) /\ AtMostOnce(<<>>, A)
  BY DEF Has, AtMostOnce
<1>6. \A x \in AckTask : Served(x) = {}
  BY <1>2 DEF Served
<1>7. \A x \in AckTask : IsAwaited(x)
  BY <1>2, <1>5, <1>6 DEF IsAwaited
<1>8. TakenIsSilent
  <2> SUFFICES ASSUME NEW c \in IncomingCall, Took(c) PROVE FALSE
    BY DEF TakenIsSilent
  <2>1. c \in CallId
    BY IncomingIsCall
  <2>2. QED
    BY <1>2, <1>5, <2>1 DEF Took, TakenAt
<1>9. EventsFit /\ SocketFits
  BY <1>2 DEF EventsFit, SocketFits
<1>10. QED
  BY <1>1, <1>4, <1>7, <1>8, <1>9 DEF MicInv, MicHolds

LEMMA MicIsStable ==
    ASSUME MicHolds, UNCHANGED clientVars
    PROVE  MicHolds'
BY DEF clientVars, backend, MicHolds, IsAwaited, Served, TakenIsSilent, Took, EventsFit, SocketFits

\* A handler that was overtaken stays so.
LEMMA OvertakenStays ==
    ASSUME EndedInv, ClientNext, ~overtaken'
    PROVE  ~overtaken
<1>1. CASE PageActs
  BY <1>1, PageLearns DEF Learned
<1>2. CASE HandleEvent
  BY <1>2, HandleEventLearns DEF Learned
<1>3. CASE GatewayHandles
  BY <1>3 DEF GatewayHandles
<1>4. ASSUME NEW c \in CallId, StartStored(c) \/ AcceptStored(c) \/ FinishStored(c) \/ Peer(c)
      PROVE  ~overtaken
  BY <1>4 DEF StartStored, AcceptStored, FinishStored, Peer
<1>5. CASE GatewayRestarts
  BY <1>5 DEF GatewayRestarts
<1>6. QED
  BY <1>1, <1>2, <1>3, <1>4, <1>5 DEF ClientNext, PageActs

LEMMA ClientNextKeepsMic ==
    ASSUME MicInv, [ClientNext]_clientVars
    PROVE  MicInv'
<1>1. EndedInv /\ EndedInv'
  BY ClientNextKeepsEnded DEF MicInv
<1>2. CASE UNCHANGED clientVars
  <2>1. UNCHANGED overtaken
    BY <1>2 DEF clientVars
  <2>2. QED
    BY <1>1, <1>2, <2>1, MicIsStable DEF MicInv
<1>3. ASSUME ClientNext, ~overtaken' PROVE MicHolds'
  <2>1. Orderly
    BY <1>1, <1>3, OvertakenStays DEF MicInv, Orderly
  <2>2. CASE PageActs
    <3>1. CASE \E x \in tasks : MicOpens(x) \/ AckTimesOut(x)
      BY <2>1, <3>1, MicOpensKeepsMic, AckTimesOutKeepsMic
    <3>2. CASE SocketOpens \/ SocketCloses
      BY <2>1, <3>2, SocketOpensKeepsMic, SocketClosesKeepsMic
    <3>3. QED
      BY <2>1, <2>2, <3>1, <3>2, PageKeepsMic DEF PageActs
  <2>3. CASE HandleEvent
    BY <2>1, <2>3, HandleEventKeepsMic
  <2>4. CASE GatewayHandles
    BY <2>1, <2>4, GatewayHandlesKeepsMic
  <2>5. ASSUME NEW c \in CallId, StartStored(c) \/ AcceptStored(c) \/ FinishStored(c) \/ Peer(c)
        PROVE  MicHolds'
    BY <2>1, <2>5, StartStoredKeepsMic, AcceptStoredKeepsMic, FinishStoredKeepsMic, PeerKeepsMic
  <2>6. CASE GatewayRestarts
    BY <2>1, <2>6, GatewayRestartsKeepsMic
  <2>7. QED
    BY <1>3, <2>2, <2>3, <2>4, <2>5, <2>6 DEF ClientNext, PageActs
<1>4. QED
  BY <1>1, <1>2, <1>3 DEF MicInv

\* No microphone stays open without a call, and none is opened twice; an
\* established call has one, and its peer connection sends it.  Of behaviours
\* of AudioCallProvider.tsx (getMicrophone, releaseMedia) in which no handler
\* was overtaken, for any number of calls in both directions.
THEOREM ClientMicrophoneFollowsCall == ClientSpec => []MicrophoneFollowsCall
<1>1. ASSUME MicInv PROVE MicrophoneFollowsCall
  <2> SUFFICES ASSUME ~overtaken, \A x \in tasks : x.at = "ack"
               PROVE  /\ page.streams = IF page.mic THEN 1 ELSE 0
                      /\ Over(page.call) => ~page.mic
                      /\ Live(page.call) /\ page.call.status \notin {"incoming", "reconnecting"}
                            => page.mic
                      /\ Live(page.call) /\ page.conn # "none" => page.sending
    BY DEF MicrophoneFollowsCall
  <2>1. StreamFits(page) /\ StreamComes(page, tasks)
    BY <1>1 DEF MicInv, MicHolds, MicIsSound
  <2>2. QED
    BY <2>1 DEF StreamFits, StreamComes
<1>2. QED
  BY <1>1, ClientInitMic, ClientNextKeepsMic, PTL DEF ClientSpec

-----------------------------------------------------------------------------

\* The page and the gateway: FollowInv.

LEMMA TailDoes ==
    ASSUME NEW S, NEW s \in Seq(S), s # <<>>
    PROVE  /\ Tail(s) \in Seq(S)
           /\ \A i \in DOMAIN Tail(s) : i \in Nat /\ i >= 1 /\ i + 1 \in DOMAIN s /\ Tail(s)[i] = s[i + 1]
           /\ \A i \in DOMAIN s : i > 1 => i - 1 \in DOMAIN Tail(s) /\ Tail(s)[i - 1] = s[i]
           /\ 1 \in DOMAIN s /\ Head(s) = s[1] /\ \A i \in DOMAIN s : i \in Nat /\ i >= 1
OBVIOUS

LEMMA TailHas ==
    ASSUME NEW S, NEW s \in Seq(S), s # <<>>, NEW A
    PROVE  /\ Has(Tail(s), A) => Has(s, A)
           /\ Has(s, A) => Head(s) \in A \/ Has(Tail(s), A)
BY TailDoes, TailIsFewer DEF Fewer

LEMMA TailInOrder ==
    ASSUME NEW s \in Seq(Event), s # <<>>, NEW K, NEW I, InOrder(s, K, I),
           NEW L, \A c \in CallId \intersect L : c \in K \/ Head(s) \in Brings(c)
    PROVE  InOrder(Tail(s), L, I)
<1> DEFINE t == Tail(s)
<1>1. /\ \A i \in DOMAIN t : i \in Nat /\ i >= 1 /\ i + 1 \in DOMAIN s /\ t[i] = s[i + 1]
      /\ 1 \in DOMAIN s /\ Head(s) = s[1]
  BY TailDoes
<1> HIDE DEF t
<1>2. SUFFICES ASSUME NEW j \in DOMAIN t, NEW c \in CallId, t[j] \in States \ Brings(c),
                      c \in L \/ \E i \in 1 .. j - 1 : t[i] \in Brings(c)
               PROVE  c \notin I /\ \A k \in DOMAIN t : k > j => t[k] \notin Brings(c)
  BY DEF InOrder, t
<1>3. j + 1 \in DOMAIN s /\ s[j + 1] \in States \ Brings(c) /\ j \in Nat /\ j >= 1
  BY <1>1, <1>2
<1>4. c \in K \/ \E i \in 1 .. (j + 1) - 1 : s[i] \in Brings(c)
  <2>1. CASE c \in L
    <3>1. CASE c \in K
      BY <3>1
    <3>2. CASE Head(s) \in Brings(c)
      <4>1. 1 \in 1 .. (j + 1) - 1
        BY <1>3
      <4>2. QED
        BY <1>1, <3>2, <4>1
    <3>3. QED
      BY <2>1, <3>1, <3>2
  <2>2. CASE \E i \in 1 .. j - 1 : t[i] \in Brings(c)
    <3>1. PICK i \in 1 .. j - 1 : t[i] \in Brings(c)
      BY <2>2
    <3>2. i \in DOMAIN t
      <4>1. DOMAIN t = 1 .. Len(t) /\ Len(t) \in Nat
        BY TailDoes DEF t
      <4>2. QED
        BY <1>3, <4>1
    <3>3. i + 1 \in 1 .. (j + 1) - 1 /\ s[i + 1] \in Brings(c)
      BY <1>1, <1>3, <3>1, <3>2
    <3>4. QED
      BY <3>3
  <2>3. QED
    BY <1>2, <2>1, <2>2
<1>5. c \notin I /\ \A k \in DOMAIN s : k > j + 1 => s[k] \notin Brings(c)
  BY <1>3, <1>4 DEF InOrder
<1>6. ASSUME NEW k \in DOMAIN t, k > j PROVE t[k] \notin Brings(c)
  BY <1>1, <1>3, <1>5, <1>6
<1>7. QED
  BY <1>5, <1>6

LEMMA TailEndsFollow ==
    ASSUME NEW s \in Seq(Event), s # <<>>, NEW G, NEW T, EndsFollow(s, G, T),
           NEW U, T \subseteq U
    PROVE  EndsFollow(Tail(s), G, U)
<1> DEFINE t == Tail(s)
<1>1. /\ \A i \in DOMAIN t : i \in Nat /\ i >= 1 /\ i + 1 \in DOMAIN s /\ t[i] = s[i + 1]
      /\ \A i \in DOMAIN s : i > 1 => i - 1 \in DOMAIN t /\ t[i - 1] = s[i]
      /\ \A i \in DOMAIN s : i \in Nat
  BY TailDoes
<1> HIDE DEF t
<1>2. SUFFICES ASSUME NEW i \in DOMAIN t, NEW c \in CallId, t[i] \in Brings(c), c \in G, c \notin U
               PROVE  \E j \in DOMAIN t : j > i /\ t[j] \in Closes(c)
  BY DEF EndsFollow, t
<1>3. PICK j \in DOMAIN s : j > i + 1 /\ s[j] \in Closes(c)
  BY <1>1, <1>2 DEF EndsFollow
<1>4. j - 1 \in DOMAIN t /\ t[j - 1] \in Closes(c) /\ j - 1 > i
  BY <1>1, <1>2, <1>3
<1>5. QED
  BY <1>4

\* Calls that nobody was told of may come into the map.
LEMMA MapInOrder ==
    ASSUME NEW s, NEW K, NEW I, InOrder(s, K, I), NEW J,
           \A c \in CallId \intersect J : c \in I \/ (c \notin K /\ ~Has(s, Brings(c))),
           DOMAIN s = 1 .. Len(s), Len(s) \in Nat
    PROVE  InOrder(s, K, J)
<1> SUFFICES ASSUME NEW j \in DOMAIN s, NEW c \in CallId, s[j] \in States \ Brings(c),
                    c \in K \/ \E i \in 1 .. j - 1 : s[i] \in Brings(c)
             PROVE  c \notin J /\ \A k \in DOMAIN s : k > j => s[k] \notin Brings(c)
  BY DEF InOrder
<1>1. c \notin I /\ \A k \in DOMAIN s : k > j => s[k] \notin Brings(c)
  BY DEF InOrder
<1>2. ASSUME NEW i \in 1 .. j - 1 PROVE i \in DOMAIN s
  OBVIOUS
<1>3. c \in K \/ Has(s, Brings(c))
  BY <1>2 DEF Has
<1>4. QED
  BY <1>1, <1>3

\* The gateway adds what says nothing of the user's call.
LEMMA MoreInOrder ==
    ASSUME NEW s \in Seq(Event), NEW K, NEW I, InOrder(s, K, I), NEW m \in Seq(Event),
           ~Has(m, States)
    PROVE  InOrder(s \o m, K, I)
<1> DEFINE r == s \o m
           n == Len(s)
<1>0. /\ r \in Seq(Event) /\ n \in Nat
      /\ \A i \in DOMAIN s : i \in Nat /\ i >= 1 /\ i <= n /\ i \in DOMAIN r /\ r[i] = s[i]
      /\ \A i \in DOMAIN m : i \in Nat /\ i >= 1 /\ i + n \in DOMAIN r /\ r[i + n] = m[i]
      /\ \A i \in DOMAIN r : \/ i \in DOMAIN s /\ r[i] = s[i]
                             \/ i \in Nat /\ i > n /\ i - n \in DOMAIN m /\ r[i] = m[i - n]
  OBVIOUS
<1>2. DOMAIN s = 1 .. n
  OBVIOUS
<1> HIDE DEF r, n
<1>3. ASSUME NEW i \in DOMAIN r, r[i] \in States PROVE i \in DOMAIN s /\ r[i] = s[i]
  BY <1>0, <1>3 DEF Has
<1>4. SUFFICES ASSUME NEW j \in DOMAIN r, NEW c \in CallId, r[j] \in States \ Brings(c),
                      c \in K \/ \E i \in 1 .. j - 1 : r[i] \in Brings(c)
               PROVE  c \notin I /\ \A k \in DOMAIN r : k > j => r[k] \notin Brings(c)
  BY DEF InOrder, r
<1>5. j \in DOMAIN s /\ s[j] \in States \ Brings(c)
  BY <1>3, <1>4
<1>6. c \in K \/ \E i \in 1 .. j - 1 : s[i] \in Brings(c)
  <2>1. ASSUME NEW i \in 1 .. j - 1, r[i] \in Brings(c) PROVE s[i] \in Brings(c)
    <3>1. i \in DOMAIN s
      BY <1>0, <1>2, <1>5
    <3>2. QED
      BY <1>0, <2>1, <3>1
  <2>2. QED
    BY <1>4, <2>1
<1>7. c \notin I /\ \A k \in DOMAIN s : k > j => s[k] \notin Brings(c)
  BY <1>5, <1>6 DEF InOrder
<1>8. ASSUME NEW k \in DOMAIN r, k > j, r[k] \in Brings(c) PROVE FALSE
  BY <1>3, <1>7, <1>8 DEF Brings
<1>9. QED
  BY <1>7, <1>8

\* The gateway tells which call is in the map.
LEMMA OneInOrder ==
    ASSUME NEW s \in Seq(Event), NEW K, NEW I, InOrder(s, K, I), NEW e \in States,
           \A c \in CallId : c \in I <=> c = e.call
    PROVE  InOrder(s \o <<e>>, K, I)
<1> DEFINE m == <<e>>
           r == s \o m
           n == Len(s)
<1>a. m \in Seq(Event)
  BY DEF States
<1>b. DOMAIN m = {1} /\ m[1] = e
  OBVIOUS
<1> HIDE DEF m
<1>0. /\ r \in Seq(Event) /\ n \in Nat
      /\ \A i \in DOMAIN s : i \in Nat /\ i >= 1 /\ i <= n /\ i \in DOMAIN r /\ r[i] = s[i]
      /\ \A i \in DOMAIN m : i \in Nat /\ i >= 1 /\ i + n \in DOMAIN r /\ r[i + n] = m[i]
      /\ \A i \in DOMAIN r : \/ i \in DOMAIN s /\ r[i] = s[i]
                             \/ i \in Nat /\ i > n /\ i - n \in DOMAIN m /\ r[i] = m[i - n]
  BY <1>a
<1>2. DOMAIN s = 1 .. n
  OBVIOUS
<1> HIDE DEF r, n
<1>3. ASSUME NEW i \in DOMAIN r PROVE (i \in DOMAIN s /\ r[i] = s[i]) \/ (i = n + 1 /\ r[i] = e)
  <2>1. CASE i \in Nat /\ i > n /\ i - n \in DOMAIN m /\ r[i] = m[i - n]
    <3>1. i - n = 1
      BY <1>b, <2>1
    <3>2. QED
      BY <1>0, <1>b, <2>1, <3>1
  <2>2. \/ i \in DOMAIN s /\ r[i] = s[i]
        \/ i \in Nat /\ i > n /\ i - n \in DOMAIN m /\ r[i] = m[i - n]
    BY <1>0
  <2>3. QED
    BY <2>1, <2>2
<1>4. SUFFICES ASSUME NEW j \in DOMAIN r, NEW c \in CallId, r[j] \in States \ Brings(c),
                      c \in K \/ \E i \in 1 .. j - 1 : r[i] \in Brings(c)
               PROVE  c \notin I /\ \A k \in DOMAIN r : k > j => r[k] \notin Brings(c)
  BY DEF InOrder, r, m
<1>5. CASE j = n + 1 /\ r[j] = e
  <2>1. c # e.call
    BY <1>4, <1>5 DEF Brings
  <2>2. ASSUME NEW k \in DOMAIN r, k > j PROVE FALSE
    BY <1>0, <1>2, <1>3, <1>5, <2>2
  <2>3. QED
    BY <2>1, <2>2
<1>6. CASE j \in DOMAIN s /\ r[j] = s[j]
  <2>1. s[j] \in States \ Brings(c)
    BY <1>4, <1>6
  <2>2. c \in K \/ \E i \in 1 .. j - 1 : s[i] \in Brings(c)
    <3>1. ASSUME NEW i \in 1 .. j - 1, r[i] \in Brings(c) PROVE s[i] \in Brings(c)
      <4>1. i \in DOMAIN s
        BY <1>2, <1>6, <1>0
      <4>2. QED
        BY <1>0, <3>1, <4>1
    <3>2. QED
      BY <1>4, <3>1
  <2>3. c \notin I /\ \A k \in DOMAIN s : k > j => s[k] \notin Brings(c)
    BY <1>6, <2>1, <2>2 DEF InOrder
  <2>4. ASSUME NEW k \in DOMAIN r, k > j, r[k] \in Brings(c) PROVE FALSE
    BY <1>3, <2>3, <2>4 DEF Brings
  <2>5. QED
    BY <2>3, <2>4
<1>7. QED
  BY <1>3, <1>5, <1>6

LEMMA MoreEndsFollow ==
    ASSUME NEW s \in Seq(Event), NEW G, NEW T, EndsFollow(s, G, T), NEW m \in Seq(Event), NEW H,
           \A c \in CallId \intersect H :
              /\ ~Has(m, Brings(c))
              /\ c \in G \/ c \in T \/ Has(m, Closes(c)) \/ ~Has(s, Brings(c))
    PROVE  EndsFollow(s \o m, H, T)
<1> DEFINE r == s \o m
           n == Len(s)
<1>0. /\ r \in Seq(Event) /\ n \in Nat
      /\ \A i \in DOMAIN s : i \in Nat /\ i >= 1 /\ i <= n /\ i \in DOMAIN r /\ r[i] = s[i]
      /\ \A i \in DOMAIN m : i \in Nat /\ i >= 1 /\ i + n \in DOMAIN r /\ r[i + n] = m[i]
      /\ \A i \in DOMAIN r : \/ i \in DOMAIN s /\ r[i] = s[i]
                             \/ i \in Nat /\ i > n /\ i - n \in DOMAIN m /\ r[i] = m[i - n]
  OBVIOUS
<1> HIDE DEF r, n
<1>1. SUFFICES ASSUME NEW i \in DOMAIN r, NEW c \in CallId, r[i] \in Brings(c), c \in H, c \notin T
               PROVE  \E j \in DOMAIN r : j > i /\ r[j] \in Closes(c)
  BY DEF EndsFollow, r
<1>2. i \in DOMAIN s /\ r[i] = s[i]
  BY <1>0, <1>1 DEF Has
<1>3. c \in G \/ Has(m, Closes(c))
  BY <1>1, <1>2 DEF Has
<1>4. CASE c \in G
  <2>1. PICK j \in DOMAIN s : j > i /\ s[j] \in Closes(c)
    BY <1>1, <1>2, <1>4 DEF EndsFollow
  <2>2. j \in DOMAIN r /\ r[j] = s[j]
    BY <1>0
  <2>3. QED
    BY <2>1, <2>2
<1>5. CASE Has(m, Closes(c))
  <2>1. PICK j \in DOMAIN m : m[j] \in Closes(c)
    BY <1>5 DEF Has
  <2>2. j + n \in DOMAIN r /\ r[j + n] \in Closes(c) /\ j + n > i
    BY <1>0, <1>2, <2>1
  <2>3. QED
    BY <2>2
<1>6. QED
  BY <1>3, <1>4, <1>5

-----------------------------------------------------------------------------

LEMMA StatesDo ==
    /\ Answers(SyncAck) \subseteq States
    /\ \A c : Brings(c) \subseteq States
    /\ \A c : Closes(c) \intersect States = {}
    /\ \A c : Closes(c) \subseteq Event /\ Brings(c) \subseteq Event
    /\ States \subseteq Event
BY DEF States, Answers, SyncAck, Brings, Closes

\* A packet that waited still waits, behind it those that were sent.
LEMMA SentHas ==
    ASSUME Following, NEW m \in Seq(Packet), toBackend' = toBackend \o m, NEW A
    PROVE  Has(toBackend', A) <=> Has(toBackend, A) \/ Has(m, A)
<1>1. toBackend \in Seq(Packet)
  BY DEF Following, Orderly, EndedInv, ClientTypes
<1>2. QED
  BY <1>1, ConcatHas

LEMMA LostDoes ==
    ASSUME UNCHANGED <<session, finishing>>
    PROVE  InMap' = InMap /\ Lost' = Lost
BY DEF InMap, Lost

LEMMA HandlesHas ==
    ASSUME Following, Handles
    PROVE  /\ \A A : Has(toPage', A) => Has(toPage, A)
           /\ \A A : A \subseteq States /\ Has(toPage, A) => Has(toPage', A)
           /\ \A c \in CallId : Has(toPage, Closes(c)) => Has(toPage', Closes(c)) \/ ~Shows(c)'
<1>1. toPage \in Seq(Event)
  BY DEF Following, Orderly, EndedInv, ClientTypes
<1>2. CASE toPage' = toPage
  BY <1>2 DEF Has
<1>3. CASE toPage' # toPage
  <2>1. /\ toPage # <<>> /\ toPage' = Tail(toPage) /\ Head(toPage) \notin States
        /\ \A c \in CallId : Head(toPage) \in Closes(c) => ~Shows(c)'
    BY <1>3 DEF Handles
  <2>2. \A A : /\ Has(toPage', A) => Has(toPage, A)
               /\ Has(toPage, A) => Head(toPage) \in A \/ Has(toPage', A)
    BY <1>1, <2>1, TailHas
  <2>3. QED
    BY <2>1, <2>2
<1>4. QED
  BY <1>2, <1>3

LEMMA PageFollows ==
    ASSUME Following, UNCHANGED <<socketOpen, session, finishing>>,
           PageGoes, NEW m, Sends(m), Reports, Handles
    PROVE  Follows'
<1> DEFINE K == page.terminal \union {page.call.id}
<1>1. InMap' = InMap /\ Lost' = Lost
  BY LostDoes
<1>2. toPage \in Seq(Event) /\ DOMAIN toPage = 1 .. Len(toPage) /\ Len(toPage) \in Nat
  BY DEF Following, Orderly, EndedInv, ClientTypes
<1>3. None \notin CallId /\ InMap \subseteq CallId /\ Lost \subseteq CallId
  BY IncomingIsCall DEF InMap, Lost
<1>4. \A A : Has(toBackend', A) <=> Has(toBackend, A) \/ Has(m, A)
  BY SentHas DEF Sends
<1>5. ASSUME NEW c \in CallId, Shows(c)' PROVE Shows(c)
  BY <1>3, <1>5 DEF PageGoes, Shows
<1>6. OneInMap'
  BY <1>1 DEF Following, Follows, OneInMap
<1>7. InOrder(toPage', page'.terminal \union {page'.call.id}, InMap')
  <2>1. InOrder(toPage, K, InMap)
    BY DEF Following, Follows
  <2>2. \A c \in CallId : c \in page'.terminal \union {page'.call.id} => c \in K
    BY <1>3 DEF PageGoes
  <2> HIDE DEF K
  <2>3. CASE toPage' = toPage
    BY <1>1, <2>1, <2>2, <2>3 DEF InOrder
  <2>4. CASE toPage # <<>> /\ toPage' = Tail(toPage)
    BY <1>1, <1>2, <2>1, <2>2, <2>4, TailInOrder
  <2>5. QED
    BY <2>3, <2>4 DEF Handles
<1>8. EndsFollow(toPage', Lost', page'.terminal)
  <2>1. EndsFollow(toPage, Lost, page.terminal)
    BY DEF Following, Follows
  <2>2. page.terminal \subseteq page'.terminal
    BY DEF PageGoes
  <2>3. CASE toPage' = toPage
    BY <1>1, <2>1, <2>2, <2>3 DEF EndsFollow
  <2>4. CASE toPage # <<>> /\ toPage' = Tail(toPage)
    BY <1>1, <1>2, <2>1, <2>2, <2>4, TailEndsFollow
  <2>5. QED
    BY <2>3, <2>4 DEF Handles
<1>9. LeftIsOver'
  <2>1. SUFFICES ASSUME NEW d \in page'.terminal, Live(page'.call), page'.call.id \notin {None, d}
                 PROVE  d \notin InMap /\ ~Has(toPage', Brings(d))
    BY <1>1 DEF LeftIsOver
  <2>2. page.call.id = page'.call.id /\ Live(page.call) /\ d \in page.terminal
    BY <2>1 DEF PageGoes
  <2>3. d \notin InMap /\ ~Has(toPage, Brings(d))
    BY <2>1, <2>2 DEF Following, Follows, LeftIsOver
  <2>4. QED
    BY <2>3, HandlesHas
<1>10. MapIsShown'
  <2>1. SUFFICES ASSUME NEW c \in InMap, socketOpen, finishing[c] = "no", ~Shows(c)'
                 PROVE  \/ Has(toBackend', {Msg("end", c), Msg("reject", c), Msg("sync", None)})
                        \/ Has(toPage', Brings(c))
    BY <1>1 DEF MapIsShown
  <2>2. c \in CallId
    BY <1>3
  <2>3. CASE Has(toBackend, {Msg("end", c), Msg("reject", c), Msg("sync", None)})
    BY <1>4, <2>3
  <2>4. CASE Has(toPage, Brings(c))
    BY <2>4, HandlesHas, StatesDo
  <2>5. CASE Shows(c)
    <3>1. \/ Has(toBackend', {Msg("end", c), Msg("reject", c)})
          \/ SyncAck \in tasks
      BY <2>1, <2>2, <2>5 DEF Reports
    <3>2. CASE Has(toBackend', {Msg("end", c), Msg("reject", c)})
      BY <3>2 DEF Has
    <3>3. CASE SyncAck \in tasks
      <4>1. Has(toBackend, {Msg("sync", None)}) \/ Has(toPage, Answers(SyncAck))
        BY <3>3 DEF Following, Follows, SyncComes
      <4>2. CASE Has(toBackend, {Msg("sync", None)})
        BY <1>4, <4>2 DEF Has
      <4>3. CASE Has(toPage, Answers(SyncAck))
        <5>1. PICK j \in DOMAIN toPage : toPage[j] \in Answers(SyncAck)
          BY <4>3 DEF Has
        <5>2. toPage[j] \in States
          BY <5>1, StatesDo
        <5>3. InOrder(toPage, K, InMap) /\ c \in K
          BY <2>5 DEF Following, Follows, Shows
        <5> HIDE DEF K
        <5>4. toPage[j] \in Brings(c)
          BY <2>1, <2>2, <5>2, <5>3 DEF InOrder
        <5>5. Has(toPage, Brings(c))
          BY <5>4 DEF Has
        <5>6. QED
          BY <2>4, <5>5
      <4>4. QED
        BY <4>1, <4>2, <4>3
    <3>4. QED
      BY <3>1, <3>2, <3>3
  <2>6. QED
    BY <2>1, <2>3, <2>4, <2>5 DEF Following, Follows, MapIsShown
<1>11. ShownIsInMap'
  <2>1. SUFFICES ASSUME NEW c \in Lost, Shows(c)', socketOpen
                 PROVE  \/ Has(toPage', Closes(c)) \/ Has(toBackend', {Msg("sync", None)})
                        \/ Has(toPage', Answers(SyncAck) \ Brings(c))
    BY <1>1 DEF ShownIsInMap
  <2>2. \/ Has(toPage, Closes(c)) \/ Has(toBackend, {Msg("sync", None)})
        \/ Has(toPage, Answers(SyncAck) \ Brings(c))
    BY <1>3, <1>5, <2>1 DEF Following, Follows, ShownIsInMap
  <2>3. Answers(SyncAck) \ Brings(c) \subseteq States
    BY StatesDo
  <2>4. QED
    BY <1>3, <1>4, <2>1, <2>2, <2>3, HandlesHas
<1>12. ClosedIsOver'
  BY <1>1, HandlesHas DEF Following, Follows, ClosedIsOver
<1>13. RefusalFits'
  <2>1. SUFFICES ASSUME NEW c \in CallId
                 PROVE  /\ Has(toBackend', {Msg("accept", c), Msg("reject", c)}) =>
                              c \in IncomingCall /\ session[c] # "active"
                        /\ Has(toBackend', {Msg("reject", c)}) =>
                              /\ socketOpen /\ ~Shows(c)'
                              /\ \/ c \in page'.terminal
                                 \/ SyncAck \notin tasks' /\ ~Has(toPage', Brings(c))
    BY DEF RefusalFits
  <2>2. Has(toBackend, {Msg("accept", c), Msg("reject", c)}) =>
           c \in IncomingCall /\ session[c] # "active"
    BY DEF Following, Follows, RefusalFits
  <2>3. ASSUME Has(toBackend, {Msg("reject", c)})
        PROVE  /\ socketOpen /\ ~Shows(c)'
               /\ c \in page'.terminal \/ (SyncAck \notin tasks' /\ ~Has(toPage', Brings(c)))
    <3>1. /\ socketOpen /\ ~Shows(c)
          /\ c \in page.terminal \/ (SyncAck \notin tasks /\ ~Has(toPage, Brings(c)))
      BY <2>3 DEF Following, Follows, RefusalFits
    <3>2. QED
      BY <1>5, <3>1, HandlesHas DEF PageGoes
  <2>4. ASSUME Has(m, {Msg("reject", c)}) PROVE socketOpen /\ c \in page'.terminal /\ ~Shows(c)'
    <3>1. socketOpen /\ c \in page'.terminal
      BY <2>4 DEF Sends
    <3>2. CallIsSound(page', tasks')
      BY DEF Following, Orderly, EndedInv
    <3>3. QED
      BY <3>1, <3>2 DEF CallIsSound, Shows
  <2>5. Has(m, {Msg("accept", c), Msg("reject", c)}) => c \in IncomingCall /\ session[c] # "active"
    BY DEF Sends
  <2>6. QED
    BY <1>4, <2>2, <2>3, <2>4, <2>5
<1>14. SyncComes'
  <2>1. SyncComes
    BY DEF Following, Follows
  <2>2. QED
    BY <1>4, <2>1, HandlesHas, StatesDo DEF SyncComes, PageGoes
<1>15. QED
  BY <1>6, <1>7, <1>8, <1>9, <1>10, <1>11, <1>12, <1>13, <1>14 DEF Follows

-----------------------------------------------------------------------------

LEMMA HarmlessSends ==
    ASSUME NEW m, Harmless(m), toBackend' = toBackend \o m
    PROVE  Sends(m)
<1>1. CASE m = <<>>
  BY <1>1 DEF Sends, Has
<1>2. CASE m # <<>>
  <2>1. PICK k, c : /\ m = <<Msg(k, c)>> /\ Msg(k, c) \in Packet
                    /\ k \notin {"sync", "accept", "reject"}
    BY <1>2 DEF Harmless, Msg, Packet
  <2>2. Msg(k, c).kind = k
    BY DEF Msg
  <2>3. \A d : Msg(k, c) \notin {Msg("accept", d), Msg("reject", d)}
               /\ Msg(k, c) \notin {Msg("reject", d)} /\ Msg(k, c) \notin AskSync
    BY <2>1, <2>2 DEF Msg, AskSync
  <2> DEFINE e == Msg(k, c)
  <2> HIDE DEF e
  <2>4. m = <<e>> /\ e \in Packet
    BY <2>1 DEF e
  <2>5. m \in Seq(Packet) /\ \A A : Has(m, A) <=> e \in A
    BY <2>4, OneHas
  <2>6. QED
    BY <2>3, <2>5 DEF Sends, e
<1>3. QED
  BY <1>1, <1>2

LEMMA EmptyIsHarmless == Harmless(<<>>)
BY DEF Harmless

\* The page keeps the call that it shows.
LEMMA StayFollows ==
    ASSUME Following, UNCHANGED <<socketOpen, session, finishing>>, Handles,
           NEW p, NEW t, NEW m, Sends(m),
           page' = p, tasks' = t,
           p.call.id = page.call.id, Live(p.call) <=> Live(page.call), p.terminal = page.terminal,
           p.socketTimer = page.socketTimer, SyncAck \in t <=> SyncAck \in tasks
    PROVE  Follows'
<1>1. PageGoes
  BY DEF PageGoes
<1>2. Reports
  BY DEF Reports, Shows
<1>3. QED
  BY <1>1, <1>2, PageFollows

\* The page leaves the call that it shows.
LEMMA LeaveFollows ==
    ASSUME Following, UNCHANGED <<socketOpen, session, finishing>>, Handles,
           NEW p, NEW t, NEW m, Sends(m),
           page' = p, tasks' = t,
           p.call.id \in {page.call.id, None}, Over(p.call) \/ p.call.id = None,
           page.terminal \subseteq p.terminal, p.terminal \subseteq page.terminal \union {page.call.id},
           p.socketTimer = FALSE \/ p.socketTimer = page.socketTimer,
           SyncAck \in t <=> SyncAck \in tasks, Reports
    PROVE  Follows'
<1>1. PageGoes
  BY DEF PageGoes, Live
<1>2. QED
  BY <1>1, PageFollows

LEMMA FinishedAlso ==
    ASSUME NEW p \in ClientPage, NEW u \in {"ended", "failed"}
    PROVE  Finished(p, u).socketTimer = FALSE
<1> DEFINE r == Released(p)
           showing == [p.call EXCEPT !.status = IF p.call = NoCall THEN p.call.status ELSE u]
           s == p.terminal \union ({p.call.id} \ {None})
           f == [r EXCEPT !.socketTimer = FALSE, !.call = showing, !.terminal = s]
<1>1. r \in ClientPage /\ r.call = p.call /\ r.terminal = p.terminal
  BY ReleasedDoes DEF SameCall
<1>2. Finished(p, u) = f
  BY <1>1 DEF Finished, ClientPage
<1> HIDE DEF r, showing, s
<1>3. QED
  BY <1>1, <1>2 DEF ClientPage

LEMMA FinishFollows ==
    ASSUME Following, UNCHANGED <<socketOpen, session, finishing>>, Handles,
           NEW q \in ClientPage, q.call = page.call, page.terminal \subseteq q.terminal,
           q.terminal \subseteq page.terminal \union {page.call.id},
           NEW u \in {"ended", "failed"}, NEW t, NEW m, Sends(m), Move(Finished(q, u), t, m),
           SyncAck \in t <=> SyncAck \in tasks, Reports
    PROVE  Follows'
<1> DEFINE f == Finished(q, u)
<1>1. /\ f.call.id = page.call.id /\ Over(f.call)
      /\ f.terminal = q.terminal \union ({page.call.id} \ {None}) /\ f.socketTimer = FALSE
  BY FinishedDoes, FinishedAlso
<1>2. page' = f /\ tasks' = t
  BY DEF Move
<1> HIDE DEF f
<1>3. QED
  BY <1>1, <1>2, LeaveFollows

\* What the page does when a call ends, or is rejected, here.
LEMMA EndingReports ==
    ASSUME Following, NEW k \in {"end", "reject"}, page' \in ClientPage,
           toBackend' = toBackend \o Ending(page, k, page.call.id),
           k = "reject" => /\ page.call.id \in IncomingCall /\ session[page.call.id] # "active"
                           /\ page.call.id \in page'.terminal
    PROVE  Sends(Ending(page, k, page.call.id)) /\ Reports
<1> DEFINE c == page.call.id
           m == Ending(page, k, c)
           e == Msg(k, c)
<1>1. c \in CallId \union {None} /\ CallIsSound(page, tasks)
  BY DEF Following, Orderly, EndedInv, ClientTypes, ClientPage, Call, NoCall
<1>2. CASE m = <<>>
  <2>1. Sends(m)
    BY <1>2, HarmlessSends, EmptyIsHarmless
  <2>2. c \in page.terminal \/ c = None \/ ~socketOpen
    BY <1>2 DEF Ending
  <2>3. Reports
    BY <1>1, <2>2, IncomingIsCall DEF Reports, Shows, CallIsSound
  <2>4. QED
    BY <2>1, <2>3
<1>3. CASE m # <<>>
  <2>1. m = <<e>> /\ socketOpen /\ c # None /\ e \in Packet
    BY <1>1, <1>3 DEF Ending, Msg, Packet
  <2>2. CASE k = "end"
    <3>1. Harmless(m)
      BY <1>1, <2>1, <2>2 DEF Harmless
    <3>2. QED
      <4>1. Has(toBackend', {e})
        <5>1. m \in Seq(Packet) /\ Has(m, {e})
          <6> HIDE DEF e, m
          <6> QED BY <2>1, OneHas
        <5>2. QED
          BY <5>1, SentHas
      <4>2. Reports
        <5>1. SUFFICES ASSUME NEW d \in CallId, Shows(d)
                       PROVE  Has(toBackend', {Msg("end", d), Msg("reject", d)})
          BY DEF Reports
        <5>2. d = c
          BY <5>1 DEF Shows
        <5>3. QED
          BY <2>2, <4>1, <5>2 DEF Has
      <4>3. QED
        BY <3>1, <4>2, HarmlessSends
  <2>3. CASE k = "reject"
    <3>1. m \in Seq(Packet) /\ \A A : Has(m, A) <=> e \in A
      <4> HIDE DEF e, m
      <4> QED BY <2>1, OneHas
    <3>2. Has(toBackend', {e})
      BY <3>1, SentHas
    <3>3. Sends(m)
      <4>1. e \notin AskSync
        BY <2>3 DEF AskSync, Msg
      <4>2. \A d \in CallId : e \in {Msg("accept", d), Msg("reject", d)} => d = c
        BY DEF Msg
      <4> HIDE DEF e, m
      <4>3. QED
        BY <2>1, <2>3, <3>1, <4>1, <4>2 DEF Sends, m
    <3>4. Reports
      <4>1. SUFFICES ASSUME NEW d \in CallId, Shows(d)
                     PROVE  Has(toBackend', {Msg("end", d), Msg("reject", d)})
        BY DEF Reports
      <4>2. d = c
        BY <4>1 DEF Shows
      <4>3. QED
        BY <2>3, <3>2, <4>2 DEF Has
    <3>5. QED
      BY <3>3, <3>4
  <2>4. QED
    BY <2>2, <2>3
<1>4. QED
  BY <1>2, <1>3

LEMMA FailFollows ==
    ASSUME Following, UNCHANGED <<socketOpen, session, finishing>>, Handles,
           NEW t, Fail(page, t), SyncAck \in t <=> SyncAck \in tasks
    PROVE  Follows'
<1>1. page \in ClientPage /\ page' \in ClientPage
  BY DEF Following, Orderly, EndedInv, ClientTypes
<1>2. Move(Finished(page, "failed"), t, Ending(page, "end", page.call.id))
  BY DEF Fail
<1>3. toBackend' = toBackend \o Ending(page, "end", page.call.id)
  BY <1>2 DEF Move
<1>4. Sends(Ending(page, "end", page.call.id)) /\ Reports
  BY <1>1, <1>3, EndingReports
<1>5. QED
  BY <1>1, <1>2, <1>4, FinishFollows

-----------------------------------------------------------------------------

LEMMA NewPeerSame ==
    ASSUME NEW p \in ClientPage
    PROVE  Same(p, NewPeer(p))
BY DEF ClientPage, NewPeer, SameCall, Same

LEMMA OpenedSame ==
    ASSUME NEW p \in ClientPage
    PROVE  Same(p, Opened(p))
<1> DEFINE n == p.streams + 1
<1>1. n \in Int
  BY DEF ClientPage
<1>2. Opened(p) = [p EXCEPT !.mic = TRUE, !.streams = n]
  BY DEF Opened, ClientPage
<1> HIDE DEF n
<1>3. QED
  BY <1>1, <1>2 DEF ClientPage, SameCall, Same

LEMMA SameAgain ==
    ASSUME NEW p, NEW n, NEW q, Same(p, n), Same(n, q)
    PROVE  Same(p, q)
BY DEF Same, SameCall

LEMMA RestartSends ==
    ASSUME NEW p \in ClientPage, NEW t, RestartConnection(p, t)
    PROVE  \E q, m : Same(p, q) /\ Harmless(m) /\ Move(q, t, m)
<1> DEFINE n == IF p.conn = "none" THEN NewPeer(p) ELSE p
           q == [n EXCEPT !.offered = TRUE]
<1>1. CASE socketOpen /\ p.mic /\ p.call.id \in OutgoingCall
  <2>1. Same(p, n)
    BY <1>1, NewPeerSame DEF Same, SameCall
  <2>2. Move(q, t, <<Msg("offer", p.call.id)>>)
    BY <1>1 DEF RestartConnection
  <2> HIDE DEF n
  <2>3. Same(p, q)
    BY <2>1 DEF Same, SameCall, ClientPage
  <2>4. Harmless(<<Msg("offer", p.call.id)>>)
    BY <1>1 DEF CallId, Harmless
  <2>5. QED
    BY <2>2, <2>3, <2>4
<1>2. CASE ~(socketOpen /\ p.mic /\ p.call.id \in OutgoingCall)
  <2>1. Move(p, t, <<>>) /\ Same(p, p)
    BY <1>2 DEF RestartConnection, Same, SameCall
  <2>2. QED
    BY <2>1, EmptyIsHarmless
<1>3. QED
  BY <1>1, <1>2

LEMMA AnswerSends ==
    ASSUME NEW p \in ClientPage, NEW t, NEW c \in CallId \union {None}, AnswerOffer(p, t, c)
    PROVE  \E q, m : Same(p, q) /\ Harmless(m) /\ Move(q, t, m)
<1> DEFINE n == IF p.conn \in {"none", "new"} THEN "checking" ELSE p.conn
           q == [p EXCEPT !.conn = n]
<1>1. Same(p, q)
  BY DEF Same, SameCall, ClientPage
<1>2. Move(q, t, <<Msg("answer", c)>>) /\ Harmless(<<Msg("answer", c)>>)
  BY DEF AnswerOffer, Harmless
<1>3. QED
  BY <1>1, <1>2

LEMMA AfterSyncSends ==
    ASSUME NEW p \in ClientPage, NEW t, NEW c \in CallId, AfterSync(p, t, c)
    PROVE  \E q, m : Same(p, q) /\ Harmless(m) /\ Move(q, t, m)
<1> DEFINE n == IF p.conn = "none" THEN NewPeer(p) ELSE p
<1>1. Same(p, n) /\ n \in ClientPage
  BY NewPeerSame DEF Same, SameCall
<1>2. Move(n, t, <<>>) \/ RestartConnection(n, t) \/ Move(n, t, <<Msg("recover", c)>>)
  BY DEF AfterSync
<1> HIDE DEF n
<1>3. CASE RestartConnection(n, t)
  BY <1>1, <1>3, RestartSends, SameAgain
<1>4. CASE Move(n, t, <<>>) \/ Move(n, t, <<Msg("recover", c)>>)
  BY <1>1, <1>4 DEF Harmless
<1>5. QED
  BY <1>2, <1>3, <1>4

\* The page goes on with its call, and sends nothing that matters here.
LEMMA GoesOnFollows ==
    ASSUME Following, UNCHANGED <<socketOpen, session, finishing>>, Handles,
           NEW p, NEW t, p.call.id = page.call.id, Live(p.call) <=> Live(page.call),
           p.terminal = page.terminal, p.socketTimer = page.socketTimer,
           SyncAck \in t <=> SyncAck \in tasks,
           \E q, m : Same(p, q) /\ Harmless(m) /\ Move(q, t, m)
    PROVE  Follows'
<1>1. PICK q, m : Same(p, q) /\ Harmless(m) /\ Move(q, t, m)
  OBVIOUS
<1>2. page' = q /\ tasks' = t /\ toBackend' = toBackend \o m
  BY <1>1 DEF Move
<1>3. Sends(m)
  BY <1>1, <1>2, HarmlessSends
<1>4. /\ q.call.id = page.call.id /\ (Live(q.call) <=> Live(page.call))
      /\ q.terminal = page.terminal /\ q.socketTimer = page.socketTimer
  BY <1>1 DEF Same, SameCall
<1>5. QED
  BY <1>2, <1>3, <1>4, StayFollows

LEMMA SameNow ==
    ASSUME Following
    PROVE  /\ Orderly /\ page \in ClientPage /\ page.call \in Call /\ Same(page, page)
           /\ page.call.id \in CallId \union {None} /\ tasks \in SUBSET Task
           /\ page.terminal \subseteq CallId /\ page' \in ClientPage
           /\ StreamFits(page) /\ TasksFit(page, tasks) /\ CallIsSound(page, tasks)
<1>1. Orderly
  BY DEF Following
<1>2. page \in ClientPage /\ page' \in ClientPage
  BY <1>1 DEF Following, Orderly, EndedInv, ClientTypes
<1>3. /\ page.call \in Call /\ StreamFits(page) /\ TasksFit(page, tasks)
      /\ CallIsSound(page, tasks) /\ tasks \in SUBSET Task
  BY <1>1, SoundNow DEF Orderly
<1>4. page.call.id \in CallId \union {None}
  BY <1>3 DEF Call, NoCall
<1>5. Same(page, page) /\ page.terminal \subseteq CallId
  BY <1>2 DEF Same, SameCall, ClientPage
<1>6. QED
  BY <1>1, <1>2, <1>3, <1>4, <1>5

LEMMA UnheardHandles ==
    ASSUME toPage' = toPage
    PROVE  Handles
BY DEF Handles

\* The call shown, if it is gone, was not one of the gateway's.
LEMMA NoneReports ==
    ASSUME Following, Over(page.call) \/ page.call.id = None
    PROVE  Reports
BY IncomingIsCall DEF Reports, Shows, Live

-----------------------------------------------------------------------------

LEMMA StartCallFollows ==
    ASSUME Following, StartCall
    PROVE  Follows'
<1> DEFINE showing == [id |-> None, status |-> "connecting"]
           p == [page EXCEPT !.call = showing]
           x == [kind |-> "start", at |-> IF socketOpen THEN "mic" ELSE "socket", call |-> None]
           t == tasks \union {x}
<1>0. page \in ClientPage
  BY SameNow
<1>1. /\ Move(p, t, <<>>) /\ UNCHANGED <<socketOpen, session, finishing>> /\ Handles
      /\ page.call = NoCall
  BY UnheardHandles DEF StartCall, backend
<1>2. x.kind = "start" /\ showing.id = None
  OBVIOUS
<1> HIDE DEF showing, x
<1>3. p.call = showing /\ p.terminal = page.terminal /\ p.socketTimer = page.socketTimer
  BY <1>0 DEF ClientPage
<1> HIDE DEF p
<1>4. SyncAck \in t <=> SyncAck \in tasks
  <2>1. SyncAck # x
    BY <1>2 DEF SyncAck
  <2>2. QED
    BY <2>1
<1> HIDE DEF t
<1>5. page' = p /\ tasks' = t /\ toBackend' = toBackend \o <<>>
  BY <1>1 DEF Move
<1>6. Sends(<<>>)
  BY <1>5, HarmlessSends, EmptyIsHarmless
<1>7. page.call.id = None /\ Reports
  <2>1. page.call.id = None
    BY <1>1 DEF NoCall
  <2>2. QED
    BY <2>1, NoneReports
<1>8. QED
  BY <1>1, <1>2, <1>3, <1>4, <1>5, <1>6, <1>7, LeaveFollows

LEMMA SocketUnavailableFollows ==
    ASSUME Following, NEW x, SocketUnavailable(x)
    PROVE  Follows'
<1>1. /\ Fail(page, tasks \ {x}) /\ x.at = "socket" /\ Handles
      /\ UNCHANGED <<socketOpen, session, finishing>>
  BY UnheardHandles DEF SocketUnavailable, backend
<1>2. SyncAck # x
  BY <1>1 DEF SyncAck
<1>3. QED
  BY <1>1, <1>2, FailFollows

LEMMA AcceptCallFollows ==
    ASSUME Following, AcceptCall
    PROVE  Follows'
<1> DEFINE showing == [page.call EXCEPT !.status = "connecting"]
           p == [page EXCEPT !.call = showing]
           x == [kind |-> "accept", at |-> "mic", call |-> page.call.id]
           t == tasks \union {x}
<1>0. page \in ClientPage /\ page.call \in Call
  BY SameNow
<1>1. /\ Move(p, t, <<>>) /\ UNCHANGED <<socketOpen, session, finishing>> /\ Handles
      /\ page.call.status = "incoming"
  BY <1>0, UnheardHandles DEF AcceptCall, backend, ClientPage
<1>2. x.kind = "accept" /\ showing.id = page.call.id /\ Live(showing) /\ Live(page.call)
      /\ showing \in Call
  BY <1>0, <1>1 DEF Live, Over, Call, NoCall, Status
<1> HIDE DEF showing, x
<1>3. /\ p \in ClientPage /\ p.call = showing /\ p.terminal = page.terminal
      /\ p.socketTimer = page.socketTimer
  BY <1>0, <1>2 DEF ClientPage
<1> HIDE DEF p
<1>4. SyncAck \in t <=> SyncAck \in tasks
  <2>1. SyncAck # x
    BY <1>2 DEF SyncAck
  <2>2. QED
    BY <2>1
<1> HIDE DEF t
<1>5. Same(p, p) /\ Harmless(<<>>)
  BY <1>3, EmptyIsHarmless DEF Same, SameCall
<1>6. QED
  BY <1>1, <1>2, <1>3, <1>4, <1>5, GoesOnFollows

LEMMA HangUpFollows ==
    ASSUME Following, HangUp
    PROVE  Follows'
<1> DEFINE c == page.call.id
           k == IF page.call.status = "incoming" THEN "reject" ELSE "end"
           r == Released(page)
           s == page.terminal \union ({c} \ {None})
           p == [r EXCEPT !.call = NoCall, !.socketTimer = FALSE, !.terminal = s]
<1>0. page \in ClientPage /\ c \in CallId \union {None} /\ StreamFits(page) /\ page' \in ClientPage
  BY SameNow
<1>1. r \in ClientPage /\ r.terminal = page.terminal
  BY <1>0, ReleasedDoes DEF SameCall
<1>2. /\ Move(p, tasks, Ending(page, k, c)) /\ UNCHANGED <<socketOpen, session, finishing>>
      /\ Handles
  BY <1>1, UnheardHandles DEF HangUp, ClientPage, backend
<1> HIDE DEF r
<1>3. p.call = NoCall /\ p.terminal = s /\ p.socketTimer = FALSE
  BY <1>1 DEF ClientPage
<1>4. NoCall.id = None /\ Over(NoCall)
  BY DEF NoCall, Over
<1> HIDE DEF p
<1>5. page' = p /\ tasks' = tasks /\ toBackend' = toBackend \o Ending(page, k, c)
  BY <1>2 DEF Move
<1>6. k = "reject" => c \in IncomingCall /\ session[c] # "active" /\ c \in page'.terminal
  <2>1. SUFFICES ASSUME page.call.status = "incoming"
                 PROVE  c \in IncomingCall /\ session[c] # "active" /\ c \in s
    BY <1>3, <1>5
  <2>2. c \in IncomingCall
    BY <1>0, <2>1 DEF StreamFits
  <2>3. RingsAt(page, tasks, toPage, c)
    BY <2>1 DEF RingsAt
  <2>4. session[c] # "active"
    BY <2>2, <2>3 DEF Following, Orderly, MicHolds, TakenIsSilent, Took
  <2>5. QED
    BY <2>2, <2>4, IncomingIsCall
<1>7. Sends(Ending(page, k, c)) /\ Reports
  BY <1>0, <1>5, <1>6, EndingReports
<1>8. page.terminal \subseteq p.terminal /\ p.terminal \subseteq page.terminal \union {c}
  BY <1>3
<1>9. QED
  BY <1>2, <1>3, <1>4, <1>5, <1>7, <1>8, LeaveFollows

LEMMA DismissCallFollows ==
    ASSUME Following, DismissCall
    PROVE  Follows'
<1> DEFINE r == Released(page)
           p == [r EXCEPT !.call = NoCall, !.socketTimer = FALSE]
<1>0. page \in ClientPage
  BY SameNow
<1>1. r \in ClientPage /\ r.terminal = page.terminal
  BY <1>0, ReleasedDoes DEF SameCall
<1>2. /\ Move(p, tasks, <<>>) /\ UNCHANGED <<socketOpen, session, finishing>>
      /\ Handles /\ Over(page.call)
  BY UnheardHandles DEF DismissCall, backend
<1> HIDE DEF r
<1>3. p.call = NoCall /\ p.terminal = page.terminal /\ p.socketTimer = FALSE
  BY <1>1 DEF ClientPage
<1>4. NoCall.id = None /\ Over(NoCall)
  BY DEF NoCall, Over
<1> HIDE DEF p
<1>5. page' = p /\ tasks' = tasks /\ toBackend' = toBackend \o <<>>
  BY <1>2 DEF Move
<1>6. Sends(<<>>) /\ Reports
  BY <1>2, <1>5, HarmlessSends, EmptyIsHarmless, NoneReports
<1>7. QED
  BY <1>2, <1>3, <1>4, <1>5, <1>6, LeaveFollows

LEMMA MicOpensForStartFollows ==
    ASSUME Following, NEW x, MicOpens(x), x.kind = "start"
    PROVE  Follows'
<1> DEFINE o == Opened(page)
           showing == [id |-> None, status |-> "calling"]
           p == [o EXCEPT !.call = showing]
           y == [x EXCEPT !.at = "ack"]
           t == (tasks \ {x}) \union {y}
           m == <<Msg("start", None)>>
<1>0. /\ Orderly /\ page \in ClientPage /\ tasks \in SUBSET Task /\ x \in tasks /\ x.at = "mic"
  BY SameNow DEF MicOpens
<1>1. page.call.id = None
  BY <1>0, OnTheWay
<1>2. o \in ClientPage /\ o.terminal = page.terminal /\ o.socketTimer = page.socketTimer
  BY <1>0, OpenedSame DEF Same, SameCall
<1>3. /\ Move(p, t, m) /\ UNCHANGED <<socketOpen, session, finishing>> /\ Handles
  BY <1>0, UnheardHandles DEF MicOpens, backend
<1>4. y.kind = "start" /\ showing.id = None
  BY <1>0 DEF Task
<1> HIDE DEF o, showing, y
<1>5. p.call = showing /\ p.terminal = page.terminal /\ p.socketTimer = page.socketTimer
  BY <1>2 DEF ClientPage
<1> HIDE DEF p
<1>6. SyncAck \in t <=> SyncAck \in tasks
  <2>1. SyncAck # x /\ SyncAck # y
    BY <1>4 DEF SyncAck, MicOpens
  <2>2. QED
    BY <2>1
<1> HIDE DEF t
<1>7. page' = p /\ tasks' = t /\ toBackend' = toBackend \o m
  BY <1>3 DEF Move
<1>8. Harmless(m)
  BY DEF Harmless
<1>9. Sends(m) /\ Reports
  BY <1>1, <1>7, <1>8, HarmlessSends, NoneReports
<1> HIDE DEF m
<1>10. QED
  BY <1>3, <1>4, <1>5, <1>6, <1>7, <1>9, LeaveFollows

\* The packet call:accept, of a call that rings.
LEMMA AcceptSends ==
    ASSUME Following, NEW c \in IncomingCall, session[c] # "active",
           toBackend' = toBackend \o <<Msg("accept", c)>>
    PROVE  Sends(<<Msg("accept", c)>>)
<1> DEFINE e == Msg("accept", c)
           m == <<e>>
<1>1. e \in Packet
  BY IncomingIsCall DEF Msg, Packet
<1>2. m \in Seq(Packet) /\ \A A : Has(m, A) <=> e \in A
  <2> HIDE DEF e
  <2> QED BY <1>1, OneHas
<1>3. /\ e \notin AskSync /\ \A d : e # Msg("reject", d)
      /\ \A d : e = Msg("accept", d) => d = c
  BY DEF Msg, AskSync
<1> HIDE DEF e, m
<1>4. QED
  BY <1>2, <1>3 DEF Sends, e, m

LEMMA MicOpensForAcceptFollows ==
    ASSUME Following, NEW x, MicOpens(x), x.kind = "accept"
    PROVE  Follows'
<1> DEFINE o == Opened(page)
           p == NewPeer(o)
           y == [x EXCEPT !.at = "ack"]
           t == (tasks \ {x}) \union {y}
           m == <<Msg("accept", x.call)>>
<1>0. /\ Orderly /\ page \in ClientPage /\ tasks \in SUBSET Task /\ x \in tasks /\ x.at = "mic"
  BY SameNow DEF MicOpens
<1>1. x.call \in IncomingCall
  BY <1>0, OnTheWay
<1>2. Same(page, p)
  <2>1. Same(page, o) /\ o \in ClientPage
    BY <1>0, OpenedSame DEF Same, SameCall
  <2> HIDE DEF o
  <2>2. QED
    BY <2>1, NewPeerSame, SameAgain
<1>3. /\ Move(p, t, m) /\ UNCHANGED <<socketOpen, session, finishing>> /\ Handles
  BY <1>0, UnheardHandles DEF MicOpens, backend
<1>4. y.kind = "accept"
  BY <1>0 DEF Task
<1> HIDE DEF o, y, p
<1>6. SyncAck \in t <=> SyncAck \in tasks
  <2>1. SyncAck # x /\ SyncAck # y
    BY <1>4 DEF SyncAck, MicOpens
  <2>2. QED
    BY <2>1
<1> HIDE DEF t
<1>7. page' = p /\ tasks' = t /\ toBackend' = toBackend \o m
  BY <1>3 DEF Move
<1>8. session[x.call] # "active"
  <2>1. RingsAt(page, tasks, toPage, x.call)
    BY <1>0 DEF RingsAt
  <2>2. QED
    BY <1>0, <1>1, <2>1 DEF Orderly, MicHolds, TakenIsSilent, Took
<1>9. Sends(m)
  BY <1>1, <1>7, <1>8, AcceptSends
<1> HIDE DEF m
<1>10. QED
  BY <1>2, <1>3, <1>6, <1>7, <1>9, StayFollows DEF Same, SameCall

LEMMA MicOpensForOthersFollows ==
    ASSUME Following, NEW x, MicOpens(x), x.kind \notin {"start", "accept"}
    PROVE  Follows'
<1> DEFINE o == Opened(page)
           t == tasks \ {x}
           c == x.call
<1>0. /\ Orderly /\ page \in ClientPage /\ tasks \in SUBSET Task /\ x \in tasks /\ x.at = "mic"
  BY SameNow DEF MicOpens
<1>1. c \in CallId
  BY <1>0, OnTheWay DEF Task
<1>2. Same(page, o) /\ o \in ClientPage
  BY <1>0, OpenedSame DEF Same, SameCall
<1>3. x.kind \in {"sync", "restore", "offer"}
  BY <1>0 DEF Task
<1>4. \/ x.kind = "sync" /\ Move(o, t, <<>>)
      \/ x.kind = "restore" /\ AfterSync(o, t, c)
      \/ x.kind = "offer" /\ AnswerOffer(NewPeer(o), t, c)
  BY <1>3 DEF MicOpens
<1>5. UNCHANGED <<socketOpen, session, finishing>> /\ Handles
  BY UnheardHandles DEF MicOpens, backend
<1>6. SyncAck \in t <=> SyncAck \in tasks
  <2>1. SyncAck # x
    BY <1>0 DEF SyncAck
  <2>2. QED
    BY <2>1
<1> HIDE DEF o, t
<1>7. \E q, m : Same(o, q) /\ Harmless(m) /\ Move(q, t, m)
  <2>1. CASE x.kind = "sync" /\ Move(o, t, <<>>)
    BY <1>2, <2>1, EmptyIsHarmless DEF Same, SameCall
  <2>2. CASE x.kind = "restore" /\ AfterSync(o, t, c)
    BY <1>1, <1>2, <2>2, AfterSyncSends
  <2>3. CASE x.kind = "offer" /\ AnswerOffer(NewPeer(o), t, c)
    <3>1. Same(o, NewPeer(o)) /\ NewPeer(o) \in ClientPage
      BY <1>2, NewPeerSame DEF Same, SameCall
    <3>2. \E q, m : Same(NewPeer(o), q) /\ Harmless(m) /\ Move(q, t, m)
      BY <1>1, <2>3, <3>1, AnswerSends
    <3>3. QED
      BY <3>1, <3>2, SameAgain
  <2>4. QED
    BY <1>4, <2>1, <2>2, <2>3
<1>8. /\ o.call = page.call /\ o.terminal = page.terminal /\ o.socketTimer = page.socketTimer
  BY <1>2 DEF Same, SameCall
<1>9. QED
  BY <1>5, <1>6, <1>7, <1>8, GoesOnFollows

LEMMA MicFailsFollows ==
    ASSUME Following, NEW x, MicFails(x)
    PROVE  Follows'
<1>0. /\ Orderly /\ page \in ClientPage /\ tasks \in SUBSET Task /\ x \in tasks /\ x.at = "mic"
      /\ page.terminal \subseteq CallId /\ page' \in ClientPage
  BY SameNow DEF MicFails
<1>1. UNCHANGED <<socketOpen, session, finishing>> /\ Handles
  BY UnheardHandles DEF MicFails, backend
<1>2. SyncAck \in tasks \ {x} <=> SyncAck \in tasks
  <2>1. SyncAck # x
    BY <1>0 DEF SyncAck
  <2>2. QED
    BY <2>1
<1>3. CASE x.kind = "accept"
  <2> DEFINE c == page.call.id
             s == page.terminal \union {c}
             q == [page EXCEPT !.terminal = s]
             t == tasks \ {x}
  <2>1. x.call = c /\ c \in IncomingCall
    BY <1>0, <1>3, OnTheWay
  <2>2. Move(Finished(q, "failed"), t, Ending(page, "reject", c))
    BY <1>0, <1>3, <2>1 DEF MicFails, ClientPage
  <2>3. s \in SUBSET CallId
    BY <1>0, <2>1, IncomingIsCall
  <2> HIDE DEF s
  <2>4. q \in ClientPage /\ q.call = page.call /\ q.terminal = s
    BY <1>0, <2>3 DEF ClientPage
  <2> HIDE DEF q, t
  <2>5. page' = Finished(q, "failed") /\ toBackend' = toBackend \o Ending(page, "reject", c)
    BY <2>2 DEF Move
  <2>6. c \in page'.terminal
    <3>1. c \in q.terminal
      BY <2>4 DEF s
    <3>2. QED
      BY <2>4, <2>5, <3>1, FinishedDoes
  <2>7. session[c] # "active"
    <3>1. RingsAt(page, tasks, toPage, c)
      BY <1>0, <1>3, <2>1 DEF RingsAt
    <3>2. QED
      BY <1>0, <2>1, <3>1 DEF Orderly, MicHolds, TakenIsSilent, Took
  <2>8. Sends(Ending(page, "reject", c)) /\ Reports
    BY <1>0, <2>1, <2>5, <2>6, <2>7, EndingReports
  <2>9. page.terminal \subseteq q.terminal /\ q.terminal \subseteq page.terminal \union {c}
    BY <2>4 DEF s
  <2>10. SyncAck \in t <=> SyncAck \in tasks
    BY <1>2 DEF t
  <2>11. QED
    BY <1>1, <2>2, <2>4, <2>8, <2>9, <2>10, FinishFollows
<1>4. CASE x.kind # "accept"
  <2>1. Fail(page, tasks \ {x})
    BY <1>4 DEF MicFails
  <2>2. QED
    BY <1>1, <1>2, <2>1, FailFollows
<1>5. QED
  BY <1>3, <1>4

-----------------------------------------------------------------------------

LEMMA PeerConnectsFollows ==
    ASSUME Following, PeerConnects
    PROVE  Follows'
<1> DEFINE u == IF page.call = NoCall THEN page.call.status ELSE "active"
           showing == [page.call EXCEPT !.status = u]
           p == [page EXCEPT !.conn = "connected", !.peerTimer = FALSE, !.call = showing]
<1>0. /\ StreamFits(page) /\ page \in ClientPage
      /\ page.call \in Call /\ page.conn \in {"checking", "down"}
  BY SameNow DEF PeerConnects
<1>1. Live(page.call) /\ page.call # NoCall
  BY <1>0 DEF StreamFits, Live, NoCall, Over
<1>2. Move(p, tasks, <<>>) /\ UNCHANGED <<socketOpen, session, finishing>> /\ Handles
  BY <1>0, UnheardHandles DEF PeerConnects, ClientPage, backend
<1>3. showing \in Call /\ showing.id = page.call.id /\ Live(showing)
  BY <1>0, <1>1 DEF Call, Status, NoCall, Live, Over
<1> HIDE DEF showing
<1>4. /\ p \in ClientPage /\ p.call = showing /\ p.terminal = page.terminal
      /\ p.socketTimer = page.socketTimer
  BY <1>0, <1>3 DEF ClientPage
<1> HIDE DEF p
<1>5. Same(p, p) /\ Harmless(<<>>)
  BY <1>4, EmptyIsHarmless DEF Same, SameCall
<1>6. QED
  BY <1>1, <1>2, <1>3, <1>4, <1>5, GoesOnFollows

LEMMA PeerDropsFollows ==
    ASSUME Following, PeerDrops
    PROVE  Follows'
<1> DEFINE showing == [page.call EXCEPT !.status = "reconnecting"]
           p == [page EXCEPT !.conn = "down", !.peerTimer = TRUE, !.call = showing]
           n == <<Msg("recover", page.call.id)>>
<1>0. /\ StreamFits(page) /\ page \in ClientPage
      /\ page.call \in Call /\ page.conn \in {"checking", "connected"}
      /\ page.call.id \in CallId \union {None}
  BY SameNow DEF PeerDrops
<1>1. ~Over(page.call) /\ page.call # NoCall
  BY <1>0 DEF StreamFits, NoCall, Over
<1>2. RestartConnection(p, tasks) \/ Move(p, tasks, <<>>) \/ Move(p, tasks, n)
  BY <1>0, <1>1 DEF PeerDrops, ClientPage
<1>3. showing \in Call /\ showing.id = page.call.id /\ Live(showing)
  BY <1>0, <1>1 DEF Call, Status, NoCall, Live, Over
<1> HIDE DEF showing
<1>4. /\ p \in ClientPage /\ p.call = showing /\ p.terminal = page.terminal
      /\ p.socketTimer = page.socketTimer
  BY <1>0, <1>3 DEF ClientPage
<1> HIDE DEF p
<1>5. Harmless(n)
  BY <1>0 DEF Harmless
<1> HIDE DEF n
<1>6. \E q, m : Same(p, q) /\ Harmless(m) /\ Move(q, tasks, m)
  <2>1. CASE RestartConnection(p, tasks)
    BY <1>4, <2>1, RestartSends
  <2>2. CASE Move(p, tasks, <<>>) \/ Move(p, tasks, n)
    BY <1>4, <1>5, <2>2, EmptyIsHarmless DEF Same, SameCall
  <2>3. QED
    BY <1>2, <2>1, <2>2
<1>7. UNCHANGED <<socketOpen, session, finishing>> /\ Handles
  BY UnheardHandles DEF PeerDrops, backend
<1>8. QED
  BY <1>1, <1>3, <1>4, <1>6, <1>7, GoesOnFollows DEF Live

LEMMA PeerTimerFiresFollows ==
    ASSUME Following, PeerTimerFires
    PROVE  Follows'
<1> DEFINE p == [page EXCEPT !.peerTimer = FALSE]
<1>1. /\ p \in ClientPage /\ p.call = page.call /\ p.terminal = page.terminal
      /\ p.socketTimer = page.socketTimer
  BY SameNow DEF ClientPage
<1>2. Move(p, tasks, <<>>) \/ Fail(page, tasks)
  BY DEF PeerTimerFires
<1>3. UNCHANGED <<socketOpen, session, finishing>> /\ Handles
  BY UnheardHandles DEF PeerTimerFires, backend
<1> HIDE DEF p
<1>4. CASE Move(p, tasks, <<>>)
  <2>1. Same(p, p) /\ Harmless(<<>>)
    BY <1>1, EmptyIsHarmless DEF Same, SameCall
  <2>2. QED
    BY <1>1, <1>3, <1>4, <2>1, GoesOnFollows
<1>5. CASE Fail(page, tasks)
  BY <1>3, <1>5, FailFollows
<1>6. QED
  BY <1>2, <1>4, <1>5

LEMMA SocketTimerFiresFollows ==
    ASSUME Following, SocketTimerFires
    PROVE  Follows'
<1>1. page \in ClientPage
  BY SameNow
<1>2. /\ Move(Finished(page, "failed"), tasks, <<>>) /\ page.socketTimer
      /\ UNCHANGED <<socketOpen, session, finishing>> /\ Handles
  BY UnheardHandles DEF SocketTimerFires, backend
<1>3. toBackend' = toBackend \o <<>>
  BY <1>2 DEF Move
<1>4. Sends(<<>>)
  BY <1>3, HarmlessSends, EmptyIsHarmless
<1>5. Reports
  BY <1>2 DEF Reports, Following, Follows, SyncComes
<1>6. QED
  BY <1>1, <1>2, <1>4, <1>5, FinishFollows

-----------------------------------------------------------------------------

\* The page handles an event that says nothing of which call it has.
LEMMA QuietHandles ==
    ASSUME toPage # <<>>, toPage' = Tail(toPage),
           Head(toPage).kind \in {"accepted", "offer", "answer", "recovery", "startFailed", "acceptOk"}
    PROVE  Handles
BY DEF Handles, States, Closes

\* The page handles the news of the end of call c.
LEMMA CloseHandles ==
    ASSUME Following, toPage # <<>>, toPage' = Tail(toPage), NEW c \in CallId,
           Head(toPage) \in Closes(c)
    PROVE  /\ ~Shows(c)' => Handles
           /\ page.call.id = c => Reports
<1>1. toPage \in Seq(Event) /\ 1 \in DOMAIN toPage /\ Head(toPage) = toPage[1]
  BY DEF Following, Orderly, EndedInv, ClientTypes
<1>2. Has(toPage, Closes(c))
  BY <1>1 DEF Has
<1>3. finishing[c] # "no" \/ c \notin InMap
  BY <1>2 DEF Following, Follows, ClosedIsOver
<1>4. Head(toPage) \notin States /\ \A d \in CallId : Head(toPage) \in Closes(d) => d = c
  BY DEF Closes, States
<1>5. QED
  BY <1>3, <1>4 DEF Handles, Reports, Shows

LEMMA OnAcceptedFollows ==
    ASSUME Following, UNCHANGED <<socketOpen, session, finishing>>, Handles,
           NEW c \in OutgoingCall, OnAccepted(c)
    PROVE  Follows'
<1> DEFINE n == NewPeer(page)
           showing == [page.call EXCEPT !.status = "connecting"]
           p == [n EXCEPT !.call = showing, !.offered = TRUE]
<1>0. page \in ClientPage /\ Same(page, page) /\ page.call \in Call /\ Orderly
  BY SameNow
<1>1. CASE page.call.id # c
  <2>1. Move(page, tasks, <<>>)
    BY <1>1 DEF OnAccepted
  <2>2. QED
    BY <1>0, <2>1, GoesOnFollows, EmptyIsHarmless
<1>2. CASE page.call.id = c
  <2>1. Same(page, n) /\ n \in ClientPage
    BY <1>0, NewPeerSame DEF Same, SameCall
  <2>2. c \in CallId /\ page.call # NoCall
    BY <1>2, CallClientConstants DEF NoCall, CallId
  <2>3. showing \in Call /\ showing.id = c /\ Live(showing)
    BY <1>0, <1>2, <2>2 DEF Call, Status, NoCall, Live, Over
  <2>4. Move(p, tasks, <<Msg("offer", c)>>)
    BY <1>2, <2>1 DEF OnAccepted, ClientPage, Same, SameCall
  <2> HIDE DEF n, showing
  <2>5. /\ p \in ClientPage /\ p.call = showing /\ p.terminal = page.terminal
        /\ p.socketTimer = page.socketTimer
    BY <2>1, <2>3 DEF ClientPage, Same, SameCall
  <2> HIDE DEF p
  <2>6. ~Overtakes(p, tasks, <<Msg("offer", c)>>)
    BY <1>0, <2>4, MoveDoes DEF Orderly
  <2>7. Live(page.call)
    BY <1>2, <2>3, <2>5, <2>6 DEF Overtakes, Live
  <2>8. Same(p, p) /\ Harmless(<<Msg("offer", c)>>)
    BY <2>2, <2>5 DEF Same, SameCall, Harmless
  <2>9. QED
    BY <1>2, <2>3, <2>4, <2>5, <2>7, <2>8, GoesOnFollows
<1>3. QED
  BY <1>1, <1>2

LEMMA OnOfferFollows ==
    ASSUME Following, UNCHANGED <<socketOpen, session, finishing>>, Handles,
           NEW c \in CallId, OnOffer(c)
    PROVE  Follows'
<1> DEFINE x == [kind |-> "offer", at |-> "mic", call |-> c]
           t == tasks \union {x}
<1>0. page \in ClientPage /\ Same(page, page)
  BY SameNow
<1>1. Same(page, NewPeer(page)) /\ NewPeer(page) \in ClientPage
  BY <1>0, NewPeerSame DEF Same, SameCall
<1>2. \/ Move(page, tasks, <<>>) \/ AnswerOffer(page, tasks, c)
      \/ AnswerOffer(NewPeer(page), tasks, c) \/ Move(page, t, <<>>)
  BY DEF OnOffer
<1>3. SyncAck \in t <=> SyncAck \in tasks
  <2>1. SyncAck # x
    BY DEF SyncAck
  <2>2. QED
    BY <2>1
<1> HIDE DEF t
<1>4. CASE Move(page, t, <<>>)
  BY <1>0, <1>3, <1>4, GoesOnFollows, EmptyIsHarmless
<1>5. CASE ~Move(page, t, <<>>)
  <2>1. \E q, m : Same(page, q) /\ Harmless(m) /\ Move(q, tasks, m)
    <3>1. CASE Move(page, tasks, <<>>)
      BY <1>0, <3>1, EmptyIsHarmless
    <3>2. CASE AnswerOffer(page, tasks, c)
      BY <1>0, <3>2, AnswerSends
    <3>3. CASE AnswerOffer(NewPeer(page), tasks, c)
      BY <1>1, <3>3, AnswerSends, SameAgain
    <3>4. QED
      BY <1>2, <1>5, <3>1, <3>2, <3>3
  <2>2. QED
    BY <2>1, GoesOnFollows
<1>6. QED
  BY <1>4, <1>5

LEMMA OnAnswerFollows ==
    ASSUME Following, UNCHANGED <<socketOpen, session, finishing>>, Handles,
           NEW c \in CallId, OnAnswer(c)
    PROVE  Follows'
<1> DEFINE n == IF page.conn = "new" THEN "checking" ELSE page.conn
           p == [page EXCEPT !.offered = FALSE, !.conn = n]
<1>0. page \in ClientPage /\ Same(page, page)
  BY SameNow
<1>1. n \in {"none", "new", "checking", "connected", "down"}
  BY <1>0 DEF ClientPage
<1>2. Move(page, tasks, <<>>) \/ Fail(page, tasks) \/ Move(p, tasks, <<>>)
  BY DEF OnAnswer
<1> HIDE DEF n
<1>3. Same(page, p)
  BY <1>0, <1>1 DEF Same, SameCall, ClientPage
<1> HIDE DEF p
<1>4. CASE Fail(page, tasks)
  BY <1>4, FailFollows
<1>5. CASE Move(page, tasks, <<>>) \/ Move(p, tasks, <<>>)
  BY <1>0, <1>3, <1>5, GoesOnFollows, EmptyIsHarmless
<1>6. QED
  BY <1>2, <1>4, <1>5

LEMMA OnRecoveryNeededFollows ==
    ASSUME Following, UNCHANGED <<socketOpen, session, finishing>>, Handles,
           NEW c \in CallId, OnRecoveryNeeded(c)
    PROVE  Follows'
<1>1. page \in ClientPage /\ Same(page, page)
  BY SameNow
<1>2. Move(page, tasks, <<>>) \/ RestartConnection(page, tasks)
  BY DEF OnRecoveryNeeded
<1>3. \E q, m : Same(page, q) /\ Harmless(m) /\ Move(q, tasks, m)
  BY <1>1, <1>2, RestartSends, EmptyIsHarmless
<1>4. QED
  BY <1>3, GoesOnFollows

LEMMA StartFailedFollows ==
    ASSUME Following, UNCHANGED <<socketOpen, session, finishing>>, Handles,
           StartAck \in tasks, Fail(page, tasks \ {Waiting("start")})
    PROVE  Follows'
<1>1. Waiting("start") = StartAck
  BY SameNow, StartWaits
<1>2. StartAck # SyncAck
  BY DEF StartAck, SyncAck
<1>3. SyncAck \in tasks \ {Waiting("start")} <=> SyncAck \in tasks
  BY <1>1, <1>2
<1>4. QED
  BY <1>3, FailFollows

LEMMA OnAcceptedHereFollows ==
    ASSUME Following, UNCHANGED <<socketOpen, session, finishing>>, Handles,
           NEW c \in CallId, AcceptAck(c) \in tasks, OnAcceptDone(c, TRUE)
    PROVE  Follows'
<1> DEFINE showing == [page.call EXCEPT !.status = "connecting"]
           p == [page EXCEPT !.call = showing]
           t == tasks \ {AcceptAck(c)}
<1>0. page \in ClientPage /\ TasksFit(page, tasks) /\ CallIsSound(page, tasks) /\ page.call \in Call
  BY SameNow
<1>1. AcceptAck(c).kind = "accept"
  BY DEF AcceptAck
<1>2. Live(page.call) /\ page.call # NoCall
  BY <1>0, <1>1 DEF CallIsSound, Live, Over, NoCall
<1>3. Move(p, t, <<>>)
  BY <1>0, <1>2 DEF OnAcceptDone, AcceptAck, ClientPage
<1>4. showing \in Call /\ showing.id = page.call.id /\ Live(showing)
  BY <1>0, <1>2 DEF Call, Status, NoCall, Live, Over
<1> HIDE DEF showing
<1>5. /\ p \in ClientPage /\ p.call = showing /\ p.terminal = page.terminal
      /\ p.socketTimer = page.socketTimer
  BY <1>0, <1>4 DEF ClientPage
<1> HIDE DEF p
<1>6. SyncAck \in t <=> SyncAck \in tasks
  <2>1. SyncAck # AcceptAck(c)
    BY DEF SyncAck, AcceptAck
  <2>2. QED
    BY <2>1
<1> HIDE DEF t
<1>7. Same(p, p) /\ Harmless(<<>>)
  BY <1>5, EmptyIsHarmless DEF Same, SameCall
<1>8. QED
  BY <1>2, <1>3, <1>4, <1>5, <1>6, <1>7, GoesOnFollows

-----------------------------------------------------------------------------

LEMMA OnEndedFollows ==
    ASSUME Following, NEW c \in CallId, ClosesHere(c), OnEnded(c)
    PROVE  Follows'
<1>0. page \in ClientPage /\ Same(page, page)
  BY SameNow
<1>1. UNCHANGED <<socketOpen, session, finishing>>
  BY DEF ClosesHere
<1>2. ~Shows(c)' => Handles
  BY CloseHandles DEF ClosesHere
<1>3. CASE page.call.id # c
  <2>1. Move(page, tasks, <<>>)
    BY <1>3 DEF OnEnded
  <2>2. page' = page
    BY <2>1 DEF Move
  <2>3. Handles
    BY <1>2, <1>3, <2>2 DEF Shows
  <2>4. QED
    BY <1>0, <1>1, <2>1, <2>3, GoesOnFollows, EmptyIsHarmless
<1>4. CASE page.call.id = c
  <2>1. Move(Finished(page, "ended"), tasks, <<>>)
    BY <1>4 DEF OnEnded
  <2>2. page' = Finished(page, "ended") /\ toBackend' = toBackend \o <<>>
    BY <2>1 DEF Move
  <2>3. Over(page'.call)
    BY <1>0, <2>2, FinishedDoes
  <2>4. Handles /\ Reports
    BY <1>2, <1>4, <2>3, CloseHandles DEF Shows, Live, ClosesHere
  <2>5. Sends(<<>>)
    BY <2>2, HarmlessSends, EmptyIsHarmless
  <2>6. QED
    BY <1>0, <1>1, <2>1, <2>4, <2>5, FinishFollows
<1>5. QED
  BY <1>3, <1>4

LEMMA OnDismissedFollows ==
    ASSUME Following, NEW c \in CallId, ClosesHere(c), OnDismissed(c)
    PROVE  Follows'
<1> DEFINE r == Released(page)
           s == page.terminal \union {c}
           p == [r EXCEPT !.call = NoCall, !.socketTimer = FALSE, !.terminal = s]
<1>0. page \in ClientPage /\ Same(page, page)
  BY SameNow
<1>1. UNCHANGED <<socketOpen, session, finishing>>
  BY DEF ClosesHere
<1>2. ~Shows(c)' => Handles
  BY CloseHandles DEF ClosesHere
<1>3. CASE page.call.id # c
  <2>1. Move(page, tasks, <<>>)
    BY <1>3 DEF OnDismissed
  <2>2. page' = page
    BY <2>1 DEF Move
  <2>3. Handles
    BY <1>2, <1>3, <2>2 DEF Shows
  <2>4. QED
    BY <1>0, <1>1, <2>1, <2>3, GoesOnFollows, EmptyIsHarmless
<1>4. CASE page.call.id = c
  <2>1. r \in ClientPage /\ r.terminal = page.terminal
    BY <1>0, ReleasedDoes DEF SameCall
  <2>2. Move(p, tasks, <<>>)
    BY <1>4, <2>1 DEF OnDismissed, ClientPage
  <2> HIDE DEF r
  <2>3. p.call = NoCall /\ p.terminal = s /\ p.socketTimer = FALSE
    BY <2>1 DEF ClientPage
  <2>4. NoCall.id = None /\ Over(NoCall)
    BY DEF NoCall, Over
  <2> HIDE DEF p
  <2>5. page' = p /\ tasks' = tasks /\ toBackend' = toBackend \o <<>>
    BY <2>2 DEF Move
  <2>6. Handles /\ Reports
    BY <1>2, <1>4, <2>3, <2>4, <2>5, CloseHandles DEF Shows, Live, ClosesHere
  <2>7. Sends(<<>>)
    BY <2>5, HarmlessSends, EmptyIsHarmless
  <2>8. page.terminal \subseteq p.terminal /\ p.terminal \subseteq page.terminal \union {page.call.id}
    BY <1>4, <2>3
  <2>9. QED
    BY <1>1, <2>3, <2>4, <2>5, <2>6, <2>7, <2>8, LeaveFollows
<1>5. QED
  BY <1>3, <1>4

LEMMA OnAcceptFailedFollows ==
    ASSUME Following, NEW c \in CallId, ClosesHere(c), AcceptAck(c) \in tasks,
           OnAcceptDone(c, FALSE)
    PROVE  Follows'
<1> DEFINE t == tasks \ {AcceptAck(c)}
           s == page.terminal \union {c}
           q == [page EXCEPT !.terminal = s]
<1>0. page \in ClientPage /\ TasksFit(page, tasks) /\ page' \in ClientPage
  BY SameNow
<1>1. UNCHANGED <<socketOpen, session, finishing>>
  BY DEF ClosesHere
<1>2. page.call.id = c
  BY <1>0 DEF TasksFit, AcceptAck
<1>3. Move(Finished(q, "failed"), t, Ending(page, "end", page.call.id))
  BY <1>0, <1>2 DEF OnAcceptDone, AcceptAck, ClientPage
<1>4. s \in SUBSET CallId
  BY <1>0 DEF ClientPage
<1>5. page.terminal \subseteq s /\ s \subseteq page.terminal \union {page.call.id}
  BY <1>2
<1> HIDE DEF s
<1>6. q \in ClientPage /\ q.call = page.call /\ q.terminal = s
  BY <1>0, <1>4 DEF ClientPage
<1> HIDE DEF q
<1>7. SyncAck \in t <=> SyncAck \in tasks
  <2>1. SyncAck # AcceptAck(c)
    BY DEF SyncAck, AcceptAck
  <2>2. QED
    BY <2>1
<1> HIDE DEF t
<1>8. /\ page' = Finished(q, "failed")
      /\ toBackend' = toBackend \o Ending(page, "end", page.call.id)
  BY <1>3 DEF Move
<1>9. Over(page'.call)
  BY <1>6, <1>8, FinishedDoes
<1>10. Handles
  BY <1>9, CloseHandles DEF Shows, Live, ClosesHere
<1>11. Sends(Ending(page, "end", page.call.id)) /\ Reports
  BY <1>0, <1>8, EndingReports
<1>12. QED
  BY <1>1, <1>3, <1>5, <1>6, <1>7, <1>10, <1>11, FinishFollows

-----------------------------------------------------------------------------

\* Of the calls that it knows, the others are over, and it is not told of them again.
LEMMA HeadTells ==
    ASSUME Following, IsTold
    PROVE  /\ socketOpen
           /\ toPage \in Seq(Event) /\ Head(toPage) \in Event
           /\ \A A : /\ Has(toPage', A) => Has(toPage, A)
                     /\ Has(toPage, A) => Head(toPage) \in A \/ Has(toPage', A)
                     /\ Head(toPage) \in A => Has(toPage, A)
           /\ \A d \in CallId :
                 d \in page.terminal \union {page.call.id} /\ Head(toPage) \notin Brings(d) =>
                    d \notin InMap /\ ~Has(toPage', Brings(d))
           /\ \A d \in Lost : Head(toPage) \in Brings(d) =>
                 d \in page.terminal \/ Has(toPage', Closes(d))
<1> DEFINE K == page.terminal \union {page.call.id}
<1>1. toPage \in Seq(Event) /\ toPage # <<>> /\ toPage' = Tail(toPage) /\ Head(toPage) \in States
  BY DEF IsTold, Following, Orderly, EndedInv, ClientTypes
<1>2. socketOpen
  BY <1>1 DEF Following, Orderly, MicHolds, SocketFits
<1>3. /\ \A i \in DOMAIN toPage' : i \in Nat /\ i >= 1 /\ i + 1 \in DOMAIN toPage /\ toPage'[i] = toPage[i + 1]
      /\ \A i \in DOMAIN toPage : i > 1 => i - 1 \in DOMAIN toPage' /\ toPage'[i - 1] = toPage[i]
      /\ 1 \in DOMAIN toPage /\ Head(toPage) = toPage[1]
  BY <1>1, TailDoes
<1>4. \A A : /\ Has(toPage', A) => Has(toPage, A)
             /\ Has(toPage, A) => Head(toPage) \in A \/ Has(toPage', A)
  BY <1>1, TailHas
<1>5. InOrder(toPage, K, InMap) /\ EndsFollow(toPage, Lost, page.terminal)
  BY DEF Following, Follows
<1>6. ASSUME NEW d \in CallId, d \in K, Head(toPage) \notin Brings(d)
      PROVE  d \notin InMap /\ ~Has(toPage', Brings(d))
  <2>1. toPage[1] \in States \ Brings(d)
    BY <1>1, <1>3, <1>6
  <2>2. d \notin InMap /\ \A k \in DOMAIN toPage : k > 1 => toPage[k] \notin Brings(d)
    <3> HIDE DEF K
    <3> QED BY <1>3, <1>5, <1>6, <2>1 DEF InOrder
  <2>3. ASSUME NEW i \in DOMAIN toPage' PROVE toPage'[i] \notin Brings(d)
    <3>1. i + 1 \in DOMAIN toPage /\ i + 1 > 1 /\ toPage'[i] = toPage[i + 1]
      BY <1>3
    <3>2. QED
      BY <2>2, <3>1
  <2>4. QED
    BY <2>2, <2>3 DEF Has
<1>7. ASSUME NEW d \in Lost, Head(toPage) \in Brings(d), d \notin page.terminal
      PROVE  Has(toPage', Closes(d))
  <2>1. d \in CallId
    BY DEF Lost
  <2>2. PICK j \in DOMAIN toPage : j > 1 /\ toPage[j] \in Closes(d)
    BY <1>3, <1>5, <1>7, <2>1 DEF EndsFollow
  <2>3. j - 1 \in DOMAIN toPage' /\ toPage'[j - 1] \in Closes(d)
    BY <1>3, <2>2
  <2>4. QED
    BY <2>3 DEF Has
<1>8. \A A : Head(toPage) \in A => Has(toPage, A)
  BY <1>3 DEF Has
<1>9. Head(toPage) \in Event
  BY <1>1 DEF States
<1> HIDE DEF K
<1>10. QED
  BY <1>1, <1>2, <1>4, <1>6, <1>7, <1>8, <1>9 DEF K

\* Whether the page asks, and what it heard of ends, is as before.
LEMMA ToldKeeps ==
    ASSUME Following, IsTold, StillAsks, NEW m \in Seq(Packet), toBackend' = toBackend \o m
    PROVE  OneInMap' /\ ClosedIsOver' /\ SyncComes'
<1>1. InMap' = InMap
  BY LostDoes DEF IsTold
<1>2. /\ \A A : /\ Has(toPage', A) => Has(toPage, A)
                /\ Has(toPage, A) => Head(toPage) \in A \/ Has(toPage', A)
      /\ socketOpen /\ UNCHANGED <<socketOpen, finishing>>
  BY HeadTells DEF IsTold
<1>3. \A A : Has(toBackend', A) <=> Has(toBackend, A) \/ Has(m, A)
  BY SentHas
<1>4. OneInMap /\ ClosedIsOver /\ SyncComes
  BY DEF Following, Follows
<1>5. SyncComes'
  BY <1>2, <1>3, <1>4 DEF SyncComes, StillAsks
<1>6. QED
  BY <1>1, <1>2, <1>4, <1>5 DEF OneInMap, ClosedIsOver

\* It is told of call c, or of none, and does not show c for that.
LEMMA ToldInVain ==
    ASSUME Following, IsTold, StillAsks,
           page.terminal \subseteq page'.terminal,
           page'.terminal \subseteq page.terminal \union {page.call.id},
           page'.call.id \in {page.call.id, None},
           Live(page'.call) => Live(page.call) \/ page'.call.id = None,
           NEW m \in Seq(Packet), toBackend' = toBackend \o m, ~Has(m, AskSync),
           \A d \in CallId :
              /\ ~Has(m, {Msg("accept", d)})
              /\ Has(m, {Msg("reject", d)}) =>
                    /\ d \in IncomingCall /\ session[d] # "active" /\ ~Shows(d)'
                    /\ SyncAck \notin tasks' /\ ~Has(toPage', Brings(d))
              /\ Head(toPage) \in Brings(d) => Has(m, {Msg("end", d), Msg("reject", d)})
              /\ Head(toPage) \in Answers(SyncAck) => ~Shows(d)'
    PROVE  Follows'
<1> DEFINE K == page.terminal \union {page.call.id}
<1>1. InMap' = InMap /\ Lost' = Lost /\ UNCHANGED <<socketOpen, session, finishing>>
  BY LostDoes DEF IsTold
<1>2. /\ \A A : /\ Has(toPage', A) => Has(toPage, A)
                /\ Has(toPage, A) => Head(toPage) \in A \/ Has(toPage', A)
      /\ \A d \in CallId : d \in K /\ Head(toPage) \notin Brings(d) => d \notin InMap
      /\ socketOpen /\ toPage \in Seq(Event) /\ toPage # <<>> /\ toPage' = Tail(toPage)
  BY HeadTells DEF IsTold
<1>3. \A A : Has(toBackend', A) <=> Has(toBackend, A) \/ Has(m, A)
  BY SentHas
<1>4. None \notin CallId /\ InMap \subseteq CallId /\ Lost \subseteq CallId
  BY IncomingIsCall DEF InMap, Lost
<1>5. ASSUME NEW d \in CallId, Shows(d)' PROVE Shows(d)
  BY <1>4, <1>5 DEF Shows
<1>6. InOrder(toPage', page'.terminal \union {page'.call.id}, InMap')
  <2>1. InOrder(toPage, K, InMap)
    BY DEF Following, Follows
  <2>2. \A d \in CallId : d \in page'.terminal \union {page'.call.id} => d \in K
    BY <1>4
  <2> HIDE DEF K
  <2>3. QED
    BY <1>1, <1>2, <2>1, <2>2, TailInOrder
<1>7. EndsFollow(toPage', Lost', page'.terminal)
  <2>1. EndsFollow(toPage, Lost, page.terminal)
    BY DEF Following, Follows
  <2>2. QED
    BY <1>1, <1>2, <2>1, TailEndsFollow
<1>8. LeftIsOver'
  <2>1. SUFFICES ASSUME NEW d \in page'.terminal, Live(page'.call), page'.call.id \notin {None, d}
                 PROVE  d \notin InMap /\ ~Has(toPage', Brings(d))
    BY <1>1 DEF LeftIsOver
  <2>2. page.call.id = page'.call.id /\ Live(page.call) /\ d \in page.terminal
    BY <2>1
  <2>3. d \notin InMap /\ ~Has(toPage, Brings(d))
    BY <2>1, <2>2 DEF Following, Follows, LeftIsOver
  <2>4. QED
    BY <1>2, <2>3
<1>9. MapIsShown'
  <2>1. SUFFICES ASSUME NEW d \in InMap, finishing[d] = "no", ~Shows(d)'
                 PROVE  \/ Has(toBackend', {Msg("end", d), Msg("reject", d), Msg("sync", None)})
                        \/ Has(toPage', Brings(d))
    BY <1>1 DEF MapIsShown
  <2>2. d \in CallId
    BY <1>4
  <2>3. CASE Head(toPage) \in Brings(d)
    <3>1. Has(m, {Msg("end", d), Msg("reject", d)})
      BY <2>2, <2>3
    <3>2. Has(m, {Msg("end", d), Msg("reject", d), Msg("sync", None)})
      BY <3>1 DEF Has
    <3>3. QED
      BY <1>3, <3>2
  <2>4. CASE Head(toPage) \notin Brings(d)
    <3>1. d \notin K
      BY <1>2, <2>2, <2>4
    <3>2. ~Shows(d)
      BY <3>1 DEF Shows
    <3>3. \/ Has(toBackend, {Msg("end", d), Msg("reject", d), Msg("sync", None)})
          \/ Has(toPage, Brings(d))
      BY <1>2, <2>1, <3>2 DEF Following, Follows, MapIsShown
    <3>4. QED
      BY <1>2, <1>3, <2>4, <3>3
  <2>5. QED
    BY <2>3, <2>4
<1>10. ShownIsInMap'
  <2>1. SUFFICES ASSUME NEW d \in Lost, Shows(d)'
                 PROVE  \/ Has(toPage', Closes(d)) \/ Has(toBackend', {Msg("sync", None)})
                        \/ Has(toPage', Answers(SyncAck) \ Brings(d))
    BY <1>1 DEF ShownIsInMap
  <2>2. d \in CallId /\ Head(toPage) \notin Answers(SyncAck) /\ Head(toPage) \notin Closes(d)
    BY <1>4, <2>1, StatesDo DEF IsTold
  <2>3. \/ Has(toPage, Closes(d)) \/ Has(toBackend, {Msg("sync", None)})
        \/ Has(toPage, Answers(SyncAck) \ Brings(d))
    BY <1>2, <1>5, <2>1, <2>2 DEF Following, Follows, ShownIsInMap
  <2>4. QED
    BY <1>2, <1>3, <2>2, <2>3
<1>11. RefusalFits'
  <2>1. SUFFICES ASSUME NEW d \in CallId
                 PROVE  /\ Has(toBackend', {Msg("accept", d), Msg("reject", d)}) =>
                              d \in IncomingCall /\ session[d] # "active"
                        /\ Has(toBackend', {Msg("reject", d)}) =>
                              /\ ~Shows(d)'
                              /\ \/ d \in page'.terminal
                                 \/ SyncAck \notin tasks' /\ ~Has(toPage', Brings(d))
    BY <1>1, <1>2 DEF RefusalFits
  <2>2. /\ Has(toBackend, {Msg("accept", d), Msg("reject", d)}) =>
              d \in IncomingCall /\ session[d] # "active"
        /\ Has(toBackend, {Msg("reject", d)}) =>
              /\ ~Shows(d)
              /\ d \in page.terminal \/ (SyncAck \notin tasks /\ ~Has(toPage, Brings(d)))
    BY DEF Following, Follows, RefusalFits
  <2>3. Has(m, {Msg("accept", d), Msg("reject", d)}) => Has(m, {Msg("reject", d)})
    <3>1. ~Has(m, {Msg("accept", d)})
      BY <2>1
    <3>2. QED
      BY <3>1 DEF Has
  <2>4. Has(m, {Msg("reject", d)}) =>
           /\ d \in IncomingCall /\ session[d] # "active" /\ ~Shows(d)'
           /\ SyncAck \notin tasks' /\ ~Has(toPage', Brings(d))
    BY <2>1
  <2>5. SyncAck \notin tasks => SyncAck \notin tasks'
    BY DEF StillAsks
  <2>6. QED
    BY <1>2, <1>3, <1>5, <2>2, <2>3, <2>4, <2>5
<1>12. OneInMap' /\ ClosedIsOver' /\ SyncComes'
  BY ToldKeeps
<1>13. QED
  BY <1>6, <1>7, <1>8, <1>9, <1>10, <1>11, <1>12 DEF Follows

\* It is told of call c, and shows it.
LEMMA ToldAndShows ==
    ASSUME Following, IsTold, StillAsks, NEW c \in CallId, Head(toPage) \in Brings(c),
           page'.call.id = c, Live(page'.call), page'.terminal = page.terminal,
           NEW m, Sends(m)
    PROVE  Follows'
<1> DEFINE K == page.terminal \union {page.call.id}
<1>1. InMap' = InMap /\ Lost' = Lost /\ UNCHANGED <<socketOpen, session, finishing>>
  BY LostDoes DEF IsTold
<1>2. /\ \A A : /\ Has(toPage', A) => Has(toPage, A)
                /\ Has(toPage, A) => Head(toPage) \in A \/ Has(toPage', A)
                /\ Head(toPage) \in A => Has(toPage, A)
      /\ \A d \in CallId : d \in K /\ Head(toPage) \notin Brings(d) =>
            d \notin InMap /\ ~Has(toPage', Brings(d))
      /\ \A d \in Lost : Head(toPage) \in Brings(d) =>
            d \in page.terminal \/ Has(toPage', Closes(d))
      /\ socketOpen /\ toPage \in Seq(Event) /\ toPage # <<>> /\ toPage' = Tail(toPage)
  BY HeadTells DEF IsTold
<1>3. \A A : Has(toBackend', A) <=> Has(toBackend, A) \/ Has(m, A)
  BY SentHas DEF Sends
<1>4. None \notin CallId /\ InMap \subseteq CallId /\ Lost \subseteq CallId
  BY IncomingIsCall DEF InMap, Lost
<1>5. \A d : Head(toPage) \in Brings(d) => d = c
  BY DEF Brings
<1>6. c \notin page.terminal
  <2>1. CallIsSound(page', tasks')
    BY DEF Following, Orderly, EndedInv
  <2>2. QED
    BY <2>1 DEF CallIsSound
<1>7. \A d : Shows(d)' <=> d = c
  BY DEF Shows
<1>8. InOrder(toPage', page'.terminal \union {page'.call.id}, InMap')
  <2>1. InOrder(toPage, K, InMap)
    BY DEF Following, Follows
  <2>2. \A d \in CallId : d \in page'.terminal \union {page'.call.id} => d \in K \/ Head(toPage) \in Brings(d)
    OBVIOUS
  <2> HIDE DEF K
  <2>3. QED
    BY <1>1, <1>2, <2>1, <2>2, TailInOrder
<1>9. EndsFollow(toPage', Lost', page'.terminal)
  <2>1. EndsFollow(toPage, Lost, page.terminal)
    BY DEF Following, Follows
  <2>2. QED
    BY <1>1, <1>2, <2>1, TailEndsFollow
<1>10. LeftIsOver'
  <2>1. SUFFICES ASSUME NEW d \in page'.terminal, page'.call.id \notin {None, d}
                 PROVE  d \notin InMap /\ ~Has(toPage', Brings(d))
    BY <1>1 DEF LeftIsOver
  <2>2. d \in K /\ d # c /\ d \in CallId
    BY <2>1, SameNow
  <2>3. QED
    BY <1>2, <1>5, <2>2
<1>11. MapIsShown'
  <2>1. SUFFICES ASSUME NEW d \in InMap, finishing[d] = "no", d # c
                 PROVE  \/ Has(toBackend', {Msg("end", d), Msg("reject", d), Msg("sync", None)})
                        \/ Has(toPage', Brings(d))
    BY <1>1, <1>7 DEF MapIsShown
  <2>2. d \in CallId /\ Head(toPage) \notin Brings(d)
    BY <1>4, <1>5, <2>1
  <2>3. d \notin K
    BY <1>2, <2>2
  <2>4. ~Shows(d)
    BY <2>3 DEF Shows
  <2>5. \/ Has(toBackend, {Msg("end", d), Msg("reject", d), Msg("sync", None)})
        \/ Has(toPage, Brings(d))
    BY <1>2, <2>1, <2>4 DEF Following, Follows, MapIsShown
  <2>6. QED
    BY <1>2, <1>3, <2>2, <2>5
<1>12. ShownIsInMap'
  BY <1>1, <1>2, <1>6, <1>7 DEF ShownIsInMap
<1>13. RefusalFits'
  <2>1. SUFFICES ASSUME NEW d \in CallId
                 PROVE  /\ Has(toBackend', {Msg("accept", d), Msg("reject", d)}) =>
                              d \in IncomingCall /\ session[d] # "active"
                        /\ Has(toBackend', {Msg("reject", d)}) =>
                              /\ ~Shows(d)'
                              /\ \/ d \in page'.terminal
                                 \/ SyncAck \notin tasks' /\ ~Has(toPage', Brings(d))
    BY <1>1, <1>2 DEF RefusalFits
  <2>2. /\ Has(toBackend, {Msg("accept", d), Msg("reject", d)}) =>
              d \in IncomingCall /\ session[d] # "active"
        /\ Has(toBackend, {Msg("reject", d)}) =>
              d \in page.terminal \/ (SyncAck \notin tasks /\ ~Has(toPage, Brings(d)))
    BY DEF Following, Follows, RefusalFits
  <2>3. /\ Has(m, {Msg("accept", d), Msg("reject", d)}) => d \in IncomingCall /\ session[d] # "active"
        /\ Has(m, {Msg("reject", d)}) => d \in page.terminal
    BY DEF Sends
  <2>4. SyncAck \notin tasks => SyncAck \notin tasks'
    BY DEF StillAsks
  <2>5. Has(toPage, Brings(c))
    BY <1>2
  <2>6. QED
    BY <1>2, <1>3, <1>6, <1>7, <2>2, <2>3, <2>4, <2>5
<1>14. OneInMap' /\ ClosedIsOver' /\ SyncComes'
  BY ToldKeeps DEF Sends
<1>15. QED
  BY <1>8, <1>9, <1>10, <1>11, <1>12, <1>13, <1>14 DEF Follows

-----------------------------------------------------------------------------

LEMMA OnIncomingFollows ==
    ASSUME Following, IsTold, NEW c \in IncomingCall, Head(toPage) = Msg("incoming", c),
           OnIncoming(c)
    PROVE  Follows'
<1> DEFINE showing == [id |-> c, status |-> "incoming"]
           p == [page EXCEPT !.call = showing]
           e == Msg("reject", c)
           m == <<e>>
<1>0. page \in ClientPage /\ page.call.id \in CallId \union {None} /\ Orderly
      /\ page.terminal \subseteq CallId
  BY SameNow
<1>1. /\ socketOpen /\ toPage \in Seq(Event) /\ toPage # <<>> /\ toPage' = Tail(toPage)
      /\ \A A : Head(toPage) \in A => Has(toPage, A)
      /\ UNCHANGED <<socketOpen, session, finishing>>
  BY HeadTells DEF IsTold
<1>2. /\ c \in CallId /\ c # None /\ Head(toPage) \in Brings(c)
      /\ \A d \in CallId : Head(toPage) \in Brings(d) => d = c
      /\ Head(toPage) \notin Answers(SyncAck)
  BY IncomingIsCall DEF Brings, States, Answers, SyncAck, Msg, Event
<1>3. CASE page.call # NoCall
  <2>1. Move(page, tasks, m)
    BY <1>3 DEF OnIncoming
  <2>2. page' = page /\ tasks' = tasks /\ toBackend' = toBackend \o m /\ ~Overtakes(page, tasks, m)
    BY <1>0, <2>1, MoveDoes DEF Orderly
  <2>3. StillAsks
    BY <1>2, <2>2 DEF StillAsks
  <2>4. e \in Packet
    BY <1>2 DEF Msg, Packet
  <2>5. m \in Seq(Packet) /\ \A A : Has(m, A) <=> e \in A
    <3> HIDE DEF e
    <3> QED BY <2>4, OneHas
  <2>6. /\ e \notin AskSync /\ \A d : e # Msg("accept", d)
        /\ \A d : e = Msg("reject", d) => d = c
    BY DEF Msg, AskSync
\* The ring was the first that the page heard of it.
  <2>7. c \notin Known /\ \A i \in DOMAIN toPage : i > 1 /\ toPage[i].kind \in News => toPage[i].call # c
    <3>1. /\ 1 \in DOMAIN toPage /\ Head(toPage) = toPage[1] /\ \A i \in DOMAIN toPage : i \in Nat
      BY <1>1, TailDoes
    <3>2. Head(toPage).kind \in News /\ Head(toPage).call = c
      BY DEF Msg, News
    <3>3. NewsIsNew
      BY <1>0 DEF Orderly, EndedInv
    <3>4. c \notin Known
      BY <3>1, <3>2, <3>3 DEF NewsIsNew
    <3>5. ASSUME NEW i \in DOMAIN toPage, i > 1, toPage[i].kind \in News PROVE toPage[i].call # c
      <4>1. 1 \in 1 .. i - 1
        BY <3>1, <3>5
      <4>2. toPage[1].call # toPage[i].call
        BY <3>3, <3>5, <4>1 DEF NewsIsNew
      <4>3. QED
        BY <3>1, <3>2, <4>2
    <3>6. QED
      BY <3>4, <3>5
  <2>8. c \notin page.terminal /\ page.call.id # c
    BY <1>2, <2>7 DEF Known, KnownOf
  <2>9. SyncAck \notin tasks
    <3>1. SyncAck \in tasks => \E x \in tasks : x.kind = "sync" /\ x.at = "ack"
      BY DEF SyncAck
    <3>2. c \in CallId \ page.terminal
      BY <1>2, <2>8
    <3>3. QED
      BY <2>2, <3>1, <3>2 DEF Overtakes
  <2>10. ~Has(toPage, Answers(SyncAck))
    BY <1>0, <2>9, AckTasks DEF Orderly, MicHolds, IsAwaited
  <2>11. ~Has(toPage', Brings(c))
    <3> SUFFICES ASSUME NEW i \in DOMAIN toPage', toPage'[i] \in Brings(c) PROVE FALSE
      BY DEF Has
    <3>1. i + 1 \in DOMAIN toPage /\ i + 1 > 1 /\ toPage'[i] = toPage[i + 1]
      BY <1>1, TailDoes
    <3>2. toPage[i + 1] \notin Answers(SyncAck)
      BY <2>10, <3>1 DEF Has
    <3>3. toPage[i + 1].kind \in News /\ toPage[i + 1].call = c
      BY <3>1, <3>2 DEF Brings, States, Answers, SyncAck, News
    <3>4. QED
      BY <2>7, <3>1, <3>3
  <2>12. session[c] # "active"
    <3>1. Has(toPage, {Msg("incoming", c)})
      BY <1>1
    <3>2. RingsAt(page, tasks, toPage, c)
      BY <3>1 DEF RingsAt, Has
    <3>3. QED
      BY <1>0, <3>2 DEF Orderly, MicHolds, TakenIsSilent, Took
  <2>13. ~Shows(c)'
    BY <2>2, <2>8 DEF Shows
  <2> HIDE DEF e, m
  <2>14. \A d \in CallId :
            /\ ~Has(m, {Msg("accept", d)})
            /\ Has(m, {Msg("reject", d)}) =>
                  /\ d \in IncomingCall /\ session[d] # "active" /\ ~Shows(d)'
                  /\ SyncAck \notin tasks' /\ ~Has(toPage', Brings(d))
            /\ Head(toPage) \in Brings(d) => Has(m, {Msg("end", d), Msg("reject", d)})
            /\ Head(toPage) \in Answers(SyncAck) => ~Shows(d)'
    BY <1>2, <2>2, <2>5, <2>6, <2>9, <2>11, <2>12, <2>13 DEF e
  <2>15. ~Has(m, AskSync)
    BY <2>5, <2>6
  <2>16. QED
    BY <2>2, <2>3, <2>5, <2>14, <2>15, ToldInVain
<1>4. CASE page.call = NoCall
  <2>1. Move(p, tasks, <<>>)
    BY <1>4 DEF OnIncoming
  <2>2. showing.id = c /\ Live(showing)
    BY DEF Live, Over
  <2> HIDE DEF showing
  <2>3. p.call = showing /\ p.terminal = page.terminal /\ p.socketTimer = page.socketTimer
    BY <1>0 DEF ClientPage
  <2> HIDE DEF p
  <2>4. page' = p /\ tasks' = tasks /\ toBackend' = toBackend \o <<>>
    BY <2>1 DEF Move
  <2>5. StillAsks /\ Sends(<<>>)
    BY <1>2, <2>3, <2>4, HarmlessSends, EmptyIsHarmless DEF StillAsks
  <2>6. QED
    BY <1>2, <2>2, <2>3, <2>4, <2>5, ToldAndShows
<1>5. QED
  BY <1>3, <1>4

\* A packet call:end is harmless, and tells the gateway.
LEMMA EndSends ==
    ASSUME NEW c \in CallId
    PROVE  LET m == <<Msg("end", c)>>
           IN /\ m \in Seq(Packet) /\ ~Has(m, AskSync)
              /\ \A d : ~Has(m, {Msg("accept", d)}) /\ ~Has(m, {Msg("reject", d)})
              /\ Has(m, {Msg("end", c), Msg("reject", c)})
<1> DEFINE e == Msg("end", c)
           m == <<e>>
<1>1. e \in Packet /\ e \notin AskSync /\ \A d : e # Msg("accept", d) /\ e # Msg("reject", d)
  BY DEF Msg, Packet, AskSync
<1>2. m \in Seq(Packet) /\ \A A : Has(m, A) <=> e \in A
  <2> HIDE DEF e
  <2> QED BY <1>1, OneHas
<1>3. e \in {Msg("end", c), Msg("reject", c)}
  OBVIOUS
<1> HIDE DEF e
<1>4. QED
  <2> HIDE DEF m
  <2>1. /\ m \in Seq(Packet) /\ ~Has(m, AskSync)
        /\ \A d : ~Has(m, {Msg("accept", d)}) /\ ~Has(m, {Msg("reject", d)})
        /\ Has(m, {Msg("end", c), Msg("reject", c)})
    BY <1>1, <1>2, <1>3
  <2>2. QED
    BY <2>1 DEF m, e

LEMMA OnStartedFollows ==
    ASSUME Following, IsTold, NEW c \in OutgoingCall, Head(toPage) = Msg("startOk", c),
           StartAck \in tasks, OnStarted(c)
    PROVE  Follows'
<1> DEFINE showing == [id |-> c, status |-> "calling"]
           p == [page EXCEPT !.call = showing]
           t == tasks \ {StartAck}
           m == <<Msg("end", c)>>
<1>0. page \in ClientPage /\ page.call.id \in CallId \union {None} /\ Orderly
      /\ tasks \in SUBSET Task
  BY SameNow
<1>1. Waiting("start") = StartAck
  BY <1>0, StartWaits
<1>2. /\ c \in CallId /\ c # None /\ Head(toPage) \in Brings(c)
      /\ \A d \in CallId : Head(toPage) \in Brings(d) => d = c
      /\ Head(toPage) \notin Answers(SyncAck)
  BY CallClientConstants DEF CallId, Brings, States, Answers, SyncAck, Msg, Event
<1>3. SyncAck \in t <=> SyncAck \in tasks
  <2>1. SyncAck # StartAck
    BY DEF SyncAck, StartAck
  <2>2. QED
    BY <2>1
<1>4. CASE page.call = NoCall
  <2>1. Move(page, t, m)
    BY <1>1, <1>4 DEF OnStarted
  <2> HIDE DEF t
  <2>2. page' = page /\ tasks' = t /\ toBackend' = toBackend \o m
    BY <2>1 DEF Move
  <2>3. StillAsks
    BY <1>2, <1>3, <2>2 DEF StillAsks
  <2>4. /\ m \in Seq(Packet) /\ ~Has(m, AskSync)
        /\ \A d : ~Has(m, {Msg("accept", d)}) /\ ~Has(m, {Msg("reject", d)})
        /\ Has(m, {Msg("end", c), Msg("reject", c)})
    BY <1>2, EndSends
  <2> HIDE DEF m
  <2>5. QED
    BY <1>2, <2>2, <2>3, <2>4, ToldInVain
<1>5. CASE page.call # NoCall
  <2>1. Move(p, t, <<>>)
    BY <1>1, <1>5 DEF OnStarted
  <2>2. showing.id = c /\ Live(showing)
    BY DEF Live, Over
  <2> HIDE DEF showing, t
  <2>3. p.call = showing /\ p.terminal = page.terminal /\ p.socketTimer = page.socketTimer
    BY <1>0 DEF ClientPage
  <2> HIDE DEF p
  <2>4. page' = p /\ tasks' = t /\ toBackend' = toBackend \o <<>>
    BY <2>1 DEF Move
  <2>5. StillAsks /\ Sends(<<>>)
    BY <1>2, <1>3, <2>3, <2>4, HarmlessSends, EmptyIsHarmless DEF StillAsks
  <2>6. QED
    BY <1>2, <2>2, <2>3, <2>4, <2>5, ToldAndShows
<1>6. QED
  BY <1>4, <1>5

LEMMA OnSyncedNoneFollows ==
    ASSUME Following, IsTold, Head(toPage).kind = "syncedNone", SyncAck \in tasks, OnSyncedNone
    PROVE  Follows'
<1> DEFINE p == [page EXCEPT !.socketTimer = FALSE]
           t == tasks \ {SyncAck}
<1>0. page \in ClientPage /\ tasks \in SUBSET Task
  BY SameNow
<1>1. Waiting("sync") = SyncAck
  BY <1>0, SyncWaits
<1>2. p \in ClientPage /\ p.call = page.call /\ p.terminal = page.terminal /\ p.socketTimer = FALSE
  BY <1>0 DEF ClientPage
<1>3. \/ Move(Finished(p, "ended"), t, <<>>)
      \/ ~Live(p.call) /\ Move(p, t, <<>>)
  BY <1>1 DEF OnSyncedNone
<1>4. \A d \in CallId : Head(toPage) \notin Brings(d)
  BY IncomingIsCall DEF IsTold, Brings, States, Event
<1>5. SyncAck \notin t
  OBVIOUS
<1> HIDE DEF p, t
<1>6. tasks' = t /\ toBackend' = toBackend \o <<>>
  BY <1>3 DEF Move
<1>7. /\ page'.call.id = page.call.id /\ Over(page'.call) /\ page'.socketTimer = FALSE
      /\ page.terminal \subseteq page'.terminal
      /\ page'.terminal \subseteq page.terminal \union {page.call.id}
  <2>1. CASE Move(Finished(p, "ended"), t, <<>>)
    <3>1. page' = Finished(p, "ended")
      BY <2>1 DEF Move
    <3>2. QED
      BY <1>2, <3>1, FinishedDoes, FinishedAlso
  <2>2. CASE ~Live(p.call) /\ Move(p, t, <<>>)
    <3>1. page' = p
      BY <2>2 DEF Move
    <3>2. QED
      BY <1>2, <2>2, <3>1 DEF Live
  <2>3. QED
    BY <1>3, <2>1, <2>2
<1>8. StillAsks
  BY <1>5, <1>6, <1>7 DEF StillAsks
<1>9. <<>> \in Seq(Packet) /\ \A A : ~Has(<<>>, A)
  BY DEF Has
<1>10. ~Live(page'.call) /\ \A d \in CallId : ~Shows(d)'
  BY <1>7 DEF Shows, Live
<1>11. QED
  BY <1>4, <1>6, <1>7, <1>8, <1>9, <1>10, ToldInVain

\* The gateway knows of c: the page shows it from now on, or has left it.
LEMMA OnSyncedFollows ==
    ASSUME Following, IsTold, SyncAck \in tasks, Head(toPage) \in Answers(SyncAck),
           NEW c \in CallId, NEW on \in BOOLEAN, Head(toPage) \in Brings(c), OnSynced(c, on)
    PROVE  Follows'
<1> DEFINE t == tasks \ {SyncAck}
           p == [page EXCEPT !.socketTimer = FALSE]
           q == IF p.call.id \notin {None, c} THEN Released(p) ELSE p
           status == IF ~on THEN IF c \in IncomingCall THEN "incoming" ELSE "calling"
                     ELSE IF q.conn = "connected" THEN "active" ELSE "reconnecting"
           showing == [id |-> c, status |-> status]
           r == [q EXCEPT !.call = showing]
           x == [kind |-> IF on THEN "restore" ELSE "sync", at |-> "mic", call |-> c]
           m == <<Msg("end", c)>>
<1>0. page \in ClientPage /\ tasks \in SUBSET Task /\ CallIsSound(page, tasks)
  BY SameNow
<1>1. Waiting("sync") = SyncAck
  BY <1>0, SyncWaits
<1>2. \/ c \in p.terminal /\ Move(p, t, m)
      \/ Move(r, t \union {x}, <<>>)
      \/ AfterSync(r, t, c)
      \/ Move(r, t, <<>>)
  BY <1>1 DEF OnSynced
<1>3. SyncAck \notin t /\ SyncAck \notin t \union {x}
  BY DEF SyncAck
<1>4. /\ p \in ClientPage /\ p.call = page.call /\ p.terminal = page.terminal
      /\ p.socketTimer = FALSE
  BY <1>0 DEF ClientPage
<1>5. \A d : Head(toPage) \in Brings(d) => d = c
  BY DEF Brings
<1> HIDE DEF p, t, x
<1>6. CASE c \in p.terminal /\ Move(p, t, m)
  <2>1. page' = p /\ tasks' = t /\ toBackend' = toBackend \o m
    BY <1>6 DEF Move
  <2>2. StillAsks
    BY <1>3, <1>4, <2>1 DEF StillAsks
  <2>3. /\ m \in Seq(Packet) /\ ~Has(m, AskSync)
        /\ \A d : ~Has(m, {Msg("accept", d)}) /\ ~Has(m, {Msg("reject", d)})
        /\ Has(m, {Msg("end", c), Msg("reject", c)})
    BY EndSends
\* A page that shows another call is not told of one that it has left.
  <2>4. ASSUME NEW d \in CallId, Shows(d)' PROVE FALSE
    <3>1. Live(page.call) /\ page.call.id = d /\ c \in page.terminal
      BY <1>4, <1>6, <2>1, <2>4 DEF Shows
    <3>2. c # d
      BY <1>0, <3>1 DEF CallIsSound
    <3>3. d # None
      BY IncomingIsCall
    <3>4. ~Has(toPage, Brings(c))
      BY <3>1, <3>2, <3>3 DEF Following, Follows, LeftIsOver
    <3>5. QED
      BY <3>4, HeadTells
  <2> HIDE DEF m
  <2>5. QED
    BY <1>4, <1>5, <2>1, <2>2, <2>3, <2>4, ToldInVain
<1>7. CASE ~(c \in p.terminal /\ Move(p, t, m))
  <2>1. q \in ClientPage /\ q.terminal = page.terminal /\ q.socketTimer = FALSE
    <3>1. Released(p) \in ClientPage /\ Released(p).terminal = p.terminal
      BY <1>4, ReleasedDoes DEF SameCall
    <3>2. Released(p).socketTimer = p.socketTimer
      <4> DEFINE n == IF p.mic THEN p.streams - 1 ELSE p.streams
      <4>1. Released(p) = [p EXCEPT !.conn = "none", !.offered = FALSE, !.sending = FALSE,
                                    !.peerTimer = FALSE, !.mic = FALSE, !.streams = n]
        BY <1>4 DEF Released, ClientPage
      <4> HIDE DEF n
      <4>2. QED
        BY <1>4, <4>1 DEF ClientPage
    <3>3. QED
      BY <1>4, <3>1, <3>2
  <2>2. status \in {"incoming", "calling", "active", "reconnecting"}
        /\ (status = "incoming" => c \in IncomingCall)
    OBVIOUS
  <2> HIDE DEF q, status
  <2>3. showing \in Call /\ showing.id = c /\ Live(showing)
    BY <2>2 DEF Call, Status, Live, Over
  <2> HIDE DEF showing
  <2>4. r \in ClientPage /\ r.call = showing /\ r.terminal = page.terminal /\ r.socketTimer = FALSE
    BY <2>1, <2>3 DEF ClientPage
  <2> HIDE DEF r
  <2>5. ASSUME NEW n, NEW u, NEW k, Same(r, n), Harmless(k), Move(n, u, k), SyncAck \notin u
        PROVE  Follows'
    <3>1. page' = n /\ tasks' = u /\ toBackend' = toBackend \o k
      BY <2>5 DEF Move
    <3>2. n.call = showing /\ n.terminal = page.terminal /\ n.socketTimer = FALSE
      BY <2>4, <2>5 DEF Same, SameCall
    <3>3. StillAsks /\ Sends(k)
      BY <2>5, <3>1, <3>2, HarmlessSends DEF StillAsks
    <3>4. QED
      BY <2>3, <3>1, <3>2, <3>3, ToldAndShows
  <2>6. Same(r, r)
    BY <2>4 DEF Same, SameCall
  <2>7. CASE AfterSync(r, t, c)
    <3>1. PICK n, k : Same(r, n) /\ Harmless(k) /\ Move(n, t, k)
      BY <2>4, <2>7, AfterSyncSends
    <3>2. QED
      BY <1>3, <2>5, <3>1
  <2>8. CASE Move(r, t \union {x}, <<>>)
    BY <1>3, <2>5, <2>6, <2>8, EmptyIsHarmless
  <2>9. CASE Move(r, t, <<>>)
    BY <1>3, <2>5, <2>6, <2>9, EmptyIsHarmless
  <2>10. QED
    BY <1>2, <1>7, <2>7, <2>8, <2>9
<1>8. QED
  BY <1>6, <1>7

LEMMA HandleEventFollows ==
    ASSUME Following, HandleEvent
    PROVE  Follows'
<1> DEFINE e == Head(toPage)
           c == e.call
<1>0. Orderly
  BY SameNow
<1>1. /\ e \in Event
      /\ \A x \in AckTask : e \in Answers(x) => x \in tasks
      /\ e.kind \in {"incoming", "offer", "dismissed"} => c \in IncomingCall
      /\ e.kind \in {"accepted", "answer", "recovery", "startOk", "rejected"} => c \in OutgoingCall
  BY <1>0, NextEvent
<1>2. /\ UNCHANGED <<socketOpen, session, finishing>>
      /\ toPage # <<>> /\ toPage' = Tail(toPage)
  BY DEF HandleEvent, backend
<1>3. ASSUME NEW k, e.kind = k PROVE e = Msg(k, c)
  BY <1>1, <1>3 DEF Event, Msg
<1>4. /\ e.kind \in {"startFailed", "syncedNone", "incoming", "accepted", "rejected", "ended",
                     "dismissed", "recovery", "offer", "answer", "startOk", "acceptOk",
                     "acceptFailed", "syncedRinging", "syncedActive"}
      /\ e.kind \notin {"startFailed", "syncedNone"} => c \in CallId
  BY <1>1 DEF Event
<1>5. e.kind \in {"startOk", "startFailed"} => StartAck \in tasks
  BY <1>1, StartedIsDone, AckTasks
<1>6. e.kind \in {"syncedNone", "syncedRinging", "syncedActive"} =>
         SyncAck \in tasks /\ e \in Answers(SyncAck)
  BY <1>1, SyncedIsDone, AckTasks
<1>7. e.kind \in {"acceptOk", "acceptFailed"} => AcceptAck(c) \in tasks
  BY <1>1, <1>4, AcceptedIsDone, AckTasks
<1>8. e.kind \in {"incoming", "startOk", "syncedNone", "syncedRinging", "syncedActive"} => IsTold
  BY <1>1, <1>2 DEF IsTold, States
<1>9. e.kind \in {"accepted", "offer", "answer", "recovery", "startFailed", "acceptOk"} => Handles
  BY <1>2, QuietHandles
<1>10. e.kind \in {"ended", "rejected", "dismissed", "acceptFailed"} => ClosesHere(c)
  BY <1>1, <1>2 DEF ClosesHere, Closes
<1>11. /\ OutgoingCall \subseteq CallId /\ IncomingCall \subseteq CallId
  BY DEF CallId
<1>12. CASE e.kind = "startFailed"
  <2>1. Fail(page, tasks \ {Waiting("start")})
    BY <1>12 DEF HandleEvent
  <2>2. QED
    BY <1>2, <1>5, <1>9, <1>12, <2>1, StartFailedFollows
<1>13. CASE e.kind = "syncedNone"
  <2>1. OnSyncedNone
    BY <1>13 DEF HandleEvent
  <2>2. QED
    BY <1>6, <1>8, <1>13, <2>1, OnSyncedNoneFollows
<1>14. CASE e.kind = "incoming"
  <2>1. OnIncoming(c) /\ e = Msg("incoming", c)
    BY <1>3, <1>14 DEF HandleEvent
  <2>2. QED
    BY <1>1, <1>8, <1>14, <2>1, OnIncomingFollows
<1>15. CASE e.kind = "accepted"
  <2>1. OnAccepted(c)
    BY <1>15 DEF HandleEvent
  <2>2. QED
    BY <1>1, <1>2, <1>9, <1>15, <2>1, OnAcceptedFollows
<1>16. CASE e.kind \in {"rejected", "ended"}
  <2>1. OnEnded(c)
    BY <1>16 DEF HandleEvent
  <2>2. QED
    BY <1>4, <1>10, <1>16, <2>1, OnEndedFollows
<1>17. CASE e.kind = "dismissed"
  <2>1. OnDismissed(c)
    BY <1>17 DEF HandleEvent
  <2>2. QED
    BY <1>4, <1>10, <1>17, <2>1, OnDismissedFollows
<1>18. CASE e.kind = "recovery"
  <2>1. OnRecoveryNeeded(c)
    BY <1>18 DEF HandleEvent
  <2>2. QED
    BY <1>2, <1>4, <1>9, <1>18, <2>1, OnRecoveryNeededFollows
<1>19. CASE e.kind = "offer"
  <2>1. OnOffer(c)
    BY <1>19 DEF HandleEvent
  <2>2. QED
    BY <1>2, <1>4, <1>9, <1>19, <2>1, OnOfferFollows
<1>20. CASE e.kind = "answer"
  <2>1. OnAnswer(c)
    BY <1>20 DEF HandleEvent
  <2>2. QED
    BY <1>2, <1>4, <1>9, <1>20, <2>1, OnAnswerFollows
<1>21. CASE e.kind = "startOk"
  <2>1. OnStarted(c) /\ e = Msg("startOk", c)
    BY <1>3, <1>21 DEF HandleEvent
  <2>2. QED
    BY <1>1, <1>5, <1>8, <1>21, <2>1, OnStartedFollows
<1>22. CASE e.kind = "acceptOk"
  <2>1. OnAcceptDone(c, TRUE)
    <3>1. OnAcceptDone(c, e.kind = "acceptOk")
      BY <1>22 DEF HandleEvent
    <3>2. (e.kind = "acceptOk") = TRUE
      BY <1>22
    <3>3. QED
      BY <3>1, <3>2
  <2>2. QED
    BY <1>2, <1>4, <1>7, <1>9, <1>22, <2>1, OnAcceptedHereFollows
<1>23. CASE e.kind = "acceptFailed"
  <2>1. OnAcceptDone(c, FALSE)
    <3>1. OnAcceptDone(c, e.kind = "acceptOk")
      BY <1>23 DEF HandleEvent
    <3>2. (e.kind = "acceptOk") = FALSE
      BY <1>23
    <3>3. QED
      BY <3>1, <3>2
  <2>2. QED
    BY <1>4, <1>7, <1>10, <1>23, <2>1, OnAcceptFailedFollows
<1>24. CASE e.kind \in {"syncedRinging", "syncedActive"}
  <2>1. OnSynced(c, FALSE) \/ OnSynced(c, TRUE)
    BY <1>24 DEF HandleEvent
  <2>2. e \in Brings(c)
    BY <1>1, <1>24 DEF Brings, States
  <2>3. QED
    BY <1>4, <1>6, <1>8, <1>24, <2>1, <2>2, OnSyncedFollows
<1> HIDE DEF c, e
<1>25. QED
  BY <1>4, <1>12, <1>13, <1>14, <1>15, <1>16, <1>17, <1>18, <1>19, <1>20, <1>21, <1>22,
     <1>23, <1>24

-----------------------------------------------------------------------------

LEMMA EmptyIsOrdered ==
    ASSUME NEW K, NEW I
    PROVE  InOrder(<<>>, K, I) /\ EndsFollow(<<>>, I, K)
BY DEF InOrder, EndsFollow

\* While the socket is closed, nothing is believed of the other side.
LEMMA OfflineFollows ==
    ASSUME Following, UNCHANGED <<session, finishing>>, ~socketOpen', toPage' = <<>>,
           \A A : Has(toBackend', A) => Has(toBackend, A),
           \A c \in CallId : ~Has(toBackend', {Msg("reject", c)}),
           SyncAck \notin tasks',
           Live(page'.call) =>
              /\ Live(page.call) /\ page'.call.id = page.call.id
              /\ page'.terminal = page.terminal
    PROVE  Follows'
<1>1. InMap' = InMap /\ Lost' = Lost
  BY LostDoes
<1>2. InOrder(toPage', page'.terminal \union {page'.call.id}, InMap')
      /\ EndsFollow(toPage', Lost', page'.terminal)
  BY EmptyIsOrdered
<1>3. ~Has(toPage', Brings(None)) /\ \A A : ~Has(toPage', A)
  BY DEF Has
<1>4. LeftIsOver'
  <2>1. SUFFICES ASSUME NEW d \in page'.terminal, Live(page'.call), page'.call.id \notin {None, d}
                 PROVE  d \notin InMap
    BY <1>1, <1>3 DEF LeftIsOver
  <2>2. QED
    BY <2>1 DEF Following, Follows, LeftIsOver
<1>5. MapIsShown' /\ ShownIsInMap' /\ ClosedIsOver' /\ SyncComes'
  BY <1>3 DEF MapIsShown, ShownIsInMap, ClosedIsOver, SyncComes
<1>6. OneInMap'
  BY <1>1 DEF Following, Follows, OneInMap
<1>7. RefusalFits'
  BY DEF Following, Follows, RefusalFits
<1>8. QED
  BY <1>2, <1>4, <1>5, <1>6, <1>7 DEF Follows

LEMMA SocketClosesFollows ==
    ASSUME Following, SocketCloses
    PROVE  Follows'
<1> DEFINE waiting == {x \in tasks : x.at = "ack"}
           showing == [page.call EXCEPT !.status = "reconnecting"]
           p == IF Over(page.call) THEN page
                ELSE [page EXCEPT !.call = showing, !.socketTimer = TRUE]
           s == page.terminal \union {x.call : x \in {y \in waiting : y.kind = "accept"}}
           q == [p EXCEPT !.terminal = s]
<1>0. /\ page \in ClientPage /\ tasks \in SUBSET Task /\ page.call \in Call
  BY SameNow
<1>1. ~Over(page.call) => showing \in Call /\ showing.id = page.call.id
  BY <1>0 DEF Call, Status, NoCall, Over
<1>2. /\ page' = (IF waiting = {} THEN p ELSE Finished(q, "failed")) /\ tasks' = tasks \ waiting
      /\ ~socketOpen' /\ toPage' = <<>> /\ toBackend' = <<>> /\ UNCHANGED <<session, finishing>>
  BY <1>0 DEF SocketCloses, ClientPage
<1> HIDE DEF showing
<1>3. /\ p \in ClientPage /\ p.terminal = page.terminal
      /\ p.call = (IF Over(page.call) THEN page.call ELSE showing)
  BY <1>0, <1>1 DEF ClientPage
<1> HIDE DEF p
<1>4. s \in SUBSET CallId
  BY <1>0 DEF ClientPage, Task
<1> HIDE DEF s
<1>5. q \in ClientPage
  BY <1>3, <1>4 DEF ClientPage
<1> HIDE DEF q
<1>6. SyncAck \notin tasks \ waiting
  BY DEF SyncAck
<1> HIDE DEF waiting
<1>7. Live(page'.call) =>
         /\ Live(page.call) /\ page'.call.id = page.call.id
         /\ page'.terminal = page.terminal
  <2>1. CASE page' = p
    BY <1>1, <1>3, <2>1 DEF Live
  <2>2. CASE page' = Finished(q, "failed")
    BY <1>5, <2>2, FinishedDoes DEF Live
  <2>3. QED
    BY <1>2, <2>1, <2>2
<1>8. \A A : ~Has(toBackend', A)
  BY <1>2 DEF Has
<1>9. QED
  BY <1>2, <1>6, <1>7, <1>8, OfflineFollows

LEMMA AckTimesOutFollows ==
    ASSUME Following, NEW x, AckTimesOut(x)
    PROVE  Follows'
<1> DEFINE s == page.terminal \union ({x.call} \ {None})
           p == [page EXCEPT !.terminal = s]
           f == Finished(p, "failed")
<1>0. /\ page \in ClientPage /\ tasks \in SUBSET Task
  BY SameNow
<1>1. s \in SUBSET CallId
  BY <1>0 DEF AckTimesOut, Task, ClientPage
<1>2. /\ page' = f /\ tasks' = tasks \ {x} /\ toBackend' = Withdrawn(Msg(x.kind, x.call))
      /\ ~socketOpen /\ UNCHANGED <<socketOpen, toPage, session, finishing>>
  BY <1>0 DEF AckTimesOut, ClientPage, backend
<1> HIDE DEF s
<1>3. p \in ClientPage
  BY <1>0, <1>1 DEF ClientPage
<1> HIDE DEF p
<1>4. Over(f.call)
  BY <1>3, FinishedDoes
<1> HIDE DEF f
<1>5. toPage' = <<>> /\ SyncAck \notin tasks' /\ toBackend \in Seq(Packet)
  BY <1>2 DEF Following, Orderly, MicHolds, SocketFits, EndedInv, ClientTypes
<1>6. \A A : Has(toBackend', A) => Has(toBackend, A)
  BY <1>2, <1>5, WithdrawnIsFewer DEF Fewer
<1>7. \A c \in CallId : ~Has(toBackend', {Msg("reject", c)})
  BY <1>2, <1>6 DEF Following, Follows, RefusalFits
<1>8. QED
  BY <1>2, <1>4, <1>5, <1>6, <1>7, OfflineFollows DEF Live

\* The page asks for its calls first of all.
LEMMA SocketOpensFollows ==
    ASSUME Following, SocketOpens
    PROVE  Follows'
<1> DEFINE e == Msg("sync", None)
           m == <<e>>
<1>1. /\ ~socketOpen /\ socketOpen' = TRUE /\ UNCHANGED <<toPage, session, finishing>>
      /\ SyncAck \in tasks'
  BY DEF SocketOpens, Move, backend, SyncAck
<1>2. page' = page /\ toBackend' = toBackend \o m
  BY DEF SocketOpens, Move
<1>3. InMap' = InMap /\ Lost' = Lost
  BY <1>1, LostDoes
<1>4. e \in Packet /\ e \in AskSync /\ \A c : e # Msg("accept", c) /\ e # Msg("reject", c)
  BY DEF Msg, Packet, AskSync
<1>5. m \in Seq(Packet) /\ \A A : Has(m, A) <=> e \in A
  <2> HIDE DEF e
  <2> QED BY <1>4, OneHas
<1> HIDE DEF e, m
<1>6. \A A : Has(toBackend', A) <=> Has(toBackend, A) \/ e \in A
  BY <1>2, <1>5, SentHas
<1>7. \A c \in CallId : ~Has(toBackend', {Msg("reject", c)})
  BY <1>1, <1>4, <1>6 DEF Following, Follows, RefusalFits
<1>8. Has(toBackend', {Msg("sync", None)})
  BY <1>4, <1>6 DEF AskSync
<1>9. \A c : Has(toBackend', {Msg("end", c), Msg("reject", c), Msg("sync", None)})
  BY <1>8 DEF Has
<1>10. MapIsShown' /\ ShownIsInMap' /\ SyncComes'
  BY <1>1, <1>8, <1>9 DEF MapIsShown, ShownIsInMap, SyncComes
<1>11. RefusalFits'
  <2>1. ASSUME NEW c \in CallId, Has(toBackend', {Msg("accept", c), Msg("reject", c)})
        PROVE  c \in IncomingCall /\ session[c] # "active"
    <3>1. e \notin {Msg("accept", c), Msg("reject", c)}
      BY <1>4
    <3>2. QED
      BY <1>6, <2>1, <3>1 DEF Following, Follows, RefusalFits
  <2>2. QED
    BY <1>1, <1>7, <2>1 DEF RefusalFits
<1>12. OneInMap' /\ LeftIsOver' /\ ClosedIsOver'
  BY <1>1, <1>2, <1>3 DEF Following, Follows, OneInMap, LeftIsOver, ClosedIsOver
<1>13. InOrder(toPage', page'.terminal \union {page'.call.id}, InMap')
       /\ EndsFollow(toPage', Lost', page'.terminal)
  BY <1>1, <1>2, <1>3 DEF Following, Follows
<1>14. QED
  BY <1>10, <1>11, <1>12, <1>13 DEF Follows

-----------------------------------------------------------------------------

LEMMA ConsumesHas ==
    ASSUME Following, NEW m, Consumes(m), NEW A
    PROVE  /\ Has(toBackend', A) => Has(toBackend, A)
           /\ Has(toBackend, A) => Has(toBackend', A) \/ (socketOpen /\ Head(toBackend) \in A)
<1>1. toBackend \in Seq(Packet)
  BY DEF Following, Orderly, EndedInv, ClientTypes
<1>2. CASE toBackend' = toBackend
  BY <1>2 DEF Has
<1>3. CASE toBackend # <<>> /\ toBackend' = Tail(toBackend) /\ socketOpen
  BY <1>1, <1>3, TailHas
<1>4. QED
  BY <1>2, <1>3 DEF Consumes

LEMMA EmitDoes ==
    ASSUME Following, NEW m \in Seq(Event), Emit(m)
    PROVE  /\ toPage \in Seq(Event)
           /\ ~socketOpen => toPage = <<>> /\ toPage' = <<>>
           /\ socketOpen => toPage' = toPage \o m
           /\ \A A : Has(toPage', A) <=> Has(toPage, A) \/ (socketOpen /\ Has(m, A))
<1>1. toPage \in Seq(Event)
  BY DEF Following, Orderly, EndedInv, ClientTypes
<1>2. ~socketOpen => toPage = <<>> /\ toPage' = <<>>
  BY DEF Following, Orderly, MicHolds, SocketFits, Emit
<1>3. CASE socketOpen
  BY <1>1, <1>2, <1>3, ConcatHas DEF Emit
<1>4. CASE ~socketOpen
  BY <1>1, <1>2, <1>4
<1>5. QED
  BY <1>3, <1>4

\* Nobody has spoken of a call that the gateway told nobody of.
LEMMA EarlyIsUnheard ==
    ASSUME Following, NEW c \in Early
    PROVE  /\ c \notin page.terminal \union {page.call.id} /\ c \notin InMap
           /\ ~Has(toPage, Brings(c)) /\ ~Has(toPage, Closes(c))
           /\ ~Has(toBackend, {Msg("accept", c), Msg("reject", c)})
           /\ ~Has(toBackend, {Msg("reject", c)}) /\ ~Has(toBackend, {Msg("end", c)})
<1>1. c \in CallId /\ c # None
  BY IncomingIsCall DEF Early
<1>2. c \notin Known /\ ~Mentions(toBackend, c) /\ ~Mentions(toPage, c)
  BY DEF Following, Orderly, EndedInv, EarlyIsUnknown
<1>3. c \notin page.terminal \union {page.call.id}
  BY <1>1, <1>2 DEF Known, KnownOf
<1>4. c \notin InMap
  BY DEF Early, InMap
<1>5. \A e \in Brings(c) \union Closes(c) : e.call = c
  BY DEF Brings, Closes
<1>6. \A k : Msg(k, c).call = c
  BY DEF Msg
<1>7. QED
  BY <1>2, <1>3, <1>4, <1>5, <1>6 DEF Has, Mentions

LEMMA ToldInOrder ==
    ASSUME Following, NEW m, GatewayTells(m)
    PROVE  InOrder(toPage', page'.terminal \union {page'.call.id}, InMap')
<1> DEFINE K == page.terminal \union {page.call.id}
<1>1. /\ toPage \in Seq(Event) /\ m \in Seq(Event) /\ page' = page
      /\ ~socketOpen => toPage' = <<>>
      /\ socketOpen => toPage' = toPage \o m
  BY EmitDoes DEF GatewayTells
<1>2. CASE ~socketOpen
  BY <1>1, <1>2, EmptyIsOrdered
<1>3. CASE socketOpen
  <2>1. InOrder(toPage, K, InMap)
    BY DEF Following, Follows
  <2>2. \A c \in CallId \intersect InMap' : c \in InMap \/ (c \notin K /\ ~Has(toPage, Brings(c)))
    BY EarlyIsUnheard DEF GatewayTells, CallFits
  <2>3. DOMAIN toPage = 1 .. Len(toPage) /\ Len(toPage) \in Nat
    BY <1>1
  <2> HIDE DEF K
  <2>4. InOrder(toPage, K, InMap')
    BY <2>1, <2>2, <2>3, MapInOrder
  <2>5. CASE ~Has(m, States)
    BY <1>1, <1>3, <2>4, <2>5, MoreInOrder DEF K
  <2>6. CASE \E e \in States : m = <<e>> /\ \A c \in CallId : c \in InMap' <=> c = e.call
    BY <1>1, <1>3, <2>4, <2>6, OneInOrder DEF K
  <2>7. QED
    BY <2>5, <2>6 DEF GatewayTells
<1>4. QED
  BY <1>2, <1>3

LEMMA ToldEndsFollow ==
    ASSUME Following, NEW m, GatewayTells(m)
    PROVE  EndsFollow(toPage', Lost', page'.terminal)
<1>1. /\ toPage \in Seq(Event) /\ m \in Seq(Event) /\ page' = page
      /\ ~socketOpen => toPage' = <<>>
      /\ socketOpen => toPage' = toPage \o m
  BY EmitDoes DEF GatewayTells
<1>2. CASE ~socketOpen
  BY <1>1, <1>2, EmptyIsOrdered DEF EndsFollow
<1>3. CASE socketOpen
  <2>1. EndsFollow(toPage, Lost, page.terminal)
    BY DEF Following, Follows
  <2>2. \A c \in CallId \intersect Lost' :
           /\ ~Has(m, Brings(c))
           /\ c \in Lost \/ c \in page.terminal \/ Has(m, Closes(c)) \/ ~Has(toPage, Brings(c))
    BY <1>3 DEF GatewayTells, CallFits
  <2>3. QED
    BY <1>1, <1>3, <2>1, <2>2, MoreEndsFollow
<1>4. QED
  BY <1>2, <1>3

LEMMA GatewayFollows ==
    ASSUME Following, NEW m, GatewayTells(m), Consumes(m)
    PROVE  Follows'
<1>1. /\ toPage \in Seq(Event) /\ m \in Seq(Event) /\ page' = page /\ tasks' = tasks
      /\ socketOpen' = socketOpen
      /\ \A A : Has(toPage', A) <=> Has(toPage, A) \/ (socketOpen /\ Has(m, A))
  BY EmitDoes DEF GatewayTells
<1>2. \A c \in CallId : CallFits(c, m)
  BY DEF GatewayTells
<1>3. ~Has(m, States) \/ \E e \in States : m = <<e>> /\ \A c \in CallId : c \in InMap' <=> c = e.call
  BY DEF GatewayTells
<1>4. InMap \subseteq CallId /\ InMap' \subseteq CallId /\ Lost' \subseteq CallId /\ None \notin CallId
  BY IncomingIsCall DEF InMap, Lost
<1>5. \A A : /\ Has(toBackend', A) => Has(toBackend, A)
             /\ Has(toBackend, A) => Has(toBackend', A) \/ (socketOpen /\ Head(toBackend) \in A)
  BY ConsumesHas
<1>6. OneInMap'
  BY DEF GatewayTells
<1>7. InOrder(toPage', page'.terminal \union {page'.call.id}, InMap')
  BY ToldInOrder
<1>8. EndsFollow(toPage', Lost', page'.terminal)
  BY ToldEndsFollow
<1>9. \A c \in CallId : Has(m, Brings(c)) => c \in InMap'
  <2>1. SUFFICES ASSUME NEW c \in CallId, Has(m, Brings(c)) PROVE c \in InMap'
    OBVIOUS
  <2>2. Has(m, States)
    BY <2>1, StatesDo DEF Has
  <2>3. PICK e \in States : m = <<e>> /\ \A d \in CallId : d \in InMap' <=> d = e.call
    BY <1>3, <2>2
  <2>4. e \in Brings(c)
    BY <2>1, <2>3, OneHas
  <2>5. QED
    BY <2>3, <2>4 DEF Brings
<1>10. ASSUME NEW c \in InMap', Has(m, Answers(SyncAck)) PROVE Has(m, Brings(c))
  <2>1. Has(m, States)
    BY <1>10, StatesDo DEF Has
  <2>2. PICK e \in States : m = <<e>> /\ \A d \in CallId : d \in InMap' <=> d = e.call
    BY <1>3, <2>1
  <2>3. e \in Brings(c)
    BY <1>4, <2>2 DEF Brings
  <2>4. QED
    BY <2>2, <2>3, OneHas
<1>11. ASSUME socketOpen, Has(toBackend, AskSync)
       PROVE  \/ Has(toBackend', AskSync)
              \/ Has(m, Answers(SyncAck)) /\ UNCHANGED <<session, finishing>>
  BY <1>5, <1>11 DEF Consumes
<1>12. LeftIsOver'
  <2>1. SUFFICES ASSUME NEW d \in page.terminal, Live(page.call), page.call.id \notin {None, d}
                 PROVE  d \notin InMap' /\ ~Has(toPage', Brings(d))
    BY <1>1 DEF LeftIsOver
  <2>2. d \notin InMap /\ ~Has(toPage, Brings(d))
    BY <2>1 DEF Following, Follows, LeftIsOver
  <2>3. d \notin Early
    BY EarlyIsUnheard
  <2>4. d \notin InMap'
    BY <1>2, <1>4, <2>2, <2>3 DEF CallFits
  <2>5. d \in CallId
    BY <2>1 DEF Following, Orderly, EndedInv, ClientTypes, ClientPage
  <2>6. QED
    BY <1>1, <1>9, <2>2, <2>4, <2>5
<1>13. MapIsShown'
  <2>1. SUFFICES ASSUME NEW c \in InMap', socketOpen, finishing'[c] = "no", ~Shows(c)
                 PROVE  \/ Has(toBackend', {Msg("end", c), Msg("reject", c), Msg("sync", None)})
                        \/ Has(toPage', Brings(c))
    BY <1>1 DEF MapIsShown, Shows
  <2>2. CASE c \notin InMap
    BY <1>1, <1>2, <1>4, <2>1, <2>2 DEF CallFits
  <2>3. CASE c \in InMap
    <3>1. finishing[c] = "no"
      BY <1>2, <1>4, <2>1 DEF CallFits
    <3>2. \/ Has(toBackend, {Msg("end", c), Msg("reject", c), Msg("sync", None)})
          \/ Has(toPage, Brings(c))
      BY <2>1, <2>3, <3>1 DEF Following, Follows, MapIsShown
    <3>3. CASE Has(toBackend, {Msg("end", c), Msg("reject", c)})
      <4>1. toBackend' = toBackend \/ Head(toBackend) \notin {Msg("end", c), Msg("reject", c)}
        BY <1>4, <2>1 DEF Consumes
      <4>2. Has(toBackend', {Msg("end", c), Msg("reject", c)})
        BY <1>5, <3>3, <4>1
      <4>3. QED
        BY <4>2 DEF Has
    <3>4. CASE Has(toBackend, AskSync)
      <4>1. CASE Has(toBackend', AskSync)
        BY <4>1 DEF Has, AskSync
      <4>2. CASE Has(m, Answers(SyncAck))
        BY <1>1, <1>10, <2>1, <4>2
      <4>3. QED
        BY <1>11, <2>1, <3>4, <4>1, <4>2
    <3>5. CASE Has(toPage, Brings(c))
      BY <1>1, <3>5
    <3>6. QED
      BY <3>2, <3>3, <3>4, <3>5 DEF Has, AskSync
  <2>4. QED
    BY <2>2, <2>3
<1>14. ShownIsInMap'
  <2>1. SUFFICES ASSUME NEW c \in Lost', Shows(c), socketOpen
                 PROVE  \/ Has(toPage', Closes(c)) \/ Has(toBackend', AskSync)
                        \/ Has(toPage', Answers(SyncAck) \ Brings(c))
    BY <1>1 DEF ShownIsInMap, Shows, AskSync
  <2>2. CASE c \notin Lost
    BY <1>1, <1>2, <1>4, <2>1, <2>2 DEF CallFits
  <2>3. CASE c \in Lost
    <3>1. \/ Has(toPage, Closes(c)) \/ Has(toBackend, AskSync)
          \/ Has(toPage, Answers(SyncAck) \ Brings(c))
      BY <2>1, <2>3 DEF Following, Follows, ShownIsInMap, AskSync
    <3>2. CASE Has(toBackend, AskSync) /\ Has(m, Answers(SyncAck))
      <4>1. ~Has(m, Brings(c))
        BY <1>2, <1>4, <2>1 DEF CallFits
      <4>2. Has(m, Answers(SyncAck) \ Brings(c))
        BY <3>2, <4>1 DEF Has
      <4>3. QED
        BY <1>1, <2>1, <4>2
    <3>3. QED
      BY <1>1, <1>11, <2>1, <3>1, <3>2
  <2>4. QED
    BY <2>2, <2>3
<1>15. ClosedIsOver'
  <2>1. SUFFICES ASSUME NEW c \in CallId, Has(toPage', Closes(c))
                 PROVE  c \notin InMap' \/ finishing'[c] # "no"
    BY DEF ClosedIsOver
  <2>2. CASE Has(toPage, Closes(c))
    <3>1. c \notin InMap \/ finishing[c] # "no"
      BY <2>2 DEF Following, Follows, ClosedIsOver
    <3>2. c \notin Early
      BY <2>2, EarlyIsUnheard
    <3>3. QED
      BY <1>2, <3>1, <3>2 DEF CallFits
  <2>3. CASE Has(m, Closes(c))
    BY <1>2, <2>3 DEF CallFits
  <2>4. QED
    BY <1>1, <2>1, <2>2, <2>3
<1>16. RefusalFits'
  <2>1. SUFFICES ASSUME NEW c \in CallId
                 PROVE  /\ Has(toBackend', {Msg("accept", c), Msg("reject", c)}) =>
                              c \in IncomingCall /\ session'[c] # "active"
                        /\ Has(toBackend', {Msg("reject", c)}) =>
                              /\ socketOpen /\ ~Shows(c)
                              /\ \/ c \in page.terminal
                                 \/ SyncAck \notin tasks /\ ~Has(toPage', Brings(c))
    BY <1>1 DEF RefusalFits, Shows
  <2>2. ASSUME Has(toBackend', {Msg("accept", c), Msg("reject", c)})
        PROVE  c \in IncomingCall /\ session'[c] # "active"
    BY <1>2, <1>5, <2>2 DEF Following, Follows, RefusalFits, CallFits
  <2>3. ASSUME Has(toBackend', {Msg("reject", c)})
        PROVE  /\ socketOpen /\ ~Shows(c)
               /\ c \in page.terminal \/ (SyncAck \notin tasks /\ ~Has(toPage', Brings(c)))
    <3>1. Has(toBackend, {Msg("reject", c)})
      BY <1>5, <2>3
    <3>2. /\ socketOpen /\ ~Shows(c)
          /\ c \in page.terminal \/ (SyncAck \notin tasks /\ ~Has(toPage, Brings(c)))
      BY <3>1 DEF Following, Follows, RefusalFits
    <3>3. c \notin Early
      BY <3>1, EarlyIsUnheard
    <3>4. QED
      BY <1>1, <1>2, <3>2, <3>3 DEF CallFits
  <2>4. QED
    BY <2>2, <2>3
<1>17. SyncComes'
  <2>1. SyncComes
    BY DEF Following, Follows
  <2>2. ASSUME SyncAck \in tasks PROVE socketOpen
    BY <2>2 DEF Following, Orderly, MicHolds, SocketFits
  <2>3. QED
    BY <1>1, <1>11, <2>1, <2>2 DEF SyncComes, AskSync
<1>18. QED
  BY <1>6, <1>7, <1>8, <1>12, <1>13, <1>14, <1>15, <1>16, <1>17 DEF Follows

\* A call that the step does nothing to.
LEMMA UntouchedFits ==
    ASSUME Following, NEW m, Consumes(m), NEW c \in CallId,
           session'[c] = session[c], finishing'[c] = finishing[c],
           ~Has(m, Closes(c)),
           Has(m, Brings(c)) => c \in InMap /\ finishing[c] # "reject" /\ SyncAck \in tasks
    PROVE  CallFits(c, m)
<1>1. (c \in InMap' <=> c \in InMap) /\ (c \in Lost' <=> c \in Lost)
  BY DEF InMap, Lost
<1>2. Has(toBackend', {Msg("accept", c), Msg("reject", c)}) => session[c] # "active"
  BY ConsumesHas DEF Following, Follows, RefusalFits
<1>3. Has(m, Brings(c)) => c \notin Lost
  BY DEF Lost
<1>4. QED
  BY <1>1, <1>2, <1>3 DEF CallFits

\* What the gateway tells of one call, or of none.
LEMMA TellsOne ==
    ASSUME NEW k, NEW c, Msg(k, c) \in Event
    PROVE  /\ <<Msg(k, c)>> \in Seq(Event)
           /\ Has(<<Msg(k, c)>>, States) <=>
                 k \in {"incoming", "startOk", "syncedNone", "syncedRinging", "syncedActive"}
           /\ \A d \in CallId :
                 /\ Has(<<Msg(k, c)>>, Closes(d)) <=>
                       k \in {"ended", "rejected", "dismissed", "acceptFailed"} /\ c = d
                 /\ Has(<<Msg(k, c)>>, Brings(d)) <=> Msg(k, c) \in States /\ c = d
<1>1. <<Msg(k, c)>> \in Seq(Event) /\ \A A : Has(<<Msg(k, c)>>, A) <=> Msg(k, c) \in A
  BY OneTold
<1>2. Msg(k, c).kind = k /\ Msg(k, c).call = c
  BY DEF Msg
<1>3. QED
  BY <1>1, <1>2 DEF States, Closes, Brings

\* A call that is over, and was told to be so.
LEMMA NothingTold ==
    /\ <<>> \in Seq(Event) /\ \A A : ~Has(<<>>, A)
BY DEF Has

\* A step that is about call c, which it brings into no map.
LEMMA AboutOneFollows ==
    ASSUME Following, NEW m, Consumes(m), NEW c \in CallId,
           UNCHANGED <<page, tasks, socketOpen>>, m \in Seq(Event), Emit(m), ~Has(m, States),
           \A d \in CallId \ {c} :
              /\ session'[d] = session[d] /\ finishing'[d] = finishing[d]
              /\ ~Has(m, Closes(d)),
           c \in InMap' => c \in InMap,
           CallFits(c, m)
    PROVE  Follows'
<1>1. \A d \in CallId : ~Has(m, Brings(d))
  BY StatesDo DEF Has
<1>2. \A d \in CallId : CallFits(d, m)
  BY <1>1, UntouchedFits
<1>3. InMap' \subseteq InMap
  BY DEF InMap
<1>4. OneInMap'
  BY <1>3 DEF Following, Follows, OneInMap
<1>5. QED
  BY <1>2, <1>4, GatewayFollows DEF GatewayTells

\* A step that changes no call and tells of none that it is over.
LEMMA AboutNoneFollows ==
    ASSUME Following, NEW m, Consumes(m), UNCHANGED <<page, tasks, socketOpen, session, finishing>>,
           m \in Seq(Event), Emit(m), ~Has(m, States),
           \A d \in CallId : Has(m, Closes(d)) => d \notin InMap \/ finishing[d] # "no"
    PROVE  Follows'
<1>1. \A d \in CallId : ~Has(m, Brings(d))
  BY StatesDo DEF Has
<1>2. InMap' = InMap /\ Lost' = Lost
  BY LostDoes
<1>3. \A d \in CallId :
         Has(toBackend', {Msg("accept", d), Msg("reject", d)}) => session[d] # "active"
  BY ConsumesHas DEF Following, Follows, RefusalFits
<1>4. \A d \in CallId : CallFits(d, m)
  BY <1>1, <1>2, <1>3 DEF CallFits
<1>5. OneInMap'
  BY <1>2 DEF Following, Follows, OneInMap
<1>6. QED
  BY <1>4, <1>5, GatewayFollows DEF GatewayTells

LEMMA SameConsumes ==
    ASSUME NEW m, toBackend' = toBackend
    PROVE  Consumes(m)
BY DEF Consumes

\* What a call becomes, when it alone changes.
LEMMA OneChanges ==
    ASSUME Following, NEW c \in CallId
    PROVE  /\ \A v : session' = [session EXCEPT ![c] = v] =>
                 session'[c] = v /\ \A d \in CallId \ {c} : session'[d] = session[d]
           /\ \A v : finishing' = [finishing EXCEPT ![c] = v] =>
                 finishing'[c] = v /\ \A d \in CallId \ {c} : finishing'[d] = finishing[d]
           /\ finishing[c] \in {"no", "end", "reject"}
BY DEF Following, Orderly, EndedInv, ClientTypes

-----------------------------------------------------------------------------

LEMMA PeerAcceptsFollows ==
    ASSUME Following, NEW c \in CallId, PeerAccepts(c),
           UNCHANGED <<page, tasks, socketOpen, toBackend>>
    PROVE  Follows'
<1>1. /\ c \in OutgoingCall /\ c \notin IncomingCall /\ session[c] = "ringing"
      /\ session' = [session EXCEPT ![c] = "active"] /\ finishing' = finishing
  BY IncomingIsCall DEF PeerAccepts
<1>2. /\ \A d \in CallId \ {c} : session'[d] = session[d] /\ finishing'[d] = finishing[d]
      /\ session'[c] = "active"
  BY <1>1, OneChanges
<1>3. PICK m : m \in Seq(Event) /\ Emit(m) /\ ~Has(m, States) /\ \A d \in CallId : ~Has(m, Closes(d))
  <2>1. CASE toPage' = toPage
    BY <2>1, EmptyEmit, NothingTold DEF Following
  <2>2. CASE Emit(<<Msg("accepted", c)>>)
    <3> DEFINE n == <<Msg("accepted", c)>>
    <3>1. Msg("accepted", c) \in Event
      BY DEF Msg, Event
    <3>2. n \in Seq(Event) /\ ~Has(n, States) /\ \A d \in CallId : ~Has(n, Closes(d))
      BY <3>1, TellsOne
    <3>3. Emit(n)
      BY <2>2
    <3> HIDE DEF n
    <3>4. QED
      BY <3>2, <3>3
  <2>3. QED
    BY <2>1, <2>2 DEF PeerAccepts
<1>4. c \in InMap /\ c \in InMap' /\ (c \in Lost' => c \in Lost)
  BY <1>1, <1>2 DEF InMap, Lost
<1>5. ~Has(toBackend', {Msg("accept", c), Msg("reject", c)})
  BY <1>1 DEF Following, Follows, RefusalFits
<1>6. ~Has(m, Brings(c))
  BY <1>3, StatesDo DEF Has
<1>7. CallFits(c, m)
  BY <1>1, <1>3, <1>4, <1>5, <1>6 DEF CallFits
<1>8. QED
  BY <1>2, <1>3, <1>4, <1>7, SameConsumes, AboutOneFollows

\* The peer, or another page, rejects call c, and the page is told.
LEMMA RejectedFollows ==
    ASSUME Following, NEW c \in CallId, PeerRejects(c) \/ OtherPageRejects(c),
           UNCHANGED <<page, tasks, socketOpen, toBackend>>
    PROVE  Follows'
<1>1. session[c] = "ringing"
  BY DEF PeerRejects, OtherPageRejects
<1>2. \/ finishing[c] = "no" /\ finishing' = [finishing EXCEPT ![c] = "reject"] /\ session' = session
      \/ finishing[c] # "no" /\ session' = [session EXCEPT ![c] = "over"] /\ finishing' = finishing
  BY DEF PeerRejects, OtherPageRejects
<1>3. PICK k \in {"rejected", "dismissed"} : Emit(<<Msg(k, c)>>)
  BY DEF PeerRejects, OtherPageRejects
<1> DEFINE m == <<Msg(k, c)>>
<1>4. Msg(k, c) \in Event
  BY DEF Msg, Event
<1>5. /\ m \in Seq(Event) /\ ~Has(m, States) /\ Has(m, Closes(c))
      /\ \A d \in CallId \ {c} : ~Has(m, Closes(d))
  BY <1>4, TellsOne
<1>6. Emit(m)
  BY <1>3
<1> HIDE DEF m
<1>7. \A d \in CallId \ {c} : session'[d] = session[d] /\ finishing'[d] = finishing[d]
  BY <1>2, OneChanges
<1>8. /\ session'[c] \in {"ringing", "over"}
      /\ c \in InMap
      /\ c \notin InMap' \/ finishing'[c] # "no"
      /\ finishing[c] # "no" => c \notin InMap'
  BY <1>1, <1>2, OneChanges DEF InMap
<1>9. ~Has(m, Brings(c))
  BY <1>5, StatesDo DEF Has
<1>10. CallFits(c, m)
  BY <1>5, <1>8, <1>9 DEF CallFits
<1>11. QED
  BY <1>5, <1>6, <1>7, <1>8, <1>10, SameConsumes, AboutOneFollows

\* The peer, or a timer, or the page, ends call c; or the page rejects it.
LEMMA FinishesFollows ==
    ASSUME Following, NEW c \in CallId, NEW k \in {"end", "reject"}, Finish(c, k), c \in InMap,
           UNCHANGED <<page, tasks, socketOpen>>,
           k = "reject" => /\ session[c] # "active" /\ ~Shows(c)
                           /\ c \in page.terminal \/ ~Has(toPage, Brings(c)),
           \/ toBackend' = toBackend
           \/ /\ toBackend # <<>> /\ toBackend' = Tail(toBackend) /\ socketOpen
              /\ Head(toBackend) = Msg(k, c)
    PROVE  Follows'
<1>1. PICK m : /\ m \in Seq(Event) /\ Emit(m) /\ ~Has(m, States)
               /\ \A d \in CallId \ {c} : ~Has(m, Closes(d))
               /\ Has(m, Closes(c)) => finishing[c] # "no"
               /\ finishing[c] # "no" /\ k = "end" => Has(m, Closes(c))
  <2>1. CASE finishing[c] = "no"
    <3>1. toPage' = toPage
      BY <2>1 DEF Finish
    <3>2. QED
      BY <2>1, <3>1, EmptyEmit, NothingTold DEF Following
  <2>2. CASE finishing[c] # "no" /\ k = "end"
    <3> DEFINE n == <<Msg("ended", c)>>
    <3>1. Emit(n)
      BY <2>2 DEF Finish
    <3>2. Msg("ended", c) \in Event
      BY DEF Msg, Event
    <3>3. /\ n \in Seq(Event) /\ ~Has(n, States) /\ Has(n, Closes(c))
          /\ \A d \in CallId \ {c} : ~Has(n, Closes(d))
      BY <3>2, TellsOne
    <3> HIDE DEF n
    <3>4. QED
      BY <2>2, <3>1, <3>3
  <2>3. CASE finishing[c] # "no" /\ k = "reject"
    <3>1. Emit(<<>>)
      BY <2>3 DEF Finish
    <3>2. QED
      BY <2>3, <3>1, NothingTold
  <2>4. QED
    BY <2>1, <2>2, <2>3
<1>2. \/ finishing[c] = "no" /\ finishing' = [finishing EXCEPT ![c] = k] /\ session' = session
      \/ finishing[c] # "no" /\ session' = [session EXCEPT ![c] = "over"] /\ finishing' = finishing
  BY DEF Finish
<1>3. \A d \in CallId \ {c} : session'[d] = session[d] /\ finishing'[d] = finishing[d]
  BY <1>2, OneChanges
<1>4. /\ c \notin InMap' \/ finishing'[c] # "no"
      /\ finishing[c] # "no" => c \notin InMap'
      /\ session'[c] \in {session[c], "over"}
      /\ c \in Lost' => c \in Lost \/ k = "reject"
  <2>1. CASE finishing[c] = "no" /\ finishing' = [finishing EXCEPT ![c] = k] /\ session' = session
    BY <2>1, OneChanges DEF InMap, Lost
  <2>2. CASE finishing[c] # "no" /\ session' = [session EXCEPT ![c] = "over"] /\ finishing' = finishing
    <3>1. session'[c] = "over" /\ finishing'[c] = finishing[c]
      BY <2>2, OneChanges
    <3>2. finishing[c] \in {"end", "reject"}
      BY <2>2, OneChanges
    <3>3. QED
      BY <2>2, <3>1, <3>2 DEF InMap, Lost
  <2>3. QED
    BY <1>2, <2>1, <2>2
<1>5. Consumes(m)
  <2>1. CASE toBackend' = toBackend
    BY <2>1, SameConsumes
  <2>2. CASE /\ toBackend # <<>> /\ toBackend' = Tail(toBackend) /\ socketOpen
             /\ Head(toBackend) = Msg(k, c)
    <3>1. \A d : Msg(k, c) \in {Msg("end", d), Msg("reject", d)} => d = c
      BY DEF Msg
    <3>2. Msg(k, c) \notin AskSync
      BY DEF Msg, AskSync
    <3>3. QED
      BY <1>4, <2>2, <3>1, <3>2 DEF Consumes
  <2>3. QED
    BY <2>1, <2>2
<1>6. ~Has(m, Brings(c))
  BY <1>1, StatesDo DEF Has
<1>7. Has(toBackend', {Msg("accept", c), Msg("reject", c)}) => session'[c] # "active"
  <2>1. Has(toBackend', {Msg("accept", c), Msg("reject", c)}) => session[c] # "active"
    BY <1>5, ConsumesHas DEF Following, Follows, RefusalFits
  <2>2. QED
    BY <1>4, <2>1
<1>8. CallFits(c, m)
  BY <1>1, <1>4, <1>6, <1>7 DEF CallFits
<1>9. QED
  BY <1>1, <1>3, <1>5, <1>8, AboutOneFollows

LEMMA PeerSignalsFollows ==
    ASSUME Following, NEW c \in CallId, PeerSignals(c),
           UNCHANGED <<page, tasks, socketOpen, toBackend>>
    PROVE  Follows'
<1>1. UNCHANGED <<session, finishing>>
  BY DEF PeerSignals
<1>2. PICK k \in {"answer", "recovery", "offer"} : Emit(<<Msg(k, c)>>)
  BY DEF PeerSignals
<1> DEFINE m == <<Msg(k, c)>>
<1>3. Msg(k, c) \in Event
  BY DEF Msg, Event
<1>4. /\ m \in Seq(Event) /\ ~Has(m, States)
      /\ \A d \in CallId : ~Has(m, Closes(d))
  BY <1>3, TellsOne
<1>5. Emit(m)
  BY <1>2
<1> HIDE DEF m
<1>6. QED
  BY <1>1, <1>4, <1>5, SameConsumes, AboutNoneFollows

\* A call that nobody was told of is now the one in the map, and is told.
LEMMA RingsFollows ==
    ASSUME Following, NEW c \in CallId, UNCHANGED <<page, tasks, socketOpen, toBackend, finishing>>,
           InMap = {}, session' = [session EXCEPT ![c] = "ringing"], c \in Early,
           NEW k \in {"incoming", "startOk"}, NEW m, Emit(m),
           m = <<Msg(k, c)>> \/ (m = <<>> /\ ~socketOpen)
    PROVE  Follows'
<1>1. Msg(k, c) \in Event /\ Msg(k, c).call = c
  BY DEF Msg, Event
<1>2. m \in Seq(Event) /\ \A d \in CallId : ~Has(m, Closes(d)) /\ (d # c => ~Has(m, Brings(d)))
  <2>1. CASE m = <<>>
    BY <2>1, NothingTold
  <2>2. CASE m = <<Msg(k, c)>>
    BY <1>1, <2>2, TellsOne
  <2>3. QED
    BY <2>1, <2>2
<1>3. Msg(k, c) \in States
  BY <1>1 DEF States, Msg
<1>4. socketOpen => Has(m, Brings(c))
  BY <1>1, <1>3, TellsOne
<1>5. session'[c] = "ringing" /\ \A d \in CallId \ {c} : session'[d] = session[d]
  BY OneChanges
<1>6. InMap' = {c}
  BY <1>5 DEF InMap
<1>7. finishing[c] = "no"
  BY DEF Following, Orderly, EndedInv, EarlyIsUnknown
<1>8. c \notin Lost'
  BY <1>6, <1>7 DEF Lost
<1>9. CallFits(c, m)
  BY <1>2, <1>4, <1>5, <1>7, <1>8 DEF CallFits
<1>10. Consumes(m)
  BY SameConsumes
<1>11. \A d \in CallId : CallFits(d, m)
  BY <1>2, <1>5, <1>9, <1>10, UntouchedFits
<1>12. OneInMap'
  BY <1>6 DEF OneInMap
<1>13. ~Has(m, States) \/ \E e \in States : m = <<e>> /\ \A d \in CallId : d \in InMap' <=> d = e.call
  <2>1. CASE m = <<>>
    BY <2>1, NothingTold
  <2>2. CASE m = <<Msg(k, c)>>
    BY <1>1, <1>3, <1>6, <2>2
  <2>3. QED
    BY <2>1, <2>2
<1>14. QED
  BY <1>2, <1>10, <1>11, <1>12, <1>13, GatewayFollows DEF GatewayTells

LEMMA PeerCallsFollows ==
    ASSUME Following, NEW c \in CallId, PeerCalls(c),
           UNCHANGED <<page, tasks, socketOpen, toBackend>>
    PROVE  Follows'
<1>1. c \in Early
  BY DEF PeerCalls, Early
<1>2. /\ InMap = {} /\ session' = [session EXCEPT ![c] = "ringing"] /\ finishing' = finishing
      /\ Emit(<<Msg("incoming", c)>>)
  BY DEF PeerCalls
<1>3. QED
  BY <1>1, <1>2, RingsFollows

LEMMA PeerFollows ==
    ASSUME Following, NEW c \in CallId, Peer(c)
    PROVE  Follows'
<1>1. UNCHANGED <<page, tasks, socketOpen, toBackend>>
  BY DEF Peer
<1>2. CASE PeerCalls(c)
  BY <1>1, <1>2, PeerCallsFollows
<1>3. CASE PeerAccepts(c)
  BY <1>1, <1>3, PeerAcceptsFollows
<1>4. CASE PeerRejects(c) \/ OtherPageRejects(c)
  BY <1>1, <1>4, RejectedFollows
<1>5. CASE PeerEnds(c)
  <2>1. Finish(c, "end") /\ c \in InMap
    BY <1>5 DEF PeerEnds
  <2>2. QED
    BY <1>1, <2>1, FinishesFollows
<1>6. CASE PeerSignals(c)
  BY <1>1, <1>6, PeerSignalsFollows
<1>7. QED
  BY <1>2, <1>3, <1>4, <1>5, <1>6 DEF Peer

\* A call is being started while there is no other, and the socket that
\* waits for the acknowledgement is the one that asked.
LEMMA StartStoredFollows ==
    ASSUME Following, NEW c \in CallId, StartStored(c)
    PROVE  Follows'
<1>1. ~overtaken' /\ (overtaken' = (overtaken \/ InMap # {} \/ (c \in deaf /\ socketOpen)))
  BY DEF Following, Orderly, StartStored
<1>2. InMap = {} /\ ~(c \in deaf /\ socketOpen)
  BY <1>1
<1>3. c \in Early
  BY DEF StartStored, Early
<1>4. /\ UNCHANGED <<page, tasks, socketOpen, toBackend, finishing>>
      /\ session' = [session EXCEPT ![c] = "ringing"]
      /\ Emit(IF c \in deaf THEN <<>> ELSE <<Msg("startOk", c)>>)
  BY DEF StartStored, Acked
<1>5. CASE c \in deaf
  <2>1. Emit(<<>>) /\ ~socketOpen
    BY <1>2, <1>4, <1>5
  <2>2. QED
    BY <1>2, <1>3, <1>4, <2>1, RingsFollows
<1>6. CASE c \notin deaf
  <2>1. Emit(<<Msg("startOk", c)>>)
    BY <1>4, <1>6
  <2>2. QED
    BY <1>2, <1>3, <1>4, <2>1, RingsFollows
<1>7. QED
  BY <1>5, <1>6

LEMMA AcceptStoredFollows ==
    ASSUME Following, NEW c \in CallId, AcceptStored(c)
    PROVE  Follows'
<1>1. UNCHANGED <<page, tasks, socketOpen, toBackend, session, finishing>>
  BY DEF AcceptStored
<1>2. \/ Emit(<<>>) \/ Emit(<<Msg("acceptOk", c)>>) \/ Emit(<<Msg("accepted", c)>>)
  BY DEF AcceptStored, Acked
<1>3. PICK m : m \in Seq(Event) /\ Emit(m) /\ ~Has(m, States) /\ \A d \in CallId : ~Has(m, Closes(d))
  <2>1. CASE Emit(<<>>)
    BY <2>1, NothingTold
  <2>2. ASSUME NEW k \in {"acceptOk", "accepted"}, Emit(<<Msg(k, c)>>)
        PROVE  \E m : m \in Seq(Event) /\ Emit(m) /\ ~Has(m, States) /\ \A d \in CallId : ~Has(m, Closes(d))
    <3> DEFINE n == <<Msg(k, c)>>
    <3>1. Msg(k, c) \in Event
      BY DEF Msg, Event
    <3>2. n \in Seq(Event) /\ ~Has(n, States) /\ \A d \in CallId : ~Has(n, Closes(d))
      BY <3>1, TellsOne
    <3>3. Emit(n)
      BY <2>2
    <3> HIDE DEF n
    <3>4. QED
      BY <3>2, <3>3
  <2>3. QED
    BY <1>2, <2>1, <2>2
<1>4. QED
  BY <1>1, <1>3, SameConsumes, AboutNoneFollows

LEMMA FinishStoredFollows ==
    ASSUME Following, NEW c \in CallId, FinishStored(c)
    PROVE  Follows'
<1> DEFINE m == IF finishing[c] = "end" THEN <<Msg("ended", c)>> ELSE <<>>
<1>1. /\ UNCHANGED <<page, tasks, socketOpen, toBackend>> /\ finishing[c] # "no"
      /\ finishing' = [finishing EXCEPT ![c] = "no"]
      /\ session' = [session EXCEPT ![c] = "over"] /\ Emit(m)
  BY DEF FinishStored
<1>2. /\ m \in Seq(Event) /\ ~Has(m, States) /\ \A d \in CallId \ {c} : ~Has(m, Closes(d))
      /\ finishing[c] = "end" => Has(m, Closes(c))
  <2>1. Msg("ended", c) \in Event
    BY DEF Msg, Event
  <2>2. CASE finishing[c] = "end"
    BY <2>1, <2>2, TellsOne
  <2>3. CASE finishing[c] # "end"
    BY <2>3, NothingTold
  <2>4. QED
    BY <2>2, <2>3
<1> HIDE DEF m
<1>3. \A d \in CallId \ {c} : session'[d] = session[d] /\ finishing'[d] = finishing[d]
  BY <1>1, OneChanges
<1>4. session'[c] = "over" /\ finishing[c] \in {"end", "reject"}
  BY <1>1, OneChanges
<1>5. c \notin InMap' /\ (c \in Lost \/ finishing[c] = "end")
  BY <1>4 DEF InMap, Lost
<1>6. ~Has(m, Brings(c))
  BY <1>2, StatesDo DEF Has
<1>7. CallFits(c, m)
  BY <1>2, <1>4, <1>5, <1>6 DEF CallFits
<1>8. QED
  BY <1>1, <1>2, <1>3, <1>5, <1>7, SameConsumes, AboutOneFollows

LEMMA GatewayRestartsFollows ==
    ASSUME Following, GatewayRestarts
    PROVE  Follows'
<1>1. /\ ~socketOpen /\ UNCHANGED <<page, tasks, socketOpen, toBackend, toPage>>
      /\ \A c \in CallId : session'[c] \in {"unused", "over"}
  BY DEF GatewayRestarts
<1>2. Emit(<<>>)
  BY <1>1, EmptyEmit DEF Following
<1>3. InMap' = {}
  BY <1>1 DEF InMap
<1>4. \A c \in CallId : CallFits(c, <<>>)
  BY <1>1, <1>3, NothingTold DEF CallFits
<1>5. OneInMap'
  BY <1>3 DEF OneInMap
<1>6. GatewayTells(<<>>)
  BY <1>1, <1>2, <1>4, <1>5, NothingTold DEF GatewayTells
<1>7. Consumes(<<>>)
  BY <1>1, SameConsumes
<1>8. QED
  BY <1>6, <1>7, GatewayFollows

-----------------------------------------------------------------------------

\* The packet handled is of the kind k, and no end, reject or sync.
LEMMA OtherConsumes ==
    ASSUME toBackend # <<>>, toBackend' = Tail(toBackend), socketOpen,
           Head(toBackend).kind \notin {"end", "reject", "sync"}, NEW m
    PROVE  Consumes(m)
BY DEF Consumes, AskSync, Msg

LEMMA GatewayStartsFollows ==
    ASSUME Following, toBackend # <<>>, toBackend' = Tail(toBackend), socketOpen,
           Head(toBackend).kind = "start", GatewayStarts,
           UNCHANGED <<page, tasks, socketOpen, finishing>>
    PROVE  Follows'
<1>1. CASE Emit(<<Msg("startFailed", None)>>) /\ UNCHANGED session
  <2> DEFINE m == <<Msg("startFailed", None)>>
  <2>1. Msg("startFailed", None) \in Event
    BY DEF Msg, Event
  <2>2. m \in Seq(Event) /\ ~Has(m, States) /\ \A d \in CallId : ~Has(m, Closes(d))
    BY <2>1, TellsOne
  <2>3. Emit(m)
    BY <1>1
  <2> HIDE DEF m
  <2>4. QED
    BY <1>1, <2>2, <2>3, OtherConsumes, AboutNoneFollows
<1>2. CASE /\ UNCHANGED toPage
           /\ \E c \in OutgoingCall : /\ session[c] = "unused"
                                      /\ session' = [session EXCEPT ![c] = "starting"]
  <2>1. PICK c \in OutgoingCall : /\ session[c] = "unused"
                                  /\ session' = [session EXCEPT ![c] = "starting"]
    BY <1>2
  <2>2. c \in CallId
    BY IncomingIsCall
  <2>3. session'[c] = "starting" /\ \A d \in CallId \ {c} : session'[d] = session[d]
    BY <2>1, <2>2, OneChanges
  <2>4. c \notin InMap' /\ (c \in Lost' => c \in Lost)
    BY <2>1, <2>3 DEF InMap, Lost
  <2>5. Emit(<<>>)
    BY <1>2, EmptyEmit DEF Following
  <2>6. CallFits(c, <<>>)
    BY <2>3, <2>4, NothingTold DEF CallFits
  <2>7. QED
    BY <2>2, <2>3, <2>4, <2>5, <2>6, NothingTold, OtherConsumes, AboutOneFollows
<1>3. QED
  BY <1>1, <1>2 DEF GatewayStarts

\* The answer to call:sync names the call in the map, if there is one.
LEMMA GatewaySyncsFollows ==
    ASSUME Following, toBackend # <<>>, toBackend' = Tail(toBackend), socketOpen,
           Head(toBackend).kind = "sync", GatewaySyncs,
           \A c \in CallId : finishing[c] # "reject",
           UNCHANGED <<page, tasks, socketOpen, session, finishing>>
    PROVE  Follows'
<1>1. SyncAck \in tasks
  <2>1. Head(toBackend) \in Packet
    BY NextPacket DEF Following
  <2>2. Head(toBackend) \in Asked(SyncAck)
    BY <2>1 DEF Packet, Asked, SyncAck, Msg
  <2>3. QED
    BY <2>2, NextPacket, AckTasks DEF Following
<1>2. PICK k, c : /\ Emit(<<Msg(k, c)>>) /\ Msg(k, c) \in Event
                  /\ k \in {"syncedNone", "syncedRinging", "syncedActive"}
                  /\ (InMap = {} /\ c = None) \/ c \in InMap
  <2>1. CASE InMap = {}
    <3>1. Emit(<<Msg("syncedNone", None)>>) /\ Msg("syncedNone", None) \in Event
      BY <2>1 DEF GatewaySyncs, Msg, Event
    <3>2. QED
      BY <2>1, <3>1
  <2>2. CASE InMap # {}
    <3>1. PICK c \in InMap :
             Emit(<<Msg(IF session[c] = "active" THEN "syncedActive" ELSE "syncedRinging", c)>>)
      BY <2>2 DEF GatewaySyncs
    <3>2. c \in CallId
      BY DEF InMap
    <3>3. Msg("syncedActive", c) \in Event /\ Msg("syncedRinging", c) \in Event
      BY <3>2 DEF Msg, Event
    <3>4. QED
      BY <3>1, <3>3
  <2>3. QED
    BY <2>1, <2>2
<1> DEFINE e == Msg(k, c)
           m == <<e>>
<1>3. e \in Event /\ e.kind = k /\ e.call = c
  BY <1>2 DEF Msg
<1>4. e \in States /\ e \in Answers(SyncAck)
  BY <1>2, <1>3 DEF States, Answers, SyncAck
<1>5. /\ m \in Seq(Event) /\ \A d \in CallId : ~Has(m, Closes(d)) /\ (Has(m, Brings(d)) => d = c)
      /\ Has(m, Answers(SyncAck))
  <2>1. Has(m, Answers(SyncAck))
    BY <1>2, <1>4, OneTold
  <2>2. QED
    BY <1>2, <2>1, TellsOne
<1>6. Emit(m)
  BY <1>2
<1> HIDE DEF e, m
<1>7. InMap' = InMap
  BY DEF InMap
<1>8. \A d \in CallId : d \in InMap <=> d = e.call
  <2>1. CASE InMap = {} /\ c = None
    BY <1>3, <2>1, IncomingIsCall
  <2>2. CASE c \in InMap
    BY <1>3, <2>2 DEF Following, Follows, OneInMap
  <2>3. QED
    BY <1>2, <2>1, <2>2
<1>9. Consumes(m)
  <2>1. \A d : Head(toBackend) \notin {Msg("end", d), Msg("reject", d)}
    BY DEF Msg
  <2>2. QED
    BY <1>5, <2>1 DEF Consumes
<1>10. \A d \in CallId : CallFits(d, m)
  BY <1>1, <1>3, <1>5, <1>8, <1>9, UntouchedFits
<1>11. OneInMap'
  BY <1>7 DEF Following, Follows, OneInMap
<1>12. \E f \in States : m = <<f>> /\ \A d \in CallId : d \in InMap' <=> d = f.call
  BY <1>4, <1>7, <1>8 DEF m
<1>13. GatewayTells(m)
  BY <1>5, <1>6, <1>10, <1>11, <1>12 DEF GatewayTells
<1>14. QED
  BY <1>9, <1>13, GatewayFollows

\* A call that is not being rejected is accepted, or its accept fails.
LEMMA GatewayAcceptsFollows ==
    ASSUME Following, toBackend # <<>>, toBackend' = Tail(toBackend), socketOpen,
           Head(toBackend).kind = "accept", NEW c, c = Head(toBackend).call, GatewayAccepts(c),
           \A d \in CallId : finishing[d] # "reject",
           UNCHANGED <<page, tasks, socketOpen, finishing>>
    PROVE  Follows'
<1>1. /\ AcceptAck(c) \in tasks /\ c \in CallId
      /\ ~Has(toBackend', {Msg("accept", c)}) /\ Has(toBackend, {Msg("accept", c)})
  <2>1. Head(toBackend) \in Packet /\ toBackend \in Seq(Packet)
    BY NextPacket DEF Following, Orderly, EndedInv, ClientTypes
  <2>2. Head(toBackend) = Msg("accept", c) /\ c \in CallId
    BY <2>1 DEF Packet, Msg
  <2>3. Asked(AcceptAck(c)) = {Msg("accept", c)} /\ AcceptAck(c) \in AckTask
    BY <2>2, AckTasks DEF Asked, AcceptAck, Msg
  <2>4. AcceptAck(c) \in tasks /\ ~Has(toBackend', Asked(AcceptAck(c)))
    BY <2>2, <2>3, NextPacket DEF Following
  <2>5. Has(toBackend, {Msg("accept", c)})
    <3>1. Head(toBackend) = toBackend[1] /\ 1 \in DOMAIN toBackend
      BY <2>1
    <3>2. QED
      BY <2>2, <3>1 DEF Has
  <2>6. QED
    BY <2>2, <2>3, <2>4, <2>5
<1>2. session[c] # "active"
  BY <1>1 DEF Following, Follows, RefusalFits, Has
<1>3. Shows(c)
  <2>1. AcceptAck(c).kind = "accept" /\ AcceptAck(c).call = c
    BY DEF AcceptAck
  <2>2. TasksFit(page, tasks) /\ CallIsSound(page, tasks)
    BY DEF Following, Orderly, MicHolds, MicIsSound, EndedInv
  <2>3. QED
    BY <1>1, <2>1, <2>2 DEF TasksFit, CallIsSound, Shows
<1>4. ~Has(toBackend', {Msg("accept", c), Msg("reject", c)})
  <2>1. ~Has(toBackend, {Msg("reject", c)})
    BY <1>1, <1>3 DEF Following, Follows, RefusalFits
  <2>2. ~Has(toBackend', {Msg("reject", c)})
    BY <2>1, OtherConsumes, ConsumesHas
  <2>3. QED
    BY <1>1, <2>2 DEF Has
<1>5. \A k \in {"acceptOk", "acceptFailed", "ended"} : Msg(k, c) \in Event
  BY <1>1 DEF Msg, Event
<1>o. /\ session' = [session EXCEPT ![c] = "active"] =>
            session'[c] = "active" /\ \A d \in CallId \ {c} : session'[d] = session[d]
      /\ session' = [session EXCEPT ![c] = "over"] =>
            session'[c] = "over" /\ \A d \in CallId \ {c} : session'[d] = session[d]
      /\ finishing[c] \in {"no", "end", "reject"}
  <2>1. c \in CallId
    BY <1>1
  <2>2. QED
    BY <2>1 DEF Following, Orderly, EndedInv, ClientTypes
<1>6. CASE session[c] # "ringing"
  <2> DEFINE m == <<Msg("acceptFailed", c)>>
  <2>1. Emit(m) /\ session' = session /\ c \notin InMap
    BY <1>2, <1>6 DEF GatewayAccepts, InMap
  <2>2. m \in Seq(Event) /\ ~Has(m, States) /\ \A d \in CallId : Has(m, Closes(d)) => d = c
    BY <1>5, TellsOne
  <2> HIDE DEF m
  <2>3. QED
    BY <2>1, <2>2, OtherConsumes, AboutNoneFollows
<1>7. CASE session[c] = "ringing" /\ session' = [session EXCEPT ![c] = "active"]
  <2>1. PICK m : m \in Seq(Event) /\ Emit(m) /\ ~Has(m, States) /\ \A d \in CallId : ~Has(m, Closes(d))
    <3>1. CASE toPage' = toPage
      BY <3>1, EmptyEmit, NothingTold DEF Following
    <3>2. CASE Emit(<<Msg("acceptOk", c)>>)
      <4> DEFINE n == <<Msg("acceptOk", c)>>
      <4>1. n \in Seq(Event) /\ ~Has(n, States) /\ \A d \in CallId : ~Has(n, Closes(d))
        BY <1>5, TellsOne
      <4>2. Emit(n)
        BY <3>2
      <4> HIDE DEF n
      <4>3. QED
        BY <4>1, <4>2
    <3>3. session' # [session EXCEPT ![c] = "over"]
      BY <1>1, <1>7, <1>o
    <3>4. QED
      BY <1>7, <3>1, <3>2, <3>3 DEF GatewayAccepts
  <2>2. session'[c] = "active" /\ \A d \in CallId \ {c} : session'[d] = session[d]
    BY <1>1, <1>7, <1>o
  <2>3. c \in InMap /\ c \in InMap' /\ c \notin Lost'
    BY <1>1, <1>7, <2>2 DEF InMap, Lost
  <2>4. ~Has(m, Brings(c))
    BY <2>1, StatesDo DEF Has
  <2>5. CallFits(c, m)
    BY <1>1, <1>4, <2>1, <2>3, <2>4 DEF CallFits
  <2>6. QED
    BY <1>1, <2>1, <2>2, <2>3, <2>5, OtherConsumes, AboutOneFollows
<1>8. CASE /\ session[c] = "ringing" /\ finishing[c] # "no"
           /\ session' = [session EXCEPT ![c] = "over"]
           /\ Emit(<<Msg("ended", c), Msg("acceptFailed", c)>>)
  <2> DEFINE e == Msg("ended", c)
             f == Msg("acceptFailed", c)
             m == <<e, f>>
  <2>1. /\ e \in Event /\ f \in Event /\ e.call = c /\ f.call = c
        /\ e \notin States /\ f \notin States
    BY <1>5 DEF States, Msg
  <2>2. Emit(m)
    BY <1>8
  <2> HIDE DEF e, f
  <2>3. m \in Seq(Event) /\ DOMAIN m = {1, 2} /\ m[1] = e /\ m[2] = f
    BY <2>1
  <2> HIDE DEF m
  <2>4. ~Has(m, States) /\ \A d \in CallId \ {c} : ~Has(m, Closes(d))
    BY <2>1, <2>3 DEF Has, Closes
  <2>5. session'[c] = "over" /\ \A d \in CallId \ {c} : session'[d] = session[d]
    BY <1>1, <1>8, <1>o
  <2>6. finishing[c] = "end"
    BY <1>1, <1>8, <1>o
  <2>7. c \notin InMap' /\ c \notin Lost'
    BY <2>5, <2>6 DEF InMap, Lost
  <2>8. ~Has(m, Brings(c))
    BY <2>4, StatesDo DEF Has
  <2>9. CallFits(c, m)
    BY <2>5, <2>7, <2>8 DEF CallFits
  <2>10. QED
    BY <1>1, <2>2, <2>3, <2>4, <2>5, <2>7, <2>9, OtherConsumes, AboutOneFollows
<1>9. QED
  BY <1>6, <1>7, <1>8 DEF GatewayAccepts

\* A packet after which the page is told nothing: call:end and call:reject of
\* calls that are over, and what goes to the peer.
LEMMA GatewayIgnoresFollows ==
    ASSUME Following, toBackend # <<>>, toBackend' = Tail(toBackend), socketOpen,
           UNCHANGED <<page, tasks, socketOpen, toPage, session, finishing>>,
           Head(toBackend).kind # "sync",
           \A c \in CallId : Head(toBackend) \in {Msg("end", c), Msg("reject", c)} => c \notin InMap
    PROVE  Follows'
<1>1. Emit(<<>>)
  BY EmptyEmit DEF Following
<1>2. InMap' = InMap
  BY DEF InMap
<1>3. Head(toBackend) \notin AskSync
  BY DEF AskSync, Msg
<1>4. Consumes(<<>>)
  BY <1>2, <1>3 DEF Consumes
<1>5. QED
  BY <1>1, <1>4, NothingTold, AboutNoneFollows

LEMMA GatewayHandlesFollows ==
    ASSUME Following, GatewayHandles
    PROVE  Follows'
<1> DEFINE b == Head(toBackend)
           c == b.call
<1>1. /\ toBackend # <<>> /\ toBackend' = Tail(toBackend) /\ socketOpen
      /\ UNCHANGED <<page, tasks, socketOpen>>
      /\ b.kind \in {"sync", "accept"} => \A d \in CallId : finishing[d] # "reject"
  BY DEF GatewayHandles, Following, Orderly
<1>2. b \in Packet /\ toBackend \in Seq(Packet)
  BY <1>1, NextPacket DEF Following, Orderly, EndedInv, ClientTypes
<1>3. Has(toBackend, {b})
  <2>1. b = toBackend[1] /\ 1 \in DOMAIN toBackend
    BY <1>1, <1>2
  <2>2. QED
    BY <2>1 DEF Has
<1>4. CASE b.kind = "start" /\ GatewayStarts /\ UNCHANGED finishing
  BY <1>1, <1>4, GatewayStartsFollows
<1>5. CASE b.kind = "accept" /\ GatewayAccepts(c) /\ UNCHANGED finishing
  BY <1>1, <1>5, GatewayAcceptsFollows
<1>6. CASE b.kind = "sync" /\ GatewaySyncs /\ UNCHANGED <<session, finishing>>
  BY <1>1, <1>6, GatewaySyncsFollows
<1>7. ASSUME b.kind = "reject"
      PROVE  /\ c \in CallId /\ b = Msg("reject", c) /\ session[c] # "active" /\ ~Shows(c)
             /\ c \in page.terminal \/ ~Has(toPage, Brings(c))
  <2>1. c \in CallId /\ b = Msg("reject", c)
    BY <1>2, <1>7 DEF Packet, Msg
  <2>2. Has(toBackend, {Msg("reject", c)}) /\ Has(toBackend, {Msg("accept", c), Msg("reject", c)})
    BY <1>3, <2>1 DEF Has
  <2>3. QED
    BY <2>1, <2>2 DEF Following, Follows, RefusalFits
<1>8. b.kind = "end" => c \in CallId /\ b = Msg("end", c)
  BY <1>2 DEF Packet, Msg
<1>9. \A d : b \in {Msg("end", d), Msg("reject", d)} => d = c /\ b.kind \in {"end", "reject"}
  BY DEF Msg
<1> HIDE DEF c, b
<1>10. CASE b.kind = "reject" /\ session[c] = "ringing" /\ Finish(c, b.kind)
  <2>1. c \in InMap
    BY <1>7, <1>10 DEF InMap
  <2>2. QED
    BY <1>1, <1>7, <1>10, <2>1, FinishesFollows DEF b
<1>11. CASE b.kind = "end" /\ c \in InMap /\ Finish(c, b.kind)
  BY <1>1, <1>8, <1>11, FinishesFollows DEF b
<1>12. CASE /\ \/ b.kind = "reject" /\ session[c] # "ringing"
               \/ b.kind = "end" /\ c \notin InMap
               \/ b.kind \notin {"reject", "end", "sync"}
            /\ UNCHANGED <<toPage, session, finishing>>
  <2>1. \A d \in CallId : b \in {Msg("end", d), Msg("reject", d)} => d \notin InMap
    BY <1>7, <1>9, <1>12 DEF InMap
  <2>2. QED
    BY <1>1, <1>12, <2>1, GatewayIgnoresFollows DEF b
<1>13. QED
  BY <1>4, <1>5, <1>6, <1>10, <1>11, <1>12 DEF GatewayHandles, b, c

-----------------------------------------------------------------------------

LEMMA ClientInitFollows == ClientInit => FollowInv
<1> SUFFICES ASSUME ClientInit PROVE FollowInv
  OBVIOUS
<1>1. MicInv
  BY ClientInitMic
<1>2. /\ page.call = NoCall /\ page.terminal = {} /\ page.socketTimer = FALSE
      /\ tasks = {} /\ toBackend = <<>> /\ toPage = <<>> /\ socketOpen = FALSE
      /\ \A c \in CallId : session[c] = "unused"
  BY DEF ClientInit
<1>3. InMap = {} /\ Over(page.call) /\ ~Live(page.call)
  BY <1>2 DEF InMap, NoCall, Over, Live
<1>4. InOrder(toPage, page.terminal \union {page.call.id}, InMap)
      /\ EndsFollow(toPage, Lost, page.terminal)
  BY <1>2, EmptyIsOrdered DEF EndsFollow
<1>5. OneInMap /\ LeftIsOver /\ MapIsShown
  BY <1>2, <1>3 DEF OneInMap, LeftIsOver, MapIsShown
<1>6. ShownIsInMap /\ ClosedIsOver /\ RefusalFits /\ SyncComes
  BY <1>2, <1>3, NothingTold DEF ShownIsInMap, ClosedIsOver, RefusalFits, SyncComes, Shows
<1>7. QED
  BY <1>1, <1>4, <1>5, <1>6 DEF FollowInv, Follows

LEMMA FollowsIsStable ==
    ASSUME Follows, UNCHANGED clientVars
    PROVE  Follows'
BY DEF clientVars, backend, Follows, OneInMap, LeftIsOver, MapIsShown, ShownIsInMap, ClosedIsOver,
       RefusalFits, SyncComes, InMap, Lost, Shows

LEMMA PageActsFollows ==
    ASSUME Following, PageActs
    PROVE  Follows'
<1>1. ASSUME NEW x \in tasks,
             SocketUnavailable(x) \/ MicOpens(x) \/ MicFails(x) \/ AckTimesOut(x)
      PROVE  Follows'
  <2>1. CASE MicOpens(x)
    BY <2>1, MicOpensForStartFollows, MicOpensForAcceptFollows, MicOpensForOthersFollows
  <2>2. QED
    BY <1>1, <2>1, SocketUnavailableFollows, MicFailsFollows, AckTimesOutFollows
<1>2. CASE StartCall \/ AcceptCall \/ HangUp \/ DismissCall
  BY <1>2, StartCallFollows, AcceptCallFollows, HangUpFollows, DismissCallFollows
<1>3. CASE PeerConnects \/ PeerDrops \/ PeerTimerFires \/ SocketTimerFires
  BY <1>3, PeerConnectsFollows, PeerDropsFollows, PeerTimerFiresFollows, SocketTimerFiresFollows
<1>4. CASE SocketOpens \/ SocketCloses
  BY <1>4, SocketOpensFollows, SocketClosesFollows
<1>5. QED
  BY <1>1, <1>2, <1>3, <1>4 DEF PageActs

LEMMA ClientNextFollows ==
    ASSUME FollowInv, [ClientNext]_clientVars
    PROVE  FollowInv'
<1>1. MicInv /\ MicInv'
  BY ClientNextKeepsMic DEF FollowInv
<1>2. CASE UNCHANGED clientVars
  <2>1. UNCHANGED overtaken
    BY <1>2 DEF clientVars
  <2>2. QED
    BY <1>1, <1>2, <2>1, FollowsIsStable DEF FollowInv
<1>3. ASSUME ClientNext, ~overtaken' PROVE Follows'
  <2>1. EndedInv /\ ~overtaken
    BY <1>1, <1>3, OvertakenStays DEF MicInv
  <2>2. Following
    BY <1>1, <1>3, <2>1 DEF FollowInv, MicInv, Orderly, Following
  <2>3. CASE PageActs
    BY <2>2, <2>3, PageActsFollows
  <2>4. CASE HandleEvent
    BY <2>2, <2>4, HandleEventFollows
  <2>5. CASE GatewayHandles
    BY <2>2, <2>5, GatewayHandlesFollows
  <2>6. ASSUME NEW c \in CallId, StartStored(c) \/ AcceptStored(c) \/ FinishStored(c) \/ Peer(c)
        PROVE  Follows'
    BY <2>2, <2>6, StartStoredFollows, AcceptStoredFollows, FinishStoredFollows, PeerFollows
  <2>7. CASE GatewayRestarts
    BY <2>2, <2>7, GatewayRestartsFollows
  <2>8. QED
    BY <1>3, <2>3, <2>4, <2>5, <2>6, <2>7 DEF ClientNext, PageActs
<1>4. QED
  BY <1>1, <1>2, <1>3 DEF FollowInv

\* When nothing is on its way, the page shows the one call that the gateway
\* knows of the user, or none: whatever dropped, timed out or crossed between
\* AudioCallProvider.tsx and chat.gateway.ts before, in behaviours in which no
\* handler was overtaken, for any number of calls in both directions.
THEOREM ClientPageFollowsGateway == ClientSpec => []PageFollowsGateway
<1>1. ASSUME FollowInv PROVE PageFollowsGateway
  <2> SUFFICES ASSUME Quiet, ~overtaken
               PROVE  InMap = IF Live(page.call) THEN {page.call.id} ELSE {}
    BY DEF PageFollowsGateway
  <2>1. MapIsShown /\ ShownIsInMap /\ StreamComes(page, tasks) /\ page \in ClientPage
    BY <1>1 DEF FollowInv, MicInv, MicHolds, MicIsSound, Follows, EndedInv, ClientTypes
  <2>2. /\ socketOpen /\ tasks = {} /\ \A A : ~Has(toBackend, A) /\ ~Has(toPage, A)
        /\ \A c \in CallId : finishing[c] = "no"
    BY DEF Quiet, Has
  <2>3. InMap \subseteq CallId
    BY DEF InMap
  <2>4. ASSUME NEW c \in InMap PROVE Shows(c)
    BY <2>1, <2>2, <2>3 DEF MapIsShown
  <2>5. ASSUME Live(page.call) PROVE page.call.id \in InMap
    <3>1. page.call.id # None
      BY <2>1, <2>2, <2>5 DEF StreamComes
    <3>2. page.call.id \in CallId
      BY <2>1, <2>5, <3>1 DEF ClientPage, Call, NoCall
    <3>3. Shows(page.call.id)
      BY <2>5 DEF Shows
    <3>4. page.call.id \notin Lost
      BY <2>1, <2>2, <3>3 DEF ShownIsInMap
    <3>5. QED
      BY <2>2, <3>2, <3>4 DEF Lost
  <2>6. QED
    BY <2>4, <2>5 DEF Shows
<1>2. QED
  BY <1>1, ClientInitFollows, ClientNextFollows, PTL DEF ClientSpec
=============================================================================
