------------------------------ MODULE Messages ------------------------------
(***************************************************************************)
(* The messages of one conversation in ConversationsService                *)
(* (backend/src/conversations/conversations.service.ts): sending with a    *)
(* clientMessageId, read positions, edits and deletions.  Messages and     *)
(* participants live in memory and are written through to PostgreSQL; the  *)
(* participants are fixed here, all may send, and none has hidden the      *)
(* conversation.                                                           *)
(*                                                                         *)
(* A handler runs without interruption up to its transaction.              *)
(*   - createMessage and markAsRead/markAsUnread use                       *)
(*     persistConversationState, whose first statement updates the row of  *)
(*     the conversation: the transaction then holds the row lock, and only *)
(*     now reads each participant's lastReadAt from memory to write it     *)
(*     ("sent", "locked", then committed).  Groups models how it reads and *)
(*     writes the participants one after another.                          *)
(*   - updateMessage and deleteMessage change the message in memory first; *)
(*     persistMessageUpdate reads the message again when its transaction   *)
(*     has begun ("sent", "begun", "stored").                              *)
(* Time is a counter: createdAt and lastReadAt are compared, nothing else. *)
(***************************************************************************)
EXTENDS Faults, Integers, Sequences, FiniteSets

CONSTANTS
    User,           \* the participants
    Attempt,        \* requests to send a message; also the id of the message
    From,           \* From[a]: the sender
    Key,            \* Key[a]: the clientMessageId
    Body,           \* Body[a]: the content
    Upload,         \* the attempts of createMessageWithAttachments
    Wording,        \* contents of messages
    Empty,          \* the content of a deleted message
    Marker,         \* bound: markAsRead/markAsUnread requests at once
    Changer,        \* bound: updateMessage/deleteMessage requests at once
    MaxTime         \* bound: the last value of the clock

ASSUME MessageConstants ==
    /\ From \in [Attempt -> User]
    /\ Body \in [Attempt -> Wording]
    /\ DOMAIN Key = Attempt
    /\ Empty \notin Wording
    /\ Upload \subseteq Attempt
    /\ MaxTime \in Nat \ {0}

ASSUME AttemptsAreFinite == IsFiniteSet(Attempt)

VARIABLES
    now,            \* the clock
    log,            \* messages of the conversation, in the order of memory
    text,           \* the content of each message in memory
    lastRead,       \* lastReadAt of each participant in memory, 0 for null
    stamp,          \* createdAt of each message
    rows,           \* messages in the table
    dbText,         \* the content of each message in the table
    dbRead,         \* lastReadAt of each participant in the table
    creating,       \* the transaction of each createMessage
    marking,        \* the transactions of markAsRead and markAsUnread
    written,        \* lastReadAt as read by the holder of the row lock
    changing,       \* the transactions of updateMessage and deleteMessage
    answer,         \* what each attempt to send was answered
    announced       \* messages whose deletion was broadcast

vars == <<now, log, text, lastRead, stamp, rows, dbText, dbRead,
          creating, marking, written, changing, answer, announced>>

Content == Wording \union {Empty}

Time == 0 .. MaxTime

Query == {"idle", "sent", "locked", "begun", "stored"}

Answer == {"none", "created", "first", "conflict", "refused", "failed"}

Change == [query : {"sent", "begun", "stored"}, of : Attempt, as : Content]

NoChange == [query |-> "idle"]

InLog == {log[i] : i \in DOMAIN log}

TypeOK ==
    /\ now \in Time
    /\ log \in Seq(Attempt)
    /\ text \in [Attempt -> Content]
    /\ lastRead \in [User -> Time]
    /\ stamp \in [Attempt -> Time]
    /\ rows \subseteq Attempt
    /\ dbText \in [Attempt -> Content]
    /\ dbRead \in [User -> Time]
    /\ creating \in [Attempt -> Query]
    /\ marking \in [Marker -> Query]
    /\ written \in [User -> Time]
    /\ changing \in [Changer -> Change \union {NoChange}]
    /\ answer \in [Attempt -> Answer]
    /\ announced \subseteq Attempt

Init ==
    /\ now = 1
    /\ log = <<>>
    /\ text = Body
    /\ lastRead = [u \in User |-> 0]
    /\ stamp = [a \in Attempt |-> 0]
    /\ rows = {}
    /\ dbText = Body
    /\ dbRead = [u \in User |-> 0]
    /\ creating = [a \in Attempt |-> "idle"]
    /\ marking = [k \in Marker |-> "idle"]
    /\ written = [u \in User |-> 0]
    /\ changing = [e \in Changer |-> NoChange]
    /\ answer = [a \in Attempt |-> "none"]
    /\ announced = {}

-----------------------------------------------------------------------------
\* The messages of S with the sender and clientMessageId of attempt a: in
\* memory findMessageByClientId, in the table the unique index.
Twins(a, S) == {b \in S : From[b] = From[a] /\ Key[b] = Key[a]}

\* A transaction holds the lock on the row of the conversation.
RowLocked ==
    \/ \E a \in Attempt : creating[a] = "locked"
    \/ \E k \in Marker : marking[k] = "locked"

\* The participants are written one after the other; those of "late" are
\* reached after the last change of their lastReadAt.
StoreParticipants ==
    \E late \in SUBSET User :
       dbRead' = [u \in User |-> IF u \in late THEN lastRead[u] ELSE written[u]]

Tick ==
    /\ now < MaxTime
    /\ now' = now + 1
    /\ UNCHANGED <<log, text, lastRead, stamp, rows, dbText, dbRead, creating,
                   marking, written, changing, answer, announced>>

\* Mutant of CreateMessage: a message still on its way counts as the first.
CreateMessageHasty(a) ==
    LET found == Twins(a, InLog \union {b \in Attempt : creating[b] # "idle"})
    IN
    /\ answer[a] = "none" /\ creating[a] = "idle"
    /\ \/ /\ \E b \in found :
                answer' = [answer EXCEPT
                              ![a] = IF text[b] = Body[a] THEN "first"
                                                          ELSE "conflict"]
          /\ UNCHANGED <<stamp, creating>>
       \/ /\ found = {}
          /\ stamp' = [stamp EXCEPT ![a] = now]
          /\ creating' = [creating EXCEPT ![a] = "sent"]
          /\ UNCHANGED answer
    /\ UNCHANGED <<now, log, text, lastRead, rows, dbText, dbRead,
                   marking, written, changing, announced>>

\* createMessage and createMessageWithAttachments up to the transaction.
CreateMessage(a) ==
    /\ answer[a] = "none" /\ creating[a] = "idle"
    /\ \/ /\ \E b \in Twins(a, InLog) :
                answer' = [answer EXCEPT
                              ![a] = IF text[b] = Body[a] THEN "first"
                                                          ELSE "conflict"]
          /\ UNCHANGED <<stamp, creating>>
       \/ /\ Twins(a, InLog) = {}
          /\ stamp' = [stamp EXCEPT ![a] = now]
          /\ creating' = [creating EXCEPT ![a] = "sent"]
          /\ UNCHANGED answer
    /\ UNCHANGED <<now, log, text, lastRead, rows, dbText, dbRead,
                   marking, written, changing, announced>>

LockForMessage(a) ==
    /\ creating[a] = "sent"
    /\ ~RowLocked
    /\ creating' = [creating EXCEPT ![a] = "locked"]
    /\ written' = lastRead
    /\ UNCHANGED <<now, log, text, lastRead, stamp, rows, dbText, dbRead,
                   marking, changing, answer, announced>>

\* Mutants of StoreMessage: there is no unique index; its refusal is swallowed.
StoreMessageUnchecked(a) ==
    /\ creating[a] = "locked"
    /\ rows' = rows \union {a}
    /\ IF a \in Upload THEN UNCHANGED dbRead ELSE StoreParticipants
    /\ creating' = [creating EXCEPT ![a] = "stored"]
    /\ UNCHANGED <<now, log, text, lastRead, stamp, dbText, marking,
                   written, changing, answer, announced>>

StoreMessageUnanswered(a) ==
    /\ creating[a] = "locked"
    /\ Twins(a, rows) = {}
    /\ StoreMessageUnchecked(a)

\* The transaction inserts the message and commits, or the unique index
\* refuses it: then all of it is rolled back and createMessage throws.  That
\* of a message with files leaves the participants alone.
StoreMessage(a) ==
    /\ creating[a] = "locked"
    /\ \/ /\ Twins(a, rows) = {}
          /\ rows' = rows \union {a}
          /\ IF a \in Upload THEN UNCHANGED dbRead ELSE StoreParticipants
          /\ creating' = [creating EXCEPT ![a] = "stored"]
          /\ UNCHANGED answer
       \/ /\ Twins(a, rows) # {}
          /\ creating' = [creating EXCEPT ![a] = "idle"]
          /\ answer' = [answer EXCEPT ![a] = "refused"]
          /\ UNCHANGED <<rows, dbRead>>
    /\ UNCHANGED <<now, log, text, lastRead, stamp, dbText, marking,
                   written, changing, announced>>

\* Mutant of ResumeMessage: the transaction is not awaited.
ResumeMessageEarly(a) ==
    /\ creating[a] \in {"sent", "stored"}
    /\ log' = Append(log, a)
    /\ creating' = [creating EXCEPT ![a] = "idle"]
    /\ answer' = [answer EXCEPT ![a] = "created"]
    /\ UNCHANGED <<now, text, lastRead, stamp, rows, dbText, dbRead,
                   marking, written, changing, announced>>

\* createMessage goes on: the message enters memory and is broadcast.
ResumeMessage(a) ==
    /\ creating[a] = "stored"
    /\ log' = Append(log, a)
    /\ creating' = [creating EXCEPT ![a] = "idle"]
    /\ answer' = [answer EXCEPT ![a] = "created"]
    /\ UNCHANGED <<now, text, lastRead, stamp, rows, dbText, dbRead,
                   marking, written, changing, announced>>

\* The transaction is rolled back, or its commit is answered too late.
FailMessage(a) ==
    /\ DbMayFail
    /\ creating[a] # "idle"
    /\ creating' = [creating EXCEPT ![a] = "idle"]
    /\ answer' = [answer EXCEPT ![a] = "failed"]
    /\ UNCHANGED <<now, log, text, lastRead, stamp, rows, dbText, dbRead,
                   marking, written, changing, announced>>

-----------------------------------------------------------------------------
\* markAsRead and markAsUnread up to the transaction.
Mark(k, u, t) ==
    /\ marking[k] = "idle"
    /\ lastRead' = [lastRead EXCEPT ![u] = t]
    /\ marking' = [marking EXCEPT ![k] = "sent"]
    /\ UNCHANGED <<now, log, text, stamp, rows, dbText, dbRead, creating,
                   written, changing, answer, announced>>

MarkAsRead(k, u) == Mark(k, u, now)

MarkAsUnread(k, u) == \E a \in InLog : Mark(k, u, stamp[a] - 1)

\* Mutant of LockForMark: the participants are not read under the lock.
LockForMarkStale(k) ==
    /\ marking[k] = "sent"
    /\ ~RowLocked
    /\ marking' = [marking EXCEPT ![k] = "locked"]
    /\ UNCHANGED <<now, log, text, lastRead, stamp, rows, dbText, dbRead,
                   creating, written, changing, answer, announced>>

LockForMark(k) ==
    /\ marking[k] = "sent"
    /\ ~RowLocked
    /\ marking' = [marking EXCEPT ![k] = "locked"]
    /\ written' = lastRead
    /\ UNCHANGED <<now, log, text, lastRead, stamp, rows, dbText, dbRead,
                   creating, changing, answer, announced>>

StoreMark(k) ==
    /\ marking[k] = "locked"
    /\ StoreParticipants
    /\ marking' = [marking EXCEPT ![k] = "idle"]
    /\ UNCHANGED <<now, log, text, lastRead, stamp, rows, dbText, creating,
                   written, changing, answer, announced>>

FailMark(k) ==
    /\ DbMayFail
    /\ marking[k] # "idle"
    /\ marking' = [marking EXCEPT ![k] = "idle"]
    /\ UNCHANGED <<now, log, text, lastRead, stamp, rows, dbText, dbRead,
                   creating, written, changing, answer, announced>>

-----------------------------------------------------------------------------
\* updateMessage, deleteMessage and deleteMessageAsAdmin (t = Empty) up to
\* the transaction.
ChangeMessage(e, a, t) ==
    /\ changing[e] = NoChange
    /\ a \in InLog
    /\ text[a] # Empty
    /\ text' = [text EXCEPT ![a] = t]
    /\ changing' = [changing EXCEPT
                       ![e] = [query |-> "sent", of |-> a, as |-> t]]
    /\ UNCHANGED <<now, log, lastRead, stamp, rows, dbText, dbRead, creating,
                   marking, written, answer, announced>>

\* The transaction has begun: the callback reads the message from memory.
BeginChange(e) ==
    /\ changing[e].query = "sent"
    /\ changing' = [changing EXCEPT ![e].query = "begun",
                                    ![e].as = text[changing[e].of]]
    /\ UNCHANGED <<now, log, text, lastRead, stamp, rows, dbText, dbRead,
                   creating, marking, written, answer, announced>>

\* It commits; its last update needs the row of the conversation.
StoreChange(e) ==
    /\ changing[e].query = "begun"
    /\ ~RowLocked
    /\ dbText' = [dbText EXCEPT ![changing[e].of] = changing[e].as]
    /\ changing' = [changing EXCEPT ![e].query = "stored"]
    /\ UNCHANGED <<now, log, text, lastRead, stamp, rows, dbRead,
                   creating, marking, written, answer, announced>>

\* Mutant of ResumeChange: the transaction is not awaited.
ResumeChangeEarly(e) ==
    /\ changing[e].query \in {"begun", "stored"}
    /\ announced' = IF text[changing[e].of] = Empty
                    THEN announced \union {changing[e].of} ELSE announced
    /\ changing' = [changing EXCEPT ![e] = NoChange]
    /\ UNCHANGED <<now, log, text, lastRead, stamp, rows, dbText, dbRead,
                   creating, marking, written, answer>>

\* The handler goes on and broadcasts the message as it is in memory.
ResumeChange(e) ==
    /\ changing[e].query = "stored"
    /\ announced' = IF text[changing[e].of] = Empty
                    THEN announced \union {changing[e].of} ELSE announced
    /\ changing' = [changing EXCEPT ![e] = NoChange]
    /\ UNCHANGED <<now, log, text, lastRead, stamp, rows, dbText, dbRead,
                   creating, marking, written, answer>>

FailChange(e) ==
    /\ DbMayFail
    /\ changing[e] # NoChange
    /\ changing' = [changing EXCEPT ![e] = NoChange]
    /\ UNCHANGED <<now, log, text, lastRead, stamp, rows, dbText, dbRead,
                   creating, marking, written, answer, announced>>

-----------------------------------------------------------------------------
\* The orders in which onModuleInit may read the messages of S.
OrdersOf(S) ==
    {s \in [1 .. Cardinality(S) -> S] :
        \A i, j \in DOMAIN s : i < j => s[i] # s[j] /\ stamp[s[i]] <= stamp[s[j]]}

\* The process is gone with its handlers; onModuleInit loads the table.
RestartBackend ==
    /\ log' \in OrdersOf(rows)
    /\ text' = [a \in Attempt |-> IF a \in rows THEN dbText[a] ELSE text[a]]
    /\ lastRead' = dbRead
    /\ creating' = [a \in Attempt |-> "idle"]
    /\ marking' = [k \in Marker |-> "idle"]
    /\ changing' = [e \in Changer |-> NoChange]
    /\ answer' = [a \in Attempt |-> IF creating[a] # "idle" THEN "failed"
                                                           ELSE answer[a]]
    /\ UNCHANGED <<now, stamp, rows, dbText, dbRead, written, announced>>

Restart == MayRestart /\ RestartBackend

Next ==
    \/ Tick
    \/ \E a \in Attempt :
          \/ CreateMessage(a) \/ LockForMessage(a) \/ StoreMessage(a)
          \/ ResumeMessage(a) \/ FailMessage(a)
    \/ \E k \in Marker :
          \/ \E u \in User : MarkAsRead(k, u) \/ MarkAsUnread(k, u)
          \/ LockForMark(k) \/ StoreMark(k) \/ FailMark(k)
    \/ \E e \in Changer :
          \/ \E a \in Attempt, t \in Content : ChangeMessage(e, a, t)
          \/ BeginChange(e) \/ StoreChange(e) \/ ResumeChange(e)
          \/ FailChange(e)
    \/ Restart

Spec == Init /\ [][Next]_vars

(***************************************************************************)
(* PostgreSQL answers, and grants a row lock to whoever waits for it in    *)
(* turn, however many other transactions ask for it too.                   *)
(***************************************************************************)
Fairness ==
    /\ \A a \in Attempt :
          /\ SF_vars(LockForMessage(a))
          /\ WF_vars(StoreMessage(a)) /\ WF_vars(ResumeMessage(a))
    /\ \A k \in Marker :
          /\ SF_vars(LockForMark(k)) /\ WF_vars(StoreMark(k))
    /\ \A e \in Changer :
          /\ WF_vars(BeginChange(e))
          /\ SF_vars(StoreChange(e)) /\ WF_vars(ResumeChange(e))

FairSpec == Spec /\ Fairness

-----------------------------------------------------------------------------
(***************************************************************************)
(* Properties                                                              *)
(***************************************************************************)

\* A clientMessageId makes one message: however the attempts of a sender
\* overlap, fail and are repeated, neither memory nor the table ever holds
\* two messages with one key, and no message is in memory twice.
SentOnce ==
    /\ \A a \in rows : Twins(a, rows) = {a}
    /\ \A i, j \in DOMAIN log :
          i # j => log[i] # log[j] /\ log[j] \notin Twins(log[i], InLog)

\* What the participants were shown is in the table: no restart and no failed
\* query takes a delivered message back.
DeliveredIsStored == InLog \subseteq rows

\* Whoever was answered with a message finds it: neither a failed query nor a
\* restart makes an answer untrue.
AnsweredIsDelivered ==
    \A a \in Attempt :
       /\ answer[a] = "created" => a \in InLog
       /\ answer[a] = "first" => Twins(a, InLog) # {}

\* Once no mark is under way the table holds the read positions of memory:
\* every change is followed by a transaction that reads it after it has the
\* row lock, so neither a slower one nor that of a message on its way can put
\* an older position back.  (A failed one may lose it.)
ReadPositionIsStored ==
    (\A k \in Marker : marking[k] = "idle") => dbRead = lastRead

\* A deletion that was broadcast is never undone, not even by a restart.
DeletionIsFinal == \A a \in announced : text[a] = Empty

\* Once no change of a message is under way the table holds its content.
ContentIsStored ==
    (\A e \in Changer : changing[e] = NoChange)
       => \A a \in InLog : dbText[a] = text[a]

\* What memory has once the requests are over, the table has.
MemoryIsStored == ReadPositionIsStored /\ ContentIsStored

\* Every attempt to send is answered, whatever waits for the row lock.
AttemptIsAnswered ==
    \A a \in Attempt : creating[a] # "idle" ~> answer[a] # "none"

=============================================================================
