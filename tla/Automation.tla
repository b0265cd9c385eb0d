----------------------------- MODULE Automation -----------------------------
(***************************************************************************)
(* The groups that tickets of an outside system create: the webhook        *)
(* adapter with its timeout and its retries (java-webhook), and the        *)
(* backend that creates the automation bot, the group of an externalRef,   *)
(* its management conversation and its first message (backend/src/bot,     *)
(* createExternalGroupConversation and createGroup of                      *)
(* conversations.service.ts, ensureAutomationBot of users.service.ts).     *)
(*                                                                         *)
(* Each write of the backend is asked for in one step, executed by the     *)
(* database in another and answered in a third.  An attempt that the       *)
(* adapter has given up on goes on in the backend.  Secrets and bodies are *)
(* valid, and the participants of a ticket are registered.                 *)
(***************************************************************************)
EXTENDS Faults, Naturals, FiniteSets

CONSTANTS
    Ticket,         \* tickets of the outside system, the values of externalRef
    Group,          \* bound: ids of the groups that are ever stored
    Delivery,       \* bound: webhook calls the adapter handles at once
    Request,        \* bound: requests under way in the backend at once
    MaxAttempts,    \* ello.chat.max-attempts
    None            \* no ticket, no group, no request

ASSUME AutomationConstants ==
    /\ None \notin Ticket \union Group \union Delivery \union Request
    /\ MaxAttempts \in 1 .. 3

VARIABLES
    adapter,        \* what each webhook call is doing
    req,            \* the requests under way in the backend
    bot,            \* UsersService.users has the bot
    botCreation,    \* automationBotCreation: the request that creates the bot
    groups,         \* externalRef of each group in memory
    rooms,          \* groups whose management conversation is in memory
    pending,        \* externalGroupCreations: the request that creates the group
    storedBot, storedGroups, storedRooms, storedMessages,
    acknowledged,   \* history: tickets the outside system got a 201 for
    cutShort,       \* history: tickets whose creation failed or was interrupted
    botCut          \* history: the creation of the bot failed, up to a restart

maps == <<bot, botCreation, groups, rooms, pending>>

tables == <<storedBot, storedGroups, storedRooms, storedMessages>>

history == <<acknowledged, cutShort, botCut>>

automationVars == <<adapter, req, maps, tables, history>>

BotStep == {"hashBot", "insertBot", "botStored"}

GroupStep == {"insertGroup", "groupStored", "insertRoom", "roomStored",
              "insertMessage", "messageStored"}

Step == {"idle", "awaitBot", "ready", "awaitGroup", "done"} \union BotStep \union GroupStep

Result == {"created", "reused", "failed", "conflict", "refused"}

ASSUME NoneIsNoResult == None \notin Result

Idle == [step |-> "idle", delivery |-> None, ticket |-> None, group |-> None,
         result |-> None]

Rest == [ticket |-> None, attempt |-> 1, call |-> None]

AutomationTypeOK ==
    /\ adapter \in [Delivery -> [ticket : Ticket \union {None},
                                 attempt : 1 .. MaxAttempts,
                                 call : Request \union {None}]]
    /\ req \in [Request -> [step : Step, delivery : Delivery \union {None},
                            ticket : Ticket \union {None}, group : Group \union {None},
                            result : Result \union {None}]]
    /\ bot \in BOOLEAN /\ storedBot \in BOOLEAN
    /\ botCreation \in Request \union {None}
    /\ groups \in [Group -> Ticket \union {None}]
    /\ storedGroups \in [Group -> Ticket \union {None}]
    /\ rooms \subseteq Group /\ storedRooms \subseteq Group
    /\ storedMessages \subseteq Group
    /\ pending \in [Ticket -> Request \union {None}]
    /\ acknowledged \subseteq Ticket /\ cutShort \subseteq Ticket
    /\ botCut \in BOOLEAN

AutomationInit ==
    /\ adapter = [d \in Delivery |-> Rest]
    /\ req = [h \in Request |-> Idle]
    /\ bot = FALSE /\ storedBot = FALSE
    /\ botCreation = None
    /\ groups = [g \in Group |-> None] /\ storedGroups = groups
    /\ rooms = {} /\ storedRooms = {} /\ storedMessages = {}
    /\ pending = [t \in Ticket |-> None]
    /\ acknowledged = {} /\ cutShort = {} /\ botCut = FALSE

-----------------------------------------------------------------------------
\* The outside system reports a ticket, maybe again (handleTicketCreated).
Deliver(d, t) ==
    /\ adapter[d].ticket = None
    /\ adapter' = [adapter EXCEPT ![d].ticket = t]
    /\ UNCHANGED <<req, maps, tables, history>>

\* An attempt of createGroup reaches the backend: ensureAutomationBot.
Attempt(d, h) ==
    /\ adapter[d].ticket # None
    /\ adapter[d].call = None
    /\ req[h].step = "idle"
    /\ adapter' = [adapter EXCEPT ![d].call = h]
    /\ req' = [req EXCEPT ![h] =
          [Idle EXCEPT !.delivery = d, !.ticket = adapter[d].ticket,
                       !.step = IF bot THEN "ready"
                                ELSE IF botCreation # None THEN "awaitBot"
                                ELSE "hashBot"]]
    /\ botCreation' = IF ~bot /\ botCreation = None THEN h ELSE botCreation
    /\ UNCHANGED <<bot, groups, rooms, pending, tables, history>>

\* The retry loop, after a 5xx or an exception: the last failure is a 502.
AfterFailure(d) ==
    IF adapter[d].attempt = MaxAttempts THEN Rest
    ELSE [adapter[d] EXCEPT !.attempt = @ + 1, !.call = None]

\* No connection, a connection reset, or the read timeout.
TimeOut(d) ==
    /\ adapter[d].ticket # None
    /\ adapter' = [adapter EXCEPT ![d] = AfterFailure(d)]
    /\ UNCHANGED <<req, maps, tables, history>>

\* The response of request h: whoever still waits for it gets it.
Respond(h) ==
    LET d == req[h].delivery
        ok == req[h].result \in {"created", "reused"}
        awaited == adapter[d].call = h
    IN /\ req[h].step = "done"
       /\ adapter' = IF ~awaited THEN adapter
                     ELSE [adapter EXCEPT ![d] =
                             IF ok \/ req[h].result = "refused" THEN Rest
                             ELSE AfterFailure(d)]
       /\ acknowledged' = IF awaited /\ ok THEN acknowledged \union {req[h].ticket}
                          ELSE acknowledged
       /\ req' = [req EXCEPT ![h] = Idle]
       /\ UNCHANGED <<maps, tables, cutShort, botCut>>

-----------------------------------------------------------------------------
Proceed(h, step) == req' = [req EXCEPT ![h].step = step]

\* bcrypt.hash is done, and create asks for the insert.
BotHashed(h) ==
    /\ req[h].step = "hashBot"
    /\ Proceed(h, "insertBot")
    /\ UNCHANGED <<adapter, maps, tables, history>>

\* Every request that awaits the creation of the bot fails as request h does.
FailBot(h, result) ==
    /\ botCreation' = None
    /\ req' = [i \in Request |-> IF i = h \/ req[i].step = "awaitBot"
                 THEN [req[i] EXCEPT !.step = "done", !.result = result]
                 ELSE req[i]]

\* users.email is unique: a bot that is stored but not in memory is a conflict.
InsertBot(h) ==
    /\ req[h].step = "insertBot"
    /\ IF storedBot
          THEN FailBot(h, "refused") /\ UNCHANGED storedBot
          ELSE /\ storedBot' = TRUE
               /\ Proceed(h, "botStored")
               /\ UNCHANGED botCreation
    /\ UNCHANGED <<adapter, bot, groups, rooms, pending, storedGroups, storedRooms,
                   storedMessages, history>>

FinishBot(h) ==
    /\ req[h].step = "botStored"
    /\ bot' = TRUE
    /\ botCreation' = None
    /\ req' = [i \in Request |-> IF i = h \/ req[i].step = "awaitBot"
                 THEN [req[i] EXCEPT !.step = "ready"] ELSE req[i]]
    /\ UNCHANGED <<adapter, groups, rooms, pending, tables, history>>

-----------------------------------------------------------------------------
GroupsOf(t) == {g \in Group : groups[g] = t}

NewGroup(g) ==
    /\ storedGroups[g] = None
    /\ \A h \in Request : req[h].group # g

\* Mutant of CreateGroup: the creations under way are not looked up.
CreateGroupUnregistered(h) ==
    LET t == req[h].ticket
    IN /\ req[h].step = "ready"
       /\ IF GroupsOf(t) # {}
             THEN /\ req' = [req EXCEPT ![h].step = "done", ![h].result = "reused"]
                  /\ UNCHANGED pending
             ELSE /\ \E g \in Group :
                        /\ NewGroup(g)
                        /\ req' = [req EXCEPT ![h].step = "insertGroup", ![h].group = g]
                  /\ pending' = [pending EXCEPT ![t] = h]
       /\ UNCHANGED <<adapter, bot, botCreation, groups, rooms, tables, history>>

\* createExternalGroupConversation: the group exists, or is being created, or
\* createGroup begins and asks for its first insert.
CreateGroup(h) ==
    LET t == req[h].ticket
    IN /\ req[h].step = "ready"
       /\ \/ /\ GroupsOf(t) # {}
             /\ req' = [req EXCEPT ![h].step = "done", ![h].result = "reused"]
             /\ UNCHANGED pending
          \/ /\ GroupsOf(t) = {}
             /\ pending[t] # None
             /\ Proceed(h, "awaitGroup")
             /\ UNCHANGED pending
          \/ /\ GroupsOf(t) = {}
             /\ pending[t] = None
             /\ \E g \in Group :
                   /\ NewGroup(g)
                   /\ req' = [req EXCEPT ![h].step = "insertGroup", ![h].group = g]
             /\ pending' = [pending EXCEPT ![t] = h]
       /\ UNCHANGED <<adapter, bot, botCreation, groups, rooms, tables, history>>

\* The creation by request h ends, and with it every request that awaits it.
EndCreation(h, own, others) ==
    LET t == req[h].ticket
    IN /\ pending' = [pending EXCEPT ![t] = None]
       /\ req' = [i \in Request |->
            IF i = h THEN [req[i] EXCEPT !.step = "done", !.result = own]
            ELSE IF req[i].step = "awaitGroup" /\ req[i].ticket = t
            THEN [req[i] EXCEPT !.step = "done", !.result = others]
            ELSE req[i]]

\* persistNewConversation of the group: externalRef is unique.
InsertGroup(h) ==
    /\ req[h].step = "insertGroup"
    /\ IF \E g \in Group : storedGroups[g] = req[h].ticket
          THEN EndCreation(h, "conflict", "conflict") /\ UNCHANGED storedGroups
          ELSE /\ storedGroups' = [storedGroups EXCEPT ![req[h].group] = req[h].ticket]
               /\ Proceed(h, "groupStored")
               /\ UNCHANGED pending
    /\ UNCHANGED <<adapter, bot, botCreation, groups, rooms, storedBot, storedRooms,
                   storedMessages, history>>

\* persistNewConversation of the management conversation.
BeginRoom(h) ==
    /\ req[h].step = "groupStored"
    /\ Proceed(h, "insertRoom")
    /\ UNCHANGED <<adapter, maps, tables, history>>

InsertRoom(h) ==
    /\ req[h].step = "insertRoom"
    /\ storedRooms' = storedRooms \union {req[h].group}
    /\ Proceed(h, "roomStored")
    /\ UNCHANGED <<adapter, maps, storedBot, storedGroups, storedMessages, history>>

\* Mutant of FinishGroup: the group enters memory as soon as it is stored.
FinishGroupEarly(h) ==
    /\ req[h].step \in {"groupStored", "insertRoom", "roomStored"}
    /\ groups' = [groups EXCEPT ![req[h].group] = req[h].ticket]
    /\ rooms' = rooms \union {req[h].group}
    /\ req' = [req EXCEPT ![h].step =
                 IF @ = "groupStored" THEN "insertRoom"
                 ELSE IF @ = "roomStored" THEN "insertMessage" ELSE @]
    /\ UNCHANGED <<adapter, bot, botCreation, pending, tables, history>>

\* Both conversations enter memory, and addInitialMessage asks for its insert.
FinishGroup(h) ==
    /\ req[h].step = "roomStored"
    /\ groups' = [groups EXCEPT ![req[h].group] = req[h].ticket]
    /\ rooms' = rooms \union {req[h].group}
    /\ Proceed(h, "insertMessage")
    /\ UNCHANGED <<adapter, bot, botCreation, pending, tables, history>>

InsertMessage(h) ==
    /\ req[h].step = "insertMessage"
    /\ storedMessages' = storedMessages \union {req[h].group}
    /\ Proceed(h, "messageStored")
    /\ UNCHANGED <<adapter, maps, storedBot, storedGroups, storedRooms, history>>

FinishMessage(h) ==
    /\ req[h].step = "messageStored"
    /\ EndCreation(h, "created", "reused")
    /\ UNCHANGED <<adapter, bot, botCreation, groups, rooms, tables, history>>

-----------------------------------------------------------------------------
\* Mutant of DbFails: a creation that failed stays registered.
DbFailsForgetful(h) ==
    /\ DbMayFail
    /\ req[h].step \in GroupStep
    /\ req' = [req EXCEPT ![h].step = "done", ![h].result = "failed"]
    /\ cutShort' = cutShort \union {req[h].ticket}
    /\ UNCHANGED <<adapter, maps, tables, acknowledged, botCut>>

\* A write fails, or was executed and its answer is lost.
DbFails(h) ==
    /\ DbMayFail
    /\ \/ /\ req[h].step \in {"insertBot", "botStored"}
          /\ FailBot(h, "failed")
          /\ botCut' = TRUE
          /\ UNCHANGED <<pending, cutShort>>
       \/ /\ req[h].step \in GroupStep
          /\ EndCreation(h, "failed", "failed")
          /\ cutShort' = cutShort \union {req[h].ticket}
          /\ UNCHANGED <<botCreation, botCut>>
    /\ UNCHANGED <<adapter, bot, groups, rooms, tables, acknowledged>>

\* onModuleInit; the connections of the adapter are reset.
Restart ==
    /\ MayRestart
    /\ bot' = storedBot
    /\ groups' = storedGroups
    /\ rooms' = storedRooms
    /\ botCreation' = None
    /\ pending' = [t \in Ticket |-> None]
    /\ req' = [h \in Request |-> Idle]
    /\ adapter' = [d \in Delivery |-> IF adapter[d].call = None THEN adapter[d]
                                      ELSE AfterFailure(d)]
    /\ cutShort' = cutShort \union {t \in Ticket : pending[t] # None}
    /\ botCut' = FALSE
    /\ UNCHANGED <<tables, acknowledged>>

-----------------------------------------------------------------------------
AutomationNext ==
    \/ \E d \in Delivery :
          \/ \E t \in Ticket : Deliver(d, t)
          \/ \E h \in Request : Attempt(d, h)
          \/ TimeOut(d)
    \/ \E h \in Request :
          \/ BotHashed(h) \/ InsertBot(h) \/ FinishBot(h)
          \/ CreateGroup(h) \/ InsertGroup(h)
          \/ BeginRoom(h) \/ InsertRoom(h) \/ FinishGroup(h)
          \/ InsertMessage(h) \/ FinishMessage(h)
          \/ Respond(h)
          \/ DbFails(h)
    \/ Restart

AutomationSpec == AutomationInit /\ [][AutomationNext]_automationVars

-----------------------------------------------------------------------------
Writing(t) == pending[t] # None /\ req[pending[t]].step \in {"insertMessage", "messageStored"}

\* A ticket the outside system was told of has its group, in memory and in
\* the table, whatever was lost or repeated.  Its management conversation and
\* its first message are there too, unless a creation was cut short.
AcknowledgedIsWhole ==
    \A t \in acknowledged :
       \E g \in Group :
          /\ groups[g] = t /\ storedGroups[g] = t
          /\ t \notin cutShort => /\ g \in rooms \intersect storedRooms
                                  /\ g \in storedMessages \/ Writing(t)

\* Attempts of one ticket share one creation: a repeated call meets the unique
\* index only if the answer of an earlier write was lost.
ConflictMeansLostAnswer ==
    \A h \in Request :
       /\ req[h].result = "conflict" => req[h].ticket \in cutShort
       /\ req[h].result = "refused" => botCut

\* What others await is under way: a creation registered for a ticket, and
\* that of the bot, belong to a request that will end it.
PendingIsUnderWay ==
    /\ \A t \in Ticket : pending[t] # None =>
          req[pending[t]].ticket = t /\ req[pending[t]].step \in GroupStep
    /\ botCreation # None => req[botCreation].step \in BotStep
    /\ \A h \in Request :
          /\ req[h].step = "awaitGroup" => pending[req[h].ticket] # None
          /\ req[h].step = "awaitBot" => botCreation # None

\* However calls overlap and repeat, one ticket has one creation, which all of
\* them wait for and whose outcome they share.
CreationsAreShared == ConflictMeansLostAnswer /\ PendingIsUnderWay
=============================================================================
