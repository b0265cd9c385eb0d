------------------------------ MODULE Tickets ------------------------------
(***************************************************************************)
(* TicketsService (backend/src/tickets/tickets.service.ts): support        *)
(* tickets and their activities, kept in memory and written through to     *)
(* PostgreSQL.                                                             *)
(*                                                                         *)
(* A request checks the ticket in memory and computes its next version     *)
(* without interruption, then awaits one transaction: the row is updated   *)
(* where its version is still the expected one, and the activities are     *)
(* inserted.  After that it puts the new version and the activities in     *)
(* memory.  A request is split in these three steps; any number of them    *)
(* overlap, on connections of their own.                                   *)
(*                                                                         *)
(* expectedVersion of a request is the version a client has read; a        *)
(* request with another version than that in memory is refused and changes *)
(* nothing, so only requests that name the version in memory are actions.  *)
(***************************************************************************)
EXTENDS Faults, TicketRecords, FiniteSets

CONSTANTS
    Request,        \* the requests that may be in progress at once
    MaxVersion,     \* bound: the highest version a request tries to write
    MayClear        \* TRUE: the development reset is enabled

ASSUME TicketSwitches ==
    /\ MaxVersion \in Nat
    /\ MayClear \in BOOLEAN

VARIABLES
    tickets,        \* TicketsService.tickets
    activities,     \* TicketsService.activities
    rows,           \* the table support_tickets
    entries,        \* the table support_ticket_activities, by createdAt
    issued,         \* ticket ids drawn by randomUUID
    requests,       \* the requests in progress
    clearing,       \* the deleteMany of clearAll
    unseen          \* tickets of which memory has missed a committed change:
                    \* the answer was lost, or the reset cleared the maps

vars == <<tickets, activities, rows, entries, issued, requests, clearing, unseen>>

Idle == [step |-> "idle"]

Query == {"idle", "sent", "stored"}

\* persistUpdate(expectedVersion, updated, newActivities), or the create.
Transaction == [step : {"sent", "stored"}, ticket : Ticket, expected : Nat,
                updated : TicketRecord, added : Seq(Activity)]

TypeOK ==
    /\ tickets \in [Ticket -> TicketRecord]
    /\ activities \in [Ticket -> Seq(Activity)]
    /\ rows \in [Ticket -> TicketRecord]
    /\ entries \in [Ticket -> Seq(Activity)]
    /\ issued \in SUBSET Ticket
    /\ requests \in [Request -> {Idle} \union Transaction]
    /\ clearing \in Query
    /\ unseen \in SUBSET Ticket

Init ==
    /\ tickets = [t \in Ticket |-> NoTicket]
    /\ activities = [t \in Ticket |-> <<>>]
    /\ rows = [t \in Ticket |-> NoTicket]
    /\ entries = [t \in Ticket |-> <<>>]
    /\ issued = {}
    /\ requests = [r \in Request |-> Idle]
    /\ clearing = "idle"
    /\ unseen = {}

-----------------------------------------------------------------------------
Exists(t) == tickets[t].version > 0

\* The request r sends its transaction.
Send(r, t, updated, added) ==
    /\ requests[r] = Idle
    /\ updated.version <= MaxVersion
    /\ requests' = [requests EXCEPT ![r] =
           [step |-> "sent", ticket |-> t, expected |-> tickets[t].version,
            updated |-> updated, added |-> added]]
    /\ UNCHANGED <<tickets, activities, rows, entries, clearing, unseen>>

CreateTicket(r, t) ==
    /\ t \notin issued
    /\ issued' = issued \union {t}
    /\ \E d \in Detail : Send(r, t, Created(d), CreatedActivities)

\* changeAssignment
ChangeAssignment(r, t, a, b) ==
    /\ Send(r, t, Assigned(tickets[t], b), AssignedActivities(tickets[t], a, b))
    /\ UNCHANGED issued

\* claim: claiming one's own ticket again changes nothing.
ClaimTicket(r, t, a) ==
    /\ Exists(t)
    /\ tickets[t].assignee = Nobody
    /\ ChangeAssignment(r, t, a, a)

AssignTicket(r, t, a) ==
    /\ Exists(t)
    /\ \E b \in Assignee : /\ b # tickets[t].assignee
                           /\ ChangeAssignment(r, t, a, b)

\* Mutant of UpdateTicket: any admin may change the ticket.
UpdateTicketByAnyone(r, t, a) ==
    /\ Exists(t)
    /\ \E s \in Status, d \in Detail :
          /\ s # tickets[t].status \/ d # tickets[t].details
          /\ Send(r, t, Updated(tickets[t], s, d),
                  UpdatedActivities(tickets[t], a, s, d))
    /\ UNCHANGED issued

UpdateTicket(r, t, a) ==
    /\ Exists(t)
    /\ tickets[t].assignee = a
    /\ \E s \in Status, d \in Detail :
          /\ s # tickets[t].status \/ d # tickets[t].details
          /\ Send(r, t, Updated(tickets[t], s, d),
                  UpdatedActivities(tickets[t], a, s, d))
    /\ UNCHANGED issued

\* Mutant of StoreTicket: the row is written whatever its version.
StoreTicketBlind(r) ==
    LET w == requests[r] IN
    /\ w.step = "sent"
    /\ rows' = [rows EXCEPT ![w.ticket] = w.updated]
    /\ entries' = [entries EXCEPT ![w.ticket] = @ \o w.added]
    /\ requests' = [requests EXCEPT ![r].step = "stored"]
    /\ UNCHANGED <<tickets, activities, issued, clearing, unseen>>

\* The transaction of persistUpdate, or the insert of create: the version
\* written counts, or, if the row has another version than expected (or is
\* gone), the request is answered with a conflict.
StoreTicket(r) ==
    LET w == requests[r] IN
    /\ w.step = "sent"
    /\ \/ /\ rows[w.ticket].version = w.expected
          /\ rows' = [rows EXCEPT ![w.ticket] = w.updated]
          /\ entries' = [entries EXCEPT ![w.ticket] = @ \o w.added]
          /\ requests' = [requests EXCEPT ![r].step = "stored"]
       \/ /\ rows[w.ticket].version # w.expected
          /\ requests' = [requests EXCEPT ![r] = Idle]
          /\ UNCHANGED <<rows, entries>>
    /\ UNCHANGED <<tickets, activities, issued, clearing, unseen>>

\* Mutants of ResumeTicket: the transaction is not awaited; the activities of
\* the ticket are replaced; the new version does not reach the map.
ResumeTicketEarly(r) ==
    LET w == requests[r] IN
    /\ w.step \in {"sent", "stored"}
    /\ tickets' = [tickets EXCEPT ![w.ticket] = w.updated]
    /\ activities' = [activities EXCEPT ![w.ticket] = @ \o w.added]
    /\ requests' = [requests EXCEPT ![r] = Idle]
    /\ UNCHANGED <<rows, entries, issued, clearing, unseen>>

ResumeTicketForgetful(r) ==
    LET w == requests[r] IN
    /\ w.step = "stored"
    /\ tickets' = [tickets EXCEPT ![w.ticket] = w.updated]
    /\ activities' = [activities EXCEPT ![w.ticket] = w.added]
    /\ requests' = [requests EXCEPT ![r] = Idle]
    /\ UNCHANGED <<rows, entries, issued, clearing, unseen>>

ResumeTicketUnseen(r) ==
    /\ requests[r].step = "stored"
    /\ requests' = [requests EXCEPT ![r] = Idle]
    /\ UNCHANGED <<tickets, activities, rows, entries, issued, clearing, unseen>>

\* persistUpdate after its transaction, or create after its insert.
ResumeTicket(r) ==
    LET w == requests[r] IN
    /\ w.step = "stored"
    /\ tickets' = [tickets EXCEPT ![w.ticket] = w.updated]
    /\ activities' = [activities EXCEPT
                         ![w.ticket] = IF w.expected = 0 THEN w.added
                                       ELSE @ \o w.added]
    /\ requests' = [requests EXCEPT ![r] = Idle]
    /\ UNCHANGED <<rows, entries, issued, clearing, unseen>>

\* The transaction fails, or commits but its answer is lost: persistUpdate
\* throws in both cases, before it touches the maps.
FailTicket(r) ==
    /\ DbMayFail
    /\ requests[r] # Idle
    /\ requests' = [requests EXCEPT ![r] = Idle]
    /\ unseen' = IF requests[r].step = "stored" THEN unseen \union {requests[r].ticket}
                 ELSE unseen
    /\ UNCHANGED <<tickets, activities, rows, entries, issued, clearing>>

-----------------------------------------------------------------------------
\* clearAll, called by POST /dev/reset.
ClearAll ==
    /\ MayClear
    /\ clearing = "idle"
    /\ clearing' = "sent"
    /\ UNCHANGED <<tickets, activities, rows, entries, issued, requests, unseen>>

StoreClear ==
    /\ clearing = "sent"
    /\ clearing' = "stored"
    /\ rows' = [t \in Ticket |-> NoTicket]
    /\ entries' = [t \in Ticket |-> <<>>]
    /\ UNCHANGED <<tickets, activities, issued, requests, unseen>>

ResumeClear ==
    /\ clearing = "stored"
    /\ clearing' = "idle"
    /\ tickets' = [t \in Ticket |-> NoTicket]
    /\ activities' = [t \in Ticket |-> <<>>]
    /\ unseen' = unseen \union {t \in Ticket : rows[t].version > 0}
    /\ UNCHANGED <<rows, entries, issued, requests>>

\* The process is gone with its requests; onModuleInit loads the tables.
Restart ==
    /\ MayRestart
    /\ tickets' = rows
    /\ activities' = entries
    /\ requests' = [r \in Request |-> Idle]
    /\ clearing' = "idle"
    /\ unseen' = {}
    /\ UNCHANGED <<rows, entries, issued>>

Next ==
    \/ \E r \in Request :
          \/ \E t \in Ticket : CreateTicket(r, t)
          \/ \E t \in Ticket, a \in Admin :
                ClaimTicket(r, t, a) \/ AssignTicket(r, t, a) \/ UpdateTicket(r, t, a)
          \/ StoreTicket(r) \/ ResumeTicket(r) \/ FailTicket(r)
    \/ ClearAll \/ StoreClear \/ ResumeClear
    \/ Restart

Fairness ==
    \A r \in Request : WF_vars(StoreTicket(r)) /\ WF_vars(ResumeTicket(r))

Spec == Init /\ [][Next]_vars

FairSpec == Spec /\ Fairness

-----------------------------------------------------------------------------
(***************************************************************************)
(* Properties                                                              *)
(***************************************************************************)

\* Optimistic version checks: memory never runs ahead of the table, and a
\* version means the same ticket in both.  (A ticket whose row the reset has
\* deleted may live on in memory.)
CacheIsCoherent ==
    \A t \in Ticket : rows[t].version > 0 =>
       /\ tickets[t].version <= rows[t].version
       /\ tickets[t].version = rows[t].version => tickets[t] = rows[t]

\* A version also means the same activities in memory and in the table, while
\* memory has missed nothing: a change whose answer was lost, or one that the
\* clear() of the reset dropped although it was committed after the deleteMany.
ActivitiesAreCoherent ==
    \A t \in Ticket \ unseen : tickets[t].version = rows[t].version
                                    => activities[t] = entries[t]

\* Readers of memory never see a ticket go back to an earlier version.
CacheOnlyAdvances ==
    [][\A t \in Ticket : tickets'[t].version >= tickets[t].version]_vars

\* The "to" of the last of the first n activities with one of these actions.
LastTo(log, n, actions, default) ==
    LET I == {i \in 1..n : log[i].action \in actions}
    IN IF I = {} THEN default
       ELSE log[CHOOSE i \in I : \A j \in I : j <= i].to

\* The audit trail explains the ticket: replaying the activities in the table
\* gives its assignee and its status, every change of status or details was
\* made by the admin who had the ticket at that point, and resolvedAt is the
\* time at which the ticket last became resolved or closed.
TrailExplainsTicket ==
    \A t \in Ticket :
       LET log == entries[t]
           n == Len(log)
           done == {i \in 1..n : /\ log[i].action = "status_changed"
                                 /\ log[i].from \notin DoneStatus
                                 /\ log[i].to \in DoneStatus}
       IN
       /\ rows[t].assignee = LastTo(log, n, AssignAction, Nobody)
       /\ rows[t].status = LastTo(log, n, {"status_changed"}, "open")
       /\ \A i \in 1..n : log[i].action \in ChangeAction =>
             log[i].actor = LastTo(log, i - 1, AssignAction, Nobody)
       /\ rows[t].resolvedAt =
             IF rows[t].status \notin DoneStatus THEN 0
             ELSE log[CHOOSE i \in done : \A j \in done : j <= i].at

\* What is committed is a ledger: every committed change is one atomic change
\* of the then current ticket by an entitled admin, although the requests
\* checked a copy in memory before they awaited the table.
Ledger == INSTANCE TicketLedger WITH ticket <- rows, activity <- entries

ImplementsLedger == Ledger!Spec

\* Whoever wrote the table, its readers get to see it: memory reaches the version
\* of the row, unless it has missed a change for good.
ReadersCatchUp ==
    \A t \in Ticket : tickets[t].version < rows[t].version ~>
                      tickets[t].version >= rows[t].version \/ t \in unseen

=============================================================================
