---------------------------- MODULE TicketLedger ----------------------------
(***************************************************************************)
(* What support tickets promise: one ledger, in which every change is made *)
(* atomically, to the ticket as it then is, by somebody entitled to make   *)
(* it, and is entered in the activities of the ticket.  No change is ever  *)
(* lost or overwritten unseen.                                             *)
(***************************************************************************)
EXTENDS TicketRecords

VARIABLES
    ticket,         \* the present version of each ticket
    activity        \* the activities of each ticket, in order

vars == <<ticket, activity>>

Init ==
    /\ ticket = [t \in Ticket |-> NoTicket]
    /\ activity = [t \in Ticket |-> <<>>]

Write(t, tk, entries) ==
    /\ ticket' = [ticket EXCEPT ![t] = tk]
    /\ activity' = [activity EXCEPT ![t] = @ \o entries]

Open(t) ==
    /\ ticket[t].version = 0
    /\ \E d \in Detail : Write(t, Created(d), CreatedActivities)

\* An admin takes a ticket that nobody has.
Claim(t) ==
    /\ ticket[t].version > 0 /\ ticket[t].assignee = Nobody
    /\ \E a \in Admin :
          Write(t, Assigned(ticket[t], a), AssignedActivities(ticket[t], a, a))

\* Any admin gives the ticket to another admin, or back to nobody.
Assign(t) ==
    /\ ticket[t].version > 0
    /\ \E a \in Admin, b \in Assignee \ {ticket[t].assignee} :
          Write(t, Assigned(ticket[t], b), AssignedActivities(ticket[t], a, b))

\* Only the admin who has the ticket changes it, and something does change.
Update(t) ==
    /\ ticket[t].version > 0 /\ ticket[t].assignee # Nobody
    /\ \E s \in Status, d \in Detail :
          /\ <<s, d>> # <<ticket[t].status, ticket[t].details>>
          /\ Write(t, Updated(ticket[t], s, d),
                   UpdatedActivities(ticket[t], ticket[t].assignee, s, d))

\* The development reset.
Clear ==
    /\ ticket' = [t \in Ticket |-> NoTicket]
    /\ activity' = [t \in Ticket |-> <<>>]

Next ==
    \/ \E t \in Ticket : Open(t) \/ Claim(t) \/ Assign(t) \/ Update(t)
    \/ Clear

Spec == Init /\ [][Next]_vars

=============================================================================
