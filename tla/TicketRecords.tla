--------------------------- MODULE TicketRecords ---------------------------
(***************************************************************************)
(* A support ticket, its activity entries, and how TicketsService          *)
(* (backend/src/tickets/tickets.service.ts) computes the next ticket and   *)
(* the new entries from the ticket it finds in memory.                     *)
(*                                                                         *)
(* "details" stands for priority and adminNote, which behave alike.  Time  *)
(* is counted in versions: the Date "now" of a change is represented by    *)
(* the version that the change produces.                                   *)
(***************************************************************************)
EXTENDS Naturals, Sequences

CONSTANTS
    Ticket,         \* ticket ids
    Admin,          \* users with the global admin role
    Nobody,         \* null: no assigned admin, no value
    Requester,      \* the user who opens tickets
    Detail          \* values of priority and adminNote

ASSUME TicketConstants ==
    /\ Nobody \notin Admin
    /\ Requester \notin Admin \union {Nobody}
    /\ Detail # {}

Status == {"open", "in_progress", "resolved", "closed"}

DoneStatus == {"resolved", "closed"}

Assignee == Admin \union {Nobody}

\* resolvedAt is 0 for null.
TicketRecord == [assignee : Assignee, status : Status, details : Detail,
                 resolvedAt : Nat, version : Nat]

\* No row, or no entry of the map, under this id.
NoTicket == [assignee |-> Nobody, status |-> "open",
             details |-> CHOOSE d \in Detail : TRUE,
             resolvedAt |-> 0, version |-> 0]

AssignAction == {"assigned", "unassigned", "transferred"}

ChangeAction == {"status_changed", "details_changed"}

Activity == [actor : Admin \union {Requester},
             action : {"created"} \union AssignAction \union ChangeAction,
             from : Assignee \union Status \union Detail,
             to : Assignee \union Status \union Detail,
             at : Nat]

-----------------------------------------------------------------------------
Created(d) == [NoTicket EXCEPT !.details = d, !.version = 1]

CreatedActivities ==
    <<[actor |-> Requester, action |-> "created",
       from |-> Nobody, to |-> Nobody, at |-> 1]>>

Assigned(tk, b) == [tk EXCEPT !.assignee = b, !.version = @ + 1]

AssignedActivities(tk, a, b) ==
    <<[actor |-> a,
       action |-> IF tk.assignee = Nobody THEN "assigned"
                  ELSE IF b = Nobody THEN "unassigned"
                  ELSE "transferred",
       from |-> tk.assignee, to |-> b, at |-> tk.version + 1]>>

\* A ticket that stays done keeps the date at which it was resolved.
Updated(tk, s, d) ==
    [assignee |-> tk.assignee, status |-> s, details |-> d,
     resolvedAt |-> IF s \notin DoneStatus THEN 0
                    ELSE IF tk.resolvedAt # 0 THEN tk.resolvedAt
                    ELSE tk.version + 1,
     version |-> tk.version + 1]

UpdatedActivities(tk, a, s, d) ==
    (IF s = tk.status THEN <<>>
     ELSE <<[actor |-> a, action |-> "status_changed",
             from |-> tk.status, to |-> s, at |-> tk.version + 1]>>)
    \o
    (IF d = tk.details THEN <<>>
     ELSE <<[actor |-> a, action |-> "details_changed",
             from |-> tk.details, to |-> d, at |-> tk.version + 1]>>)

=============================================================================
