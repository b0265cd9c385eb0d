---------------------------- MODULE SupportPage ----------------------------
(***************************************************************************)
(* The support page of an admin (frontend/src/pages/Dashboard/Support):    *)
(* the opened ticket, the form over it, the requests that save the form or *)
(* the assignment, and the refreshes that ticket events and failed         *)
(* requests ask for.                                                       *)
(*                                                                         *)
(* The tickets are a ledger here, as Tickets implements it: a change is    *)
(* accepted if it names the newest version, and a read finds the newest    *)
(* version (how memory may lag behind it is the subject of ReadersCatchUp  *)
(* there).  Other admins change the tickets at any time.  The list beside  *)
(* the opened ticket is left out: its rows are versions of any age.        *)
(***************************************************************************)
EXTENDS Naturals, Sequences, FiniteSets

CONSTANTS
    Ticket,
    Me,             \* the admin of this page
    Other,          \* who else may be the assignee of a ticket
    Nobody,         \* the assignee of an unassigned ticket, if there are any
    Field,          \* status, priority and adminNote, as many as are told apart
    Value,          \* what a field may hold
    Refresh,        \* bound: refreshes under way at once
    MaxChanges      \* bound: changes of tickets in a behaviour

ASSUME SupportConstants ==
    /\ Me \notin Other
    /\ Nobody # Me
    /\ MaxChanges \in Nat

VARIABLES
    ledger,         \* the versions of each ticket, and who wrote them
    selected,       \* selectedTicket: a ticket and its version
    form,           \* editStatus, editPriority and adminNote
    editAssignee,
    filled,         \* the ticket and version the form was filled from
    call,           \* the request of saveTicket ("saving") and that of the two
                    \* assignment buttons ("assignmentSaving")
    refresh,        \* refreshTicket under way
    notices,        \* versions told of by ticket:updated events on their way
    heard           \* the newest version of each ticket that the page has shown,
                    \* or whose event or refresh was lost, or that came while
                    \* the ticket was not open

supportVars == <<ledger, selected, form, editAssignee, filled, call, refresh,
                 notices, heard>>

Assignee == {Me} \union Other

Button == {"save", "assign"}

Ready == [step |-> "ready"]

Closed == [version |-> 0]

Newest(t) == Len(ledger[t])

Changes == Cardinality(UNION {{t} \X (2 .. Newest(t)) : t \in Ticket})

SupportTypeOK ==
    /\ \A t \in Ticket : \A v \in 1 .. Newest(t) :
          /\ ledger[t][v].values \in [Field -> Value]
          /\ ledger[t][v].assignee \in Assignee
    /\ selected.version > 0 => /\ selected.ticket \in Ticket
                               /\ selected.version <= Newest(selected.ticket)
    /\ form \in [Field -> Value]
    /\ editAssignee \in Assignee
    /\ heard \in [Ticket -> Nat]

SupportInit ==
    /\ \E v \in Value :
          /\ ledger = [t \in Ticket |->
                         <<[values |-> [f \in Field |-> v], assignee |-> Me,
                            by |-> Nobody, base |-> Closed]>>]
          /\ form = [f \in Field |-> v]
    /\ selected = Closed
    /\ editAssignee = Me
    /\ filled = Closed
    /\ call = [b \in Button |-> Ready]
    /\ refresh = [r \in Refresh |-> Ready]
    /\ notices = [t \in Ticket |-> {}]
    /\ heard = [t \in Ticket |-> 0]

-----------------------------------------------------------------------------
Shown == ledger[selected.ticket][selected.version]

IsOpen(t) == selected.version > 0 /\ selected.ticket = t

IsAssignedToMe == selected.version > 0 /\ Shown.assignee = Me

Hear(t, v) == heard' = [heard EXCEPT ![t] = IF v > @ THEN v ELSE @]

\* Mutant of SyncTicket: an open ticket is replaced, but the form is kept.
SyncTicketKeepForm(t, v) ==
    /\ selected' = [ticket |-> t, version |-> v]
    /\ Hear(t, v)
    /\ IF IsOpen(t) THEN UNCHANGED <<form, editAssignee, filled>>
       ELSE /\ form' = ledger[t][v].values
            /\ editAssignee' = ledger[t][v].assignee
            /\ filled' = selected'

\* syncTicket: the opened ticket and the form over it are replaced together,
\* whichever ticket was open.
SyncTicket(t, v) ==
    /\ selected' = [ticket |-> t, version |-> v]
    /\ form' = ledger[t][v].values
    /\ editAssignee' = ledger[t][v].assignee
    /\ filled' = selected'
    /\ Hear(t, v)

\* refreshTicket asks for the ticket.
RefreshTicket(t) ==
    \E r \in Refresh :
       /\ refresh[r] = Ready
       /\ refresh' = [refresh EXCEPT ![r] = [step |-> "sent", ticket |-> t]]

-----------------------------------------------------------------------------
\* A row of the list is clicked: it opens at once, at the list's version.
OpenTicket(t, v) ==
    /\ selected = Closed
    /\ v <= Newest(t)
    /\ SyncTicket(t, v)
    /\ RefreshTicket(t)
    /\ UNCHANGED <<ledger, call, notices>>

CloseTicket ==
    /\ selected # Closed
    /\ selected' = Closed
    /\ UNCHANGED <<ledger, form, editAssignee, filled, call, refresh, notices, heard>>

EditField(f, x) ==
    /\ IsAssignedToMe
    /\ x # form[f]
    /\ form' = [form EXCEPT ![f] = x]
    /\ UNCHANGED <<ledger, selected, editAssignee, filled, call, refresh, notices, heard>>

EditAssignee(a) ==
    /\ selected # Closed
    /\ a # editAssignee
    /\ editAssignee' = a
    /\ UNCHANGED <<ledger, selected, form, filled, call, refresh, notices, heard>>

\* A button is pressed: the request names the opened version.
Press(b, values, assignee, base) ==
    /\ call[b] = Ready
    /\ call' = [call EXCEPT ![b] =
           [step |-> "sent", ticket |-> selected.ticket, expected |-> selected.version,
            values |-> values, assignee |-> assignee, base |-> base]]
    /\ UNCHANGED <<ledger, selected, form, editAssignee, filled, refresh, notices, heard>>

SaveTicket ==
    /\ IsAssignedToMe
    /\ Press("save", form, Me, filled)

AssignToMe ==
    /\ selected # Closed
    /\ ~IsAssignedToMe
    /\ Press("assign", Shown.values, Me, selected)

SaveAssignment ==
    /\ selected # Closed
    /\ editAssignee # Shown.assignee
    /\ Press("assign", Shown.values, editAssignee, filled)

-----------------------------------------------------------------------------
\* The service stores a version and tells the pages of all admins.
Store(t, values, assignee, by, base) ==
    /\ Changes < MaxChanges
    /\ ledger' = [ledger EXCEPT ![t] = Append(@,
           [values |-> values, assignee |-> assignee, by |-> by, base |-> base])]
    /\ notices' = [notices EXCEPT ![t] = @ \union {Newest(t) + 1}]

\* Mutant of Accepts: the version is not compared.
AcceptsAny(b, w) ==
    LET now == ledger[w.ticket][Newest(w.ticket)] IN
    IF b = "save" THEN now.assignee = Me /\ w.values # now.values
    ELSE w.assignee # now.assignee

\* What update and changeAssignment demand of a request.
Accepts(b, w) ==
    LET now == ledger[w.ticket][Newest(w.ticket)] IN
    /\ w.expected = Newest(w.ticket)
    /\ IF b = "save" THEN now.assignee = Me /\ w.values # now.values
       ELSE w.assignee # now.assignee

\* The request of a button is carried out, and answered with the version it
\* stored, or refused; an answer may be lost.
ServeCall(b) ==
    LET w == call[b]
        now == ledger[w.ticket][Newest(w.ticket)]
    IN
    /\ w.step = "sent"
    /\ \/ /\ Accepts(b, w)
          /\ IF b = "save" THEN Store(w.ticket, w.values, now.assignee, Me, w.base)
             ELSE Store(w.ticket, now.values, w.assignee, Me, w.base)
          /\ \E version \in {Newest(w.ticket) + 1, 0} :
                call' = [call EXCEPT ![b] =
                           [step |-> "served", ticket |-> w.ticket, version |-> version]]
       \/ /\ call' = [call EXCEPT ![b] =
                        [step |-> "served", ticket |-> w.ticket, version |-> 0]]
          /\ UNCHANGED <<ledger, notices>>
    /\ UNCHANGED <<selected, form, editAssignee, filled, refresh, heard>>

\* saveTicket, assignToMe and saveAssignment after the answer: the stored
\* version is shown, or the ticket is read again (handleActionError).
CallAnswered(b) ==
    LET w == call[b] IN
    /\ w.step = "served"
    /\ call' = [call EXCEPT ![b] = [step |-> "listing"]]
    /\ \/ w.version > 0 /\ SyncTicket(w.ticket, w.version) /\ UNCHANGED refresh
       \/ /\ w.version = 0
          /\ RefreshTicket(w.ticket)
          /\ UNCHANGED <<selected, form, editAssignee, filled, heard>>
    /\ UNCHANGED <<ledger, notices>>

\* The list is loaded, and the button is enabled again.
CallFinished(b) ==
    /\ call[b].step = "listing"
    /\ call' = [call EXCEPT ![b] = Ready]
    /\ UNCHANGED <<ledger, selected, form, editAssignee, filled, refresh, notices, heard>>

\* The backend reads the ticket for a refresh.
ServeRefresh(r) ==
    /\ refresh[r].step = "sent"
    /\ refresh' = [refresh EXCEPT ![r] = [step |-> "served", ticket |-> @.ticket,
                                          version |-> Newest(@.ticket)]]
    /\ UNCHANGED <<ledger, selected, form, editAssignee, filled, call, notices, heard>>

RefreshAnswered(r) ==
    /\ refresh[r].step = "served"
    /\ SyncTicket(refresh[r].ticket, refresh[r].version)
    /\ refresh' = [refresh EXCEPT ![r] = Ready]
    /\ UNCHANGED <<ledger, call, notices>>

\* A refresh fails: whatever is open is closed, and nothing reads again what
\* the refresh would have shown.
RefreshFails(r) ==
    /\ refresh[r] # Ready
    /\ selected' = Closed
    /\ Hear(refresh[r].ticket, Newest(refresh[r].ticket))
    /\ UNCHANGED <<form, editAssignee, filled>>
    /\ refresh' = [refresh EXCEPT ![r] = Ready]
    /\ UNCHANGED <<ledger, call, notices>>

\* Mutant of TicketUpdated: the event only reloads the list.
TicketUpdatedListOnly(t, v) ==
    /\ v \in notices[t]
    /\ notices' = [notices EXCEPT ![t] = @ \ {v}]
    /\ IF IsOpen(t) THEN UNCHANGED heard ELSE Hear(t, v)
    /\ UNCHANGED <<ledger, selected, form, editAssignee, filled, call, refresh>>

\* A ticket:updated event arrives.
TicketUpdated(t, v) ==
    /\ v \in notices[t]
    /\ notices' = [notices EXCEPT ![t] = @ \ {v}]
    /\ \/ IsOpen(t) /\ RefreshTicket(t) /\ UNCHANGED heard
       \/ ~IsOpen(t) /\ Hear(t, v) /\ UNCHANGED refresh
    /\ UNCHANGED <<ledger, selected, form, editAssignee, filled, call>>

\* The page is not connected when the event is sent.
LoseTicketUpdated(t, v) ==
    /\ v \in notices[t]
    /\ notices' = [notices EXCEPT ![t] = @ \ {v}]
    /\ Hear(t, v)
    /\ UNCHANGED <<ledger, selected, form, editAssignee, filled, call, refresh>>

\* Another admin changes a ticket: any of them may assign it, its assignee
\* may change the rest.
OtherAdmin(t) ==
    LET now == ledger[t][Newest(t)] IN
    /\ \/ \E a \in Assignee \ {now.assignee} : Store(t, now.values, a, Nobody, Closed)
       \/ /\ now.assignee \in Other \ {Nobody}
          /\ \E values \in [Field -> Value] \ {now.values} :
                Store(t, values, now.assignee, now.assignee, Closed)
    /\ UNCHANGED <<selected, form, editAssignee, filled, call, refresh, heard>>

SupportNext ==
    \/ \E t \in Ticket :
          \/ \E v \in 1 .. Newest(t) : OpenTicket(t, v)
          \/ \E v \in notices[t] : TicketUpdated(t, v) \/ LoseTicketUpdated(t, v)
          \/ OtherAdmin(t)
    \/ CloseTicket
    \/ \E f \in Field, x \in Value : EditField(f, x)
    \/ \E a \in Assignee : EditAssignee(a)
    \/ SaveTicket \/ AssignToMe \/ SaveAssignment
    \/ \E b \in Button : ServeCall(b) \/ CallAnswered(b) \/ CallFinished(b)
    \/ \E r \in Refresh : ServeRefresh(r) \/ RefreshAnswered(r) \/ RefreshFails(r)

SupportSpec == SupportInit /\ [][SupportNext]_supportVars

-----------------------------------------------------------------------------
\* No lost update, from the form to the table: what the admin stores differs
\* from the version before only where they changed the form that was filled
\* from a version they were looking at, although other admins, failed requests
\* and late answers replace the ticket under the form at any time.
SavesOnlyEdits ==
    \A t \in Ticket : \A v \in 2 .. Newest(t) :
       LET old == ledger[t][v - 1]
           new == ledger[t][v]
           seen == ledger[new.base.ticket][new.base.version]
       IN new.by = Me =>
            /\ \A f \in Field :
                  new.values[f] # old.values[f] => new.values[f] # seen.values[f]
            /\ new.assignee # old.assignee => new.assignee # seen.assignee

PageSettled ==
    /\ \A b \in Button : call[b] = Ready
    /\ \A r \in Refresh : refresh[r] = Ready
    /\ \A t \in Ticket : notices[t] = {}

\* Once nothing is under way, the opened ticket is the stored one, unless the
\* page has let a newer version pass: an older answer came after it, its event
\* or the refresh after it was lost, or it came while the ticket was not open.
TicketIsCurrent ==
    PageSettled /\ selected # Closed =>
       \/ selected.version = Newest(selected.ticket)
       \/ selected.version < heard[selected.ticket]

=============================================================================
