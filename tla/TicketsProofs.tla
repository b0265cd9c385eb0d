--------------------------- MODULE TicketsProofs ---------------------------
(***************************************************************************)
(* What TicketsService guarantees for any tickets, admins and number of    *)
(* overlapping requests, with failing transactions, lost answers, restarts *)
(* and the development reset.                                              *)
(***************************************************************************)
EXTENDS Tickets, SequenceTheorems, WellFoundedInduction, TLAPS

\* The change from tk to "updated" with the activities "added" is one the
\* ledger allows.
Legal(tk, updated, added) ==
    \/ /\ tk.version = 0
       /\ \E d \in Detail : updated = Created(d) /\ added = CreatedActivities
    \/ /\ tk.version > 0 /\ tk.assignee = Nobody
       /\ \E a \in Admin : /\ updated = Assigned(tk, a)
                           /\ added = AssignedActivities(tk, a, a)
    \/ /\ tk.version > 0
       /\ \E a \in Admin, b \in Assignee \ {tk.assignee} :
             /\ updated = Assigned(tk, b)
             /\ added = AssignedActivities(tk, a, b)
    \/ /\ tk.version > 0 /\ tk.assignee # Nobody
       /\ \E s \in Status, d \in Detail :
             /\ <<s, d>> # <<tk.status, tk.details>>
             /\ updated = Updated(tk, s, d)
             /\ added = UpdatedActivities(tk, tk.assignee, s, d)

Sent(r) == requests[r].step = "sent"

Stored(r) == requests[r].step = "stored"

On(r, t) == requests[r] # Idle /\ requests[r].ticket = t

\* A ticket id not yet drawn has no trace anywhere.
FreshIds ==
    \A t \in Ticket \ issued :
       /\ rows[t].version = 0 /\ tickets[t].version = 0
       /\ \A r \in Request : ~On(r, t)

\* While the insert of a ticket is awaited, nothing else is known of it.
SoleCreate ==
    \A r \in Request : Sent(r) /\ requests[r].expected = 0 =>
       LET t == requests[r].ticket IN
       /\ rows[t].version = 0 /\ tickets[t].version = 0
       /\ \A q \in Request : On(q, t) => q = r

NoRowIsNoTicket ==
    \A t \in Ticket : rows[t].version = 0 => rows[t] = NoTicket

NoCacheIsNoTicket ==
    \A t \in Ticket : tickets[t].version = 0 => tickets[t] = NoTicket

NextVersion ==
    \A r \in Request : requests[r] # Idle =>
       requests[r].updated.version = requests[r].expected + 1

\* A transaction that will find the version it expects makes a legal change
\* of the row, not only of the copy it was computed from.
SentIsLegal ==
    \A r \in Request : Sent(r) =>
       LET w == requests[r] IN
       /\ rows[w.ticket].version > 0 => w.expected <= rows[w.ticket].version
       /\ rows[w.ticket].version = w.expected =>
             Legal(rows[w.ticket], w.updated, w.added)

\* What a request will put in memory is no newer than the row.
StoredIsCoherent ==
    \A r \in Request : Stored(r) =>
       LET w == requests[r] IN
       rows[w.ticket].version > 0 =>
          /\ w.updated.version <= rows[w.ticket].version
          /\ w.updated.version = rows[w.ticket].version => w.updated = rows[w.ticket]

TicketsInv ==
    /\ TypeOK
    /\ FreshIds
    /\ SoleCreate
    /\ NoRowIsNoTicket
    /\ NoCacheIsNoTicket
    /\ NextVersion
    /\ SentIsLegal
    /\ StoredIsCoherent
    /\ CacheIsCoherent

LEMMA SentIsNotIdle ==
    \A r : Sent(r) \/ Stored(r) => requests[r] # Idle
BY DEF Sent, Stored, Idle

-----------------------------------------------------------------------------
(***************************************************************************)
(* The records                                                             *)
(***************************************************************************)
LEMMA NoTicketType == NoTicket \in TicketRecord /\ NoTicket.version = 0
BY TicketConstants DEF NoTicket, TicketRecord, Assignee, Status

LEMMA CreatedType ==
    ASSUME NEW d \in Detail
    PROVE  /\ Created(d) \in TicketRecord
           /\ Created(d).version = 1
           /\ CreatedActivities \in Seq(Activity)
<1>1. Created(d) \in TicketRecord /\ Created(d).version = 1
  BY DEF Created, NoTicket, TicketRecord, Assignee, Status
<1>2. CreatedActivities \in Seq(Activity)
  BY DEF CreatedActivities, Activity, Assignee
<1>3. QED
  BY <1>1, <1>2

LEMMA AssignedType ==
    ASSUME NEW tk \in TicketRecord, NEW a \in Admin, NEW b \in Assignee
    PROVE  /\ Assigned(tk, b) \in TicketRecord
           /\ Assigned(tk, b).version = tk.version + 1
           /\ AssignedActivities(tk, a, b) \in Seq(Activity)
<1> DEFINE given == [tk EXCEPT !.assignee = b]
<1>1. given \in TicketRecord /\ given.version = tk.version
  BY DEF TicketRecord
<1>2. Assigned(tk, b) = [given EXCEPT !.version = tk.version + 1]
  BY <1>1, Zenon DEF Assigned
<1> HIDE DEF given
<1>3. /\ Assigned(tk, b) \in TicketRecord
      /\ Assigned(tk, b).version = tk.version + 1
  BY <1>1, <1>2 DEF TicketRecord
<1>4. AssignedActivities(tk, a, b) \in Seq(Activity)
  BY DEF AssignedActivities, Activity, AssignAction, TicketRecord
<1>5. QED
  BY <1>3, <1>4

LEMMA UpdatedType ==
    ASSUME NEW tk \in TicketRecord, NEW a \in Admin,
           NEW s \in Status, NEW d \in Detail
    PROVE  /\ Updated(tk, s, d) \in TicketRecord
           /\ Updated(tk, s, d).version = tk.version + 1
           /\ UpdatedActivities(tk, a, s, d) \in Seq(Activity)
<1>1. /\ Updated(tk, s, d) \in TicketRecord
      /\ Updated(tk, s, d).version = tk.version + 1
  BY DEF Updated, TicketRecord
<1> DEFINE S == [actor |-> a, action |-> "status_changed",
                 from |-> tk.status, to |-> s, at |-> tk.version + 1]
           D == [actor |-> a, action |-> "details_changed",
                 from |-> tk.details, to |-> d, at |-> tk.version + 1]
<1>2. S \in Activity /\ D \in Activity
  BY DEF Activity, ChangeAction, TicketRecord
<1> HIDE DEF S, D
<1>3. /\ (IF s = tk.status THEN <<>> ELSE <<S>>) \in Seq(Activity)
      /\ (IF d = tk.details THEN <<>> ELSE <<D>>) \in Seq(Activity)
  BY <1>2
<1>4. UpdatedActivities(tk, a, s, d) \in Seq(Activity)
  BY <1>3 DEF UpdatedActivities, S, D
<1>5. QED
  BY <1>1, <1>4

-----------------------------------------------------------------------------
(***************************************************************************)
(* Sending a transaction                                                   *)
(***************************************************************************)
\* What the guards of create, claim, assign and update establish.
Sending(r, t, updated, added) ==
    /\ Send(r, t, updated, added)
    /\ updated \in TicketRecord
    /\ added \in Seq(Activity)
    /\ updated.version = tickets[t].version + 1
    /\ Legal(tickets[t], updated, added)
    /\ \/ t \notin issued /\ issued' = issued \union {t}
       \/ Exists(t) /\ issued' = issued

LEMMA CreateSends ==
    ASSUME TicketsInv, NEW r \in Request, NEW t \in Ticket, CreateTicket(r, t)
    PROVE  \E updated, added : Sending(r, t, updated, added)
<1>1. PICK d \in Detail : Send(r, t, Created(d), CreatedActivities)
  BY Zenon DEF CreateTicket
<1>2. t \notin issued /\ issued' = issued \union {t}
  BY Zenon DEF CreateTicket
<1>3. tickets[t].version = 0
  BY <1>2 DEF TicketsInv, FreshIds
<1>4. Sending(r, t, Created(d), CreatedActivities)
  BY <1>1, <1>2, <1>3, CreatedType DEF Sending, Legal
<1>5. QED
  BY <1>4

LEMMA AssignSends ==
    ASSUME TicketsInv, NEW r \in Request, NEW t \in Ticket, NEW a \in Admin,
           ClaimTicket(r, t, a) \/ AssignTicket(r, t, a)
    PROVE  \E updated, added : Sending(r, t, updated, added)
<1>1. Exists(t) /\ tickets[t] \in TicketRecord
  BY DEF ClaimTicket, AssignTicket, TicketsInv, TypeOK
<1>2. PICK b \in Assignee : /\ b # tickets[t].assignee
                            /\ ChangeAssignment(r, t, a, b)
  BY TicketConstants DEF ClaimTicket, AssignTicket, Assignee
<1> DEFINE new == Assigned(tickets[t], b)
           log == AssignedActivities(tickets[t], a, b)
<1>3. /\ new \in TicketRecord
      /\ new.version = tickets[t].version + 1
      /\ log \in Seq(Activity)
  BY <1>1, AssignedType
<1>4. Legal(tickets[t], new, log)
  BY <1>1, <1>2 DEF Legal, Exists
<1>5. Send(r, t, new, log) /\ issued' = issued
  BY <1>2, Zenon DEF ChangeAssignment
<1> HIDE DEF new, log
<1>6. Sending(r, t, new, log)
  BY <1>1, <1>3, <1>4, <1>5, Zenon DEF Sending
<1>7. QED
  BY <1>6

LEMMA UpdateSends ==
    ASSUME TicketsInv, NEW r \in Request, NEW t \in Ticket, NEW a \in Admin,
           UpdateTicket(r, t, a)
    PROVE  \E updated, added : Sending(r, t, updated, added)
<1>1. Exists(t) /\ tickets[t] \in TicketRecord /\ tickets[t].assignee = a
  BY DEF UpdateTicket, TicketsInv, TypeOK
<1>2. PICK s \in Status, d \in Detail :
         /\ s # tickets[t].status \/ d # tickets[t].details
         /\ Send(r, t, Updated(tickets[t], s, d),
                 UpdatedActivities(tickets[t], a, s, d))
  BY Zenon DEF UpdateTicket
<1> DEFINE new == Updated(tickets[t], s, d)
           log == UpdatedActivities(tickets[t], a, s, d)
<1>3. /\ new \in TicketRecord
      /\ new.version = tickets[t].version + 1
      /\ log \in Seq(Activity)
  BY <1>1, UpdatedType
<1>4. Legal(tickets[t], new, log)
  BY <1>1, <1>2, TicketConstants DEF Legal, Exists
<1>5. Send(r, t, new, log) /\ issued' = issued
  BY <1>2, Zenon DEF UpdateTicket
<1> HIDE DEF new, log
<1>6. Sending(r, t, new, log)
  BY <1>1, <1>3, <1>4, <1>5, Zenon DEF Sending
<1>7. QED
  BY <1>6

LEMMA SendingInv ==
    ASSUME TicketsInv, NEW r \in Request, NEW t \in Ticket,
           NEW updated, NEW added, Sending(r, t, updated, added)
    PROVE  TicketsInv'
<1> DEFINE w == [step |-> "sent", ticket |-> t, expected |-> tickets[t].version,
                 updated |-> updated, added |-> added]
<1>1. /\ requests[r] = Idle
      /\ requests' = [requests EXCEPT ![r] = w]
      /\ UNCHANGED tickets /\ UNCHANGED activities /\ UNCHANGED rows
      /\ UNCHANGED entries /\ UNCHANGED clearing /\ UNCHANGED unseen
  BY Zenon DEF Sending, Send
<1>2. /\ updated \in TicketRecord
      /\ added \in Seq(Activity)
      /\ updated.version = tickets[t].version + 1
      /\ Legal(tickets[t], updated, added)
      /\ \/ t \notin issued /\ issued' = issued \union {t}
         \/ Exists(t) /\ issued' = issued
  BY Zenon DEF Sending
<1>3. tickets[t].version \in Nat /\ rows[t].version \in Nat
  BY DEF TicketsInv, TypeOK, TicketRecord
<1>4. /\ w \in Transaction
      /\ w.step = "sent" /\ w.ticket = t /\ w.expected = tickets[t].version
      /\ w.updated = updated /\ w.added = added
      /\ w # Idle
  BY <1>2, <1>3 DEF Transaction, Idle
<1> HIDE DEF w
<1>5. \A q \in Request : requests'[q] = IF q = r THEN w ELSE requests[q]
  BY <1>1 DEF TicketsInv, TypeOK
<1>6. TypeOK'
  <2>1. requests' \in [Request -> {Idle} \union Transaction]
    BY <1>1, <1>4 DEF TicketsInv, TypeOK
  <2>2. issued' \in SUBSET Ticket
    BY <1>2 DEF TicketsInv, TypeOK
  <2>3. QED
    BY <1>1, <2>1, <2>2 DEF TicketsInv, TypeOK
<1>7. \A x \in Ticket : x \notin issued' => x \notin issued /\ x # t
  BY <1>2, <1>3 DEF TicketsInv, FreshIds, Exists
<1>8. FreshIds'
  BY <1>1, <1>4, <1>5, <1>7 DEF TicketsInv, FreshIds, On
<1>9. SoleCreate'
  <2>1. CASE tickets[t].version = 0
    <3>1. t \notin issued
      BY <1>2, <2>1 DEF Exists
    <3>2. \A q \in Request : requests[q] # Idle => requests[q].ticket # t
      BY <3>1 DEF TicketsInv, FreshIds, On
    <3>3. \A q \in Request : Sent(q) => requests[q] # Idle
      BY SentIsNotIdle
    <3>4. tickets[t].version = 0 /\ rows[t].version = 0
      BY <3>1 DEF TicketsInv, FreshIds
    <3>5. QED
      BY <1>1, <1>4, <1>5, <3>2, <3>3, <3>4 DEF TicketsInv, SoleCreate, On, Sent
  <2>2. CASE tickets[t].version # 0
    BY <1>1, <1>4, <1>5, <2>2 DEF TicketsInv, SoleCreate, On, Sent
  <2>3. QED
    BY <2>1, <2>2
<1>10. NoRowIsNoTicket' /\ NoCacheIsNoTicket' /\ CacheIsCoherent'
  BY <1>1 DEF TicketsInv, NoRowIsNoTicket, NoCacheIsNoTicket, CacheIsCoherent
<1>11. NextVersion'
  BY <1>2, <1>4, <1>5 DEF TicketsInv, NextVersion
<1>12. SentIsLegal'
  <2>1. rows[t].version > 0 => tickets[t].version <= rows[t].version
    BY DEF TicketsInv, CacheIsCoherent
  <2>2. rows[t].version = tickets[t].version => rows[t] = tickets[t]
    <3>1. CASE tickets[t].version > 0
      BY <3>1 DEF TicketsInv, CacheIsCoherent
    <3>2. CASE tickets[t].version = 0
      BY <1>2, <3>2 DEF TicketsInv, NoRowIsNoTicket, NoCacheIsNoTicket
    <3>3. QED
      BY <1>3, <3>1, <3>2
  <2>3. QED
    BY <1>1, <1>2, <1>4, <1>5, <2>1, <2>2 DEF TicketsInv, SentIsLegal, Sent
<1>13. StoredIsCoherent'
  BY <1>1, <1>4, <1>5 DEF TicketsInv, StoredIsCoherent, Stored
<1>14. QED
  BY <1>6, <1>8, <1>9, <1>10, <1>11, <1>12, <1>13 DEF TicketsInv

-----------------------------------------------------------------------------
(***************************************************************************)
(* The transaction and what follows it                                     *)
(***************************************************************************)
\* The transaction of r commits.
Commit(r) ==
    LET w == requests[r] IN
    /\ Sent(r)
    /\ rows[w.ticket].version = w.expected
    /\ rows' = [rows EXCEPT ![w.ticket] = w.updated]
    /\ entries' = [entries EXCEPT ![w.ticket] = @ \o w.added]
    /\ requests' = [requests EXCEPT ![r].step = "stored"]
    /\ UNCHANGED <<tickets, activities, issued, clearing, unseen>>

\* A request ends without a change: a conflict or a failure.
Drop(r) ==
    /\ requests[r] # Idle
    /\ requests' = [requests EXCEPT ![r] = Idle]
    /\ unseen' \in {unseen, unseen \union {requests[r].ticket}}
    /\ UNCHANGED <<tickets, activities, rows, entries, issued, clearing>>

LEMMA StoreCases ==
    ASSUME NEW r \in Request, StoreTicket(r)
    PROVE  Commit(r) \/ Drop(r)
<1>1. Sent(r) /\ requests[r] # Idle
  BY SentIsNotIdle, Zenon DEF StoreTicket, Sent
<1>2. QED
  BY <1>1, Zenon DEF StoreTicket, Commit, Drop

LEMMA DropInv ==
    ASSUME TicketsInv, NEW r \in Request, Drop(r)
    PROVE  TicketsInv'
<1>1. /\ UNCHANGED <<tickets, activities, rows, entries, issued, clearing>>
      /\ requests' = [requests EXCEPT ![r] = Idle]
  BY Zenon DEF Drop
<1>2. \A q \in Request : requests'[q] = IF q = r THEN Idle ELSE requests[q]
  BY <1>1 DEF TicketsInv, TypeOK
<1>3. TypeOK'
  <2>1. unseen' \in SUBSET Ticket
    BY DEF Drop, TicketsInv, TypeOK, Transaction
  <2>2. QED
    BY <1>1, <2>1 DEF TicketsInv, TypeOK
<1>4. FreshIds' /\ NoRowIsNoTicket' /\ NoCacheIsNoTicket' /\ CacheIsCoherent'
  BY <1>1, <1>2 DEF TicketsInv, FreshIds, On, NoRowIsNoTicket,
                    NoCacheIsNoTicket, CacheIsCoherent
<1>5. SoleCreate' /\ NextVersion' /\ SentIsLegal' /\ StoredIsCoherent'
  BY <1>1, <1>2 DEF TicketsInv, SoleCreate, On, NextVersion, SentIsLegal,
                    StoredIsCoherent, Sent, Stored, Idle
<1>6. QED
  BY <1>3, <1>4, <1>5 DEF TicketsInv

LEMMA CommitInv ==
    ASSUME TicketsInv, NEW r \in Request, Commit(r)
    PROVE  TicketsInv'
<1> DEFINE w == requests[r]
           t == requests[r].ticket
<1>1. /\ Sent(r)
      /\ rows[t].version = w.expected
      /\ rows' = [rows EXCEPT ![t] = w.updated]
      /\ entries' = [entries EXCEPT ![t] = @ \o w.added]
      /\ requests' = [requests EXCEPT ![r].step = "stored"]
      /\ UNCHANGED tickets /\ UNCHANGED activities /\ UNCHANGED issued
      /\ UNCHANGED clearing /\ UNCHANGED unseen
  BY Zenon DEF Commit
<1>2. w \in Transaction /\ w # Idle
  BY <1>1, SentIsNotIdle DEF TicketsInv, TypeOK
<1>3. /\ t \in Ticket /\ w.expected \in Nat
      /\ w.updated \in TicketRecord /\ w.added \in Seq(Activity)
      /\ w.updated.version = w.expected + 1
  BY <1>2 DEF Transaction, TicketsInv, NextVersion
<1>4. \A q \in Request \ {r} : requests'[q] = requests[q]
  BY <1>1 DEF TicketsInv, TypeOK
<1>5. /\ requests'[r] \in Transaction
      /\ requests'[r].step = "stored" /\ requests'[r].ticket = t
      /\ requests'[r].expected = w.expected
      /\ requests'[r].updated = w.updated
      /\ requests'[r] # Idle
  BY <1>1, <1>2 DEF TicketsInv, TypeOK, Transaction, Idle
<1>6. /\ rows'[t] = w.updated
      /\ \A x \in Ticket \ {t} : rows'[x] = rows[x]
  BY <1>1, <1>3 DEF TicketsInv, TypeOK
<1>7. TypeOK'
  <2>1. requests' \in [Request -> {Idle} \union Transaction]
    <3>1. requests' = [requests EXCEPT ![r] = requests'[r]]
      BY <1>1 DEF TicketsInv, TypeOK
    <3>2. QED
      BY <1>5, <3>1 DEF TicketsInv, TypeOK
  <2>2. rows' \in [Ticket -> TicketRecord]
    BY <1>1, <1>3 DEF TicketsInv, TypeOK
  <2>3. entries' \in [Ticket -> Seq(Activity)]
    BY <1>1, <1>3 DEF TicketsInv, TypeOK
  <2>4. QED
    BY <1>1, <2>1, <2>2, <2>3 DEF TicketsInv, TypeOK
<1> HIDE DEF w, t
<1>8. On(r, t)
  BY <1>2 DEF On, t, w
<1>9. t \in issued
  BY <1>3, <1>8 DEF TicketsInv, FreshIds
<1>10. \A q \in Request, x \in Ticket : On(q, x)' <=> On(q, x)
  BY <1>2, <1>4, <1>5 DEF On, t, w
<1>11. FreshIds'
  BY <1>1, <1>6, <1>9, <1>10 DEF TicketsInv, FreshIds
\* The row was there, or r is the create and alone.
<1>12. \/ /\ w.expected = 0
          /\ tickets[t].version = 0
          /\ \A q \in Request : On(q, t) => q = r
       \/ /\ w.expected > 0
          /\ tickets[t].version <= w.expected
  <2>1. CASE w.expected = 0
    BY <1>1, <2>1 DEF TicketsInv, SoleCreate, t, w
  <2>2. CASE w.expected > 0
    BY <1>1, <1>3, <2>2 DEF TicketsInv, CacheIsCoherent
  <2>3. QED
    BY <1>3, <2>1, <2>2
<1>13. \A q \in Request \ {r} : requests[q] # Idle =>
          /\ requests[q].ticket \in Ticket
          /\ requests[q].expected \in Nat
          /\ requests[q].updated \in TicketRecord
  BY DEF TicketsInv, TypeOK, Transaction
<1>14. SoleCreate'
  <2> SUFFICES ASSUME NEW q \in Request, Sent(q)', requests'[q].expected = 0
               PROVE  /\ rows'[requests[q].ticket].version = 0
                      /\ tickets'[requests[q].ticket].version = 0
                      /\ requests'[q].ticket = requests[q].ticket
                      /\ \A p \in Request : On(p, requests[q].ticket)' => p = q
    BY DEF SoleCreate
  <2>1. q # r
    BY <1>5 DEF Sent
  <2>2. requests'[q] = requests[q] /\ Sent(q) /\ requests[q] # Idle
    BY <1>4, <2>1, SentIsNotIdle DEF Sent
  <2>3. /\ rows[requests[q].ticket].version = 0
        /\ tickets[requests[q].ticket].version = 0
        /\ \A p \in Request : On(p, requests[q].ticket) => p = q
    BY <2>2 DEF TicketsInv, SoleCreate
  <2>4. requests[q].ticket # t
    BY <1>8, <2>1, <2>3
  <2>5. QED
    BY <1>1, <1>6, <1>10, <1>13, <2>1, <2>2, <2>3, <2>4
<1>15. NoRowIsNoTicket' /\ NoCacheIsNoTicket'
  BY <1>1, <1>3, <1>6 DEF TicketsInv, NoRowIsNoTicket, NoCacheIsNoTicket
<1>16. NextVersion'
  BY <1>2, <1>3, <1>4, <1>5 DEF TicketsInv, NextVersion
<1>17. SentIsLegal'
  <2> SUFFICES ASSUME NEW q \in Request, Sent(q)'
               PROVE  /\ rows'[requests'[q].ticket].version > 0 =>
                            requests'[q].expected <= rows'[requests'[q].ticket].version
                      /\ rows'[requests'[q].ticket].version = requests'[q].expected =>
                            Legal(rows'[requests'[q].ticket],
                                  requests'[q].updated, requests'[q].added)
    BY Zenon DEF SentIsLegal
  <2>1. q # r
    BY <1>5 DEF Sent
  <2>2. requests'[q] = requests[q] /\ Sent(q) /\ requests[q] # Idle
    BY <1>4, <2>1, SentIsNotIdle DEF Sent
  <2>3. CASE requests[q].ticket # t
    BY <1>6, <1>13, <2>1, <2>2, <2>3 DEF TicketsInv, SentIsLegal
  <2>4. CASE requests[q].ticket = t
    <3>1. w.expected > 0
      BY <1>12, <2>1, <2>2, <2>4 DEF On
    <3>2. requests[q].expected <= w.expected
      BY <1>1, <2>2, <2>4, <3>1 DEF TicketsInv, SentIsLegal
    <3>3. rows'[t].version = w.expected + 1
      BY <1>3, <1>6
    <3>4. requests[q].expected \in Nat
      BY <1>13, <2>1, <2>2
    <3>5. QED
      BY <1>3, <2>2, <2>4, <3>2, <3>3, <3>4
  <2>5. QED
    BY <2>3, <2>4
<1>18. StoredIsCoherent'
  <2> SUFFICES ASSUME NEW q \in Request, Stored(q)',
                      rows'[requests'[q].ticket].version > 0
               PROVE  /\ requests'[q].updated.version <=
                            rows'[requests'[q].ticket].version
                      /\ requests'[q].updated.version =
                            rows'[requests'[q].ticket].version =>
                         requests'[q].updated = rows'[requests'[q].ticket]
    BY Zenon DEF StoredIsCoherent
  <2>1. CASE q = r
    BY <1>3, <1>5, <1>6, <2>1
  <2>2. CASE q # r
    <3>1. requests'[q] = requests[q] /\ Stored(q) /\ requests[q] # Idle
      BY <1>4, <2>2, SentIsNotIdle DEF Stored
    <3>2. CASE requests[q].ticket # t
      BY <1>6, <1>13, <2>2, <3>1, <3>2 DEF TicketsInv, StoredIsCoherent
    <3>3. CASE requests[q].ticket = t
      <4>1. w.expected > 0
        BY <1>12, <2>2, <3>1, <3>3 DEF On
      <4>2. requests[q].updated.version <= w.expected
        BY <1>1, <3>1, <3>3, <4>1 DEF TicketsInv, StoredIsCoherent
      <4>3. requests[q].updated.version \in Nat
        BY <1>13, <2>2, <3>1 DEF TicketRecord
      <4>4. QED
        BY <1>3, <1>6, <3>1, <3>3, <4>2, <4>3
    <3>4. QED
      BY <3>2, <3>3
  <2>3. QED
    BY <2>1, <2>2
<1>19. CacheIsCoherent'
  <2>1. tickets[t].version \in Nat
    BY <1>3 DEF TicketsInv, TypeOK, TicketRecord
  <2>2. QED
    BY <1>1, <1>3, <1>6, <1>12, <2>1 DEF TicketsInv, CacheIsCoherent
<1>20. QED
  BY <1>7, <1>11, <1>14, <1>15, <1>16, <1>17, <1>18, <1>19 DEF TicketsInv

LEMMA ResumeTicketInv ==
    ASSUME TicketsInv, NEW r \in Request, ResumeTicket(r)
    PROVE  TicketsInv'
<1> DEFINE w == requests[r]
           t == requests[r].ticket
           log == IF w.expected = 0 THEN w.added ELSE activities[t] \o w.added
<1>1. /\ Stored(r)
      /\ tickets' = [tickets EXCEPT ![t] = w.updated]
      /\ activities' = [activities EXCEPT ![t] = log]
      /\ requests' = [requests EXCEPT ![r] = Idle]
      /\ UNCHANGED rows /\ UNCHANGED entries /\ UNCHANGED issued
      /\ UNCHANGED clearing /\ UNCHANGED unseen
  BY Zenon DEF ResumeTicket, Stored
<1>2. w \in Transaction /\ w # Idle
  BY <1>1, SentIsNotIdle DEF TicketsInv, TypeOK
<1>3. /\ t \in Ticket /\ w.expected \in Nat
      /\ w.updated \in TicketRecord /\ w.added \in Seq(Activity)
      /\ w.updated.version = w.expected + 1
  BY <1>2 DEF Transaction, TicketsInv, NextVersion
<1>4. log \in Seq(Activity)
  BY <1>3 DEF TicketsInv, TypeOK
<1>5. \A q \in Request : requests'[q] = IF q = r THEN Idle ELSE requests[q]
  BY <1>1 DEF TicketsInv, TypeOK
<1>6. On(r, t)
  BY <1>2 DEF On
<1> HIDE DEF log
<1>7. TypeOK'
  BY <1>1, <1>3, <1>4 DEF TicketsInv, TypeOK
<1> HIDE DEF w, t
<1>8. /\ tickets'[t] = w.updated
      /\ \A x \in Ticket \ {t} : tickets'[x] = tickets[x]
  BY <1>1, <1>3 DEF TicketsInv, TypeOK
<1>9. t \in issued
  BY <1>3, <1>6 DEF TicketsInv, FreshIds
<1>10. \A q \in Request : \A x : On(q, x)' => On(q, x) /\ q # r
  BY <1>5 DEF On, Idle
<1>11. FreshIds'
  BY <1>1, <1>8, <1>9, <1>10 DEF TicketsInv, FreshIds
<1>12. SoleCreate'
  <2> SUFFICES ASSUME NEW q \in Request, Sent(q)', requests'[q].expected = 0
               PROVE  /\ rows'[requests[q].ticket].version = 0
                      /\ tickets'[requests[q].ticket].version = 0
                      /\ requests'[q].ticket = requests[q].ticket
                      /\ \A p \in Request : On(p, requests[q].ticket)' => p = q
    BY DEF SoleCreate
  <2>1. q # r /\ requests'[q] = requests[q] /\ Sent(q) /\ requests[q] # Idle
    BY <1>5, SentIsNotIdle DEF Sent, Idle
  <2>2. /\ rows[requests[q].ticket].version = 0
        /\ tickets[requests[q].ticket].version = 0
        /\ \A p \in Request : On(p, requests[q].ticket) => p = q
    BY <2>1 DEF TicketsInv, SoleCreate
  <2>3. requests[q].ticket # t
    BY <1>6, <2>1, <2>2
  <2>4. requests[q].ticket \in Ticket
    BY <2>1 DEF TicketsInv, TypeOK, Transaction
  <2>5. QED
    BY <1>1, <1>8, <1>10, <2>1, <2>2, <2>3, <2>4
<1>13. NoRowIsNoTicket' /\ NoCacheIsNoTicket'
  BY <1>1, <1>3, <1>8 DEF TicketsInv, NoRowIsNoTicket, NoCacheIsNoTicket
<1>14. NextVersion' /\ SentIsLegal' /\ StoredIsCoherent'
  BY <1>1, <1>5 DEF TicketsInv, NextVersion, SentIsLegal, StoredIsCoherent,
                    Sent, Stored, Idle
<1>15. CacheIsCoherent'
  <2>1. rows[t].version > 0 =>
          /\ w.updated.version <= rows[t].version
          /\ w.updated.version = rows[t].version => w.updated = rows[t]
    BY <1>1 DEF TicketsInv, StoredIsCoherent, w, t
  <2>2. QED
    BY <1>1, <1>8, <2>1 DEF TicketsInv, CacheIsCoherent
<1>16. QED
  BY <1>7, <1>11, <1>12, <1>13, <1>14, <1>15 DEF TicketsInv

LEMMA ClearInv ==
    ASSUME TicketsInv, ClearAll \/ StoreClear \/ ResumeClear \/ Restart
    PROVE  TicketsInv'
<1>1. TypeOK' /\ issued' = issued
  <2> USE DEF TicketsInv, TypeOK, Query
  <2>1. ASSUME ClearAll PROVE TypeOK' /\ issued' = issued
    BY <2>1 DEF ClearAll
  <2>2. ASSUME StoreClear PROVE TypeOK' /\ issued' = issued
    BY <2>2, NoTicketType DEF StoreClear
  <2>3. ASSUME ResumeClear PROVE TypeOK' /\ issued' = issued
    BY <2>3, NoTicketType DEF ResumeClear
  <2>4. ASSUME Restart PROVE TypeOK' /\ issued' = issued
    BY <2>4 DEF Restart
  <2>5. QED
    BY <2>1, <2>2, <2>3, <2>4
<1>2. /\ \A r \in Request : \/ requests'[r] = requests[r]
                            \/ Restart /\ requests'[r] = Idle
      /\ \A t \in Ticket : /\ rows'[t] = rows[t] \/ rows'[t] = NoTicket
                           /\ \/ tickets'[t] = tickets[t] /\ ~Restart
                              \/ tickets'[t] = NoTicket
                              \/ Restart /\ tickets'[t] = rows'[t]
  BY DEF ClearAll, StoreClear, ResumeClear, Restart
<1>3. FreshIds'
  BY <1>1, <1>2, NoTicketType DEF TicketsInv, FreshIds, On
<1>4. NoRowIsNoTicket' /\ NoCacheIsNoTicket'
  BY <1>2, NoTicketType DEF TicketsInv, NoRowIsNoTicket, NoCacheIsNoTicket
<1>5. CASE Restart
  <2>1. \A r \in Request : ~Sent(r)' /\ ~Stored(r)' /\ requests'[r] = Idle
    BY <1>5 DEF Restart, Sent, Stored, Idle
  <2>2. tickets' = rows' /\ \A t \in Ticket : rows'[t].version \in Nat
    BY <1>1, <1>5 DEF Restart, TypeOK, TicketRecord
  <2>3. QED
    BY <1>1, <1>3, <1>4, <2>1, <2>2 DEF TicketsInv, SoleCreate, NextVersion,
                                   SentIsLegal, StoredIsCoherent, CacheIsCoherent
<1>6. CASE ~Restart
  <2>1. requests' = requests
    BY <1>6 DEF ClearAll, StoreClear, ResumeClear, Restart
  <2>2. \A r \in Request : requests[r] # Idle => requests[r].ticket \in Ticket
    BY DEF TicketsInv, TypeOK, Transaction
  <2>3. SoleCreate'
    BY <1>2, <2>1, <2>2, NoTicketType, SentIsNotIdle
       DEF TicketsInv, SoleCreate, Sent, On
  <2>4. NextVersion'
    BY <2>1 DEF TicketsInv, NextVersion
  <2>5. SentIsLegal'
    <3> SUFFICES ASSUME NEW r \in Request, Sent(r)
                 PROVE  LET w == requests[r] IN
                        /\ rows'[w.ticket].version > 0 =>
                              w.expected <= rows'[w.ticket].version
                        /\ rows'[w.ticket].version = w.expected =>
                              Legal(rows'[w.ticket], w.updated, w.added)
      BY <2>1 DEF SentIsLegal, Sent
    <3>1. requests[r].ticket \in Ticket
      BY <2>2, SentIsNotIdle
    <3>2. CASE rows'[requests[r].ticket] = rows[requests[r].ticket]
      BY <3>2 DEF TicketsInv, SentIsLegal
    <3>3. CASE rows'[requests[r].ticket] = NoTicket
      <4>1. CASE requests[r].expected = 0
        BY <3>1, <3>3, <4>1, NoTicketType
           DEF TicketsInv, SoleCreate, NoRowIsNoTicket, SentIsLegal
      <4>2. CASE requests[r].expected # 0
        BY <3>3, <4>2, NoTicketType
      <4>3. QED
        BY <4>1, <4>2
    <3>4. QED
      BY <1>2, <3>1, <3>2, <3>3
  <2>6. StoredIsCoherent'
    BY <1>2, <2>1, <2>2, NoTicketType, SentIsNotIdle
       DEF TicketsInv, StoredIsCoherent, Stored
  <2>7. CacheIsCoherent'
    <3>1. \A t \in Ticket : rows'[t].version \in Nat
      BY <1>1 DEF TypeOK, TicketRecord
    <3>2. QED
      BY <1>2, <1>6, <3>1, NoTicketType DEF TicketsInv, CacheIsCoherent
  <2>8. QED
    BY <1>1, <1>3, <1>4, <2>3, <2>4, <2>5, <2>6, <2>7 DEF TicketsInv
<1>7. QED
  BY <1>5, <1>6

LEMMA TicketsInvariance == Spec => []TicketsInv
<1>1. Init => TicketsInv
  BY NoTicketType
     DEF Init, TicketsInv, TypeOK, Query, FreshIds, On, SoleCreate, NoRowIsNoTicket,
         NoCacheIsNoTicket, NextVersion, SentIsLegal, StoredIsCoherent,
         CacheIsCoherent, Sent, Stored, Idle
<1>2. ASSUME TicketsInv, [Next]_vars PROVE TicketsInv'
  <2>1. ASSUME NEW r \in Request, NEW t \in Ticket, CreateTicket(r, t)
        PROVE  TicketsInv'
    BY <1>2, <2>1, CreateSends, SendingInv
  <2>2. ASSUME NEW r \in Request, NEW t \in Ticket, NEW a \in Admin,
               ClaimTicket(r, t, a) \/ AssignTicket(r, t, a)
        PROVE  TicketsInv'
    BY <1>2, <2>2, AssignSends, SendingInv
  <2>3. ASSUME NEW r \in Request, NEW t \in Ticket, NEW a \in Admin,
               UpdateTicket(r, t, a)
        PROVE  TicketsInv'
    BY <1>2, <2>3, UpdateSends, SendingInv
  <2>4. ASSUME NEW r \in Request, StoreTicket(r)
        PROVE  TicketsInv'
    BY <1>2, <2>4, StoreCases, CommitInv, DropInv
  <2>5. ASSUME NEW r \in Request, ResumeTicket(r)
        PROVE  TicketsInv'
    BY <1>2, <2>5, ResumeTicketInv
  <2>6. ASSUME NEW r \in Request, FailTicket(r)
        PROVE  TicketsInv'
    BY <1>2, <2>6, DropInv DEF FailTicket, Drop
  <2>7. CASE ClearAll \/ StoreClear \/ ResumeClear \/ Restart
    BY <1>2, <2>7, ClearInv
  <2>8. CASE UNCHANGED vars
    BY <1>2, <2>8
       DEF vars, TicketsInv, TypeOK, FreshIds, On, SoleCreate, NoRowIsNoTicket,
           NoCacheIsNoTicket, NextVersion, SentIsLegal, StoredIsCoherent,
           CacheIsCoherent, Sent, Stored
  <2>9. QED
    BY <1>2, <2>1, <2>2, <2>3, <2>4, <2>5, <2>6, <2>7, <2>8 DEF Next
<1>3. QED
  BY <1>1, <1>2, PTL DEF Spec

-----------------------------------------------------------------------------
\* Every map, table row and request in progress keeps its type.
THEOREM TicketsTypeCorrect == Spec => []TypeOK
<1>1. TicketsInv => TypeOK
  BY DEF TicketsInv
<1>2. QED
  BY <1>1, TicketsInvariance, PTL

\* Memory never runs ahead of the table, and a version is the same ticket in
\* both, whatever requests overlap, fail or lose their answer.
THEOREM TicketsCacheIsCoherent == Spec => []CacheIsCoherent
<1>1. TicketsInv => CacheIsCoherent
  BY DEF TicketsInv
<1>2. QED
  BY <1>1, TicketsInvariance, PTL

\* The ledger's instance of TicketRecords is that of this module.
LEMMA SameRecords ==
    /\ Ledger!NoTicket = NoTicket
    /\ Ledger!Assignee = Assignee
    /\ Ledger!Status = Status
    /\ Ledger!CreatedActivities = CreatedActivities
    /\ \A d : Ledger!Created(d) = Created(d)
    /\ \A tk, b : Ledger!Assigned(tk, b) = Assigned(tk, b)
    /\ \A tk, a, b : Ledger!AssignedActivities(tk, a, b)
                       = AssignedActivities(tk, a, b)
    /\ \A tk, s, d : Ledger!Updated(tk, s, d) = Updated(tk, s, d)
    /\ \A tk, a, s, d : Ledger!UpdatedActivities(tk, a, s, d)
                          = UpdatedActivities(tk, a, s, d)
<1>1. /\ Ledger!NoTicket = NoTicket
      /\ Ledger!Assignee = Assignee
      /\ Ledger!Status = Status
      /\ Ledger!DoneStatus = DoneStatus
      /\ Ledger!CreatedActivities = CreatedActivities
  BY DEF Ledger!NoTicket, NoTicket, Ledger!Assignee, Assignee, Ledger!Status,
         Status, Ledger!DoneStatus, DoneStatus, Ledger!CreatedActivities,
         CreatedActivities
<1>2. \A d : Ledger!Created(d) = Created(d)
  BY <1>1, Zenon DEF Ledger!Created, Created
<1>3. \A tk, b : Ledger!Assigned(tk, b) = Assigned(tk, b)
  BY Zenon DEF Ledger!Assigned, Assigned
<1>4. \A tk, a, b : Ledger!AssignedActivities(tk, a, b)
                      = AssignedActivities(tk, a, b)
  BY Zenon DEF Ledger!AssignedActivities, AssignedActivities
<1>5. \A tk, s, d : Ledger!Updated(tk, s, d) = Updated(tk, s, d)
  BY <1>1, Zenon DEF Ledger!Updated, Updated
<1>6. \A tk, a, s, d : Ledger!UpdatedActivities(tk, a, s, d)
                         = UpdatedActivities(tk, a, s, d)
  BY Zenon DEF Ledger!UpdatedActivities, UpdatedActivities
<1>7. QED
  BY <1>1, <1>2, <1>3, <1>4, <1>5, <1>6, Zenon

LEMMA LegalIsLedger ==
    ASSUME NEW t \in Ticket, NEW updated, NEW added,
           Legal(rows[t], updated, added),
           rows' = [rows EXCEPT ![t] = updated],
           entries' = [entries EXCEPT ![t] = @ \o added]
    PROVE  Ledger!Next
<1>1. Ledger!Write(t, updated, added)
  BY Zenon DEF Ledger!Write
<1>2. CASE /\ rows[t].version = 0
           /\ \E d \in Detail : updated = Created(d) /\ added = CreatedActivities
  <2>1. Ledger!Open(t)
    BY <1>1, <1>2, SameRecords DEF Ledger!Open
  <2>2. QED
    BY <2>1, Zenon DEF Ledger!Next
<1>3. CASE /\ rows[t].version > 0 /\ rows[t].assignee = Nobody
           /\ \E a \in Admin : /\ updated = Assigned(rows[t], a)
                               /\ added = AssignedActivities(rows[t], a, a)
  <2>1. Ledger!Claim(t)
    BY <1>1, <1>3, SameRecords DEF Ledger!Claim
  <2>2. QED
    BY <2>1, Zenon DEF Ledger!Next
<1>4. CASE /\ rows[t].version > 0
           /\ \E a \in Admin, b \in Assignee \ {rows[t].assignee} :
                 /\ updated = Assigned(rows[t], b)
                 /\ added = AssignedActivities(rows[t], a, b)
  <2>1. Ledger!Assign(t)
    BY <1>1, <1>4, SameRecords DEF Ledger!Assign
  <2>2. QED
    BY <2>1, Zenon DEF Ledger!Next
<1>5. CASE /\ rows[t].version > 0 /\ rows[t].assignee # Nobody
           /\ \E s \in Status, d \in Detail :
                 /\ <<s, d>> # <<rows[t].status, rows[t].details>>
                 /\ updated = Updated(rows[t], s, d)
                 /\ added = UpdatedActivities(rows[t], rows[t].assignee, s, d)
  <2>1. Ledger!Update(t)
    BY <1>1, <1>5, SameRecords DEF Ledger!Update
  <2>2. QED
    BY <2>1, Zenon DEF Ledger!Next
<1>6. QED
  BY <1>2, <1>3, <1>4, <1>5, Zenon DEF Legal

\* The committed tickets and activities behave as the ledger: the commit of
\* every request is one change that the ledger allows at that moment.
THEOREM TicketsImplementLedger == Spec => ImplementsLedger
<1>1. Init => Ledger!Init
  BY SameRecords DEF Init, Ledger!Init
<1>2. ASSUME TicketsInv, [Next]_vars
      PROVE  [Ledger!Next]_Ledger!vars
  <2>1. ASSUME NEW r \in Request, Commit(r)
        PROVE  Ledger!Next
    <3>1. Legal(rows[requests[r].ticket], requests[r].updated, requests[r].added)
      BY <1>2, <2>1 DEF Commit, TicketsInv, SentIsLegal
    <3>2. requests[r].ticket \in Ticket
      BY <1>2, <2>1, SentIsNotIdle DEF Commit, TicketsInv, TypeOK, Transaction
    <3>3. QED
      BY <2>1, <3>1, <3>2, LegalIsLedger, Zenon DEF Commit
  <2>2. CASE StoreClear
    BY <2>2, SameRecords, Zenon DEF StoreClear, Ledger!Next, Ledger!Clear
  <2>3. CASE UNCHANGED rows /\ UNCHANGED entries
    BY <2>3 DEF Ledger!vars
  <2>4. ASSUME NEW r \in Request, StoreTicket(r)
        PROVE  [Ledger!Next]_Ledger!vars
    <3>1. CASE Commit(r)
      BY <2>1, <3>1
    <3>2. CASE Drop(r)
      BY <2>3, <3>2, Zenon DEF Drop
    <3>3. QED
      BY <2>4, <3>1, <3>2, StoreCases
  <2>5. ASSUME NEW r \in Request, NEW t \in Ticket, NEW a,
               \/ CreateTicket(r, t) \/ ClaimTicket(r, t, a)
               \/ AssignTicket(r, t, a) \/ UpdateTicket(r, t, a)
        PROVE  UNCHANGED rows /\ UNCHANGED entries
    BY <2>5, Zenon DEF CreateTicket, ClaimTicket, AssignTicket, UpdateTicket,
                       ChangeAssignment, Send
  <2>6. ASSUME NEW r \in Request, ResumeTicket(r) \/ FailTicket(r)
        PROVE  UNCHANGED rows /\ UNCHANGED entries
    BY <2>6, Zenon DEF ResumeTicket, FailTicket
  <2>7. CASE ClearAll \/ ResumeClear \/ Restart \/ UNCHANGED vars
    BY <2>3, <2>7, Zenon DEF ClearAll, ResumeClear, Restart, vars
  <2>8. QED
    BY <1>2, <2>2, <2>3, <2>4, <2>5, <2>6, <2>7 DEF Next
<1>3. QED
  BY <1>1, <1>2, TicketsInvariance, PTL DEF Spec, ImplementsLedger, Ledger!Spec

-----------------------------------------------------------------------------
(***************************************************************************)
(* Without the development reset                                           *)
(***************************************************************************)
InOrder ==
    /\ \A t \in Ticket : tickets[t].version <= rows[t].version
    /\ \A r \in Request : requests[r] # Idle =>
          requests[r].expected <= tickets[requests[r].ticket].version

\* A request whose answer is to come is the only one of its ticket, and its
\* activities are all that memory lacks.
Awaited(r) ==
    LET w == requests[r] IN
    /\ tickets[w.ticket].version = w.expected
    /\ rows[w.ticket].version = w.expected + 1
    /\ entries[w.ticket] = activities[w.ticket] \o w.added

OneStored ==
    /\ \A r \in Request : Stored(r) => Awaited(r)
    /\ \A r, q \in Request :
          Stored(r) /\ Stored(q) /\ requests[q].ticket = requests[r].ticket => q = r

NoTicketNoActivities ==
    \A t \in Ticket : tickets[t].version = 0 => activities[t] = <<>>

SameActivities ==
    \A t \in Ticket : tickets[t].version = rows[t].version
                         => activities[t] = entries[t]

NoClear == clearing = "idle"

ActivityInv ==
    /\ InOrder
    /\ OneStored
    /\ NoTicketNoActivities
    /\ SameActivities

LEMMA OneStoredKept ==
    ASSUME OneStored,
           \A q \in Request : Stored(q)' =>
              LET t == requests[q].ticket IN
              /\ Stored(q) /\ requests'[q] = requests[q]
              /\ tickets'[t] = tickets[t] /\ activities'[t] = activities[t]
              /\ rows'[t] = rows[t] /\ entries'[t] = entries[t]
    PROVE  OneStored'
<1>1. ASSUME NEW q \in Request, Stored(q)' PROVE Awaited(q)'
  <2>1. Awaited(q)
    BY <1>1 DEF OneStored
  <2>2. QED
    BY <1>1, <2>1 DEF Awaited
<1>2. ASSUME NEW q \in Request, NEW p \in Request, Stored(q)', Stored(p)',
             requests'[p].ticket = requests'[q].ticket
      PROVE  p = q
  BY <1>2 DEF OneStored
<1>3. QED
  BY <1>1, <1>2 DEF OneStored

LEMMA SendingActivityInv ==
    ASSUME TicketsInv, ActivityInv, NEW r \in Request, NEW t \in Ticket,
           NEW updated, NEW added, Sending(r, t, updated, added)
    PROVE  ActivityInv' /\ UNCHANGED tickets
<1> DEFINE w == [step |-> "sent", ticket |-> t, expected |-> tickets[t].version,
                 updated |-> updated, added |-> added]
<1>1. /\ requests' = [requests EXCEPT ![r] = w]
      /\ UNCHANGED tickets /\ UNCHANGED activities /\ UNCHANGED rows
      /\ UNCHANGED entries
  BY Zenon DEF Sending, Send
<1>2. w.step = "sent" /\ w.ticket = t /\ w.expected = tickets[t].version
  OBVIOUS
<1> HIDE DEF w
<1>3. \A q \in Request : requests'[q] = IF q = r THEN w ELSE requests[q]
  BY <1>1 DEF TicketsInv, TypeOK
<1>4. tickets[t].version \in Nat
  BY DEF TicketsInv, TypeOK, TicketRecord
<1>5. InOrder'
  BY <1>1, <1>2, <1>3, <1>4 DEF ActivityInv, InOrder
<1>6. OneStored'
  BY <1>1, <1>2, <1>3, OneStoredKept DEF ActivityInv, Stored
<1>7. NoTicketNoActivities' /\ SameActivities'
  BY <1>1 DEF ActivityInv, NoTicketNoActivities, SameActivities
<1>8. QED
  BY <1>1, <1>5, <1>6, <1>7 DEF ActivityInv

LEMMA DropActivityInv ==
    ASSUME TicketsInv, ActivityInv, NEW r \in Request, Drop(r)
    PROVE  ActivityInv' /\ UNCHANGED tickets
<1>1. /\ UNCHANGED tickets /\ UNCHANGED activities /\ UNCHANGED rows
      /\ UNCHANGED entries
      /\ requests' = [requests EXCEPT ![r] = Idle]
  BY Zenon DEF Drop
<1>2. \A q \in Request : requests'[q] = IF q = r THEN Idle ELSE requests[q]
  BY <1>1 DEF TicketsInv, TypeOK
<1>3. OneStored'
  BY <1>1, <1>2, OneStoredKept DEF ActivityInv, Stored, Idle
<1>4. QED
  BY <1>1, <1>2, <1>3 DEF ActivityInv, InOrder, Idle, NoTicketNoActivities,
                          SameActivities

LEMMA CommitActivityInv ==
    ASSUME TicketsInv, ActivityInv, NEW r \in Request, Commit(r)
    PROVE  ActivityInv' /\ UNCHANGED tickets
<1> DEFINE w == requests[r]
           t == requests[r].ticket
<1>1. /\ Sent(r)
      /\ rows[t].version = w.expected
      /\ rows' = [rows EXCEPT ![t] = w.updated]
      /\ entries' = [entries EXCEPT ![t] = @ \o w.added]
      /\ requests' = [requests EXCEPT ![r].step = "stored"]
      /\ UNCHANGED tickets /\ UNCHANGED activities
  BY Zenon DEF Commit
<1>2. w \in Transaction /\ w # Idle
  BY <1>1, SentIsNotIdle DEF TicketsInv, TypeOK
<1>3. /\ t \in Ticket /\ w.expected \in Nat
      /\ w.updated.version = w.expected + 1
  BY <1>2 DEF Transaction, TicketsInv, NextVersion
<1>4. \A q \in Request \ {r} : requests'[q] = requests[q]
  BY <1>1 DEF TicketsInv, TypeOK
<1>5. /\ requests'[r].step = "stored" /\ requests'[r].ticket = t
      /\ requests'[r].expected = w.expected
      /\ requests'[r].added = w.added
      /\ requests'[r] # Idle
  BY <1>1, <1>2 DEF TicketsInv, TypeOK, Transaction, Idle
<1>6. /\ rows'[t] = w.updated
      /\ entries'[t] = entries[t] \o w.added
      /\ \A x \in Ticket \ {t} : rows'[x] = rows[x] /\ entries'[x] = entries[x]
  BY <1>1, <1>3 DEF TicketsInv, TypeOK
<1>7. \A x \in Ticket : tickets[x].version \in Nat /\ rows[x].version \in Nat
  BY DEF TicketsInv, TypeOK, TicketRecord
<1>8. tickets[t].version = w.expected /\ activities[t] = entries[t]
  BY <1>1, <1>2, <1>3, <1>7 DEF ActivityInv, InOrder, SameActivities
<1>9. \A q \in Request : Stored(q) => q # r /\ requests[q].ticket # t
  <2> SUFFICES ASSUME NEW q \in Request, Stored(q), requests[q].ticket = t
               PROVE  FALSE
    BY <1>1 DEF Stored, Sent
  <2>1. rows[t].version = tickets[t].version + 1
    BY DEF ActivityInv, OneStored, Awaited
  <2>2. QED
    BY <1>1, <1>3, <1>8, <2>1
<1>10. \A q \in Request : Stored(q) => requests[q].ticket \in Ticket
  BY SentIsNotIdle DEF TicketsInv, TypeOK, Transaction
<1> HIDE DEF w, t
<1>11. InOrder'
  <2>1. \A x \in Ticket : tickets'[x].version <= rows'[x].version
    BY <1>1, <1>3, <1>6, <1>7, <1>8 DEF ActivityInv, InOrder
  <2>2. \A q \in Request : requests'[q] # Idle =>
           requests'[q].expected <= tickets'[requests'[q].ticket].version
    BY <1>1, <1>3, <1>4, <1>5, <1>8 DEF ActivityInv, InOrder
  <2>3. QED
    BY <2>1, <2>2 DEF InOrder
<1>12. OneStored'
  <2>1. ASSUME NEW q \in Request, Stored(q)'
        PROVE  \/ /\ q = r
               \/ /\ q # r /\ requests'[q] = requests[q] /\ Stored(q)
                  /\ requests[q].ticket # t /\ requests[q].ticket \in Ticket
    BY <1>4, <1>9, <1>10, <2>1 DEF Stored
  <2>2. ASSUME NEW q \in Request, Stored(q)'
        PROVE  Awaited(q)'
    <3>1. CASE q = r
      BY <1>1, <1>3, <1>5, <1>6, <1>8, <3>1 DEF Awaited
    <3>2. CASE q # r
      <4>1. Awaited(q)
        BY <2>1, <2>2, <3>2 DEF ActivityInv, OneStored
      <4>2. /\ requests'[q] = requests[q]
            /\ requests[q].ticket # t /\ requests[q].ticket \in Ticket
        BY <2>1, <2>2, <3>2
      <4>3. /\ rows'[requests[q].ticket] = rows[requests[q].ticket]
            /\ entries'[requests[q].ticket] = entries[requests[q].ticket]
        BY <1>6, <4>2
      <4>4. tickets' = tickets /\ activities' = activities
        BY <1>1
      <4>5. QED
        BY <4>1, <4>2, <4>3, <4>4 DEF Awaited
    <3>3. QED
      BY <3>1, <3>2
  <2>3. ASSUME NEW q \in Request, NEW p \in Request, Stored(q)', Stored(p)',
               requests'[p].ticket = requests'[q].ticket
        PROVE  p = q
    BY <1>5, <2>1, <2>3 DEF ActivityInv, OneStored
  <2>4. QED
    BY <2>2, <2>3 DEF OneStored
<1>13. NoTicketNoActivities'
  BY <1>1 DEF ActivityInv, NoTicketNoActivities
<1>14. SameActivities'
  BY <1>1, <1>3, <1>6, <1>8 DEF ActivityInv, SameActivities
<1>15. QED
  BY <1>1, <1>11, <1>12, <1>13, <1>14 DEF ActivityInv

LEMMA ResumeTicketActivityInv ==
    ASSUME TicketsInv, ActivityInv, NEW r \in Request, ResumeTicket(r)
    PROVE  /\ ActivityInv'
           /\ \A t \in Ticket : tickets'[t].version >= tickets[t].version
<1> DEFINE w == requests[r]
           t == requests[r].ticket
           log == IF w.expected = 0 THEN w.added ELSE activities[t] \o w.added
<1>1. /\ Stored(r)
      /\ tickets' = [tickets EXCEPT ![t] = w.updated]
      /\ activities' = [activities EXCEPT ![t] = log]
      /\ requests' = [requests EXCEPT ![r] = Idle]
      /\ UNCHANGED rows /\ UNCHANGED entries
  BY Zenon DEF ResumeTicket, Stored
<1>2. w \in Transaction /\ w # Idle
  BY <1>1, SentIsNotIdle DEF TicketsInv, TypeOK
<1>3. /\ t \in Ticket /\ w.expected \in Nat /\ w.added \in Seq(Activity)
      /\ w.updated.version = w.expected + 1
  BY <1>2 DEF Transaction, TicketsInv, NextVersion
<1>4. /\ tickets[t].version = w.expected
      /\ rows[t].version = w.expected + 1
      /\ entries[t] = activities[t] \o w.added
      /\ \A q \in Request : Stored(q) /\ requests[q].ticket = t => q = r
  BY <1>1 DEF ActivityInv, OneStored, Awaited
<1>5. log = entries[t]
  <2>1. CASE w.expected = 0
    <3>1. activities[t] = <<>>
      BY <1>3, <1>4, <2>1 DEF ActivityInv, NoTicketNoActivities
    <3>2. QED
      BY <1>3, <1>4, <2>1, <3>1
  <2>2. CASE w.expected # 0
    BY <1>4, <2>2
  <2>3. QED
    BY <2>1, <2>2
<1> HIDE DEF log, w, t
<1>6. /\ tickets'[t] = w.updated /\ activities'[t] = entries[t]
      /\ \A x \in Ticket \ {t} : /\ tickets'[x] = tickets[x]
                                 /\ activities'[x] = activities[x]
  BY <1>1, <1>3, <1>5 DEF TicketsInv, TypeOK
<1>7. \A q \in Request : requests'[q] = IF q = r THEN Idle ELSE requests[q]
  BY <1>1 DEF TicketsInv, TypeOK
<1>8. \A x \in Ticket : tickets[x].version \in Nat
  BY DEF TicketsInv, TypeOK, TicketRecord
<1>9. \A x \in Ticket : tickets'[x].version >= tickets[x].version
  BY <1>3, <1>4, <1>6, <1>8
<1>10. \A q \in Request : requests[q] # Idle =>
          requests[q].ticket \in Ticket /\ requests[q].expected \in Nat
  BY DEF TicketsInv, TypeOK, Transaction
<1>11. InOrder'
  <2>1. \A x \in Ticket : tickets'[x].version <= rows'[x].version
    BY <1>1, <1>3, <1>4, <1>6 DEF ActivityInv, InOrder
  <2>2. \A q \in Request : requests'[q] # Idle =>
           requests'[q].expected <= tickets'[requests'[q].ticket].version
    BY <1>3, <1>4, <1>6, <1>7, <1>10 DEF ActivityInv, InOrder
  <2>3. QED
    BY <2>1, <2>2 DEF InOrder
<1>12. OneStored'
  <2>1. \A q \in Request : Stored(q)' =>
           /\ requests'[q] = requests[q] /\ Stored(q)
           /\ requests[q].ticket # t /\ requests[q].ticket \in Ticket
    BY <1>4, <1>7, <1>10, SentIsNotIdle DEF Stored, Idle
  <2>2. QED
    BY <1>1, <1>6, <2>1, OneStoredKept DEF ActivityInv
<1>13. NoTicketNoActivities'
  BY <1>3, <1>6 DEF ActivityInv, NoTicketNoActivities
<1>14. SameActivities'
  BY <1>1, <1>6 DEF ActivityInv, SameActivities
<1>15. QED
  BY <1>9, <1>11, <1>12, <1>13, <1>14 DEF ActivityInv

LEMMA NextActivityInv ==
    ASSUME TicketsInv, TicketsInv', ActivityInv, ~MayClear, NoClear, [Next]_vars
    PROVE  /\ ActivityInv' /\ NoClear'
           /\ \A t \in Ticket : tickets'[t].version >= tickets[t].version
<1> DEFINE Advances == \A t \in Ticket : tickets'[t].version >= tickets[t].version
<1>1. \A t \in Ticket : tickets[t].version \in Nat
  BY DEF TicketsInv, TypeOK, TicketRecord
<1>2. ASSUME UNCHANGED tickets PROVE Advances
  BY <1>1, <1>2
<1>3. ASSUME NEW r \in Request, NEW t \in Ticket, CreateTicket(r, t)
      PROVE  ActivityInv' /\ Advances /\ UNCHANGED clearing
  BY <1>2, <1>3, CreateSends, SendingActivityInv DEF CreateTicket, Send
<1>4. ASSUME NEW r \in Request, NEW t \in Ticket, NEW a \in Admin,
             ClaimTicket(r, t, a) \/ AssignTicket(r, t, a)
      PROVE  ActivityInv' /\ Advances /\ UNCHANGED clearing
  <2>1. PICK updated, added : Sending(r, t, updated, added)
    BY <1>4, AssignSends
  <2>2. ActivityInv' /\ UNCHANGED tickets
    BY <2>1, SendingActivityInv
  <2>3. UNCHANGED clearing
    BY <2>1, Zenon DEF Sending, Send
  <2>4. QED
    BY <1>2, <2>2, <2>3
<1>5. ASSUME NEW r \in Request, NEW t \in Ticket, NEW a \in Admin,
             UpdateTicket(r, t, a)
      PROVE  ActivityInv' /\ Advances /\ UNCHANGED clearing
  <2>1. PICK updated, added : Sending(r, t, updated, added)
    BY <1>5, UpdateSends
  <2>2. ActivityInv' /\ UNCHANGED tickets
    BY <2>1, SendingActivityInv
  <2>3. UNCHANGED clearing
    BY <2>1, Zenon DEF Sending, Send
  <2>4. QED
    BY <1>2, <2>2, <2>3
<1>6. ASSUME NEW r \in Request, StoreTicket(r)
      PROVE  ActivityInv' /\ Advances /\ UNCHANGED clearing
  BY <1>2, <1>6, StoreCases, CommitActivityInv, DropActivityInv DEF StoreTicket
<1>7. ASSUME NEW r \in Request, ResumeTicket(r)
      PROVE  ActivityInv' /\ Advances /\ UNCHANGED clearing
  BY <1>7, ResumeTicketActivityInv DEF ResumeTicket
<1>8. ASSUME NEW r \in Request, FailTicket(r)
      PROVE  ActivityInv' /\ Advances /\ UNCHANGED clearing
  BY <1>2, <1>8, DropActivityInv DEF FailTicket, Drop
<1>9. CASE Restart
  <2>1. /\ tickets' = rows /\ rows' = rows
        /\ activities' = entries /\ entries' = entries
        /\ clearing' = "idle"
        /\ \A r \in Request : requests'[r] = Idle
    BY <1>9 DEF Restart
  <2>2. Advances
    BY <1>1, <2>1 DEF ActivityInv, InOrder, TicketsInv, TypeOK, TicketRecord
  <2>3. InOrder' /\ OneStored' /\ SameActivities'
    BY <1>1, <2>1 DEF InOrder, OneStored, SameActivities, Stored, Idle,
                TicketsInv, TypeOK, TicketRecord
  <2>4. NoTicketNoActivities'
    <3>1. \A t \in Ticket : rows[t].version = 0 => tickets[t].version = 0
      BY <1>1 DEF ActivityInv, InOrder
    <3>2. QED
      BY <2>1, <3>1 DEF ActivityInv, NoTicketNoActivities, SameActivities
  <2>5. QED
    BY <2>1, <2>2, <2>3, <2>4 DEF ActivityInv, NoClear
<1>10. CASE UNCHANGED vars
  BY <1>2, <1>10 DEF vars, ActivityInv, InOrder, OneStored, Stored, Awaited,
                     NoTicketNoActivities, SameActivities, NoClear
<1>11. ~ClearAll /\ ~StoreClear /\ ~ResumeClear
  BY DEF ClearAll, StoreClear, ResumeClear, NoClear
<1>12. QED
  BY <1>3, <1>4, <1>5, <1>6, <1>7, <1>8, <1>9, <1>10, <1>11 DEF Next, NoClear

LEMMA ActivityInvariance ==
    ASSUME ~MayClear
    PROVE  Spec => [](ActivityInv /\ NoClear)
<1>1. Init => ActivityInv /\ NoClear
  BY NoTicketType DEF Init, NoClear, ActivityInv, InOrder, OneStored, Stored, Idle,
                      NoTicketNoActivities, SameActivities
<1>2. /\ TicketsInv /\ TicketsInv'
      /\ ActivityInv /\ NoClear /\ [Next]_vars
      => ActivityInv' /\ NoClear'
  BY NextActivityInv
<1>3. QED
  BY <1>1, <1>2, TicketsInvariance, PTL DEF Spec

\* The same version has the same audit trail in memory and in the table,
\* unless the development reset is used.
THEOREM TicketsActivitiesAreCoherent ==
    ASSUME ~MayClear
    PROVE  Spec => []ActivitiesAreCoherent
<1>1. ActivityInv => ActivitiesAreCoherent
  BY DEF ActivityInv, SameActivities, ActivitiesAreCoherent
<1>2. QED
  BY <1>1, ActivityInvariance, PTL

\* No reader of memory sees a ticket go back to an earlier version, not even
\* over a restart, unless the development reset is used.
THEOREM TicketsCacheOnlyAdvances ==
    ASSUME ~MayClear
    PROVE  Spec => CacheOnlyAdvances
<1>1. /\ TicketsInv /\ TicketsInv'
      /\ ActivityInv /\ NoClear /\ [Next]_vars
      => [\A t \in Ticket : tickets'[t].version >= tickets[t].version]_vars
  BY NextActivityInv
<1>2. QED
  BY <1>1, TicketsInvariance, ActivityInvariance, PTL DEF Spec, CacheOnlyAdvances

-----------------------------------------------------------------------------
(***************************************************************************)
(* The audit trail.  What the activities say of a ticket follows from the  *)
(* ledger alone: every legal change appends entries that explain it, to    *)
(* entries that explain what was there.                                    *)
(***************************************************************************)
\* The entries that made a ticket resolved or closed.
Finishes(log) ==
    {i \in 1 .. Len(log) : /\ log[i].action = "status_changed"
                           /\ log[i].from \notin DoneStatus
                           /\ log[i].to \in DoneStatus}

Explains(tk, log) ==
    /\ tk.assignee = LastTo(log, Len(log), AssignAction, Nobody)
    /\ tk.status = LastTo(log, Len(log), {"status_changed"}, "open")
    /\ \A i \in 1 .. Len(log) : log[i].action \in ChangeAction =>
          log[i].actor = LastTo(log, i - 1, AssignAction, Nobody)
    /\ tk.status \notin DoneStatus => tk.resolvedAt = 0
    /\ tk.status \in DoneStatus =>
          /\ tk.resolvedAt # 0
          /\ \E m \in Finishes(log) : /\ \A j \in Finishes(log) : j <= m
                                      /\ tk.resolvedAt = log[m].at

\* By well-founded induction on the distance from n.
LEMMA MaximumExists ==
    ASSUME NEW n \in Nat, NEW I \in SUBSET (1 .. n), I # {}
    PROVE  \E m \in I : \A j \in I : j <= m
<1> DEFINE T == {n - i : i \in I}
<1>1. T \subseteq Nat /\ T # {}
  <2>1. PICK i \in I : TRUE
    OBVIOUS
  <2>2. n - i \in T
    OBVIOUS
  <2>3. \A j \in I : n - j \in Nat
    OBVIOUS
  <2>4. QED
    BY <2>2, <2>3
<1> DEFINE R == OpToRel(<, Nat)
<1>2. \E x \in T : \A y \in T : ~(<<y, x>> \in R)
  <2>1. IsWellFoundedOn(R, Nat)
    BY NatLessThanWellFounded
  <2> HIDE DEF R, T
  <2>2. QED
    BY <1>1, <2>1, WFMin
<1>3. \A x, y \in Nat : <<y, x>> \in R <=> y < x
  BY DEF OpToRel
<1> HIDE DEF R
<1>4. PICK x \in T : \A y \in T : ~(y < x)
  BY <1>1, <1>2, <1>3
<1>5. QED
  BY SMTT(30), <1>4

\* An entry that is appended does not change what the entries before it say.
LEMMA LastToOfPrefix ==
    ASSUME NEW log \in Seq(Activity), NEW e \in Activity, NEW n \in 0 .. Len(log),
           NEW actions, NEW default
    PROVE  LastTo(Append(log, e), n, actions, default) = LastTo(log, n, actions, default)
<1> DEFINE longer == Append(log, e)
           I == {i \in 1 .. n : log[i].action \in actions}
           J == {i \in 1 .. n : longer[i].action \in actions}
<1>1. \A i \in 1 .. n : longer[i] = log[i]
  BY AppendProperties
<1> HIDE DEF longer
<1>2. I = J
  BY <1>1
<1>3. CASE I = {}
  BY <1>2, <1>3 DEF LastTo, longer
<1>4. CASE I # {}
  <2> DEFINE m == CHOOSE i \in I : \A j \in I : j <= i
  <2>1. n \in Nat /\ I \in SUBSET (1 .. n)
    OBVIOUS
  <2>2. \E i \in I : \A j \in I : j <= i
    <3> HIDE DEF I
    <3>1. QED
      BY <1>4, <2>1, MaximumExists
  <2>3. m \in 1 .. n
    BY <2>2
  <2>4. /\ LastTo(log, n, actions, default) = log[m].to
        /\ LastTo(longer, n, actions, default) = longer[m].to
    <3>1. LastTo(log, n, actions, default) = log[m].to
      BY <1>4, Zenon DEF LastTo
    <3>2. LastTo(longer, n, actions, default) =
             longer[CHOOSE i \in J : \A j \in J : j <= i].to
      BY <1>2, <1>4, Zenon DEF LastTo
    <3> HIDE DEF I, J
    <3>3. QED
      BY <1>2, <3>1, <3>2
  <2>5. QED
    BY <1>1, <2>3, <2>4 DEF longer
<1>5. QED
  BY <1>3, <1>4

\* The last entry is the one that counts, if it has one of the actions.
LEMMA LastToOfAll ==
    ASSUME NEW log \in Seq(Activity), NEW e \in Activity, NEW actions, NEW default
    PROVE  LastTo(Append(log, e), Len(log) + 1, actions, default) =
              IF e.action \in actions THEN e.to
              ELSE LastTo(log, Len(log), actions, default)
<1> DEFINE longer == Append(log, e)
           n == Len(log)
           I == {i \in 1 .. n + 1 : longer[i].action \in actions}
           J == {i \in 1 .. n : longer[i].action \in actions}
<1>1. n \in Nat /\ longer[n + 1] = e
  BY AppendProperties, LenProperties
<1> HIDE DEF longer, n
<1>2. CASE e.action \in actions
  <2>1. n + 1 \in I /\ \A j \in I : j <= n + 1
    BY <1>1, <1>2
  <2>2. \A i \in I : (\A j \in I : j <= i) => i = n + 1
    BY <1>1, <2>1
  <2>3. (CHOOSE i \in I : \A j \in I : j <= i) = n + 1
    <3> HIDE DEF I
    <3>1. QED
      BY <2>1, <2>2
  <2>4. LastTo(longer, n + 1, actions, default) =
           longer[CHOOSE i \in I : \A j \in I : j <= i].to
    BY <2>1, Zenon DEF LastTo
  <2> HIDE DEF I
  <2>5. QED
    BY <1>1, <1>2, <2>3, <2>4 DEF longer, n
<1>3. CASE e.action \notin actions
  <2>1. I = J
    BY <1>1, <1>3
  <2>2. LastTo(longer, n + 1, actions, default) = LastTo(longer, n, actions, default)
    <3>1. LastTo(longer, n + 1, actions, default) =
             IF I = {} THEN default
             ELSE longer[CHOOSE i \in I : \A j \in I : j <= i].to
      BY Zenon DEF LastTo
    <3>2. LastTo(longer, n, actions, default) =
             IF J = {} THEN default
             ELSE longer[CHOOSE i \in J : \A j \in J : j <= i].to
      BY Zenon DEF LastTo
    <3> HIDE DEF I, J
    <3>3. QED
      BY <2>1, <3>1, <3>2
  <2>3. LastTo(longer, n, actions, default) = LastTo(log, n, actions, default)
    BY <1>1, LastToOfPrefix DEF longer, n
  <2>4. QED
    BY <1>3, <2>2, <2>3 DEF longer, n
<1>4. QED
  BY <1>2, <1>3


\* What an entry must say of the change from tk to "new" to explain it.
Tells(e, tk, new) ==
    /\ new.assignee = IF e.action \in AssignAction THEN e.to ELSE tk.assignee
    /\ new.status = IF e.action = "status_changed" THEN e.to ELSE tk.status
    /\ e.action \in ChangeAction => e.actor = tk.assignee
    /\ e.action = "status_changed" => e.from = tk.status
    /\ e.at # 0
    /\ new.resolvedAt = IF new.status \notin DoneStatus THEN 0
                        ELSE IF tk.resolvedAt # 0 THEN tk.resolvedAt
                        ELSE e.at

LEMMA AppendExplains ==
    ASSUME NEW log \in Seq(Activity), NEW e \in Activity, NEW tk, NEW new,
           Explains(tk, log), Tells(e, tk, new)
    PROVE  Explains(new, Append(log, e))
<1> DEFINE longer == Append(log, e)
           n == Len(log)
<1>1. /\ n \in Nat
      /\ Len(longer) = n + 1
      /\ longer[n + 1] = e
      /\ \A i \in 1 .. n : longer[i] = log[i]
  BY AppendProperties, LenProperties
<1>2. new.assignee = LastTo(longer, Len(longer), AssignAction, Nobody)
  BY <1>1, LastToOfAll DEF Explains, Tells
<1>3. new.status = LastTo(longer, Len(longer), {"status_changed"}, "open")
  BY <1>1, LastToOfAll DEF Explains, Tells
<1>4. ASSUME NEW i \in 1 .. Len(longer), longer[i].action \in ChangeAction
      PROVE  longer[i].actor = LastTo(longer, i - 1, AssignAction, Nobody)
  <2>1. i - 1 \in 0 .. n
    BY <1>1
  <2>2. LastTo(longer, i - 1, AssignAction, Nobody) = LastTo(log, i - 1, AssignAction, Nobody)
    BY <2>1, LastToOfPrefix
  <2>3. CASE i = n + 1
    BY <1>1, <1>4, <2>2, <2>3 DEF Explains, Tells
  <2>4. CASE i \in 1 .. n
    BY <1>1, <1>4, <2>2, <2>4 DEF Explains
  <2>5. QED
    BY <1>1, <2>3, <2>4
<1> HIDE DEF longer
<1>5. Finishes(longer) = Finishes(log) \union
         (IF /\ e.action = "status_changed" /\ e.from \notin DoneStatus
             /\ e.to \in DoneStatus THEN {n + 1} ELSE {})
  BY <1>1 DEF Finishes
<1>6. new.status \notin DoneStatus => new.resolvedAt = 0
  BY DEF Tells
<1>7. ASSUME new.status \in DoneStatus
      PROVE  /\ new.resolvedAt # 0
             /\ \E m \in Finishes(longer) : /\ \A j \in Finishes(longer) : j <= m
                                            /\ new.resolvedAt = longer[m].at
  <2>1. CASE tk.status \in DoneStatus
    <3>1. PICK m \in Finishes(log) : /\ \A j \in Finishes(log) : j <= m
                                     /\ tk.resolvedAt = log[m].at
      BY <2>1 DEF Explains
    <3>2. Finishes(longer) = Finishes(log)
      BY <1>5, <2>1 DEF Tells
    <3>3. new.resolvedAt = tk.resolvedAt /\ tk.resolvedAt # 0
      BY <1>7, <2>1 DEF Explains, Tells
    <3>4. m \in 1 .. n
      BY DEF Finishes
    <3>5. QED
      BY <1>1, <3>1, <3>2, <3>3, <3>4
  <2>2. CASE tk.status \notin DoneStatus
    <3>1. /\ e.action = "status_changed" /\ e.from \notin DoneStatus
          /\ e.to \in DoneStatus
      BY <1>7, <2>2 DEF Tells
    <3>2. new.resolvedAt = e.at /\ e.at # 0
      BY <1>7, <2>2 DEF Explains, Tells
    <3>3. n + 1 \in Finishes(longer) /\ \A j \in Finishes(longer) : j <= n + 1
      BY <1>1, <1>5, <3>1 DEF Finishes
    <3>4. QED
      BY <1>1, <3>2, <3>3
  <2>3. QED
    BY <2>1, <2>2
<1>8. QED
  BY <1>2, <1>3, <1>4, <1>6, <1>7 DEF Explains, longer

LEMMA NoTicketIsExplained == Explains(NoTicket, <<>>)
<1>1. \A actions, default : LastTo(<<>>, 0, actions, default) = default
  BY DEF LastTo
<1>2. Len(<<>>) = 0 /\ NoTicket.status = "open" /\ NoTicket.assignee = Nobody
      /\ NoTicket.resolvedAt = 0
  BY DEF NoTicket
<1>3. QED
  BY <1>1, <1>2 DEF Explains, DoneStatus

LEMMA UpdateExplains ==
    ASSUME NEW tk \in TicketRecord, NEW log \in Seq(Activity), Explains(tk, log),
           tk.assignee # Nobody, NEW s \in Status, NEW d \in Detail
    PROVE  Explains(Updated(tk, s, d),
                    log \o UpdatedActivities(tk, tk.assignee, s, d))
<1> DEFINE new == Updated(tk, s, d)
           change == [actor |-> tk.assignee, action |-> "status_changed",
                      from |-> tk.status, to |-> s, at |-> tk.version + 1]
           detail == [actor |-> tk.assignee, action |-> "details_changed",
                      from |-> tk.details, to |-> d, at |-> tk.version + 1]
           first == IF s = tk.status THEN <<>> ELSE <<change>>
           second == IF d = tk.details THEN <<>> ELSE <<detail>>
<1>1. change \in Activity /\ detail \in Activity
  BY DEF Activity, ChangeAction, TicketRecord, Assignee
<1>2. /\ new.assignee = tk.assignee /\ new.status = s
      /\ new.resolvedAt = IF s \notin DoneStatus THEN 0
                          ELSE IF tk.resolvedAt # 0 THEN tk.resolvedAt
                          ELSE tk.version + 1
      /\ tk.version \in Nat
  BY DEF Updated, TicketRecord
<1>3. /\ change.actor = tk.assignee /\ change.action = "status_changed"
      /\ change.from = tk.status /\ change.to = s /\ change.at = tk.version + 1
      /\ detail.actor = tk.assignee /\ detail.action = "details_changed"
      /\ detail.at = tk.version + 1
  OBVIOUS
<1> HIDE DEF new, change, detail
<1>4. /\ first \in Seq(Activity) /\ second \in Seq(Activity)
      /\ UpdatedActivities(tk, tk.assignee, s, d) = first \o second
  BY <1>1 DEF UpdatedActivities, change, detail
<1>5. log \o first \in Seq(Activity) /\ Explains(new, log \o first)
  <2>1. CASE s = tk.status
    <3>1. log \o first = log
      BY <2>1, ConcatEmptySeq
    <3>2. new.resolvedAt = tk.resolvedAt
      BY <1>2, <2>1 DEF Explains
    <3>3. QED
      BY <1>2, <2>1, <3>1, <3>2 DEF Explains
  <2>2. CASE s # tk.status
    <3>1. log \o first = Append(log, change) /\ Append(log, change) \in Seq(Activity)
      BY <1>1, <2>2, AppendIsConcat, AppendProperties
    <3>2. Tells(change, tk, new)
      BY <1>2, <1>3 DEF Tells, AssignAction, ChangeAction
    <3>3. QED
      BY <1>1, <3>1, <3>2, AppendExplains
  <2>3. QED
    BY <2>1, <2>2
<1> HIDE DEF first
<1>6. Explains(new, (log \o first) \o second)
  <2>1. CASE d = tk.details
    BY <1>5, <2>1, ConcatEmptySeq
  <2>2. CASE d # tk.details
    <3>1. (log \o first) \o second = Append(log \o first, detail)
      BY <1>1, <1>5, <2>2, AppendIsConcat
    <3>2. Tells(detail, new, new)
      <4>1. new.status \in DoneStatus => new.resolvedAt # 0
        BY <1>5 DEF Explains
      <4>2. QED
        BY <1>2, <1>3, <4>1 DEF Tells, AssignAction, ChangeAction
    <3>3. QED
      BY <1>1, <1>5, <3>1, <3>2, AppendExplains
  <2>3. QED
    BY <2>1, <2>2
<1> HIDE DEF second
<1>7. (log \o first) \o second = log \o (first \o second)
  BY <1>4, ConcatAssociative
<1>8. QED
  BY <1>4, <1>6, <1>7, Zenon DEF new

\* The trail explains what any legal change leads to.
LEMMA LegalExplains ==
    ASSUME NEW tk \in TicketRecord, NEW log \in Seq(Activity), Explains(tk, log),
           tk.version = 0 => tk = NoTicket,
           NEW updated, NEW added, Legal(tk, updated, added)
    PROVE  Explains(updated, log \o added)
<1>1. ASSUME NEW d \in Detail, tk = NoTicket, updated = Created(d),
             added = CreatedActivities
      PROVE  Explains(updated, log \o added)
  <2> DEFINE e == [actor |-> Requester, action |-> "created",
                   from |-> Nobody, to |-> Nobody, at |-> 1]
  <2>1. e \in Activity
    BY DEF Activity, Assignee
  <2>2. log \o added = Append(log, e)
    BY <1>1, <2>1, AppendIsConcat DEF CreatedActivities
  <2>3. Tells(e, tk, updated)
    BY <1>1 DEF Tells, Created, NoTicket, AssignAction, ChangeAction, DoneStatus
  <2>4. QED
    BY <2>1, <2>2, <2>3, AppendExplains
<1>2. ASSUME NEW a \in Admin, NEW b \in Assignee,
             updated = Assigned(tk, b), added = AssignedActivities(tk, a, b)
      PROVE  Explains(updated, log \o added)
  <2> DEFINE e == [actor |-> a,
                   action |-> IF tk.assignee = Nobody THEN "assigned"
                              ELSE IF b = Nobody THEN "unassigned"
                              ELSE "transferred",
                   from |-> tk.assignee, to |-> b, at |-> tk.version + 1]
  <2>1. e \in Activity
    BY DEF Activity, AssignAction, TicketRecord
  <2>2. log \o added = Append(log, e)
    BY <1>2, <2>1, AppendIsConcat DEF AssignedActivities
  <2>3. /\ e.action \in AssignAction /\ e.action \notin ChangeAction
        /\ e.action # "status_changed" /\ e.to = b /\ e.at = tk.version + 1
    BY DEF AssignAction, ChangeAction
  <2> HIDE DEF e
  <2>4. /\ updated.assignee = b /\ updated.status = tk.status
        /\ updated.resolvedAt = tk.resolvedAt
    BY <1>2 DEF Assigned, TicketRecord
  <2>5. Tells(e, tk, updated)
    BY <2>3, <2>4 DEF Tells, Explains, TicketRecord
  <2>6. QED
    BY <2>1, <2>2, <2>5, AppendExplains
<1>3. QED
  <2>1. CASE /\ tk.version = 0
             /\ \E d \in Detail : updated = Created(d) /\ added = CreatedActivities
    BY <1>1, <2>1
  <2>2. CASE \E a \in Admin : updated = Assigned(tk, a) /\ added = AssignedActivities(tk, a, a)
    BY <1>2, <2>2 DEF Assignee
  <2>3. CASE \E a \in Admin, b \in Assignee :
                updated = Assigned(tk, b) /\ added = AssignedActivities(tk, a, b)
    BY <1>2, <2>3
  <2>4. CASE /\ tk.assignee # Nobody
             /\ \E s \in Status, d \in Detail :
                   /\ updated = Updated(tk, s, d)
                   /\ added = UpdatedActivities(tk, tk.assignee, s, d)
    BY <2>4, UpdateExplains
  <2>5. QED
    BY <2>1, <2>2, <2>3, <2>4, Zenon DEF Legal

AllExplained == \A t \in Ticket : Explains(rows[t], entries[t])

LEMMA ExplainedIsTrail == AllExplained => TrailExplainsTicket
<1> SUFFICES ASSUME AllExplained, NEW t \in Ticket
             PROVE  rows[t].resolvedAt =
                       IF rows[t].status \notin DoneStatus THEN 0
                       ELSE entries[t][CHOOSE i \in Finishes(entries[t]) :
                               \A j \in Finishes(entries[t]) : j <= i].at
  BY Zenon DEF AllExplained, Explains, TrailExplainsTicket, Finishes
<1>1. Explains(rows[t], entries[t])
  BY DEF AllExplained
<1>2. CASE rows[t].status \in DoneStatus
  <2>1. PICK m \in Finishes(entries[t]) :
               /\ \A j \in Finishes(entries[t]) : j <= m
               /\ rows[t].resolvedAt = entries[t][m].at
    BY <1>1, <1>2 DEF Explains
  <2>2. \A i \in Finishes(entries[t]) :
           (\A j \in Finishes(entries[t]) : j <= i) => i = m
    BY <2>1 DEF Finishes
  <2>3. (CHOOSE i \in Finishes(entries[t]) : \A j \in Finishes(entries[t]) : j <= i) = m
    BY <2>1, <2>2
  <2>4. QED
    BY <1>2, <2>1, <2>3
<1>3. QED
  BY <1>1, <1>2 DEF Explains

\* Replaying the activities in the table gives the ticket in the table, and
\* names its assignee as the author of every change, whatever requests computed
\* their entries from a copy of the ticket in memory.
THEOREM TicketsTrailExplainsTicket == Spec => []TrailExplainsTicket
<1>1. Init => AllExplained
  BY NoTicketIsExplained DEF Init, AllExplained
<1>2. ASSUME TicketsInv, AllExplained, [Next]_vars PROVE AllExplained'
  <2>1. ASSUME NEW r \in Request, Commit(r) PROVE AllExplained'
    <3> DEFINE w == requests[r]
    <3>1. Legal(rows[w.ticket], w.updated, w.added)
      BY <1>2, <2>1 DEF Commit, TicketsInv, SentIsLegal
    <3>2. /\ w.ticket \in Ticket
          /\ rows[w.ticket] \in TicketRecord
          /\ entries[w.ticket] \in Seq(Activity)
          /\ rows[w.ticket].version = 0 => rows[w.ticket] = NoTicket
      BY <1>2, <2>1, SentIsNotIdle
         DEF Commit, TicketsInv, TypeOK, Transaction, NoRowIsNoTicket
    <3>3. Explains(w.updated, entries[w.ticket] \o w.added)
      BY <1>2, <3>1, <3>2, LegalExplains DEF AllExplained
    <3>4. /\ rows' = [rows EXCEPT ![w.ticket] = w.updated]
          /\ entries' = [entries EXCEPT ![w.ticket] = @ \o w.added]
      BY <2>1, Zenon DEF Commit
    <3> HIDE DEF w
    <3>5. QED
      BY <1>2, <3>2, <3>3, <3>4 DEF AllExplained, TicketsInv, TypeOK
  <2>2. CASE StoreClear
    BY <2>2, NoTicketIsExplained DEF StoreClear, AllExplained
  <2>3. CASE UNCHANGED rows /\ UNCHANGED entries
    BY <1>2, <2>3 DEF AllExplained
  <2>4. ASSUME NEW r \in Request, StoreTicket(r) PROVE AllExplained'
    BY <2>1, <2>3, <2>4, StoreCases, Zenon DEF Drop
  <2>5. ASSUME NEW r \in Request, NEW t \in Ticket, NEW a,
               \/ CreateTicket(r, t) \/ ClaimTicket(r, t, a)
               \/ AssignTicket(r, t, a) \/ UpdateTicket(r, t, a)
        PROVE  AllExplained'
    BY <2>3, <2>5, Zenon DEF CreateTicket, ClaimTicket, AssignTicket, UpdateTicket,
                       ChangeAssignment, Send
  <2>6. CASE ClearAll \/ ResumeClear \/ Restart \/ UNCHANGED vars
    BY <2>3, <2>6, Zenon DEF ClearAll, ResumeClear, Restart, vars
  <2>7. ASSUME NEW r \in Request, ResumeTicket(r) \/ FailTicket(r)
        PROVE  AllExplained'
    BY <2>3, <2>7, Zenon DEF ResumeTicket, FailTicket
  <2>8. QED
    BY <1>2, <2>2, <2>4, <2>5, <2>6, <2>7 DEF Next
<1>3. QED
  BY <1>1, <1>2, ExplainedIsTrail, TicketsInvariance, PTL DEF Spec

=============================================================================
