---------------------------- MODULE GroupsProofs ----------------------------
(***************************************************************************)
(* Proofs about Groups, for every number of users, requests and admins,    *)
(* and about the groups that Automation creates, with failing transactions *)
(* and restarts.                                                           *)
(***************************************************************************)
EXTENDS Groups, Automation, TLAPS

\* Request h has yet to commit conversation c.
Waits(h, c) == c \in toStore[h] /\ (h \in committed => c # Stage(h))

\* What is committed or told belongs to a conversation still to be stored.
RequestsAreSound ==
    /\ \A h \in committed : Stage(h) \in toStore[h]
    /\ \A h \in Handler : \A c \in Conversation :
          leaving[h][c] # {} => c \in toStore[h]

\* A row lock is held by a request that is storing that conversation, and a
\* transaction nobody has begun has written nothing.
LocksAreSound ==
    \A c \in Conversation :
       /\ holder[c] # Nobody =>
             /\ holder[c] \notin committed
             /\ c \in toStore[holder[c]]
             /\ c = Stage(holder[c])
       /\ holder[c] = Nobody => image[c] = NothingWritten

\* A role the transaction under way has written and that changed since is
\* about to be stored by another request.
ImageIsCurrent ==
    \A c \in Conversation : \A u \in User :
       image[c][u] \notin {Unwritten, roles[c][u]} =>
          \E h \in Handler : h # holder[c] /\ Waits(h, c)

\* The same for the table.
TableIsCurrent ==
    \A c \in Conversation : \A u \in User :
       table[c][u] # roles[c][u] => \E h \in Handler : Waits(h, c)

ManagementFollows == roles["management"] = Management(roles["group"])

\* The roles of a group with one owner.
OneOwner(group) == \E u \in User : \A v \in User : group[v] = "owner" <=> v = u

\* What holds until a request is cut short.
NothingLostInv ==
    /\ ImageIsCurrent
    /\ TableIsCurrent
    /\ ManagementFollows
    /\ \A c \in Conversation : RoomIsPrivate(c)
    /\ OneOwner(roles["group"])

GroupsInv ==
    /\ TypeOK
    /\ RequestsAreSound
    /\ LocksAreSound
    /\ ~lost => NothingLostInv

\* The invariant implies the properties the run checks.
LEMMA InvImpliesProperties ==
    GroupsInv => RoomsArePrivate /\ RolesAreStored /\ GroupHasOneOwner
<1> SUFFICES ASSUME GroupsInv
             PROVE  RoomsArePrivate /\ RolesAreStored /\ GroupHasOneOwner
    OBVIOUS
<1>1. RoomsArePrivate
    BY DEF GroupsInv, NothingLostInv, RoomsArePrivate
<1>2. RolesAreStored
    BY DEF GroupsInv, NothingLostInv, RolesAreStored, TableIsCurrent, Waits
<1>3. GroupHasOneOwner
    BY DEF GroupsInv, NothingLostInv, GroupHasOneOwner, OneOwner
<1>. QED  BY <1>1, <1>2, <1>3

LEMMA InitEstablishesInv == Init => GroupsInv
<1> SUFFICES ASSUME Init
             PROVE  GroupsInv
    OBVIOUS
<1> USE GroupConstants
<1>1. Founded \in [User -> Role]
    BY DEF Founded, Role
<1>2. TypeOK
    BY <1>1 DEF Init, TypeOK, NothingWritten, NobodyLeaves, Conversation
<1>3. RequestsAreSound /\ LocksAreSound
    BY DEF Init, RequestsAreSound, LocksAreSound, NobodyLeaves
<1>4. ImageIsCurrent /\ TableIsCurrent
    BY DEF Init, ImageIsCurrent, TableIsCurrent, NothingWritten
<1>5. ManagementFollows
    <2>1. \A u \in User : Founded[u] = IF MayManage(Founded, u) THEN Founded[u] ELSE "none"
        BY DEF Founded, MayManage
    <2>2. Founded = Management(Founded)
        BY <2>1, <1>1 DEF Management
    <2>. QED  BY <2>2 DEF Init, ManagementFollows, Conversation
<1>6. \A c \in Conversation : RoomIsPrivate(c)
    BY DEF Init, RoomIsPrivate
<1>7. OneOwner(roles["group"])
    BY DEF Init, OneOwner, Founded, Conversation
<1>. QED  BY <1>2, <1>3, <1>4, <1>5, <1>6, <1>7 DEF GroupsInv, NothingLostInv

-----------------------------------------------------------------------------
\* How a request may change the group: what changes is stored, who leaves is
\* told, and the owner stays one.
Proper(group, gone, stores) ==
    /\ group # roles["group"] => "group" \in stores
    /\ Management(group) # roles["management"] => "management" \in stores
    /\ gone # {} => "group" \in stores
    /\ \A u \in User :
          roles["group"][u] # "none" /\ group[u] = "none" => u \in gone
    /\ OneOwner(roles["group"]) => OneOwner(group)

ProperChange(h) ==
    \E group \in [User -> Role], gone \in SUBSET User, stores \in SUBSET Conversation :
       Change(h, group, gone, stores) /\ Proper(group, gone, stores)

LEMMA ManagementType ==
    ASSUME NEW group \in [User -> Role]
    PROVE  Management(group) \in [User -> Role]
BY DEF Management, Role

\* A changed group is a proper change if its owners and leavers are right.
LEMMA ChangeGroupIsProper ==
    ASSUME GroupsInv, NEW h \in Handler,
           NEW group \in [User -> Role], NEW gone \in SUBSET User,
           ChangeGroup(h, group, gone),
           \A u \in User :
              roles["group"][u] # "none" /\ group[u] = "none" => u \in gone,
           OneOwner(roles["group"]) => OneOwner(group)
    PROVE  ProperChange(h)
<1> DEFINE stores == SyncManagement(group) \union {"group"}
<1>1. stores \in SUBSET Conversation
    BY DEF SyncManagement, Conversation
<1>2. Proper(group, gone, stores)
    BY DEF Proper, SyncManagement
<1>3. Change(h, group, gone, stores)
    BY DEF ChangeGroup
<1>. QED  BY <1>1, <1>2, <1>3 DEF ProperChange

LEMMA MembershipIsProper ==
    ASSUME GroupsInv, NEW h \in Handler, Membership(h)
    PROVE  ProperChange(h)
<1>0. roles["group"] \in [User -> Role]
    BY DEF GroupsInv, TypeOK, Conversation
<1>1. ASSUME NEW u \in User,
             roles["group"][u] \in {"member", "manager"},
             ChangeGroup(h, [roles["group"] EXCEPT ![u] = "none"], {u})
      PROVE  ProperChange(h)
    <2>1. PICK group \in [User -> Role] :
             group = [roles["group"] EXCEPT ![u] = "none"]
        BY <1>0 DEF Role
    <2>2. ChangeGroup(h, group, {u})
        BY <1>1, <2>1
    <2>3. \A v \in User : roles["group"][v] # "none" /\ group[v] = "none" => v \in {u}
        BY <1>0, <2>1
    <2>4. OneOwner(roles["group"]) => OneOwner(group)
        BY <1>0, <1>1, <2>1 DEF OneOwner
    <2>. QED  BY <2>2, <2>3, <2>4, ChangeGroupIsProper
<1>2. ASSUME NEW u \in User, NEW role \in {"member", "manager"},
             roles["group"][u] # "owner",
             ChangeGroup(h, [roles["group"] EXCEPT ![u] = role], {})
      PROVE  ProperChange(h)
    <2>1. PICK group \in [User -> Role] :
             group = [roles["group"] EXCEPT ![u] = role]
        BY <1>0 DEF Role
    <2>2. ChangeGroup(h, group, {})
        BY <1>2, <2>1
    <2>3. \A v \in User : roles["group"][v] # "none" /\ group[v] = "none" => v \in {}
        BY <1>0, <2>1
    <2>4. OneOwner(roles["group"]) => OneOwner(group)
        BY <1>0, <1>2, <2>1 DEF OneOwner
    <2>. QED  BY <2>2, <2>3, <2>4, ChangeGroupIsProper
<1>3. ASSUME NEW actor \in User, NEW u \in User, TransferGroupOwner(h, actor, u)
      PROVE  ProperChange(h)
    <2> DEFINE handedOn == [v \in User |-> IF v = u THEN "owner"
                                ELSE IF roles["group"][v] = "owner" THEN "member"
                                ELSE roles["group"][v]]
    <2>1. PICK group \in [User -> Role] : group = handedOn
        BY <1>0 DEF Role
    <2>2. ChangeGroup(h, group, {})
        BY <1>3, <2>1 DEF TransferGroupOwner
    <2>3. \A v \in User : roles["group"][v] # "none" /\ group[v] = "none" => v \in {}
        BY <1>0, <2>1
    <2>4. OneOwner(group)
        BY <1>0, <2>1 DEF OneOwner
    <2>. QED  BY <2>2, <2>3, <2>4, ChangeGroupIsProper
<1>. QED  BY <1>1, <1>2, <1>3 DEF Membership, LeaveConversation, AddParticipant,
              RemoveParticipant, UpdateParticipantRole

LEMMA FindManagementConversationIsProper ==
    ASSUME GroupsInv, NEW h \in Handler, NEW u \in User,
           FindManagementConversation(h, u)
    PROVE  ProperChange(h)
<1>1. PICK group \in [User -> Role] : group = roles["group"]
    BY DEF GroupsInv, TypeOK, Conversation
<1>2. PICK stores \in SUBSET Conversation : stores = SyncManagement(roles["group"])
    BY DEF SyncManagement, Conversation
<1>3. Change(h, group, {}, stores)
    BY <1>1, <1>2 DEF FindManagementConversation
<1>4. Proper(group, {}, stores)
    BY <1>1, <1>2 DEF Proper, SyncManagement
<1>. QED  BY <1>3, <1>4 DEF ProperChange

-----------------------------------------------------------------------------
\* A proper change keeps the invariant: request h is new, so whoever waited to
\* store still waits, and whatever changed will be stored by h.
LEMMA ProperChangeKeepsInv ==
    ASSUME GroupsInv, NEW h \in Handler, ProperChange(h)
    PROVE  GroupsInv'
<1>1. PICK group \in [User -> Role], gone \in SUBSET User,
           stores \in SUBSET Conversation :
              Change(h, group, gone, stores) /\ Proper(group, gone, stores)
    BY DEF ProperChange
<1>2. Management(group) \in [User -> Role]
    BY ManagementType
<1>3. /\ roles' \in [Conversation -> [User -> Role]]
      /\ roles'["group"] = group
      /\ roles'["management"] = Management(group)
    BY <1>1, <1>2 DEF Change, Conversation
<1>4. /\ toStore' \in [Handler -> SUBSET Conversation]
      /\ toStore'[h] = stores
      /\ \A k \in Handler : k # h => toStore'[k] = toStore[k]
      /\ toStore[h] = {}
    BY <1>1 DEF Change, GroupsInv, TypeOK
<1>5. PICK news \in [Conversation -> SUBSET User] :
         /\ news = [c \in Conversation |-> IF c = "group" THEN gone ELSE Expelled(group)]
         /\ news["group"] = gone
         /\ news["management"] = Expelled(group)
    <2>1. Expelled(group) \in SUBSET User
        BY DEF Expelled, Participants
    <2> DEFINE told == [c \in Conversation |-> IF c = "group" THEN gone ELSE Expelled(group)]
    <2>2. told \in [Conversation -> SUBSET User]
        BY <2>1
    <2>3. told["group"] = gone /\ told["management"] = Expelled(group)
        BY DEF Conversation
    <2>. QED  BY <2>2, <2>3
<1>6. /\ leaving' \in [Handler -> [Conversation -> SUBSET User]]
      /\ leaving'[h] = news
      /\ \A k \in Handler : k # h => leaving'[k] = leaving[k]
    BY <1>1, <1>5 DEF Change, GroupsInv, TypeOK
<1>7. UNCHANGED <<room, committed, table, holder, image, lost>>
    BY <1>1 DEF Change, transactions
<1>8. TypeOK'
    BY <1>3, <1>4, <1>6, <1>7 DEF GroupsInv, TypeOK
<1>9. h \notin committed
    BY <1>4 DEF GroupsInv, RequestsAreSound
<1>10. \A k \in Handler : \A c \in Conversation : Waits(k, c) => Waits(k, c)' /\ k # h
    BY <1>4, <1>7 DEF Waits, Stage
<1>11. \A c \in stores : Waits(h, c)'
    BY <1>4, <1>7, <1>9 DEF Waits
<1>12. Expelled(group) # {} => "management" \in stores
    BY <1>1 DEF Proper, Expelled
<1>13. RequestsAreSound'
    <2>1. \A k \in committed : k # h /\ Stage(k)' = Stage(k) /\ k \in Handler
        BY <1>4, <1>9 DEF Stage, GroupsInv, TypeOK
    <2>2. \A k \in committed' : Stage(k)' \in toStore'[k]
        BY <2>1, <1>4, <1>7 DEF GroupsInv, RequestsAreSound
    <2>3. \A c \in Conversation : leaving'[h][c] # {} => c \in toStore'[h]
        BY <1>1, <1>4, <1>5, <1>6, <1>12 DEF Proper, Conversation
    <2>4. \A k \in Handler : \A c \in Conversation :
             leaving'[k][c] # {} => c \in toStore'[k]
        BY <2>3, <1>4, <1>6 DEF GroupsInv, RequestsAreSound
    <2>. QED  BY <2>2, <2>4 DEF RequestsAreSound
<1>14. LocksAreSound'
    <2>1. \A k \in Handler : k # h => Stage(k)' = Stage(k)
        BY <1>4 DEF Stage
    <2>2. \A c \in Conversation : holder[c] # h
        BY <1>4, GroupConstants DEF GroupsInv, LocksAreSound
    <2>. QED  BY <2>1, <2>2, <1>4, <1>7, <1>8 DEF GroupsInv, LocksAreSound, TypeOK
<1>15. ASSUME ~lost
       PROVE  NothingLostInv'
    <2>1. NothingLostInv
        BY <1>15 DEF GroupsInv
    <2>2. \A c \in Conversation : roles'[c] # roles[c] => Waits(h, c)'
        <3>1. "group" \in stores \/ roles'["group"] = roles["group"]
            BY <1>1, <1>3 DEF Proper
        <3>2. "management" \in stores \/ roles'["management"] = roles["management"]
            BY <1>1, <1>3 DEF Proper
        <3>. QED  BY <3>1, <3>2, <1>11 DEF Conversation
    <2>3. \A c \in Conversation : holder[c] # h
        BY <1>4, GroupConstants DEF GroupsInv, LocksAreSound
    <2>4. ImageIsCurrent'
        BY <2>1, <2>2, <2>3, <1>7, <1>10 DEF NothingLostInv, ImageIsCurrent
    <2>5. TableIsCurrent'
        BY <2>1, <2>2, <1>7, <1>10 DEF NothingLostInv, TableIsCurrent
    <2>6. ManagementFollows'
        BY <1>3 DEF ManagementFollows
    <2>7. leaving[h] = [c \in Conversation |-> {}]
        BY <1>4 DEF GroupsInv, RequestsAreSound, TypeOK
    <2>8. \A c \in Conversation : ToldToLeave(c) \subseteq ToldToLeave(c)'
        BY <2>7, <1>6 DEF ToldToLeave
    <2>9. \A u \in User : MayOpen("group", u) => MayOpen("group", u)' \/ u \in gone
        BY <1>1, <1>3 DEF MayOpen, Proper
    <2>10. \A u \in User :
              MayOpen("management", u) => MayOpen("management", u)' \/ u \in Expelled(group)
        <3>1. roles["management"] = Management(roles["group"])
            BY <2>1 DEF NothingLostInv, ManagementFollows
        <3>2. ASSUME NEW u \in User, MayManage(roles["group"], u), ~MayManage(group, u)
              PROVE  u \in Expelled(group)
            BY <3>1, <3>2 DEF Expelled, Participants, Management, MayManage
        <3>. QED  BY <3>2, <1>3 DEF MayOpen
    <2>11. gone \subseteq ToldToLeave("group")'
        BY <1>5, <1>6 DEF ToldToLeave
    <2>12. Expelled(group) \subseteq ToldToLeave("management")'
        BY <1>5, <1>6 DEF ToldToLeave
    <2>13. \A c \in Conversation : RoomIsPrivate(c)'
        <3>1. \A c \in Conversation : room[c] \subseteq User
            BY DEF GroupsInv, TypeOK
        <3>2. RoomIsPrivate("group")'
            BY <2>1, <2>8, <2>9, <2>11, <1>7, <3>1 DEF NothingLostInv, RoomIsPrivate, Conversation
        <3>3. RoomIsPrivate("management")'
            BY <2>1, <2>8, <2>10, <2>12, <1>7, <3>1 DEF NothingLostInv, RoomIsPrivate, Conversation
        <3>. QED  BY <3>2, <3>3 DEF Conversation
    <2>14. OneOwner(roles["group"])'
        BY <2>1, <1>1, <1>3 DEF NothingLostInv, Proper
    <2>. QED  BY <2>4, <2>5, <2>6, <2>13, <2>14 DEF NothingLostInv
<1>. QED  BY <1>7, <1>8, <1>13, <1>14, <1>15 DEF GroupsInv

-----------------------------------------------------------------------------
\* Storing again changes nothing but what there is to store.
LEMMA StoreAgainKeepsInv ==
    ASSUME GroupsInv, NEW h \in Handler, NEW stores \in SUBSET Conversation,
           StoreAgain(h, stores)
    PROVE  GroupsInv'
<1>1. /\ toStore' \in [Handler -> SUBSET Conversation]
      /\ toStore'[h] = stores
      /\ \A k \in Handler : k # h => toStore'[k] = toStore[k]
      /\ toStore[h] = {}
    BY DEF StoreAgain, GroupsInv, TypeOK
<1>2. UNCHANGED <<roles, room, committed, leaving, table, holder, image, lost>>
    BY DEF StoreAgain, memory, transactions
<1>3. TypeOK'
    BY <1>1, <1>2 DEF GroupsInv, TypeOK
<1>4. h \notin committed /\ \A c \in Conversation : holder[c] # h
    BY <1>1, GroupConstants DEF GroupsInv, RequestsAreSound, LocksAreSound
<1>5. \A k \in Handler : k # h => Stage(k)' = Stage(k)
    BY <1>1 DEF Stage
<1>6. \A k \in Handler : \A c \in Conversation : Waits(k, c) => Waits(k, c)'
    BY <1>1, <1>2, <1>4, <1>5 DEF Waits
<1>7. RequestsAreSound'
    <2>1. committed' \subseteq Handler
        BY <1>3 DEF TypeOK
    <2>. QED  BY <2>1, <1>1, <1>2, <1>4, <1>5 DEF GroupsInv, RequestsAreSound
<1>8. LocksAreSound'
    BY <1>1, <1>2, <1>3, <1>4, <1>5 DEF GroupsInv, LocksAreSound, TypeOK
<1>9. ASSUME NothingLostInv
      PROVE  NothingLostInv'
    <2>1. ImageIsCurrent' /\ TableIsCurrent'
        BY <1>2, <1>6, <1>9 DEF NothingLostInv, ImageIsCurrent, TableIsCurrent
    <2>2. ManagementFollows' /\ OneOwner(roles["group"])'
        BY <1>2, <1>9 DEF NothingLostInv, ManagementFollows
    <2>3. \A c \in Conversation : RoomIsPrivate(c)'
        BY <1>2, <1>9 DEF NothingLostInv, RoomIsPrivate, MayOpen, ToldToLeave
    <2>. QED  BY <2>1, <2>2, <2>3 DEF NothingLostInv
<1>. QED  BY <1>2, <1>3, <1>7, <1>8, <1>9 DEF GroupsInv

\* Writing keeps the invariant.  If the transaction goes on, it has written
\* one more current role; if it commits, a role it wrote that changed since is
\* stored by another request.
LEMMA WriteParticipantKeepsInv ==
    ASSUME GroupsInv, NEW h \in Handler, NEW c \in Conversation, NEW u \in User,
           WriteParticipant(h, c, u)
    PROVE  GroupsInv'
<1>0. TypeOK /\ RequestsAreSound /\ LocksAreSound
    BY DEF GroupsInv
<1>1. PICK written : written = [image[c] EXCEPT ![u] = roles[c][u]]
    OBVIOUS
<1>2. /\ written \in [User -> Role \union {Unwritten}]
      /\ written[u] = roles[c][u]
      /\ \A v \in User : v # u => written[v] = image[c][v]
    BY <1>0, <1>1 DEF TypeOK
<1>3. /\ c \in toStore[h] /\ c = Stage(h) /\ h \notin committed
      /\ holder[c] \in {Nobody, h}
      /\ UNCHANGED <<roles, room, toStore, leaving, lost>>
    BY DEF WriteParticipant, memory
<1>4. \A k \in Handler : Stage(k)' = Stage(k)
    BY <1>3 DEF Stage
<1>5. \A v \in User : written[v] \notin {Unwritten, roles[c][v]} =>
         /\ holder[c] = h
         /\ image[c][v] \notin {Unwritten, roles[c][v]}
    BY <1>0, <1>2, <1>3 DEF LocksAreSound, NothingWritten
<1>6. CASE \E v \in User : written[v] = Unwritten
    <2>1. /\ holder' = [holder EXCEPT ![c] = h]
          /\ image' = [image EXCEPT ![c] = written]
          /\ UNCHANGED <<table, committed>>
        BY <1>1, <1>6 DEF WriteParticipant
    <2>2. /\ holder'[c] = h /\ image'[c] = written
          /\ \A d \in Conversation : d # c => holder'[d] = holder[d] /\ image'[d] = image[d]
        BY <2>1, <1>0 DEF TypeOK
    <2>3. TypeOK'
        BY <2>1, <1>0, <1>2, <1>3 DEF TypeOK
    <2>4. RequestsAreSound'
        BY <2>1, <1>0, <1>3, <1>4 DEF RequestsAreSound, TypeOK
    <2>5. LocksAreSound'
        BY <2>1, <2>2, <2>3, <1>0, <1>3, <1>4, GroupConstants DEF LocksAreSound, TypeOK
    <2>6. \A k \in Handler : \A d \in Conversation : Waits(k, d)' <=> Waits(k, d)
        BY <2>1, <1>3, <1>4 DEF Waits
    <2>7. ASSUME NothingLostInv
          PROVE  NothingLostInv'
        <3>1. ImageIsCurrent'
            BY <2>2, <2>6, <2>7, <1>3, <1>5 DEF NothingLostInv, ImageIsCurrent
        <3>2. TableIsCurrent'
            BY <2>1, <2>6, <2>7, <1>3 DEF NothingLostInv, TableIsCurrent
        <3>3. ManagementFollows' /\ OneOwner(roles["group"])'
            BY <2>7, <1>3 DEF NothingLostInv, ManagementFollows
        <3>4. \A d \in Conversation : RoomIsPrivate(d)'
            BY <2>7, <1>3 DEF NothingLostInv, RoomIsPrivate, MayOpen, ToldToLeave
        <3>. QED  BY <3>1, <3>2, <3>3, <3>4 DEF NothingLostInv
    <2>. QED  BY <2>3, <2>4, <2>5, <2>7, <1>3 DEF GroupsInv
<1>7. CASE \A v \in User : written[v] # Unwritten
    <2>1. /\ holder' = [holder EXCEPT ![c] = Nobody]
          /\ image' = [image EXCEPT ![c] = NothingWritten]
          /\ table' = [table EXCEPT ![c] = written]
          /\ committed' = committed \union {h}
        BY <1>1, <1>7 DEF WriteParticipant
    <2>2. /\ holder'[c] = Nobody /\ image'[c] = NothingWritten /\ table'[c] = written
          /\ \A d \in Conversation : d # c =>
                holder'[d] = holder[d] /\ image'[d] = image[d] /\ table'[d] = table[d]
        BY <2>1, <1>0 DEF TypeOK
    <2>3. written \in [User -> Role]
        BY <1>2, <1>7
    <2>4. TypeOK'
        BY <2>1, <2>3, <1>0, <1>3 DEF TypeOK, NothingWritten
    <2>5. RequestsAreSound'
        BY <2>1, <1>0, <1>3, <1>4 DEF RequestsAreSound, TypeOK
    <2>6. LocksAreSound'
        <3>1. ASSUME NEW d \in Conversation, d # c, holder[d] # Nobody
              PROVE  /\ holder[d] \in Handler /\ holder[d] # h
                     /\ holder[d] \notin committed'
            BY <3>1, <2>1, <1>0, <1>3 DEF LocksAreSound, TypeOK
        <3>. QED  BY <3>1, <2>2, <1>0, <1>3, <1>4 DEF LocksAreSound
    <2>7. \A k \in Handler : \A d \in Conversation :
             Waits(k, d) /\ (k # h \/ d # c) => Waits(k, d)'
        BY <2>1, <1>3, <1>4 DEF Waits
    <2>8. ASSUME NothingLostInv
          PROVE  NothingLostInv'
        <3>1. ImageIsCurrent'
            BY <2>2, <2>7, <2>8, <1>3 DEF NothingLostInv, ImageIsCurrent, NothingWritten
        <3>2. TableIsCurrent'
            <4>1. ASSUME NEW d \in Conversation, NEW v \in User,
                         table'[d][v] # roles[d][v]
                  PROVE  \E k \in Handler : Waits(k, d)'
                <5>1. CASE d # c
                    BY <5>1, <4>1, <2>2, <2>7, <2>8 DEF NothingLostInv, TableIsCurrent
                <5>2. CASE d = c
                    <6>1. written[v] \notin {Unwritten, roles[c][v]}
                        BY <5>2, <4>1, <2>2, <1>7
                    <6>2. \E k \in Handler : k # h /\ Waits(k, c)
                        BY <6>1, <2>8, <1>5 DEF NothingLostInv, ImageIsCurrent
                    <6>. QED  BY <6>2, <5>2, <2>7
                <5>. QED  BY <5>1, <5>2
            <4>. QED  BY <4>1, <1>3 DEF TableIsCurrent
        <3>3. ManagementFollows' /\ OneOwner(roles["group"])'
            BY <2>8, <1>3 DEF NothingLostInv, ManagementFollows
        <3>4. \A d \in Conversation : RoomIsPrivate(d)'
            BY <2>8, <1>3 DEF NothingLostInv, RoomIsPrivate, MayOpen, ToldToLeave
        <3>. QED  BY <3>1, <3>2, <3>3, <3>4 DEF NothingLostInv
    <2>. QED  BY <2>4, <2>5, <2>6, <2>8, <1>3 DEF GroupsInv
<1>. QED  BY <1>6, <1>7

-----------------------------------------------------------------------------
\* An answer ends the store it answers and no other: nobody who waited to
\* commit stops waiting, and whoever was told to leave is out of the room.
LEMMA AnsweredKeepsInv ==
    ASSUME GroupsInv, NEW h \in Handler, Answered(h)
    PROVE  GroupsInv'
<1>0. TypeOK /\ RequestsAreSound /\ LocksAreSound
    BY DEF GroupsInv
<1>1. PICK c \in Conversation : c = Stage(h)
    BY DEF Stage, Conversation
<1>2. /\ h \in committed
      /\ committed' = committed \ {h}
      /\ room' = [room EXCEPT ![c] = room[c] \ leaving[h][c]]
      /\ toStore' = [toStore EXCEPT ![h] = toStore[h] \ {c}]
      /\ leaving' = [leaving EXCEPT ![h] = [leaving[h] EXCEPT ![c] = {}]]
      /\ UNCHANGED <<roles, table, holder, image, lost>>
    BY <1>1 DEF Answered, transactions
<1>3. /\ toStore'[h] = toStore[h] \ {c}
      /\ \A k \in Handler : k # h => toStore'[k] = toStore[k]
    BY <1>0, <1>2 DEF TypeOK
<1>4. PICK still \in [Conversation -> SUBSET User] :
         /\ still = [leaving[h] EXCEPT ![c] = {}]
         /\ still[c] = {}
         /\ \A d \in Conversation : d # c => still[d] = leaving[h][d]
    <2>1. leaving[h] \in [Conversation -> SUBSET User]
        BY <1>0 DEF TypeOK
    <2> DEFINE rest == [leaving[h] EXCEPT ![c] = {}]
    <2>2. rest \in [Conversation -> SUBSET User]
        BY <2>1
    <2>3. rest[c] = {} /\ \A d \in Conversation : d # c => rest[d] = leaving[h][d]
        BY <2>1
    <2>. QED  BY <2>2, <2>3
<1>5. /\ leaving' = [leaving EXCEPT ![h] = still]
      /\ leaving'[h] = still
      /\ \A k \in Handler : k # h => leaving'[k] = leaving[k]
    BY <1>0, <1>2, <1>4 DEF TypeOK
<1>6. /\ room'[c] = room[c] \ leaving[h][c]
      /\ \A d \in Conversation : d # c => room'[d] = room[d]
    BY <1>0, <1>2 DEF TypeOK
<1>7. TypeOK'
    <2>1. room' \in [Conversation -> SUBSET User]
        BY <1>0, <1>2 DEF TypeOK
    <2>2. toStore' \in [Handler -> SUBSET Conversation]
        BY <1>0, <1>2 DEF TypeOK
    <2>3. leaving' \in [Handler -> [Conversation -> SUBSET User]]
        BY <1>0, <1>5 DEF TypeOK
    <2>. QED  BY <2>1, <2>2, <2>3, <1>0, <1>2 DEF TypeOK
<1>8. \A k \in Handler : k # h => Stage(k)' = Stage(k)
    BY <1>3 DEF Stage
<1>9. \A k \in Handler : \A d \in Conversation : Waits(k, d) => Waits(k, d)'
    <2>1. ASSUME NEW d \in Conversation, Waits(h, d)
          PROVE  Waits(h, d)'
        BY <2>1, <1>1, <1>2, <1>3 DEF Waits
    <2>2. ASSUME NEW k \in Handler, k # h, NEW d \in Conversation, Waits(k, d)
          PROVE  Waits(k, d)'
        BY <2>2, <1>2, <1>3, <1>8 DEF Waits
    <2>. QED  BY <2>1, <2>2
<1>10. RequestsAreSound'
    <2>1. \A k \in committed' : Stage(k)' \in toStore'[k]
        BY <1>0, <1>2, <1>3, <1>8 DEF RequestsAreSound, TypeOK
    <2>2. \A d \in Conversation : leaving'[h][d] # {} => d \in toStore'[h]
        BY <1>0, <1>3, <1>4, <1>5 DEF RequestsAreSound
    <2>3. \A k \in Handler : \A d \in Conversation :
             leaving'[k][d] # {} => d \in toStore'[k]
        BY <2>2, <1>0, <1>3, <1>5 DEF RequestsAreSound
    <2>. QED  BY <2>1, <2>3 DEF RequestsAreSound
<1>11. LocksAreSound'
    <2>1. \A d \in Conversation : holder[d] # Nobody => holder[d] \in Handler \ {h}
        BY <1>0, <1>2 DEF LocksAreSound, TypeOK
    <2>. QED  BY <2>1, <1>0, <1>2, <1>3, <1>8 DEF LocksAreSound
<1>12. ASSUME NothingLostInv
       PROVE  NothingLostInv'
    <2>1. ImageIsCurrent' /\ TableIsCurrent'
        BY <1>2, <1>9, <1>12 DEF NothingLostInv, ImageIsCurrent, TableIsCurrent
    <2>2. ManagementFollows' /\ OneOwner(roles["group"])'
        BY <1>2, <1>12 DEF NothingLostInv, ManagementFollows
    <2>3. ASSUME NEW d \in Conversation, NEW u \in room'[d], u \in ToldToLeave(d)
          PROVE  u \in ToldToLeave(d)'
        <3>1. PICK k \in Handler : u \in leaving[k][d]
            BY <2>3 DEF ToldToLeave
        <3>2. u \in leaving'[k][d]
            BY <2>3, <3>1, <1>4, <1>5, <1>6
        <3>. QED  BY <3>2 DEF ToldToLeave
    <2>4. \A d \in Conversation : \A u \in User : MayOpen(d, u)' <=> MayOpen(d, u)
        BY <1>2 DEF MayOpen
    <2>5. \A d \in Conversation : room'[d] \subseteq room[d] /\ room[d] \subseteq User
        BY <1>0, <1>6 DEF TypeOK
    <2>6. \A d \in Conversation : RoomIsPrivate(d)'
        BY <2>3, <2>4, <2>5, <1>12 DEF NothingLostInv, RoomIsPrivate
    <2>. QED  BY <2>1, <2>2, <2>6 DEF NothingLostInv
<1>. QED  BY <1>2, <1>7, <1>10, <1>11, <1>12 DEF GroupsInv

\* A failure is the end of NothingLostInv; the locks stay sound.
LEMMA FailKeepsInv ==
    ASSUME GroupsInv, NEW h \in Handler, Fail(h)
    PROVE  GroupsInv'
<1>0. TypeOK /\ RequestsAreSound /\ LocksAreSound
    BY DEF GroupsInv
<1>1. /\ toStore' = [toStore EXCEPT ![h] = {}]
      /\ leaving' = [leaving EXCEPT ![h] = NobodyLeaves]
      /\ committed' = committed \ {h}
      /\ holder' = [c \in Conversation |-> IF holder[c] = h THEN Nobody ELSE holder[c]]
      /\ image' = [c \in Conversation |->
                      IF holder[c] = h THEN NothingWritten ELSE image[c]]
      /\ lost' = TRUE
      /\ UNCHANGED <<roles, room, table>>
    BY DEF Fail, memory
<1>2. /\ \A k \in Handler : k # h => /\ toStore'[k] = toStore[k]
                                    /\ leaving'[k] = leaving[k]
                                    /\ Stage(k)' = Stage(k)
      /\ leaving'[h] = NobodyLeaves
    BY <1>0, <1>1 DEF TypeOK, Stage
<1>3. TypeOK'
    <2>1. leaving' \in [Handler -> [Conversation -> SUBSET User]]
        BY <1>0, <1>1 DEF TypeOK, NobodyLeaves
    <2>2. toStore' \in [Handler -> SUBSET Conversation]
        BY <1>0, <1>1 DEF TypeOK
    <2>3. image' \in [Conversation -> [User -> Role \union {Unwritten}]]
        BY <1>0, <1>1 DEF TypeOK, NothingWritten
    <2>4. holder' \in [Conversation -> Handler \union {Nobody}]
        BY <1>0, <1>1 DEF TypeOK
    <2>. QED  BY <2>1, <2>2, <2>3, <2>4, <1>0, <1>1 DEF TypeOK
<1>4. RequestsAreSound'
    <2>1. \A k \in committed' : Stage(k)' \in toStore'[k]
        BY <1>0, <1>1, <1>2 DEF RequestsAreSound, TypeOK
    <2>2. \A k \in Handler : \A d \in Conversation :
             leaving'[k][d] # {} => d \in toStore'[k]
        BY <1>0, <1>2 DEF RequestsAreSound, NobodyLeaves
    <2>. QED  BY <2>1, <2>2 DEF RequestsAreSound
<1>5. LocksAreSound'
    <2>1. \A d \in Conversation :
             holder'[d] # Nobody => holder'[d] = holder[d] /\ holder[d] \in Handler \ {h}
        BY <1>0, <1>1 DEF TypeOK
    <2>2. \A d \in Conversation : holder'[d] = Nobody => image'[d] = NothingWritten
        BY <1>0, <1>1, GroupConstants DEF LocksAreSound
    <2>. QED  BY <2>1, <2>2, <1>0, <1>1, <1>2 DEF LocksAreSound
<1>. QED  BY <1>1, <1>3, <1>4, <1>5 DEF GroupsInv

\* If no request was under way, the table a restart reads is what memory was.
LEMMA RestartBackendKeepsInv ==
    ASSUME GroupsInv, RestartBackend
    PROVE  GroupsInv'
<1>1. /\ roles' = table
      /\ room' = [c \in Conversation |-> {}]
      /\ toStore' = [h \in Handler |-> {}]
      /\ committed' = {}
      /\ leaving' = [h \in Handler |-> NobodyLeaves]
      /\ holder' = [c \in Conversation |-> Nobody]
      /\ image' = [c \in Conversation |-> NothingWritten]
      /\ lost' = (lost \/ \E h \in Handler : toStore[h] # {})
      /\ UNCHANGED table
    BY DEF RestartBackend
<1>2. TypeOK'
    <2>1. /\ room' \in [Conversation -> SUBSET User]
          /\ toStore' \in [Handler -> SUBSET Conversation]
        BY <1>1
    <2>2. leaving' \in [Handler -> [Conversation -> SUBSET User]]
        BY <1>1 DEF NobodyLeaves
    <2>3. image' \in [Conversation -> [User -> Role \union {Unwritten}]]
        BY <1>1 DEF NothingWritten
    <2>4. lost' \in BOOLEAN
        BY <1>1 DEF GroupsInv, TypeOK
    <2>. QED  BY <2>1, <2>2, <2>3, <2>4, <1>1 DEF GroupsInv, TypeOK
<1>3. RequestsAreSound' /\ LocksAreSound'
    BY <1>1 DEF RequestsAreSound, LocksAreSound, NobodyLeaves
<1>4. ASSUME ~lost'
      PROVE  NothingLostInv'
    <2>1. NothingLostInv /\ \A h \in Handler : toStore[h] = {}
        BY <1>1, <1>4 DEF GroupsInv
    <2>2. \A c \in Conversation : \A u \in User : table[c][u] = roles[c][u]
        BY <2>1 DEF NothingLostInv, TableIsCurrent, Waits
    <2>3. /\ roles["group"] \in [User -> Role] /\ roles["management"] \in [User -> Role]
          /\ table["group"] \in [User -> Role] /\ table["management"] \in [User -> Role]
        BY DEF GroupsInv, TypeOK, Conversation
    <2>4. table["group"] = roles["group"] /\ table["management"] = roles["management"]
        BY <2>2, <2>3 DEF Conversation
    <2>5. ManagementFollows' /\ OneOwner(roles["group"])'
        BY <2>1, <2>4, <1>1 DEF NothingLostInv, ManagementFollows
    <2>6. ImageIsCurrent' /\ TableIsCurrent'
        BY <1>1 DEF ImageIsCurrent, TableIsCurrent, NothingWritten
    <2>7. \A c \in Conversation : RoomIsPrivate(c)'
        BY <1>1 DEF RoomIsPrivate
    <2>. QED  BY <2>5, <2>6, <2>7 DEF NothingLostInv
<1>. QED  BY <1>2, <1>3, <1>4 DEF GroupsInv

\* Only who may open a conversation enters its room, and leaving it is free.
LEMMA SocketKeepsInv ==
    ASSUME GroupsInv, Socket
    PROVE  GroupsInv'
<1>1. PICK c \in Conversation, u \in User :
         JoinConversation(c, u) \/ UnsubscribeConversation(c, u)
    BY DEF Socket
<1>2. UNCHANGED <<roles, toStore, committed, leaving, table, holder, image, lost>>
    BY <1>1 DEF JoinConversation, UnsubscribeConversation, requests, transactions
<1>3. PICK inside \in SUBSET User :
         /\ room' = [room EXCEPT ![c] = inside]
         /\ \A v \in inside : v \in room[c] \/ MayOpen(c, v)
    <2>1. room[c] \in SUBSET User
        BY DEF GroupsInv, TypeOK
    <2>2. CASE JoinConversation(c, u)
        <3>1. room[c] \union {u} \in SUBSET User
            BY <2>1
        <3>. QED  BY <2>2, <3>1 DEF JoinConversation
    <2>3. CASE UnsubscribeConversation(c, u)
        <3>1. room[c] \ {u} \in SUBSET User
            BY <2>1
        <3>. QED  BY <2>3, <3>1 DEF UnsubscribeConversation
    <2>. QED  BY <2>2, <2>3, <1>1
<1>4. room'[c] = inside /\ \A d \in Conversation : d # c => room'[d] = room[d]
    BY <1>3 DEF GroupsInv, TypeOK
<1>5. TypeOK'
    BY <1>2, <1>3 DEF GroupsInv, TypeOK
<1>6. RequestsAreSound' /\ LocksAreSound'
    BY <1>2 DEF GroupsInv, RequestsAreSound, LocksAreSound, Stage
<1>7. ASSUME NothingLostInv
      PROVE  NothingLostInv'
    <2>1. ImageIsCurrent' /\ TableIsCurrent'
        BY <1>2, <1>7 DEF NothingLostInv, ImageIsCurrent, TableIsCurrent, Waits, Stage
    <2>2. ManagementFollows' /\ OneOwner(roles["group"])'
        BY <1>2, <1>7 DEF NothingLostInv, ManagementFollows
    <2>3. \A d \in Conversation : ToldToLeave(d)' = ToldToLeave(d)
        BY <1>2 DEF ToldToLeave
    <2>4. \A d \in Conversation : \A v \in User : MayOpen(d, v)' <=> MayOpen(d, v)
        BY <1>2 DEF MayOpen
    <2>5. \A d \in Conversation : room[d] \subseteq User
        BY DEF GroupsInv, TypeOK
    <2>6. \A d \in Conversation : RoomIsPrivate(d)'
        BY <2>3, <2>4, <2>5, <1>3, <1>4, <1>7 DEF NothingLostInv, RoomIsPrivate
    <2>. QED  BY <2>1, <2>2, <2>6 DEF NothingLostInv
<1>. QED  BY <1>2, <1>5, <1>6, <1>7 DEF GroupsInv

LEMMA UnchangedKeepsInv ==
    ASSUME GroupsInv, UNCHANGED vars
    PROVE  GroupsInv'
BY DEF GroupsInv, vars, TypeOK, RequestsAreSound, LocksAreSound, NothingLostInv,
       ImageIsCurrent, TableIsCurrent, ManagementFollows, RoomIsPrivate, MayOpen,
       ToldToLeave, Waits, Stage

LEMMA NextKeepsInv == GroupsInv /\ [Next]_vars => GroupsInv'
<1> SUFFICES ASSUME GroupsInv, [Next]_vars
             PROVE  GroupsInv'
    OBVIOUS
<1>1. ASSUME NEW h \in Handler, Membership(h)
      PROVE  GroupsInv'
    BY <1>1, MembershipIsProper, ProperChangeKeepsInv
<1>2. ASSUME NEW h \in Handler, Rewriting(h)
      PROVE  GroupsInv'
    <2>1. ASSUME NEW u \in User, FindManagementConversation(h, u)
          PROVE  GroupsInv'
        BY <2>1, FindManagementConversationIsProper, ProperChangeKeepsInv
    <2>2. ASSUME NEW u \in User, UpdateGroupConversation(h, u)
          PROVE  GroupsInv'
        BY <2>2, StoreAgainKeepsInv DEF UpdateGroupConversation
    <2>3. ASSUME NEW u \in User, NEW c \in Conversation, PostMessage(h, c, u)
          PROVE  GroupsInv'
        BY <2>3, StoreAgainKeepsInv DEF PostMessage
    <2>. QED  BY <1>2, <2>1, <2>2, <2>3 DEF Rewriting
<1>3. ASSUME NEW h \in Handler, Transaction(h)
      PROVE  GroupsInv'
    BY <1>3, WriteParticipantKeepsInv, AnsweredKeepsInv, FailKeepsInv DEF Transaction
<1>4. CASE Socket
    BY <1>4, SocketKeepsInv
<1>5. CASE RestartBackend
    BY <1>5, RestartBackendKeepsInv
<1>6. CASE UNCHANGED vars
    BY <1>6, UnchangedKeepsInv
<1>. QED  BY <1>1, <1>2, <1>3, <1>4, <1>5, <1>6 DEF Next

-----------------------------------------------------------------------------
LEMMA SpecImpliesInv == Spec => []GroupsInv
<1>1. Init => GroupsInv
    BY InitEstablishesInv
<1>2. GroupsInv /\ [Next]_vars => GroupsInv'
    BY NextKeepsInv
<1>. QED  BY <1>1, <1>2, PTL DEF Spec

\* Every state of a group and its management conversation is well typed.
THEOREM GroupsTypeCorrect == Spec => []TypeOK
<1>1. GroupsInv => TypeOK
    BY DEF GroupsInv
<1>. QED  BY <1>1, SpecImpliesInv, PTL

\* For every number of users and requests: while no request is cut short, the
\* sockets of a user who lost the right to a conversation leave its room with
\* the answer that tells it (broadcastParticipantRemoved and -Left).
THEOREM GroupsRoomsArePrivate == Spec => []RoomsArePrivate
<1>1. GroupsInv => RoomsArePrivate
    BY InvImpliesProperties
<1>. QED  BY <1>1, SpecImpliesInv, PTL

\* For every number of users and requests: a role in memory that the table
\* does not have is about to be stored, however the participants that
\* persistConversationState writes one by one change in between.
THEOREM GroupsRolesAreStored == Spec => []RolesAreStored
<1>1. GroupsInv => RolesAreStored
    BY InvImpliesProperties
<1>. QED  BY <1>1, SpecImpliesInv, PTL

\* For every number of users and requests: leaving, removing, changing roles and
\* handing ownership on leave the group with exactly one owner.
THEOREM GroupsHasOneOwner == Spec => []GroupHasOneOwner
<1>1. GroupsInv => GroupHasOneOwner
    BY InvImpliesProperties
<1>. QED  BY <1>1, SpecImpliesInv, PTL


-----------------------------------------------------------------------------
(***************************************************************************)
(* Groups created by the automation, for every number of tickets, webhook  *)
(* calls and requests.                                                     *)
(***************************************************************************)

RequestRecord ==
    [step : Step, delivery : Delivery \union {None}, ticket : Ticket \union {None},
     group : Group \union {None}, result : Result \union {None}]

\* The request that creates the bot is registered, so that others await it,
\* and a bot that is stored but unknown was cut short.
BotIsSound ==
    /\ \A h \in Request :
          /\ req[h].step \in BotStep => botCreation = h
          /\ req[h].step = "awaitBot" => botCreation # None
          /\ req[h].result = "refused" => botCut
    /\ botCreation # None => ~bot /\ req[botCreation].step \in BotStep
    /\ storedBot => bot \/ botCut \/ \E h \in Request : req[h].step = "botStored"

\* Steps of a creation whose group is stored and not yet in memory, and steps
\* of one whose group is in memory.
Stored == {"groupStored", "insertRoom", "roomStored"}

Writes == {"insertMessage", "messageStored"}

\* How far request h has come is what the tables and the Map show.
CreationIsSound(h) ==
    /\ req[h].step # "idle" => req[h].ticket \in Ticket /\ req[h].delivery \in Delivery
    /\ req[h].step \in GroupStep =>
          pending[req[h].ticket] = h /\ req[h].group \in Group
    /\ req[h].step = "awaitGroup" => pending[req[h].ticket] # None
    /\ req[h].step = "insertGroup" => storedGroups[req[h].group] = None
    /\ req[h].step \in {"insertGroup"} \union Stored => GroupsOf(req[h].ticket) = {}
    /\ req[h].step \in Stored \union Writes =>
          storedGroups[req[h].group] = req[h].ticket
    /\ req[h].step \in {"roomStored"} \union Writes => req[h].group \in storedRooms
    /\ req[h].step \in Writes => groups[req[h].group] = req[h].ticket
    /\ req[h].step = "messageStored" => req[h].group \in storedMessages
    /\ req[h].result \in {"created", "reused"} =>
          req[h].ticket \in Ticket /\ GroupsOf(req[h].ticket) # {}
    /\ req[h].result = "conflict" => req[h].ticket \in cutShort

PendingIsSound ==
    \A t \in Ticket : pending[t] # None =>
       req[pending[t]].ticket = t /\ req[pending[t]].step \in GroupStep

IdsAreDistinct ==
    \A h, i \in Request : req[h].group = req[i].group /\ req[h].group # None => h = i

\* The unique index on externalRef.
StoredOnce ==
    \A g, k \in Group : storedGroups[g] = storedGroups[k] /\ storedGroups[g] # None => g = k

\* A stored group is in memory, or about to be, or was cut short.
StoredIsKnown ==
    \A g \in Group : storedGroups[g] # None =>
       \/ groups[g] = storedGroups[g]
       \/ storedGroups[g] \in cutShort
       \/ \E h \in Request : /\ req[h].step \in Stored
                             /\ req[h].group = g /\ req[h].ticket = storedGroups[g]

\* What AcknowledgedIsWhole promises of the groups of acknowledged tickets.
IsWhole(g) ==
    /\ storedGroups[g] = groups[g]
    /\ groups[g] \notin cutShort => /\ g \in rooms \intersect storedRooms
                                    /\ g \in storedMessages \/ Writing(groups[g])

CreationsAreSound ==
    /\ \A h \in Request : CreationIsSound(h)
    /\ PendingIsSound
    /\ IdsAreDistinct
    /\ StoredOnce
    /\ StoredIsKnown
    /\ \A g \in Group : groups[g] # None => IsWhole(g)

AcknowledgedIsKnown == \A t \in acknowledged : GroupsOf(t) # {}

AutomationInv ==
    /\ AutomationTypeOK
    /\ BotIsSound
    /\ CreationsAreSound
    /\ AcknowledgedIsKnown

\* The invariant implies the properties the run checks.
LEMMA AutomationInvImpliesProperties ==
    AutomationInv => AcknowledgedIsWhole /\ CreationsAreShared
<1> SUFFICES ASSUME AutomationInv PROVE AcknowledgedIsWhole /\ CreationsAreShared
  OBVIOUS
<1>1. AcknowledgedIsWhole
  <2> SUFFICES ASSUME NEW t \in acknowledged
               PROVE \E g \in Group :
                        /\ groups[g] = t /\ storedGroups[g] = t
                        /\ t \notin cutShort => /\ g \in rooms \intersect storedRooms
                                                /\ g \in storedMessages \/ Writing(t)
    BY DEF AcknowledgedIsWhole
  <2>1. PICK g \in Group : groups[g] = t
    BY DEF AutomationInv, AcknowledgedIsKnown, GroupsOf
  <2>2. t # None
    BY AutomationConstants DEF AutomationInv, AutomationTypeOK
  <2>3. IsWhole(g)
    BY <2>1, <2>2 DEF AutomationInv, CreationsAreSound
  <2>. QED  BY <2>1, <2>3 DEF IsWhole
<1>2. ConflictMeansLostAnswer
  BY DEF AutomationInv, BotIsSound, CreationsAreSound, CreationIsSound, ConflictMeansLostAnswer
<1>3. PendingIsUnderWay
  BY DEF AutomationInv, BotIsSound, CreationsAreSound, CreationIsSound, PendingIsSound,
         PendingIsUnderWay
<1>. QED  BY <1>1, <1>2, <1>3 DEF CreationsAreShared

LEMMA IdleIsARecord ==
    /\ Idle \in RequestRecord
    /\ Idle.step = "idle" /\ Idle.group = None /\ Idle.result = None
BY DEF Idle, RequestRecord, Step

LEMMA AutomationInitSound == AutomationInit => AutomationInv
<1> SUFFICES ASSUME AutomationInit PROVE AutomationInv
  OBVIOUS
<1> USE AutomationConstants DEF AutomationInit
<1>1. \A h \in Request : req[h] = Idle
  OBVIOUS
<1>2. AutomationTypeOK
  <2>1. Rest \in [ticket : Ticket \union {None}, attempt : 1 .. MaxAttempts,
                  call : Request \union {None}]
    BY DEF Rest
  <2>2. req \in [Request -> RequestRecord]
    BY IdleIsARecord
  <2>. QED  BY <2>1, <2>2 DEF AutomationTypeOK, RequestRecord
<1>3. BotIsSound
  BY <1>1, IdleIsARecord, NoneIsNoResult DEF BotIsSound, BotStep, Result
<1>4. ASSUME NEW h \in Request PROVE CreationIsSound(h)
  BY <1>1, IdleIsARecord, NoneIsNoResult
     DEF CreationIsSound, GroupStep, Stored, Writes, Result
<1>5. PendingIsSound /\ IdsAreDistinct /\ StoredOnce /\ StoredIsKnown
  BY <1>1, IdleIsARecord DEF PendingIsSound, IdsAreDistinct, StoredOnce, StoredIsKnown
<1>. QED  BY <1>2, <1>3, <1>4, <1>5 DEF AutomationInv, CreationsAreSound, AcknowledgedIsKnown

(***************************************************************************)
(* What the steps of the requests do.                                      *)
(***************************************************************************)

\* A request other than h is as before.
Others(h) == \A i \in Request \ {h} : req'[i] = req[i]

LEMMA RequestsAreRecords ==
    ASSUME AutomationTypeOK
    PROVE  /\ req \in [Request -> RequestRecord]
           /\ \A h \in Request :
                 /\ req[h].step \in Step
                 /\ req[h].delivery \in Delivery \union {None}
                 /\ req[h].ticket \in Ticket \union {None}
                 /\ req[h].group \in Group \union {None}
                 /\ req[h].result \in Result \union {None}
<1>1. req \in [Request -> RequestRecord]
  BY DEF AutomationTypeOK, RequestRecord
<1>2. ASSUME NEW h \in Request
      PROVE  /\ req[h].step \in Step
             /\ req[h].delivery \in Delivery \union {None}
             /\ req[h].ticket \in Ticket \union {None}
             /\ req[h].group \in Group \union {None}
             /\ req[h].result \in Result \union {None}
  <2>1. req[h] \in RequestRecord
    BY <1>1
  <2>. QED  BY <2>1 DEF RequestRecord
<1>. QED  BY <1>1, <1>2

\* A request becomes another record.
LEMMA RequestBecomes ==
    ASSUME AutomationTypeOK, NEW h \in Request, NEW r \in RequestRecord,
           req' = [req EXCEPT ![h] = r]
    PROVE  req' \in [Request -> RequestRecord] /\ req'[h] = r /\ Others(h)
BY RequestsAreRecords DEF Others

\* A request goes on to its next step.
LEMMA ProceedMoves ==
    ASSUME AutomationTypeOK, NEW h \in Request, NEW s \in Step, Proceed(h, s)
    PROVE  /\ req' \in [Request -> RequestRecord]
           /\ req'[h].step = s /\ req'[h].ticket = req[h].ticket
           /\ req'[h].group = req[h].group /\ req'[h].result = req[h].result
           /\ req'[h].delivery = req[h].delivery
           /\ Others(h)
<1>1. req[h] \in RequestRecord
  BY RequestsAreRecords
<1>2. [req[h] EXCEPT !.step = s] \in RequestRecord
  BY <1>1 DEF RequestRecord
<1>3. req' = [req EXCEPT ![h] = [req[h] EXCEPT !.step = s]]
  BY DEF Proceed
<1>4. req' \in [Request -> RequestRecord] /\ req'[h] = [req[h] EXCEPT !.step = s] /\ Others(h)
  BY <1>2, <1>3, RequestBecomes
<1>. QED  BY <1>1, <1>4 DEF RequestRecord

\* A request ends with a result.
Ended(i, result) ==
    /\ req'[i].step = "done" /\ req'[i].result = result
    /\ req'[i].ticket = req[i].ticket /\ req'[i].group = req[i].group
    /\ req'[i].delivery = req[i].delivery

Final(i, result) == [req[i] EXCEPT !.step = "done", !.result = result]

LEMMA FinalIsARecord ==
    ASSUME AutomationTypeOK, NEW i \in Request, NEW result \in Result
    PROVE  /\ Final(i, result) \in RequestRecord
           /\ Final(i, result).step = "done" /\ Final(i, result).result = result
           /\ Final(i, result).ticket = req[i].ticket
           /\ Final(i, result).group = req[i].group
           /\ Final(i, result).delivery = req[i].delivery
<1>1. req[i] \in RequestRecord
  BY RequestsAreRecords
<1>. QED  BY <1>1 DEF Final, RequestRecord, Step

LEMMA CreationEnds ==
    ASSUME AutomationTypeOK, NEW h \in Request, NEW own \in Result, NEW others \in Result,
           EndCreation(h, own, others)
    PROVE  /\ req' \in [Request -> RequestRecord]
           /\ Ended(h, own)
           /\ \A i \in Request \ {h} :
                 IF req[i].step = "awaitGroup" /\ req[i].ticket = req[h].ticket
                 THEN Ended(i, others) ELSE req'[i] = req[i]
<1>1. req' = [i \in Request |->
         IF i = h THEN Final(i, own)
         ELSE IF req[i].step = "awaitGroup" /\ req[i].ticket = req[h].ticket
         THEN Final(i, others) ELSE req[i]]
  BY DEF EndCreation, Final
<1>2. ASSUME NEW i \in Request PROVE req'[i] \in RequestRecord
  BY <1>1, RequestsAreRecords, FinalIsARecord
<1>3. req' \in [Request -> RequestRecord]
  BY <1>1, <1>2
<1>4. Ended(h, own)
  BY <1>1, FinalIsARecord DEF Ended
<1>5. ASSUME NEW i \in Request \ {h}
      PROVE  IF req[i].step = "awaitGroup" /\ req[i].ticket = req[h].ticket
             THEN Ended(i, others) ELSE req'[i] = req[i]
  BY <1>1, FinalIsARecord DEF Ended
<1>. QED  BY <1>3, <1>4, <1>5

LEMMA BotFails ==
    ASSUME AutomationTypeOK, NEW h \in Request, NEW result \in Result, FailBot(h, result)
    PROVE  /\ req' \in [Request -> RequestRecord]
           /\ \A i \in Request : IF i = h \/ req[i].step = "awaitBot"
                                 THEN Ended(i, result) ELSE req'[i] = req[i]
<1>1. req' = [i \in Request |-> IF i = h \/ req[i].step = "awaitBot"
                                THEN Final(i, result) ELSE req[i]]
  BY DEF FailBot, Final
<1>2. ASSUME NEW i \in Request PROVE req'[i] \in RequestRecord
  BY <1>1, RequestsAreRecords, FinalIsARecord
<1>3. req' \in [Request -> RequestRecord]
  BY <1>1, <1>2
<1>4. ASSUME NEW i \in Request
      PROVE  IF i = h \/ req[i].step = "awaitBot"
             THEN Ended(i, result) ELSE req'[i] = req[i]
  BY <1>1, FinalIsARecord DEF Ended
<1>. QED  BY <1>3, <1>4

(***************************************************************************)
(* Steps that touch only the bot, or only the creations.                   *)
(***************************************************************************)

\* A request that has to do with no creation, before and after a step.
OffCreation(i) ==
    /\ req[i].step \notin GroupStep /\ req'[i].step \notin GroupStep
    /\ req'[i].step # "idle" => req'[i].ticket \in Ticket /\ req'[i].delivery \in Delivery
    /\ req'[i].group \in {None, req[i].group}
    /\ req'[i].step = "awaitGroup" => pending[req'[i].ticket] # None
    /\ req'[i].result \in {"created", "reused"} =>
          req'[i].ticket \in Ticket /\ GroupsOf(req'[i].ticket) # {}
    /\ req'[i].result = "conflict" => req'[i].ticket \in cutShort

LEMMA CreationsUntouched ==
    ASSUME AutomationTypeOK, CreationsAreSound, req' \in [Request -> RequestRecord],
           UNCHANGED <<groups, rooms, pending, storedGroups, storedRooms, storedMessages,
                       cutShort>>,
           \A i \in Request : req'[i] = req[i] \/ OffCreation(i)
    PROVE  CreationsAreSound'
<1>1. ASSUME NEW t \in Ticket PROVE Writing(t)' <=> Writing(t)
  <2>1. pending[t] # None => pending[t] \in Request
    BY DEF AutomationTypeOK
  <2>. QED  BY <2>1 DEF Writing, OffCreation, GroupStep
<1>2. ASSUME NEW i \in Request PROVE CreationIsSound(i)'
  <2>1. CreationIsSound(i)
    BY DEF CreationsAreSound
  <2>2. CASE req'[i] = req[i]
    BY <2>1, <2>2 DEF CreationIsSound, GroupsOf
  <2>3. CASE OffCreation(i)
    BY <2>3 DEF OffCreation, CreationIsSound, GroupsOf, GroupStep, Stored, Writes
  <2>. QED  BY <2>2, <2>3
<1>3. PendingIsSound'
  <2> SUFFICES ASSUME NEW t \in Ticket, pending[t] # None
               PROVE  req'[pending[t]].ticket = t /\ req'[pending[t]].step \in GroupStep
    BY DEF PendingIsSound
  <2>1. pending[t] \in Request
    BY DEF AutomationTypeOK
  <2>2. req[pending[t]].ticket = t /\ req[pending[t]].step \in GroupStep
    BY DEF CreationsAreSound, PendingIsSound
  <2>. QED  BY <2>1, <2>2 DEF OffCreation
<1>4. IdsAreDistinct'
  BY DEF CreationsAreSound, IdsAreDistinct, OffCreation
<1>5. StoredOnce'
  BY DEF CreationsAreSound, StoredOnce
<1>6. StoredIsKnown'
  BY DEF CreationsAreSound, StoredIsKnown, OffCreation, Stored, GroupStep
<1>7. ASSUME NEW g \in Group, groups'[g] # None PROVE IsWhole(g)'
  <2>1. groups[g] \in Ticket
    BY <1>7 DEF AutomationTypeOK
  <2>2. IsWhole(g)
    BY <1>7 DEF CreationsAreSound
  <2>3. Writing(groups[g])' <=> Writing(groups[g])
    BY <1>1, <2>1
  <2>. QED  BY <2>2, <2>3 DEF IsWhole
<1>. QED  BY <1>2, <1>3, <1>4, <1>5, <1>6, <1>7 DEF CreationsAreSound

\* A request that has to do with no bot, before and after a step.
OffBot(i) ==
    /\ req[i].step \notin BotStep
    /\ req'[i].step \notin BotStep \union {"awaitBot"}
    /\ req'[i].result = "refused" => botCut

LEMMA BotUntouched ==
    ASSUME AutomationTypeOK, BotIsSound, UNCHANGED <<bot, botCreation, storedBot, botCut>>,
           \A i \in Request : req'[i] = req[i] \/ OffBot(i)
    PROVE  BotIsSound'
<1>1. ASSUME NEW i \in Request
      PROVE  /\ req'[i].step \in BotStep => botCreation' = i
             /\ req'[i].step = "awaitBot" => botCreation' # None
             /\ req'[i].result = "refused" => botCut'
  BY DEF BotIsSound, OffBot
<1>2. botCreation' # None => ~bot' /\ req'[botCreation].step \in BotStep
  <2>1. botCreation # None => botCreation \in Request
    BY DEF AutomationTypeOK
  <2>. QED  BY <2>1 DEF BotIsSound, OffBot
<1>3. storedBot' => bot' \/ botCut' \/ \E h \in Request : req'[h].step = "botStored"
  BY DEF BotIsSound, OffBot, BotStep
<1>. QED  BY <1>1, <1>2, <1>3 DEF BotIsSound

\* A creation may end when its ticket was cut short, or all of it is written.
LEMMA EndedCreationIsSound ==
    ASSUME AutomationTypeOK, CreationsAreSound, cutShort' \subseteq Ticket,
           NEW h \in Request, NEW own \in Result, NEW others \in Result,
           req[h].step \in GroupStep, EndCreation(h, own, others),
           UNCHANGED <<groups, rooms, storedGroups, storedRooms, storedMessages>>,
           cutShort \subseteq cutShort',
           {own, others} \intersect {"created", "reused"} # {} => GroupsOf(req[h].ticket) # {},
           "conflict" \in {own, others} => req[h].ticket \in cutShort',
           req[h].step \in Stored => req[h].ticket \in cutShort',
           req[h].step \in Writes => \/ req[h].ticket \in cutShort'
                                     \/ req[h].group \in storedMessages
    PROVE  CreationsAreSound'
<1> DEFINE t == req[h].ticket
<1>1. /\ t \in Ticket /\ pending[t] = h
      /\ pending' = [pending EXCEPT ![t] = None]
      /\ pending \in [Ticket -> Request \union {None}]
  BY DEF CreationsAreSound, CreationIsSound, EndCreation, AutomationTypeOK, GroupStep
<1>2. /\ Ended(h, own)
      /\ \A i \in Request \ {h} :
            IF req[i].step = "awaitGroup" /\ req[i].ticket = t
            THEN Ended(i, others) ELSE req'[i] = req[i]
  BY CreationEnds
<1>3. \A u \in Ticket \ {t} : pending'[u] = pending[u]
  BY <1>1
<1>4. ASSUME NEW u \in Ticket \ {t} PROVE Writing(u)' <=> Writing(u)
  <2>1. pending[u] # None => /\ pending[u] \in Request \ {h}
                             /\ req[pending[u]].ticket = u
                             /\ req[pending[u]].step \in GroupStep
    BY <1>1 DEF CreationsAreSound, PendingIsSound
  <2>2. pending[u] # None => req'[pending[u]] = req[pending[u]]
    BY <1>2, <2>1 DEF GroupStep
  <2>. QED  BY <1>3, <2>2 DEF Writing
<1>5. ASSUME NEW i \in Request PROVE CreationIsSound(i)'
  <2>1. CreationIsSound(i)
    BY DEF CreationsAreSound
  <2>2. CASE i = h
    BY <1>1, <1>2, <2>1, <2>2 DEF Ended, CreationIsSound, GroupsOf, GroupStep, Stored, Writes
  <2>3. CASE i # h /\ req[i].step = "awaitGroup" /\ req[i].ticket = t
    BY <1>1, <1>2, <2>1, <2>3 DEF Ended, CreationIsSound, GroupsOf, GroupStep, Stored, Writes
  <2>4. CASE i # h /\ ~(req[i].step = "awaitGroup" /\ req[i].ticket = t)
    <3>1. req'[i] = req[i]
      BY <1>2, <2>4
    <3>2. req[i].step \in GroupStep \union {"awaitGroup"} =>
             req[i].ticket \in Ticket \ {t}
      BY <1>1, <2>1, <2>4 DEF CreationIsSound, GroupStep
    <3>. QED  BY <1>3, <2>1, <3>1, <3>2 DEF CreationIsSound, GroupsOf
  <2>. QED  BY <2>2, <2>3, <2>4
<1>6. PendingIsSound'
  <2> SUFFICES ASSUME NEW u \in Ticket, pending'[u] # None
               PROVE  req'[pending'[u]].ticket = u /\ req'[pending'[u]].step \in GroupStep
    BY DEF PendingIsSound
  <2>1. u # t /\ pending'[u] = pending[u]
    BY <1>1
  <2>2. /\ pending[u] \in Request \ {h}
        /\ req[pending[u]].ticket = u /\ req[pending[u]].step \in GroupStep
    BY <1>1, <2>1 DEF CreationsAreSound, PendingIsSound
  <2>3. req'[pending[u]] = req[pending[u]]
    BY <1>2, <2>2 DEF GroupStep
  <2>. QED  BY <2>1, <2>2, <2>3
<1>7. IdsAreDistinct'
  <2>1. \A i \in Request : req'[i].group = req[i].group
    BY <1>2 DEF Ended
  <2>. QED  BY <2>1 DEF CreationsAreSound, IdsAreDistinct
<1>8. StoredOnce'
  BY DEF CreationsAreSound, StoredOnce
<1>9. StoredIsKnown'
  <2> SUFFICES ASSUME NEW g \in Group, storedGroups[g] # None
               PROVE  \/ groups[g] = storedGroups[g]
                      \/ storedGroups[g] \in cutShort'
                      \/ \E i \in Request : /\ req'[i].step \in Stored
                                            /\ req'[i].group = g
                                            /\ req'[i].ticket = storedGroups[g]
    BY DEF StoredIsKnown
  <2>1. \/ groups[g] = storedGroups[g]
        \/ storedGroups[g] \in cutShort
        \/ \E i \in Request : /\ req[i].step \in Stored
                              /\ req[i].group = g /\ req[i].ticket = storedGroups[g]
    BY DEF CreationsAreSound, StoredIsKnown
  <2>2. ASSUME NEW i \in Request, req[i].step \in Stored, req[i].group = g,
               req[i].ticket = storedGroups[g]
        PROVE  storedGroups[g] \in cutShort' \/ req'[i] = req[i]
    BY <1>2, <2>2 DEF Stored
  <2>. QED  BY <2>1, <2>2
<1>10. ASSUME NEW g \in Group, groups'[g] # None PROVE IsWhole(g)'
  <2>1. groups[g] \in Ticket
    BY <1>10 DEF AutomationTypeOK
  <2>2. IsWhole(g)
    BY <1>10 DEF CreationsAreSound
  <2>3. CASE groups[g] # t
    <3>1. Writing(groups[g])' <=> Writing(groups[g])
      BY <1>4, <2>1, <2>3
    <3>. QED  BY <2>2, <3>1 DEF IsWhole
  <2>4. CASE groups[g] = t
    <3>1. req[h].step \in Writes
      BY <2>4 DEF CreationsAreSound, CreationIsSound, GroupsOf, GroupStep, Stored, Writes
    <3>2. storedGroups[req[h].group] = t /\ req[h].group \in Group
      BY <3>1 DEF CreationsAreSound, CreationIsSound, GroupStep, Writes
    <3>3. storedGroups[g] = t
      BY <2>2, <2>4 DEF IsWhole
    <3>4. g = req[h].group
      BY <1>1, <3>2, <3>3, AutomationConstants DEF CreationsAreSound, StoredOnce
    <3>. QED  BY <2>2, <2>4, <3>1, <3>4 DEF IsWhole
  <2>. QED  BY <2>3, <2>4
<1>. QED  BY <1>5, <1>6, <1>7, <1>8, <1>9, <1>10 DEF CreationsAreSound

(***************************************************************************)
(* Steps of the adapter, of the bot, and of requests that find a creation. *)
(***************************************************************************)

AdapterRecord ==
    [ticket : Ticket \union {None}, attempt : 1 .. MaxAttempts,
     call : Request \union {None}]

LEMMA AdapterIsRecords ==
    ASSUME AutomationTypeOK
    PROVE  adapter \in [Delivery -> AdapterRecord]
BY DEF AutomationTypeOK, AdapterRecord

LEMMA AdapterGoesOn ==
    ASSUME AutomationTypeOK, NEW d \in Delivery
    PROVE  Rest \in AdapterRecord /\ AfterFailure(d) \in AdapterRecord
<1>1. Rest \in AdapterRecord
  BY AutomationConstants DEF Rest, AdapterRecord
<1>2. adapter[d] \in AdapterRecord
  BY AdapterIsRecords
<1>3. adapter[d].attempt # MaxAttempts => adapter[d].attempt + 1 \in 1 .. MaxAttempts
  BY <1>2, AutomationConstants DEF AdapterRecord
<1>4. adapter[d].attempt # MaxAttempts =>
         [adapter[d] EXCEPT !.attempt = @ + 1, !.call = None] \in AdapterRecord
  BY <1>2, <1>3 DEF AdapterRecord
<1>. QED  BY <1>1, <1>4 DEF AfterFailure

\* A step of the adapter alone.
LEMMA AdapterStepKeepsInv ==
    ASSUME AutomationInv, adapter' \in [Delivery -> AdapterRecord],
           UNCHANGED <<req, maps, tables, history>>
    PROVE  AutomationInv'
<1> USE DEF AutomationInv, maps, tables, history
<1>1. AutomationTypeOK'
  BY DEF AutomationTypeOK, AdapterRecord
<1>2. BotIsSound'
  BY BotUntouched
<1>3. CreationsAreSound'
  BY CreationsUntouched, RequestsAreRecords
<1>. QED  BY <1>1, <1>2, <1>3 DEF AcknowledgedIsKnown, GroupsOf

LEMMA DeliverKeepsInv ==
    ASSUME AutomationInv, NEW d \in Delivery, NEW t \in Ticket, Deliver(d, t)
    PROVE  AutomationInv'
<1>1. adapter[d] \in AdapterRecord
  BY AdapterIsRecords DEF AutomationInv
<1>2. [adapter[d] EXCEPT !.ticket = t] \in AdapterRecord
  BY <1>1 DEF AdapterRecord
<1>3. adapter' \in [Delivery -> AdapterRecord]
  BY <1>2, AdapterIsRecords DEF Deliver, AutomationInv
<1>. QED  BY <1>3, AdapterStepKeepsInv DEF Deliver

LEMMA TimeOutKeepsInv ==
    ASSUME AutomationInv, NEW d \in Delivery, TimeOut(d)
    PROVE  AutomationInv'
<1>1. adapter' \in [Delivery -> AdapterRecord]
  BY AdapterIsRecords, AdapterGoesOn DEF TimeOut, AutomationInv
<1>. QED  BY <1>1, AdapterStepKeepsInv DEF TimeOut

LEMMA AttemptKeepsInv ==
    ASSUME AutomationInv, NEW d \in Delivery, NEW h \in Request, Attempt(d, h)
    PROVE  AutomationInv'
<1> DEFINE s == IF bot THEN "ready" ELSE IF botCreation # None THEN "awaitBot" ELSE "hashBot"
           r == [Idle EXCEPT !.delivery = d, !.ticket = adapter[d].ticket, !.step = s]
<1>0. AutomationTypeOK /\ BotIsSound /\ CreationsAreSound
  BY DEF AutomationInv
<1>1. adapter[d] \in AdapterRecord /\ adapter[d].ticket \in Ticket
  <2>1. adapter[d] \in AdapterRecord
    BY <1>0, AdapterIsRecords
  <2>. QED  BY <2>1 DEF Attempt, AdapterRecord
<1>2. /\ r \in RequestRecord /\ r.step = s /\ r.ticket \in Ticket /\ r.group = None
      /\ r.result = None /\ r.delivery = d
  <2>1. s \in Step
    BY DEF Step, BotStep
  <2>. QED  BY <1>1, <2>1 DEF Idle, RequestRecord
<1>3. req' \in [Request -> RequestRecord] /\ req'[h] = r /\ Others(h)
  <2>1. req' = [req EXCEPT ![h] = r]
    BY DEF Attempt
  <2> HIDE DEF r
  <2>. QED  BY <1>0, <1>2, <2>1, RequestBecomes
<1>4. /\ req[h].step = "idle"
      /\ botCreation' = IF ~bot /\ botCreation = None THEN h ELSE botCreation
      /\ UNCHANGED <<bot, groups, rooms, pending, tables, history>>
  BY DEF Attempt
<1>5. /\ req'[h].step = s /\ req'[h].ticket \in Ticket /\ req'[h].group = None
      /\ req'[h].result = None /\ req'[h].delivery = d
  BY <1>2, <1>3
<1> HIDE DEF r
<1>6. AutomationTypeOK'
  <2>1. [adapter[d] EXCEPT !.call = h] \in AdapterRecord
    BY <1>1 DEF AdapterRecord
  <2>2. adapter' \in [Delivery -> AdapterRecord]
    BY <1>0, <2>1, AdapterIsRecords DEF Attempt
  <2>. QED  BY <1>0, <1>3, <1>4, <2>2
            DEF AutomationTypeOK, AdapterRecord, RequestRecord, tables, history
<1>7. CreationsAreSound'
  <2>1. OffCreation(h)
    <3>1. /\ req'[h].step \notin GroupStep \union {"awaitGroup"}
          /\ req[h].step \notin GroupStep
      BY <1>4, <1>5 DEF GroupStep
    <3>2. req'[h].result \notin Result
      BY <1>5, NoneIsNoResult
    <3>3. /\ req'[h].ticket \in Ticket /\ req'[h].delivery \in Delivery
          /\ req'[h].group = None
      BY <1>5
    <3>. QED  BY <3>1, <3>2, <3>3 DEF OffCreation, Result
  <2>2. \A i \in Request : req'[i] = req[i] \/ OffCreation(i)
    BY <1>3, <2>1 DEF Others
  <2>. QED  BY <1>0, <1>3, <1>4, <2>2, CreationsUntouched DEF tables, history
<1>8. BotIsSound'
  <2>1. req'[h].result # "refused"
    BY <1>5, NoneIsNoResult DEF Result
  <2>2. \A i \in Request : i # h => req'[i] = req[i]
    BY <1>3 DEF Others
  <2>3. h # None
    BY AutomationConstants
  <2>4. botCreation # None => botCreation \in Request /\ botCreation # h
    BY <1>0, <1>4 DEF AutomationTypeOK, BotIsSound, BotStep
  <2>5. storedBot' => bot' \/ botCut' \/ \E i \in Request : req'[i].step = "botStored"
    BY <1>0, <1>4, <2>2 DEF BotIsSound, tables, history
  <2>6. botCreation' # None => ~bot' /\ req'[botCreation'].step \in BotStep
    BY <1>0, <1>4, <1>5, <2>2, <2>4 DEF BotIsSound, BotStep
  <2>7. ASSUME NEW i \in Request
        PROVE  /\ req'[i].step \in BotStep => botCreation' = i
               /\ req'[i].step = "awaitBot" => botCreation' # None
               /\ req'[i].result = "refused" => botCut'
    <3>1. CASE i = h
      BY <1>4, <1>5, <2>1, <2>3, <3>1 DEF BotStep
    <3>2. CASE i # h
      BY <1>0, <1>4, <2>2, <2>4, <3>2, AutomationConstants DEF BotIsSound, BotStep, history
    <3>. QED  BY <3>1, <3>2
  <2>. QED  BY <2>5, <2>6, <2>7 DEF BotIsSound
<1>. QED  BY <1>4, <1>6, <1>7, <1>8
          DEF AutomationInv, AcknowledgedIsKnown, GroupsOf, history

LEMMA RespondKeepsInv ==
    ASSUME AutomationInv, NEW h \in Request, Respond(h)
    PROVE  AutomationInv'
<1>0. AutomationTypeOK /\ BotIsSound /\ CreationsAreSound
  BY DEF AutomationInv
<1>1. /\ req[h].step = "done" /\ req' = [req EXCEPT ![h] = Idle]
      /\ UNCHANGED <<maps, tables, cutShort, botCut>>
  BY DEF Respond
<1>2. /\ req' \in [Request -> RequestRecord] /\ req'[h] = Idle
      /\ \A i \in Request : i # h => req'[i] = req[i]
  BY <1>0, <1>1, RequestBecomes, IdleIsARecord DEF Others
<1>3. /\ CreationIsSound(h)
      /\ req[h].ticket \in Ticket /\ req[h].delivery \in Delivery
  BY <1>0, <1>1 DEF CreationsAreSound, CreationIsSound
<1>4. AutomationTypeOK'
  <2>1. adapter' \in [Delivery -> AdapterRecord]
    BY <1>0, <1>3, AdapterIsRecords, AdapterGoesOn DEF Respond
  <2>2. acknowledged' \subseteq Ticket
    BY <1>0, <1>3 DEF Respond, AutomationTypeOK
  <2>. QED  BY <1>0, <1>1, <1>2, <2>1, <2>2
            DEF AutomationTypeOK, AdapterRecord, RequestRecord, maps, tables
<1>5. BotIsSound'
  <2>1. OffBot(h)
    BY <1>1, <1>2, IdleIsARecord, NoneIsNoResult DEF OffBot, BotStep, Result
  <2>. QED  BY <1>0, <1>1, <1>2, <2>1, BotUntouched DEF maps, tables
<1>6. CreationsAreSound'
  <2>1. OffCreation(h)
    BY <1>1, <1>2, IdleIsARecord, NoneIsNoResult DEF OffCreation, GroupStep, Result
  <2>. QED  BY <1>0, <1>1, <1>2, <2>1, CreationsUntouched DEF maps, tables
<1>7. AcknowledgedIsKnown'
  <2>1. req[h].result \in {"created", "reused"} => GroupsOf(req[h].ticket) # {}
    BY <1>3 DEF CreationIsSound
  <2>2. acknowledged' = acknowledged
        \/ /\ req[h].result \in {"created", "reused"}
           /\ acknowledged' = acknowledged \union {req[h].ticket}
    BY DEF Respond
  <2>3. \A t \in acknowledged' : GroupsOf(t) # {}
    BY <2>1, <2>2 DEF AutomationInv, AcknowledgedIsKnown
  <2>. QED  BY <1>1, <2>3 DEF AcknowledgedIsKnown, GroupsOf, maps
<1>. QED  BY <1>4, <1>5, <1>6, <1>7 DEF AutomationInv

\* What a step of the bot leaves alone.
BotStepFrame ==
    UNCHANGED <<adapter, groups, rooms, pending, storedGroups, storedRooms,
                storedMessages, acknowledged, cutShort>>

\* A request that only the creation of the bot moves.
MovesWithBot(i) ==
    /\ req[i].step \in BotStep \union {"awaitBot"}
    /\ req'[i].step \in BotStep \union {"ready", "done"}
    /\ req'[i].ticket = req[i].ticket /\ req'[i].delivery = req[i].delivery
    /\ req'[i].group = req[i].group
    /\ req'[i].result \in {req[i].result, "failed", "refused"}

LEMMA BotStepKeepsRest ==
    ASSUME AutomationInv, BotStepFrame, req' \in [Request -> RequestRecord],
           bot' \in BOOLEAN, storedBot' \in BOOLEAN, botCut' \in BOOLEAN,
           botCreation' \in Request \union {None},
           \A i \in Request : req'[i] = req[i] \/ MovesWithBot(i)
    PROVE  AutomationTypeOK' /\ CreationsAreSound' /\ AcknowledgedIsKnown'
<1> USE DEF BotStepFrame
<1>1. AutomationTypeOK'
  BY DEF AutomationInv, AutomationTypeOK, RequestRecord
<1>2. CreationsAreSound'
  <2>1. ASSUME NEW i \in Request, MovesWithBot(i) PROVE OffCreation(i)
    <3>1. CreationIsSound(i)
      BY DEF AutomationInv, CreationsAreSound
    <3>. QED  BY <2>1, <3>1 DEF MovesWithBot, OffCreation, CreationIsSound, BotStep, GroupStep
  <2>. QED  BY <2>1, CreationsUntouched DEF AutomationInv
<1>3. AcknowledgedIsKnown'
  BY DEF AutomationInv, AcknowledgedIsKnown, GroupsOf
<1>. QED  BY <1>1, <1>2, <1>3

LEMMA BotHashedKeepsInv ==
    ASSUME AutomationInv, NEW h \in Request, BotHashed(h)
    PROVE  AutomationInv'
<1>0. AutomationTypeOK /\ BotIsSound
  BY DEF AutomationInv
<1>1. /\ req[h].step = "hashBot" /\ BotStepFrame
      /\ UNCHANGED <<bot, storedBot, botCreation, botCut>>
  BY DEF BotHashed, BotStepFrame, maps, tables, history
<1>2. /\ req' \in [Request -> RequestRecord]
      /\ req'[h].step = "insertBot" /\ req'[h].ticket = req[h].ticket
      /\ req'[h].group = req[h].group /\ req'[h].result = req[h].result
      /\ req'[h].delivery = req[h].delivery
      /\ Others(h)
  BY <1>0, ProceedMoves DEF BotHashed, Step, BotStep
<1>3. MovesWithBot(h)
  BY <1>1, <1>2 DEF MovesWithBot, BotStep
<1>4. AutomationTypeOK' /\ CreationsAreSound' /\ AcknowledgedIsKnown'
  BY <1>0, <1>1, <1>2, <1>3, BotStepKeepsRest DEF Others, AutomationTypeOK
<1>5. BotIsSound'
  <2>1. \A i \in Request : i # h => req'[i] = req[i]
    BY <1>2 DEF Others
  <2>2. botCreation = h
    BY <1>0, <1>1 DEF BotIsSound, BotStep
  <2>. QED  BY <1>0, <1>1, <1>2, <2>1, <2>2 DEF BotIsSound, BotStep
<1>. QED  BY <1>4, <1>5 DEF AutomationInv

\* The creation of the bot fails: the request h that was about to insert it, or
\* was waiting for the answer, and all that await it are answered so.
LEMMA FailedBotKeepsInv ==
    ASSUME AutomationInv, NEW h \in Request, NEW result \in {"failed", "refused"},
           req[h].step \in {"insertBot", "botStored"}, FailBot(h, result),
           BotStepFrame, UNCHANGED <<bot, storedBot>>, botCut' \in BOOLEAN,
           botCut => botCut', result = "refused" => botCut',
           req[h].step = "botStored" => botCut'
    PROVE  AutomationInv'
<1>0. AutomationTypeOK /\ BotIsSound
  BY DEF AutomationInv
<1>1. /\ req' \in [Request -> RequestRecord]
      /\ \A i \in Request : IF i = h \/ req[i].step = "awaitBot"
                            THEN Ended(i, result) ELSE req'[i] = req[i]
  BY <1>0, BotFails DEF Result
<1>2. botCreation' = None
  BY DEF FailBot
<1>3. \A i \in Request : req[i].step \in BotStep => i = h
  BY <1>0 DEF BotIsSound, BotStep
<1>4. ASSUME NEW i \in Request PROVE req'[i] = req[i] \/ MovesWithBot(i)
  BY <1>1 DEF MovesWithBot, Ended, BotStep
<1>5. AutomationTypeOK' /\ CreationsAreSound' /\ AcknowledgedIsKnown'
  BY <1>0, <1>1, <1>2, <1>4, BotStepKeepsRest DEF AutomationTypeOK
<1>6. BotIsSound'
  <2>1. ASSUME NEW i \in Request
        PROVE  /\ req'[i].step \notin BotStep \union {"awaitBot"}
               /\ req'[i].result = "refused" => botCut'
    BY <1>0, <1>1, <1>3 DEF Ended, BotIsSound, BotStep
  <2>2. storedBot' => bot' \/ botCut'
    BY <1>0, <1>3 DEF BotIsSound, BotStep
  <2>. QED  BY <1>2, <2>1, <2>2 DEF BotIsSound
<1>. QED  BY <1>5, <1>6 DEF AutomationInv

LEMMA InsertBotKeepsInv ==
    ASSUME AutomationInv, NEW h \in Request, InsertBot(h)
    PROVE  AutomationInv'
<1>0. AutomationTypeOK /\ BotIsSound
  BY DEF AutomationInv
<1>1. /\ req[h].step = "insertBot" /\ BotStepFrame
      /\ UNCHANGED <<bot, botCut>>
  BY DEF InsertBot, BotStepFrame, history
<1>2. botCreation = h /\ h # None /\ ~bot
  BY <1>0, <1>1, AutomationConstants DEF BotIsSound, BotStep
<1>3. CASE storedBot
  <2>1. botCut
    <3>1. \A i \in Request : req[i].step = "botStored" => i = h
      BY <1>0, <1>2 DEF BotIsSound, BotStep
    <3>. QED  BY <1>0, <1>1, <1>2, <1>3, <3>1 DEF BotIsSound
  <2>. QED  BY <1>0, <1>1, <1>3, <2>1, FailedBotKeepsInv DEF InsertBot, AutomationTypeOK
<1>4. CASE ~storedBot
  <2>1. /\ req' \in [Request -> RequestRecord]
        /\ req'[h].step = "botStored" /\ req'[h].ticket = req[h].ticket
        /\ req'[h].group = req[h].group /\ req'[h].result = req[h].result
        /\ req'[h].delivery = req[h].delivery
        /\ Others(h)
    BY <1>0, <1>4, ProceedMoves DEF InsertBot, Step, BotStep
  <2>2. storedBot' = TRUE /\ botCreation' = botCreation
    BY <1>4 DEF InsertBot
  <2>3. MovesWithBot(h)
    BY <1>1, <2>1 DEF MovesWithBot, BotStep
  <2>4. AutomationTypeOK' /\ CreationsAreSound' /\ AcknowledgedIsKnown'
    BY <1>0, <1>1, <2>1, <2>2, <2>3, BotStepKeepsRest DEF Others, AutomationTypeOK
  <2>5. BotIsSound'
    <3>1. \A i \in Request : i # h => req'[i] = req[i]
      BY <2>1 DEF Others
    <3>. QED  BY <1>0, <1>1, <1>2, <2>1, <2>2, <3>1 DEF BotIsSound, BotStep
  <2>. QED  BY <2>4, <2>5 DEF AutomationInv
<1>. QED  BY <1>3, <1>4

LEMMA FinishBotKeepsInv ==
    ASSUME AutomationInv, NEW h \in Request, FinishBot(h)
    PROVE  AutomationInv'
<1>0. AutomationTypeOK /\ BotIsSound
  BY DEF AutomationInv
<1>1. /\ req[h].step = "botStored" /\ BotStepFrame
      /\ UNCHANGED <<storedBot, botCut>> /\ bot' = TRUE /\ botCreation' = None
  BY DEF FinishBot, BotStepFrame, tables, history
<1>2. \A i \in Request : req[i].step \in BotStep => i = h
  BY <1>0, <1>1 DEF BotIsSound, BotStep
<1>3. \A i \in Request : LET r == [req[i] EXCEPT !.step = "ready"]
                         IN /\ r \in RequestRecord
                            /\ r.step = "ready" /\ r.ticket = req[i].ticket
                            /\ r.delivery = req[i].delivery
                            /\ r.group = req[i].group /\ r.result = req[i].result
  <2> SUFFICES ASSUME NEW i \in Request
               PROVE  LET r == [req[i] EXCEPT !.step = "ready"]
                      IN /\ r \in RequestRecord
                         /\ r.step = "ready" /\ r.ticket = req[i].ticket
                         /\ r.delivery = req[i].delivery
                         /\ r.group = req[i].group /\ r.result = req[i].result
    OBVIOUS
  <2>1. req[i] \in RequestRecord
    BY <1>0, RequestsAreRecords
  <2>. QED  BY <2>1 DEF RequestRecord, Step
<1>4. \A i \in Request :
         req'[i] = IF i = h \/ req[i].step = "awaitBot"
                   THEN [req[i] EXCEPT !.step = "ready"] ELSE req[i]
  BY DEF FinishBot
<1>5. \A i \in Request :
         IF i = h \/ req[i].step = "awaitBot"
         THEN /\ req'[i].step = "ready" /\ req'[i].ticket = req[i].ticket
              /\ req'[i].delivery = req[i].delivery
              /\ req'[i].group = req[i].group /\ req'[i].result = req[i].result
         ELSE req'[i] = req[i]
  BY <1>3, <1>4
<1>6. req' \in [Request -> RequestRecord]
  <2>1. \A i \in Request : req'[i] \in RequestRecord
    BY <1>0, <1>3, <1>4, RequestsAreRecords
  <2>2. \E f : req' = [i \in Request |-> f[i]]
    BY DEF FinishBot
  <2>. QED  BY <2>1, <2>2
<1>7. ASSUME NEW i \in Request PROVE req'[i] = req[i] \/ MovesWithBot(i)
  BY <1>1, <1>5 DEF MovesWithBot, BotStep
<1>8. AutomationTypeOK' /\ CreationsAreSound' /\ AcknowledgedIsKnown'
  BY <1>0, <1>1, <1>6, <1>7, BotStepKeepsRest DEF AutomationTypeOK
<1>9. BotIsSound'
  BY <1>0, <1>1, <1>2, <1>5 DEF BotIsSound, BotStep
<1>. QED  BY <1>8, <1>9 DEF AutomationInv

(***************************************************************************)
(* Steps of the creations.                                                 *)
(***************************************************************************)

\* What a step of a creation leaves alone.
CreationStepFrame ==
    UNCHANGED <<adapter, bot, botCreation, storedBot, acknowledged, botCut>>

\* A request that only the creation of a group moves.
MovesWithCreation(i) ==
    /\ req[i].step \in {"ready", "awaitGroup"} \union GroupStep
    /\ req'[i].step \in {"awaitGroup", "done"} \union GroupStep
    /\ req'[i].result = "refused" => req[i].result = "refused"

\* No group leaves memory, and the bot is as it was.
LEMMA CreationStepKeepsRest ==
    ASSUME AutomationInv, CreationStepFrame,
           \A g \in Group : groups[g] # None => groups'[g] = groups[g],
           \A i \in Request : req'[i] = req[i] \/ MovesWithCreation(i)
    PROVE  BotIsSound' /\ AcknowledgedIsKnown'
<1> USE DEF CreationStepFrame
<1>1. BotIsSound'
  <2>1. ASSUME NEW i \in Request, MovesWithCreation(i) PROVE OffBot(i)
    BY <2>1 DEF MovesWithCreation, OffBot, AutomationInv, BotIsSound, BotStep, GroupStep
  <2>. QED  BY <2>1, BotUntouched DEF AutomationInv
<1>2. AcknowledgedIsKnown'
  <2> SUFFICES ASSUME NEW t \in acknowledged PROVE GroupsOf(t)' # {}
    BY DEF AcknowledgedIsKnown
  <2>1. PICK g \in Group : groups[g] = t
    BY DEF AutomationInv, AcknowledgedIsKnown, GroupsOf
  <2>2. t # None
    BY AutomationConstants DEF AutomationInv, AutomationTypeOK
  <2>3. groups'[g] = t
    BY <2>1, <2>2
  <2>. QED  BY <2>3 DEF GroupsOf
<1>. QED  BY <1>1, <1>2

\* A creation that ends leaves the bot and the groups alone.
LEMMA EndedCreationKeepsInv ==
    ASSUME AutomationInv, CreationStepFrame,
           UNCHANGED <<groups, rooms, storedGroups, storedRooms, storedMessages>>,
           NEW h \in Request, NEW own \in Result \ {"refused"},
           NEW others \in Result \ {"refused"},
           req[h].step \in GroupStep, EndCreation(h, own, others),
           cutShort \subseteq cutShort', cutShort' \subseteq Ticket,
           {own, others} \intersect {"created", "reused"} # {} => GroupsOf(req[h].ticket) # {},
           "conflict" \in {own, others} => req[h].ticket \in cutShort',
           req[h].step \in Stored => req[h].ticket \in cutShort',
           req[h].step \in Writes => \/ req[h].ticket \in cutShort'
                                     \/ req[h].group \in storedMessages
    PROVE  AutomationInv'
<1>0. AutomationTypeOK /\ CreationsAreSound
  BY DEF AutomationInv
<1>1. /\ req' \in [Request -> RequestRecord]
      /\ Ended(h, own)
      /\ \A i \in Request \ {h} :
            IF req[i].step = "awaitGroup" /\ req[i].ticket = req[h].ticket
            THEN Ended(i, others) ELSE req'[i] = req[i]
  BY <1>0, CreationEnds
<1>2. CreationsAreSound'
  BY <1>0, EndedCreationIsSound
<1>3. ASSUME NEW i \in Request PROVE req'[i] = req[i] \/ MovesWithCreation(i)
  BY <1>1 DEF MovesWithCreation, Ended
<1>4. BotIsSound' /\ AcknowledgedIsKnown'
  BY <1>3, CreationStepKeepsRest
<1>5. pending' \in [Ticket -> Request \union {None}]
  BY <1>0 DEF AutomationTypeOK, EndCreation
<1>6. AutomationTypeOK'
  BY <1>0, <1>1, <1>5 DEF AutomationTypeOK, RequestRecord, CreationStepFrame
<1>. QED  BY <1>2, <1>4, <1>6 DEF AutomationInv

LEMMA FinishMessageKeepsInv ==
    ASSUME AutomationInv, NEW h \in Request, FinishMessage(h)
    PROVE  AutomationInv'
<1>1. /\ req[h].step = "messageStored" /\ EndCreation(h, "created", "reused")
      /\ CreationStepFrame
      /\ UNCHANGED <<groups, rooms, storedGroups, storedRooms, storedMessages, cutShort>>
  BY DEF FinishMessage, CreationStepFrame, tables, history
<1>2. CreationIsSound(h)
  BY DEF AutomationInv, CreationsAreSound
<1>3. req[h].group \in storedMessages /\ GroupsOf(req[h].ticket) # {}
  BY <1>1, <1>2 DEF CreationIsSound, GroupStep, Writes, GroupsOf
<1>4. req[h].step \in GroupStep /\ req[h].step \notin Stored
  BY <1>1 DEF GroupStep, Stored
<1>5. cutShort' \subseteq Ticket
  BY <1>1 DEF AutomationInv, AutomationTypeOK
<1>. QED  BY <1>1, <1>3, <1>4, <1>5, EndedCreationKeepsInv DEF Result

LEMMA DbFailsKeepsInv ==
    ASSUME AutomationInv, NEW h \in Request, DbFails(h)
    PROVE  AutomationInv'
<1>1. CASE /\ req[h].step \in {"insertBot", "botStored"} /\ FailBot(h, "failed")
           /\ botCut' = TRUE /\ UNCHANGED <<pending, cutShort>>
  BY <1>1, FailedBotKeepsInv DEF DbFails, BotStepFrame, tables
<1>2. CASE /\ req[h].step \in GroupStep /\ EndCreation(h, "failed", "failed")
           /\ cutShort' = cutShort \union {req[h].ticket}
           /\ UNCHANGED <<botCreation, botCut>>
  <2>1. /\ CreationStepFrame
        /\ UNCHANGED <<groups, rooms, storedGroups, storedRooms, storedMessages>>
    BY <1>2 DEF DbFails, CreationStepFrame, tables
  <2>2. cutShort' \subseteq Ticket
    BY <1>2 DEF AutomationInv, AutomationTypeOK, CreationsAreSound, CreationIsSound, GroupStep
  <2>. QED  BY <1>2, <2>1, <2>2, EndedCreationKeepsInv DEF Result
<1>. QED  BY <1>1, <1>2 DEF DbFails

\* A request of which only the step changes, which stays that of a creation.
GoesOn(h, s) ==
    /\ req' \in [Request -> RequestRecord]
    /\ req'[h].step = s /\ req'[h].ticket = req[h].ticket
    /\ req'[h].group = req[h].group /\ req'[h].result = req[h].result
    /\ req'[h].delivery = req[h].delivery
    /\ \A i \in Request : i # h => req'[i] = req[i]

LEMMA ProceedGoesOn ==
    ASSUME AutomationTypeOK, NEW h \in Request, NEW s \in GroupStep, Proceed(h, s)
    PROVE  GoesOn(h, s)
BY ProceedMoves DEF GoesOn, Others, Step

\* Such a step keeps what no table and no Map says.
LEMMA GoingOnKeepsRest ==
    ASSUME AutomationInv, NEW h \in Request, NEW s \in GroupStep, req[h].step \in GroupStep,
           GoesOn(h, s), CreationStepFrame, UNCHANGED <<pending, cutShort>>,
           groups' \in [Group -> Ticket \union {None}],
           storedGroups' \in [Group -> Ticket \union {None}],
           rooms' \subseteq Group, storedRooms' \subseteq Group, storedMessages' \subseteq Group,
           \A g \in Group : groups[g] # None => groups'[g] = groups[g]
    PROVE  /\ AutomationTypeOK' /\ BotIsSound' /\ AcknowledgedIsKnown'
           /\ PendingIsSound' /\ IdsAreDistinct'
<1>0. AutomationTypeOK /\ CreationsAreSound
  BY DEF AutomationInv
<1>1. AutomationTypeOK'
  BY <1>0 DEF AutomationTypeOK, RequestRecord, CreationStepFrame, GoesOn
<1>2. ASSUME NEW i \in Request PROVE req'[i] = req[i] \/ MovesWithCreation(i)
  BY DEF MovesWithCreation, GoesOn
<1>3. BotIsSound' /\ AcknowledgedIsKnown'
  BY <1>2, CreationStepKeepsRest
<1>4. PendingIsSound'
  <2> SUFFICES ASSUME NEW t \in Ticket, pending[t] # None
               PROVE  req'[pending[t]].ticket = t /\ req'[pending[t]].step \in GroupStep
    BY DEF PendingIsSound
  <2>1. pending[t] \in Request
    BY <1>0 DEF AutomationTypeOK
  <2>2. req[pending[t]].ticket = t /\ req[pending[t]].step \in GroupStep
    BY <1>0 DEF CreationsAreSound, PendingIsSound
  <2>. QED  BY <2>1, <2>2 DEF GoesOn
<1>5. IdsAreDistinct'
  <2>1. \A i \in Request : req'[i].group = req[i].group
    BY DEF GoesOn
  <2>. QED  BY <1>0, <2>1 DEF CreationsAreSound, IdsAreDistinct
<1>. QED  BY <1>1, <1>3, <1>4, <1>5

\* Of the requests that create a group for a ticket there is one.
LEMMA OneCreation ==
    ASSUME AutomationTypeOK, CreationsAreSound, NEW h \in Request, req[h].step \in GroupStep
    PROVE  /\ req[h].ticket \in Ticket /\ req[h].group \in Group
           /\ req[h].ticket # None /\ req[h].group # None
           /\ pending[req[h].ticket] = h
           /\ \A i \in Request : i # h => req[i].group # req[h].group
           /\ \A i \in Request : i # h /\ req[i].step \in GroupStep =>
                 req[i].ticket # req[h].ticket
<1>1. \A i \in Request : req[i].step \in GroupStep =>
         /\ req[i].ticket \in Ticket /\ req[i].group \in Group
         /\ pending[req[i].ticket] = i
  BY DEF CreationsAreSound, CreationIsSound, GroupStep
<1>. QED  BY <1>1, AutomationConstants DEF CreationsAreSound, IdsAreDistinct

\* A ticket of which a creation goes on is being written when it was, or when
\* its group has entered memory.
LEMMA WritingGoesOn ==
    ASSUME AutomationTypeOK, CreationsAreSound, NEW h \in Request, NEW s \in GroupStep,
           req[h].step \in GroupStep, GoesOn(h, s), UNCHANGED pending,
           req[h].step \in Writes => s \in Writes, NEW t \in Ticket, Writing(t)
    PROVE  Writing(t)'
<1>1. pending[t] \in Request /\ req[pending[t]].step \in Writes
  BY DEF Writing, Writes, AutomationTypeOK
<1>2. req'[pending[t]].step \in Writes
  BY <1>1 DEF GoesOn
<1>. QED  BY <1>2 DEF Writing, Writes

\* The steps that write no group: begin and insert the management conversation,
\* and insert the first message.
LEMMA QuietCreationStepKeepsInv ==
    ASSUME AutomationInv, NEW h \in Request, NEW s \in GroupStep,
           GoesOn(h, s), CreationStepFrame,
           UNCHANGED <<groups, rooms, pending, storedGroups, cutShort>>,
           \/ /\ req[h].step = "groupStored" /\ s = "insertRoom"
              /\ UNCHANGED <<storedRooms, storedMessages>>
           \/ /\ req[h].step = "insertRoom" /\ s = "roomStored"
              /\ storedRooms' = storedRooms \union {req[h].group}
              /\ UNCHANGED storedMessages
           \/ /\ req[h].step = "insertMessage" /\ s = "messageStored"
              /\ storedMessages' = storedMessages \union {req[h].group}
              /\ UNCHANGED storedRooms
    PROVE  AutomationInv'
<1>0. AutomationTypeOK /\ CreationsAreSound
  BY DEF AutomationInv
<1>1. /\ req[h].step \in GroupStep
      /\ req[h].step \in Writes <=> s \in Writes
      /\ req[h].step \in Stored <=> s \in Stored
  BY DEF GroupStep, Stored, Writes
<1>2. req[h].ticket \in Ticket /\ req[h].group \in Group
  BY <1>0, <1>1, OneCreation
<1>3. storedRooms \subseteq storedRooms' /\ storedMessages \subseteq storedMessages'
  OBVIOUS
<1>4. /\ AutomationTypeOK' /\ BotIsSound' /\ AcknowledgedIsKnown'
      /\ PendingIsSound' /\ IdsAreDistinct'
  <2>1. storedRooms' \subseteq Group /\ storedMessages' \subseteq Group
    BY <1>0, <1>2 DEF AutomationTypeOK
  <2>. QED  BY <1>0, <1>1, <2>1, GoingOnKeepsRest DEF AutomationTypeOK
<1>5. ASSUME NEW i \in Request PROVE CreationIsSound(i)'
  <2>1. CreationIsSound(i)
    BY <1>0 DEF CreationsAreSound
  <2>2. CASE i = h
    <3>1. /\ req'[h].step = s /\ req'[h].ticket = req[h].ticket
          /\ req'[h].group = req[h].group /\ req'[h].result = req[h].result
          /\ req'[h].delivery = req[h].delivery
      BY DEF GoesOn
    <3>. QED  BY <1>1, <1>3, <2>1, <2>2, <3>1
              DEF CreationIsSound, GroupsOf, GroupStep, Stored, Writes
  <2>3. CASE i # h
    <3>1. req'[i] = req[i]
      BY <2>3 DEF GoesOn
    <3>. QED  BY <1>3, <2>1, <3>1 DEF CreationIsSound, GroupsOf
  <2>. QED  BY <2>2, <2>3
<1>6. StoredOnce'
  BY <1>0 DEF CreationsAreSound, StoredOnce
<1>7. StoredIsKnown'
  BY <1>0, <1>1 DEF CreationsAreSound, StoredIsKnown, GoesOn
<1>8. ASSUME NEW g \in Group, groups'[g] # None PROVE IsWhole(g)'
  <2>1. groups[g] \in Ticket
    BY <1>0, <1>8 DEF AutomationTypeOK
  <2>2. IsWhole(g)
    BY <1>0, <1>8 DEF CreationsAreSound
  <2>3. Writing(groups[g]) => Writing(groups[g])'
    BY <1>0, <1>1, <2>1, WritingGoesOn
  <2>. QED  BY <1>3, <2>2, <2>3 DEF IsWhole
<1>. QED  BY <1>4, <1>5, <1>6, <1>7, <1>8 DEF AutomationInv, CreationsAreSound

LEMMA BeginRoomKeepsInv ==
    ASSUME AutomationInv, NEW h \in Request, BeginRoom(h)
    PROVE  AutomationInv'
<1>1. GoesOn(h, "insertRoom")
  BY ProceedGoesOn DEF BeginRoom, AutomationInv, GroupStep
<1>. QED  BY <1>1, QuietCreationStepKeepsInv
          DEF BeginRoom, CreationStepFrame, maps, tables, history, GroupStep

LEMMA InsertRoomKeepsInv ==
    ASSUME AutomationInv, NEW h \in Request, InsertRoom(h)
    PROVE  AutomationInv'
<1>1. GoesOn(h, "roomStored")
  BY ProceedGoesOn DEF InsertRoom, AutomationInv, GroupStep
<1>. QED  BY <1>1, QuietCreationStepKeepsInv
          DEF InsertRoom, CreationStepFrame, maps, history, GroupStep

LEMMA InsertMessageKeepsInv ==
    ASSUME AutomationInv, NEW h \in Request, InsertMessage(h)
    PROVE  AutomationInv'
<1>1. GoesOn(h, "messageStored")
  BY ProceedGoesOn DEF InsertMessage, AutomationInv, GroupStep
<1>. QED  BY <1>1, QuietCreationStepKeepsInv
          DEF InsertMessage, CreationStepFrame, maps, history, GroupStep

LEMMA FinishGroupKeepsInv ==
    ASSUME AutomationInv, NEW h \in Request, FinishGroup(h)
    PROVE  AutomationInv'
<1> DEFINE t == req[h].ticket
           k == req[h].group
<1>0. AutomationTypeOK /\ CreationsAreSound
  BY DEF AutomationInv
<1>1. /\ req[h].step = "roomStored" /\ CreationStepFrame
      /\ UNCHANGED <<pending, storedGroups, storedRooms, storedMessages, cutShort>>
      /\ groups' = [groups EXCEPT ![k] = t] /\ rooms' = rooms \union {k}
  BY DEF FinishGroup, CreationStepFrame, tables, history
<1>2. GoesOn(h, "insertMessage")
  BY <1>0, ProceedGoesOn DEF FinishGroup, GroupStep
<1>3. /\ t \in Ticket /\ k \in Group /\ t # None /\ pending[t] = h
      /\ \A i \in Request : i # h => req[i].group # k
      /\ \A i \in Request : i # h /\ req[i].step \in GroupStep => req[i].ticket # t
  BY <1>0, <1>1, OneCreation DEF GroupStep
<1>4. /\ storedGroups[k] = t /\ k \in storedRooms
      /\ \A g \in Group : groups[g] # t
  BY <1>0, <1>1 DEF CreationsAreSound, CreationIsSound, Stored, GroupsOf, GroupStep
<1>5. groups[k] = None
  <2>1. groups[k] # None => IsWhole(k)
    BY <1>0, <1>3 DEF CreationsAreSound
  <2>. QED  BY <1>3, <1>4, <2>1 DEF IsWhole
<1>6. /\ groups' \in [Group -> Ticket \union {None}]
      /\ groups'[k] = t /\ \A g \in Group : g # k => groups'[g] = groups[g]
  BY <1>0, <1>1, <1>3 DEF AutomationTypeOK
<1>7. /\ req'[h].step = "insertMessage" /\ req'[h].ticket = t
      /\ req'[h].group = k /\ req'[h].result = req[h].result
      /\ req'[h].delivery = req[h].delivery
      /\ \A i \in Request : i # h => req'[i] = req[i]
  BY <1>2 DEF GoesOn
<1> HIDE DEF t, k
<1>8. /\ AutomationTypeOK' /\ BotIsSound' /\ AcknowledgedIsKnown'
      /\ PendingIsSound' /\ IdsAreDistinct'
  <2>1. req[h].step \in GroupStep /\ "insertMessage" \in GroupStep
    BY <1>1 DEF GroupStep
  <2>2. rooms' \subseteq Group
    BY <1>0, <1>1, <1>3 DEF AutomationTypeOK
  <2>3. \A g \in Group : groups[g] # None => groups'[g] = groups[g]
    BY <1>5, <1>6
  <2>. QED  BY <1>0, <1>1, <1>2, <1>6, <2>1, <2>2, <2>3, GoingOnKeepsRest DEF AutomationTypeOK
<1>9. ASSUME NEW i \in Request PROVE CreationIsSound(i)'
  <2>1. CreationIsSound(i)
    BY <1>0 DEF CreationsAreSound
  <2>2. CASE i = h
    <3>1. \E g \in Group : groups'[g] = t
      BY <1>3, <1>6
    <3>2. /\ req[h].ticket = t /\ req[h].group = k
          /\ req[h].delivery \in Delivery
          /\ req[h].result = "conflict" => t \in cutShort
      BY <1>1, <2>1, <2>2 DEF CreationIsSound, t, k
    <3>. QED  BY <1>1, <1>3, <1>4, <1>6, <1>7, <2>2, <3>1, <3>2
              DEF CreationIsSound, GroupsOf, GroupStep, Stored, Writes
  <2>3. CASE i # h
    <3>1. req'[i] = req[i]
      BY <1>7, <2>3
    <3>2. req[i].step \in GroupStep => req[i].ticket # t /\ req[i].group # k
      BY <1>3, <2>3
    <3>3. \A u \in Ticket : (\E g \in Group : groups[g] = u) =>
                               \E g \in Group : groups'[g] = u
      BY <1>5, <1>6, AutomationConstants
    <3>4. req[i].step \in GroupStep /\ GroupsOf(req[i].ticket) = {} =>
             \A g \in Group : groups'[g] # req[i].ticket
      BY <1>6, <3>2 DEF GroupsOf
    <3>5. req[i].step \in GroupStep => \A g \in Group :
             g = req[i].group => groups'[g] = groups[g]
      BY <1>6, <3>2
    <3>6. \A r \in {"created", "reused"} : req[i].result = r =>
             \E g \in Group : groups'[g] = req[i].ticket
      BY <2>1, <3>3 DEF CreationIsSound, GroupsOf
    <3>. QED  BY <1>1, <2>1, <3>1, <3>4, <3>5, <3>6
              DEF CreationIsSound, GroupsOf, GroupStep, Stored, Writes
  <2>. QED  BY <2>2, <2>3
<1>10. StoredOnce'
  BY <1>0, <1>1 DEF CreationsAreSound, StoredOnce
<1>11. StoredIsKnown'
  <2> SUFFICES ASSUME NEW g \in Group, storedGroups[g] # None
               PROVE  \/ groups'[g] = storedGroups[g]
                      \/ storedGroups[g] \in cutShort
                      \/ \E i \in Request : /\ req'[i].step \in Stored
                                            /\ req'[i].group = g
                                            /\ req'[i].ticket = storedGroups[g]
    BY <1>1 DEF StoredIsKnown
  <2>1. CASE g = k
    BY <1>4, <1>6, <2>1
  <2>2. CASE g # k
    <3>1. \/ groups[g] = storedGroups[g]
          \/ storedGroups[g] \in cutShort
          \/ \E i \in Request : /\ req[i].step \in Stored
                                /\ req[i].group = g /\ req[i].ticket = storedGroups[g]
      BY <1>0 DEF CreationsAreSound, StoredIsKnown
    <3>2. req[h].group = k
      BY DEF k
    <3>. QED  BY <1>6, <1>7, <2>2, <3>1, <3>2
  <2>. QED  BY <2>1, <2>2
<1>12. ASSUME NEW g \in Group, groups'[g] # None PROVE IsWhole(g)'
  <2>1. CASE g = k
    <3>1. req'[pending'[t]].step = "insertMessage" /\ pending'[t] # None
      BY <1>1, <1>3, <1>7, AutomationConstants
    <3>2. pending'[groups'[g]] # None /\ req'[pending'[groups'[g]]].step = "insertMessage"
      BY <1>6, <2>1, <3>1
    <3>3. Writing(groups[g])'
      BY <3>2 DEF Writing
    <3>. QED  BY <1>1, <1>4, <1>6, <2>1, <3>3 DEF IsWhole
  <2>2. CASE g # k
    <3>1. groups'[g] = groups[g] /\ groups[g] \in Ticket
      BY <1>0, <1>6, <1>12, <2>2 DEF AutomationTypeOK
    <3>2. IsWhole(g)
      BY <1>0, <1>12, <3>1 DEF CreationsAreSound
    <3>3. \A u \in Ticket : Writing(u) => Writing(u)'
      BY <1>0, <1>1, <1>2, WritingGoesOn DEF GroupStep, Writes
    <3>4. Writing(groups[g]) => Writing(groups[g])'
      <4>1. Writing(groups[g]) => /\ pending'[groups[g]] # None
                                  /\ req'[pending'[groups[g]]].step
                                        \in {"insertMessage", "messageStored"}
        BY <3>1, <3>3 DEF Writing
      <4>. QED  BY <3>1, <4>1 DEF Writing
    <3>. QED  BY <1>1, <3>1, <3>2, <3>4 DEF IsWhole
  <2>. QED  BY <2>1, <2>2
<1>. QED  BY <1>8, <1>9, <1>10, <1>11, <1>12 DEF AutomationInv, CreationsAreSound

LEMMA InsertGroupKeepsInv ==
    ASSUME AutomationInv, NEW h \in Request, InsertGroup(h)
    PROVE  AutomationInv'
<1> DEFINE t == req[h].ticket
           k == req[h].group
<1>0. AutomationTypeOK /\ CreationsAreSound
  BY DEF AutomationInv
<1>1. /\ req[h].step = "insertGroup" /\ CreationStepFrame
      /\ UNCHANGED <<groups, rooms, storedRooms, storedMessages, cutShort>>
  BY DEF InsertGroup, CreationStepFrame, history
<1>2. /\ t \in Ticket /\ k \in Group /\ t # None /\ pending[t] = h
      /\ \A i \in Request : i # h => req[i].group # k
      /\ \A i \in Request : i # h /\ req[i].step \in GroupStep => req[i].ticket # t
  BY <1>0, <1>1, OneCreation DEF GroupStep
<1>3. storedGroups[k] = None /\ \A g \in Group : groups[g] # t
  BY <1>0, <1>1 DEF CreationsAreSound, CreationIsSound, GroupsOf
<1>4. CASE \E g \in Group : storedGroups[g] = t
  <2>1. EndCreation(h, "conflict", "conflict") /\ UNCHANGED storedGroups
    BY <1>4 DEF InsertGroup
  <2>2. t \in cutShort
    <3>1. PICK g \in Group : storedGroups[g] = t
      BY <1>4
    <3>2. \/ groups[g] = t
          \/ t \in cutShort
          \/ \E i \in Request : req[i].step \in Stored /\ req[i].ticket = t
      BY <1>0, <1>2, <3>1 DEF CreationsAreSound, StoredIsKnown
    <3>. QED  BY <1>1, <1>2, <1>3, <3>2 DEF Stored, GroupStep
  <2>3. req[h].step \in GroupStep /\ cutShort' \subseteq Ticket
    BY <1>0, <1>1 DEF GroupStep, AutomationTypeOK
  <2>. QED  BY <1>1, <2>1, <2>2, <2>3, EndedCreationKeepsInv DEF Result, Stored, Writes
<1>5. CASE ~ \E g \in Group : storedGroups[g] = t
  <2>1. /\ storedGroups' = [storedGroups EXCEPT ![k] = t]
        /\ Proceed(h, "groupStored") /\ UNCHANGED pending
    BY <1>5 DEF InsertGroup
  <2>2. GoesOn(h, "groupStored")
    BY <1>0, <2>1, ProceedGoesOn DEF GroupStep
  <2>3. /\ storedGroups' \in [Group -> Ticket \union {None}]
        /\ storedGroups'[k] = t
        /\ \A g \in Group : g # k => storedGroups'[g] = storedGroups[g]
    BY <1>0, <1>2, <2>1 DEF AutomationTypeOK
  <2>4. /\ req'[h].step = "groupStored" /\ req'[h].ticket = t
        /\ req'[h].group = k /\ req'[h].result = req[h].result
        /\ req'[h].delivery = req[h].delivery
        /\ \A i \in Request : i # h => req'[i] = req[i]
    BY <2>2 DEF GoesOn
  <2>5. /\ CreationIsSound(h) /\ req[h].ticket = t /\ req[h].group = k
        /\ \A g \in Group : storedGroups[g] # t
    BY <1>0, <1>5 DEF CreationsAreSound
  <2> HIDE DEF t, k
  <2>6. /\ AutomationTypeOK' /\ BotIsSound' /\ AcknowledgedIsKnown'
        /\ PendingIsSound' /\ IdsAreDistinct'
    <3>1. req[h].step \in GroupStep /\ "groupStored" \in GroupStep
      BY <1>1 DEF GroupStep
    <3>. QED  BY <1>0, <1>1, <2>1, <2>2, <2>3, <3>1, GoingOnKeepsRest DEF AutomationTypeOK
  <2>7. ASSUME NEW i \in Request PROVE CreationIsSound(i)'
    <3>1. CreationIsSound(i)
      BY <1>0 DEF CreationsAreSound
    <3>2. CASE i = h
      BY <1>1, <1>2, <1>3, <2>1, <2>3, <2>4, <2>5, <3>2
         DEF CreationIsSound, GroupsOf, GroupStep, Stored, Writes
    <3>3. CASE i # h
      <4>1. req'[i] = req[i]
        BY <2>4, <3>3
      <4>2. req[i].step \in GroupStep =>
               req[i].group \in Group /\ storedGroups'[req[i].group] = storedGroups[req[i].group]
        BY <1>2, <2>3, <3>1, <3>3 DEF CreationIsSound
      <4>. QED  BY <1>1, <2>1, <3>1, <4>1, <4>2
                DEF CreationIsSound, GroupsOf, GroupStep, Stored, Writes
    <3>. QED  BY <3>2, <3>3
  <2>8. StoredOnce'
    BY <1>0, <1>3, <2>3, <2>5 DEF CreationsAreSound, StoredOnce
  <2>9. StoredIsKnown'
    <3> SUFFICES ASSUME NEW g \in Group, storedGroups'[g] # None
                 PROVE  \/ groups[g] = storedGroups'[g]
                        \/ storedGroups'[g] \in cutShort
                        \/ \E i \in Request : /\ req'[i].step \in Stored
                                              /\ req'[i].group = g
                                              /\ req'[i].ticket = storedGroups'[g]
      BY <1>1 DEF StoredIsKnown
    <3>1. CASE g = k
      BY <2>3, <2>4, <3>1 DEF Stored
    <3>2. CASE g # k
      <4>1. \/ groups[g] = storedGroups[g]
            \/ storedGroups[g] \in cutShort
            \/ \E i \in Request : /\ req[i].step \in Stored
                                  /\ req[i].group = g /\ req[i].ticket = storedGroups[g]
        BY <1>0, <2>3, <3>2 DEF CreationsAreSound, StoredIsKnown
      <4>. QED  BY <1>1, <2>3, <2>4, <2>5, <3>2, <4>1
    <3>. QED  BY <3>1, <3>2
  <2>10. ASSUME NEW g \in Group, groups'[g] # None PROVE IsWhole(g)'
    <3>1. groups'[g] = groups[g] /\ groups[g] \in Ticket
      BY <1>0, <1>1, <2>10 DEF AutomationTypeOK
    <3>2. IsWhole(g)
      BY <1>0, <2>10, <3>1 DEF CreationsAreSound
    <3>3. g # k
      BY <1>3, <2>10, <3>1, <3>2 DEF IsWhole
    <3>4. Writing(groups[g]) => Writing(groups[g])'
      BY <1>0, <1>1, <2>1, <2>2, <3>1, WritingGoesOn DEF GroupStep, Writes
    <3>. QED  BY <1>1, <2>3, <3>2, <3>3, <3>4 DEF IsWhole
  <2>. QED  BY <2>6, <2>7, <2>8, <2>9, <2>10 DEF AutomationInv, CreationsAreSound
<1>. QED  BY <1>4, <1>5

\* A request finds its group in memory, or a creation under way.
LEMMA FoundGroupKeepsInv ==
    ASSUME AutomationInv, NEW h \in Request, req[h].step = "ready",
           CreationStepFrame,
           UNCHANGED <<groups, rooms, pending, storedGroups, storedRooms, storedMessages,
                       cutShort>>,
           \/ /\ GroupsOf(req[h].ticket) # {}
              /\ req' = [req EXCEPT ![h].step = "done", ![h].result = "reused"]
           \/ pending[req[h].ticket] # None /\ Proceed(h, "awaitGroup")
    PROVE  AutomationInv'
<1>0. AutomationTypeOK /\ CreationsAreSound
  BY DEF AutomationInv
<1>1. req[h].ticket \in Ticket /\ req[h].delivery \in Delivery /\ CreationIsSound(h)
  BY <1>0 DEF CreationsAreSound, CreationIsSound
<1>2. /\ req' \in [Request -> RequestRecord]
      /\ req'[h].ticket = req[h].ticket /\ req'[h].group = req[h].group
      /\ req'[h].delivery = req[h].delivery
      /\ Others(h)
      /\ \/ /\ req'[h].step = "done" /\ req'[h].result = "reused"
            /\ GroupsOf(req[h].ticket) # {}
         \/ /\ req'[h].step = "awaitGroup" /\ req'[h].result = req[h].result
            /\ pending[req[h].ticket] # None
  <2>1. CASE /\ GroupsOf(req[h].ticket) # {}
             /\ req' = [req EXCEPT ![h].step = "done", ![h].result = "reused"]
    <3>1. /\ Final(h, "reused") \in RequestRecord
          /\ Final(h, "reused").step = "done" /\ Final(h, "reused").result = "reused"
          /\ Final(h, "reused").ticket = req[h].ticket
          /\ Final(h, "reused").group = req[h].group
          /\ Final(h, "reused").delivery = req[h].delivery
      BY <1>0, FinalIsARecord DEF Result
    <3>2. req' = [req EXCEPT ![h] = Final(h, "reused")]
      BY <1>0, <2>1, RequestsAreRecords DEF Final
    <3>. QED  BY <1>0, <2>1, <3>1, <3>2, RequestBecomes
  <2>2. CASE pending[req[h].ticket] # None /\ Proceed(h, "awaitGroup")
    BY <1>0, <2>2, ProceedMoves DEF Step
  <2>. QED  BY <2>1, <2>2
<1>3. OffCreation(h)
  BY <1>1, <1>2 DEF OffCreation, CreationIsSound, GroupStep
<1>4. CreationsAreSound'
  BY <1>0, <1>2, <1>3, CreationsUntouched DEF Others
<1>5. MovesWithCreation(h)
  BY <1>2 DEF MovesWithCreation
<1>6. BotIsSound' /\ AcknowledgedIsKnown'
  BY <1>2, <1>5, CreationStepKeepsRest DEF Others
<1>7. AutomationTypeOK'
  BY <1>0, <1>2 DEF AutomationTypeOK, RequestRecord, CreationStepFrame
<1>. QED  BY <1>4, <1>6, <1>7 DEF AutomationInv

\* A request begins the creation of the group.
Begins(h, k) ==
    /\ req[h].step = "ready"
    /\ UNCHANGED <<groups, rooms, tables, cutShort>>
    /\ GroupsOf(req[h].ticket) = {}
    /\ pending[req[h].ticket] = None
    /\ NewGroup(k)
    /\ req' = [req EXCEPT ![h].step = "insertGroup", ![h].group = k]
    /\ pending' = [pending EXCEPT ![req[h].ticket] = h]

LEMMA BegunGroupKeepsInv ==
    ASSUME AutomationInv, NEW h \in Request, NEW k \in Group, Begins(h, k), CreationStepFrame
    PROVE  AutomationInv'
<1> DEFINE t == req[h].ticket
           r == [req[h] EXCEPT !.step = "insertGroup", !.group = k]
<1>0. AutomationTypeOK /\ CreationsAreSound
  BY DEF AutomationInv
<1>1. t \in Ticket /\ req[h].delivery \in Delivery /\ CreationIsSound(h)
  BY <1>0 DEF CreationsAreSound, CreationIsSound, Begins
<1>2. /\ r \in RequestRecord /\ r.step = "insertGroup" /\ r.group = k /\ r.ticket = t
      /\ r.delivery = req[h].delivery /\ r.result = req[h].result
  <2>1. req[h] \in RequestRecord
    BY <1>0, RequestsAreRecords
  <2>. QED  BY <2>1 DEF RequestRecord, Step, GroupStep
<1>3. req' \in [Request -> RequestRecord] /\ req'[h] = r /\ Others(h)
  <2>1. req' = [req EXCEPT ![h] = r]
    BY <1>0, RequestsAreRecords DEF Begins
  <2> HIDE DEF r
  <2>. QED  BY <1>0, <1>2, <2>1, RequestBecomes
<1>4. /\ req'[h].step = "insertGroup" /\ req'[h].group = k /\ req'[h].ticket = t
      /\ req'[h].delivery = req[h].delivery /\ req'[h].result = req[h].result
      /\ \A i \in Request : i # h => req'[i] = req[i]
  BY <1>2, <1>3 DEF Others
<1>5. /\ pending' \in [Ticket -> Request \union {None}]
      /\ pending'[t] = h /\ h # None /\ k # None
      /\ \A u \in Ticket : u # t => pending'[u] = pending[u]
  BY <1>0, <1>1, AutomationConstants DEF AutomationTypeOK, Begins
<1>6. /\ storedGroups[k] = None
      /\ \A i \in Request : req[i].group # k
      /\ \A g \in Group : groups[g] # t
  BY DEF NewGroup, GroupsOf, Begins
<1>7. /\ req[h].step \notin GroupStep /\ pending[t] = None /\ req[h].ticket = t
      /\ req[h].step \notin Stored
  BY DEF GroupStep, Stored, Begins
<1>8. \A i \in Request : i # h /\ req[i].step \in GroupStep \union {"awaitGroup"} =>
         req[i].ticket \in Ticket /\ req[i].ticket # t
  BY <1>0, <1>7, AutomationConstants DEF CreationsAreSound, CreationIsSound, GroupStep
<1>9. UNCHANGED <<groups, rooms, cutShort, storedGroups, storedRooms, storedMessages>>
  BY DEF tables, Begins
<1> HIDE DEF t, r
<1>10. AutomationTypeOK'
  BY <1>0, <1>3, <1>5, <1>9 DEF AutomationTypeOK, RequestRecord, CreationStepFrame
<1>11. BotIsSound' /\ AcknowledgedIsKnown'
  <2>1. MovesWithCreation(h)
    BY <1>4 DEF MovesWithCreation, GroupStep, Begins
  <2>. QED  BY <1>4, <1>9, <2>1, CreationStepKeepsRest
<1>12. ASSUME NEW i \in Request PROVE CreationIsSound(i)'
  <2>1. CreationIsSound(i)
    BY <1>0 DEF CreationsAreSound
  <2>2. CASE i = h
    BY <1>1, <1>4, <1>5, <1>6, <1>7, <1>9, <2>2
       DEF CreationIsSound, GroupsOf, GroupStep, Stored, Writes
  <2>3. CASE i # h
    <3>1. req'[i] = req[i]
      BY <1>4, <2>3
    <3>2. req[i].step \in GroupStep \union {"awaitGroup"} =>
             pending'[req[i].ticket] = pending[req[i].ticket]
      BY <1>5, <1>8, <2>3
    <3>. QED  BY <1>9, <2>1, <3>1, <3>2 DEF CreationIsSound, GroupsOf
  <2>. QED  BY <2>2, <2>3
<1>13. PendingIsSound'
  <2> SUFFICES ASSUME NEW u \in Ticket, pending'[u] # None
               PROVE  req'[pending'[u]].ticket = u /\ req'[pending'[u]].step \in GroupStep
    BY DEF PendingIsSound
  <2>1. CASE u = t
    BY <1>4, <1>5, <2>1 DEF GroupStep
  <2>2. CASE u # t
    <3>1. pending'[u] = pending[u] /\ pending[u] \in Request
      BY <1>0, <1>5, <2>2 DEF AutomationTypeOK
    <3>2. req[pending[u]].ticket = u /\ req[pending[u]].step \in GroupStep
      BY <1>0, <3>1 DEF CreationsAreSound, PendingIsSound
    <3>. QED  BY <1>4, <1>7, <3>1, <3>2
  <2>. QED  BY <2>1, <2>2
<1>14. IdsAreDistinct'
  BY <1>0, <1>4, <1>6 DEF CreationsAreSound, IdsAreDistinct
<1>15. StoredOnce'
  BY <1>0, <1>9 DEF CreationsAreSound, StoredOnce
<1>16. StoredIsKnown'
  BY <1>0, <1>4, <1>7, <1>9 DEF CreationsAreSound, StoredIsKnown
<1>17. ASSUME NEW g \in Group, groups'[g] # None PROVE IsWhole(g)'
  <2>1. groups[g] \in Ticket /\ groups[g] # t
    BY <1>0, <1>6, <1>9, <1>17 DEF AutomationTypeOK
  <2>2. IsWhole(g)
    BY <1>0, <1>9, <1>17 DEF CreationsAreSound
  <2>3. pending'[groups[g]] = pending[groups[g]]
    BY <1>5, <2>1
  <2>4. pending[groups[g]] # None =>
           pending[groups[g]] \in Request /\ req[pending[groups[g]]].step \in GroupStep
    BY <1>0, <2>1 DEF CreationsAreSound, PendingIsSound, AutomationTypeOK
  <2>5. Writing(groups[g])' <=> Writing(groups[g])
    BY <1>4, <1>7, <1>9, <2>3, <2>4 DEF Writing
  <2>. QED  BY <1>9, <2>2, <2>5 DEF IsWhole
<1>. QED  BY <1>10, <1>11, <1>12, <1>13, <1>14, <1>15, <1>16, <1>17
          DEF AutomationInv, CreationsAreSound

LEMMA CreateGroupKeepsInv ==
    ASSUME AutomationInv, NEW h \in Request, CreateGroup(h)
    PROVE  AutomationInv'
<1>1. /\ req[h].step = "ready" /\ CreationStepFrame
      /\ UNCHANGED <<groups, rooms, tables, cutShort>>
  BY DEF CreateGroup, CreationStepFrame, tables, history
<1>2. CASE /\ GroupsOf(req[h].ticket) # {}
           /\ req' = [req EXCEPT ![h].step = "done", ![h].result = "reused"]
           /\ UNCHANGED pending
  BY <1>1, <1>2, FoundGroupKeepsInv DEF tables
<1>3. CASE /\ pending[req[h].ticket] # None /\ Proceed(h, "awaitGroup")
           /\ UNCHANGED pending
  BY <1>1, <1>3, FoundGroupKeepsInv DEF tables
<1>4. CASE /\ GroupsOf(req[h].ticket) = {}
           /\ pending[req[h].ticket] = None
           /\ \E g \in Group :
                 /\ NewGroup(g)
                 /\ req' = [req EXCEPT ![h].step = "insertGroup", ![h].group = g]
           /\ pending' = [pending EXCEPT ![req[h].ticket] = h]
  BY <1>1, <1>4, BegunGroupKeepsInv DEF Begins
<1>. QED  BY <1>2, <1>3, <1>4 DEF CreateGroup

LEMMA AutomationRestartKeepsInv ==
    ASSUME AutomationInv, Restart
    PROVE  AutomationInv'
<1>0. AutomationTypeOK /\ CreationsAreSound
  BY DEF AutomationInv
<1>1. /\ bot' = storedBot /\ groups' = storedGroups /\ rooms' = storedRooms
      /\ botCreation' = None /\ botCut' = FALSE
      /\ pending' = [t \in Ticket |-> None]
      /\ cutShort' = cutShort \union {t \in Ticket : pending[t] # None}
      /\ UNCHANGED <<storedBot, storedGroups, storedRooms, storedMessages, acknowledged>>
  BY DEF Restart, tables
<1>2. req' \in [Request -> RequestRecord] /\ \A i \in Request : req'[i] = Idle
  BY IdleIsARecord DEF Restart
<1>3. AutomationTypeOK'
  <2>1. adapter' \in [Delivery -> AdapterRecord]
    BY <1>0, AdapterIsRecords, AdapterGoesOn DEF Restart
  <2>. QED  BY <1>0, <1>1, <1>2, <2>1 DEF AutomationTypeOK, AdapterRecord, RequestRecord
<1>4. BotIsSound'
  BY <1>1, <1>2, IdleIsARecord, NoneIsNoResult DEF BotIsSound, BotStep, Result
<1>5. ASSUME NEW i \in Request PROVE CreationIsSound(i)'
  BY <1>2, IdleIsARecord, NoneIsNoResult DEF CreationIsSound, GroupStep, Stored, Writes, Result
<1>6. PendingIsSound' /\ IdsAreDistinct'
  BY <1>1, <1>2, IdleIsARecord DEF PendingIsSound, IdsAreDistinct
<1>7. StoredOnce' /\ StoredIsKnown'
  BY <1>0, <1>1 DEF CreationsAreSound, StoredOnce, StoredIsKnown
<1>8. ASSUME NEW g \in Group, groups'[g] # None, groups'[g] \notin cutShort'
      PROVE  g \in storedRooms /\ g \in storedMessages
  <2> DEFINE t == storedGroups[g]
  <2>1. t \in Ticket /\ t \notin cutShort /\ pending[t] = None
    BY <1>0, <1>1, <1>8 DEF AutomationTypeOK
  <2>2. ~ \E h \in Request : req[h].step \in Stored /\ req[h].ticket = t
    BY <1>0, <2>1, AutomationConstants
       DEF CreationsAreSound, CreationIsSound, Stored, GroupStep
  <2>3. groups[g] = t
    BY <1>0, <1>1, <1>8, <2>1, <2>2 DEF CreationsAreSound, StoredIsKnown
  <2>4. IsWhole(g)
    BY <1>0, <1>1, <1>8, <2>3 DEF CreationsAreSound
  <2>. QED  BY <2>1, <2>3, <2>4 DEF IsWhole, Writing
<1>9. ASSUME NEW g \in Group, groups'[g] # None PROVE IsWhole(g)'
  BY <1>1, <1>8, <1>9 DEF IsWhole
<1>10. AcknowledgedIsKnown'
  <2> SUFFICES ASSUME NEW t \in acknowledged
               PROVE  \E g \in Group : storedGroups[g] = t
    BY <1>1 DEF AcknowledgedIsKnown, GroupsOf
  <2>1. PICK g \in Group : groups[g] = t
    BY DEF AutomationInv, AcknowledgedIsKnown, GroupsOf
  <2>2. t # None
    BY <1>0, AutomationConstants DEF AutomationTypeOK
  <2>3. IsWhole(g)
    BY <1>0, <2>1, <2>2 DEF CreationsAreSound
  <2>. QED  BY <2>1, <2>3 DEF IsWhole
<1>. QED  BY <1>3, <1>4, <1>5, <1>6, <1>7, <1>9, <1>10 DEF AutomationInv, CreationsAreSound

LEMMA AutomationInvariance == AutomationSpec => []AutomationInv
<1>1. AutomationInit => AutomationInv
  BY AutomationInitSound
<1>2. AutomationInv /\ [AutomationNext]_automationVars => AutomationInv'
  <2> SUFFICES ASSUME AutomationInv, [AutomationNext]_automationVars
               PROVE  AutomationInv'
    OBVIOUS
  <2>1. CASE UNCHANGED automationVars
    BY <2>1, AdapterStepKeepsInv, AdapterIsRecords DEF automationVars, AutomationInv
  <2>2. ASSUME NEW d \in Delivery, NEW t \in Ticket, Deliver(d, t) PROVE AutomationInv'
    BY <2>2, DeliverKeepsInv
  <2>3. ASSUME NEW d \in Delivery, NEW h \in Request, Attempt(d, h) PROVE AutomationInv'
    BY <2>3, AttemptKeepsInv
  <2>4. ASSUME NEW d \in Delivery, TimeOut(d) PROVE AutomationInv'
    BY <2>4, TimeOutKeepsInv
  <2>5. ASSUME NEW h \in Request,
               BotHashed(h) \/ InsertBot(h) \/ FinishBot(h) \/ Respond(h) \/ DbFails(h)
        PROVE  AutomationInv'
    BY <2>5, BotHashedKeepsInv, InsertBotKeepsInv, FinishBotKeepsInv, RespondKeepsInv,
       DbFailsKeepsInv
  <2>6. ASSUME NEW h \in Request,
               CreateGroup(h) \/ InsertGroup(h) \/ BeginRoom(h) \/ InsertRoom(h)
                  \/ FinishGroup(h) \/ InsertMessage(h) \/ FinishMessage(h)
        PROVE  AutomationInv'
    BY <2>6, CreateGroupKeepsInv, InsertGroupKeepsInv, BeginRoomKeepsInv, InsertRoomKeepsInv,
       FinishGroupKeepsInv, InsertMessageKeepsInv, FinishMessageKeepsInv
  <2>7. CASE Restart
    BY <2>7, AutomationRestartKeepsInv
  <2>. QED  BY <2>1, <2>2, <2>3, <2>4, <2>5, <2>6, <2>7 DEF AutomationNext
<1>. QED  BY <1>1, <1>2, PTL DEF AutomationSpec

\* Every state of the adapter, the bot and the groups of tickets is well typed.
THEOREM AutomationTypeCorrect == AutomationSpec => []AutomationTypeOK
<1>1. AutomationInv => AutomationTypeOK
  BY DEF AutomationInv
<1>. QED  BY <1>1, AutomationInvariance, PTL

\* For every number of tickets, webhook calls and requests: a ticket answered
\* with a 201 has its group in memory and in the table, with its management
\* conversation and first message unless a creation of it was cut short, over
\* any number of attempts given up, lost answers and restarts.
THEOREM AutomationAcknowledgedIsWhole == AutomationSpec => []AcknowledgedIsWhole
<1>1. AutomationInv => AcknowledgedIsWhole
  BY AutomationInvImpliesProperties
<1>. QED  BY <1>1, AutomationInvariance, PTL

\* For every number of tickets, webhook calls and requests: what others await
\* (externalGroupCreations, automationBotCreation) is under way, and the unique
\* index refuses an attempt only after an answer was lost.
THEOREM AutomationCreationsAreShared == AutomationSpec => []CreationsAreShared
<1>1. AutomationInv => CreationsAreShared
  BY AutomationInvImpliesProperties
<1>. QED  BY <1>1, AutomationInvariance, PTL

=============================================================================
