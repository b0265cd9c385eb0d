--------------------------- MODULE PartsProofs -----------------------------
(***************************************************************************)
(* Proofs about the six parts that MCParts explores: reading, the support  *)
(* page, the composer, the chat view, bookmarks and preferences.  Each is  *)
(* about a part by itself, for every value of its constants; where a       *)
(* property of MCParts says no more, it follows for the composition.       *)
(***************************************************************************)
EXTENDS MCParts, FiniteSetTheorems, TLAPS

-----------------------------------------------------------------------------
(***************************************************************************)
(* What one participant reads.                                             *)
(***************************************************************************)

\* A position is never ahead of the clock, and at the clock only when
\* markAsRead put it there in this millisecond.
PositionsAreSound ==
    /\ clock \in Nat /\ markedAt \in Nat
    /\ \A position \in {lastReadAt, lastReadRow} :
          /\ position \in Int /\ position <= clock
          /\ position = clock => markedAt = clock

EntriesAreSound ==
    /\ step \in [Entry -> {"unsent", "sent", "stored", "listed", "lost", "failed"}]
    /\ createdAt \in [Entry -> Nat]
    /\ \A e \in Entry : createdAt[e] <= clock
    /\ listed \in Seq(Entry)
    /\ ToSet(listed) \subseteq {e \in Entry : step[e] = "listed"}

\* Already before it is listed, a message that a position has passed is met;
\* the position of the table may return with a restart.
PassedAreMet ==
    \A e \in Stored \union BeingSent :
       createdAt[e] <= lastReadAt \/ createdAt[e] <= lastReadRow => e \in met

ReadInv == PositionsAreSound /\ EntriesAreSound /\ PassedAreMet

LEMMA InitReadInv == ReadingInit => ReadInv
  BY ReadingConstants
     DEF ReadingInit, ReadInv, PositionsAreSound, EntriesAreSound, PassedAreMet,
         Stored, BeingSent, ToSet

\* What a list holds after a message is appended to it.
LEMMA AppendToSet ==
  ASSUME NEW s \in Seq(Entry), NEW e \in Entry
  PROVE  Append(s, e) \in Seq(Entry) /\ ToSet(Append(s, e)) \subseteq ToSet(s) \union {e}
<1> DEFINE t == Append(s, e)
<1>1. /\ t \in Seq(Entry)
      /\ DOMAIN t = 1..Len(s) + 1 /\ DOMAIN s = 1..Len(s) /\ Len(s) \in Nat
      /\ \A i \in 1..Len(s) : t[i] = s[i]
      /\ t[Len(s) + 1] = e
  OBVIOUS
<1>2. \A i \in DOMAIN t : t[i] = e \/ \E j \in DOMAIN s : t[i] = s[j]
  <2> SUFFICES ASSUME NEW i \in DOMAIN t, i # Len(s) + 1
               PROVE  i \in DOMAIN s /\ t[i] = s[i]
    BY <1>1
  <2> QED
    BY <1>1
<1> QED
  BY <1>1, <1>2 DEF ToSet

\* What a restart lists.
LEMMA InOrderIsSequence ==
  ASSUME NEW S \in SUBSET Entry, NEW s \in InOrderOf(createdAt, S)
  PROVE  s \in Seq(Entry) /\ ToSet(s) \subseteq S
<1>1. Cardinality(S) \in Nat
  BY FS_Subset, FS_CardinalityType, ReadingConstants
<1>2. s \in [1..Cardinality(S) -> S]
  BY DEF InOrderOf, SetToSeqs
<1> QED
  BY <1>1, <1>2 DEF ToSet

\* Creating a message: it is met at once when this millisecond was marked.
LEMMA SendKeepsReadInv ==
  ASSUME ReadInv, NEW e \in Entry, SendEntry(e)
  PROVE  ReadInv'
<1> USE DEF ReadInv
<1>1. PositionsAreSound'
  BY DEF PositionsAreSound, SendEntry
<1>2. EntriesAreSound'
  BY DEF EntriesAreSound, PositionsAreSound, SendEntry, ToSet
<1>3. PassedAreMet'
  <2> SUFFICES ASSUME NEW f \in Entry, f \in (Stored \union BeingSent)',
                      createdAt'[f] <= lastReadAt \/ createdAt'[f] <= lastReadRow
               PROVE  f \in met'
    BY DEF PassedAreMet, SendEntry, Stored, BeingSent
  <2>1. CASE f = e
    <3>1. clock <= lastReadAt \/ clock <= lastReadRow
      BY <2>1 DEF SendEntry, EntriesAreSound
    <3>2. clock = markedAt
      BY <3>1 DEF PositionsAreSound
    <3> QED
      BY <2>1, <3>2 DEF SendEntry
  <2>2. CASE f # e
    BY <2>2 DEF SendEntry, PassedAreMet, EntriesAreSound, Stored, BeingSent
  <2> QED
    BY <2>1, <2>2
<1> QED
  BY <1>1, <1>2, <1>3

\* The other steps of a message: the sets of messages sent and stored shrink or
\* stay, and the table gets a position memory has.
LEMMA StepsKeepReadInv ==
  ASSUME ReadInv, NEW e \in Entry, StoreEntry(e) \/ ListEntry(e) \/ FailEntry(e)
  PROVE  ReadInv'
<1> USE DEF ReadInv
<1>1. PositionsAreSound'
  BY DEF PositionsAreSound, StoreEntry, ListEntry, FailEntry, markVars
<1>2. EntriesAreSound'
  <2>1. CASE StoreEntry(e)
    BY <2>1 DEF EntriesAreSound, StoreEntry, ToSet
  <2>2. CASE ListEntry(e)
    <3>1. /\ listed' \in Seq(Entry)
          /\ ToSet(listed') \subseteq ToSet(listed) \union {e}
      BY <2>2, AppendToSet DEF ListEntry, EntriesAreSound
    <3> QED
      BY <2>2, <3>1 DEF EntriesAreSound, ListEntry
  <2>3. CASE FailEntry(e)
    BY <2>3 DEF EntriesAreSound, FailEntry, BeingSent, ToSet
  <2> QED
    BY <2>1, <2>2, <2>3
<1>3. (Stored \union BeingSent)' \subseteq Stored \union BeingSent
  BY DEF Stored, BeingSent, StoreEntry, ListEntry, FailEntry, EntriesAreSound
<1>4. PassedAreMet'
  BY <1>3 DEF PassedAreMet, StoreEntry, ListEntry, FailEntry, markVars
<1> QED
  BY <1>1, <1>2, <1>4

\* Marking: everything sent and not failed is met, whatever the position.
LEMMA MarkKeepsReadInv ==
  ASSUME ReadInv, MarkAsRead \/ \E e \in Entry : MarkAsUnread(e)
  PROVE  ReadInv'
<1> USE DEF ReadInv
<1>1. PositionsAreSound'
  <2>1. CASE MarkAsRead
    BY <2>1 DEF MarkAsRead, MoveTo, PositionsAreSound
  <2>2. ASSUME NEW e \in Entry, MarkAsUnread(e)
        PROVE  PositionsAreSound'
    BY <2>2 DEF MarkAsUnread, MoveTo, PositionsAreSound, EntriesAreSound
  <2> QED
    BY <2>1, <2>2
<1>2. EntriesAreSound'
  BY DEF MarkAsRead, MarkAsUnread, MoveTo, EntriesAreSound, entryVars, ToSet
<1>3. PassedAreMet'
  BY DEF MarkAsRead, MarkAsUnread, MoveTo, PassedAreMet, entryVars, Stored, BeingSent
<1> QED
  BY <1>1, <1>2, <1>3

\* A restart returns to the position of the table and lists what the table has.
LEMMA RestartKeepsReadInv ==
  ASSUME ReadInv, RestartReading
  PROVE  ReadInv'
<1> USE DEF ReadInv
<1>1. PositionsAreSound'
  BY DEF PositionsAreSound, RestartReading
<1>2. EntriesAreSound'
  <2>1. listed' \in Seq(Entry) /\ ToSet(listed') \subseteq Stored
    BY InOrderIsSequence DEF RestartReading, Stored
  <2> QED
    BY <2>1 DEF EntriesAreSound, RestartReading, Stored
<1>3. (Stored \union BeingSent)' \subseteq Stored
  BY DEF Stored, BeingSent, RestartReading, EntriesAreSound
<1>4. PassedAreMet'
  BY <1>3 DEF PassedAreMet, RestartReading
<1> QED
  BY <1>1, <1>2, <1>4

\* Every step keeps the invariant.
LEMMA NextKeepsReadInv == ReadInv /\ [ReadingNext]_readingVars => ReadInv'
<1> SUFFICES ASSUME ReadInv, [ReadingNext]_readingVars
             PROVE  ReadInv'
  OBVIOUS
<1>1. CASE PassTime
  BY <1>1 DEF PassTime, ReadInv, PositionsAreSound, EntriesAreSound, PassedAreMet,
              entryVars, markVars, Stored, BeingSent, ToSet
<1>2. CASE \E e \in Entry : SendEntry(e)
  BY <1>2, SendKeepsReadInv
<1>3. CASE \E e \in Entry : StoreEntry(e) \/ ListEntry(e) \/ FailEntry(e)
  BY <1>3, StepsKeepReadInv
<1>4. CASE MarkAsRead \/ \E e \in Entry : MarkAsUnread(e)
  BY <1>4, MarkKeepsReadInv
<1>5. CASE StoreMark
  BY <1>5 DEF StoreMark, ReadInv, PositionsAreSound, EntriesAreSound, PassedAreMet,
              entryVars, Stored, BeingSent, ToSet
<1>6. CASE RestartReading
  BY <1>6, RestartKeepsReadInv
<1>7. CASE /\ UNCHANGED <<clock, createdAt, step, listed>>
           /\ UNCHANGED <<lastReadAt, lastReadRow, markedAt, met>>
  BY <1>7 DEF ReadInv, PositionsAreSound, EntriesAreSound, PassedAreMet, Stored,
              BeingSent, ToSet
<1>8. CASE \E e \in Entry : DeleteEntry(e) \/ StoreDeletion(e) \/ FailDeletion(e)
  BY <1>7, <1>8 DEF DeleteEntry, StoreDeletion, FailDeletion, entryVars, markVars
<1>9. CASE FailMark \/ FindMessages \/ UNCHANGED readingVars
  BY <1>7, <1>9 DEF FailMark, FindMessages, entryVars, markVars, readingVars
<1> QED
  BY <1>1, <1>2, <1>3, <1>4, <1>5, <1>6, <1>8, <1>9 DEF ReadingNext

LEMMA ReadInvSuffices == ReadInv => ReadWasListed
  BY DEF ReadInv, PositionsAreSound, EntriesAreSound, PassedAreMet, ReadWasListed,
         CountsAsUnread, Stored

\* Nothing counts as read that the participant had no chance to see
\* (markAsRead, markAsUnread, toConversationSummary).
THEOREM ReadWasListedHolds == ReadingSpec => []ReadWasListed
  BY InitReadInv, NextKeepsReadInv, ReadInvSuffices, PTL DEF ReadingSpec

-----------------------------------------------------------------------------
(***************************************************************************)
(* Places in an order.  Each element of a finite set that is strictly and  *)
(* totally ordered has a number of its own of elements before it.          *)
(***************************************************************************)
Orders(R, S) ==
    /\ R \subseteq S \X S
    /\ \A i \in S : <<i, i>> \notin R
    /\ \A i, j \in S : i # j => <<i, j>> \in R \/ <<j, i>> \in R
    /\ \A i, j, k \in S : <<i, j>> \in R /\ <<j, k>> \in R => <<i, k>> \in R

Before(R, S, i) == {j \in S : <<j, i>> \in R}

First(R, S, limit) == {i \in S : Cardinality(Before(R, S, i)) < limit}

\* The ranks of a finite set are the numbers below its cardinality.
LEMMA RanksAreNumbers ==
  ASSUME NEW S, IsFiniteSet(S), NEW R, Orders(R, S)
  PROVE  LET rank == [i \in S |-> Cardinality(Before(R, S, i))]
         IN  rank \in Bijection(S, 0 .. Cardinality(S) - 1)
<1> DEFINE rank == [i \in S |-> Cardinality(Before(R, S, i))]
           n == Cardinality(S)
<1>1. n \in Nat
  BY FS_CardinalityType
<1>2. ASSUME NEW i \in S
      PROVE  IsFiniteSet(Before(R, S, i)) /\ Cardinality(Before(R, S, i)) \in 0 .. n - 1
  <2>1. Before(R, S, i) \in SUBSET (S \ {i})
    BY DEF Before, Orders
  <2>2. IsFiniteSet(S \ {i}) /\ Cardinality(S \ {i}) = n - 1
    BY FS_RemoveElement
  <2>3. /\ IsFiniteSet(Before(R, S, i))
        /\ Cardinality(Before(R, S, i)) <= n - 1
    BY <2>1, <2>2, FS_Subset
  <2>4. Cardinality(Before(R, S, i)) \in Nat
    BY <2>3, FS_CardinalityType
  <2> QED
    BY <1>1, <2>3, <2>4
<1>3. ASSUME NEW i \in S, NEW j \in S, <<i, j>> \in R
      PROVE  Cardinality(Before(R, S, i)) # Cardinality(Before(R, S, j))
  <2>1. Before(R, S, i) \in SUBSET Before(R, S, j)
    BY <1>3 DEF Before, Orders
  <2>2. i \in Before(R, S, j) /\ i \notin Before(R, S, i)
    BY <1>3 DEF Before, Orders
  <2> QED
    BY <1>2, <2>1, <2>2, FS_Subset
<1>4. rank \in [S -> 0 .. n - 1]
  BY <1>2
<1>5. \A i, j \in S : rank[i] = rank[j] => i = j
  BY <1>3 DEF Orders
<1>6. rank \in Injection(S, 0 .. n - 1)
  BY <1>4, <1>5 DEF Injection, IsInjective
<1>7. IsFiniteSet(0 .. n - 1) /\ Cardinality(0 .. n - 1) = n
  <2>1. 0 \in Int /\ n - 1 \in Int
    BY <1>1
  <2> QED
    BY <1>1, <2>1, FS_Interval
<1>8. rank \in Surjection(S, 0 .. n - 1)
  BY <1>6, <1>7, FS_Injection
<1> QED
  BY <1>6, <1>8 DEF Bijection

\* One element of a finite set comes before all others.
LEMMA OneIsFirst ==
  ASSUME NEW S, IsFiniteSet(S), S # {}, NEW R, Orders(R, S)
  PROVE  \E i \in S : Cardinality(Before(R, S, i)) = 0
                       /\ \A j \in S : j = i \/ <<i, j>> \in R
<1> DEFINE rank == [i \in S |-> Cardinality(Before(R, S, i))]
<1>1. Cardinality(S) \in Nat \ {0}
  BY FS_EmptySet, FS_CardinalityType
<1>2. rank \in Surjection(S, 0 .. Cardinality(S) - 1)
  BY RanksAreNumbers DEF Bijection
<1> HIDE DEF rank
<1>3. PICK i \in S : rank[i] = 0
  <2>1. 0 \in 0 .. Cardinality(S) - 1
    BY <1>1
  <2> QED
    BY <1>2, <2>1 DEF Surjection
<1>4. Cardinality(Before(R, S, i)) = 0
  BY <1>3 DEF rank
<1>5. Before(R, S, i) = {}
  <2>1. Before(R, S, i) \in SUBSET S
    BY DEF Before
  <2> QED
    BY <1>4, <2>1, FS_Subset, FS_EmptySet
<1> QED
  BY <1>4, <1>5 DEF Before, Orders

\* The first elements are as many as the limit, when there are enough.
LEMMA FirstAreMany ==
  ASSUME NEW S, IsFiniteSet(S), NEW R, Orders(R, S),
         NEW limit \in Nat, limit <= Cardinality(S)
  PROVE  IsFiniteSet(First(R, S, limit)) /\ Cardinality(First(R, S, limit)) = limit
<1> DEFINE rank == [i \in S |-> Cardinality(Before(R, S, i))]
           n == Cardinality(S)
           F == First(R, S, limit)
           low == [i \in F |-> rank[i]]
<1>1. n \in Nat
  BY FS_CardinalityType
<1>2. rank \in Bijection(S, 0 .. n - 1)
  BY RanksAreNumbers
<1>3. /\ rank \in [S -> 0 .. n - 1]
      /\ \A i, j \in S : rank[i] = rank[j] => i = j
      /\ \A r \in 0 .. n - 1 : \E i \in S : rank[i] = r
  BY <1>2 DEF Bijection, Injection, Surjection, IsInjective
<1>4. F = {i \in S : rank[i] < limit}
  BY DEF First
<1> HIDE DEF rank, F
<1>5. low \in [F -> 0 .. limit - 1]
  BY <1>1, <1>3, <1>4
<1>6. \A i, j \in F : low[i] = low[j] => i = j
  BY <1>3, <1>4
<1>7. \A r \in 0 .. limit - 1 : \E i \in F : low[i] = r
  BY <1>1, <1>3, <1>4
<1>8. low \in Injection(F, 0 .. limit - 1) /\ low \in Surjection(F, 0 .. limit - 1)
  BY <1>5, <1>6, <1>7 DEF Injection, Surjection, IsInjective
<1>9. IsFiniteSet(0 .. limit - 1) /\ Cardinality(0 .. limit - 1) = limit
  <2>1. 0 \in Int /\ limit - 1 \in Int
    OBVIOUS
  <2> QED
    BY <2>1, FS_Interval
<1>10. IsFiniteSet(F) /\ Cardinality(F) = limit
  BY <1>8, <1>9, FS_Injection
<1> QED
  BY <1>10 DEF F

\* What is not among the first comes after each of them.
LEMMA FirstComeFirst ==
  ASSUME NEW S, IsFiniteSet(S), NEW R, Orders(R, S), NEW limit \in Nat,
         NEW i \in S \ First(R, S, limit), NEW f \in First(R, S, limit)
  PROVE  <<f, i>> \in R
<1> SUFFICES ASSUME <<i, f>> \in R PROVE FALSE
  BY DEF First, Orders
<1>1. f \in S
  BY DEF First
<1>2. Before(R, S, i) \in SUBSET Before(R, S, f) /\ Before(R, S, f) \in SUBSET S
  BY <1>1 DEF Before, Orders
<1>3. IsFiniteSet(Before(R, S, f))
  BY <1>2, FS_Subset
<1>4. /\ IsFiniteSet(Before(R, S, i))
      /\ Cardinality(Before(R, S, i)) <= Cardinality(Before(R, S, f))
  BY <1>2, <1>3, FS_Subset
<1>5. Cardinality(Before(R, S, i)) \in Nat /\ Cardinality(Before(R, S, f)) \in Nat
  BY <1>3, <1>4, FS_CardinalityType
<1> QED
  BY <1>4, <1>5 DEF First

\* The last places are the first of the reversed order.
LEMMA LastAreFirst ==
  ASSUME NEW S \in SUBSET Nat, IsFiniteSet(S), NEW limit
  PROVE  LET R == {p \in S \X S : p[1] > p[2]}
         IN  Orders(R, S) /\ LastOf(S, limit) = First(R, S, limit)
<1> DEFINE R == {p \in S \X S : p[1] > p[2]}
<1>1. Orders(R, S)
  BY DEF Orders
<1>2. \A i \in S : {j \in S : j > i} = Before(R, S, i)
  BY DEF Before
<1>3. LastOf(S, limit) = First(R, S, limit)
  BY <1>2 DEF LastOf, First
<1> QED
  BY <1>1, <1>3

\* The last of some places are not none, and no other comes after them.
LEMMA LastComeLast ==
  ASSUME NEW S \in SUBSET Nat, IsFiniteSet(S), NEW limit \in Nat \ {0}
  PROVE  /\ LastOf(S, limit) \subseteq S
         /\ S # {} => LastOf(S, limit) # {}
         /\ \A i \in S \ LastOf(S, limit), k \in LastOf(S, limit) : i < k
<1> DEFINE R == {p \in S \X S : p[1] > p[2]}
<1>1. Orders(R, S) /\ LastOf(S, limit) = First(R, S, limit)
  BY LastAreFirst
<1>2. ASSUME S # {} PROVE LastOf(S, limit) # {}
  <2>1. PICK i \in S : Cardinality(Before(R, S, i)) = 0
    BY <1>1, <1>2, OneIsFirst
  <2>2. i \in First(R, S, limit)
    BY <2>1 DEF First
  <2> QED
    BY <1>1, <2>2
<1>3. ASSUME NEW i \in S \ LastOf(S, limit), NEW k \in LastOf(S, limit)
      PROVE  i < k
  <2>1. <<k, i>> \in R
    BY <1>1, FirstComeFirst
  <2> QED
    BY <2>1
<1>4. LastOf(S, limit) \subseteq S
  BY DEF LastOf
<1> QED
  BY <1>2, <1>3, <1>4

\* A place among the last stays so when there are fewer places, or more are taken.
LEMMA LastOfFewer ==
  ASSUME NEW S, IsFiniteSet(S), NEW T \in SUBSET S, NEW small \in Nat, NEW large \in Nat,
         small <= large, NEW i \in T, i \in LastOf(S, small)
  PROVE  i \in LastOf(T, large)
<1>1. {j \in T : j > i} \in SUBSET {j \in S : j > i} /\ {j \in S : j > i} \in SUBSET S
  OBVIOUS
<1>2. IsFiniteSet({j \in S : j > i})
  BY <1>1, FS_Subset
<1>3. /\ IsFiniteSet({j \in T : j > i})
      /\ Cardinality({j \in T : j > i}) <= Cardinality({j \in S : j > i})
  BY <1>1, <1>2, FS_Subset
<1>4. /\ Cardinality({j \in T : j > i}) \in Nat
      /\ Cardinality({j \in S : j > i}) \in Nat
  BY <1>2, <1>3, FS_CardinalityType
<1>5. Cardinality({j \in S : j > i}) < small
  BY DEF LastOf
<1> QED
  BY <1>3, <1>4, <1>5 DEF LastOf

\* Of some places one is the least.
LEMMA LeastPlace ==
  ASSUME NEW S \in SUBSET Nat, IsFiniteSet(S), S # {}
  PROVE  Min(S) \in S
<1> DEFINE R == {p \in S \X S : p[1] < p[2]}
<1>1. Orders(R, S)
  BY DEF Orders
<1> HIDE DEF R
<1>2. PICK i \in S : /\ Cardinality(Before(R, S, i)) = 0
                      /\ \A j \in S : j = i \/ <<i, j>> \in R
  BY <1>1, OneIsFirst
<1>3. ASSUME NEW j \in S PROVE i <= j
  <2>1. j = i \/ <<i, j>> \in R
    BY <1>2
  <2>2. i \in Nat /\ j \in Nat
    OBVIOUS
  <2>3. <<i, j>> \in R => i < j
    BY DEF R
  <2> QED
    BY <2>1, <2>2, <2>3
<1> QED
  BY <1>3 DEF Min

-----------------------------------------------------------------------------
(***************************************************************************)
(* Reading page by page.                                                   *)
(***************************************************************************)

\* Memory lists what has been listed, and no message is from the future.
ListIsSound ==
    /\ clock \in 1..MaxTime
    /\ createdAt \in [Entry -> 0..MaxTime]
    /\ step \in [Entry -> {"unsent", "sent", "stored", "listed", "lost", "failed"}]
    /\ listed \in Seq(Entry)
    /\ ToSet(listed) = {e \in Entry : step[e] = "listed"}

\* From the first page on, reversed has every pair that is in the wrong order, and
\* what was sought and not received is still to come or stood before a received
\* message no younger than it.
RestIsToCome ==
    cursor # AnyTime =>
       /\ Reversals(listed) \subseteq reversed
       /\ sought \subseteq ToSet(listed)
       /\ \A e \in sought \ received :
             createdAt[e] < cursor \/ \E f \in received : <<e, f>> \in reversed

PagesInv == ListIsSound /\ cursor \in Nat /\ RestIsToCome

LEMMA InitPagesInv == ReadingInit => PagesInv
  BY ReadingConstants
     DEF ReadingInit, PagesInv, ListIsSound, RestIsToCome, ToSet, AnyTime

\* A message appended to a list is its last and takes no place of another.
LEMMA AppendAddsOne ==
  ASSUME NEW s \in Seq(Entry), NEW e \in Entry
  PROVE  ToSet(Append(s, e)) = ToSet(s) \union {e}
<1> DEFINE t == Append(s, e)
<1>1. /\ DOMAIN t = 1..Len(s) + 1 /\ DOMAIN s = 1..Len(s) /\ Len(s) \in Nat
      /\ \A i \in 1..Len(s) : t[i] = s[i]
      /\ t[Len(s) + 1] = e
  OBVIOUS
<1>2. \A i \in DOMAIN s : i \in DOMAIN t /\ t[i] = s[i]
  BY <1>1
<1>3. Len(s) + 1 \in DOMAIN t
  BY <1>1
<1> HIDE DEF t
<1>4. ToSet(s) \union {e} \subseteq ToSet(t)
  BY <1>1, <1>2, <1>3 DEF ToSet
<1> QED
  BY <1>4, AppendToSet DEF t

\* A restart lists all that the table has.
LEMMA InOrderIsWhole ==
  ASSUME NEW S \in SUBSET Entry, NEW s \in InOrderOf(createdAt, S)
  PROVE  ToSet(s) = S
<1> DEFINE n == Cardinality(S)
<1>1. IsFiniteSet(S) /\ n \in Nat
  BY FS_Subset, FS_CardinalityType, ReadingConstants
<1>2. s \in [1..n -> S] /\ \A i, j \in 1..n : s[i] = s[j] => i = j
  BY DEF InOrderOf, SetToSeqs
<1>3. s \in Injection(1..n, S)
  BY <1>2 DEF Injection, IsInjective
<1>4. IsFiniteSet(1..n) /\ Cardinality(1..n) = n
  <2>1. 1 \in Int /\ n \in Int
    BY <1>1
  <2> QED
    BY <1>1, <2>1, FS_Interval
<1>5. s \in Surjection(1..n, S)
  BY <1>1, <1>3, <1>4, FS_Injection
<1> QED
  BY <1>2, <1>5 DEF Surjection, ToSet

\* The steps that rearrange the list keep what is to come: a message once listed
\* keeps its time, and new reversals are noted.
LEMMA RearrangingKeepsRest ==
  ASSUME PagesInv, Rearranged(listed'), ToSet(listed) \subseteq ToSet(listed'),
         createdAt' = createdAt
  PROVE  (cursor \in Nat /\ RestIsToCome)'
<1>1. cursor' = cursor /\ sought' = sought /\ received' = received
  BY DEF Rearranged
<1>2. Reversals(listed)' = Reversals(listed')
  BY DEF Reversals
<1>3. cursor # AnyTime => reversed' = reversed \union Reversals(listed)'
  BY <1>2 DEF Rearranged
<1>4. cursor' # AnyTime' => cursor # AnyTime
  BY <1>1 DEF AnyTime
<1>5. cursor # AnyTime =>
         /\ Reversals(listed)' \subseteq reversed' /\ reversed \subseteq reversed'
         /\ sought \subseteq ToSet(listed)'
  BY <1>3 DEF PagesInv, RestIsToCome
<1> QED
  BY <1>1, <1>4, <1>5 DEF PagesInv, RestIsToCome

\* The steps of one message: when it is listed, it is the last of the list.
LEMMA StepsKeepPages ==
  ASSUME PagesInv, NEW e \in Entry,
         SendEntry(e) \/ StoreEntry(e) \/ ListEntry(e) \/ FailEntry(e)
  PROVE  PagesInv'
<1> USE DEF PagesInv
<1>1. CASE SendEntry(e)
  <2>1. ListIsSound'
    BY <1>1 DEF ListIsSound, SendEntry, ToSet
  <2>2. \A f \in ToSet(listed) : createdAt'[f] = createdAt[f]
    BY <1>1 DEF ListIsSound, SendEntry
  <2>3. Reversals(listed)' = Reversals(listed)
    <3>1. \A i \in DOMAIN listed : createdAt'[listed[i]] = createdAt[listed[i]]
      BY <2>2 DEF ToSet
    <3>2. listed' = listed
      BY <1>1 DEF SendEntry
    <3> QED
      BY <3>1, <3>2 DEF Reversals
  <2>4. (cursor \in Nat /\ RestIsToCome)'
    BY <1>1, <2>2, <2>3 DEF RestIsToCome, SendEntry, pageVars, AnyTime, ToSet
  <2> QED
    BY <2>1, <2>4
<1>2. CASE StoreEntry(e) \/ FailEntry(e)
  <2>1. ListIsSound'
    BY <1>2 DEF ListIsSound, StoreEntry, FailEntry, BeingSent, ToSet
  <2>2. (cursor \in Nat /\ RestIsToCome)'
    BY <1>2 DEF RestIsToCome, StoreEntry, FailEntry, pageVars, Reversals, AnyTime, ToSet
  <2> QED
    BY <2>1, <2>2
<1>3. CASE ListEntry(e)
  <2>1. listed' \in Seq(Entry) /\ ToSet(listed') = ToSet(listed) \union {e}
    BY <1>3, AppendToSet, AppendAddsOne DEF ListEntry, ListIsSound
  <2>2. ListIsSound'
    BY <1>3, <2>1 DEF ListIsSound, ListEntry
  <2>3. (cursor \in Nat /\ RestIsToCome)'
    BY <1>3, <2>1, RearrangingKeepsRest DEF ListEntry
  <2> QED
    BY <2>2, <2>3
<1> QED
  BY <1>1, <1>2, <1>3

LEMMA RestartKeepsPages ==
  ASSUME PagesInv, RestartReading
  PROVE  PagesInv'
<1> USE DEF PagesInv
<1>1. listed' \in Seq(Entry) /\ ToSet(listed') = Stored
  BY InOrderIsSequence, InOrderIsWhole DEF RestartReading, Stored
<1>2. ListIsSound'
  BY <1>1 DEF ListIsSound, RestartReading, Stored
<1>3. (cursor \in Nat /\ RestIsToCome)'
  <2>1. ToSet(listed) \subseteq ToSet(listed')
    BY <1>1 DEF ListIsSound, Stored
  <2> QED
    BY <2>1, RearrangingKeepsRest DEF RestartReading
<1> QED
  BY <1>2, <1>3

\* A page: what it leaves out is older than the next cursor, or stands before the
\* first message of the page though it is no older.
LEMMA PageKeepsPages ==
  ASSUME PagesInv, FindMessages
  PROVE  PagesInv'
<1> USE DEF PagesInv
<1> DEFINE P == Page(cursor)
           E == Earlier(cursor)
           k == Min(P)
<1>1. ListIsSound'
  BY DEF ListIsSound, FindMessages, entryVars, ToSet
<1>2. /\ E \in SUBSET Nat /\ IsFiniteSet(E) /\ E \subseteq DOMAIN listed
      /\ P \subseteq E /\ (E # {} => P # {})
      /\ \A i \in E \ P, j \in P : i < j
  <2>1. DOMAIN listed = 1..Len(listed) /\ Len(listed) \in Nat
    BY DEF ListIsSound
  <2>2. E \in SUBSET Nat /\ E \subseteq 1..Len(listed)
    BY <2>1 DEF Earlier
  <2>3. IsFiniteSet(E)
    <3>1. 1 \in Int /\ Len(listed) \in Int
      BY <2>1
    <3>2. IsFiniteSet(1..Len(listed))
      BY <3>1, FS_Interval
    <3> QED
      BY <2>2, <3>2, FS_Subset
  <2>4. PageLimit \in Nat \ {0}
    BY ReadingConstants
  <2> HIDE DEF E
  <2>5. LastOf(E, PageLimit) = P
    BY DEF Page, E
  <2> HIDE DEF P
  <2> QED
    BY <2>1, <2>2, <2>3, <2>4, <2>5, LastComeLast
<1>3. P # E => k \in P
  <2>1. P # E => P # {} /\ P \in SUBSET Nat
    BY <1>2
  <2>2. IsFiniteSet(P)
    BY <1>2, FS_Subset
  <2> QED
    BY <2>1, <2>2, LeastPlace
<1>4. /\ cursor' = IF P = E THEN NoMore ELSE createdAt[listed[k]]
      /\ received' = received \union MessagesAt(P)
      /\ cursor # NoMore
      /\ listed' = listed /\ createdAt' = createdAt
  BY DEF FindMessages, NextCursor, entryVars
<1>5. cursor' \in 0..MaxTime
  <2>1. CASE P = E
    BY <1>4, <2>1, ReadingConstants DEF NoMore
  <2>2. CASE P # E
    <3>1. k \in DOMAIN listed
      BY <1>2, <1>3, <2>2
    <3>2. listed[k] \in Entry
      BY <3>1 DEF ListIsSound
    <3> QED
      BY <1>4, <2>2, <3>2 DEF ListIsSound
  <2> QED
    BY <2>1, <2>2
<1>6. /\ Reversals(listed) \subseteq reversed'
      /\ sought' \subseteq ToSet(listed)
      /\ \A e \in sought' \ received :
            createdAt[e] < cursor \/ \E f \in received : <<e, f>> \in reversed'
  <2>1. CASE cursor = AnyTime
    BY <2>1, ReadingConstants DEF FindMessages, ListIsSound, AnyTime
  <2>2. CASE cursor # AnyTime
    BY <2>2 DEF FindMessages, RestIsToCome
  <2> QED
    BY <2>1, <2>2
<1>7. ASSUME NEW e \in sought' \ received'
      PROVE  createdAt[e] < cursor' \/ \E f \in received' : <<e, f>> \in reversed'
  <2>1. e \in sought' \ received
    BY <1>4, <1>7
  <2>2. CASE \E f \in received : <<e, f>> \in reversed'
    BY <1>4, <2>2
  <2>3. CASE createdAt[e] < cursor
    <3>1. PICK i \in DOMAIN listed : e = listed[i]
      BY <1>6, <2>1 DEF ToSet
    <3>2. i \in E
      BY <2>3, <3>1 DEF Earlier
    <3>3. i \notin P
      BY <1>4, <1>7, <3>1 DEF MessagesAt
    <3>4. k \in P /\ i < k /\ k \in DOMAIN listed
      BY <1>2, <1>3, <3>2, <3>3
    <3>5. cursor' = createdAt[listed[k]]
      BY <1>4, <3>2, <3>3
    <3>6. CASE createdAt[e] < createdAt[listed[k]]
      BY <3>5, <3>6
    <3>7. CASE createdAt[listed[k]] <= createdAt[e]
      <4>1. <<e, listed[k]>> \in Reversals(listed)
        BY <3>1, <3>4, <3>7 DEF Reversals
      <4>2. listed[k] \in received'
        BY <1>4, <3>4 DEF MessagesAt
      <4> QED
        BY <1>6, <4>1, <4>2
    <3> HIDE DEF k
    <3> QED
      <4>1. createdAt[e] \in Int /\ createdAt[listed[k]] \in Int
        BY <3>1, <3>4 DEF ListIsSound
      <4> QED
        BY <3>6, <3>7, <4>1
  <2> QED
    BY <1>6, <2>1, <2>2, <2>3
<1>8. Reversals(listed)' = Reversals(listed)
  BY <1>4 DEF Reversals
<1> HIDE DEF P, E, k
<1>9. RestIsToCome'
  <2>1. ToSet(listed)' = ToSet(listed)
    BY <1>4
  <2> QED
    BY <1>4, <1>6, <1>7, <1>8, <2>1 DEF RestIsToCome
<1>10. cursor' \in Nat
  <2>1. MaxTime \in Nat
    BY ReadingConstants
  <2> QED
    BY <1>5, <2>1
<1> QED
  BY <1>1, <1>9, <1>10

LEMMA NextKeepsPages == PagesInv /\ [ReadingNext]_readingVars => PagesInv'
<1> SUFFICES ASSUME PagesInv, [ReadingNext]_readingVars
             PROVE  PagesInv'
  OBVIOUS
<1>1. ASSUME UNCHANGED <<entryVars, pageVars>>, clock' \in 1..MaxTime
      PROVE  PagesInv'
  <2>1. ListIsSound'
    BY <1>1 DEF PagesInv, ListIsSound, entryVars, ToSet
  <2>2. Reversals(listed)' = Reversals(listed) /\ AnyTime' = AnyTime
    BY <1>1 DEF entryVars, Reversals, AnyTime
  <2>3. (cursor \in Nat /\ RestIsToCome)'
    BY <1>1, <2>2 DEF PagesInv, RestIsToCome, entryVars, pageVars, ToSet
  <2> QED
    BY <2>1, <2>3 DEF PagesInv
<1>2. CASE UNCHANGED <<clock, entryVars, pageVars>>
  BY <1>1, <1>2 DEF PagesInv, ListIsSound
<1>9. CASE PassTime
  BY <1>1, <1>9, ReadingConstants DEF PassTime, PagesInv, ListIsSound
<1>3. CASE \E e \in Entry : SendEntry(e) \/ StoreEntry(e) \/ ListEntry(e) \/ FailEntry(e)
  BY <1>3, StepsKeepPages
<1>4. CASE \E e \in Entry : DeleteEntry(e) \/ StoreDeletion(e) \/ FailDeletion(e)
  BY <1>2, <1>4 DEF DeleteEntry, StoreDeletion, FailDeletion
<1>5. CASE MarkAsRead \/ (\E e \in Entry : MarkAsUnread(e)) \/ StoreMark \/ FailMark
  BY <1>2, <1>5 DEF MarkAsRead, MarkAsUnread, MoveTo, StoreMark, FailMark
<1>6. CASE FindMessages
  BY <1>6, PageKeepsPages
<1>7. CASE RestartReading
  BY <1>7, RestartKeepsPages
<1>8. CASE UNCHANGED readingVars
  BY <1>2, <1>8 DEF readingVars, entryVars, pageVars
<1> QED
  BY <1>3, <1>4, <1>5, <1>6, <1>7, <1>8, <1>9 DEF ReadingNext

LEMMA PagesInvSuffices == PagesInv => PagesAreWhole
<1> SUFFICES ASSUME PagesInv, cursor = NoMore, NEW e \in sought \ received
             PROVE  \E f \in received : <<e, f>> \in reversed
  BY DEF PagesAreWhole
<1>1. cursor # AnyTime
  BY ReadingConstants DEF NoMore, AnyTime
<1>2. createdAt[e] < cursor \/ \E f \in received : <<e, f>> \in reversed
  BY <1>1 DEF PagesInv, RestIsToCome
<1>3. createdAt[e] \in 0..MaxTime
  BY <1>1 DEF PagesInv, RestIsToCome, ListIsSound
<1> QED
  BY <1>2, <1>3, ReadingConstants DEF NoMore

\* Who reads to the last page gets what was there at the first one, except what
\* memory listed before a received message no younger than it, for any number of
\* messages and any limit, with restarts and failing transactions (findMessages).
THEOREM PagesAreWholeHolds == ReadingSpec => []PagesAreWhole
  BY InitPagesInv, NextKeepsPages, PagesInvSuffices, PTL DEF ReadingSpec

-----------------------------------------------------------------------------
(***************************************************************************)
(* The key moments of a catch-up.                                          *)
(***************************************************************************)

\* By score, then by time, then by place is a strict and total order.
LEMMA MomentsAreOrdered ==
  ASSUME ListIsSound, NEW S \in SUBSET DOMAIN listed
  PROVE  LET R == {p \in S \X S : StandsBefore(p[1], p[2])}
         IN  /\ Orders(R, S)
             /\ \A limit : Foremost(S, limit) = First(R, S, limit)
<1> DEFINE R == {p \in S \X S : StandsBefore(p[1], p[2])}
<1>1. /\ S \subseteq Nat
      /\ \A i \in S : Score(listed[i]) \in Nat /\ createdAt[listed[i]] \in Nat
  <2>1. DOMAIN listed = 1..Len(listed) /\ Len(listed) \in Nat
    BY DEF ListIsSound
  <2>2. \A i \in S : listed[i] \in Entry
    BY <2>1 DEF ListIsSound
  <2>3. \A e \in Entry : Score(e) \in Nat
    BY DEF Score
  <2> QED
    BY <2>1, <2>2, <2>3 DEF ListIsSound
<1> DEFINE s == [i \in S |-> Score(listed[i])]
           t == [i \in S |-> createdAt[listed[i]]]
<1>2. \A i, j \in S :
         <<i, j>> \in R <=> \/ s[i] > s[j]
                            \/ s[i] = s[j] /\ t[i] > t[j]
                            \/ s[i] = s[j] /\ t[i] = t[j] /\ i < j
  BY DEF StandsBefore
<1>3. \A i \in S : s[i] \in Nat /\ t[i] \in Nat
  BY <1>1
<1>4. R \subseteq S \X S
  OBVIOUS
<1>5. \A limit : Foremost(S, limit) = First(R, S, limit)
  <2>1. \A i \in S : {j \in S : StandsBefore(j, i)} = Before(R, S, i)
    BY DEF Before
  <2> QED
    BY <2>1 DEF Foremost, First
<1> HIDE DEF R, s, t
<1>6. Orders(R, S)
  BY <1>1, <1>2, <1>3, <1>4 DEF Orders
<1> QED
  BY <1>5, <1>6 DEF R

\* While nothing is deleted, the moments are of the page that the chat shows.
LEMMA MomentsAreOnPage ==
  ASSUME deleted = {}, NEW startAt
  PROVE  KeyMoments(startAt) \subseteq LastOf(DOMAIN listed, RecentLimit)
<1>1. Undeleted = DOMAIN listed
  BY DEF Undeleted
<1>2. Linked(startAt) \subseteq LastOf(DOMAIN listed, RecentLimit)
  BY <1>1 DEF Linked, Recent
<1>3. KeyMoments(startAt) \subseteq Linked(startAt)
  BY DEF KeyMoments, LastOf, Foremost
<1> QED
  BY <1>2, <1>3

\* What is said on that page gives way only to what stands before it.
LEMMA MomentsOutweigh ==
  ASSUME ListIsSound, NEW startAt \in 1..clock,
         NEW i \in LastOf(DOMAIN listed, RecentLimit) \ KeyMoments(startAt),
         listed[i] \in (Decision \union Action) \ (deleted \union System),
         createdAt[listed[i]] >= startAt
  PROVE  /\ Cardinality(KeyMoments(startAt)) = MomentLimit
         /\ \A j \in KeyMoments(startAt) :
               j \in DOMAIN listed /\ StandsBefore(j, i)
<1> DEFINE D == DOMAIN listed
           T == {j \in Undeleted : createdAt[listed[j]] >= startAt /\ listed[j] \notin System}
           S == {j \in Linked(startAt) : Score(listed[j]) > 0}
           R == {p \in S \X S : StandsBefore(p[1], p[2])}
<1>1. /\ RecentLimit \in Nat /\ AnalyzedLimit \in Nat /\ MomentLimit \in Nat
      /\ RecentLimit <= AnalyzedLimit
  BY ReadingConstants
<1>2. D \subseteq Nat /\ IsFiniteSet(D)
  <2>1. D = 1..Len(listed) /\ Len(listed) \in Int
    BY DEF ListIsSound
  <2> QED
    BY <2>1, FS_Interval
<1>3. i \in D /\ i \in LastOf(D, RecentLimit)
  BY DEF LastOf
<1>4. i \in Undeleted /\ i \in T /\ Undeleted \in SUBSET D /\ T \in SUBSET D
  BY <1>3 DEF Undeleted
<1>5. i \in Recent
  <2> HIDE DEF D, T, S, R
  <2>1. IsFiniteSet(D) /\ Undeleted \in SUBSET D /\ i \in Undeleted
    BY <1>2, <1>4
  <2>2. RecentLimit \in Nat /\ RecentLimit <= RecentLimit
    BY <1>1
  <2>3. i \in LastOf(Undeleted, RecentLimit)
    BY <1>3, <2>1, <2>2, LastOfFewer
  <2> QED
    BY <2>3 DEF Recent
<1>6. i \in Analyzed(startAt)
  <2>1. Analyzed(startAt) = LastOf(T, AnalyzedLimit)
    BY DEF Analyzed
  <2> HIDE DEF D, T, S, R
  <2>2. IsFiniteSet(D) /\ T \in SUBSET D /\ i \in T
    BY <1>2, <1>4
  <2>3. i \in LastOf(T, AnalyzedLimit)
    BY <1>1, <1>3, <2>2, LastOfFewer
  <2> QED
    BY <2>1, <2>3
<1>7. i \in S
  BY <1>5, <1>6 DEF Linked, Score
<1>8. S \in SUBSET D /\ IsFiniteSet(S)
  <2>1. S \in SUBSET D
    BY DEF Linked, Recent, LastOf, Undeleted
  <2> QED
    BY <1>2, <2>1, FS_Subset
<1>9. KeyMoments(startAt) = Foremost(S, MomentLimit)
  BY <1>7 DEF KeyMoments
<1>10. Orders(R, S) /\ KeyMoments(startAt) = First(R, S, MomentLimit)
  <2> HIDE DEF S
  <2> QED
    BY <1>8, <1>9, MomentsAreOrdered
<1> HIDE DEF S, R
<1>11. MomentLimit <= Cardinality(S)
  <2>1. Cardinality(Before(R, S, i)) >= MomentLimit
    <3>1. ~(Cardinality(Before(R, S, i)) < MomentLimit)
      BY <1>7, <1>10 DEF First
    <3>2. Before(R, S, i) \in SUBSET S
      BY DEF Before
    <3>3. IsFiniteSet(Before(R, S, i))
      BY <1>8, <3>2, FS_Subset
    <3>4. Cardinality(Before(R, S, i)) \in Nat
      BY <3>3, FS_CardinalityType
    <3> QED
      BY <1>1, <3>1, <3>4
  <2>2. /\ Cardinality(Before(R, S, i)) <= Cardinality(S)
        /\ Cardinality(Before(R, S, i)) \in Nat /\ Cardinality(S) \in Nat
    <3>1. Before(R, S, i) \in SUBSET S
      BY DEF Before
    <3>2. /\ IsFiniteSet(Before(R, S, i))
          /\ Cardinality(Before(R, S, i)) <= Cardinality(S)
      BY <1>8, <3>1, FS_Subset
    <3> QED
      BY <1>8, <3>2, FS_CardinalityType
  <2> QED
    BY <1>1, <2>1, <2>2
<1>12. Cardinality(KeyMoments(startAt)) = MomentLimit
  BY <1>1, <1>8, <1>10, <1>11, FirstAreMany
<1>13. ASSUME NEW j \in KeyMoments(startAt)
       PROVE  j \in DOMAIN listed /\ StandsBefore(j, i)
  <2>1. j \in First(R, S, MomentLimit) /\ i \in S \ First(R, S, MomentLimit)
    BY <1>7, <1>10
  <2>2. <<j, i>> \in R
    BY <1>1, <1>8, <1>10, <2>1, FirstComeFirst
  <2>3. j \in S
    BY <2>1 DEF First
  <2> QED
    BY <1>8, <2>2, <2>3 DEF R
<1> QED
  BY <1>12, <1>13

LEMMA ListSuffices == ListIsSound => MomentsStandOut
<1> SUFFICES ASSUME ListIsSound, NEW startAt \in 1..clock
             PROVE
      LET recent == LastOf(DOMAIN listed, RecentLimit)
          moments == KeyMoments(startAt)
      IN /\ deleted = {} => moments \subseteq recent
         /\ \A e \in (MessagesAt(recent \ moments) \intersect (Decision \union Action))
                      \ (deleted \union System) :
               createdAt[e] >= startAt =>
                  /\ Cardinality(moments) = MomentLimit
                  /\ \A f \in MessagesAt(moments) :
                        \/ e \in Action /\ f \in Decision
                        \/ /\ e \in Action <=> f \in Action
                           /\ f \in Decision \union Action /\ createdAt[f] >= createdAt[e]
  BY DEF MomentsStandOut
<1>1. deleted = {} => KeyMoments(startAt) \subseteq LastOf(DOMAIN listed, RecentLimit)
  BY MomentsAreOnPage
<1>2. ASSUME NEW i \in LastOf(DOMAIN listed, RecentLimit) \ KeyMoments(startAt),
             listed[i] \in (Decision \union Action) \ (deleted \union System),
             createdAt[listed[i]] >= startAt
      PROVE  /\ Cardinality(KeyMoments(startAt)) = MomentLimit
             /\ \A j \in KeyMoments(startAt) :
                   j \in DOMAIN listed /\ StandsBefore(j, i)
  BY <1>2, MomentsOutweigh
<1>3. ASSUME NEW i \in LastOf(DOMAIN listed, RecentLimit), NEW j \in DOMAIN listed,
             listed[i] \in Decision \union Action, StandsBefore(j, i)
      PROVE  \/ listed[i] \in Action /\ listed[j] \in Decision
             \/ /\ listed[i] \in Action <=> listed[j] \in Action
                /\ listed[j] \in Decision \union Action
                /\ createdAt[listed[j]] >= createdAt[listed[i]]
  <2>1. i \in DOMAIN listed
    BY DEF LastOf
  <2>2. listed[i] \in Entry /\ listed[j] \in Entry
    BY <2>1 DEF ListIsSound
  <2>3. createdAt[listed[i]] \in Int /\ createdAt[listed[j]] \in Int
    BY <2>2 DEF ListIsSound
  <2>4. Action \intersect Decision = {}
    BY ReadingConstants
  <2> QED
    BY <1>3, <2>3, <2>4 DEF StandsBefore, Score
<1> QED
  BY <1>1, <1>2, <1>3 DEF MessagesAt

\* Key moments can be opened, and a decision or an action on the page of the chat
\* gives way only to what matters no less, for every limit (buildConversationCatchUp).
THEOREM MomentsStandOutHolds == ReadingSpec => []MomentsStandOut
<1>1. PagesInv => MomentsStandOut
  BY ListSuffices DEF PagesInv
<1> QED
  BY <1>1, InitPagesInv, NextKeepsPages, PTL DEF ReadingSpec

\* Pages, positions and moments, of the behaviours in which TLC explores reading.
THEOREM PartsReadersAreServed == MCSpec => []ReadersAreServed
<1> DEFINE Inv == part = "reading" => ReadInv /\ PagesInv
<1>1. MCInit => Inv
  BY InitReadInv, InitPagesInv DEF MCInit
<1>2. Inv /\ [MCNext]_<<part, supportVars, composerVars, chatVars,
                        preferenceVars, bookmarkVars, readingVars>> => Inv'
  BY NextKeepsReadInv, NextKeepsPages DEF MCNext
<1>3. Inv => ReadersAreServed
  BY ReadInvSuffices, PagesInvSuffices, ListSuffices DEF ReadersAreServed, PagesInv
<1> QED
  BY <1>1, <1>2, <1>3, PTL DEF MCSpec

-----------------------------------------------------------------------------
(***************************************************************************)
(* The support page.                                                       *)
(***************************************************************************)
Version ==
    [values : [Field -> Value], assignee : Assignee,
     by : Assignee \union {Nobody},
     base : {Closed} \union [ticket : Ticket, version : Nat]]

CallStates ==
    {Ready, [step |-> "listing"]}
    \union [step : {"sent"}, ticket : Ticket, expected : Nat, values : [Field -> Value],
            assignee : Assignee, base : [ticket : Ticket, version : Nat]]
    \union [step : {"served"}, ticket : Ticket, version : Nat]

RefreshStates ==
    {Ready} \union [step : {"sent"}, ticket : Ticket]
            \union [step : {"served"}, ticket : Ticket, version : Nat]

SupportTypes ==
    /\ ledger \in [Ticket -> Seq(Version)]
    /\ selected \in {Closed} \union [ticket : Ticket, version : Nat \ {0}]
    /\ form \in [Field -> Value]
    /\ editAssignee \in Assignee
    /\ filled \in {Closed} \union [ticket : Ticket, version : Nat]
    /\ call \in [Button -> CallStates]
    /\ refresh \in [Refresh -> RefreshStates]
    /\ notices \in [Ticket -> SUBSET Nat]
    /\ heard \in [Ticket -> Nat]

\* The page shows a version there is, and its form was filled from it.
PageIsSound ==
    selected.version > 0 =>
       selected.version <= Newest(selected.ticket) /\ filled = selected

\* A request saves the form of the version it names, and its answer and those
\* of refreshes are versions there are.
RequestsAreSound ==
    /\ \A b \in Button :
          /\ call[b].step = "sent" =>
                call[b].base = [ticket |-> call[b].ticket, version |-> call[b].expected]
          /\ call[b].step = "served" => call[b].version <= Newest(call[b].ticket)
    /\ \A r \in Refresh : refresh[r].step = "served" =>
          refresh[r].version > 0 /\ refresh[r].version <= Newest(refresh[r].ticket)

\* What this admin stored came from a form over the version before.
StoredOverLast ==
    \A t \in Ticket : \A v \in 2 .. Newest(t) :
       ledger[t][v].by = Me => ledger[t][v].base = [ticket |-> t, version |-> v - 1]

\* The newest version of a ticket that was changed has come to the page, is in
\* an answer or an event on its way, or is what a refresh is going to find.
Informed(t) ==
    \/ Newest(t) = 1
    \/ heard[t] >= Newest(t)
    \/ Newest(t) \in notices[t]
    \/ \E r \in Refresh :
          /\ refresh[r] # Ready
          /\ refresh[r].ticket = t
          /\ refresh[r].step = "served" => refresh[r].version = Newest(t)

SupportInv ==
    /\ SupportTypes
    /\ \A t \in Ticket : Newest(t) > 0
    /\ PageIsSound
    /\ RequestsAreSound
    /\ StoredOverLast
    /\ \A t \in Ticket : Informed(t)

LEMMA InitSupportInv == SupportInit => SupportInv
<1> SUFFICES ASSUME SupportInit PROVE SupportInv
  OBVIOUS
<1>1. PICK v \in Value :
         /\ ledger = [t \in Ticket |->
                        <<[values |-> [f \in Field |-> v], assignee |-> Me,
                           by |-> Nobody, base |-> Closed]>>]
         /\ form = [f \in Field |-> v]
  BY DEF SupportInit
<1>2. ledger \in [Ticket -> Seq(Version)] /\ \A t \in Ticket : Newest(t) = 1
  BY <1>1 DEF Version, Assignee, Newest
<1>3. SupportTypes
  BY <1>1, <1>2 DEF SupportInit, SupportTypes, Assignee, CallStates, RefreshStates
<1>4. PageIsSound /\ RequestsAreSound
  BY DEF SupportInit, PageIsSound, RequestsAreSound, Closed, Ready
<1>5. StoredOverLast /\ \A t \in Ticket : Informed(t)
  BY <1>2 DEF StoredOverLast, Informed
<1> QED
  BY <1>2, <1>3, <1>4, <1>5 DEF SupportInv

\* What the steps of the requests need to know of their states.
LEMMA SupportStates ==
  ASSUME SupportTypes
  PROVE  /\ \A b \in Button :
               /\ call[b].step = "sent" =>
                     /\ call[b].ticket \in Ticket /\ call[b].expected \in Nat
                     /\ call[b].values \in [Field -> Value]
                     /\ call[b].assignee \in Assignee
                     /\ call[b].base \in [ticket : Ticket, version : Nat]
               /\ call[b].step = "served" =>
                     call[b].ticket \in Ticket /\ call[b].version \in Nat
         /\ \A r \in Refresh :
               /\ refresh[r] # Ready =>
                     /\ refresh[r].ticket \in Ticket
                     /\ refresh[r].step \in {"sent", "served"}
               /\ refresh[r].step = "served" =>
                     refresh[r] # Ready /\ refresh[r].version \in Nat
               /\ refresh[r].step = "sent" => refresh[r] # Ready
         /\ selected # Closed =>
               selected.ticket \in Ticket /\ selected.version \in Nat \ {0}
         /\ selected.version > 0 => selected # Closed
         /\ \A t \in Ticket : Newest(t) \in Nat
<1>1. \A b \in Button : call[b] \in CallStates
  BY DEF SupportTypes
<1>2. \A r \in Refresh : refresh[r] \in RefreshStates
  BY DEF SupportTypes
<1>3. \A t \in Ticket : Newest(t) \in Nat
  BY DEF SupportTypes, Newest
<1>4. \A c \in CallStates :
         /\ c.step = "sent" =>
               /\ c.ticket \in Ticket /\ c.expected \in Nat
               /\ c.values \in [Field -> Value] /\ c.assignee \in Assignee
               /\ c.base \in [ticket : Ticket, version : Nat]
         /\ c.step = "served" => c.ticket \in Ticket /\ c.version \in Nat
  BY DEF CallStates, Ready
<1>5. \A q \in RefreshStates :
         /\ q # Ready => q.ticket \in Ticket /\ q.step \in {"sent", "served"}
         /\ q.step = "served" => q # Ready /\ q.version \in Nat
         /\ q.step = "sent" => q # Ready
  BY DEF RefreshStates, Ready
<1>6. /\ selected # Closed =>
            selected.ticket \in Ticket /\ selected.version \in Nat \ {0}
      /\ selected.version > 0 => selected # Closed
  BY DEF SupportTypes, Closed
<1> QED
  BY <1>1, <1>2, <1>3, <1>4, <1>5, <1>6

\* A version that was stored is told of, and the versions before it stay.
LEMMA StoreKeeps ==
  ASSUME SupportInv, NEW t \in Ticket, NEW values \in [Field -> Value],
         NEW assignee \in Assignee, NEW by \in Assignee \union {Nobody},
         NEW base \in {Closed} \union [ticket : Ticket, version : Nat],
         Store(t, values, assignee, by, base),
         by = Me => base = [ticket |-> t, version |-> Newest(t)]
  PROVE  /\ ledger' \in [Ticket -> Seq(Version)]
         /\ notices' \in [Ticket -> SUBSET Nat]
         /\ \A u \in Ticket : Newest(u)' \in Nat /\ Newest(u)' >= Newest(u)
         /\ StoredOverLast'
         /\ \A u \in Ticket : u # t => Newest(u)' = Newest(u) /\ notices'[u] = notices[u]
         /\ Newest(t)' = Newest(t) + 1
         /\ Newest(t)' \in notices'[t]
<1> DEFINE new == [values |-> values, assignee |-> assignee, by |-> by, base |-> base]
<1>1. /\ new \in Version
      /\ new.by = by /\ new.base = base
  BY DEF Version
<1>2. /\ ledger \in [Ticket -> Seq(Version)] /\ notices \in [Ticket -> SUBSET Nat]
      /\ \A u \in Ticket : Newest(u) \in Nat /\ Newest(u) = Len(ledger[u])
      /\ StoredOverLast
  BY SupportStates DEF SupportInv, SupportTypes, Newest
<1>3. /\ ledger' = [ledger EXCEPT ![t] = Append(@, new)]
      /\ notices' = [notices EXCEPT ![t] = @ \union {Newest(t) + 1}]
  BY DEF Store
<1> HIDE DEF new
<1>4. /\ Append(ledger[t], new) \in Seq(Version)
      /\ Len(Append(ledger[t], new)) = Newest(t) + 1
      /\ \A v \in 1 .. Newest(t) : Append(ledger[t], new)[v] = ledger[t][v]
      /\ Append(ledger[t], new)[Newest(t) + 1] = new
  <2>1. ledger[t] \in Seq(Version) /\ Newest(t) = Len(ledger[t]) /\ Newest(t) \in Nat
    BY <1>2
  <2> QED
    BY <1>1, <2>1
<1>5. /\ ledger' \in [Ticket -> Seq(Version)]
      /\ ledger'[t] = Append(ledger[t], new)
      /\ \A u \in Ticket : u # t => ledger'[u] = ledger[u]
  BY <1>2, <1>3, <1>4
<1>6. /\ Newest(t)' = Newest(t) + 1
      /\ \A u \in Ticket : u # t => Newest(u)' = Newest(u)
  BY <1>2, <1>4, <1>5 DEF Newest
<1>7. StoredOverLast'
  <2> SUFFICES ASSUME NEW u \in Ticket, NEW v \in 2 .. Newest(u)', ledger'[u][v].by = Me
               PROVE  ledger'[u][v].base = [ticket |-> u, version |-> v - 1]
    BY DEF StoredOverLast
  <2>1. CASE u = t /\ v = Newest(t) + 1
    BY <2>1, <1>1, <1>2, <1>4, <1>5
  <2>2. CASE ~(u = t /\ v = Newest(t) + 1)
    <3>1. v \in 2 .. Newest(u) /\ ledger'[u][v] = ledger[u][v]
      <4>1. CASE u = t
        <5>1. v \in 2 .. Newest(t) + 1 /\ Newest(t) \in Nat
          BY <4>1, <1>2, <1>6
        <5>2. v \in 2 .. Newest(t)
          BY <5>1, <4>1, <2>2
        <5> QED
          <6>1. v \in 1 .. Newest(t)
            BY <5>1, <5>2
          <6>2. Append(ledger[t], new)[v] = ledger[t][v]
            BY <6>1, <1>4
          <6> QED
            BY <4>1, <5>2, <6>2, <1>5
      <4>2. CASE u # t
        BY <4>2, <1>5, <1>6
      <4> QED
        BY <4>1, <4>2
    <3> QED
      BY <3>1, <1>2 DEF StoredOverLast
  <2> QED
    BY <2>1, <2>2
<1>8. /\ notices' \in [Ticket -> SUBSET Nat]
      /\ Newest(t) + 1 \in notices'[t]
      /\ \A u \in Ticket : u # t => notices'[u] = notices[u]
  BY <1>2, <1>3
<1> QED
  BY <1>2, <1>5, <1>6, <1>7, <1>8

\* The parts of the invariant about versions survive a version being stored.
LEMMA StoreKeepsRest ==
  ASSUME SupportInv, NEW t \in Ticket,
         \A u \in Ticket : Newest(u)' \in Nat /\ Newest(u)' >= Newest(u),
         \A u \in Ticket : u # t => Newest(u)' = Newest(u) /\ notices'[u] = notices[u],
         Newest(t)' \in notices'[t],
         UNCHANGED <<selected, filled, refresh, heard>>
  PROVE  /\ (\A u \in Ticket : Newest(u) > 0)'
         /\ PageIsSound'
         /\ (\A r \in Refresh : refresh[r].step = "served" =>
                refresh[r].version > 0 /\ refresh[r].version <= Newest(refresh[r].ticket))'
         /\ (\A u \in Ticket : Informed(u))'
<1>1. SupportTypes
  BY DEF SupportInv
<1>2. \A u \in Ticket : Newest(u) \in Nat /\ Newest(u) > 0
  BY <1>1, SupportStates DEF SupportInv
<1>3. (\A u \in Ticket : Newest(u) > 0)'
  BY <1>2
<1>4. PageIsSound'
  <2> SUFFICES ASSUME selected.version > 0
               PROVE  selected.version <= Newest(selected.ticket)' /\ filled = selected
    BY DEF PageIsSound
  <2>1. selected.ticket \in Ticket /\ selected.version \in Nat
    BY <1>1, SupportStates
  <2>2. selected.version <= Newest(selected.ticket) /\ filled = selected
    BY DEF SupportInv, PageIsSound
  <2> QED
    BY <1>2, <2>1, <2>2
<1>5. ASSUME NEW r \in Refresh, refresh[r].step = "served"
      PROVE  refresh[r].version > 0 /\ refresh[r].version <= Newest(refresh[r].ticket)'
  <2>1. /\ refresh[r].version > 0 /\ refresh[r].version <= Newest(refresh[r].ticket)
        /\ refresh[r].ticket \in Ticket /\ refresh[r].version \in Nat
    BY <1>1, <1>5, SupportStates DEF SupportInv, RequestsAreSound
  <2> QED
    BY <1>2, <2>1
<1>6. ASSUME NEW u \in Ticket
      PROVE  Informed(u)'
  <2>1. CASE u = t
    BY <2>1 DEF Informed
  <2>2. CASE u # t
    <3>1. Informed(u) /\ Newest(u)' = Newest(u) /\ notices'[u] = notices[u]
      BY <2>2 DEF SupportInv
    <3> QED
      BY <3>1 DEF Informed
  <2> QED
    BY <2>1, <2>2
<1> QED
  BY <1>3, <1>4, <1>5, <1>6

\* A version of a ticket is shown: the form is filled from it.
LEMMA SyncKeeps ==
  ASSUME SupportInv, NEW t \in Ticket, NEW v \in 1 .. Newest(t), SyncTicket(t, v),
         UNCHANGED ledger
  PROVE  /\ selected' \in {Closed} \union [ticket : Ticket, version : Nat \ {0}]
         /\ form' \in [Field -> Value] /\ editAssignee' \in Assignee
         /\ filled' \in {Closed} \union [ticket : Ticket, version : Nat]
         /\ heard' \in [Ticket -> Nat]
         /\ \A u \in Ticket : heard'[u] >= heard[u]
         /\ heard'[t] >= v
         /\ PageIsSound'
<1>1. /\ ledger[t] \in Seq(Version) /\ heard \in [Ticket -> Nat]
      /\ v \in 1 .. Len(ledger[t]) /\ v \in Nat \ {0}
  BY DEF SupportInv, SupportTypes, Newest
<1>2. ledger[t][v] \in Version
  BY <1>1
<1>3. form' \in [Field -> Value] /\ editAssignee' \in Assignee
  BY <1>2 DEF SyncTicket, Version
<1>4. /\ selected' = [ticket |-> t, version |-> v]
      /\ filled' = selected'
  BY DEF SyncTicket
<1>5. /\ heard' \in [Ticket -> Nat]
      /\ \A u \in Ticket : heard'[u] >= heard[u]
      /\ heard'[t] >= v
  BY <1>1 DEF SyncTicket, Hear
<1>6. PageIsSound'
  BY <1>1, <1>4 DEF PageIsSound, Newest
<1> QED
  BY <1>1, <1>3, <1>4, <1>5, <1>6

\* Asking for a ticket takes a refresh that was not under way.
LEMMA RefreshKeeps ==
  ASSUME SupportInv, NEW t \in Ticket, RefreshTicket(t)
  PROVE  /\ refresh' \in [Refresh -> RefreshStates]
         /\ \A r \in Refresh : refresh'[r] = refresh[r] \/ refresh[r] = Ready
         /\ \A r \in Refresh : refresh'[r].step = "served" => refresh'[r] = refresh[r]
         /\ \E r \in Refresh : refresh'[r] = [step |-> "sent", ticket |-> t]
<1>1. PICK r \in Refresh :
         /\ refresh[r] = Ready
         /\ refresh' = [refresh EXCEPT ![r] = [step |-> "sent", ticket |-> t]]
  BY DEF RefreshTicket
<1>2. refresh \in [Refresh -> RefreshStates]
      /\ [step |-> "sent", ticket |-> t] \in RefreshStates
  BY DEF SupportInv, SupportTypes, RefreshStates
<1> QED
  BY <1>1, <1>2

\* Nothing that informs the page of a ticket is lost by a step that stores no
\* version, if what it hears, is told of and asks for grows.
LEMMA StillInformed ==
  ASSUME NEW t \in Ticket, Informed(t), Newest(t)' = Newest(t), Newest(t) \in Nat,
         heard[t] \in Nat, heard'[t] \in Nat, heard'[t] >= heard[t],
         notices[t] \subseteq notices'[t],
         \A r \in Refresh : refresh'[r] = refresh[r] \/ refresh[r] = Ready
  PROVE  Informed(t)'
BY DEF Informed

\* What every step keeps that stores no version: it is enough that what the page
\* shows, the requests and what informs it are as they should be.
LEMMA QuietKeeps ==
  ASSUME SupportInv, UNCHANGED ledger, SupportTypes', PageIsSound',
         \A b \in Button : call'[b] = call[b] \/ call'[b].step \notin {"sent", "served"},
         \A r \in Refresh : refresh'[r].step = "served" => refresh'[r] = refresh[r],
         (\A t \in Ticket : Informed(t))'
  PROVE  SupportInv'
<1>1. \A t \in Ticket : Newest(t)' = Newest(t)
  BY DEF Newest
<1>2. (\A t \in Ticket : Newest(t) > 0)' /\ StoredOverLast'
  BY <1>1 DEF SupportInv, StoredOverLast
<1>3. RequestsAreSound'
  BY DEF SupportInv, RequestsAreSound, Newest
<1> QED
  BY <1>2, <1>3 DEF SupportInv

\* Opening a row and closing the ticket.
LEMMA OpenKeepsSupportInv ==
  ASSUME SupportInv, NEW t \in Ticket, NEW v \in 1 .. Newest(t), OpenTicket(t, v)
  PROVE  SupportInv'
<1>1. SyncTicket(t, v) /\ RefreshTicket(t) /\ UNCHANGED <<ledger, call, notices>>
  BY DEF OpenTicket
<1>2. SupportTypes'
  BY <1>1, SyncKeeps, RefreshKeeps DEF SupportInv, SupportTypes
<1>3. \A u \in Ticket : Newest(u)' = Newest(u) /\ Newest(u) \in Nat
  BY <1>1, SupportStates DEF SupportInv, Newest
<1>4. ASSUME NEW u \in Ticket
      PROVE  Informed(u)'
  <2>1. /\ heard[u] \in Nat /\ heard'[u] \in Nat /\ heard'[u] >= heard[u]
        /\ notices[u] \subseteq notices'[u]
        /\ \A r \in Refresh : refresh'[r] = refresh[r] \/ refresh[r] = Ready
    BY <1>1, <1>2, SyncKeeps, RefreshKeeps DEF SupportInv, SupportTypes
  <2> QED
    BY <2>1, <1>3, StillInformed DEF SupportInv
<1> QED
  BY <1>1, <1>2, <1>4, SyncKeeps, RefreshKeeps, QuietKeeps

\* Closing, editing, and the button that is ready again: nothing stored, told
\* of or asked for changes.
LEMMA FormKeepsSupportInv ==
  ASSUME SupportInv,
         \/ CloseTicket
         \/ \E f \in Field, x \in Value : EditField(f, x)
         \/ \E a \in Assignee : EditAssignee(a)
         \/ \E b \in Button : CallFinished(b)
  PROVE  SupportInv'
<1>1. UNCHANGED <<ledger, refresh, notices, heard, filled>>
  BY DEF CloseTicket, EditField, EditAssignee, CallFinished
<1>2. SupportTypes'
  <2>1. CASE CloseTicket
    BY <2>1 DEF SupportInv, SupportTypes, CloseTicket
  <2>2. CASE \E f \in Field, x \in Value : EditField(f, x)
    BY <2>2 DEF SupportInv, SupportTypes, EditField
  <2>3. CASE \E a \in Assignee : EditAssignee(a)
    BY <2>3 DEF SupportInv, SupportTypes, EditAssignee
  <2>4. CASE \E b \in Button : CallFinished(b)
    BY <2>4 DEF SupportInv, SupportTypes, CallFinished, CallStates
  <2> QED
    BY <2>1, <2>2, <2>3, <2>4
<1>3. selected' \in {selected, Closed}
  BY DEF CloseTicket, EditField, EditAssignee, CallFinished
<1>4. PageIsSound'
  BY <1>1, <1>3 DEF SupportInv, PageIsSound, Closed, Newest
<1>5. \A b \in Button : call'[b] = call[b] \/ call'[b].step \notin {"sent", "served"}
  <2>1. CASE \E b \in Button : CallFinished(b)
    BY <2>1 DEF CallFinished, Ready, SupportInv, SupportTypes
  <2>2. CASE ~ \E b \in Button : CallFinished(b)
    BY <2>2 DEF CloseTicket, EditField, EditAssignee
  <2> QED
    BY <2>1, <2>2
<1>6. (\A t \in Ticket : Informed(t))'
  BY <1>1 DEF SupportInv, Informed, Newest
<1> QED
  BY <1>1, <1>2, <1>4, <1>5, <1>6, QuietKeeps

\* A button sends what it does over the version the page shows.
LEMMA PressKeeps ==
  ASSUME SupportInv, selected # Closed, NEW b \in Button,
         NEW values \in [Field -> Value], NEW assignee \in Assignee,
         NEW base, base = selected, Press(b, values, assignee, base)
  PROVE  SupportInv'
<1> DEFINE sent == [step |-> "sent", ticket |-> selected.ticket,
                    expected |-> selected.version, values |-> values,
                    assignee |-> assignee, base |-> base]
<1>1. /\ selected \in [ticket : Ticket, version : Nat \ {0}]
      /\ base = [ticket |-> selected.ticket, version |-> selected.version]
  BY DEF SupportInv, SupportTypes
<1>2. sent \in CallStates /\ sent.step = "sent"
      /\ sent.base = [ticket |-> sent.ticket, version |-> sent.expected]
  BY <1>1 DEF CallStates
<1>3. /\ call' = [call EXCEPT ![b] = sent]
      /\ UNCHANGED <<ledger, selected, form, editAssignee, filled, refresh, notices, heard>>
  BY DEF Press
<1> HIDE DEF sent
<1>4. SupportTypes'
  BY <1>2, <1>3 DEF SupportInv, SupportTypes
<1>5. RequestsAreSound'
  BY <1>2, <1>3 DEF SupportInv, SupportTypes, RequestsAreSound, Newest
<1> QED
  BY <1>3, <1>4, <1>5 DEF SupportInv, PageIsSound, StoredOverLast, Informed, Newest

\* The buttons: the form was filled from the version the page shows.
LEMMA ButtonsKeepSupportInv ==
  ASSUME SupportInv, SaveTicket \/ AssignToMe \/ SaveAssignment
  PROVE  SupportInv'
<1>1. selected # Closed
  BY DEF SaveTicket, AssignToMe, SaveAssignment, IsAssignedToMe, Closed
<1>2. /\ selected \in [ticket : Ticket, version : Nat \ {0}]
      /\ selected.version <= Newest(selected.ticket) /\ filled = selected
  BY <1>1 DEF SupportInv, SupportTypes, PageIsSound
<1>3. Shown \in Version
  BY <1>2 DEF SupportInv, SupportTypes, Shown, Newest
<1>4. Shown.values \in [Field -> Value]
  BY <1>3 DEF Version
<1>5. form \in [Field -> Value] /\ editAssignee \in Assignee /\ Me \in Assignee
  BY DEF SupportInv, SupportTypes, Assignee
<1>6. "save" \in Button /\ "assign" \in Button
  BY DEF Button
<1>7. CASE SaveTicket
  BY <1>1, <1>2, <1>5, <1>6, <1>7, PressKeeps DEF SaveTicket
<1>8. CASE AssignToMe
  BY <1>1, <1>2, <1>4, <1>5, <1>6, <1>8, PressKeeps DEF AssignToMe
<1>9. CASE SaveAssignment
  BY <1>1, <1>2, <1>4, <1>5, <1>6, <1>9, PressKeeps DEF SaveAssignment
<1> QED
  BY <1>7, <1>8, <1>9

\* The service takes a request only over the newest version.
LEMMA ServeCallKeepsSupportInv ==
  ASSUME SupportInv, NEW b \in Button, ServeCall(b)
  PROVE  SupportInv'
<1> DEFINE w == call[b]
<1>1. /\ w.step = "sent" /\ w.ticket \in Ticket /\ w.expected \in Nat
      /\ w.values \in [Field -> Value] /\ w.assignee \in Assignee
      /\ w.base \in [ticket : Ticket, version : Nat]
      /\ w.base = [ticket |-> w.ticket, version |-> w.expected]
  BY SupportStates DEF SupportInv, ServeCall, RequestsAreSound
<1>0. PICK t \in Ticket : t = w.ticket
  BY <1>1
<1>2. UNCHANGED <<selected, form, editAssignee, filled, refresh, heard>>
  BY DEF ServeCall
<1>3. \A v \in Nat : [step |-> "served", ticket |-> w.ticket, version |-> v] \in CallStates
  BY <1>1 DEF CallStates
<1>4. \A u \in Ticket : Newest(u) \in Nat /\ Newest(u) > 0
  BY SupportStates DEF SupportInv
<1>5. CASE /\ call' = [call EXCEPT ![b] =
                         [step |-> "served", ticket |-> w.ticket, version |-> 0]]
           /\ UNCHANGED <<ledger, notices>>
  <2>1. SupportTypes'
    BY <1>2, <1>3, <1>5 DEF SupportInv, SupportTypes
  <2>2. RequestsAreSound'
    BY <1>1, <1>2, <1>4, <1>5 DEF SupportInv, SupportTypes, RequestsAreSound, Newest
  <2> QED
    BY <2>1, <2>2, <1>2, <1>5 DEF SupportInv, PageIsSound, StoredOverLast, Informed, Newest
<1>6. CASE /\ Accepts(b, w)
           /\ IF b = "save"
                THEN Store(w.ticket, w.values, ledger[w.ticket][Newest(w.ticket)].assignee,
                           Me, w.base)
                ELSE Store(w.ticket, ledger[w.ticket][Newest(w.ticket)].values, w.assignee,
                           Me, w.base)
           /\ \E version \in {Newest(w.ticket) + 1, 0} :
                 call' = [call EXCEPT ![b] =
                            [step |-> "served", ticket |-> w.ticket, version |-> version]]
  <2>1. /\ ledger[t][Newest(t)].assignee \in Assignee
        /\ ledger[t][Newest(t)].values \in [Field -> Value]
    <3>1. ledger[t][Newest(t)] \in Version
      BY <1>1, <1>4 DEF SupportInv, SupportTypes, Newest
    <3> QED
      BY <3>1 DEF Version
  <2>2. w.base = [ticket |-> t, version |-> Newest(t)]
    BY <1>1, <1>6, <1>0 DEF Accepts
  <2>3. PICK values \in [Field -> Value], assignee \in Assignee :
           Store(t, values, assignee, Me, w.base)
    BY <1>1, <1>6, <1>0, <2>1
  <2>4. Me \in Assignee \union {Nobody}
    BY DEF Assignee
  <2>5. /\ ledger' \in [Ticket -> Seq(Version)]
        /\ notices' \in [Ticket -> SUBSET Nat]
        /\ \A u \in Ticket : Newest(u)' \in Nat /\ Newest(u)' >= Newest(u)
        /\ StoredOverLast'
        /\ \A u \in Ticket : u # t => Newest(u)' = Newest(u) /\ notices'[u] = notices[u]
        /\ Newest(t)' = Newest(t) + 1
        /\ Newest(t)' \in notices'[t]
    <3> HIDE DEF w
    <3> QED
      BY <1>1, <1>0, <2>2, <2>3, <2>4, StoreKeeps
  <2>6. /\ (\A u \in Ticket : Newest(u) > 0)'
        /\ PageIsSound'
        /\ (\A r \in Refresh : refresh[r].step = "served" =>
               refresh[r].version > 0 /\ refresh[r].version <= Newest(refresh[r].ticket))'
        /\ (\A u \in Ticket : Informed(u))'
    <3> HIDE DEF w
    <3> QED
      BY <1>1, <1>2, <2>5, StoreKeepsRest
  <2>7. PICK version \in {Newest(t) + 1, 0} :
           call' = [call EXCEPT ![b] =
                      [step |-> "served", ticket |-> t, version |-> version]]
    BY <1>6, <1>0
  <2>8. version \in Nat
    BY <1>1, <1>4, <2>7
  <2>9. SupportTypes'
    <3>1. call' \in [Button -> CallStates]
      BY <1>3, <1>0, <2>7, <2>8 DEF SupportInv, SupportTypes
    <3> QED
      BY <1>2, <2>5, <3>1 DEF SupportInv, SupportTypes
  <2>10. ASSUME NEW c \in Button
         PROVE  /\ call'[c].step = "sent" =>
                     call'[c].base = [ticket |-> call'[c].ticket, version |-> call'[c].expected]
                /\ call'[c].step = "served" => (call[c].version <= Newest(call[c].ticket))'
    <3>1. CASE c = b
      <4>1. call'[c] = [step |-> "served", ticket |-> t, version |-> version]
        BY <3>1, <2>7 DEF SupportInv, SupportTypes
      <4>2. /\ call'[c].step = "served" /\ call'[c].ticket = t
            /\ call'[c].version = version
        BY <4>1
      <4>3. version <= Newest(t)'
        BY <1>1, <1>4, <2>5, <2>7
      <4>4. Newest(t)' = Len(ledger'[t])
        BY <2>5 DEF Newest
      <4> QED
        BY <4>2, <4>3, <3>1 DEF Newest
    <3>2. CASE c # b
      <4>1. call'[c] = call[c]
        BY <3>2, <2>7 DEF SupportInv, SupportTypes
      <4>2. call[c].step = "served" => call[c].ticket \in Ticket /\ call[c].version \in Nat
        BY SupportStates DEF SupportInv
      <4>3. call[c].step = "served" => call[c].version <= Newest(call[c].ticket)
        BY DEF SupportInv, RequestsAreSound
      <4>4. \A u \in Ticket : Len(ledger'[u]) \in Nat /\ Len(ledger'[u]) >= Newest(u)
        BY <2>5 DEF Newest
      <4>5. call[c].step = "served" => call[c].version <= Len(ledger'[call[c].ticket])
        BY <1>4, <4>2, <4>3, <4>4
      <4> QED
        BY <4>1, <4>5 DEF SupportInv, RequestsAreSound, Newest
    <3> QED
      BY <3>1, <3>2
  <2>11. RequestsAreSound'
    BY <2>6, <2>10 DEF RequestsAreSound
  <2> QED
    BY <2>5, <2>6, <2>9, <2>11 DEF SupportInv
<1> QED
  BY <1>5, <1>6 DEF ServeCall

\* An answer: the version that was stored is shown, or the ticket is read again.
LEMMA CallAnsweredKeepsSupportInv ==
  ASSUME SupportInv, NEW b \in Button, CallAnswered(b)
  PROVE  SupportInv'
<1> DEFINE w == call[b]
<1>1. /\ w.step = "served" /\ w.ticket \in Ticket /\ w.version \in Nat
      /\ w.version <= Newest(w.ticket)
  BY SupportStates DEF SupportInv, CallAnswered, RequestsAreSound
<1>2. /\ call' = [call EXCEPT ![b] = [step |-> "listing"]]
      /\ UNCHANGED <<ledger, notices>>
  BY DEF CallAnswered
<1>3. call' \in [Button -> CallStates]
      /\ \A c \in Button : call'[c] = call[c] \/ call'[c].step \notin {"sent", "served"}
  BY <1>2 DEF SupportInv, SupportTypes, CallStates
<1>4. \A u \in Ticket : Newest(u)' = Newest(u) /\ Newest(u) \in Nat
  BY <1>2, SupportStates DEF SupportInv, Newest
<1>5. CASE w.version > 0 /\ SyncTicket(w.ticket, w.version) /\ UNCHANGED refresh
  <2>1. w.version \in 1 .. Newest(w.ticket)
    BY <1>1, <1>4, <1>5
  <2>2. /\ selected' \in {Closed} \union [ticket : Ticket, version : Nat \ {0}]
        /\ form' \in [Field -> Value] /\ editAssignee' \in Assignee
        /\ filled' \in {Closed} \union [ticket : Ticket, version : Nat]
        /\ heard' \in [Ticket -> Nat]
        /\ \A u \in Ticket : heard'[u] >= heard[u]
        /\ PageIsSound'
    <3> HIDE DEF w
    <3> QED
      BY <1>1, <1>2, <1>5, <2>1, SyncKeeps
  <2>3. SupportTypes'
    BY <1>2, <1>3, <1>5, <2>2 DEF SupportInv, SupportTypes
  <2>4. ASSUME NEW u \in Ticket PROVE Informed(u)'
    <3>1. /\ heard[u] \in Nat /\ heard'[u] \in Nat /\ heard'[u] >= heard[u]
          /\ notices[u] \subseteq notices'[u]
          /\ \A r \in Refresh : refresh'[r] = refresh[r] \/ refresh[r] = Ready
      BY <1>2, <1>5, <2>2 DEF SupportInv, SupportTypes
    <3> QED
      BY <3>1, <1>4, StillInformed DEF SupportInv
  <2> QED
    BY <1>2, <1>3, <1>5, <2>2, <2>3, <2>4, QuietKeeps
<1>6. CASE /\ RefreshTicket(w.ticket)
           /\ UNCHANGED <<selected, form, editAssignee, filled, heard>>
  <2>1. /\ refresh' \in [Refresh -> RefreshStates]
        /\ \A r \in Refresh : refresh'[r] = refresh[r] \/ refresh[r] = Ready
        /\ \A r \in Refresh : refresh'[r].step = "served" => refresh'[r] = refresh[r]
    <3> HIDE DEF w
    <3> QED
      BY <1>1, <1>6, RefreshKeeps
  <2>2. SupportTypes'
    BY <1>2, <1>3, <1>6, <2>1 DEF SupportInv, SupportTypes
  <2>3. PageIsSound'
    BY <1>2, <1>6 DEF SupportInv, PageIsSound, Newest
  <2>4. ASSUME NEW u \in Ticket PROVE Informed(u)'
    <3>1. /\ heard[u] \in Nat /\ heard'[u] \in Nat /\ heard'[u] >= heard[u]
          /\ notices[u] \subseteq notices'[u]
      BY <1>2, <1>6 DEF SupportInv, SupportTypes
    <3> QED
      BY <3>1, <2>1, <1>4, StillInformed DEF SupportInv
  <2> QED
    BY <1>2, <1>3, <2>1, <2>2, <2>3, <2>4, QuietKeeps
<1> QED
  BY <1>5, <1>6 DEF CallAnswered

\* A refresh finds the newest version, and shows it or fails.
LEMMA RefreshesKeepSupportInv ==
  ASSUME SupportInv, NEW r \in Refresh,
         ServeRefresh(r) \/ RefreshAnswered(r) \/ RefreshFails(r)
  PROVE  SupportInv'
<1>1. /\ refresh[r] # Ready /\ refresh[r].ticket \in Ticket
      /\ refresh[r].step = "served" =>
            /\ refresh[r].version \in Nat /\ refresh[r].version > 0
            /\ refresh[r].version <= Newest(refresh[r].ticket)
  BY SupportStates DEF SupportInv, RequestsAreSound, ServeRefresh, RefreshAnswered, RefreshFails
<1>2. /\ UNCHANGED <<ledger, call, notices>>
  BY DEF ServeRefresh, RefreshAnswered, RefreshFails
<1>3. \A u \in Ticket : Newest(u)' = Newest(u) /\ Newest(u) \in Nat /\ Newest(u) > 0
  BY <1>2, SupportStates DEF SupportInv, Newest
<1> DEFINE t == refresh[r].ticket
<1>4. CASE ServeRefresh(r)
  <2> DEFINE served == [step |-> "served", ticket |-> t, version |-> Newest(t)]
  <2>1. served \in RefreshStates /\ served # Ready /\ served.ticket = t
        /\ served.version = Newest(t)
    BY <1>1, <1>3 DEF RefreshStates, Ready
  <2>2. /\ refresh' = [refresh EXCEPT ![r] = served]
        /\ UNCHANGED <<selected, form, editAssignee, filled, heard>>
    BY <1>4 DEF ServeRefresh
  <2> HIDE DEF served
  <2>3. SupportTypes'
    BY <1>2, <2>1, <2>2 DEF SupportInv, SupportTypes
  <2>4. /\ refresh'[r] = served /\ \A q \in Refresh : q # r => refresh'[q] = refresh[q]
    BY <2>2 DEF SupportInv, SupportTypes
  <2>5. RequestsAreSound'
    BY <1>1, <1>2, <1>3, <2>1, <2>4 DEF SupportInv, RequestsAreSound, Newest
  <2>6. ASSUME NEW u \in Ticket PROVE Informed(u)'
    <3>1. Informed(u)
      BY DEF SupportInv
    <3> QED
      BY <3>1, <1>2, <1>3, <2>1, <2>2, <2>4 DEF Informed
  <2> QED
    BY <1>2, <1>3, <2>2, <2>3, <2>5, <2>6 DEF SupportInv, PageIsSound, StoredOverLast, Newest
<1>5. CASE RefreshAnswered(r) \/ RefreshFails(r)
  <2>1. /\ refresh' = [refresh EXCEPT ![r] = Ready]
        /\ RefreshAnswered(r) => refresh[r].step = "served"
    BY <1>5 DEF RefreshAnswered, RefreshFails
  <2>2. /\ refresh' \in [Refresh -> RefreshStates] /\ refresh'[r] = Ready
        /\ \A q \in Refresh : q # r => refresh'[q] = refresh[q]
    BY <2>1 DEF SupportInv, SupportTypes, RefreshStates
  <2>3. /\ selected' \in {Closed} \union [ticket : Ticket, version : Nat \ {0}]
        /\ form' \in [Field -> Value] /\ editAssignee' \in Assignee
        /\ filled' \in {Closed} \union [ticket : Ticket, version : Nat]
        /\ heard' \in [Ticket -> Nat]
        /\ \A u \in Ticket : heard'[u] >= heard[u]
        /\ PageIsSound'
        /\ refresh[r].step = "served" /\ refresh[r].version = Newest(t) => heard'[t] >= Newest(t)
        /\ refresh[r].step # "served" => heard'[t] >= Newest(t)
    <3>1. CASE RefreshAnswered(r)
      <4>1. /\ refresh[r].version \in 1 .. Newest(t) /\ SyncTicket(t, refresh[r].version)
            /\ t \in Ticket /\ refresh[r].step = "served"
        BY <1>1, <1>3, <2>1, <3>1 DEF RefreshAnswered
      <4> HIDE DEF t
      <4> QED
        BY <4>1, <1>2, SyncKeeps
    <3>2. CASE RefreshFails(r)
      <4>1. /\ selected' = Closed /\ Hear(t, Newest(t))
            /\ UNCHANGED <<form, editAssignee, filled>>
        BY <3>2 DEF RefreshFails
      <4>2. t \in Ticket /\ Newest(t) \in Nat
        BY <1>1, <1>3
      <4> HIDE DEF t
      <4>3. /\ heard' \in [Ticket -> Nat]
            /\ \A u \in Ticket : heard'[u] >= heard[u]
            /\ heard'[t] >= Newest(t)
        BY <4>1, <4>2 DEF Hear, SupportInv, SupportTypes
      <4>4. PageIsSound'
        BY <4>1 DEF PageIsSound, Closed
      <4> QED
        BY <4>1, <4>3, <4>4 DEF SupportInv, SupportTypes
    <3> QED
      BY <1>5, <3>1, <3>2
  <2>4. SupportTypes'
    BY <1>2, <2>2, <2>3 DEF SupportInv, SupportTypes
  <2>5. ASSUME NEW u \in Ticket PROVE Informed(u)'
    <3>1. Informed(u) /\ heard[u] \in Nat /\ heard'[u] \in Nat
      BY <2>3 DEF SupportInv, SupportTypes
    <3>2. CASE heard'[u] >= Newest(u)
      BY <3>2, <1>3 DEF Informed
    <3>3. CASE ~(heard'[u] >= Newest(u))
      <4>1. ~(heard[u] >= Newest(u))
        BY <3>1, <3>3, <2>3, <1>3
      <4>2. ASSUME NEW q \in Refresh, refresh[q] # Ready, refresh[q].ticket = u,
                   refresh[q].step = "served" => refresh[q].version = Newest(u)
            PROVE  q # r
        BY <4>2, <2>3, <3>3
      <4> QED
        BY <3>1, <4>1, <4>2, <1>2, <1>3, <2>2 DEF Informed
    <3> QED
      BY <3>2, <3>3
  <2>6. \A q \in Refresh : refresh'[q].step = "served" => refresh'[q] = refresh[q]
    BY <2>2 DEF Ready
  <2> QED
    BY <1>2, <2>3, <2>4, <2>5, <2>6, QuietKeeps
<1> QED
  BY <1>4, <1>5

\* An event of a version: it has the open ticket read again, or is heard.
LEMMA EventsKeepSupportInv ==
  ASSUME SupportInv, NEW t \in Ticket, NEW v \in notices[t],
         TicketUpdated(t, v) \/ LoseTicketUpdated(t, v)
  PROVE  SupportInv'
<1>1. /\ UNCHANGED <<ledger, selected, form, editAssignee, filled, call>>
      /\ notices' = [notices EXCEPT ![t] = @ \ {v}]
  BY DEF TicketUpdated, LoseTicketUpdated
<1>2. /\ notices \in [Ticket -> SUBSET Nat] /\ heard \in [Ticket -> Nat] /\ v \in Nat
      /\ refresh \in [Refresh -> RefreshStates]
      /\ \A u \in Ticket : Newest(u) \in Nat
  BY SupportStates DEF SupportInv, SupportTypes
<1>3. /\ notices' \in [Ticket -> SUBSET Nat]
      /\ \A u \in Ticket : \A n \in notices[u] : n \in notices'[u] \/ (u = t /\ n = v)
  BY <1>1, <1>2
<1>4. /\ refresh' \in [Refresh -> RefreshStates]
      /\ \A q \in Refresh : refresh'[q] = refresh[q] \/ refresh[q] = Ready
      /\ \A q \in Refresh : refresh'[q].step = "served" => refresh'[q] = refresh[q]
      /\ heard' \in [Ticket -> Nat] /\ \A u \in Ticket : heard'[u] >= heard[u]
      /\ \/ heard'[t] >= v
         \/ \E q \in Refresh : refresh'[q] = [step |-> "sent", ticket |-> t]
  <2>1. CASE RefreshTicket(t) /\ UNCHANGED heard
    BY <2>1, <1>2, RefreshKeeps
  <2>2. CASE Hear(t, v) /\ UNCHANGED refresh
    BY <2>2, <1>2 DEF Hear
  <2> QED
    BY <2>1, <2>2 DEF TicketUpdated, LoseTicketUpdated
<1>5. SupportTypes'
  BY <1>1, <1>3, <1>4 DEF SupportInv, SupportTypes
<1>6. ASSUME NEW u \in Ticket PROVE Informed(u)'
  <2>1. /\ Informed(u) /\ Newest(u)' = Newest(u)
        /\ heard[u] \in Nat /\ heard'[u] \in Nat /\ heard'[u] >= heard[u]
    BY <1>1, <1>2, <1>4 DEF SupportInv, Newest
  <2>2. CASE Newest(u) \in notices[u] /\ u = t /\ Newest(u) = v
    <3>1. CASE heard'[t] >= v
      BY <2>1, <2>2, <3>1 DEF Informed
    <3>2. ASSUME NEW q \in Refresh, refresh'[q] = [step |-> "sent", ticket |-> t]
          PROVE  Informed(u)'
      <4>1. /\ refresh'[q] # Ready /\ refresh'[q].ticket = u /\ refresh'[q].step # "served"
        BY <2>2, <3>2 DEF Ready
      <4> QED
        BY <4>1, <2>1 DEF Informed, Ready
    <3> QED
      BY <1>4, <3>1, <3>2
  <2>3. CASE ~(Newest(u) \in notices[u] /\ u = t /\ Newest(u) = v)
    BY <2>1, <2>3, <1>2, <1>3, <1>4 DEF Informed
  <2> QED
    BY <2>2, <2>3
<1>7. PageIsSound'
  BY <1>1 DEF SupportInv, PageIsSound, Newest
<1> QED
  BY <1>1, <1>4, <1>5, <1>6, <1>7, QuietKeeps

\* The other admins store versions too.
LEMMA OtherAdminKeepsSupportInv ==
  ASSUME SupportInv, NEW t \in Ticket, OtherAdmin(t)
  PROVE  SupportInv'
<1> DEFINE now == ledger[t][Newest(t)]
<1>1. UNCHANGED <<selected, form, editAssignee, filled, call, refresh, heard>>
  BY DEF OtherAdmin
<1>2. \A u \in Ticket : Newest(u) \in Nat /\ Newest(u) > 0
  BY SupportStates DEF SupportInv
<1>3. now \in Version
  BY <1>2 DEF SupportInv, SupportTypes, Newest
<1>4. now.values \in [Field -> Value] /\ now.assignee \in Assignee
  BY <1>3 DEF Version
<1>5. PICK values \in [Field -> Value], assignee \in Assignee, by \in Assignee \union {Nobody} :
         Store(t, values, assignee, by, Closed) /\ by # Me
  <2>1. ASSUME NEW a \in Assignee, Store(t, now.values, a, Nobody, Closed)
        PROVE  \E values \in [Field -> Value], assignee \in Assignee,
                  by \in Assignee \union {Nobody} :
                  Store(t, values, assignee, by, Closed) /\ by # Me
    <3> HIDE DEF now
    <3> QED
      BY <2>1, <1>4, SupportConstants
  <2>2. ASSUME NEW values \in [Field -> Value], now.assignee \in Other,
               Store(t, values, now.assignee, now.assignee, Closed)
        PROVE  \E v \in [Field -> Value], assignee \in Assignee,
                  by \in Assignee \union {Nobody} :
                  Store(t, v, assignee, by, Closed) /\ by # Me
    <3> HIDE DEF now
    <3> QED
      BY <2>2, <1>4, SupportConstants
  <2> QED
    BY <2>1, <2>2 DEF OtherAdmin
<1> HIDE DEF now
<1>6. /\ ledger' \in [Ticket -> Seq(Version)]
      /\ notices' \in [Ticket -> SUBSET Nat]
      /\ \A u \in Ticket : Newest(u)' \in Nat /\ Newest(u)' >= Newest(u)
      /\ StoredOverLast'
      /\ \A u \in Ticket : u # t => Newest(u)' = Newest(u) /\ notices'[u] = notices[u]
      /\ Newest(t)' \in notices'[t]
  BY <1>5, StoreKeeps
<1>7. /\ (\A u \in Ticket : Newest(u) > 0)'
      /\ PageIsSound'
      /\ (\A r \in Refresh : refresh[r].step = "served" =>
             refresh[r].version > 0 /\ refresh[r].version <= Newest(refresh[r].ticket))'
      /\ (\A u \in Ticket : Informed(u))'
  BY <1>1, <1>6, StoreKeepsRest
<1>8. SupportTypes'
  BY <1>1, <1>6 DEF SupportInv, SupportTypes
<1>9. ASSUME NEW b \in Button, call[b].step = "served"
      PROVE  call[b].version <= Len(ledger'[call[b].ticket])
  <2>1. /\ call[b].ticket \in Ticket /\ call[b].version \in Nat
        /\ call[b].version <= Newest(call[b].ticket)
    BY <1>9, SupportStates DEF SupportInv, RequestsAreSound
  <2>2. \A u \in Ticket : Len(ledger'[u]) \in Nat /\ Len(ledger'[u]) >= Newest(u)
    BY <1>6 DEF Newest
  <2> QED
    BY <1>2, <2>1, <2>2
<1>10. RequestsAreSound'
  BY <1>1, <1>7, <1>9 DEF SupportInv, RequestsAreSound, Newest
<1> QED
  BY <1>6, <1>7, <1>8, <1>10 DEF SupportInv

\* Every step of the page, the service and the other admins keeps the invariant.
LEMMA NextKeepsSupportInv == SupportInv /\ [SupportNext]_supportVars => SupportInv'
<1> SUFFICES ASSUME SupportInv, [SupportNext]_supportVars
             PROVE  SupportInv'
  OBVIOUS
<1>1. ASSUME NEW t \in Ticket,
             \/ \E v \in 1 .. Newest(t) : OpenTicket(t, v)
             \/ \E v \in notices[t] : TicketUpdated(t, v) \/ LoseTicketUpdated(t, v)
             \/ OtherAdmin(t)
      PROVE  SupportInv'
  BY <1>1, OpenKeepsSupportInv, EventsKeepSupportInv, OtherAdminKeepsSupportInv
<1>2. CASE \/ CloseTicket
           \/ \E f \in Field, x \in Value : EditField(f, x)
           \/ \E a \in Assignee : EditAssignee(a)
           \/ \E b \in Button : CallFinished(b)
  BY <1>2, FormKeepsSupportInv
<1>3. CASE SaveTicket \/ AssignToMe \/ SaveAssignment
  BY <1>3, ButtonsKeepSupportInv
<1>4. ASSUME NEW b \in Button, ServeCall(b) \/ CallAnswered(b)
      PROVE  SupportInv'
  BY <1>4, ServeCallKeepsSupportInv, CallAnsweredKeepsSupportInv
<1>5. ASSUME NEW r \in Refresh, ServeRefresh(r) \/ RefreshAnswered(r) \/ RefreshFails(r)
      PROVE  SupportInv'
  BY <1>5, RefreshesKeepSupportInv
<1>6. CASE UNCHANGED supportVars
  BY <1>6 DEF supportVars, SupportInv, SupportTypes, PageIsSound, RequestsAreSound,
              StoredOverLast, Informed, Newest
<1> QED
  BY <1>1, <1>2, <1>3, <1>4, <1>5, <1>6 DEF SupportNext

\* What the invariant says of the page.
LEMMA SupportInvSuffices ==
  ASSUME SupportInv
  PROVE  SavesOnlyEdits /\ TicketIsCurrent
<1>1. SavesOnlyEdits
  <2> SUFFICES ASSUME NEW t \in Ticket, NEW v \in 2 .. Newest(t), ledger[t][v].by = Me
               PROVE  ledger[ledger[t][v].base.ticket][ledger[t][v].base.version]
                        = ledger[t][v - 1]
    BY DEF SavesOnlyEdits
  <2>1. ledger[t][v].base = [ticket |-> t, version |-> v - 1]
    BY DEF SupportInv, StoredOverLast
  <2> QED
    BY <2>1
<1>2. TicketIsCurrent
  <2> SUFFICES ASSUME PageSettled, selected # Closed
               PROVE  \/ selected.version = Newest(selected.ticket)
                      \/ selected.version < heard[selected.ticket]
    BY DEF TicketIsCurrent
  <2>1. /\ selected.ticket \in Ticket /\ selected.version \in Nat \ {0}
        /\ Newest(selected.ticket) \in Nat /\ heard[selected.ticket] \in Nat
    BY SupportStates DEF SupportInv, SupportTypes
  <2>2. selected.version <= Newest(selected.ticket)
    BY <2>1 DEF SupportInv, PageIsSound
  <2>3. Newest(selected.ticket) = 1 \/ heard[selected.ticket] >= Newest(selected.ticket)
    BY <2>1 DEF SupportInv, Informed, PageSettled
  <2> QED
    BY <2>1, <2>2, <2>3
<1> QED
  BY <1>1, <1>2

\* No update of a ticket is lost to a form that was filled before it, and the open
\* ticket is current once nothing is under way, for any number of tickets, admins,
\* fields, refreshes and versions, with lost events, failed requests and answers
\* that come late (syncTicket, refreshTicket, saveTicket of the support page).
THEOREM SupportPageIsSoundHolds == SupportSpec => [](SavesOnlyEdits /\ TicketIsCurrent)
  BY InitSupportInv, NextKeepsSupportInv, SupportInvSuffices, PTL DEF SupportSpec

\* The same, of the behaviours in which TLC explores the page.
THEOREM PartsSupportPageIsSound == MCSpec => []SupportPageIsSound
<1> DEFINE Inv == part = "support" => SupportInv
<1>1. MCInit => Inv
  BY InitSupportInv DEF MCInit
<1>2. Inv /\ [MCNext]_<<part, supportVars, composerVars, chatVars,
                        preferenceVars, bookmarkVars, readingVars>> => Inv'
  BY NextKeepsSupportInv DEF MCNext
<1>3. Inv => SupportPageIsSound
  BY SupportInvSuffices DEF SupportPageIsSound
<1> QED
  BY <1>1, <1>2, <1>3, PTL DEF MCSpec

-----------------------------------------------------------------------------
(***************************************************************************)
(* The composer.                                                           *)
(***************************************************************************)
Requests == {NotSent} \union [step : {"sent", "accepted", "refused"}, id : Nat]

SendStates ==
    [conversation : Conversation, words : SUBSET Word, packet : Requests,
     rest : Requests, result : {"open", "sent", "error", "forgotten"}]

ComposerTypes ==
    /\ active \in Conversation
    /\ draft \in [Conversation -> SUBSET Word]
    /\ location \in {NoLocation}
                    \union [pending : {TRUE}, text : SUBSET Word, key : Conversation]
    /\ connected \in BOOLEAN
    /\ sends \in Seq(SendStates)
    /\ messages \subseteq [conversation : Conversation, id : Nat, words : SUBSET Word]
    /\ writtenFor \in [Written -> Conversation]
    /\ Written \subseteq Word

\* Whatever the page holds, keeps or has sent was written.
WordsAreWritten ==
    /\ text \subseteq Written
    /\ \A c \in Conversation : draft[c] \subseteq Written
    /\ contact \in Written \union {NoWord}
    /\ location.pending => location.text \subseteq Written
    /\ \A i \in DOMAIN sends : sends[i].words \subseteq Written
    /\ moved \subseteq Written

\* A word that no late location has moved is in the composer and the drafts of
\* its conversation only, and once it is sent, in that message only.
IsHome(w) ==
    /\ \A c \in Conversation : w \in draft[c] => writtenFor[w] = c
    /\ w \in text \union {contact} => writtenFor[w] = active
    /\ \A i \in DOMAIN sends : w \in sends[i].words =>
          /\ sends[i].conversation = writtenFor[w]
          /\ w \notin text \union {contact}
          /\ \A c \in Conversation : w \notin draft[c]
          /\ \A j \in DOMAIN sends : w \in sends[j].words => j = i

WordsAreHome == \A w \in Written \ moved : IsHome(w)

\* The requests of a message carry its identifier, the packet goes first if it
\* is not a REST request alone, and what was accepted is stored.
SendIsSound(i) ==
    /\ \A r \in {sends[i].packet, sends[i].rest} : r # NotSent => r.id = i
    /\ sends[i].rest = NotSent => sends[i].packet # NotSent
    /\ \/ sends[i].packet.step = "accepted"
       \/ sends[i].rest.step = "accepted"
       \/ sends[i].result = "sent"
       => \E m \in messages : /\ m.conversation = sends[i].conversation
                              /\ m.words = sends[i].words

SendsAreSound == \A i \in DOMAIN sends : SendIsSound(i)

\* A stored message is the one that was sent with its identifier.
MessagesWereSent ==
    \A m \in messages :
       /\ m.id \in DOMAIN sends
       /\ m.conversation = sends[m.id].conversation
       /\ m.words = sends[m.id].words

ComposerInv ==
    /\ ComposerTypes
    /\ WordsAreWritten
    /\ WordsAreHome
    /\ SendsAreSound
    /\ MessagesWereSent

LEMMA InitComposerInv == ComposerInit => ComposerInv
<1> SUFFICES ASSUME ComposerInit PROVE ComposerInv
  OBVIOUS
<1>1. Written = {}
  BY DEF ComposerInit, Written
<1>2. ComposerTypes
  BY <1>1 DEF ComposerInit, ComposerTypes
<1> QED
  BY <1>1, <1>2 DEF ComposerInit, ComposerInv, WordsAreWritten, WordsAreHome, SendsAreSound,
                   MessagesWereSent, NoLocation

\* A sequence whose elements are replaced.
LEMMA ReplacedSequence ==
  ASSUME NEW S, NEW s \in Seq(S), NEW t, t = [i \in DOMAIN s |-> t[i]],
         \A i \in DOMAIN s : t[i] \in S
  PROVE  t \in Seq(S) /\ DOMAIN t = DOMAIN s
<1>1. DOMAIN s = 1 .. Len(s) /\ Len(s) \in Nat
  OBVIOUS
<1>2. t \in [1 .. Len(s) -> S]
  BY <1>1
<1> QED
  BY <1>1, <1>2

\* What requests and answers change of the messages sent leaves the words
\* where they are.
LEMMA ProgressKeeps ==
  ASSUME ComposerInv,
         sends' = [i \in DOMAIN sends |-> sends'[i]],
         \A i \in DOMAIN sends :
            /\ sends'[i] \in SendStates
            /\ sends'[i].words = sends[i].words
            /\ sends'[i].conversation = sends[i].conversation,
         (\A i \in DOMAIN sends : SendIsSound(i))',
         UNCHANGED <<writtenFor, moved>>,
         active' \in Conversation, connected' \in BOOLEAN,
         draft' = draft, location' \in {location, NoLocation},
         \/ UNCHANGED <<active, text, contact>>
         \/ text' = draft[active'] /\ contact' = NoWord,
         messages \subseteq messages',
         \A m \in messages' : m \in messages \/ \E i \in DOMAIN sends :
            m = [conversation |-> sends[i].conversation, id |-> i, words |-> sends[i].words]
  PROVE  ComposerInv'
<1>1. sends' \in Seq(SendStates) /\ DOMAIN sends' = DOMAIN sends
  BY ReplacedSequence DEF ComposerInv, ComposerTypes
<1>2. Written' = Written
  BY DEF Written
<1>3. \A i \in DOMAIN sends :
         i \in Nat /\ sends[i].conversation \in Conversation /\ sends[i].words \in SUBSET Word
  BY DEF ComposerInv, ComposerTypes, SendStates
<1>4. ComposerTypes'
  <2>1. messages' \subseteq [conversation : Conversation, id : Nat, words : SUBSET Word]
    BY <1>3 DEF ComposerInv, ComposerTypes
  <2>2. location' \in {NoLocation}
                      \union [pending : {TRUE}, text : SUBSET Word, key : Conversation]
    BY DEF ComposerInv, ComposerTypes
  <2> QED
    BY <1>1, <1>2, <2>1, <2>2 DEF ComposerInv, ComposerTypes
<1>5. WordsAreWritten'
  <2>1. text' \subseteq Written /\ contact' \in Written \union {NoWord}
    BY DEF ComposerInv, ComposerTypes, WordsAreWritten
  <2>2. location'.pending => location'.text \subseteq Written
    BY DEF ComposerInv, WordsAreWritten, NoLocation
  <2> QED
    BY <1>1, <1>2, <2>1, <2>2 DEF ComposerInv, WordsAreWritten
<1>6. WordsAreHome'
  <2> SUFFICES ASSUME NEW w \in Written \ moved
               PROVE  IsHome(w)'
    BY <1>2 DEF WordsAreHome
  <2>1. IsHome(w) /\ w # NoWord
    BY ComposerConstants DEF ComposerInv, ComposerTypes, WordsAreHome
  <2>2. CASE UNCHANGED <<active, text, contact>>
    BY <1>1, <2>1, <2>2 DEF IsHome
  <2>3. CASE text' = draft[active'] /\ contact' = NoWord
    BY <1>1, <2>1, <2>3 DEF IsHome
  <2> QED
    BY <2>2, <2>3
<1>7. SendsAreSound'
  BY DEF SendsAreSound
<1>8. MessagesWereSent'
  <2> SUFFICES ASSUME NEW m \in messages'
               PROVE  /\ m.id \in DOMAIN sends
                      /\ m.conversation = sends[m.id].conversation
                      /\ m.words = sends[m.id].words
    BY <1>1 DEF MessagesWereSent
  <2> QED
    BY DEF ComposerInv, MessagesWereSent
<1> QED
  BY <1>4, <1>5, <1>6, <1>7, <1>8 DEF ComposerInv

\* A message sent stays sound while nothing of it changes.
LEMMA StaysSound ==
  ASSUME NEW i, SendIsSound(i), sends'[i] = sends[i], messages \subseteq messages'
  PROVE  SendIsSound(i)'
BY DEF SendIsSound

\* Opening another conversation, or loading the page again.
LEMMA OpenKeepsComposerInv ==
  ASSUME ComposerInv, Reload \/ \E c \in Conversation : OpenConversation(c)
  PROVE  ComposerInv'
<1>1. sends \in Seq(SendStates) /\ DOMAIN sends = 1 .. Len(sends)
  BY DEF ComposerInv, ComposerTypes
<1>2. /\ sends' = [i \in DOMAIN sends |-> sends'[i]]
      /\ \A i \in DOMAIN sends :
            \/ sends'[i] = sends[i]
            \/ sends'[i] = [sends[i] EXCEPT !.result = "forgotten"]
  <2>1. CASE Reload
    BY <2>1 DEF Reload
  <2>2. CASE \E c \in Conversation : OpenConversation(c)
    BY <1>1, <2>2 DEF OpenConversation
  <2> QED
    BY <2>1, <2>2
<1>3. ASSUME NEW i \in DOMAIN sends
      PROVE  /\ sends'[i] \in SendStates
             /\ sends'[i].words = sends[i].words
             /\ sends'[i].conversation = sends[i].conversation
             /\ sends'[i].packet = sends[i].packet /\ sends'[i].rest = sends[i].rest
             /\ sends'[i].result \in {sends[i].result, "forgotten"}
  <2>1. sends[i] \in SendStates
    BY <1>1
  <2> QED
    BY <1>2, <2>1 DEF SendStates
<1>4. UNCHANGED <<messages, draft, connected, writtenFor, moved>>
  BY DEF Reload, OpenConversation
<1>5. (\A i \in DOMAIN sends : SendIsSound(i))'
  BY <1>2, <1>3, <1>4 DEF ComposerInv, SendsAreSound, SendIsSound
<1>6. /\ active' \in Conversation /\ text' = draft[active'] /\ contact' = NoWord
      /\ location' \in {location, NoLocation}
  BY DEF Reload, OpenConversation
<1>7. connected \in BOOLEAN
  BY DEF ComposerInv, ComposerTypes
<1> QED
  BY <1>2, <1>3, <1>4, <1>5, <1>6, <1>7, ProgressKeeps

\* One message sent gets another request, answer or result.
LEMMA OneSendKeeps ==
  ASSUME ComposerInv, NEW i \in DOMAIN sends, NEW s \in SendStates,
         sends' = [sends EXCEPT ![i] = s],
         s.words = sends[i].words, s.conversation = sends[i].conversation,
         SendIsSound(i)',
         messages' = messages \/
         messages' = messages \union
            {[conversation |-> sends[i].conversation, id |-> i, words |-> sends[i].words]},
         UNCHANGED <<active, text, draft, contact, location, connected, writtenFor, moved>>
  PROVE  ComposerInv'
<1>1. sends \in Seq(SendStates) /\ DOMAIN sends = 1 .. Len(sends)
      /\ connected \in BOOLEAN /\ active \in Conversation
  BY DEF ComposerInv, ComposerTypes
<1>2. /\ sends' = [j \in DOMAIN sends |-> sends'[j]]
      /\ sends'[i] = s /\ \A j \in DOMAIN sends : j # i => sends'[j] = sends[j]
  BY <1>1
<1>3. ASSUME NEW j \in DOMAIN sends
      PROVE  /\ sends'[j] \in SendStates
             /\ sends'[j].words = sends[j].words
             /\ sends'[j].conversation = sends[j].conversation
  BY <1>1, <1>2
<1>4. messages \subseteq messages'
  OBVIOUS
<1>5. (\A j \in DOMAIN sends : SendIsSound(j))'
  <2> SUFFICES ASSUME NEW j \in DOMAIN sends
               PROVE  SendIsSound(j)'
    BY <1>2
  <2>1. CASE j # i
    BY <1>2, <1>4, <2>1, StaysSound DEF ComposerInv, SendsAreSound
  <2> QED
    BY <2>1
<1> QED
  BY <1>1, <1>2, <1>3, <1>4, <1>5, ProgressKeeps

\* The backend handles the packet or the REST request: what it stores carries
\* the identifier of the message, whichever way it came.
LEMMA HandleKeepsComposerInv ==
  ASSUME ComposerInv, NEW i \in DOMAIN sends, NEW request \in {"packet", "rest"},
         Handle(i, request)
  PROVE  ComposerInv'
<1>1. PICK outcome \in {"accepted", "refused"} :
         /\ sends[i][request].step = "sent"
         /\ sends' = [sends EXCEPT ![i][request].step = outcome]
         /\ outcome = "accepted" => messages' = messages \union
               {[conversation |-> sends[i].conversation, id |-> sends[i][request].id,
                 words |-> sends[i].words]}
         /\ outcome = "refused" => messages' = messages
         /\ UNCHANGED <<active, text, draft, contact, location, connected, writtenFor, moved>>
  BY DEF Handle
<1>2. sends[i] \in SendStates /\ SendIsSound(i)
  BY DEF ComposerInv, ComposerTypes, SendsAreSound
<1>3. sends[i][request] \in Requests /\ sends[i][request] # NotSent
      /\ sends[i][request].id = i /\ i \in Nat
  <2>1. i \in Nat
    BY DEF ComposerInv, ComposerTypes
  <2>2. CASE request = "packet"
    BY <1>1, <1>2, <2>1, <2>2 DEF SendStates, SendIsSound, NotSent
  <2>3. CASE request = "rest"
    BY <1>1, <1>2, <2>1, <2>3 DEF SendStates, SendIsSound, NotSent
  <2> QED
    BY <2>2, <2>3
<1> DEFINE r == [sends[i][request] EXCEPT !.step = outcome]
           s == [sends[i] EXCEPT ![request] = r]
<1>4. r \in Requests /\ r # NotSent /\ r.id = i /\ r.step = outcome
  BY <1>3 DEF Requests, NotSent
<1>5. sends' = [sends EXCEPT ![i] = s]
  BY <1>1
<1> HIDE DEF r
<1>6. /\ s \in SendStates
      /\ s.words = sends[i].words /\ s.conversation = sends[i].conversation
      /\ s.result = sends[i].result
      /\ \/ s.packet = r /\ s.rest = sends[i].rest
         \/ s.rest = r /\ s.packet = sends[i].packet
  <2>1. CASE request = "packet"
    BY <1>2, <1>4, <2>1 DEF SendStates
  <2>2. CASE request = "rest"
    BY <1>2, <1>4, <2>2 DEF SendStates
  <2> QED
    BY <2>1, <2>2
<1> HIDE DEF s
<1>7. sends'[i] = s
  BY <1>5 DEF ComposerInv, ComposerTypes
<1>8. /\ messages \subseteq messages'
      /\ outcome = "accepted" => \E m \in messages' :
            m.conversation = sends[i].conversation /\ m.words = sends[i].words
  <2> DEFINE m == [conversation |-> sends[i].conversation, id |-> sends[i][request].id,
                   words |-> sends[i].words]
  <2>1. m.conversation = sends[i].conversation /\ m.words = sends[i].words
    OBVIOUS
  <2>2. messages' = messages \/ messages' = messages \union {m}
    BY <1>1
  <2>3. outcome = "accepted" => m \in messages'
    BY <1>1
  <2> HIDE DEF m
  <2> QED
    BY <2>1, <2>2, <2>3
<1>9. SendIsSound(i)'
  BY <1>2, <1>4, <1>6, <1>7, <1>8 DEF SendIsSound
<1> QED
  BY <1>1, <1>3, <1>5, <1>6, <1>9, OneSendKeeps

\* A callback runs: the message was sent if its request was accepted.
LEMMA AnswersKeepComposerInv ==
  ASSUME ComposerInv, NEW i \in DOMAIN sends, Acknowledged(i) \/ RestAnswered(i)
  PROVE  ComposerInv'
<1>1. sends[i] \in SendStates /\ SendIsSound(i)
  BY DEF ComposerInv, ComposerTypes, SendsAreSound
<1>2. PICK result \in {"sent", "error"} :
         /\ sends' = [sends EXCEPT ![i].result = result]
         /\ result = "sent" => \/ sends[i].packet.step = "accepted"
                               \/ sends[i].rest.step = "accepted"
         /\ UNCHANGED <<active, text, draft, contact, location, connected, messages,
                        writtenFor, moved>>
  BY DEF Acknowledged, RestAnswered
<1> DEFINE s == [sends[i] EXCEPT !.result = result]
<1>3. /\ s \in SendStates
      /\ s.words = sends[i].words /\ s.conversation = sends[i].conversation
      /\ s.result = result /\ s.packet = sends[i].packet /\ s.rest = sends[i].rest
  BY <1>1 DEF SendStates
<1>4. sends' = [sends EXCEPT ![i] = s]
  BY <1>2
<1> HIDE DEF s
<1>5. sends'[i] = s
  BY <1>4
<1>6. SendIsSound(i)'
  BY <1>1, <1>2, <1>3, <1>5 DEF SendIsSound
<1> QED
  BY <1>2, <1>3, <1>4, <1>6, OneSendKeeps

\* The message is sent again, under the same identifier.
LEMMA RepeatIsSound ==
  ASSUME ComposerInv, NEW i \in DOMAIN sends, AwaitsPacket(i)
  PROVE  /\ Repeat(sends[i]) \in SendStates
         /\ Repeat(sends[i]).words = sends[i].words
         /\ Repeat(sends[i]).conversation = sends[i].conversation
         /\ Repeat(sends[i]).packet = sends[i].packet
         /\ Repeat(sends[i]).rest = Sent(i)
         /\ Repeat(sends[i]).result = sends[i].result
         /\ Sent(i) # NotSent /\ Sent(i).id = i /\ Sent(i).step = "sent"
<1>1. sends[i] \in SendStates /\ SendIsSound(i) /\ i \in Nat
  BY DEF ComposerInv, ComposerTypes, SendsAreSound
<1>2. sends[i].packet.id = i
  BY <1>1 DEF AwaitsPacket, SendIsSound
<1>3. Sent(i) \in Requests /\ Sent(i) # NotSent /\ Sent(i).id = i /\ Sent(i).step = "sent"
  BY <1>1 DEF Sent, Requests, NotSent
<1>4. Repeat(sends[i]) = [sends[i] EXCEPT !.rest = Sent(i)]
  BY <1>2 DEF Repeat
<1> QED
  BY <1>1, <1>3, <1>4 DEF SendStates

\* No acknowledgement has come in time.
LEMMA TimeoutKeepsComposerInv ==
  ASSUME ComposerInv, NEW i \in DOMAIN sends, PacketTimesOut(i)
  PROVE  ComposerInv'
<1>1. /\ AwaitsPacket(i)
      /\ sends' = [sends EXCEPT ![i] = Repeat(sends[i])]
      /\ UNCHANGED <<active, text, draft, contact, location, connected, messages,
                     writtenFor, moved>>
  BY DEF PacketTimesOut
<1>2. sends'[i] = Repeat(sends[i]) /\ SendIsSound(i)
  BY <1>1 DEF ComposerInv, SendsAreSound
<1>3. SendIsSound(i)'
  BY <1>1, <1>2, RepeatIsSound DEF SendIsSound
<1> QED
  BY <1>1, <1>3, RepeatIsSound, OneSendKeeps

\* The socket goes down, or comes back.
LEMMA SocketKeepsComposerInv ==
  ASSUME ComposerInv, Disconnect \/ Reconnect
  PROVE  ComposerInv'
<1>1. sends \in Seq(SendStates) /\ active \in Conversation
  BY DEF ComposerInv, ComposerTypes
<1>2. UNCHANGED <<active, text, draft, contact, location, messages, writtenFor, moved>>
      /\ connected' \in BOOLEAN
  BY DEF Disconnect, Reconnect
<1>3. /\ sends' = [i \in DOMAIN sends |-> sends'[i]]
      /\ \A i \in DOMAIN sends :
            \/ sends'[i] = sends[i]
            \/ AwaitsPacket(i) /\ sends'[i] = Repeat(sends[i])
  <2>1. CASE Disconnect
    BY <2>1 DEF Disconnect
  <2>2. CASE Reconnect
    BY <1>1, <2>2 DEF Reconnect
  <2> QED
    BY <2>1, <2>2
<1>4. ASSUME NEW i \in DOMAIN sends
      PROVE  /\ sends'[i] \in SendStates
             /\ sends'[i].words = sends[i].words
             /\ sends'[i].conversation = sends[i].conversation
             /\ SendIsSound(i)'
  <2>1. SendIsSound(i) /\ sends[i] \in SendStates
    BY <1>1 DEF ComposerInv, SendsAreSound
  <2>2. CASE sends'[i] = sends[i]
    BY <1>2, <2>1, <2>2, StaysSound
  <2>3. CASE AwaitsPacket(i) /\ sends'[i] = Repeat(sends[i])
    <3>1. SendIsSound(i)'
      BY <1>2, <2>1, <2>3, RepeatIsSound DEF SendIsSound
    <3> QED
      BY <2>3, <3>1, RepeatIsSound
  <2> QED
    BY <1>3, <2>2, <2>3
<1>5. (\A i \in DOMAIN sends : SendIsSound(i))'
  BY <1>3, <1>4
<1> QED
  BY <1>1, <1>2, <1>3, <1>4, <1>5, ProgressKeeps

\* Words that are written, or put into the text and a draft of the active
\* conversation, when nothing is sent.
LEMMA WritingKeeps ==
  ASSUME ComposerInv, NEW w \in Word, w \notin Written, Write(w),
         AddWord(w) \/ ShareContact(w)
  PROVE  ComposerInv'
<1>1. /\ Written' = Written \union {w}
      /\ writtenFor'[w] = active
      /\ \A x \in Written : writtenFor'[x] = writtenFor[x]
      /\ writtenFor' \in [Written' -> Conversation]
      /\ Written' \subseteq Word
  BY DEF Write, Written, ComposerInv, ComposerTypes
<1>2. /\ text \subseteq Written /\ active \in Conversation
      /\ \A c \in Conversation : draft[c] \subseteq Written
      /\ moved \subseteq Written
      /\ draft \in [Conversation -> SUBSET Word]
      /\ w # NoWord
  BY ComposerConstants DEF ComposerInv, ComposerTypes, WordsAreWritten
<1>3. /\ UNCHANGED <<active, location, connected, sends, messages, moved>>
      /\ draft' = [draft EXCEPT ![active] = text']
      /\ \/ text' = text \union {w} /\ contact' = NoWord
         \/ text' = {} /\ contact' = w
  BY DEF AddWord, ShareContact, UpdateText
<1>4. ComposerTypes'
  <2>1. draft' \in [Conversation -> SUBSET Word]
    BY <1>1, <1>2, <1>3
  <2> QED
    BY <1>1, <1>3, <2>1 DEF ComposerInv, ComposerTypes
<1>5. WordsAreWritten'
  BY <1>1, <1>2, <1>3 DEF ComposerInv, WordsAreWritten
<1>6. WordsAreHome'
  <2> SUFFICES ASSUME NEW x \in Written', x \notin moved
               PROVE  IsHome(x)'
    BY <1>3 DEF WordsAreHome
  <2>1. CASE x = w
    <3>1. \A i \in DOMAIN sends : w \notin sends[i].words
      BY DEF ComposerInv, WordsAreWritten
    <3>2. \A c \in Conversation : w \in draft'[c] => c = active
      BY <1>2, <1>3
    <3> QED
      BY <1>1, <1>3, <2>1, <3>1, <3>2 DEF IsHome
  <2>2. CASE x # w
    <3>1. x \in Written /\ IsHome(x) /\ x # NoWord
      BY <1>1, <2>2, ComposerConstants DEF ComposerInv, ComposerTypes, WordsAreHome
    <3>2. x \in text' \union {contact'} => x \in text
      BY <1>3, <2>2, <3>1
    <3>3. \A c \in Conversation : x \in draft'[c] => x \in draft[c] \/ (c = active /\ x \in text)
      BY <1>2, <1>3, <2>2
    <3> QED
      BY <1>1, <1>3, <3>1, <3>2, <3>3 DEF IsHome
  <2> QED
    BY <2>1, <2>2
<1>7. SendsAreSound' /\ MessagesWereSent'
  BY <1>3 DEF ComposerInv, SendsAreSound, SendIsSound, MessagesWereSent
<1> QED
  BY <1>4, <1>5, <1>6, <1>7 DEF ComposerInv

\* A location that comes late moves the words it puts somewhere else; one that
\* finds the text and the conversation as they were moves nothing.
LEMMA LocationKeepsComposerInv ==
  ASSUME ComposerInv, NEW w \in Word, LocationFound(w)
  PROVE  ComposerInv'
<1>1. w \notin Written /\ Write(w) /\ location.pending
  BY DEF LocationFound
<1>2. /\ Written' = Written \union {w}
      /\ writtenFor'[w] = active
      /\ \A x \in Written : writtenFor'[x] = writtenFor[x]
      /\ writtenFor' \in [Written' -> Conversation]
      /\ Written' \subseteq Word
  BY <1>1 DEF Write, Written, ComposerInv, ComposerTypes
<1>3. /\ text \subseteq Written /\ active \in Conversation
      /\ moved \subseteq Written
      /\ draft \in [Conversation -> SUBSET Word]
      /\ location.text \subseteq Written /\ location.key \in Conversation
      /\ w # NoWord
  <2>1. location \in [pending : {TRUE}, text : SUBSET Word, key : Conversation]
    <3>1. NoLocation.pending = FALSE
      BY DEF NoLocation
    <3>2. location # NoLocation
      BY <1>1, <3>1
    <3> QED
      BY <3>2 DEF ComposerInv, ComposerTypes
  <2> QED
    BY <1>1, <2>1, ComposerConstants DEF ComposerInv, ComposerTypes, WordsAreWritten
<1>4. /\ UNCHANGED <<active, contact, connected, sends, messages>>
      /\ location' = NoLocation
      /\ text' = location.text \union {w}
      /\ draft' = [draft EXCEPT ![location.key] = location.text \union {w}]
      /\ moved' = IF location.key = active /\ location.text = text THEN moved
                  ELSE moved \union location.text \union {w}
  BY DEF LocationFound, UpdateText
<1>5. ComposerTypes'
  <2>1. draft' \in [Conversation -> SUBSET Word]
    BY <1>2, <1>3, <1>4
  <2> QED
    BY <1>2, <1>4, <2>1 DEF ComposerInv, ComposerTypes
<1>6. WordsAreWritten'
  <2>1. moved' \subseteq Written'
    BY <1>2, <1>3, <1>4
  <2>2. \A c \in Conversation : draft'[c] \subseteq Written'
    BY <1>2, <1>3, <1>4 DEF ComposerInv, WordsAreWritten
  <2> QED
    BY <1>2, <1>3, <1>4, <2>1, <2>2 DEF ComposerInv, WordsAreWritten, NoLocation
<1>7. WordsAreHome'
  <2> SUFFICES ASSUME NEW x \in Written', x \notin moved'
               PROVE  IsHome(x)'
    BY DEF WordsAreHome
  <2>1. CASE x = w
    <3>1. location.key = active
      BY <1>4, <2>1
    <3>2. \A i \in DOMAIN sends : w \notin sends[i].words
      BY <1>1 DEF ComposerInv, WordsAreWritten
    <3>3. \A c \in Conversation : w \in draft'[c] => c = active
      BY <1>1, <1>3, <1>4, <3>1 DEF ComposerInv, WordsAreWritten
    <3> QED
      BY <1>2, <1>4, <2>1, <3>2, <3>3 DEF IsHome
  <2>2. CASE x # w
    <3>1. x \in Written \ moved /\ IsHome(x)
      BY <1>2, <1>4, <2>2 DEF ComposerInv, WordsAreHome
    <3>2. x \in text' => x \in text
      BY <1>4, <2>2
    <3>3. \A c \in Conversation : x \in draft'[c] => x \in draft[c] \/ (c = active /\ x \in text)
      BY <1>3, <1>4, <2>2
    <3> QED
      BY <1>2, <1>4, <3>1, <3>2, <3>3 DEF IsHome
  <2> QED
    BY <2>1, <2>2
<1>8. SendsAreSound' /\ MessagesWereSent'
  BY <1>4 DEF ComposerInv, SendsAreSound, SendIsSound, MessagesWereSent
<1> QED
  BY <1>5, <1>6, <1>7, <1>8 DEF ComposerInv

\* A position is asked for, or refused.
LEMMA AskKeepsComposerInv ==
  ASSUME ComposerInv, ShareLocation \/ LocationFails
  PROVE  ComposerInv'
<1>1. UNCHANGED <<active, text, draft, contact, connected, sends, messages, writtenFor, moved>>
  BY DEF ShareLocation, LocationFails
<1>2. location' \in {NoLocation, [pending |-> TRUE, text |-> text, key |-> active]}
  BY DEF ShareLocation, LocationFails
<1>3. text \subseteq Written /\ Written \subseteq Word /\ active \in Conversation
  BY DEF ComposerInv, ComposerTypes, WordsAreWritten
<1>4. ComposerTypes'
  <2>1. location' \in {NoLocation}
                      \union [pending : {TRUE}, text : SUBSET Word, key : Conversation]
    <3> DEFINE asked == [pending |-> TRUE, text |-> text, key |-> active]
    <3>1. text \in SUBSET Word
      BY <1>3
    <3>2. asked \in [pending : {TRUE}, text : SUBSET Word, key : Conversation]
      BY <1>3, <3>1
    <3> HIDE DEF asked
    <3> QED
      BY <1>2, <3>2 DEF asked
  <2> QED
    BY <1>1, <2>1 DEF ComposerInv, ComposerTypes, Written
<1>5. WordsAreWritten'
  BY <1>1, <1>2, <1>3 DEF ComposerInv, WordsAreWritten, Written, NoLocation
<1>6. WordsAreHome' /\ SendsAreSound' /\ MessagesWereSent'
  BY <1>1 DEF ComposerInv, WordsAreHome, IsHome, SendsAreSound, SendIsSound,
              MessagesWereSent, Written
<1> QED
  BY <1>4, <1>5, <1>6 DEF ComposerInv

\* Sending: the words leave the composer and the draft for one message.
LEMMA SubmitKeepsComposerInv ==
  ASSUME ComposerInv, Submit
  PROVE  ComposerInv'
<1>0. PICK n : n = Len(sends) + 1
  OBVIOUS
<1> DEFINE words == IF contact = NoWord THEN text ELSE {contact}
           s == Outgoing(words, n)
<1>1. /\ sends' = Append(sends, s)
      /\ text' = {} /\ draft' = [draft EXCEPT ![active] = {}]
      /\ contact' = NoWord
      /\ UNCHANGED <<active, location, connected, messages, writtenFor, moved>>
  BY <1>0 DEF Submit, UpdateText
<1>2. /\ sends \in Seq(SendStates) /\ active \in Conversation
      /\ draft \in [Conversation -> SUBSET Word]
      /\ DOMAIN sends = 1 .. Len(sends) /\ Len(sends) \in Nat /\ n \in Nat
      /\ connected \in BOOLEAN
  BY <1>0 DEF ComposerInv, ComposerTypes
<1>3. /\ words \subseteq Written /\ words \subseteq text \union {contact}
      /\ Written \subseteq Word /\ words \in SUBSET Word
  BY DEF ComposerInv, ComposerTypes, WordsAreWritten
<1> HIDE DEF words
<1>4. /\ s \in SendStates
      /\ s.words = words /\ s.conversation = active /\ s.result = "open"
      /\ \A r \in {s.packet, s.rest} : (r # NotSent => r.id = n) /\ r.step # "accepted"
      /\ s.rest = NotSent => s.packet # NotSent
  <2>1. Sent(n) \in Requests /\ Sent(n).id = n /\ Sent(n).step = "sent" /\ Sent(n) # NotSent
    BY <1>2 DEF Sent, Requests, NotSent
  <2>2. NotSent \in Requests /\ NotSent.step # "accepted"
    BY DEF Requests, NotSent
  <2> QED
    BY <1>2, <1>3, <2>1, <2>2 DEF Outgoing, SendStates
<1> HIDE DEF s
<1>5. /\ sends' \in Seq(SendStates) /\ DOMAIN sends' = DOMAIN sends \union {n}
      /\ sends'[n] = s /\ \A i \in DOMAIN sends : i # n /\ sends'[i] = sends[i]
  BY <1>0, <1>1, <1>2, <1>4
<1>6. ComposerTypes'
  <2>1. draft' \in [Conversation -> SUBSET Word]
    BY <1>1, <1>2
  <2> QED
    BY <1>1, <1>5, <2>1 DEF ComposerInv, ComposerTypes, Written
<1>7. \A c \in Conversation : draft'[c] = IF c = active THEN {} ELSE draft[c]
  BY <1>1, <1>2
<1>8. WordsAreWritten'
  BY <1>1, <1>3, <1>4, <1>5, <1>7 DEF ComposerInv, WordsAreWritten, Written
<1>9. WordsAreHome'
  <2> SUFFICES ASSUME NEW w \in Written \ moved
               PROVE  IsHome(w)'
    BY <1>1 DEF WordsAreHome, Written
  <2>1. IsHome(w) /\ w # NoWord
    BY <1>3, ComposerConstants DEF ComposerInv, WordsAreHome
  <2>2. w \notin text' \union {contact'}
    BY <1>1, <2>1
  <2>3. \A c \in Conversation : w \in draft'[c] => w \in draft[c] /\ c # active
    BY <1>7
  <2>4. CASE w \in words
    <3>1. w \in text \union {contact} /\ writtenFor[w] = active
      BY <1>3, <2>1, <2>4 DEF IsHome
    <3>2. \A i \in DOMAIN sends : w \notin sends[i].words
      BY <2>1, <3>1 DEF IsHome
    <3>3. \A c \in Conversation : w \notin draft'[c]
      BY <2>1, <2>3, <3>1 DEF IsHome
    <3> QED
      BY <1>1, <1>4, <1>5, <2>2, <3>1, <3>2, <3>3 DEF IsHome
  <2>5. CASE w \notin words
    BY <1>1, <1>4, <1>5, <2>1, <2>2, <2>3, <2>5 DEF IsHome
  <2> QED
    BY <2>4, <2>5
<1>10. SendsAreSound'
  <2>1. SendIsSound(n)'
    BY <1>4, <1>5 DEF SendIsSound
  <2>2. ASSUME NEW i \in DOMAIN sends PROVE SendIsSound(i)'
    BY <1>1, <1>5, StaysSound DEF ComposerInv, SendsAreSound
  <2> QED
    BY <1>5, <2>1, <2>2 DEF SendsAreSound
<1>11. MessagesWereSent'
  BY <1>1, <1>5 DEF ComposerInv, MessagesWereSent
<1> QED
  BY <1>6, <1>8, <1>9, <1>10, <1>11 DEF ComposerInv

\* Every step of the composer, the socket and the backend keeps the invariant.
LEMMA NextKeepsComposerInv == ComposerInv /\ [ComposerNext]_composerVars => ComposerInv'
<1> SUFFICES ASSUME ComposerInv, [ComposerNext]_composerVars
             PROVE  ComposerInv'
  OBVIOUS
<1>1. ASSUME NEW w \in Word, AddWord(w) \/ ShareContact(w) \/ LocationFound(w)
      PROVE  ComposerInv'
  <2>1. CASE AddWord(w) \/ ShareContact(w)
    BY <2>1, WritingKeeps DEF AddWord, ShareContact
  <2> QED
    BY <1>1, <2>1, LocationKeepsComposerInv
<1>2. CASE ShareLocation \/ LocationFails
  BY <1>2, AskKeepsComposerInv
<1>3. CASE Reload \/ \E c \in Conversation : OpenConversation(c)
  BY <1>3, OpenKeepsComposerInv
<1>4. CASE Submit
  BY <1>4, SubmitKeepsComposerInv
<1>5. CASE Disconnect \/ Reconnect
  BY <1>5, SocketKeepsComposerInv
<1>6. ASSUME NEW i \in DOMAIN sends,
             \/ Handle(i, "packet") \/ Handle(i, "rest")
             \/ Acknowledged(i) \/ PacketTimesOut(i) \/ RestAnswered(i)
      PROVE  ComposerInv'
  <2>1. CASE Handle(i, "packet") \/ Handle(i, "rest")
    BY <2>1, HandleKeepsComposerInv
  <2> QED
    BY <1>6, <2>1, AnswersKeepComposerInv, TimeoutKeepsComposerInv
<1>7. CASE UNCHANGED composerVars
  <2>1. ComposerTypes' /\ WordsAreWritten'
    BY <1>7 DEF composerVars, ComposerInv, ComposerTypes, WordsAreWritten, Written
  <2>2. WordsAreHome'
    BY <1>7 DEF composerVars, ComposerInv, WordsAreHome, IsHome, Written
  <2>3. SendsAreSound' /\ MessagesWereSent'
    BY <1>7 DEF composerVars, ComposerInv, SendsAreSound, SendIsSound, MessagesWereSent
  <2> QED
    BY <2>1, <2>2, <2>3 DEF ComposerInv
<1> QED
  BY <1>1, <1>2, <1>3, <1>4, <1>5, <1>6, <1>7 DEF ComposerNext

\* What the invariant says of the messages.
LEMMA ComposerInvSuffices == ComposerInv => SentHomeOnce
<1> SUFFICES ASSUME ComposerInv PROVE SentHomeOnce
  OBVIOUS
<1>1. ASSUME NEW w \in Written \ moved
      PROVE  /\ Cardinality({m \in messages : w \in m.words}) <= 1
             /\ \A m \in {n \in messages : w \in n.words} : m.conversation = writtenFor[w]
  <2> DEFINE holders == {m \in messages : w \in m.words}
  <2>1. \A m \in holders :
           /\ m.id \in DOMAIN sends /\ w \in sends[m.id].words
           /\ m.conversation = sends[m.id].conversation
           /\ m.words = sends[m.id].words
    BY DEF ComposerInv, MessagesWereSent
  <2>2. IsHome(w)
    BY DEF ComposerInv, WordsAreHome
  <2>3. \A m \in holders : m.conversation = writtenFor[w]
    BY <2>1, <2>2 DEF IsHome
  <2>4. \A m, n \in holders : m = n
    <3> SUFFICES ASSUME NEW m \in holders, NEW n \in holders
                 PROVE  m = n
      OBVIOUS
    <3>1. m.id = n.id
      BY <2>1, <2>2 DEF IsHome
    <3>2. m.conversation = n.conversation /\ m.words = n.words
      BY <2>1, <3>1
    <3>3. /\ m \in [conversation : Conversation, id : Nat, words : SUBSET Word]
          /\ n \in [conversation : Conversation, id : Nat, words : SUBSET Word]
      BY DEF ComposerInv, ComposerTypes
    <3> QED
      BY <3>1, <3>2, <3>3
  <2> HIDE DEF holders
  <2>5. holders = {} \/ \E m : holders = {m}
    BY <2>4
  <2>6. Cardinality(holders) \in {0, 1}
    BY <2>5, FS_EmptySet, FS_Singleton
  <2> QED
    BY <2>3, <2>6 DEF holders
<1>2. ASSUME NEW i \in DOMAIN sends, sends[i].result = "sent"
      PROVE  \E m \in messages : /\ m.conversation = sends[i].conversation
                                 /\ m.words = sends[i].words
  BY <1>2 DEF ComposerInv, SendsAreSound, SendIsSound
<1> QED
  BY <1>1, <1>2 DEF SentHomeOnce

\* What is written in a conversation is stored there and at most once, for any
\* number of conversations, words and messages, with drafts, switches of the
\* conversation, reloads, late packets and repeated requests (ChatInputSection,
\* sendWithRestFallback).
THEOREM ComposerSentHomeOnceHolds == ComposerSpec => []SentHomeOnce
  BY InitComposerInv, NextKeepsComposerInv, ComposerInvSuffices, PTL DEF ComposerSpec

\* The same, of the behaviours in which TLC explores the composer.
THEOREM PartsComposerSentHomeOnce == MCSpec => []ComposerSentHomeOnce
<1> DEFINE Inv == part = "composer" => ComposerInv
<1>1. MCInit => Inv
  BY InitComposerInv DEF MCInit
<1>2. Inv /\ [MCNext]_<<part, supportVars, composerVars, chatVars,
                        preferenceVars, bookmarkVars, readingVars>> => Inv'
  BY NextKeepsComposerInv DEF MCNext
<1>3. Inv => ComposerSentHomeOnce
  BY ComposerInvSuffices DEF ComposerSentHomeOnce
<1> QED
  BY <1>1, <1>2, <1>3, PTL DEF MCSpec

-----------------------------------------------------------------------------
(***************************************************************************)
(* The view of a chat.                                                     *)
(***************************************************************************)
Gets == [kind : {"details", "messages"}, conversation : Chat, version : Nat]

ChatTypes ==
    /\ newest \in [Chat -> 1 .. MaxVersion]
    /\ chosen \in Chat /\ details \in Chat
    /\ gets \in [DOMAIN gets -> Nat \ {0}] /\ DOMAIN gets \subseteq Gets
    /\ answers \subseteq Chat
    /\ passed \in [Chat -> Nat]
    /\ crossed \in BOOLEAN

\* What is shown or answered was stored.
VersionsAreStored ==
    /\ shown.version \in Nat
    /\ shown.version > 0 =>
          shown.conversation \in Chat /\ shown.version <= newest[shown.conversation]
    /\ \A g \in DOMAIN gets : g.version <= newest[g.conversation]

\* The newest version of the chosen conversation has come to the page, or its
\* event or a GET that is going to bring it is on its way.
ChosenIsFollowed ==
    \/ passed[chosen] >= newest[chosen]
    \/ <<chosen, newest[chosen]>> \in events
    \/ \E g \in DOMAIN gets : g.kind = "messages" /\ g.version \in {0, newest[chosen]}

\* Unless requests have crossed, all GETs are for the chosen conversation, which
\* is shown or about to be.
ChosenIsLoaded ==
    /\ \A g \in DOMAIN gets : g.conversation = chosen
    /\ details = chosen \/ \E g \in DOMAIN gets : g.kind = "details"
    /\ \/ shown.version > 0 /\ shown.conversation = chosen
       \/ \E g \in DOMAIN gets : g.kind = "messages"

ChatInv ==
    /\ ChatTypes
    /\ VersionsAreStored
    /\ ~crossed => ChosenIsLoaded /\ ChosenIsFollowed

\* The bag of the GETs, as the set of those there is at least one of.
LEMMA AskedGets ==
  ASSUME ChatTypes, NEW requests, Ask(requests)
  PROVE  /\ gets' \in [DOMAIN gets' -> Nat \ {0}]
         /\ DOMAIN gets' = DOMAIN gets \union requests
<1>1. gets' = [e \in DOMAIN gets \union requests |->
                  (IF e \in DOMAIN gets THEN gets[e] ELSE 0)
                  + (IF e \in requests THEN 1 ELSE 0)]
  BY DEF Ask, SetToBag, (+)
<1> QED
  BY <1>1 DEF ChatTypes

LEMMA DoneGets ==
  ASSUME NEW bag, bag \in [DOMAIN bag -> Nat \ {0}], NEW g \in DOMAIN bag
  PROVE  /\ bag (-) SetToBag({g}) \in [DOMAIN (bag (-) SetToBag({g})) -> Nat \ {0}]
         /\ DOMAIN (bag (-) SetToBag({g})) \subseteq DOMAIN bag
         /\ DOMAIN bag \subseteq DOMAIN (bag (-) SetToBag({g})) \union {g}
<1> DEFINE left == [e \in DOMAIN bag |-> IF e = g THEN bag[e] - 1 ELSE bag[e]]
<1>1. bag (-) SetToBag({g}) = [e \in {d \in DOMAIN left : left[d] > 0} |-> left[e]]
  BY DEF (-), SetToBag
<1>2. DOMAIN left = DOMAIN bag
      /\ \A e \in DOMAIN bag : left[e] \in Nat /\ (e # g => left[e] > 0)
  OBVIOUS
<1> DEFINE rest == bag (-) SetToBag({g})
<1>3. rest = [e \in {d \in DOMAIN left : left[d] > 0} |-> left[e]]
  BY <1>1
<1> HIDE DEF left, rest
<1>4. /\ rest \in [DOMAIN rest -> Nat \ {0}]
      /\ DOMAIN rest \subseteq DOMAIN bag
      /\ DOMAIN bag \subseteq DOMAIN rest \union {g}
  BY <1>2, <1>3
<1> QED
  BY <1>4 DEF rest

\* The conversation chosen at first is shown.
LEMMA InitChatInv == ChatViewInit => ChatInv
<1> SUFFICES ASSUME ChatViewInit PROVE ChatInv
  OBVIOUS
<1>1. DOMAIN gets = {} /\ gets = [e \in {} |-> 1]
  BY DEF ChatViewInit, EmptyBag, SetToBag
<1>2. gets \in [DOMAIN gets -> Nat \ {0}]
  BY <1>1
<1>3. /\ chosen \in Chat /\ details = chosen
      /\ newest = [c \in Chat |-> 1] /\ passed = [c \in Chat |-> IF c = chosen THEN 1 ELSE 0]
      /\ shown.conversation = chosen /\ shown.version = 1
      /\ answers = {} /\ crossed = FALSE
  BY DEF ChatViewInit
<1>4. ChatTypes
  <2>1. newest \in [Chat -> 1 .. MaxVersion] /\ passed \in [Chat -> Nat]
    BY <1>3, ChatViewConstants
  <2>2. DOMAIN gets \subseteq Gets /\ answers \subseteq Chat
    BY <1>1, <1>3
  <2> QED
    BY <1>2, <1>3, <2>1, <2>2 DEF ChatTypes
<1>5. VersionsAreStored
  BY <1>1, <1>3 DEF VersionsAreStored
<1>6. ChosenIsLoaded /\ ChosenIsFollowed
  BY <1>1, <1>3 DEF ChosenIsLoaded, ChosenIsFollowed
<1> QED
  BY <1>4, <1>5, <1>6 DEF ChatInv

\* What GETs to send changes: there is one more of each.
LEMMA AskKeeps ==
  ASSUME ChatInv, NEW requests \in SUBSET Gets, Ask(requests),
         \A g \in requests : g.version = 0
  PROVE  /\ gets' \in [DOMAIN gets' -> Nat \ {0}] /\ DOMAIN gets' \subseteq Gets
         /\ DOMAIN gets' = DOMAIN gets \union requests
         /\ \A g \in DOMAIN gets' : g.version <= newest[g.conversation]
<1>1. /\ gets' \in [DOMAIN gets' -> Nat \ {0}]
      /\ DOMAIN gets' = DOMAIN gets \union requests
  BY AskedGets DEF ChatInv
<1>2. \A g \in requests : 0 <= newest[g.conversation]
  BY DEF ChatInv, ChatTypes, Gets
<1> QED
  BY <1>1, <1>2 DEF ChatInv, ChatTypes, VersionsAreStored

\* The GETs of a conversation.
LEMMA GetsOf ==
  ASSUME NEW c \in Chat, NEW kind \in {"details", "messages"}
  PROVE  /\ GetOf(kind, c) \in Gets /\ GetOf(kind, c).kind = kind
         /\ GetOf(kind, c).conversation = c /\ GetOf(kind, c).version = 0
BY DEF GetOf, Gets

\* Choosing a conversation asks for all of it.
LEMMA SelectKeepsChatInv ==
  ASSUME ChatInv, NEW c \in Chat, SelectChat(c)
  PROVE  ChatInv'
<1> DEFINE both == {GetOf("details", c), GetOf("messages", c)}
<1>1. /\ Ask(both) /\ chosen' = c
      /\ crossed' = (gets # EmptyBag \/ answers # {})
      /\ UNCHANGED <<newest, details, shown, events, answers, online, passed>>
  BY DEF SelectChat, AskBoth
<1>2. /\ GetOf("details", c) \in Gets /\ GetOf("messages", c) \in Gets
      /\ GetOf("details", c).kind = "details" /\ GetOf("messages", c).kind = "messages"
      /\ \A g \in both : g.conversation = c /\ g.version = 0
  BY GetsOf
<1>3. /\ gets' \in [DOMAIN gets' -> Nat \ {0}] /\ DOMAIN gets' \subseteq Gets
      /\ DOMAIN gets' = DOMAIN gets \union both
      /\ \A g \in DOMAIN gets' : g.version <= newest[g.conversation]
  BY <1>1, <1>2, AskKeeps
<1>4. ChatTypes' /\ VersionsAreStored'
  BY <1>1, <1>3 DEF ChatInv, ChatTypes, VersionsAreStored
<1>5. ASSUME ~crossed'
      PROVE  ChosenIsLoaded' /\ ChosenIsFollowed'
  <2>1. DOMAIN gets = {}
    BY <1>1, <1>5 DEF EmptyBag, SetToBag
  <2>2. GetOf("details", c) \in DOMAIN gets' /\ GetOf("messages", c) \in DOMAIN gets'
    BY <1>3
  <2>3. \A g \in DOMAIN gets' : g.conversation = c
    BY <1>2, <1>3, <2>1
  <2> QED
    BY <1>1, <1>2, <2>2, <2>3 DEF ChosenIsLoaded, ChosenIsFollowed
<1> QED
  BY <1>4, <1>5 DEF ChatInv

\* A refresh asks for the details, the messages or both of a conversation: it
\* is the chosen one, or requests have crossed.
LEMMA RefreshKeepsChatInv ==
  ASSUME ChatInv, NEW c \in Chat, NEW requests,
         requests \in {{GetOf("details", c), GetOf("messages", c)}, {GetOf("messages", c)}},
         Ask(requests), crossed' = (crossed \/ c # chosen),
         answers' \subseteq answers,
         events' = events
         \/ /\ requests = {GetOf("details", c), GetOf("messages", c)}
            /\ \E v : events' = events \ {<<c, v>>},
         UNCHANGED <<newest, chosen, details, shown, passed>>
  PROVE  ChatInv'
<1>1. /\ requests \in SUBSET Gets /\ \A g \in requests : g.version = 0 /\ g.conversation = c
      /\ GetOf("messages", c) \in requests
      /\ GetOf("messages", c).kind = "messages" /\ GetOf("messages", c).version = 0
  BY GetsOf
<1>2. /\ gets' \in [DOMAIN gets' -> Nat \ {0}] /\ DOMAIN gets' \subseteq Gets
      /\ DOMAIN gets' = DOMAIN gets \union requests
      /\ \A g \in DOMAIN gets' : g.version <= newest[g.conversation]
  BY <1>1, AskKeeps
<1>3. ChatTypes' /\ VersionsAreStored'
  BY <1>2 DEF ChatInv, ChatTypes, VersionsAreStored
<1>4. ASSUME ~crossed'
      PROVE  ChosenIsLoaded' /\ ChosenIsFollowed'
  <2>1. ~crossed /\ c = chosen /\ ChosenIsLoaded
    BY <1>4 DEF ChatInv
  <2>2. ChosenIsLoaded'
    BY <1>1, <1>2, <2>1 DEF ChosenIsLoaded
  <2>3. GetOf("messages", c) \in DOMAIN gets'
    BY <1>1, <1>2
  <2> QED
    BY <1>1, <2>2, <2>3 DEF ChosenIsFollowed
<1> QED
  BY <1>3, <1>4 DEF ChatInv

\* A message sent, edited or deleted here is answered, or an event arrives.
LEMMA AnswersKeepChatInv ==
  ASSUME ChatInv, NEW c \in Chat,
         ChangeAnswered(c) \/ SentByRest(c) \/ \E v \in 1 .. MaxVersion : EventArrives(c, v)
  PROVE  ChatInv'
<1>1. CASE ChangeAnswered(c)
  BY <1>1, RefreshKeepsChatInv DEF ChangeAnswered, RefreshChat, AskBoth
<1>2. CASE SentByRest(c)
  BY <1>2, RefreshKeepsChatInv DEF SentByRest, ChatInv, ChatTypes
<1>3. ASSUME NEW v \in 1 .. MaxVersion, EventArrives(c, v)
      PROVE  ChatInv'
  <2>1. CASE c = details /\ RefreshChat(c) /\ UNCHANGED passed
    BY <1>3, <2>1, RefreshKeepsChatInv DEF EventArrives, RefreshChat, AskBoth
  <2>2. CASE c # details /\ Pass(c, v) /\ UNCHANGED <<gets, crossed>>
    <3>1. /\ UNCHANGED <<newest, chosen, details, shown, gets, answers, crossed>>
          /\ events' = events \ {<<c, v>>}
          /\ passed' = [passed EXCEPT ![c] = IF v > @ THEN v ELSE @]
      BY <1>3, <2>2 DEF EventArrives, Pass
    <3>2. /\ passed' \in [Chat -> Nat] /\ passed'[c] >= v
          /\ \A d \in Chat : passed'[d] >= passed[d]
      BY <3>1 DEF ChatInv, ChatTypes
    <3>3. ChatTypes' /\ VersionsAreStored'
      BY <3>1, <3>2 DEF ChatInv, ChatTypes, VersionsAreStored
    <3>4. ASSUME ~crossed PROVE ChosenIsLoaded' /\ ChosenIsFollowed'
      <4>1. ChosenIsLoaded /\ ChosenIsFollowed /\ chosen \in Chat
            /\ passed[chosen] \in Nat /\ newest[chosen] \in Nat /\ passed'[chosen] \in Nat
        BY <3>2, <3>4 DEF ChatInv, ChatTypes
      <4>2. ChosenIsLoaded'
        BY <3>1, <4>1 DEF ChosenIsLoaded
      <4>3. ChosenIsFollowed'
        BY <3>1, <3>2, <4>1 DEF ChosenIsFollowed
      <4> QED
        BY <4>2, <4>3
    <3> QED
      BY <3>1, <3>3, <3>4 DEF ChatInv
  <2> QED
    BY <1>3, <2>1, <2>2 DEF EventArrives
<1> QED
  BY <1>1, <1>2, <1>3

\* A change: its event is on its way, or it has passed the page.
LEMMA ChangesKeepChatInv ==
  ASSUME ChatInv, NEW c \in Chat, ChangeChat(c), answers' \subseteq Chat,
         UNCHANGED <<chosen, details, shown, gets, crossed>>
  PROVE  ChatInv'
<1>1. /\ newest' = [newest EXCEPT ![c] = @ + 1] /\ newest[c] < MaxVersion
      /\ \/ events' = events \union {<<c, newest[c] + 1>>} /\ UNCHANGED passed
         \/ /\ passed' = [passed EXCEPT ![c] = IF newest[c] + 1 > @ THEN newest[c] + 1 ELSE @]
            /\ UNCHANGED events
  BY DEF ChangeChat, Pass
<1>2. /\ newest' \in [Chat -> 1 .. MaxVersion]
      /\ newest'[c] = newest[c] + 1
      /\ \A d \in Chat : newest'[d] >= newest[d] /\ (d # c => newest'[d] = newest[d])
      /\ newest \in [Chat -> Nat]
  BY <1>1, ChatViewConstants DEF ChatInv, ChatTypes
<1>3. /\ passed' \in [Chat -> Nat]
      /\ \A d \in Chat : d # c => passed'[d] = passed[d]
      /\ passed'[c] >= newest'[c] \/ <<c, newest'[c]>> \in events'
      /\ events \subseteq events'
  BY <1>1, <1>2 DEF ChatInv, ChatTypes
<1>4. ChatTypes'
  BY <1>2, <1>3 DEF ChatInv, ChatTypes
<1>5. VersionsAreStored'
  <2>1. \A g \in DOMAIN gets : g.conversation \in Chat /\ g.version \in Nat
    BY DEF ChatInv, ChatTypes, Gets
  <2>2. \A g \in DOMAIN gets : g.version <= newest'[g.conversation]
    <3> SUFFICES ASSUME NEW g \in DOMAIN gets PROVE g.version <= newest'[g.conversation]
      OBVIOUS
    <3>1. g.version <= newest[g.conversation]
      BY DEF ChatInv, VersionsAreStored
    <3>2. newest[g.conversation] \in Nat /\ newest'[g.conversation] \in Nat
          /\ newest'[g.conversation] >= newest[g.conversation]
      BY <1>2, <2>1
    <3> QED
      BY <2>1, <3>1, <3>2
  <2>3. ASSUME shown.version > 0
        PROVE  shown.conversation \in Chat /\ shown.version <= newest'[shown.conversation]
    <3>1. /\ shown.conversation \in Chat /\ shown.version <= newest[shown.conversation]
          /\ shown.version \in Nat
      BY <2>3 DEF ChatInv, VersionsAreStored
    <3>2. newest[shown.conversation] \in Nat /\ newest'[shown.conversation] \in Nat
          /\ newest'[shown.conversation] >= newest[shown.conversation]
      BY <1>2, <3>1
    <3> QED
      BY <3>1, <3>2
  <2> QED
    BY <2>2, <2>3 DEF ChatInv, VersionsAreStored
<1>6. ASSUME ~crossed PROVE ChosenIsLoaded' /\ ChosenIsFollowed'
  <2>1. ChosenIsLoaded /\ ChosenIsFollowed /\ chosen \in Chat
    BY <1>6 DEF ChatInv, ChatTypes
  <2>2. ChosenIsLoaded'
    BY <2>1 DEF ChosenIsLoaded
  <2>3. ChosenIsFollowed'
    <3>1. CASE chosen = c
      BY <1>3, <3>1 DEF ChosenIsFollowed
    <3>2. CASE chosen # c
      BY <1>2, <1>3, <2>1, <3>2 DEF ChosenIsFollowed
    <3> QED
      BY <3>1, <3>2
  <2> QED
    BY <2>2, <2>3
<1> QED
  BY <1>4, <1>5, <1>6 DEF ChatInv

\* The socket goes down with the events, or comes back.
LEMMA SocketKeepsChatInv ==
  ASSUME ChatInv, LoseSocket \/ RegainSocket
  PROVE  ChatInv'
<1>1. UNCHANGED <<newest, chosen, details, shown, gets, answers, crossed>>
  BY DEF LoseSocket, RegainSocket
<1>2. CASE LoseSocket
  <2>1. /\ passed' = [c \in Chat |-> IF \E v \in 1 .. MaxVersion : <<c, v>> \in events
                                     THEN newest[c] ELSE passed[c]]
    BY <1>2 DEF LoseSocket
  <2>2. newest \in [Chat -> 1 .. MaxVersion] /\ newest \in [Chat -> Nat]
        /\ passed \in [Chat -> Nat] /\ chosen \in Chat
    BY ChatViewConstants DEF ChatInv, ChatTypes
  <2>3. passed' \in [Chat -> Nat]
    BY <2>1, <2>2
  <2>4. ChatTypes' /\ VersionsAreStored'
    BY <1>1, <2>3 DEF ChatInv, ChatTypes, VersionsAreStored
  <2>5. ASSUME ~crossed PROVE ChosenIsLoaded' /\ ChosenIsFollowed'
    <3>1. ChosenIsLoaded /\ ChosenIsFollowed
      BY <2>5 DEF ChatInv
    <3>2. ChosenIsLoaded'
      BY <1>1, <3>1 DEF ChosenIsLoaded
    <3>3. passed'[chosen] = newest[chosen]
          \/ (passed'[chosen] = passed[chosen] /\ <<chosen, newest[chosen]>> \notin events)
      BY <2>1, <2>2
    <3>4. newest[chosen] >= newest[chosen]
      BY <2>2
    <3>5. ChosenIsFollowed'
      BY <1>1, <3>1, <3>3, <3>4 DEF ChosenIsFollowed
    <3> QED
      BY <3>2, <3>5
  <2> QED
    BY <1>1, <2>4, <2>5 DEF ChatInv
<1>3. CASE RegainSocket
  BY <1>3 DEF RegainSocket, ChatInv, ChatTypes, VersionsAreStored, ChosenIsLoaded,
              ChosenIsFollowed
<1> QED
  BY <1>2, <1>3

\* The backend serves a GET: it finds the newest version.
LEMMA ServeKeepsChatInv ==
  ASSUME ChatInv, NEW g \in DOMAIN gets, ServeGet(g)
  PROVE  ChatInv'
<1> DEFINE served == [g EXCEPT !.version = newest[g.conversation]]
           rest == gets (-) SetToBag({g})
<1>1. /\ g.version = 0 /\ gets' = rest (+) SetToBag({served})
      /\ UNCHANGED <<newest, chosen, details, shown, events, answers, online, passed, crossed>>
  BY DEF ServeGet
<1>2. /\ g \in Gets /\ newest[g.conversation] \in Nat /\ newest \in [Chat -> Nat]
  BY ChatViewConstants DEF ChatInv, ChatTypes, Gets
<1>3. /\ served \in Gets /\ served.kind = g.kind /\ served.conversation = g.conversation
      /\ served.version = newest[g.conversation]
  BY <1>2 DEF Gets
<1>4. /\ rest \in [DOMAIN rest -> Nat \ {0}]
      /\ DOMAIN rest \subseteq DOMAIN gets
      /\ DOMAIN gets \subseteq DOMAIN rest \union {g}
  BY DoneGets DEF ChatInv, ChatTypes
<1> HIDE DEF rest, served
<1>5. gets' = [e \in DOMAIN rest \union {served} |->
                 (IF e \in DOMAIN rest THEN rest[e] ELSE 0)
                 + (IF e \in {served} THEN 1 ELSE 0)]
  BY <1>1 DEF SetToBag, (+)
<1>6. /\ gets' \in [DOMAIN gets' -> Nat \ {0}]
      /\ DOMAIN gets' = DOMAIN rest \union {served}
  BY <1>4, <1>5
<1>7. /\ DOMAIN gets' \subseteq DOMAIN gets \union {served}
      /\ DOMAIN gets \subseteq DOMAIN gets' \union {g}
      /\ served \in DOMAIN gets'
  BY <1>4, <1>6
<1>8. ChatTypes'
  BY <1>1, <1>3, <1>6, <1>7 DEF ChatInv, ChatTypes
<1>9. VersionsAreStored'
  <2>1. served.version <= newest[served.conversation]
    BY <1>2, <1>3
  <2>2. \A h \in DOMAIN gets' : h.version <= newest[h.conversation]
    BY <1>7, <2>1 DEF ChatInv, VersionsAreStored
  <2> QED
    BY <1>1, <2>2 DEF ChatInv, VersionsAreStored
<1>10. ASSUME ~crossed PROVE ChosenIsLoaded' /\ ChosenIsFollowed'
  <2>1. ChosenIsLoaded /\ ChosenIsFollowed
    BY <1>10 DEF ChatInv
  <2>2. g.conversation = chosen
    BY <2>1 DEF ChosenIsLoaded
  <2>3. \A h \in DOMAIN gets : \E k \in DOMAIN gets' :
           /\ k.kind = h.kind
           /\ h.version \in {0, newest[chosen]} => k.version \in {0, newest[chosen]}
    BY <1>3, <1>7, <2>2
  <2>4. ChosenIsLoaded'
    <3>1. \A h \in DOMAIN gets' : h.conversation = chosen
      BY <1>3, <1>7, <2>1, <2>2 DEF ChosenIsLoaded
    <3>2. \A kind \in {"details", "messages"} :
             (\E h \in DOMAIN gets : h.kind = kind) => \E h \in DOMAIN gets' : h.kind = kind
      BY <2>3
    <3> QED
      BY <1>1, <2>1, <3>1, <3>2 DEF ChosenIsLoaded
  <2>5. ChosenIsFollowed'
    BY <1>1, <2>1, <2>3 DEF ChosenIsFollowed
  <2> QED
    BY <2>4, <2>5
<1> QED
  BY <1>1, <1>8, <1>9, <1>10 DEF ChatInv

\* The answer of a GET, or its failure.
LEMMA GotKeepsChatInv ==
  ASSUME ChatInv, NEW g \in DOMAIN gets, GotDetails(g) \/ GotMessages(g) \/ GetFails(g)
  PROVE  ChatInv'
<1>1. /\ gets' = gets (-) SetToBag({g})
      /\ UNCHANGED <<newest, chosen, events, answers>>
  BY DEF GotDetails, GotMessages, GetFails, Done
<1>2. /\ gets' \in [DOMAIN gets' -> Nat \ {0}]
      /\ DOMAIN gets' \subseteq DOMAIN gets
      /\ DOMAIN gets \subseteq DOMAIN gets' \union {g}
  BY <1>1, DoneGets DEF ChatInv, ChatTypes
<1>3. /\ g \in Gets /\ g.version \in Nat /\ g.conversation \in Chat
      /\ g.version <= newest[g.conversation]
      /\ newest \in [Chat -> Nat] /\ passed \in [Chat -> Nat] /\ chosen \in Chat
  BY ChatViewConstants DEF ChatInv, ChatTypes, VersionsAreStored, Gets
<1>4. CASE GotDetails(g)
  <2>1. /\ g.kind = "details" /\ details' = g.conversation
        /\ UNCHANGED <<shown, passed, crossed>>
    BY <1>4 DEF GotDetails
  <2>2. ChatTypes' /\ VersionsAreStored'
    BY <1>1, <1>2, <1>3, <2>1 DEF ChatInv, ChatTypes, VersionsAreStored
  <2>3. ASSUME ~crossed PROVE ChosenIsLoaded' /\ ChosenIsFollowed'
    <3>1. ChosenIsLoaded /\ ChosenIsFollowed
      BY <2>3 DEF ChatInv
    <3>2. \A h \in DOMAIN gets : h.kind = "messages" => h \in DOMAIN gets'
      BY <1>2, <2>1
    <3>3. ChosenIsLoaded'
      BY <1>1, <1>2, <2>1, <3>1, <3>2 DEF ChosenIsLoaded
    <3>4. ChosenIsFollowed'
      BY <1>1, <2>1, <3>1, <3>2 DEF ChosenIsFollowed
    <3> QED
      BY <3>3, <3>4
  <2> QED
    BY <2>1, <2>2, <2>3 DEF ChatInv
<1>5. CASE GotMessages(g)
  <2>1. /\ g.kind = "messages" /\ g.version > 0
        /\ shown' = [conversation |-> g.conversation, version |-> g.version]
        /\ passed' = [passed EXCEPT ![g.conversation] = IF g.version > @ THEN g.version ELSE @]
        /\ UNCHANGED <<details, crossed>>
    BY <1>5 DEF GotMessages, Pass
  <2>2. /\ passed' \in [Chat -> Nat] /\ passed'[g.conversation] >= g.version
        /\ \A d \in Chat : passed'[d] >= passed[d]
    BY <1>3, <2>1
  <2>3. ChatTypes' /\ VersionsAreStored'
    BY <1>1, <1>2, <1>3, <2>1, <2>2 DEF ChatInv, ChatTypes, VersionsAreStored
  <2>4. ASSUME ~crossed PROVE ChosenIsLoaded' /\ ChosenIsFollowed'
    <3>1. ChosenIsLoaded /\ ChosenIsFollowed
      BY <2>4 DEF ChatInv
    <3>2. g.conversation = chosen
      BY <3>1 DEF ChosenIsLoaded
    <3>3. \A h \in DOMAIN gets : h.kind = "details" => h \in DOMAIN gets'
      BY <1>2, <2>1
    <3>4. ChosenIsLoaded'
      BY <1>1, <1>2, <2>1, <3>1, <3>2, <3>3 DEF ChosenIsLoaded
    <3>5. ChosenIsFollowed'
      <4>1. CASE g.version = newest[chosen]
        BY <1>1, <1>3, <2>2, <3>2, <4>1 DEF ChosenIsFollowed
      <4>2. CASE g.version # newest[chosen]
        <5>1. \A h \in DOMAIN gets : h.version \in {0, newest[chosen]} => h \in DOMAIN gets'
          BY <1>2, <2>1, <4>2
        <5>2. passed[chosen] >= newest[chosen] => passed'[chosen] >= newest[chosen]
          BY <1>3, <2>2
        <5> QED
          BY <1>1, <3>1, <5>1, <5>2 DEF ChosenIsFollowed
      <4> QED
        BY <4>1, <4>2
    <3> QED
      BY <3>4, <3>5
  <2> QED
    BY <2>1, <2>3, <2>4 DEF ChatInv
<1>6. CASE GetFails(g)
  <2>1. /\ shown' \in {shown, NoMessages} /\ crossed'
        /\ UNCHANGED <<details, passed>>
    BY <1>6 DEF GetFails
  <2>2. ChatTypes'
    BY <1>1, <1>2, <1>3, <1>6 DEF ChatInv, ChatTypes, GetFails
  <2>3. VersionsAreStored'
    <3>1. shown' = shown \/ shown'.version = 0
      BY <2>1 DEF NoMessages
    <3>2. \A h \in DOMAIN gets' : h.version <= newest'[h.conversation]
      BY <1>1, <1>2 DEF ChatInv, VersionsAreStored
    <3>3. CASE shown' = shown
      BY <1>1, <3>2, <3>3 DEF ChatInv, VersionsAreStored
    <3>4. CASE shown'.version = 0
      BY <3>2, <3>4 DEF VersionsAreStored
    <3> QED
      BY <3>1, <3>3, <3>4
  <2> QED
    BY <2>1, <2>2, <2>3 DEF ChatInv
<1> QED
  BY <1>4, <1>5, <1>6

\* Every step of the page, the backend and the other participants keeps the
\* invariant.
LEMMA NextKeepsChatInv == ChatInv /\ [ChatViewNext]_chatVars => ChatInv'
<1> SUFFICES ASSUME ChatInv, [ChatViewNext]_chatVars
             PROVE  ChatInv'
  OBVIOUS
<1>1. ASSUME NEW c \in Chat,
             \/ SelectChat(c) \/ ChangeByOther(c) \/ ChangeAnswered(c) \/ SentByRest(c)
             \/ \E v \in 1 .. MaxVersion : EventArrives(c, v)
      PROVE  ChatInv'
  <2>1. CASE ChangeByOther(c)
    BY <2>1, ChangesKeepChatInv DEF ChangeByOther, ChatInv, ChatTypes
  <2> QED
    BY <1>1, <2>1, SelectKeepsChatInv, AnswersKeepChatInv
<1>2. CASE ChangeHere
  BY <1>2, ChangesKeepChatInv DEF ChangeHere, ChatInv, ChatTypes
<1>3. CASE LoseSocket \/ RegainSocket
  BY <1>3, SocketKeepsChatInv
<1>4. ASSUME NEW g \in DOMAIN gets,
             ServeGet(g) \/ GotDetails(g) \/ GotMessages(g) \/ GetFails(g)
      PROVE  ChatInv'
  BY <1>4, ServeKeepsChatInv, GotKeepsChatInv
<1>5. CASE UNCHANGED chatVars
  BY <1>5 DEF chatVars, ChatInv, ChatTypes, VersionsAreStored, ChosenIsLoaded, ChosenIsFollowed
<1> QED
  BY <1>1, <1>2, <1>3, <1>4, <1>5 DEF ChatViewNext, BagToSet

\* What the invariant says once nothing is under way.
LEMMA ChatInvSuffices == ChatInv => ChatIsCurrent
<1> SUFFICES ASSUME ChatInv, ChatSettled, ~crossed
             PROVE  /\ details = chosen
                    /\ shown.version > 0 /\ shown.conversation = chosen
                    /\ shown.version = newest[chosen] \/ shown.version < passed[chosen]
  BY DEF ChatIsCurrent
<1>1. DOMAIN gets = {} /\ events = {}
  BY DEF ChatSettled, EmptyBag, SetToBag
<1>2. details = chosen /\ shown.version > 0 /\ shown.conversation = chosen
  BY <1>1 DEF ChatInv, ChosenIsLoaded
<1>3. passed[chosen] >= newest[chosen]
  BY <1>1 DEF ChatInv, ChosenIsFollowed
<1>4. /\ shown.version \in Nat /\ shown.version <= newest[chosen]
      /\ newest[chosen] \in Nat /\ passed[chosen] \in Nat
  BY <1>2, ChatViewConstants DEF ChatInv, ChatTypes, VersionsAreStored
<1> QED
  BY <1>2, <1>3, <1>4

\* Once nothing is under way the page shows the chosen conversation as it is stored,
\* for any number of conversations, versions and GETs, with events, callbacks and
\* GETs in any order and a socket that goes down; unless requests crossed or one
\* failed (onSelectChat, refreshCurrentConversation, the reducer of redux/chats).
THEOREM ChatIsCurrentHolds == ChatViewSpec => []ChatIsCurrent
  BY InitChatInv, NextKeepsChatInv, ChatInvSuffices, PTL DEF ChatViewSpec

\* The same, of the behaviours in which TLC explores the view.
THEOREM PartsChatPageIsCurrent == MCSpec => []ChatPageIsCurrent
<1> DEFINE Inv == part = "chat" => ChatInv
<1>1. MCInit => Inv
  BY InitChatInv DEF MCInit
<1>2. Inv /\ [MCNext]_<<part, supportVars, composerVars, chatVars,
                        preferenceVars, bookmarkVars, readingVars>> => Inv'
  BY NextKeepsChatInv DEF MCNext
<1>3. Inv => ChatPageIsCurrent
  BY ChatInvSuffices DEF ChatPageIsCurrent
<1> QED
  BY <1>1, <1>2, <1>3, PTL DEF MCSpec

-----------------------------------------------------------------------------
(***************************************************************************)
(* What a user keeps: bookmarks.                                           *)
(***************************************************************************)
Change ==
    {Idle} \union [step : {"sent", "stored"}, kind : {"create", "update", "remove", "clear"},
                   title : Title \union {NoBookmark}, older : SUBSET Click]

ChangeTypes ==
    /\ bookmark \in Title \union {NoBookmark}
    /\ bookmarkRow \in Title \union {NoBookmark}
    /\ change \in [Click -> Change]
    /\ \A r \in UnderWay(change) :
          change[r].title = NoBookmark <=> change[r].kind \in {"remove", "clear"}
    /\ strayed \in BOOLEAN

\* Of two requests under way one began before the other.
ChangesAreOrdered ==
    \A r \in UnderWay(change) :
       /\ change[r].older \subseteq UnderWay(change)
       /\ \A o \in UnderWay(change) :
             r = o \/ r \in change[o].older \/ o \in change[r].older

StoredChanges == {r \in Click : change[r].step = "stored"}

SentUpdates == {r \in Click : change[r].step = "sent" /\ change[r].kind = "update"}

\* Queries that do not stray are executed in the order in which they were sent,
\* and no update was sent while a creation or a reset was under way.
ChangesAreInOrder ==
    /\ \A r \in StoredChanges : change[r].older \subseteq StoredChanges
    /\ \A r \in UnderWay(change) : change[r].kind = "update" =>
          \A o \in change[r].older : change[o].kind \notin {"create", "clear"}

\* The query executed last: what the entry is going to be is in the table.
LastStored(r) ==
    /\ r \in StoredChanges
    /\ change[r].kind # "update"
    /\ StoredChanges \subseteq change[r].older \union {r}
    /\ bookmarkRow = change[r].title

EntryFollows ==
    IF \E r \in StoredChanges : change[r].kind # "update"
    THEN /\ \E r \in Click : LastStored(r)
         /\ SentUpdates # {} => bookmarkRow = NoBookmark
    ELSE /\ bookmarkRow = NoBookmark <=> bookmark = NoBookmark
         /\ bookmarkRow # NoBookmark =>
               IF SentUpdates = {} THEN bookmark = bookmarkRow
               ELSE \E r \in SentUpdates : /\ change[r].title = bookmark
                                           /\ SentUpdates \subseteq change[r].older \union {r}

BookmarkInv ==
    /\ ChangeTypes
    /\ ChangesAreOrdered
    /\ ~strayed => ChangesAreInOrder /\ EntryFollows

\* The fields of a request under way.
LEMMA ChangeFields ==
  ASSUME ChangeTypes
  PROVE  /\ DOMAIN change = Click
         /\ UnderWay(change) = {r \in Click : change[r].step \in {"sent", "stored"}}
         /\ \A r \in Click : change[r].step \in {"idle", "sent", "stored"}
         /\ \A r \in Click : change[r].step = "idle" <=> change[r] = Idle
         /\ \A r \in UnderWay(change) :
               /\ change[r] \in [step : {"sent", "stored"},
                                 kind : {"create", "update", "remove", "clear"},
                                 title : Title \union {NoBookmark}, older : SUBSET Click]
               /\ change[r].kind \in {"create", "update", "remove", "clear"}
               /\ change[r].title \in Title \union {NoBookmark}
               /\ change[r].older \subseteq Click
<1>1. change \in [Click -> Change]
  BY DEF ChangeTypes
<1>2. \A c \in Change :
         /\ c.step \in {"idle", "sent", "stored"}
         /\ c.step = "idle" <=> c = Idle
         /\ c.step \in {"sent", "stored"} =>
               /\ c \in [step : {"sent", "stored"},
                         kind : {"create", "update", "remove", "clear"},
                         title : Title \union {NoBookmark}, older : SUBSET Click]
               /\ c.kind \in {"create", "update", "remove", "clear"}
               /\ c.title \in Title \union {NoBookmark} /\ c.older \subseteq Click
  BY DEF Change, Idle
<1>3. \A r \in Click : change[r] \in Change
  BY <1>1
<1>4. UnderWay(change) = {r \in Click : change[r].step \in {"sent", "stored"}}
  BY <1>1, <1>2, <1>3 DEF UnderWay
<1> QED
  BY <1>1, <1>2, <1>3, <1>4

\* A request that is over: the others do not count it any more.
LEMMA EndedChanges ==
  ASSUME ChangeTypes, NEW r \in UnderWay(change), change' = Ended(change, r)
  PROVE  /\ change' \in [Click -> Change]
         /\ UnderWay(change)' = UnderWay(change) \ {r}
         /\ \A o \in UnderWay(change) \ {r} :
               /\ change'[o].step = change[o].step /\ change'[o].kind = change[o].kind
               /\ change'[o].title = change[o].title
               /\ change'[o].older = change[o].older \ {r}
         /\ \A o \in Click : o \in UnderWay(change) \ {r} \/ change'[o].step = "idle"
<1>1. /\ DOMAIN change = Click /\ Idle \in Change /\ Idle.step = "idle"
      /\ UnderWay(change) \subseteq Click
  BY ChangeFields DEF Change, Idle
<1>2. change' = [o \in Click |->
                   IF o \in {r} \union (Click \ UnderWay(change)) THEN Idle
                   ELSE [change[o] EXCEPT !.older = @ \ {r}]]
  BY <1>1 DEF Ended
<1>3. ASSUME NEW o \in UnderWay(change) \ {r}
      PROVE  /\ change'[o] \in Change
             /\ change'[o].step = change[o].step /\ change'[o].kind = change[o].kind
             /\ change'[o].title = change[o].title
             /\ change'[o].older = change[o].older \ {r}
             /\ change'[o].step \in {"sent", "stored"}
  <2>1. change'[o] = [change[o] EXCEPT !.older = @ \ {r}]
    BY <1>1, <1>2
  <2>2. change[o] \in [step : {"sent", "stored"},
                       kind : {"create", "update", "remove", "clear"},
                       title : Title \union {NoBookmark}, older : SUBSET Click]
    BY ChangeFields
  <2> QED
    BY <2>1, <2>2 DEF Change
<1>4. \A o \in Click : o \in UnderWay(change) \ {r} \/ change'[o] = Idle
  BY <1>2
<1>5. change' \in [Click -> Change]
  BY <1>1, <1>2, <1>3, <1>4
<1>6. UnderWay(change)' = UnderWay(change) \ {r}
  BY <1>1, <1>3, <1>4, <1>5 DEF UnderWay
<1> QED
  BY <1>1, <1>3, <1>4, <1>5, <1>6

LEMMA InitBookmarkInv == BookmarksInit => BookmarkInv
<1> SUFFICES ASSUME BookmarksInit PROVE BookmarkInv
  OBVIOUS
<1>1. Idle \in Change /\ Idle.step = "idle"
  BY DEF Change, Idle
<1>2. /\ change = [r \in Click |-> Idle] /\ change \in [Click -> Change]
      /\ \A r \in Click : change[r].step = "idle"
      /\ bookmark = NoBookmark /\ bookmarkRow = NoBookmark /\ strayed = FALSE
  BY <1>1 DEF BookmarksInit
<1>3. UnderWay(change) = {} /\ StoredChanges = {} /\ SentUpdates = {}
  BY <1>2 DEF UnderWay, StoredChanges, SentUpdates
<1> QED
  BY <1>2, <1>3
     DEF BookmarkInv, ChangeTypes, ChangesAreOrdered, ChangesAreInOrder, EntryFollows

\* A restart reads the table, with nothing under way.
LEMMA RestartKeepsBookmarkInv ==
  ASSUME BookmarkInv, RestartBookmarks
  PROVE  BookmarkInv'
<1>1. Idle \in Change /\ Idle.step = "idle"
  BY DEF Change, Idle
<1>2. /\ change' = [r \in Click |-> Idle] /\ change' \in [Click -> Change]
      /\ \A r \in Click : change'[r].step = "idle"
      /\ bookmark' = bookmarkRow /\ bookmarkRow' = bookmarkRow /\ strayed' = FALSE
  BY <1>1 DEF RestartBookmarks
<1>3. UnderWay(change)' = {} /\ StoredChanges' = {} /\ SentUpdates' = {}
  BY <1>2 DEF UnderWay, StoredChanges, SentUpdates
<1>4. bookmarkRow' \in Title \union {NoBookmark}
  BY <1>2 DEF BookmarkInv, ChangeTypes
<1> QED
  BY <1>2, <1>3, <1>4
     DEF BookmarkInv, ChangeTypes, ChangesAreOrdered, ChangesAreInOrder, EntryFollows

\* A request begins: it is the youngest.
LEMMA SendKeepsBookmarkInv ==
  ASSUME BookmarkInv, NEW r \in Click,
         \/ \E title \in Title : CreateBookmark(r, title) \/ UpdateBookmark(r, title)
         \/ RemoveBookmark(r) \/ ClearAll(r)
  PROVE  BookmarkInv'
<1>1. PICK kind \in {"create", "update", "remove", "clear"}, t \in Title \union {NoBookmark} :
         /\ Send(r, kind, t)
         /\ t = NoBookmark <=> kind \in {"remove", "clear"}
         /\ kind = "update" => bookmark # NoBookmark /\ bookmark' = t
         /\ kind # "update" => bookmark' = bookmark
  BY BookmarkConstants DEF CreateBookmark, UpdateBookmark, RemoveBookmark, ClearAll
<1> DEFINE new == [step |-> "sent", kind |-> kind, title |-> t, older |-> UnderWay(change)]
<1>2. /\ change[r] = Idle /\ change' = [change EXCEPT ![r] = new]
      /\ bookmarkRow' = bookmarkRow
      /\ strayed' = (strayed \/ (kind = "update" /\ \E o \in UnderWay(change) :
                                   change[o].kind \in {"create", "clear"}))
  BY <1>1 DEF Send
<1>3. /\ ChangeTypes /\ ChangesAreOrdered
      /\ DOMAIN change = Click
      /\ UnderWay(change) = {o \in Click : change[o].step \in {"sent", "stored"}}
      /\ r \notin UnderWay(change)
      /\ change[r].step = "idle"
  BY <1>2, ChangeFields DEF BookmarkInv, Idle
<1>4. /\ new \in Change /\ new.step = "sent" /\ new.kind = kind /\ new.title = t
      /\ new.older = UnderWay(change)
  BY <1>1, <1>3 DEF Change
<1> HIDE DEF new
<1>5. /\ change' \in [Click -> Change] /\ change'[r] = new
      /\ \A o \in Click : o # r => change'[o] = change[o]
  BY <1>2, <1>3, <1>4 DEF ChangeTypes
<1>6. /\ UnderWay(change)' = UnderWay(change) \union {r}
      /\ StoredChanges' = StoredChanges /\ r \notin StoredChanges
      /\ SentUpdates' = IF kind = "update" THEN SentUpdates \union {r} ELSE SentUpdates
      /\ StoredChanges \subseteq UnderWay(change) /\ SentUpdates \subseteq UnderWay(change)
  <2>1. UnderWay(change)' = {o \in Click : change'[o].step # "idle"}
    BY <1>5 DEF UnderWay
  <2>2. UnderWay(change) = {o \in Click : change[o].step # "idle"}
    BY <1>3 DEF UnderWay
  <2> QED
    BY <1>3, <1>4, <1>5, <2>1, <2>2 DEF StoredChanges, SentUpdates
<1>7. ChangeTypes'
  <2>1. bookmark' \in Title \union {NoBookmark} /\ bookmarkRow' \in Title \union {NoBookmark}
    BY <1>1, <1>2, <1>3 DEF ChangeTypes
  <2>2. strayed' \in BOOLEAN
    BY <1>2, <1>3 DEF ChangeTypes
  <2>3. \A o \in UnderWay(change)' :
           change'[o].title = NoBookmark <=> change'[o].kind \in {"remove", "clear"}
    BY <1>1, <1>3, <1>4, <1>5, <1>6 DEF ChangeTypes
  <2> QED
    BY <1>5, <2>1, <2>2, <2>3 DEF ChangeTypes
<1>8. ChangesAreOrdered'
  BY <1>3, <1>4, <1>5, <1>6 DEF ChangesAreOrdered
<1>9. ASSUME ~strayed'
      PROVE  ChangesAreInOrder' /\ EntryFollows'
  <2>1. /\ ~strayed /\ ChangesAreInOrder /\ EntryFollows
        /\ kind = "update" =>
              \A o \in UnderWay(change) : change[o].kind \notin {"create", "clear"}
    BY <1>2, <1>9 DEF BookmarkInv
  <2>2. ChangesAreInOrder'
    <3>1. \A o \in StoredChanges' : change'[o].older \subseteq StoredChanges'
      BY <1>5, <1>6, <2>1 DEF ChangesAreInOrder, StoredChanges
    <3>2. ASSUME NEW o \in UnderWay(change)', change'[o].kind = "update",
                 NEW q \in change'[o].older
          PROVE  change'[q].kind \notin {"create", "clear"}
      <4>1. CASE o = r
        <5>1. q \in UnderWay(change) /\ q # r /\ q \in Click
          BY <1>3, <1>4, <1>5, <3>2, <4>1
        <5> QED
          BY <1>4, <1>5, <2>1, <3>2, <4>1, <5>1
      <4>2. CASE o # r
        <5>1. o \in UnderWay(change) /\ change'[o] = change[o]
          BY <1>3, <1>5, <1>6, <4>2
        <5>2. q \in change[o].older /\ change[o].kind = "update"
          BY <3>2, <5>1
        <5>3. q \in Click /\ q # r
          BY <1>3, <5>1, <5>2 DEF ChangesAreOrdered
        <5> QED
          BY <1>5, <2>1, <5>1, <5>2, <5>3 DEF ChangesAreInOrder
      <4> QED
        BY <4>1, <4>2
    <3> QED
      BY <3>1, <3>2 DEF ChangesAreInOrder
  <2>3. EntryFollows'
    <3>1. CASE \E o \in StoredChanges : change[o].kind # "update"
      <4>1. PICK l \in Click : LastStored(l)
        BY <2>1, <3>1 DEF EntryFollows
      <4>2. l \in UnderWay(change) /\ change[l].kind # "update"
        BY <1>6, <4>1 DEF LastStored
      <4>3. /\ LastStored(l)'
            /\ \E o \in StoredChanges' : change'[o].kind # "update"
        BY <1>2, <1>3, <1>5, <1>6, <4>1, <4>2 DEF LastStored
      <4>4. kind = "update" => bookmarkRow' = NoBookmark
        <5>1. kind = "update" => change[l].kind = "remove"
          BY <2>1, <4>2, ChangeFields, <1>3
        <5> QED
          BY <1>2, <1>3, <4>1, <4>2, <5>1 DEF ChangeTypes, LastStored
      <4>5. SentUpdates' # {} => bookmarkRow' = NoBookmark
        BY <1>2, <1>6, <2>1, <3>1, <4>4 DEF EntryFollows
      <4> QED
        BY <4>3, <4>5 DEF EntryFollows
    <3>2. CASE ~ \E o \in StoredChanges : change[o].kind # "update"
      <4>1. ~ \E o \in StoredChanges' : change'[o].kind # "update"
        BY <1>5, <1>6, <3>2 DEF StoredChanges
      <4>2. /\ bookmarkRow = NoBookmark <=> bookmark = NoBookmark
            /\ bookmarkRow # NoBookmark =>
                  IF SentUpdates = {} THEN bookmark = bookmarkRow
                  ELSE \E o \in SentUpdates : /\ change[o].title = bookmark
                                              /\ SentUpdates \subseteq change[o].older \union {o}
        BY <2>1, <3>2 DEF EntryFollows
      <4>3. CASE kind = "update"
        <5>1. bookmark' = t /\ t # NoBookmark /\ bookmarkRow' # NoBookmark
          BY <1>1, <1>2, <4>2, <4>3
        <5>2. r \in SentUpdates' /\ change'[r].title = bookmark'
              /\ SentUpdates' \subseteq change'[r].older \union {r}
          BY <1>4, <1>5, <1>6, <4>3, <5>1
        <5> QED
          BY <4>1, <5>1, <5>2 DEF EntryFollows
      <4>4. CASE kind # "update"
        <5>1. SentUpdates' = SentUpdates /\ bookmark' = bookmark /\ bookmarkRow' = bookmarkRow
          BY <1>1, <1>2, <1>6, <4>4
        <5>2. \A o \in SentUpdates : change'[o] = change[o]
          BY <1>3, <1>5, <1>6
        <5> QED
          BY <4>1, <4>2, <5>1, <5>2 DEF EntryFollows
      <4> QED
        BY <4>3, <4>4
    <3> QED
      BY <3>1, <3>2
  <2> QED
    BY <2>2, <2>3
<1> QED
  BY <1>7, <1>8, <1>9 DEF BookmarkInv

\* A query is executed: unless it strays, all those before it have been.
LEMMA StoreKeepsBookmarkInv ==
  ASSUME BookmarkInv, NEW r \in Click, StoreBookmark(r)
  PROVE  BookmarkInv'
<1>1. /\ change[r].step = "sent" /\ Permitted(r)
      /\ bookmarkRow' = change[r].title
      /\ change' = [change EXCEPT ![r].step = "stored"]
      /\ strayed' = (strayed \/ \E o \in change[r].older : change[o].step = "sent")
      /\ bookmark' = bookmark
  BY DEF StoreBookmark, OvertakesQuery
<1>2. /\ ChangeTypes /\ ChangesAreOrdered /\ DOMAIN change = Click
      /\ UnderWay(change) = {o \in Click : change[o].step \in {"sent", "stored"}}
      /\ r \in UnderWay(change)
      /\ \A o \in UnderWay(change) : change[o].older \subseteq UnderWay(change)
  BY <1>1, ChangeFields DEF BookmarkInv, ChangesAreOrdered
<1>3. /\ change[r] \in [step : {"sent", "stored"},
                        kind : {"create", "update", "remove", "clear"},
                        title : Title \union {NoBookmark}, older : SUBSET Click]
      /\ change[r].title \in Title \union {NoBookmark}
  BY <1>2, ChangeFields
<1> DEFINE new == [change[r] EXCEPT !.step = "stored"]
<1>4. /\ new \in Change /\ new.step = "stored" /\ new.kind = change[r].kind
      /\ new.title = change[r].title /\ new.older = change[r].older
  BY <1>3 DEF Change
<1>5. change' = [change EXCEPT ![r] = new]
  BY <1>1
<1> HIDE DEF new
<1>6. /\ change' \in [Click -> Change] /\ change'[r] = new
      /\ \A o \in Click : o # r => change'[o] = change[o]
      /\ \A o \in Click : /\ change'[o].kind = change[o].kind
                          /\ change'[o].title = change[o].title
                          /\ change'[o].older = change[o].older
  BY <1>2, <1>4, <1>5 DEF ChangeTypes
<1>7. /\ UnderWay(change)' = UnderWay(change)
      /\ StoredChanges' = StoredChanges \union {r} /\ r \notin StoredChanges
      /\ SentUpdates' = SentUpdates \ {r}
  <2>1. UnderWay(change)' = {o \in Click : change'[o].step # "idle"}
    BY <1>6 DEF UnderWay
  <2>2. UnderWay(change) = {o \in Click : change[o].step # "idle"}
    BY <1>2 DEF UnderWay
  <2>3. \A o \in Click : change'[o].step = IF o = r THEN "stored" ELSE change[o].step
    BY <1>4, <1>6
  <2>4. UnderWay(change)' = UnderWay(change)
    <3>1. \A o \in Click : change'[o].step # "idle" <=> change[o].step # "idle"
      BY <1>1, <2>3
    <3> QED
      BY <2>1, <2>2, <3>1
  <2>5. StoredChanges' = StoredChanges \union {r} /\ r \notin StoredChanges
    BY <1>1, <2>3 DEF StoredChanges
  <2>6. SentUpdates' = SentUpdates \ {r}
    BY <1>6, <2>3 DEF SentUpdates
  <2> QED
    BY <2>4, <2>5, <2>6
<1>8. ChangeTypes' /\ ChangesAreOrdered'
  <2>1. /\ UnderWay(change)' = UnderWay(change) /\ UnderWay(change) \subseteq Click
        /\ change' \in [Click -> Change]
        /\ \A o \in Click : /\ change'[o].kind = change[o].kind
                            /\ change'[o].title = change[o].title
                            /\ change'[o].older = change[o].older
    BY <1>2, <1>6, <1>7
  <2>2. /\ bookmark' \in Title \union {NoBookmark}
        /\ bookmarkRow' \in Title \union {NoBookmark} /\ strayed' \in BOOLEAN
    BY <1>1, <1>2, <1>3 DEF ChangeTypes
  <2>3. ChangeTypes'
    BY <1>2, <2>1, <2>2 DEF ChangeTypes
  <2>4. ChangesAreOrdered'
    BY <1>2, <2>1 DEF ChangesAreOrdered
  <2> QED
    BY <2>3, <2>4
<1>9. ASSUME ~strayed'
      PROVE  ChangesAreInOrder' /\ EntryFollows'
  <2>1. /\ ~strayed /\ ChangesAreInOrder /\ EntryFollows
        /\ \A o \in change[r].older : change[o].step # "sent"
    BY <1>1, <1>9 DEF BookmarkInv
  <2>2. change[r].older \subseteq StoredChanges
    BY <1>2, <2>1 DEF StoredChanges
  <2>3. StoredChanges \subseteq change[r].older
    <3> SUFFICES ASSUME NEW o \in StoredChanges PROVE o \in change[r].older
      OBVIOUS
    <3>1. o \in UnderWay(change) /\ o # r /\ r \notin change[o].older
      BY <1>2, <1>7, <2>1 DEF StoredChanges, ChangesAreInOrder
    <3> QED
      BY <1>2, <3>1 DEF ChangesAreOrdered
  <2>4. ChangesAreInOrder'
    <3>1. \A o \in StoredChanges' : change'[o].older \subseteq StoredChanges'
      BY <1>6, <1>7, <2>1, <2>2 DEF ChangesAreInOrder, StoredChanges
    <3>2. \A o \in UnderWay(change)' : change'[o].kind = "update" =>
             \A q \in change'[o].older : change'[q].kind \notin {"create", "clear"}
      BY <1>2, <1>6, <1>7, <2>1 DEF ChangesAreInOrder
    <3> QED
      BY <3>1, <3>2 DEF ChangesAreInOrder
  \* An update that is older has been executed, and a younger one was sent only
  \* while what is removed was still there.
  <2>5. ASSUME change[r].kind \in {"create", "clear"} PROVE SentUpdates = {}
    <3> SUFFICES ASSUME NEW o \in SentUpdates PROVE FALSE
      OBVIOUS
    <3>1. o \in UnderWay(change) /\ o \in Click /\ change[o].kind = "update"
          /\ change[o].step = "sent" /\ o # r
      BY <1>2, <2>5 DEF SentUpdates
    <3>2. o \notin change[r].older
      BY <2>1, <3>1
    <3>3. r \notin change[o].older
      BY <2>1, <2>5, <3>1 DEF ChangesAreInOrder
    <3> QED
      BY <1>2, <3>1, <3>2, <3>3 DEF ChangesAreOrdered
  <2>6. EntryFollows'
    <3>1. CASE change[r].kind # "update"
      <4>1. LastStored(r)'
        BY <1>1, <1>6, <1>7, <2>3, <3>1 DEF LastStored
      <4>2. SentUpdates' # {} => bookmarkRow' = NoBookmark
        <5>1. change[r].kind = "remove" => bookmarkRow' = NoBookmark
          BY <1>1, <1>2 DEF ChangeTypes
        <5>2. change[r].kind \in {"create", "clear", "remove"}
          BY <1>3, <3>1
        <5> QED
          BY <1>7, <2>5, <5>1, <5>2
      <4>3. \E o \in StoredChanges' : change'[o].kind # "update"
        BY <1>6, <1>7, <3>1
      <4> QED
        BY <4>1, <4>2, <4>3 DEF EntryFollows
    <3>2. CASE change[r].kind = "update"
      <4>1. r \in SentUpdates /\ bookmarkRow # NoBookmark /\ bookmarkRow' # NoBookmark
        BY <1>1, <1>2, <3>2 DEF SentUpdates, Permitted, ChangeTypes
      <4>2. ~ \E o \in StoredChanges : change[o].kind # "update"
        BY <2>1, <4>1 DEF EntryFollows
      <4>3. ~ \E o \in StoredChanges' : change'[o].kind # "update"
        BY <1>6, <1>7, <3>2, <4>2 DEF StoredChanges
      <4>4. /\ bookmark # NoBookmark
            /\ \E o \in SentUpdates : /\ change[o].title = bookmark
                                      /\ SentUpdates \subseteq change[o].older \union {o}
        BY <2>1, <4>1, <4>2 DEF EntryFollows
      <4>5. PICK o \in SentUpdates : /\ change[o].title = bookmark
                                     /\ SentUpdates \subseteq change[o].older \union {o}
        BY <4>4
      <4>6. CASE o = r
        <5>1. SentUpdates' = {}
          BY <1>7, <2>1, <4>5, <4>6 DEF SentUpdates
        <5> QED
          BY <1>1, <4>1, <4>3, <4>4, <4>5, <4>6, <5>1 DEF EntryFollows
      <4>7. CASE o # r
        <5>1. /\ o \in SentUpdates' /\ change'[o].title = bookmark'
              /\ SentUpdates' \subseteq change'[o].older \union {o}
          BY <1>1, <1>6, <1>7, <4>5, <4>7 DEF SentUpdates
        <5> QED
          BY <1>1, <4>1, <4>3, <4>4, <5>1 DEF EntryFollows
      <4> QED
        BY <4>6, <4>7
    <3> QED
      BY <3>1, <3>2
  <2> QED
    BY <2>4, <2>6
<1> QED
  BY <1>8, <1>9 DEF BookmarkInv

\* A request that is over leaves the order of the others as it was.
LEMMA EndedKeepsOrder ==
  ASSUME BookmarkInv, NEW r \in UnderWay(change), change' = Ended(change, r),
         bookmark' \in {bookmark, change[r].title}, bookmarkRow' = bookmarkRow,
         strayed' \in BOOLEAN
  PROVE  /\ ChangeTypes' /\ ChangesAreOrdered'
         /\ StoredChanges' = StoredChanges \ {r} /\ SentUpdates' = SentUpdates \ {r}
         /\ \A o \in UnderWay(change) \ {r} :
               /\ change'[o].kind = change[o].kind /\ change'[o].title = change[o].title
               /\ change'[o].older = change[o].older \ {r}
         /\ StoredChanges \subseteq UnderWay(change) /\ SentUpdates \subseteq UnderWay(change)
         /\ ChangesAreInOrder => ChangesAreInOrder'
<1>1. /\ ChangeTypes /\ ChangesAreOrdered /\ DOMAIN change = Click
      /\ UnderWay(change) = {o \in Click : change[o].step \in {"sent", "stored"}}
      /\ change[r].title \in Title \union {NoBookmark}
  BY ChangeFields DEF BookmarkInv
<1>2. /\ change' \in [Click -> Change]
      /\ UnderWay(change)' = UnderWay(change) \ {r}
      /\ \A o \in UnderWay(change) \ {r} :
            /\ change'[o].step = change[o].step /\ change'[o].kind = change[o].kind
            /\ change'[o].title = change[o].title
            /\ change'[o].older = change[o].older \ {r}
      /\ \A o \in Click : o \in UnderWay(change) \ {r} \/ change'[o].step = "idle"
  BY <1>1, EndedChanges
<1>3. /\ StoredChanges \subseteq UnderWay(change) /\ SentUpdates \subseteq UnderWay(change)
      /\ StoredChanges' = StoredChanges \ {r} /\ SentUpdates' = SentUpdates \ {r}
  BY <1>1, <1>2 DEF StoredChanges, SentUpdates
<1>4. ChangeTypes'
  BY <1>1, <1>2 DEF ChangeTypes
<1>5. ChangesAreOrdered'
  BY <1>1, <1>2 DEF ChangesAreOrdered
<1>6. ASSUME ChangesAreInOrder PROVE ChangesAreInOrder'
  <2>1. \A o \in StoredChanges' : change'[o].older \subseteq StoredChanges'
    BY <1>2, <1>3, <1>6 DEF ChangesAreInOrder
  <2>2. ASSUME NEW o \in UnderWay(change)', change'[o].kind = "update",
               NEW q \in change'[o].older
        PROVE  change'[q].kind \notin {"create", "clear"}
    <3>1. /\ o \in UnderWay(change) \ {r} /\ change[o].kind = "update"
          /\ q \in change[o].older /\ q # r
      BY <1>2, <2>2
    <3>2. q \in UnderWay(change) \ {r}
      BY <1>1, <3>1 DEF ChangesAreOrdered
    <3> QED
      BY <1>2, <1>6, <3>1, <3>2 DEF ChangesAreInOrder
  <2> QED
    BY <2>1, <2>2 DEF ChangesAreInOrder
<1> QED
  BY <1>2, <1>3, <1>4, <1>5, <1>6

\* A request that is refused, or fails before its query: the entry follows the
\* others as it did.
LEMMA DroppedKeepsEntry ==
  ASSUME BookmarkInv, ~strayed, NEW r \in UnderWay(change), change[r].step = "sent",
         change[r].kind = "update" => bookmarkRow = NoBookmark,
         change' = Ended(change, r), bookmark' = bookmark, bookmarkRow' = bookmarkRow,
         strayed' \in BOOLEAN
  PROVE  EntryFollows'
<1>1. /\ StoredChanges' = StoredChanges \ {r} /\ SentUpdates' = SentUpdates \ {r}
      /\ \A o \in UnderWay(change) \ {r} :
            /\ change'[o].kind = change[o].kind /\ change'[o].title = change[o].title
            /\ change'[o].older = change[o].older \ {r}
      /\ StoredChanges \subseteq UnderWay(change) /\ SentUpdates \subseteq UnderWay(change)
  BY EndedKeepsOrder
<1>2. r \notin StoredChanges /\ StoredChanges' = StoredChanges
  BY <1>1 DEF StoredChanges
<1>3. EntryFollows
  BY DEF BookmarkInv
<1>4. CASE \E o \in StoredChanges : change[o].kind # "update"
  <2>1. PICK l \in Click : LastStored(l)
    BY <1>3, <1>4 DEF EntryFollows
  <2>2. l \in UnderWay(change) \ {r}
    BY <1>1, <1>2, <2>1 DEF LastStored
  <2>3. LastStored(l)' /\ \E o \in StoredChanges' : change'[o].kind # "update"
    BY <1>1, <1>2, <2>1, <2>2 DEF LastStored
  <2>4. SentUpdates' # {} => bookmarkRow' = NoBookmark
    BY <1>1, <1>3, <1>4 DEF EntryFollows
  <2> QED
    BY <2>3, <2>4 DEF EntryFollows
<1>5. CASE ~ \E o \in StoredChanges : change[o].kind # "update"
  <2>1. ~ \E o \in StoredChanges' : change'[o].kind # "update"
    BY <1>1, <1>2, <1>5
  <2>2. /\ bookmarkRow = NoBookmark <=> bookmark = NoBookmark
        /\ bookmarkRow # NoBookmark =>
              IF SentUpdates = {} THEN bookmark = bookmarkRow
              ELSE \E o \in SentUpdates : /\ change[o].title = bookmark
                                          /\ SentUpdates \subseteq change[o].older \union {o}
    BY <1>3, <1>5 DEF EntryFollows
  <2>3. CASE bookmarkRow = NoBookmark
    BY <2>1, <2>2, <2>3 DEF EntryFollows
  <2>4. CASE bookmarkRow # NoBookmark
    <3>1. r \notin SentUpdates /\ SentUpdates' = SentUpdates
      BY <1>1, <2>4 DEF SentUpdates
    <3>2. ASSUME NEW o \in SentUpdates, SentUpdates \subseteq change[o].older \union {o}
          PROVE  /\ change'[o].title = change[o].title
                 /\ SentUpdates \subseteq change'[o].older \union {o}
      BY <1>1, <3>1, <3>2
    <3> QED
      BY <2>1, <2>2, <2>4, <3>1, <3>2 DEF EntryFollows
  <2> QED
    BY <2>3, <2>4
<1> QED
  BY <1>4, <1>5

\* A request is refused, or fails.
LEMMA DroppedKeepsBookmarkInv ==
  ASSUME BookmarkInv, NEW r \in Click, RefuseBookmark(r) \/ FailBookmark(r)
  PROVE  BookmarkInv'
<1>1. /\ r \in UnderWay(change) /\ change' = Ended(change, r)
      /\ UNCHANGED <<bookmark, bookmarkRow>>
  BY ChangeFields DEF RefuseBookmark, FailBookmark, BookmarkInv
<1>2. strayed' \in BOOLEAN
  BY DEF RefuseBookmark, FailBookmark, BookmarkInv, ChangeTypes
<1>3. ASSUME ~strayed'
      PROVE  /\ ~strayed /\ change[r].step = "sent"
             /\ change[r].kind = "update" => bookmarkRow = NoBookmark
  <2>1. CASE RefuseBookmark(r)
    BY <1>3, <2>1 DEF RefuseBookmark, Permitted
  <2>2. CASE FailBookmark(r)
    BY <1>1, <1>3, <2>2, ChangeFields DEF FailBookmark, BookmarkInv
  <2> QED
    BY <2>1, <2>2
<1> QED
  BY <1>1, <1>2, <1>3, EndedKeepsOrder, DroppedKeepsEntry DEF BookmarkInv

\* A request ends with the entry set, unless it was an update.
LEMMA ResumeKeepsBookmarkInv ==
  ASSUME BookmarkInv, NEW r \in Click, ResumeBookmark(r)
  PROVE  BookmarkInv'
<1>1. /\ change[r].step = "stored"
      /\ bookmark' = IF change[r].kind = "update" THEN bookmark ELSE change[r].title
      /\ change' = Ended(change, r)
      /\ strayed' = (strayed \/ change[r].older # {})
      /\ bookmarkRow' = bookmarkRow
  BY DEF ResumeBookmark, OvertakesAnswer
<1>2. r \in UnderWay(change) /\ r \in StoredChanges
  BY <1>1, ChangeFields DEF BookmarkInv, StoredChanges
<1>3. strayed' \in BOOLEAN
  BY <1>1 DEF BookmarkInv, ChangeTypes
<1>4. /\ ChangeTypes' /\ ChangesAreOrdered'
      /\ StoredChanges' = StoredChanges \ {r} /\ SentUpdates' = SentUpdates \ {r}
      /\ \A o \in UnderWay(change) \ {r} :
            /\ change'[o].kind = change[o].kind /\ change'[o].title = change[o].title
            /\ change'[o].older = change[o].older \ {r}
      /\ StoredChanges \subseteq UnderWay(change) /\ SentUpdates \subseteq UnderWay(change)
      /\ ChangesAreInOrder => ChangesAreInOrder'
  BY <1>1, <1>2, <1>3, EndedKeepsOrder
<1>5. ASSUME ~strayed'
      PROVE  EntryFollows'
  <2>1. ~strayed /\ change[r].older = {} /\ EntryFollows
    BY <1>1, <1>5 DEF BookmarkInv
  <2>2. SentUpdates' = SentUpdates /\ r \notin SentUpdates
    BY <1>1, <1>4 DEF SentUpdates
  <2>3. ASSUME NEW l \in Click, LastStored(l), l # r
        PROVE  LastStored(l)' /\ \E o \in StoredChanges' : change'[o].kind # "update"
    <3>1. l \in UnderWay(change) \ {r} /\ l \in StoredChanges'
      BY <1>4, <2>3 DEF LastStored
    <3> QED
      BY <1>1, <1>4, <2>3, <3>1 DEF LastStored
  <2>4. CASE \E o \in StoredChanges : change[o].kind # "update"
    <3>1. PICK l \in Click : LastStored(l)
      BY <2>1, <2>4 DEF EntryFollows
    <3>2. SentUpdates' # {} => bookmarkRow' = NoBookmark
      BY <1>1, <2>1, <2>2, <2>4 DEF EntryFollows
    <3>3. CASE l # r
      BY <2>3, <3>1, <3>2, <3>3 DEF EntryFollows
    <3>4. CASE l = r
      <4>1. StoredChanges' = {}
        BY <1>4, <2>1, <3>1, <3>4 DEF LastStored
      <4>2. bookmark' = bookmarkRow'
        BY <1>1, <3>1, <3>4 DEF LastStored
      <4> QED
        BY <3>2, <4>1, <4>2 DEF EntryFollows
    <3> QED
      BY <3>3, <3>4
  <2>5. CASE ~ \E o \in StoredChanges : change[o].kind # "update"
    <3>1. ~ \E o \in StoredChanges' : change'[o].kind # "update"
      BY <1>4, <2>5
    <3>2. bookmark' = bookmark
      BY <1>1, <1>2, <2>5
    <3>3. ASSUME NEW o \in SentUpdates, SentUpdates \subseteq change[o].older \union {o}
          PROVE  /\ change'[o].title = change[o].title
                 /\ SentUpdates \subseteq change'[o].older \union {o}
      BY <1>4, <2>2, <3>3
    <3>4. /\ bookmarkRow = NoBookmark <=> bookmark = NoBookmark
          /\ bookmarkRow # NoBookmark =>
                IF SentUpdates = {} THEN bookmark = bookmarkRow
                ELSE \E o \in SentUpdates : /\ change[o].title = bookmark
                                            /\ SentUpdates \subseteq change[o].older \union {o}
      BY <2>1, <2>5 DEF EntryFollows
    <3> QED
      BY <1>1, <2>2, <3>1, <3>2, <3>3, <3>4 DEF EntryFollows
  <2> QED
    BY <2>4, <2>5
<1> QED
  BY <1>1, <1>4, <1>5 DEF BookmarkInv

\* Every step keeps the invariant.
LEMMA NextKeepsBookmarkInv == BookmarkInv /\ [BookmarksNext]_bookmarkVars => BookmarkInv'
<1> SUFFICES ASSUME BookmarkInv, [BookmarksNext]_bookmarkVars
             PROVE  BookmarkInv'
  OBVIOUS
<1>1. CASE UNCHANGED bookmarkVars
  BY <1>1 DEF bookmarkVars, BookmarkInv, ChangeTypes, ChangesAreOrdered, ChangesAreInOrder,
              EntryFollows, LastStored, StoredChanges, SentUpdates, UnderWay
<1>2. CASE RestartBookmarks
  BY <1>2, RestartKeepsBookmarkInv
<1>3. ASSUME NEW r \in Click,
             \/ \E title \in Title : CreateBookmark(r, title) \/ UpdateBookmark(r, title)
             \/ RemoveBookmark(r) \/ ClearAll(r)
      PROVE  BookmarkInv'
  BY <1>3, SendKeepsBookmarkInv
<1>4. ASSUME NEW r \in Click,
             \/ StoreBookmark(r) \/ RefuseBookmark(r)
             \/ ResumeBookmark(r) \/ FailBookmark(r)
      PROVE  BookmarkInv'
  BY <1>4, StoreKeepsBookmarkInv, DroppedKeepsBookmarkInv, ResumeKeepsBookmarkInv
<1> QED
  BY <1>1, <1>2, <1>3, <1>4 DEF BookmarksNext

\* What the invariant says when nothing is under way.
LEMMA BookmarkInvSuffices == BookmarkInv => BookmarkIsStored
<1> SUFFICES ASSUME BookmarkInv, UnderWay(change) = {}, ~strayed
             PROVE  bookmark = bookmarkRow
  BY DEF BookmarkIsStored
<1>1. StoredChanges = {} /\ SentUpdates = {}
  BY ChangeFields DEF BookmarkInv, StoredChanges, SentUpdates
<1> QED
  BY <1>1 DEF BookmarkInv, EntryFollows

\* What the user sees is what a restart would bring back once nothing is under
\* way, for any number of requests and titles, with failing queries, restarts and
\* the development reset; unless queries strayed (bookmarks.service.ts).
THEOREM BookmarkIsStoredHolds == BookmarksSpec => []BookmarkIsStored
  BY InitBookmarkInv, NextKeepsBookmarkInv, BookmarkInvSuffices, PTL DEF BookmarksSpec

-----------------------------------------------------------------------------
(***************************************************************************)
(* What a user keeps: preferences of a conversation.                       *)
(***************************************************************************)
\* Every update says whether the conversation is deleted.
FlagChanges == {c \in UNION {[D -> BOOLEAN] : D \in SUBSET Flag} : "isDeleted" \in DOMAIN c}

UpsertStates ==
    {Idle} \union [step : {"sent", "stored"}, user : Reader, changes : FlagChanges,
                   found : Preference, older : SUBSET Upsert]

PreferenceTypes ==
    /\ preference \in [Reader -> Preference]
    /\ preferenceRow \in [Reader -> Preference]
    /\ upsert \in [Upsert -> UpsertStates]
    /\ posting \in [Post -> {"unsent", "restoring", "sent", "stored", "done", "failed"}]
    /\ log \subseteq messageRow /\ messageRow \subseteq Post
    /\ owed \in [Post -> SUBSET Reader]
    /\ slipped \subseteq Reader /\ blended \subseteq Reader

UpsertsOf(u) == {w \in Upsert : upsert[w].step \in {"sent", "stored"} /\ upsert[w].user = u}

\* Of two upserts of a user one began before the other.
UpsertsAreOrdered ==
    \A u \in Reader : \A w \in UpsertsOf(u) :
       /\ upsert[w].older \subseteq UpsertsOf(u)
       /\ \A v \in UpsertsOf(u) : v = w \/ w \in upsert[v].older \/ v \in upsert[w].older

\* The upserts of a user are executed in order.
StoredInOrder(u) ==
    \A w \in UpsertsOf(u) : upsert[w].step = "stored" =>
       \A v \in upsert[w].older : upsert[v].step = "stored"

\* The stored upserts that change a flag.
Setting(u, f) ==
    {w \in UpsertsOf(u) : upsert[w].step = "stored" /\ f \in DOMAIN upsert[w].changes}

\* The table has of a flag what the last of them put there, and what memory has
\* if there is none.
FlagFollows(u, f) ==
    IF Setting(u, f) = {} THEN preferenceRow[u][f] = preference[u][f]
    ELSE \E w \in Setting(u, f) :
            /\ Setting(u, f) \subseteq upsert[w].older \union {w}
            /\ preferenceRow[u][f] = upsert[w].changes[f]

RowsFollow ==
    \A u \in Reader \ slipped :
       /\ StoredInOrder(u)
       /\ FlagFollows(u, "isDeleted")
       /\ u \notin blended => \A f \in Flag : FlagFollows(u, f)

\* The upserts of a message are those of its readers, and begin with it.
UpsertsOfPosts ==
    \A p \in Post, u \in Reader : upsert[<<p, u>>].step # "idle" =>
       upsert[<<p, u>>].user = u /\ posting[p] # "unsent"

PostsAreKept ==
    \A p \in Post :
       /\ posting[p] = "unsent" => owed[p] = {}
       /\ p \in messageRow => posting[p] \in {"stored", "done", "failed"}
       /\ posting[p] \in {"stored", "done"} => p \in messageRow

\* Who is owed a message is not deleting the conversation, and does not have it
\* deleted either once the message is stored or about to be; before that, the
\* message waits for an upsert of that user.
OwedIsListed ==
    \A p \in Post : \A u \in owed[p] :
       /\ \A w \in UpsertsOf(u) : ~upsert[w].changes["isDeleted"]
       /\ posting[p] = "sent" \/ p \in messageRow => ~preference[u].isDeleted
       /\ posting[p] = "restoring" /\ preference[u].isDeleted => upsert[<<p, u>>].step # "idle"

PreferenceInv ==
    /\ PreferenceTypes
    /\ UpsertsAreOrdered
    /\ RowsFollow
    /\ UpsertsOfPosts
    /\ PostsAreKept
    /\ OwedIsListed

\* What an update may change, and what it makes of a preference.
LEMMA MergedFlags ==
  ASSUME NEW c \in FlagChanges, NEW q \in Preference
  PROVE  /\ DOMAIN c \subseteq Flag /\ "isDeleted" \in DOMAIN c
         /\ \A f \in DOMAIN c : c[f] \in BOOLEAN
         /\ Merged(c, q) \in Preference
         /\ \A f \in Flag : Merged(c, q)[f] = IF f \in DOMAIN c THEN c[f] ELSE q[f]
         /\ Merged(c, q).isDeleted = c["isDeleted"]
<1>1. PICK D \in SUBSET Flag : c \in [D -> BOOLEAN]
  BY DEF FlagChanges
<1>2. /\ DOMAIN c = D /\ "isDeleted" \in DOMAIN c
      /\ \A f \in D : c[f] \in BOOLEAN
  BY <1>1 DEF FlagChanges
<1>3. Merged(c, q) = [f \in Flag |-> IF f \in DOMAIN c THEN c[f] ELSE q[f]]
  BY DEF Merged
<1>4. \A f \in Flag : (IF f \in DOMAIN c THEN c[f] ELSE q[f]) \in BOOLEAN
  BY <1>2 DEF Preference
<1>5. Merged(c, q) \in Preference
  BY <1>3, <1>4 DEF Preference
<1>6. "isDeleted" \in Flag
  BY DEF Flag
<1> QED
  BY <1>2, <1>3, <1>5, <1>6

\* The fields of an upsert under way.
LEMMA UpsertFields ==
  ASSUME PreferenceTypes
  PROVE  /\ DOMAIN upsert = Upsert
         /\ UnderWay(upsert) = {w \in Upsert : upsert[w].step \in {"sent", "stored"}}
         /\ \A w \in Upsert : upsert[w].step \in {"idle", "sent", "stored"}
         /\ \A w \in Upsert : upsert[w].step = "idle" <=> upsert[w] = Idle
         /\ \A w \in UnderWay(upsert) :
               /\ upsert[w] \in [step : {"sent", "stored"}, user : Reader, changes : FlagChanges,
                                 found : Preference, older : SUBSET Upsert]
               /\ upsert[w].user \in Reader /\ upsert[w].changes \in FlagChanges
               /\ upsert[w].found \in Preference /\ upsert[w].older \subseteq Upsert
               /\ w \in UpsertsOf(upsert[w].user)
         /\ \A u \in Reader : UpsertsOf(u) \subseteq UnderWay(upsert)
<1>1. upsert \in [Upsert -> UpsertStates]
  BY DEF PreferenceTypes
<1>2. \A c \in UpsertStates :
         /\ c.step \in {"idle", "sent", "stored"}
         /\ c.step = "idle" <=> c = Idle
         /\ c.step \in {"sent", "stored"} =>
               /\ c \in [step : {"sent", "stored"}, user : Reader, changes : FlagChanges,
                         found : Preference, older : SUBSET Upsert]
               /\ c.user \in Reader /\ c.changes \in FlagChanges
               /\ c.found \in Preference /\ c.older \subseteq Upsert
  BY DEF UpsertStates, Idle
<1>3. \A w \in Upsert : upsert[w] \in UpsertStates
  BY <1>1
<1>4. DOMAIN upsert = Upsert
      /\ UnderWay(upsert) = {w \in Upsert : upsert[w].step \in {"sent", "stored"}}
  BY <1>1, <1>2, <1>3 DEF UnderWay
<1> QED
  BY <1>2, <1>3, <1>4 DEF UpsertsOf

\* An upsert that is over: the others do not count it any more.
LEMMA EndedUpserts ==
  ASSUME PreferenceTypes, NEW w \in UnderWay(upsert), upsert' = Ended(upsert, w)
  PROVE  /\ upsert' \in [Upsert -> UpsertStates]
         /\ \A v \in UnderWay(upsert) \ {w} :
               /\ upsert'[v].step = upsert[v].step /\ upsert'[v].user = upsert[v].user
               /\ upsert'[v].changes = upsert[v].changes /\ upsert'[v].found = upsert[v].found
               /\ upsert'[v].older = upsert[v].older \ {w}
         /\ \A v \in Upsert : v \in UnderWay(upsert) \ {w} \/ upsert'[v].step = "idle"
         /\ \A u \in Reader : UpsertsOf(u)' = UpsertsOf(u) \ {w}
<1>1. /\ DOMAIN upsert = Upsert /\ Idle \in UpsertStates /\ Idle.step = "idle"
      /\ UnderWay(upsert) = {v \in Upsert : upsert[v].step \in {"sent", "stored"}}
  BY UpsertFields DEF UpsertStates, Idle
<1>2. upsert' = [v \in Upsert |->
                   IF v \in {w} \union (Upsert \ UnderWay(upsert)) THEN Idle
                   ELSE [upsert[v] EXCEPT !.older = @ \ {w}]]
  BY <1>1 DEF Ended
<1>3. ASSUME NEW v \in UnderWay(upsert) \ {w}
      PROVE  /\ upsert'[v] \in UpsertStates
             /\ upsert'[v].step = upsert[v].step /\ upsert'[v].user = upsert[v].user
             /\ upsert'[v].changes = upsert[v].changes /\ upsert'[v].found = upsert[v].found
             /\ upsert'[v].older = upsert[v].older \ {w}
  <2>1. upsert'[v] = [upsert[v] EXCEPT !.older = @ \ {w}]
    BY <1>1, <1>2
  <2>2. upsert[v] \in [step : {"sent", "stored"}, user : Reader, changes : FlagChanges,
                       found : Preference, older : SUBSET Upsert]
    BY UpsertFields
  <2> QED
    BY <2>1, <2>2 DEF UpsertStates
<1>4. \A v \in Upsert : v \in UnderWay(upsert) \ {w} \/ upsert'[v] = Idle
  BY <1>2
<1>5. upsert' \in [Upsert -> UpsertStates]
  BY <1>1, <1>2, <1>3, <1>4
<1>6. \A u \in Reader : UpsertsOf(u)' = UpsertsOf(u) \ {w}
  BY <1>1, <1>3, <1>4 DEF UpsertsOf
<1> QED
  BY <1>1, <1>3, <1>4, <1>5, <1>6

\* Upserts that begin, at most one of each user, are the youngest; what is
\* stored stays as it is.
LEMMA BegunKeep ==
  ASSUME PreferenceInv, NEW W \in SUBSET Upsert,
         \A w \in W : upsert[w].step = "idle",
         \A w \in W : \E u \in Reader, c \in FlagChanges : upsert'[w] = Begun(u, c),
         \A v, w \in W : upsert'[v].user = upsert'[w].user => v = w,
         upsert' = [w \in Upsert |-> upsert'[w]],
         \A w \in Upsert \ W : upsert'[w] = upsert[w],
         UNCHANGED <<preference, preferenceRow, slipped, blended>>
  PROVE  /\ upsert' \in [Upsert -> UpsertStates]
         /\ \A u \in Reader :
               UpsertsOf(u)' = UpsertsOf(u) \union {w \in W : upsert'[w].user = u}
         /\ \A u \in Reader : \A w \in UpsertsOf(u) : w \notin W /\ upsert'[w] = upsert[w]
         /\ UpsertsAreOrdered' /\ RowsFollow'
<1>1. /\ PreferenceTypes /\ preference \in [Reader -> Preference]
      /\ UnderWay(upsert) = {w \in Upsert : upsert[w].step \in {"sent", "stored"}}
      /\ DOMAIN upsert = Upsert
  BY UpsertFields DEF PreferenceInv, PreferenceTypes
<1>2. ASSUME NEW w \in W
      PROVE  /\ upsert'[w] \in UpsertStates /\ upsert'[w].step = "sent"
             /\ upsert'[w].user \in Reader
             /\ upsert'[w].older = UpsertsOf(upsert'[w].user)
  <2>1. PICK u \in Reader, c \in FlagChanges :
           upsert'[w] = [step |-> "sent", user |-> u, changes |-> c, found |-> preference[u],
                         older |-> {v \in UnderWay(upsert) : upsert[v].user = u}]
    BY DEF Begun
  <2>2. {v \in UnderWay(upsert) : upsert[v].user = u} = UpsertsOf(u)
    BY <1>1 DEF UpsertsOf
  <2>3. preference[u] \in Preference /\ UpsertsOf(u) \in SUBSET Upsert
    BY <1>1 DEF UpsertsOf
  <2> QED
    BY <2>1, <2>2, <2>3 DEF UpsertStates
<1>3. upsert' \in [Upsert -> UpsertStates]
  <2>1. \A w \in Upsert : upsert'[w] \in UpsertStates
    BY <1>1, <1>2 DEF PreferenceTypes
  <2> QED
    BY <2>1
<1>4. \A u \in Reader :
         /\ UpsertsOf(u)' = UpsertsOf(u) \union {w \in W : upsert'[w].user = u}
         /\ \A w \in UpsertsOf(u) : w \notin W /\ upsert'[w] = upsert[w] /\ w \in Upsert
  BY <1>2 DEF UpsertsOf
<1>5. UpsertsAreOrdered'
  <2> SUFFICES ASSUME NEW u \in Reader, NEW w \in UpsertsOf(u)'
               PROVE  /\ upsert'[w].older \subseteq UpsertsOf(u)'
                      /\ \A v \in UpsertsOf(u)' :
                            v = w \/ w \in upsert'[v].older \/ v \in upsert'[w].older
    BY DEF UpsertsAreOrdered
  <2>1. /\ \A v \in UpsertsOf(u) : upsert[v].older \subseteq UpsertsOf(u)
        /\ \A v, x \in UpsertsOf(u) : v = x \/ x \in upsert[v].older \/ v \in upsert[x].older
    BY DEF PreferenceInv, UpsertsAreOrdered
  <2>2. \A v \in W : upsert'[v].user = u => upsert'[v].older = UpsertsOf(u)
    BY <1>2
  <2>3. \A v, x \in W : upsert'[v].user = u /\ upsert'[x].user = u => v = x
    OBVIOUS
  <2> QED
    BY <1>4, <2>1, <2>2, <2>3
<1>6. RowsFollow'
  <2> SUFFICES ASSUME NEW u \in Reader \ slipped
               PROVE  /\ StoredInOrder(u)'
                      /\ FlagFollows(u, "isDeleted")'
                      /\ u \notin blended => \A f \in Flag : FlagFollows(u, f)'
    BY DEF RowsFollow
  <2>1. /\ StoredInOrder(u) /\ FlagFollows(u, "isDeleted")
        /\ u \notin blended => \A f \in Flag : FlagFollows(u, f)
    BY DEF PreferenceInv, RowsFollow
  <2>2. \A w \in UpsertsOf(u) : upsert[w].older \subseteq UpsertsOf(u)
    BY DEF PreferenceInv, UpsertsAreOrdered
  <2>3. \A w \in UpsertsOf(u)' : w \in UpsertsOf(u) \/ upsert'[w].step = "sent"
    BY <1>2, <1>4
  <2>4. StoredInOrder(u)'
    BY <1>4, <2>1, <2>2, <2>3 DEF StoredInOrder
  <2>5. ASSUME NEW f \in Flag, FlagFollows(u, f)
        PROVE  FlagFollows(u, f)'
    <3>1. Setting(u, f)' = Setting(u, f)
      BY <1>4, <2>3 DEF Setting
    <3>2. \A w \in Setting(u, f) : upsert'[w] = upsert[w]
      BY <1>4 DEF Setting
    <3> QED
      BY <2>5, <3>1, <3>2 DEF FlagFollows
  <2> QED
    BY <2>1, <2>4, <2>5 DEF Flag
<1> QED
  BY <1>3, <1>4, <1>5, <1>6

LEMMA InitPreferenceInv == PreferencesInit => PreferenceInv
<1> SUFFICES ASSUME PreferencesInit PROVE PreferenceInv
  OBVIOUS
<1>1. Idle \in UpsertStates /\ Idle.step = "idle"
  BY DEF UpsertStates, Idle
<1>2. /\ upsert \in [Upsert -> UpsertStates]
      /\ \A w \in Upsert : upsert[w].step = "idle"
      /\ \A u \in Reader : UpsertsOf(u) = {}
  BY <1>1 DEF PreferencesInit, UpsertsOf
<1>3. /\ preference \in [Reader -> Preference] /\ preferenceRow = preference
      /\ posting \in [Post -> {"unsent", "restoring", "sent", "stored", "done", "failed"}]
      /\ owed \in [Post -> SUBSET Reader] /\ \A p \in Post : owed[p] = {}
      /\ log = {} /\ messageRow = {} /\ slipped = {} /\ blended = {}
  BY DEF PreferencesInit, Preference
<1>4. PreferenceTypes
  BY <1>2, <1>3 DEF PreferenceTypes
<1>5. UpsertsAreOrdered /\ RowsFollow
  BY <1>2, <1>3 DEF UpsertsAreOrdered, RowsFollow, StoredInOrder, FlagFollows, Setting
<1>6. UpsertsOfPosts
  <2>1. \A p \in Post, u \in Reader : <<p, u>> \in Upsert
    BY DEF Upsert
  <2> QED
    BY <1>2, <2>1 DEF UpsertsOfPosts
<1>7. PostsAreKept /\ OwedIsListed
  <2>1. \A p \in Post : posting[p] = "unsent"
    BY DEF PreferencesInit
  <2> QED
    BY <1>3, <2>1 DEF PostsAreKept, OwedIsListed
<1> QED
  BY <1>4, <1>5, <1>6, <1>7 DEF PreferenceInv

\* A restart reads the table, with nothing under way: who is owed a message and
\* did not slip has the conversation in the list there too.
LEMMA RestartKeepsPreferenceInv ==
  ASSUME PreferenceInv, RestartPreferences
  PROVE  PreferenceInv'
<1>1. Idle \in UpsertStates /\ Idle.step = "idle"
  BY DEF UpsertStates, Idle
<1>2. PreferenceTypes /\ PostsAreKept /\ OwedIsListed
  BY DEF PreferenceInv
<1>3. /\ upsert' = [w \in Upsert |-> Idle] /\ preference' = preferenceRow
      /\ preferenceRow' = preferenceRow /\ log' = messageRow /\ messageRow' = messageRow
      /\ posting' = [p \in Post |->
                        IF posting[p] \in {"unsent", "done"} THEN posting[p] ELSE "failed"]
      /\ owed' = [p \in Post |-> owed[p] \ slipped] /\ slipped' = {} /\ blended' = {}
  BY DEF RestartPreferences
<1>4. /\ upsert' \in [Upsert -> UpsertStates]
      /\ \A w \in Upsert : upsert'[w].step = "idle"
      /\ \A u \in Reader : UpsertsOf(u)' = {}
  BY <1>1, <1>3 DEF UpsertsOf
<1>5. PreferenceTypes'
  BY <1>2, <1>3, <1>4 DEF PreferenceTypes
<1>6. UpsertsAreOrdered' /\ RowsFollow'
  BY <1>3, <1>4 DEF UpsertsAreOrdered, RowsFollow, StoredInOrder, FlagFollows, Setting
<1>7. UpsertsOfPosts'
  <2>1. \A p \in Post, u \in Reader : <<p, u>> \in Upsert
    BY DEF Upsert
  <2> QED
    BY <1>4, <2>1 DEF UpsertsOfPosts
<1>8. PostsAreKept'
  BY <1>2, <1>3 DEF PostsAreKept
<1>9. OwedIsListed'
  <2> SUFFICES ASSUME NEW p \in Post, NEW u \in owed'[p]
               PROVE  /\ p \in messageRow => ~preferenceRow[u].isDeleted
                      /\ posting'[p] \notin {"sent", "restoring"}
    BY <1>3, <1>4, <1>5 DEF OwedIsListed, PreferenceTypes
  <2>1. u \in owed[p] /\ u \in Reader \ slipped
    BY <1>2, <1>3 DEF PreferenceTypes
  <2>2. FlagFollows(u, "isDeleted")
    BY <2>1 DEF PreferenceInv, RowsFollow
  <2>3. /\ \A w \in UpsertsOf(u) : ~upsert[w].changes["isDeleted"]
        /\ p \in messageRow => ~preference[u]["isDeleted"]
    BY <1>2, <2>1 DEF OwedIsListed
  <2>4. p \in messageRow => ~preferenceRow[u]["isDeleted"]
    <3>1. CASE Setting(u, "isDeleted") = {}
      BY <2>2, <2>3, <3>1 DEF FlagFollows
    <3>2. CASE Setting(u, "isDeleted") # {}
      BY <2>2, <2>3, <3>2 DEF FlagFollows, Setting
    <3> QED
      BY <3>1, <3>2
  <2> QED
    BY <1>3, <2>4
<1> QED
  BY <1>5, <1>6, <1>7, <1>8, <1>9 DEF PreferenceInv

\* The changes of the requests.
LEMMA RequestedChanges ==
  /\ NotDeleted \in FlagChanges /\ ~NotDeleted["isDeleted"]
  /\ [f \in Flag |-> f = "isDeleted"] \in FlagChanges
  /\ \A u \in Reader, flag \in {"isBookmarked", "isArchived"} :
        Toggle(u, flag) \in FlagChanges /\ ~Toggle(u, flag)["isDeleted"]
<1>1. NotDeleted \in [{"isDeleted"} -> BOOLEAN] /\ {"isDeleted"} \in SUBSET Flag
      /\ ~NotDeleted["isDeleted"]
  BY DEF NotDeleted, Flag
<1>2. [f \in Flag |-> f = "isDeleted"] \in [Flag -> BOOLEAN] /\ "isDeleted" \in Flag
  BY DEF Flag
<1>3. ASSUME NEW u \in Reader, NEW flag \in {"isBookmarked", "isArchived"}
      PROVE  /\ Toggle(u, flag) \in [{flag, "isDeleted"} -> BOOLEAN]
             /\ {flag, "isDeleted"} \in SUBSET Flag
             /\ ~Toggle(u, flag)["isDeleted"]
  <2>1. \A f \in {flag, "isDeleted"} : (f = flag /\ ~preference[u][flag]) \in BOOLEAN
    OBVIOUS
  <2>2. Toggle(u, flag)["isDeleted"] = ("isDeleted" = flag /\ ~preference[u][flag])
    BY DEF Toggle
  <2>3. "isDeleted" # flag
    OBVIOUS
  <2> QED
    BY <2>1, <2>2, <2>3 DEF Toggle, Flag
<1>4. NotDeleted \in FlagChanges
  BY <1>1 DEF FlagChanges
<1>5. [f \in Flag |-> f = "isDeleted"] \in FlagChanges
  BY <1>2 DEF FlagChanges
<1>6. \A u \in Reader, flag \in {"isBookmarked", "isArchived"} : Toggle(u, flag) \in FlagChanges
  BY <1>3 DEF FlagChanges
<1> QED
  BY <1>1, <1>3, <1>4, <1>5, <1>6

\* A request of a participant begins, and whoever asks for the deletion is not
\* owed the messages sent so far any more.
LEMMA SetKeepsPreferenceInv ==
  ASSUME PreferenceInv, NEW r \in Request, NEW u \in Reader, NEW c \in FlagChanges,
         SetPreference(r, u, c),
         \/ ~c["isDeleted"] /\ owed' = owed
         \/ owed' = [p \in Post |-> owed[p] \ {u}]
  PROVE  PreferenceInv'
<1> DEFINE new == Begun(u, c)
<1>1. /\ r \in Upsert /\ \A p \in Post, v \in Reader : <<p, v>> \in Upsert /\ <<p, v>> # r
  BY PreferencesConstants DEF Upsert
<1>2. /\ PreferenceTypes /\ UpsertsOfPosts /\ PostsAreKept /\ OwedIsListed
      /\ upsert[r].step = "idle"
      /\ UNCHANGED <<preference, preferenceRow, posting, log, messageRow, slipped, blended>>
  BY <1>1, UpsertFields DEF PreferenceInv, SetPreference
<1>3. /\ new.user = u /\ new.changes = c
  BY DEF Begun
<1>4. /\ upsert' = [upsert EXCEPT ![r] = new]
      /\ upsert'[r] = new /\ \A w \in Upsert \ {r} : upsert'[w] = upsert[w]
      /\ upsert' = [w \in Upsert |-> upsert'[w]]
  <2>1. upsert' = [upsert EXCEPT ![r] = new]
    BY DEF SetPreference
  <2> HIDE DEF new
  <2> QED
    BY <1>1, <1>2, <2>1 DEF PreferenceTypes
<1>5. \A w \in {r} : \E v \in Reader, d \in FlagChanges : upsert'[w] = Begun(v, d)
  BY <1>4
<1> HIDE DEF new
<1>6. /\ upsert' \in [Upsert -> UpsertStates]
      /\ \A v \in Reader :
            UpsertsOf(v)' = UpsertsOf(v) \union {w \in {r} : upsert'[w].user = v}
      /\ \A v \in Reader : \A w \in UpsertsOf(v) : w \notin {r} /\ upsert'[w] = upsert[w]
      /\ UpsertsAreOrdered' /\ RowsFollow'
  <2>1. {r} \in SUBSET Upsert /\ \A w \in {r} : upsert[w].step = "idle"
    BY <1>1, <1>2
  <2>2. \A v, w \in {r} : upsert'[v].user = upsert'[w].user => v = w
    OBVIOUS
  <2>3. UNCHANGED <<preference, preferenceRow, slipped, blended>>
    BY <1>2
  <2> QED
    BY <1>4, <1>5, <2>1, <2>2, <2>3, BegunKeep
<1>7. /\ owed' \in [Post -> SUBSET Reader]
      /\ \A p \in Post : owed'[p] \subseteq owed[p]
      /\ c["isDeleted"] => \A p \in Post : u \notin owed'[p]
  BY <1>2 DEF PreferenceTypes
<1>8. PreferenceTypes'
  BY <1>2, <1>6, <1>7 DEF PreferenceTypes
<1>9. UpsertsOfPosts'
  BY <1>1, <1>2, <1>4 DEF UpsertsOfPosts
<1>10. PostsAreKept'
  BY <1>2, <1>7 DEF PostsAreKept
<1>11. OwedIsListed'
  <2> SUFFICES ASSUME NEW p \in Post, NEW v \in owed'[p]
               PROVE  /\ \A w \in UpsertsOf(v)' : ~upsert'[w].changes["isDeleted"]
                      /\ posting[p] = "sent" \/ p \in messageRow => ~preference[v].isDeleted
                      /\ posting[p] = "restoring" /\ preference[v].isDeleted =>
                            upsert'[<<p, v>>].step # "idle"
    BY <1>2 DEF OwedIsListed
  <2>1. v \in owed[p] /\ v \in Reader
    BY <1>2, <1>7 DEF PreferenceTypes
  <2>2. \A w \in UpsertsOf(v)' : ~upsert'[w].changes["isDeleted"]
    <3>1. ASSUME NEW w \in UpsertsOf(v) PROVE ~upsert'[w].changes["isDeleted"]
      <4>1. ~upsert[w].changes["isDeleted"] /\ upsert'[w] = upsert[w]
        BY <1>2, <1>6, <2>1 DEF OwedIsListed
      <4> QED
        BY <4>1
    <3>2. ASSUME upsert'[r].user = v PROVE ~upsert'[r].changes["isDeleted"]
      <4>1. v = u /\ upsert'[r].changes = c
        BY <1>3, <1>4, <3>2
      <4>2. ~c["isDeleted"]
        BY <1>7, <4>1
      <4> QED
        BY <4>1, <4>2
    <3> QED
      BY <1>6, <2>1, <3>1, <3>2
  <2> QED
    BY <1>1, <1>2, <1>4, <2>1, <2>2 DEF OwedIsListed
<1> QED
  BY <1>6, <1>8, <1>9, <1>10, <1>11 DEF PreferenceInv

\* A message begins with the upserts of everybody who deleted the conversation.
LEMMA CreateMessageKeepsPreferenceInv ==
  ASSUME PreferenceInv, NEW p \in Post, CreateMessage(p)
  PROVE  PreferenceInv'
<1> DEFINE W == {p} \X Deleted
<1>1. /\ W \subseteq Upsert /\ Deleted \subseteq Reader
      /\ \A q \in Post, v \in Reader : <<q, v>> \in Upsert /\ (<<q, v>> \in W <=> q = p /\ v \in Deleted)
      /\ \A w \in W : w = <<p, w[2]>> /\ w[2] \in Deleted
  BY DEF Upsert, Deleted
<1>2. /\ PreferenceTypes /\ UpsertsOfPosts /\ PostsAreKept /\ OwedIsListed
      /\ posting[p] = "unsent"
      /\ UNCHANGED <<preference, preferenceRow, log, messageRow, slipped, blended>>
  BY DEF PreferenceInv, CreateMessage
<1>3. upsert' = [w \in Upsert |-> IF w \in W THEN Begun(w[2], NotDeleted) ELSE upsert[w]]
  BY DEF CreateMessage
<1>4. \A u \in Reader : Begun(u, NotDeleted).user = u /\ Begun(u, NotDeleted).changes = NotDeleted
                        /\ Begun(u, NotDeleted).step = "sent"
  BY DEF Begun
<1>5. \A w \in W : upsert[w].step = "idle"
  BY <1>1, <1>2, UpsertFields DEF UpsertsOfPosts
<1> HIDE DEF W
<1>6. /\ \A w \in W : upsert'[w] = Begun(w[2], NotDeleted) /\ upsert'[w].user = w[2]
                      /\ upsert'[w].changes = NotDeleted /\ upsert'[w].step = "sent"
      /\ \A w \in Upsert \ W : upsert'[w] = upsert[w]
      /\ upsert' = [w \in Upsert |-> upsert'[w]]
  BY <1>1, <1>3, <1>4
<1>7. /\ upsert' \in [Upsert -> UpsertStates]
      /\ \A v \in Reader :
            UpsertsOf(v)' = UpsertsOf(v) \union {w \in W : upsert'[w].user = v}
      /\ \A v \in Reader : \A w \in UpsertsOf(v) : w \notin W /\ upsert'[w] = upsert[w]
      /\ UpsertsAreOrdered' /\ RowsFollow'
  <2>1. \A w \in W : \E v \in Reader, d \in FlagChanges : upsert'[w] = Begun(v, d)
    BY <1>1, <1>6, RequestedChanges
  <2>2. \A v, w \in W : upsert'[v].user = upsert'[w].user => v = w
    BY <1>1, <1>6
  <2>3. UNCHANGED <<preference, preferenceRow, slipped, blended>>
    BY <1>2
  <2> QED
    BY <1>1, <1>5, <1>6, <2>1, <2>2, <2>3, BegunKeep
<1>8. /\ posting' \in [Post -> {"unsent", "restoring", "sent", "stored", "done", "failed"}]
      /\ posting'[p] = IF Deleted = {} THEN "sent" ELSE "restoring"
      /\ \A q \in Post : q # p => posting'[q] = posting[q]
  BY <1>2 DEF CreateMessage, PreferenceTypes
<1>9. /\ owed' \in [Post -> SUBSET Reader] /\ owed'[p] = Reader \ BeingDeleted
      /\ \A q \in Post : q # p => owed'[q] = owed[q]
  BY <1>2 DEF CreateMessage, PreferenceTypes
<1>10. PreferenceTypes'
  BY <1>2, <1>7, <1>8, <1>9 DEF PreferenceTypes
<1>11. UpsertsOfPosts'
  <2> SUFFICES ASSUME NEW q \in Post, NEW u \in Reader, upsert'[<<q, u>>].step # "idle"
               PROVE  upsert'[<<q, u>>].user = u /\ posting'[q] # "unsent"
    BY DEF UpsertsOfPosts
  <2>1. CASE <<q, u>> \in W
    BY <1>1, <1>6, <1>8, <2>1
  <2>2. CASE <<q, u>> \notin W
    BY <1>1, <1>2, <1>6, <1>8, <2>2 DEF UpsertsOfPosts
  <2> QED
    BY <2>1, <2>2
<1>12. PostsAreKept'
  BY <1>2, <1>8, <1>9 DEF PostsAreKept
<1>13. OwedIsListed'
  <2> SUFFICES ASSUME NEW q \in Post, NEW v \in owed'[q]
               PROVE  /\ \A w \in UpsertsOf(v)' : ~upsert'[w].changes["isDeleted"]
                      /\ posting'[q] = "sent" \/ q \in messageRow => ~preference[v].isDeleted
                      /\ posting'[q] = "restoring" /\ preference[v].isDeleted =>
                            upsert'[<<q, v>>].step # "idle"
    BY <1>2 DEF OwedIsListed
  <2>1. v \in Reader
    BY <1>9
  <2>2. ASSUME NEW w \in UpsertsOf(v)
        PROVE  ~upsert[w].changes["isDeleted"]
    <3>1. CASE q = p
      <4>1. w \in UnderWay(upsert) /\ upsert[w].user = v
        BY <1>2, <2>1, <2>2, UpsertFields DEF UpsertsOf
      <4> QED
        BY <1>9, <3>1, <4>1 DEF BeingDeleted
    <3>2. CASE q # p
      BY <1>2, <1>9, <2>2, <3>2 DEF OwedIsListed
    <3> QED
      BY <3>1, <3>2
  <2>3. \A w \in UpsertsOf(v)' : ~upsert'[w].changes["isDeleted"]
    BY <1>6, <1>7, <2>1, <2>2, RequestedChanges
  <2>4. CASE q = p
    <3>1. p \notin messageRow
      BY <1>2 DEF PostsAreKept
    <3>2. preference[v].isDeleted => v \in Deleted /\ <<p, v>> \in W
      BY <1>1, <2>1 DEF Deleted
    <3> QED
      BY <1>6, <1>8, <2>3, <2>4, <3>1, <3>2
  <2>5. CASE q # p
    BY <1>1, <1>2, <1>6, <1>8, <1>9, <2>1, <2>3, <2>5 DEF OwedIsListed
  <2> QED
    BY <2>4, <2>5
<1> QED
  BY <1>7, <1>10, <1>11, <1>12, <1>13 DEF PreferenceInv

\* The query of an upsert is executed: unless it overtakes an older one, it is
\* the last of its user's.
LEMMA StoreKeepsPreferenceInv ==
  ASSUME PreferenceInv, NEW w \in Upsert, StoreUpsert(w)
  PROVE  PreferenceInv'
<1>1. /\ PreferenceTypes /\ UpsertsAreOrdered /\ RowsFollow /\ UpsertsOfPosts /\ PostsAreKept
      /\ OwedIsListed /\ upsert[w].step = "sent"
      /\ UNCHANGED <<preference, posting, log, messageRow, owed, blended>>
  BY DEF PreferenceInv, StoreUpsert
<1>2. PICK u \in Reader : u = upsert[w].user
  BY <1>1, UpsertFields
<1>3. /\ upsert[w] \in [step : {"sent", "stored"}, user : Reader, changes : FlagChanges,
                        found : Preference, older : SUBSET Upsert]
      /\ upsert[w].changes \in FlagChanges /\ w \in UpsertsOf(u)
  BY <1>1, <1>2, UpsertFields
<1>4. /\ upsert' = [upsert EXCEPT ![w].step = "stored"]
      /\ preferenceRow' = [preferenceRow EXCEPT ![u] = Merged(upsert[w].changes, @)]
      /\ slipped' = slipped \union {v \in {u} : OvertakesQuery(upsert, w)}
  BY <1>2 DEF StoreUpsert
<1>5. /\ \A v \in Upsert \ {w} : upsert'[v] = upsert[v]
      /\ upsert'[w] \in UpsertStates /\ upsert'[w].step = "stored" /\ upsert'[w].user = u
      /\ upsert'[w].changes = upsert[w].changes /\ upsert'[w].older = upsert[w].older
  <2>1. upsert'[w] = [upsert[w] EXCEPT !.step = "stored"]
    BY <1>1, <1>4 DEF PreferenceTypes
  <2>2. \A v \in Upsert \ {w} : upsert'[v] = upsert[v]
    BY <1>1, <1>4 DEF PreferenceTypes
  <2> QED
    BY <1>2, <1>3, <2>1, <2>2 DEF UpsertStates
<1>6. upsert' \in [Upsert -> UpsertStates]
  <2>1. \A v \in Upsert : upsert'[v] \in UpsertStates
    BY <1>1, <1>5 DEF PreferenceTypes
  <2> QED
    BY <1>1, <1>4, <2>1 DEF PreferenceTypes
<1>7. /\ \A v \in Reader : UpsertsOf(v)' = UpsertsOf(v)
      /\ \A v \in Upsert : /\ upsert'[v].step = "idle" <=> upsert[v].step = "idle"
                           /\ upsert'[v].step = IF v = w THEN "stored" ELSE upsert[v].step
                           /\ v \in UnderWay(upsert) =>
                                 /\ upsert'[v].changes = upsert[v].changes
                                 /\ upsert'[v].older = upsert[v].older
                                 /\ upsert'[v].user = upsert[v].user
  BY <1>1, <1>2, <1>5 DEF UpsertsOf
<1>8. \A v \in Reader : UpsertsOf(v) \subseteq UnderWay(upsert) /\ UpsertsOf(v) \subseteq Upsert
  BY <1>1, UpsertFields DEF UpsertsOf
<1>9. /\ preferenceRow' \in [Reader -> Preference]
      /\ \A v \in Reader : v # u => preferenceRow'[v] = preferenceRow[v]
      /\ \A f \in Flag : preferenceRow'[u][f] =
            IF f \in DOMAIN upsert[w].changes THEN upsert[w].changes[f] ELSE preferenceRow[u][f]
  <2>1. preferenceRow[u] \in Preference
    BY <1>1 DEF PreferenceTypes
  <2>2. /\ Merged(upsert[w].changes, preferenceRow[u]) \in Preference
        /\ \A f \in Flag : Merged(upsert[w].changes, preferenceRow[u])[f] =
              IF f \in DOMAIN upsert[w].changes THEN upsert[w].changes[f] ELSE preferenceRow[u][f]
    BY <1>3, <2>1, MergedFlags
  <2> QED
    BY <1>1, <1>4, <2>2 DEF PreferenceTypes
<1>10. PreferenceTypes'
  BY <1>1, <1>4, <1>6, <1>9 DEF PreferenceTypes
<1>11. UpsertsAreOrdered'
  BY <1>1, <1>7, <1>8 DEF UpsertsAreOrdered
<1>12. UpsertsOfPosts'
  <2> SUFFICES ASSUME NEW p \in Post, NEW v \in Reader, upsert'[<<p, v>>].step # "idle"
               PROVE  upsert'[<<p, v>>].user = v /\ posting[p] # "unsent"
    BY <1>1 DEF UpsertsOfPosts
  <2>1. <<p, v>> \in Upsert
    BY DEF Upsert
  <2>2. <<p, v>> \in UnderWay(upsert) /\ upsert[<<p, v>>].step # "idle"
    BY <1>1, <1>7, <2>1, UpsertFields
  <2> QED
    BY <1>1, <1>7, <2>1, <2>2 DEF UpsertsOfPosts
<1>13. PostsAreKept'
  BY <1>1 DEF PostsAreKept
<1>14. OwedIsListed'
  <2> SUFFICES ASSUME NEW p \in Post, NEW v \in owed[p]
               PROVE  /\ \A x \in UpsertsOf(v)' : ~upsert'[x].changes["isDeleted"]
                      /\ posting[p] = "sent" \/ p \in messageRow => ~preference[v].isDeleted
                      /\ posting[p] = "restoring" /\ preference[v].isDeleted =>
                            upsert'[<<p, v>>].step # "idle"
    BY <1>1 DEF OwedIsListed
  <2>1. v \in Reader /\ <<p, v>> \in Upsert
    BY <1>1 DEF PreferenceTypes, Upsert
  <2>2. \A x \in UpsertsOf(v)' : ~upsert'[x].changes["isDeleted"]
    BY <1>1, <1>7, <1>8, <2>1 DEF OwedIsListed
  <2> QED
    BY <1>1, <1>7, <2>1, <2>2 DEF OwedIsListed
<1>15. RowsFollow'
  <2> SUFFICES ASSUME NEW v \in Reader \ slipped'
               PROVE  /\ StoredInOrder(v)'
                      /\ FlagFollows(v, "isDeleted")'
                      /\ v \notin blended => \A f \in Flag : FlagFollows(v, f)'
    BY <1>1 DEF RowsFollow
  <2>1. /\ StoredInOrder(v) /\ FlagFollows(v, "isDeleted")
        /\ v \notin blended => \A f \in Flag : FlagFollows(v, f)
        /\ UpsertsOf(v)' = UpsertsOf(v)
    BY <1>1, <1>4, <1>7 DEF RowsFollow
  <2>2. /\ \A x \in UpsertsOf(v) : upsert[x].older \subseteq UpsertsOf(v)
        /\ \A x, y \in UpsertsOf(v) : x = y \/ x \in upsert[y].older \/ y \in upsert[x].older
    BY <1>1 DEF UpsertsAreOrdered
  <2>3. CASE v # u
    <3>1. w \notin UpsertsOf(v) /\ \A x \in UpsertsOf(v) : upsert'[x] = upsert[x]
      BY <1>2, <1>5, <1>8, <2>3 DEF UpsertsOf
    <3>2. StoredInOrder(v)'
      BY <2>1, <2>2, <3>1 DEF StoredInOrder
    <3>3. ASSUME NEW f \in Flag, FlagFollows(v, f) PROVE FlagFollows(v, f)'
      <4>1. Setting(v, f)' = Setting(v, f) /\ Setting(v, f) \subseteq UpsertsOf(v)
        BY <2>1, <3>1 DEF Setting
      <4> QED
        BY <1>1, <1>9, <2>3, <3>1, <3>3, <4>1 DEF FlagFollows
    <3> QED
      BY <2>1, <3>2, <3>3 DEF Flag
  <2>4. CASE v = u
    <3>1. \A x \in upsert[w].older : upsert[x].step = "stored"
      <4>1. \A x \in upsert[w].older : upsert[x].step # "sent"
        BY <1>4, <2>4 DEF OvertakesQuery
      <4> QED
        BY <1>3, <2>2, <2>4, <4>1 DEF UpsertsOf
    <3>2. StoredInOrder(v)'
      BY <1>7, <1>8, <2>1, <2>2, <3>1 DEF StoredInOrder
    <3>3. ASSUME NEW f \in Flag, FlagFollows(v, f), f \in DOMAIN upsert[w].changes
          PROVE  FlagFollows(v, f)'
      <4>1. Setting(v, f)' = Setting(v, f) \union {w}
        <5>1. \A x \in UpsertsOf(v) : x \in Upsert /\ upsert'[x].changes = upsert[x].changes
          BY <1>7, <1>8
        <5> QED
          BY <1>3, <1>5, <1>7, <2>1, <2>4, <3>3, <5>1 DEF Setting
      <4>2. Setting(v, f) \subseteq upsert[w].older
        BY <1>1, <1>3, <2>1, <2>2, <2>4 DEF Setting, StoredInOrder
      <4>3. /\ w \in Setting(v, f)' /\ Setting(v, f)' \subseteq upsert'[w].older \union {w}
            /\ preferenceRow'[v][f] = upsert'[w].changes[f]
        BY <1>5, <1>9, <2>4, <3>3, <4>1, <4>2
      <4> QED
        BY <4>3 DEF FlagFollows
    <3>4. ASSUME NEW f \in Flag, FlagFollows(v, f), f \notin DOMAIN upsert[w].changes
          PROVE  FlagFollows(v, f)'
      <4>1. \A x \in UpsertsOf(v) : /\ x \in Upsert /\ upsert'[x].changes = upsert[x].changes
                                    /\ upsert'[x].older = upsert[x].older
        BY <1>7, <1>8
      <4>2. Setting(v, f)' = Setting(v, f) /\ Setting(v, f) \subseteq UpsertsOf(v)
        BY <1>1, <1>7, <2>1, <3>4, <4>1 DEF Setting
      <4>3. preferenceRow'[v][f] = preferenceRow[v][f] /\ preference'[v] = preference[v]
        BY <1>1, <1>9, <2>4, <3>4
      <4> QED
        BY <3>4, <4>1, <4>2, <4>3 DEF FlagFollows
    <3> QED
      BY <2>1, <3>2, <3>3, <3>4 DEF Flag
  <2> QED
    BY <2>3, <2>4
<1> QED
  BY <1>10, <1>11, <1>12, <1>13, <1>14, <1>15 DEF PreferenceInv

\* An upsert that is over, its row as it was: the table follows what is still
\* under way, for each flag that this upsert did not set and memory kept.
LEMMA EndedKeepsRows ==
  ASSUME PreferenceInv, NEW w \in UnderWay(upsert), upsert' = Ended(upsert, w),
         preferenceRow' = preferenceRow
  PROVE  /\ UpsertsAreOrdered'
         /\ \A u \in Reader : StoredInOrder(u) => StoredInOrder(u)'
         /\ \A u \in Reader, f \in Flag :
               Setting(u, f)' = Setting(u, f) \ {w}
         /\ \A u \in Reader, f \in Flag :
               /\ FlagFollows(u, f) /\ w \notin Setting(u, f)
               /\ preference'[u][f] = preference[u][f]
               => FlagFollows(u, f)'
<1>1. /\ PreferenceTypes /\ UpsertsAreOrdered
      /\ \A v \in UnderWay(upsert) \ {w} :
            /\ upsert'[v].step = upsert[v].step /\ upsert'[v].user = upsert[v].user
            /\ upsert'[v].changes = upsert[v].changes
            /\ upsert'[v].older = upsert[v].older \ {w}
      /\ \A u \in Reader : UpsertsOf(u)' = UpsertsOf(u) \ {w}
  BY EndedUpserts DEF PreferenceInv
<1>2. \A u \in Reader : UpsertsOf(u) \subseteq UnderWay(upsert)
  BY <1>1, UpsertFields
<1>3. UpsertsAreOrdered'
  BY <1>1, <1>2 DEF UpsertsAreOrdered
<1>4. ASSUME NEW u \in Reader, StoredInOrder(u)
      PROVE  StoredInOrder(u)'
  <2> SUFFICES ASSUME NEW x \in UpsertsOf(u)', upsert'[x].step = "stored",
                      NEW y \in upsert'[x].older
               PROVE  upsert'[y].step = "stored"
    BY DEF StoredInOrder
  <2>1. x \in UpsertsOf(u) /\ x \in UnderWay(upsert) \ {w} /\ upsert[x].step = "stored"
    BY <1>1, <1>2
  <2>2. y \in upsert[x].older /\ y # w
    BY <1>1, <2>1
  <2>3. y \in UpsertsOf(u) /\ upsert[y].step = "stored"
    BY <1>1, <1>4, <2>1, <2>2 DEF StoredInOrder, UpsertsAreOrdered
  <2> QED
    BY <1>1, <1>2, <2>2, <2>3
<1>5. ASSUME NEW u \in Reader, NEW f \in Flag
      PROVE  Setting(u, f)' = Setting(u, f) \ {w}
  BY <1>1, <1>2 DEF Setting
<1>6. ASSUME NEW u \in Reader, NEW f \in Flag, FlagFollows(u, f), w \notin Setting(u, f),
             preference'[u][f] = preference[u][f]
      PROVE  FlagFollows(u, f)'
  <2>1. Setting(u, f)' = Setting(u, f) /\ Setting(u, f) \subseteq UnderWay(upsert) \ {w}
    BY <1>2, <1>5, <1>6 DEF Setting
  <2>2. CASE Setting(u, f) = {}
    BY <1>6, <2>1, <2>2 DEF FlagFollows
  <2>3. CASE Setting(u, f) # {}
    <3>1. PICK l \in Setting(u, f) :
             /\ Setting(u, f) \subseteq upsert[l].older \union {l}
             /\ preferenceRow[u][f] = upsert[l].changes[f]
      BY <1>6, <2>3 DEF FlagFollows
    <3>2. /\ upsert'[l].changes = upsert[l].changes
          /\ Setting(u, f) \subseteq upsert'[l].older \union {l}
      BY <1>1, <1>6, <2>1, <3>1
    <3> QED
      BY <2>1, <2>3, <3>1, <3>2 DEF FlagFollows
  <2> QED
    BY <2>2, <2>3
<1> QED
  BY <1>3, <1>4, <1>5, <1>6

\* What an upsert that is over leaves of the messages: each posting goes on, or
\* fails, and memory changes only for the user of the upsert.
LEMMA EndedKeepsPosts ==
  ASSUME PreferenceInv, NEW w \in UnderWay(upsert), upsert' = Ended(upsert, w),
         UNCHANGED <<log, messageRow, owed>>,
         posting' \in [Post -> {"unsent", "restoring", "sent", "stored", "done", "failed"}],
         \A p \in Post : posting'[p] = posting[p]
                         \/ (posting[p] = "restoring" /\ posting'[p] \in {"sent", "failed"}),
         \A v \in Reader : v # upsert[w].user => preference'[v] = preference[v],
         upsert[w].changes["isDeleted"] \/ ~preference'[upsert[w].user]["isDeleted"]
            \/ preference' = preference,
         \A p \in Post : \A u \in owed[p] :
            w = <<p, u>> /\ preference'[u]["isDeleted"] => posting'[p] # "restoring",
         \A p \in Post : posting[p] = "restoring" /\ posting'[p] = "sent" =>
            /\ UnderWay(upsert) \intersect ({p} \X Reader) = {w}
            /\ ~upsert[w].changes["isDeleted"] => ~preference'[upsert[w].user]["isDeleted"]
  PROVE  UpsertsOfPosts' /\ PostsAreKept' /\ OwedIsListed'
<1>1. /\ PreferenceTypes /\ UpsertsOfPosts /\ PostsAreKept /\ OwedIsListed
      /\ \A v \in UnderWay(upsert) \ {w} :
            /\ upsert'[v].step = upsert[v].step /\ upsert'[v].user = upsert[v].user
            /\ upsert'[v].changes = upsert[v].changes
      /\ \A v \in Upsert : v \in UnderWay(upsert) \ {w} \/ upsert'[v].step = "idle"
      /\ \A u \in Reader : UpsertsOf(u)' = UpsertsOf(u) \ {w}
  BY EndedUpserts DEF PreferenceInv
<1>2. /\ \A u \in Reader : UpsertsOf(u) \subseteq UnderWay(upsert)
      /\ \A v \in Upsert : v \in UnderWay(upsert) <=> upsert[v].step # "idle"
      /\ upsert[w].user \in Reader /\ w \in UpsertsOf(upsert[w].user)
  BY <1>1, UpsertFields
<1>3. \A p \in Post, u \in Reader : <<p, u>> \in Upsert /\ <<p, u>> \in {p} \X Reader
  BY DEF Upsert
<1>4. UpsertsOfPosts'
  <2> SUFFICES ASSUME NEW p \in Post, NEW u \in Reader, upsert'[<<p, u>>].step # "idle"
               PROVE  upsert'[<<p, u>>].user = u /\ posting'[p] # "unsent"
    BY DEF UpsertsOfPosts
  <2>1. <<p, u>> \in UnderWay(upsert) \ {w} /\ upsert[<<p, u>>].step # "idle"
    BY <1>1, <1>2, <1>3
  <2> QED
    BY <1>1, <2>1 DEF UpsertsOfPosts
<1>5. PostsAreKept'
  BY <1>1 DEF PostsAreKept
<1>6. OwedIsListed'
  <2> SUFFICES ASSUME NEW p \in Post, NEW u \in owed[p]
               PROVE  /\ \A v \in UpsertsOf(u)' : ~upsert'[v].changes["isDeleted"]
                      /\ posting'[p] = "sent" \/ p \in messageRow => ~preference'[u]["isDeleted"]
                      /\ posting'[p] = "restoring" /\ preference'[u]["isDeleted"] =>
                            upsert'[<<p, u>>].step # "idle"
    BY DEF OwedIsListed
  <2>1. /\ u \in Reader
        /\ \A v \in UpsertsOf(u) : ~upsert[v].changes["isDeleted"]
        /\ posting[p] = "sent" \/ p \in messageRow => ~preference[u]["isDeleted"]
        /\ posting[p] = "restoring" /\ preference[u]["isDeleted"] => upsert[<<p, u>>].step # "idle"
    BY <1>1 DEF PreferenceTypes, OwedIsListed
  <2>2. \A v \in UpsertsOf(u)' : ~upsert'[v].changes["isDeleted"]
    BY <1>1, <1>2, <2>1
  <2>3. preference'[u]["isDeleted"] => preference[u]["isDeleted"]
    <3>1. u = upsert[w].user => ~upsert[w].changes["isDeleted"]
      BY <1>2, <2>1
    <3> QED
      BY <2>1, <3>1
  <2>4. posting'[p] = "restoring" /\ preference'[u]["isDeleted"] =>
           upsert'[<<p, u>>].step # "idle"
    <3> SUFFICES ASSUME posting'[p] = "restoring", preference'[u]["isDeleted"]
                 PROVE  upsert'[<<p, u>>].step # "idle"
      OBVIOUS
    <3>1. /\ <<p, u>> \in UnderWay(upsert) /\ <<p, u>> # w
          /\ upsert[<<p, u>>].step # "idle"
      BY <1>2, <1>3, <2>1, <2>3
    <3>2. upsert'[<<p, u>>].step = upsert[<<p, u>>].step
      BY <1>1, <3>1
    <3> QED
      BY <3>1, <3>2
  <2>5. ASSUME posting[p] = "restoring", posting'[p] = "sent"
        PROVE  ~preference'[u]["isDeleted"]
    <3> SUFFICES ASSUME preference'[u]["isDeleted"] PROVE FALSE
      OBVIOUS
    <3>1. <<p, u>> \in UnderWay(upsert) /\ upsert[<<p, u>>].step # "idle"
      BY <1>2, <1>3, <2>1, <2>3, <2>5
    <3>2. <<p, u>> = w
      <4>1. UnderWay(upsert) \intersect ({p} \X Reader) = {w}
        BY <2>5
      <4>2. <<p, u>> \in {p} \X Reader
        BY <1>3, <2>1
      <4> QED
        BY <3>1, <4>1, <4>2
    <3>3. upsert[w].user = u
      BY <1>1, <2>1, <3>1, <3>2 DEF UpsertsOfPosts
    <3>4. ~upsert[w].changes["isDeleted"]
      BY <1>2, <2>1, <3>3
    <3> QED
      BY <2>5, <3>3, <3>4
  <2> QED
    BY <1>1, <2>1, <2>2, <2>3, <2>4, <2>5
<1> QED
  BY <1>4, <1>5, <1>6

\* An upsert is over and in memory, as a copy of what memory had when it began.
LEMMA ResumeKeepsPreferenceInv ==
  ASSUME PreferenceInv, NEW w \in Upsert, ResumeUpsert(w)
  PROVE  PreferenceInv'
<1>1. /\ PreferenceTypes /\ UpsertsAreOrdered /\ RowsFollow
      /\ upsert[w].step = "stored" /\ upsert' = Ended(upsert, w)
      /\ UNCHANGED <<preferenceRow, log, messageRow, owed>>
      /\ w \in UnderWay(upsert)
  BY UpsertFields DEF PreferenceInv, ResumeUpsert
<1>2. PICK u \in Reader : u = upsert[w].user
  BY <1>1, UpsertFields
<1>3. /\ upsert[w].changes \in FlagChanges /\ upsert[w].found \in Preference
      /\ w \in UpsertsOf(u)
  BY <1>1, <1>2, UpsertFields
<1>4. /\ preference' = [preference EXCEPT ![u] = Merged(upsert[w].changes, upsert[w].found)]
      /\ posting' = [p \in Post |-> IF p \in Restored(w) THEN "sent" ELSE posting[p]]
      /\ slipped' = slipped \union {v \in {u} : OvertakesAnswer(upsert, w)}
      /\ blended' = blended \union {v \in {u} : preference[u] # upsert[w].found}
  BY <1>2 DEF ResumeUpsert
<1>5. /\ Merged(upsert[w].changes, upsert[w].found) \in Preference
      /\ \A f \in Flag : Merged(upsert[w].changes, upsert[w].found)[f] =
            IF f \in DOMAIN upsert[w].changes THEN upsert[w].changes[f] ELSE upsert[w].found[f]
      /\ "isDeleted" \in DOMAIN upsert[w].changes /\ "isDeleted" \in Flag
  BY <1>3, MergedFlags DEF Flag
<1>6. /\ preference' \in [Reader -> Preference]
      /\ \A v \in Reader : v # u => preference'[v] = preference[v]
      /\ \A f \in Flag : preference'[u][f] =
            IF f \in DOMAIN upsert[w].changes THEN upsert[w].changes[f] ELSE upsert[w].found[f]
  BY <1>1, <1>4, <1>5 DEF PreferenceTypes
<1>7. /\ posting' \in [Post -> {"unsent", "restoring", "sent", "stored", "done", "failed"}]
      /\ \A p \in Post : posting'[p] = posting[p]
            \/ (posting[p] = "restoring" /\ posting'[p] = "sent" /\ p \in Restored(w))
      /\ \A p \in Post : p \in Restored(w) => posting'[p] = "sent"
  <2>1. \A p \in Restored(w) : posting[p] = "restoring"
    BY DEF Restored, Awaiting
  <2>2. \A p \in Post :
           posting[p] \in {"unsent", "restoring", "sent", "stored", "done", "failed"}
    BY <1>1 DEF PreferenceTypes
  <2>3. \A p \in Post : posting'[p] = IF p \in Restored(w) THEN "sent" ELSE posting[p]
    BY <1>4
  <2>4. posting' \in [Post -> {"unsent", "restoring", "sent", "stored", "done", "failed"}]
    BY <1>4, <2>2
  <2>5. ASSUME NEW p \in Post
        PROVE  /\ posting'[p] = posting[p]
                  \/ (posting[p] = "restoring" /\ posting'[p] = "sent" /\ p \in Restored(w))
               /\ p \in Restored(w) => posting'[p] = "sent"
    <3>1. CASE p \in Restored(w)
      BY <2>1, <2>3, <3>1
    <3>2. CASE p \notin Restored(w)
      BY <2>3, <3>2
    <3> QED
      BY <3>1, <3>2
  <2> QED
    BY <2>4, <2>5
<1>8. PreferenceTypes'
  <2>1. upsert' \in [Upsert -> UpsertStates]
    BY <1>1, EndedUpserts
  <2>2. slipped' \subseteq Reader /\ blended' \subseteq Reader
    BY <1>1, <1>4 DEF PreferenceTypes
  <2>3. /\ preferenceRow' \in [Reader -> Preference] /\ log' \subseteq messageRow'
        /\ messageRow' \subseteq Post /\ owed' \in [Post -> SUBSET Reader]
    BY <1>1 DEF PreferenceTypes
  <2> QED
    BY <1>6, <1>7, <2>1, <2>2, <2>3 DEF PreferenceTypes
<1>9. UpsertsOfPosts' /\ PostsAreKept' /\ OwedIsListed'
  <2>1. preference'[u]["isDeleted"] = upsert[w].changes["isDeleted"]
    BY <1>5, <1>6
  <2>2. upsert[w].changes["isDeleted"] \in BOOLEAN
    BY <1>3, <1>5, MergedFlags
  <2>3. ASSUME NEW p \in Post, posting[p] = "restoring", posting'[p] = "sent"
        PROVE  UnderWay(upsert) \intersect ({p} \X Reader) = {w}
    BY <1>7, <2>3 DEF Restored
  <2>4. \A v \in Reader : v # upsert[w].user => preference'[v] = preference[v]
    BY <1>2, <1>6
  <2>5. upsert[w].changes["isDeleted"] \/ ~preference'[upsert[w].user]["isDeleted"]
    BY <1>2, <2>1
  <2>6. \A p \in Post : posting'[p] = posting[p]
           \/ (posting[p] = "restoring" /\ posting'[p] \in {"sent", "failed"})
    BY <1>7
  <2>7. ASSUME NEW p \in Post, NEW v \in owed[p], w = <<p, v>>, preference'[v]["isDeleted"]
        PROVE  posting'[p] # "restoring"
    <3>1. v \in Reader /\ upsert[w].user = v
      BY <1>1, <2>7 DEF PreferenceInv, PreferenceTypes, UpsertsOfPosts
    <3>2. ~upsert[w].changes["isDeleted"]
      BY <1>2, <1>3, <2>7, <3>1 DEF PreferenceInv, OwedIsListed
    <3> QED
      BY <1>2, <2>1, <2>7, <3>1, <3>2
  <2> QED
    BY <1>1, <1>2, <1>7, <2>1, <2>3, <2>4, <2>5, <2>6, <2>7, EndedKeepsPosts
<1>10. /\ UpsertsAreOrdered'
       /\ \A v \in Reader : StoredInOrder(v) => StoredInOrder(v)'
       /\ \A v \in Reader, f \in Flag : Setting(v, f)' = Setting(v, f) \ {w}
       /\ \A v \in Reader, f \in Flag :
             /\ FlagFollows(v, f) /\ w \notin Setting(v, f)
             /\ preference'[v][f] = preference[v][f]
             => FlagFollows(v, f)'
  BY <1>1, EndedKeepsRows
<1>11. RowsFollow'
  <2> SUFFICES ASSUME NEW v \in Reader \ slipped'
               PROVE  /\ StoredInOrder(v)'
                      /\ FlagFollows(v, "isDeleted")'
                      /\ v \notin blended' => \A f \in Flag : FlagFollows(v, f)'
    BY DEF RowsFollow
  <2>1. /\ StoredInOrder(v) /\ FlagFollows(v, "isDeleted")
        /\ v \notin blended' => v \notin blended /\ \A f \in Flag : FlagFollows(v, f)
    BY <1>1, <1>4 DEF RowsFollow
  <2>2. CASE v # u
    <3>1. \A f \in Flag : w \notin Setting(v, f) /\ preference'[v][f] = preference[v][f]
      BY <1>2, <1>6, <2>2 DEF Setting, UpsertsOf
    <3> QED
      BY <1>5, <1>10, <2>1, <3>1
  <2>3. CASE v = u
    <3>1. upsert[w].older = {}
      BY <1>4, <2>3 DEF OvertakesAnswer
    <3>2. ASSUME NEW f \in Flag, FlagFollows(u, f), f \in DOMAIN upsert[w].changes
          PROVE  FlagFollows(u, f)'
      <4>1. w \in Setting(u, f)
        BY <1>1, <1>3, <3>2 DEF Setting
      <4>2. PICK l \in Setting(u, f) :
               /\ Setting(u, f) \subseteq upsert[l].older \union {l}
               /\ preferenceRow[u][f] = upsert[l].changes[f]
        BY <3>2, <4>1 DEF FlagFollows
      <4>3. CASE l = w
        <5>1. Setting(u, f)' = {}
          BY <1>10, <3>1, <4>2, <4>3
        <5>2. preferenceRow'[u][f] = preference'[u][f]
          BY <1>1, <1>6, <3>2, <4>2, <4>3
        <5> QED
          BY <5>1, <5>2 DEF FlagFollows
      <4>4. CASE l # w
        <5>1. l \in UnderWay(upsert) \ {w} /\ l \in Setting(u, f)'
          BY <1>1, <1>10, <4>2, <4>4, UpsertFields DEF Setting
        <5>2. upsert'[l].changes = upsert[l].changes
              /\ upsert'[l].older = upsert[l].older \ {w}
          BY <1>1, <5>1, EndedUpserts
        <5> QED
          BY <1>1, <1>10, <4>2, <5>1, <5>2 DEF FlagFollows
      <4> QED
        BY <4>3, <4>4
    <3>3. ASSUME NEW f \in Flag, FlagFollows(u, f), f \notin DOMAIN upsert[w].changes,
                 u \notin blended'
          PROVE  FlagFollows(u, f)'
      <4>1. upsert[w].found = preference[u]
        BY <1>4, <3>3
      <4> QED
        BY <1>6, <1>10, <3>3, <4>1 DEF Setting
    <3> QED
      BY <1>5, <1>10, <2>1, <2>3, <3>2, <3>3
  <2> QED
    BY <2>2, <2>3
<1> QED
  BY <1>8, <1>9, <1>10, <1>11 DEF PreferenceInv

\* An upsert fails, and the message that awaits it with it.
LEMMA FailKeepsPreferenceInv ==
  ASSUME PreferenceInv, NEW w \in Upsert, FailUpsert(w)
  PROVE  PreferenceInv'
<1>1. /\ PreferenceTypes /\ RowsFollow /\ w \in UnderWay(upsert) /\ upsert' = Ended(upsert, w)
      /\ UNCHANGED <<preference, preferenceRow, log, messageRow, owed, blended>>
      /\ slipped' = slipped \union {v \in {upsert[w].user} : upsert[w].step = "stored"}
      /\ posting' = [p \in Post |-> IF p \in Awaiting(w) THEN "failed" ELSE posting[p]]
  BY DEF PreferenceInv, FailUpsert
<1>2. /\ upsert[w].user \in Reader
      /\ \A v \in Reader : w \in UpsertsOf(v) => v = upsert[w].user
  BY <1>1, UpsertFields DEF UpsertsOf
<1>3. /\ posting' \in [Post -> {"unsent", "restoring", "sent", "stored", "done", "failed"}]
      /\ \A p \in Post : posting'[p] = posting[p]
            \/ (posting[p] = "restoring" /\ posting'[p] = "failed")
      /\ \A p \in Post, u \in Reader : w = <<p, u>> => posting'[p] # "restoring"
  <2>1. \A p \in Post :
           posting[p] \in {"unsent", "restoring", "sent", "stored", "done", "failed"}
    BY <1>1 DEF PreferenceTypes
  <2>2. \A p \in Post : posting'[p] = IF p \in Awaiting(w) THEN "failed" ELSE posting[p]
    BY <1>1
  <2>3. posting' \in [Post -> {"unsent", "restoring", "sent", "stored", "done", "failed"}]
    BY <1>1, <2>1
  <2>4. \A p \in Awaiting(w) : posting[p] = "restoring"
    BY DEF Awaiting
  <2>5. ASSUME NEW p \in Post, NEW u \in Reader, w = <<p, u>>
        PROVE  posting'[p] # "restoring"
    <3>1. posting[p] = "restoring" => p \in Awaiting(w)
      BY <2>5 DEF Awaiting
    <3> QED
      BY <2>2, <3>1
  <2>6. ASSUME NEW p \in Post
        PROVE  posting'[p] = posting[p]
                  \/ (posting[p] = "restoring" /\ posting'[p] = "failed")
    <3>1. CASE p \in Awaiting(w)
      BY <2>2, <2>4, <3>1
    <3>2. CASE p \notin Awaiting(w)
      BY <2>2, <3>2
    <3> QED
      BY <3>1, <3>2
  <2> QED
    BY <2>3, <2>5, <2>6
<1>4. PreferenceTypes'
  <2>1. upsert' \in [Upsert -> UpsertStates]
    BY <1>1, EndedUpserts
  <2>2. slipped' \subseteq Reader /\ blended' \subseteq Reader
    BY <1>1, <1>2 DEF PreferenceTypes
  <2>3. /\ preference' \in [Reader -> Preference] /\ preferenceRow' \in [Reader -> Preference]
        /\ log' \subseteq messageRow' /\ messageRow' \subseteq Post
        /\ owed' \in [Post -> SUBSET Reader]
    BY <1>1 DEF PreferenceTypes
  <2> QED
    BY <1>3, <2>1, <2>2, <2>3 DEF PreferenceTypes
<1>5. UpsertsOfPosts' /\ PostsAreKept' /\ OwedIsListed'
  <2>1. \A p \in Post : \A u \in owed[p] :
           w = <<p, u>> /\ preference'[u]["isDeleted"] => posting'[p] # "restoring"
    BY <1>1, <1>3 DEF PreferenceTypes
  <2>2. \A p \in Post : ~(posting[p] = "restoring" /\ posting'[p] = "sent")
    BY <1>3
  <2>3. \A p \in Post : posting'[p] = posting[p]
           \/ (posting[p] = "restoring" /\ posting'[p] \in {"sent", "failed"})
    BY <1>3
  <2> QED
    BY <1>1, <1>3, <2>1, <2>2, <2>3, EndedKeepsPosts
<1>6. /\ UpsertsAreOrdered'
      /\ \A v \in Reader : StoredInOrder(v) => StoredInOrder(v)'
      /\ \A v \in Reader, f \in Flag :
            FlagFollows(v, f) /\ w \notin Setting(v, f) => FlagFollows(v, f)'
  BY <1>1, EndedKeepsRows
<1>7. RowsFollow'
  <2> SUFFICES ASSUME NEW v \in Reader \ slipped'
               PROVE  /\ StoredInOrder(v)'
                      /\ FlagFollows(v, "isDeleted")'
                      /\ v \notin blended => \A f \in Flag : FlagFollows(v, f)'
    BY <1>1 DEF RowsFollow
  <2>1. /\ StoredInOrder(v) /\ FlagFollows(v, "isDeleted")
        /\ v \notin blended => \A f \in Flag : FlagFollows(v, f)
    BY <1>1 DEF RowsFollow
  <2>2. \A f \in Flag : w \notin Setting(v, f)
    BY <1>1, <1>2 DEF Setting
  <2> QED
    BY <1>6, <2>1, <2>2 DEF Flag
<1> QED
  BY <1>4, <1>5, <1>6, <1>7 DEF PreferenceInv

\* A message is stored, comes into memory, or fails.
LEMMA PostKeepsPreferenceInv ==
  ASSUME PreferenceInv, NEW p \in Post, StorePost(p) \/ ResumePost(p) \/ FailPost(p)
  PROVE  PreferenceInv'
<1>1. /\ PreferenceTypes /\ UpsertsOfPosts /\ PostsAreKept /\ OwedIsListed
      /\ UpsertsAreOrdered /\ RowsFollow
      /\ UNCHANGED <<preference, preferenceRow, upsert, owed, slipped, blended>>
  BY DEF PreferenceInv, StorePost, ResumePost, FailPost
<1>2. /\ posting[p] \in {"sent", "stored"}
      /\ posting' \in [Post -> {"unsent", "restoring", "sent", "stored", "done", "failed"}]
      /\ posting'[p] \in {"stored", "done", "failed"}
      /\ \A q \in Post : q # p => posting'[q] = posting[q]
  BY <1>1 DEF PreferenceTypes, StorePost, ResumePost, FailPost
<1>3. /\ messageRow' \subseteq Post /\ log' \subseteq messageRow'
      /\ messageRow \subseteq messageRow'
      /\ \A q \in messageRow' : q \in messageRow \/ (q = p /\ posting[p] = "sent")
  <2>1. CASE StorePost(p)
    BY <1>1, <2>1 DEF PreferenceTypes, StorePost
  <2>2. CASE ResumePost(p)
    <3>1. posting[p] = "stored" /\ log' = log \union {p} /\ messageRow' = messageRow
      BY <2>2 DEF ResumePost
    <3>2. p \in messageRow
      BY <1>1, <3>1 DEF PostsAreKept
    <3> QED
      BY <1>1, <3>1, <3>2 DEF PreferenceTypes
  <2>3. CASE FailPost(p)
    <3>1. log' = log /\ messageRow' = messageRow
      BY <2>3 DEF FailPost
    <3> QED
      BY <1>1, <3>1 DEF PreferenceTypes
  <2> QED
    BY <2>1, <2>2, <2>3
<1>4. PreferenceTypes'
  BY <1>1, <1>2, <1>3 DEF PreferenceTypes
<1>5. UpsertsAreOrdered' /\ RowsFollow'
  BY <1>1 DEF UpsertsAreOrdered, RowsFollow, StoredInOrder, FlagFollows, Setting, UpsertsOf
<1>6. UpsertsOfPosts'
  BY <1>1, <1>2 DEF UpsertsOfPosts
<1>7. PostsAreKept'
  <2>1. posting'[p] \in {"stored", "done"} => p \in messageRow'
    <3>1. CASE StorePost(p)
      BY <3>1 DEF StorePost
    <3>2. CASE ResumePost(p)
      BY <1>1, <1>3, <3>2 DEF ResumePost, PostsAreKept
    <3>3. CASE FailPost(p)
      BY <1>1, <3>3 DEF PreferenceTypes, FailPost
    <3> QED
      BY <3>1, <3>2, <3>3
  <2> QED
    BY <1>1, <1>2, <1>3, <2>1 DEF PostsAreKept
<1>8. OwedIsListed'
  <2> SUFFICES ASSUME NEW q \in Post, NEW u \in owed[q]
               PROVE  /\ \A w \in UpsertsOf(u)' : ~upsert[w].changes["isDeleted"]
                      /\ posting'[q] = "sent" \/ q \in messageRow' => ~preference[u].isDeleted
                      /\ posting'[q] = "restoring" /\ preference[u].isDeleted =>
                            upsert[<<q, u>>].step # "idle"
    BY <1>1 DEF OwedIsListed
  <2>1. UpsertsOf(u)' = UpsertsOf(u)
    BY <1>1 DEF UpsertsOf
  <2> QED
    BY <1>1, <1>2, <1>3, <2>1 DEF OwedIsListed
<1> QED
  BY <1>4, <1>5, <1>6, <1>7, <1>8 DEF PreferenceInv

\* Every step keeps the invariant.
LEMMA NextKeepsPreferenceInv ==
  PreferenceInv /\ [PreferencesNext]_preferenceVars => PreferenceInv'
<1> SUFFICES ASSUME PreferenceInv, [PreferencesNext]_preferenceVars
             PROVE  PreferenceInv'
  OBVIOUS
<1>1. CASE UNCHANGED preferenceVars
  BY <1>1 DEF preferenceVars, PreferenceInv, PreferenceTypes, UpsertsAreOrdered, RowsFollow,
              UpsertsOfPosts, PostsAreKept, OwedIsListed, StoredInOrder, FlagFollows, Setting,
              UpsertsOf
<1>2. CASE RestartPreferences
  BY <1>2, RestartKeepsPreferenceInv
<1>3. ASSUME NEW r \in Request, NEW u \in Reader,
             \/ ToggleConversationBookmark(r, u)
             \/ ToggleConversationArchive(r, u)
             \/ CreateExistingDirect(r, u)
             \/ DeleteConversationForUser(r, u)
      PROVE  PreferenceInv'
  BY <1>3, RequestedChanges, SetKeepsPreferenceInv
     DEF ToggleConversationBookmark, ToggleConversationArchive, CreateExistingDirect,
         DeleteConversationForUser
<1>4. ASSUME NEW w \in Upsert, StoreUpsert(w) \/ ResumeUpsert(w) \/ FailUpsert(w)
      PROVE  PreferenceInv'
  BY <1>4, StoreKeepsPreferenceInv, ResumeKeepsPreferenceInv, FailKeepsPreferenceInv
<1>5. ASSUME NEW p \in Post,
             CreateMessage(p) \/ StorePost(p) \/ ResumePost(p) \/ FailPost(p)
      PROVE  PreferenceInv'
  BY <1>5, CreateMessageKeepsPreferenceInv, PostKeepsPreferenceInv
<1> QED
  BY <1>1, <1>2, <1>3, <1>4, <1>5 DEF PreferencesNext

\* What the invariant says of messages, and of users with nothing under way.
LEMMA PreferenceInvSuffices == PreferenceInv => NewMessageIsListed /\ PreferencesAreStored
<1> SUFFICES ASSUME PreferenceInv PROVE NewMessageIsListed /\ PreferencesAreStored
  OBVIOUS
<1>1. PreferenceTypes /\ RowsFollow /\ OwedIsListed
  BY DEF PreferenceInv
<1>2. NewMessageIsListed
  <2> SUFFICES ASSUME NEW p \in log, NEW u \in owed[p]
               PROVE  /\ ~preference[u]["isDeleted"]
                      /\ u \notin slipped => ~preferenceRow[u]["isDeleted"]
    BY DEF NewMessageIsListed
  <2>1. p \in Post /\ p \in messageRow /\ u \in Reader
    BY <1>1 DEF PreferenceTypes
  <2>2. /\ ~preference[u]["isDeleted"]
        /\ \A w \in UpsertsOf(u) : ~upsert[w].changes["isDeleted"]
    BY <1>1, <2>1 DEF OwedIsListed
  <2>3. ASSUME u \notin slipped PROVE ~preferenceRow[u]["isDeleted"]
    <3>1. FlagFollows(u, "isDeleted")
      BY <1>1, <2>1, <2>3 DEF RowsFollow
    <3>2. CASE Setting(u, "isDeleted") = {}
      BY <2>2, <3>1, <3>2 DEF FlagFollows
    <3>3. CASE Setting(u, "isDeleted") # {}
      BY <2>2, <3>1, <3>3 DEF FlagFollows, Setting
    <3> QED
      BY <3>2, <3>3
  <2> QED
    BY <2>2, <2>3
<1>3. PreferencesAreStored
  <2> SUFFICES ASSUME NEW u \in Reader, \A w \in UnderWay(upsert) : upsert[w].user # u,
                      u \notin slipped
               PROVE  /\ preference[u]["isDeleted"] = preferenceRow[u]["isDeleted"]
                      /\ u \notin blended => preference[u] = preferenceRow[u]
    BY DEF PreferencesAreStored
  <2>1. UpsertsOf(u) = {}
    BY <1>1, UpsertFields DEF UpsertsOf
  <2>2. \A f \in Flag : FlagFollows(u, f) => preferenceRow[u][f] = preference[u][f]
    BY <2>1 DEF FlagFollows, Setting
  <2>3. preference[u] \in [Flag -> BOOLEAN] /\ preferenceRow[u] \in [Flag -> BOOLEAN]
    BY <1>1 DEF PreferenceTypes, Preference
  <2>4. u \notin blended => preference[u] = preferenceRow[u]
    BY <1>1, <2>2, <2>3 DEF RowsFollow
  <2> QED
    BY <1>1, <2>2, <2>4 DEF RowsFollow, Flag
<1> QED
  BY <1>2, <1>3

\* Nobody misses a message, and table and memory agree on what a participant
\* keeps of a conversation once nothing of theirs is under way, for any number of
\* participants, requests and messages, with failing queries and restarts; unless
\* their upserts overtook one another (setConversationPreference, createMessage).
THEOREM PreferencesAreStoredHolds ==
  PreferencesSpec => [](NewMessageIsListed /\ PreferencesAreStored)
  BY InitPreferenceInv, NextKeepsPreferenceInv, PreferenceInvSuffices, PTL
     DEF PreferencesSpec

\* Both halves of what a user keeps, of the behaviours in which TLC explores them.
THEOREM PartsKeptIsStored == MCSpec => []KeptIsStored
<1> DEFINE Inv == /\ part = "preferences" => PreferenceInv
                  /\ part = "bookmarks" => BookmarkInv
<1>1. MCInit => Inv
  BY InitPreferenceInv, InitBookmarkInv DEF MCInit
<1>2. Inv /\ [MCNext]_<<part, supportVars, composerVars, chatVars,
                        preferenceVars, bookmarkVars, readingVars>> => Inv'
  BY NextKeepsPreferenceInv, NextKeepsBookmarkInv DEF MCNext
<1>3. Inv => KeptIsStored
  BY PreferenceInvSuffices, BookmarkInvSuffices DEF KeptIsStored
<1> QED
  BY <1>1, <1>2, <1>3, PTL DEF MCSpec
=============================================================================
