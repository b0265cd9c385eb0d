----------------------------- MODULE MCContacts -----------------------------
EXTENDS Contacts, TLC

\* Requests, ids of invitations and ids of conversations are interchangeable.
Symmetry ==
    Permutations(Handler) \union Permutations(Invitation)
       \union Permutations(Conversation)

\* Bound: a page that missed something is told nothing more before it is
\* opened again.  Nothing is claimed of what it shows.
MissedPageIsQuiet ==
    \A u \in missed : Refreshing(u) = 0 /\ notices[u] = 0

=============================================================================
