---------------------------- MODULE MCModeration ----------------------------
EXTENDS Moderation, TLC

CONSTANTS ada, kim, mia, rob, m1, m2

\* One message of an ordinary user and one of an administrator.
SenderOf == [m \in Message |-> IF m = m1 THEN mia ELSE kim]

Symmetry == Permutations(Handler) \union Permutations(Report) \union Permutations(Audit)

\* Bound: the administrator's message is not deleted.
OtherMessageStays == m2 \notin deleted

=============================================================================
