------------------------------ MODULE MCGroups ------------------------------
EXTENDS Groups, TLC

CONSTANT eve

\* Requests are interchangeable.
RequestSymmetry == Permutations(Handler)

\* Bound: eve is never more than a member.
EveIsBystander == roles["group"][eve] \in {"none", "member"}

\* Bound: after a loss only the management conversation is stored, by one
\* request at a time.  Nothing but the types is claimed of what follows a loss.
LossIsQuiet ==
    lost => \A h, k \in Handler :
               /\ toStore[h] \subseteq {"management"}
               /\ h # k => toStore[h] = {} \/ toStore[k] = {}

=============================================================================
