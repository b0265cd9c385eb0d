------------------------------ MODULE MCCalls ------------------------------
EXTENDS Calls, TLC

CONSTANTS ann, bob, eve, c1, c2

Calls12 == {c1, c2}

\* Two users who may call each other at the same time.
TwoUsers == {ann, bob}
MutualCaller == c1 :> ann @@ c2 :> bob
MutualRecipient == c1 :> bob @@ c2 :> ann

\* Two callers of one user.
ThreeUsers == {ann, bob, eve}
PairCaller == c1 :> ann @@ c2 :> eve
PairRecipient == c1 :> bob @@ c2 :> bob

\* The tabs of a user are interchangeable.
SocketSymmetry == Permutations(Socket)

=============================================================================
