----------------------------- MODULE MCPresence -----------------------------
EXTENDS Presence, TLC

CONSTANTS ann, bob, a, b1, b2, y1, x1, x2

\* ann has one page, and bob has two tabs.
PageUserOf == a :> ann @@ b1 :> bob @@ b2 :> bob
SocketPage == y1 :> a @@ x1 :> b1 @@ x2 :> b2

=============================================================================
