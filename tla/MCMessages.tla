---------------------------- MODULE MCMessages ----------------------------
EXTENDS Messages, TLC

CONSTANTS ann, bob, p1, p2, q, k1, k2, hi, oh

\* ann sends a message and repeats it with the same clientMessageId.
Repeats      == {p1, p2}
RepeatSender == [a \in Repeats |-> ann]
RepeatKeys   == [a \in Repeats |-> k1]
RepeatTexts  == [a \in Repeats |-> hi]

\* ann and bob send one message each.
TwoSends  == {p1, q}
TwoSender == [a \in TwoSends |-> IF a = q THEN bob ELSE ann]
TwoKeys   == [a \in TwoSends |-> IF a = q THEN k2 ELSE k1]
TwoTexts  == [a \in TwoSends |-> IF a = q THEN oh ELSE hi]

\* Slots are interchangeable.
SlotSymmetry == Permutations(Marker) \union Permutations(Changer)

=============================================================================
