------------------------- MODULE MCPracticeReviews -------------------------
(* Two tabs, of one device or of two.                                      *)
EXTENDS PracticeReviews, TLC

CONSTANTS t1, t2, d1, d2, c1, c2

OneDevice  == {[t \in Tabs |-> d1]}
TwoDevices == {[t \in Tabs |-> IF t = t1 THEN d1 ELSE d2]}

\* The learner fails in one tab and knows the answer in the other.
MCAnswers == [t \in Tabs |-> IF t = t1 THEN {"again"} ELSE {"good"}]

Failing   == [t \in Tabs |-> {"again"}]

AnyCall == Permutations(Calls)
=============================================================================
