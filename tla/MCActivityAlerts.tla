--------------------------- MODULE MCActivityAlerts ---------------------------
(* Two requests and two rules; a tick is a day.                             *)
EXTENDS ActivityAlerts, TLC

Levels == {1, 3}
ZeroOrOne == {0, 1}
OneOrTwo == {1, 2}
Symmetry == Permutations(Workers)
==============================================================================
