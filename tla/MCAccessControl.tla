--------------------------- MODULE MCAccessControl ---------------------------
(* Instances of AccessControl for TLC.  Keys, administrators and zone names *)
(* are interchangeable; row ids are not (they are ordered).                 *)
EXTENDS AccessControl, TLC

Symmetry == Permutations(Keys) \cup Permutations(Admins) \cup Permutations(ZoneNames)
=============================================================================
