----------------------------- MODULE MCAccounts -----------------------------
(* Instances of Accounts for TLC: names that are not in the environment    *)
(* are interchangeable, and so are passwords.                              *)
EXTENDS Accounts, TLC

Symmetry == Permutations(Names \ {AdminUser}) \cup Permutations(Passwords)
=============================================================================
