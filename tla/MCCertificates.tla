--------------------------- MODULE MCCertificates ---------------------------
(* Handlers are interchangeable.                                           *)
EXTENDS Certificates, TLC

Symmetry == Permutations(Handlers)
==============================================================================
