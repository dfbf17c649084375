---------------------------- MODULE MCLetsEncrypt ----------------------------
(* Instances of LetsEncrypt for TLC.  Handlers are interchangeable.         *)
EXTENDS LetsEncrypt, TLC

Ask(kind, auto, sched) == [kind |-> kind, auto |-> auto, sched |-> sched]

Every == Config

(* Two kinds that renew, with and without a schedule; the third kind comes  *)
(* from the deletion of the zone.                                           *)
Mixed == {Ask("zone", TRUE, FALSE), Ask("http", TRUE, TRUE)}

Zones == {Ask("zone", TRUE, TRUE), Ask("zone", TRUE, FALSE)}

Symmetry == Permutations(Jobs)
=============================================================================
