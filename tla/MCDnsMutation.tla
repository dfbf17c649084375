---------------------------- MODULE MCDnsMutation ----------------------------
(* Instances of DnsMutation for TLC, started once the administrator has set *)
(* up what the requests need: an active read_write key, the target zone in  *)
(* row 1, and the link between them.                                        *)
EXTENDS DnsMutation, TLC

Ready ==
    /\ keys = [k \in Keys |-> [active |-> TRUE, rw |-> TRUE]]
    /\ \E p \in Providers :
          zones = [i \in ZoneIds |->
                     IF i = 1 THEN [name |-> Target, provider |-> p] ELSE NoRow]
    /\ links = Keys \X {1}
    /\ disabled = {}
    /\ admin = [a \in Admins |-> Idle]
    /\ rrset \in {Omit} \cup RRset
    /\ req = [r \in Requests |-> [pc |-> "none"]]
    /\ past = [r \in Requests |-> {}]

SpecReady == Ready /\ [][Next]_vars /\ Fairness

Symmetry == Permutations(Requests) \cup Permutations(Data)
=============================================================================
