--------------------------- MODULE MCRemoteSyslog ---------------------------
(* Instances of RemoteSyslog for TLC. *)
EXTENDS RemoteSyslog, TLC

CONSTANTS h1, h2

To(enabled, host, proto, size) ==
    [enabled |-> enabled, host |-> host, proto |-> proto, size |-> size,
     plain |-> proto = "udp"]

Small == To(TRUE, h1, "tls", 1)
Large == To(TRUE, h1, "tls", 2)

(* A smaller queue, and another server over UDP. *)
Changes == {Small, To(TRUE, h2, "udp", 2), To(FALSE, h1, "tls", 2)}

Resize == {Large}
=============================================================================
