--------------------------- MODULE MCBackupRestore ---------------------------
(* Restores of archives that hold the same zones in another order.         *)
EXTENDS BackupRestore

CONSTANTS n1, n2
Live12 == <<n1, n2>>
Archive21 == <<n2, n1>>
All == Categories \cup {"ssl_files", "application_secrets"}
Ask(cats, enc, files, ssl) == [cats |-> cats, enc |-> enc, files |-> files, ssl |-> ssl]
Typical ==
    {Ask({"zones", "application_secrets"}, "own", {}, FALSE),
     Ask({"zones"}, "own", {}, FALSE),
     Ask({"api_keys"}, "own", {}, FALSE),
     Ask({"application_secrets"}, "own", {}, FALSE),
     Ask({"application_secrets"}, "foreign", {}, FALSE),
     Ask(All, "foreign", {"key", "cert", "acme"}, TRUE)}
==============================================================================
