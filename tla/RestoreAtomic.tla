---------------------------- MODULE RestoreAtomic ----------------------------
(***************************************************************************)
(* What restore_payload promises of the database, in the words of its      *)
(* comments: the rows of all the selected categories are replaced in one   *)
(* transaction or not at all, once per restore; success is reported for no *)
(* restore whose rows are missing; and "a failed DB restore cannot orphan  *)
(* SSL/secrets": files of an archive come after its rows.                  *)
(***************************************************************************)
CONSTANTS
    Restores,    \* restores, each with its archive
    Categories,  \* the categories that live in database tables
    Live         \* the origin of the rows of this installation

VARIABLES
    origin,   \* origin[c]: whose rows category c holds
    asked,    \* asked[r]: the categories restore r replaces; {} before it is asked
    applied,  \* restores whose rows were committed
    placed,   \* restores with a certificate file or the secrets on the disk
    shown     \* what the progress dialog ends with

vars == <<origin, asked, applied, placed, shown>>

Init ==
    /\ origin = [c \in Categories |-> Live]
    /\ asked = [r \in Restores |-> {}]
    /\ applied = {}
    /\ placed = {}
    /\ shown = "nothing"

(* A restore is asked for before it does anything. *)
Ask(r) ==
    /\ asked[r] = {} /\ r \notin applied \cup placed
    /\ \E cats \in SUBSET Categories : asked' = [asked EXCEPT ![r] = cats]
    /\ shown' = "nothing"
    /\ UNCHANGED <<origin, applied, placed>>

Apply(r) ==
    /\ r \notin applied
    /\ applied' = applied \cup {r}
    /\ origin' = [c \in Categories |-> IF c \in asked[r] THEN r ELSE origin[c]]
    /\ UNCHANGED <<asked, placed, shown>>

(* The rows of r are in place, or it was not asked for any. *)
RowsDone(r) == asked[r] # {} => r \in applied

(* A file of r is written; it may be the last of an earlier restore that   *)
(* is lost with it.                                                        *)
Place(r) ==
    /\ RowsDone(r)
    /\ \E kept \in SUBSET placed : placed' = kept \cup {r}
    /\ UNCHANGED <<origin, asked, applied, shown>>

Remove ==
    /\ placed' \in SUBSET placed
    /\ UNCHANGED <<origin, asked, applied, shown>>

Succeed(r) ==
    /\ RowsDone(r)
    /\ shown' = "success"
    /\ UNCHANGED <<origin, asked, applied, placed>>

Withdraw ==
    /\ shown' = "nothing"
    /\ UNCHANGED <<origin, asked, applied, placed>>

Next ==
    \/ \E r \in Restores : Ask(r) \/ Apply(r) \/ Place(r) \/ Succeed(r)
    \/ Remove \/ Withdraw

Spec == Init /\ [][Next]_vars
-----------------------------------------------------------------------------
(* What follows: no category is left empty or half replaced; each holds    *)
(* the rows of this installation or those of a restore that was committed  *)
(* ("in one transaction so failures roll back the wipe").                  *)
RowsAreWhole == \A c \in Categories : origin[c] \in applied \cup {Live}

(* No file or secret of a restore is on the disk without its rows.         *)
NoOrphans == \A r \in placed : RowsDone(r)
==============================================================================
