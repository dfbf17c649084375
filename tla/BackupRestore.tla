---------------------------- MODULE BackupRestore ----------------------------
(***************************************************************************)
(* Restoring a backup: a request puts a restore behind a gate, the         *)
(* progress row, and a worker thread replaces the selected categories in   *)
(* one database transaction, then the certificate files, then the          *)
(* application secrets, and restarts the process.  A step ends where the   *)
(* code commits or writes a file; each step may fail, and the process may  *)
(* die between two of them.  Administrators edit zones meanwhile.          *)
(*                                                                         *)
(* Rows are told apart by their origin, this installation or the archive   *)
(* of a restore; only zones, key restrictions, ssl_enabled, session        *)
(* versions and the key that encrypts a category are looked into.          *)
(***************************************************************************)
EXTENDS Naturals, Sequences, FiniteSets

CONSTANTS
    Restores,     \* restores that are asked for, each with its archive
    Requested,    \* what they ask for
    ZoneNames,    \* names of zone configurations
    LiveZones,    \* the zones of this installation, in the order of their ids
    ArchiveZones, \* the zones of the archives, in order
    LiveGrant,    \* the zones its API key is restricted to
    ArchiveGrant, \* the zones the archives' API key is restricted to
    MaxZoneId,    \* bound on zone row ids
    Live,         \* the origin of what this installation holds by itself
    None          \* a missing row or file, no transaction

Categories == {"settings", "users", "zones", "api_keys", "alert_rules", "activity_logs"}
FernetBacked == {"settings", "zones", "ssl_files"}
EncryptionKeys == {"own", "foreign"}
Files == {"key", "cert", "source", "acme"}
ZoneIds == 1..MaxZoneId
Origins == Restores \cup {Live}

(* A form and its archive: the categories ticked, the archive's            *)
(* ENCRYPTION_KEY, its SSL files and its ssl_enabled.                      *)
Requests == [cats: SUBSET (Categories \cup {"ssl_files", "application_secrets"}),
             enc: EncryptionKeys, files: SUBSET Files, ssl: BOOLEAN]

ASSUME RestoreAssumption ==
    /\ Requested \subseteq Requests
    /\ MaxZoneId \in Nat
    /\ LiveZones \in Seq(ZoneNames) /\ Len(LiveZones) <= MaxZoneId
    /\ ArchiveZones \in Seq(ZoneNames) /\ Len(ArchiveZones) <= MaxZoneId
    /\ LiveGrant \subseteq ZoneNames /\ ArchiveGrant \subseteq ZoneNames
    /\ Live \notin Restores
    /\ None \notin Origins \cup ZoneNames \cup Requests

VARIABLES
    db,       \* the committed tables
    tx,       \* the write transaction that is open: whose, and its tables
    row,      \* the status in the progress row
    disk,     \* the certificate files and the durable secrets
    proc,     \* the process: up, told to stop, the secrets it read when it started
    request,  \* request[r]: what restore r was asked for
    pc,       \* pc[r]: the next step of its worker
    finally,  \* restores whose task has its finally before it
    applied   \* restores whose transaction was committed

vars == <<db, tx, row, disk, proc, request, pc, finally, applied>>

Steps == {"idle", "start", "wipe", "fill", "commit", "files", "unlink", "write",
          "secrets", "persist", "complete", "restart", "failed", "end"}

(* zones[id] is the name of zone row id; a link <<k, id>> restricts the    *)
(* API key of origin k to that row; fresh: no user has the session version *)
(* of an archive.                                                          *)
Tables == [origin: [Categories -> Origins \cup {None}],
           zones: [ZoneIds -> ZoneNames \cup {None}],
           links: SUBSET (Origins \X ZoneIds),
           enc: [{"settings", "zones"} -> EncryptionKeys],
           ssl: BOOLEAN, fresh: BOOLEAN]
Transactions == [by: Restores, left: SUBSET Categories, db: Tables]

ASSUME NoTransaction == None \notin Transactions

TypeOK ==
    /\ db \in Tables
    /\ tx \in {None} \cup Transactions
    /\ row \in {"idle", "running", "complete", "error"}
    /\ disk \in [file: [Files -> Origins \cup {None}], acme: EncryptionKeys,
                 secret: Origins, enc: EncryptionKeys]
    /\ proc \in [up: BOOLEAN, stopping: BOOLEAN, enc: EncryptionKeys]
    /\ request \in [Restores -> Requests \cup {None}]
    /\ pc \in [Restores -> Steps]
    /\ finally \subseteq Restores
    /\ applied \subseteq Restores

Numbered(names) == [id \in ZoneIds |-> IF id <= Len(names) THEN names[id] ELSE None]
Linked(k, zones, names) == {k} \X {id \in ZoneIds : zones[id] \in names}

(* SSL may be on from the start only with the files it needs. *)
Init ==
    /\ \E ssl \in BOOLEAN, have \in {{}, Files} :
        /\ ssl => have = Files
        /\ db = [origin |-> [c \in Categories |-> Live],
                 zones |-> Numbered(LiveZones),
                 links |-> Linked(Live, Numbered(LiveZones), LiveGrant),
                 enc |-> [c \in {"settings", "zones"} |-> "own"],
                 ssl |-> ssl, fresh |-> FALSE]
        /\ disk = [file |-> [f \in Files |-> IF f \in have THEN Live ELSE None],
                   acme |-> "own", secret |-> Live, enc |-> "own"]
    /\ tx = None /\ row = "idle"
    /\ proc = [up |-> TRUE, stopping |-> FALSE, enc |-> "own"]
    /\ request = [r \in Restores |-> None]
    /\ pc = [r \in Restores |-> "idle"]
    /\ finally = {} /\ applied = {}

At(r, step) == pc[r] = step
To(r, step) == pc' = [pc EXCEPT ![r] = step]
Cats(r) == request[r].cats
TablesOf(r) == IF request[r] = None THEN {} ELSE Cats(r) \cap Categories

(* SQLite has one writer: any other commit waits for the transaction. *)
Unlocked == tx = None
Report == Unlocked /\ row' = "running"
-----------------------------------------------------------------------------
(* The request *)

(* What validate_restore_records asks of the categories together; records  *)
(* are taken to be well formed, an enabled global administrator included.  *)
Valid(q) ==
    /\ q.cats # {}
    /\ q.cats \cap FernetBacked # {} => "application_secrets" \in q.cats
    /\ "application_secrets" \in q.cats /\ q.cats \cap FernetBacked = {} => q.enc = proc.enc

(* settings_backup_import_async, from try_begin_restore to the 202. *)
Begin(r, q) ==
    /\ proc.up /\ request[r] = None
    /\ Valid(q)
    /\ Unlocked /\ row # "running"
    /\ row' = "running"
    /\ request' = [request EXCEPT ![r] = q]
    /\ To(r, "start")
    /\ finally' = finally \cup {r}
    /\ UNCHANGED <<db, tx, disk, proc, applied>>
-----------------------------------------------------------------------------
(* The database categories *)

(* The first write of a restore that replaces no table is for its files. *)
Start(r) ==
    /\ At(r, "start")
    /\ Report
    /\ To(r, IF TablesOf(r) # {} THEN "wipe" ELSE "files")
    /\ UNCHANGED <<db, tx, disk, proc, request, finally, applied>>

WipedKeepingLinks(r, t) ==     \* fault: links go with the API keys only
    [t EXCEPT !.origin = [c \in Categories |-> IF c \in Cats(r) THEN None ELSE t.origin[c]],
              !.links = IF "api_keys" \in Cats(r) THEN {} ELSE t.links,
              !.zones = IF "zones" \in Cats(r) THEN Numbered(<<>>) ELSE t.zones,
              !.ssl = t.ssl /\ "settings" \notin Cats(r)]

Wiped(r, t) ==
    LET cats == Cats(r) IN
    [t EXCEPT !.origin = [c \in Categories |-> IF c \in cats THEN None ELSE t.origin[c]],
              !.links = IF cats \cap {"api_keys", "zones"} # {} THEN {} ELSE t.links,
              !.zones = IF "zones" \in cats THEN Numbered(<<>>) ELSE t.zones,
              !.ssl = t.ssl /\ "settings" \notin cats]

WipeCommitted(r) ==     \* fault: _delete_all commits, as it does unless told otherwise
    /\ At(r, "wipe")
    /\ Unlocked
    /\ db' = Wiped(r, db)
    /\ tx' = [by |-> r, left |-> TablesOf(r), db |-> Wiped(r, db)]
    /\ To(r, "fill")
    /\ UNCHANGED <<row, disk, proc, request, finally, applied>>

Wipe(r) ==
    /\ At(r, "wipe")
    /\ Unlocked
    /\ tx' = [by |-> r, left |-> TablesOf(r), db |-> Wiped(r, db)]
    /\ To(r, "fill")
    /\ UNCHANGED <<db, row, disk, proc, request, finally, applied>>

RewrappedNot(r) == request[r].enc     \* fault: the token is stored as it came

(* _rewrap_fernet_token leaves a token of this process's key alone and     *)
(* encrypts any other with that key.                                       *)
Rewrapped(r) == IF request[r].enc = proc.enc THEN request[r].enc ELSE proc.enc

Rank == [settings |-> 1, users |-> 2, zones |-> 3, api_keys |-> 4, alert_rules |-> 5,
         activity_logs |-> 6]

(* The rows of one category.  The zones of an API key are looked up by     *)
(* name among the rows just written, or else among those in place.         *)
Filled(r, c, t) ==
    LET owned == [t EXCEPT !.origin[c] = r] IN
    CASE c = "settings" -> [owned EXCEPT !.enc["settings"] = Rewrapped(r),
                                         !.ssl = request[r].ssl]
      [] c = "users"    -> [owned EXCEPT !.fresh = TRUE]
      [] c = "zones"    -> [owned EXCEPT !.enc["zones"] = Rewrapped(r),
                                         !.zones = Numbered(ArchiveZones)]
      [] c = "api_keys" -> [owned EXCEPT !.links =
                                @ \cup Linked(r, t.zones, ArchiveGrant)]
      [] OTHER          -> owned

Fill(r, c) ==
    /\ At(r, "fill") /\ c \in tx.left
    /\ \A d \in tx.left : Rank[c] <= Rank[d]
    /\ tx' = [tx EXCEPT !.left = @ \ {c}, !.db = Filled(r, c, @)]
    /\ To(r, IF tx.left = {c} THEN "commit" ELSE "fill")
    /\ UNCHANGED <<db, row, disk, proc, request, finally, applied>>

Commit(r) ==
    /\ At(r, "commit")
    /\ db' = tx.db
    /\ tx' = None
    /\ applied' = applied \cup {r}
    /\ To(r, "files")
    /\ UNCHANGED <<row, disk, proc, request, finally>>
-----------------------------------------------------------------------------
(* The files and the secrets, after the commit *)

SslFiles(r) ==
    /\ At(r, "files")
    /\ IF "ssl_files" \in Cats(r) THEN Report /\ To(r, "unlink")
       ELSE To(r, "secrets") /\ UNCHANGED row
    /\ UNCHANGED <<db, tx, disk, proc, request, finally, applied>>

(* Every file goes, whatever the archive has; one that cannot be removed,  *)
(* or not before the process dies, is kept.                                *)
Unlink(r) ==
    /\ At(r, "unlink")
    /\ \E kept \in SUBSET Files :
        disk' = [disk EXCEPT !.file = [f \in Files |-> IF f \in kept THEN @[f] ELSE None]]
    /\ To(r, "write")
    /\ UNCHANGED <<db, tx, row, proc, request, finally, applied>>

Unwritten(r) == {f \in request[r].files : disk.file[f] # r}

Write(r, f) ==
    /\ At(r, "write") /\ f \in Unwritten(r)
    /\ disk' = [disk EXCEPT !.file[f] = r,
                            !.acme = IF f = "acme" THEN Rewrapped(r) ELSE @]
    /\ UNCHANGED <<db, tx, row, proc, request, pc, finally, applied>>

Written(r) ==
    /\ At(r, "write") /\ Unwritten(r) = {}
    /\ To(r, "secrets")
    /\ UNCHANGED <<db, tx, row, disk, proc, request, finally, applied>>

(* adopt_archive_keys *)
Adopt(r) ==
    /\ "application_secrets" \in Cats(r)
    /\ Cats(r) \cap FernetBacked = {} \/ request[r].enc = proc.enc

SecretsUnrotated(r) ==     \* fault: the users keep their session versions
    /\ At(r, "secrets")
    /\ Unlocked
    /\ row' = "running"
    /\ To(r, IF Adopt(r) THEN "persist" ELSE "complete")
    /\ UNCHANGED <<db, tx, disk, proc, request, finally, applied>>

(* Users that were not restored get fresh session versions, in a commit of *)
(* its own, before the archive's SECRET_KEY is written.                    *)
Secrets(r) ==
    /\ At(r, "secrets")
    /\ Unlocked
    /\ row' = IF "application_secrets" \in Cats(r) THEN "running" ELSE row
    /\ db' = IF Adopt(r) /\ "users" \notin Cats(r) THEN [db EXCEPT !.fresh = TRUE] ELSE db
    /\ To(r, IF Adopt(r) THEN "persist" ELSE "complete")
    /\ UNCHANGED <<tx, disk, proc, request, finally, applied>>

(* write_application_secrets, read when the process starts again. *)
Persist(r) ==
    /\ At(r, "persist")
    /\ disk' = [disk EXCEPT !.secret = r, !.enc = request[r].enc]
    /\ To(r, "complete")
    /\ UNCHANGED <<db, tx, row, proc, request, finally, applied>>
-----------------------------------------------------------------------------
(* The end of the worker *)

Restarts(r) == Adopt(r) \/ Cats(r) \cap {"ssl_files", "settings"} # {}

Complete(r) ==
    /\ At(r, "complete")
    /\ Unlocked
    /\ row' = "complete"
    /\ To(r, IF Restarts(r) THEN "restart" ELSE "end")
    /\ UNCHANGED <<db, tx, disk, proc, request, finally, applied>>

(* perform_application_restart in a thread: SIGTERM at once. *)
Restart(r) ==
    /\ At(r, "restart")
    /\ proc' = [proc EXCEPT !.stopping = TRUE]
    /\ To(r, "end")
    /\ UNCHANGED <<db, tx, row, disk, request, finally, applied>>

(* An exception anywhere in the work: the transaction is rolled back, what *)
(* was committed or written before it stays.                               *)
Fail(r) ==
    /\ pc[r] \in {"start", "wipe", "fill", "commit", "files", "write", "secrets", "persist",
                  "complete"}
    /\ tx' = IF tx # None /\ tx.by = r THEN None ELSE tx
    /\ To(r, "failed")
    /\ UNCHANGED <<db, row, disk, proc, request, finally, applied>>

ReportFailure(r) ==
    /\ At(r, "failed")
    /\ \/ Unlocked /\ row' = "error"
       \/ UNCHANGED row              \* the report fails too
    /\ To(r, "end")
    /\ UNCHANGED <<db, tx, disk, proc, request, finally, applied>>

FinishNothing(r) ==     \* fault: the task ends without looking at the row
    /\ r \in finally
    /\ At(r, "end") \/ proc.stopping
    /\ finally' = finally \ {r}
    /\ UNCHANGED <<db, tx, row, disk, proc, request, pc, applied>>

(* mark_restore_worker_finished, when the thread has ended or the loop     *)
(* that stops cancels the task: a row that says running is taken for its   *)
(* own.                                                                    *)
Finish(r) ==
    /\ r \in finally
    /\ At(r, "end") \/ proc.stopping
    /\ Unlocked
    /\ row' = IF row = "running" THEN "error" ELSE row
    /\ finally' = finally \ {r}
    /\ UNCHANGED <<db, tx, disk, proc, request, pc, applied>>
-----------------------------------------------------------------------------
(* The process, and the administrators *)

(* The process dies, or ends when it was told to. *)
Stop ==
    /\ proc.up
    /\ proc' = [proc EXCEPT !.up = FALSE, !.stopping = FALSE]
    /\ tx' = None
    /\ pc' = [r \in Restores |-> IF request[r] = None THEN "idle" ELSE "end"]
    /\ finally' = {}
    /\ UNCHANGED <<db, row, disk, request, applied>>

(* bootstrap refuses to start without the certificate that the settings    *)
(* ask for, or when it cannot read them.                                   *)
CanStart ==
    /\ db.enc["settings"] = disk.enc
    /\ db.ssl => disk.file["key"] # None /\ disk.file["cert"] # None

BootDropsRow ==     \* fault: a row that is gone is not read as "idle"
    /\ ~proc.up /\ CanStart
    /\ proc' = [up |-> TRUE, stopping |-> FALSE, enc |-> disk.enc]
    /\ row' = IF row = "running" THEN None ELSE row
    /\ UNCHANGED <<db, tx, disk, request, pc, finally, applied>>

(* bootstrap, then clear_stale_restore_progress. *)
Boot ==
    /\ ~proc.up /\ CanStart
    /\ proc' = [up |-> TRUE, stopping |-> FALSE, enc |-> disk.enc]
    /\ row' = IF row = "running" THEN "idle" ELSE row
    /\ UNCHANGED <<db, tx, disk, request, pc, finally, applied>>

(* zones_create gives the row the id after the largest one; zones_delete   *)
(* removes the links with the row.                                         *)
CreateZone(name) ==
    LET used == {id \in ZoneIds : db.zones[id] # None} IN
    /\ proc.up /\ Unlocked
    /\ \A id \in used : db.zones[id] # name
    /\ \E id \in ZoneIds :
        /\ \A u \in used : u < id
        /\ id = 1 \/ id - 1 \in used
        /\ db' = [db EXCEPT !.zones[id] = name]
    /\ UNCHANGED <<tx, row, disk, proc, request, pc, finally, applied>>

DeleteZone(id) ==
    /\ proc.up /\ Unlocked
    /\ db.zones[id] # None
    /\ db' = [db EXCEPT !.zones[id] = None, !.links = {l \in @ : l[2] # id}]
    /\ UNCHANGED <<tx, row, disk, proc, request, pc, finally, applied>>
-----------------------------------------------------------------------------
Work(r) ==
    \/ Start(r) \/ Wipe(r) \/ Commit(r) \/ SslFiles(r) \/ Unlink(r)
    \/ \E c \in Categories : Fill(r, c)
    \/ \E f \in Files : Write(r, f)
    \/ Written(r) \/ Secrets(r) \/ Persist(r) \/ Complete(r) \/ Restart(r)
    \/ Fail(r) \/ ReportFailure(r)

Next ==
    \/ \E r \in Restores : Work(r) \/ Finish(r) \/ \E q \in Requested : Begin(r, q)
    \/ \E name \in ZoneNames : CreateZone(name)
    \/ \E id \in ZoneIds : DeleteZone(id)
    \/ Stop \/ Boot

Spec == Init /\ [][Next]_vars

(* A worker thread that can go on does, the event loop runs the finally of *)
(* its task, a process told to stop stops, and the container restarts it.  *)
FairSpec ==
    /\ Spec
    /\ \A r \in Restores : WF_vars(Work(r)) /\ WF_vars(Finish(r))
    /\ WF_vars(proc.stopping /\ Stop) /\ WF_vars(Boot)
-----------------------------------------------------------------------------
(* Properties *)

Grant(k) == IF k = Live THEN LiveGrant ELSE ArchiveGrant

(* Row ids are given again once their rows are gone: after any restore, a  *)
(* restriction of an API key still points to a zone of a name that the key *)
(* was granted (restore_payload drops the links with either table).        *)
KeysReachGrantedZones ==
    \A l \in db.links : l[1] = db.origin["api_keys"] /\ db.zones[l[2]] \in Grant(l[1])

(* Whatever part of a restore was done when it failed or the process died, *)
(* the process and its successor can decrypt what is stored.               *)
StoredDecrypts ==
    /\ \A c \in DOMAIN db.enc : db.enc[c] = disk.enc
    /\ disk.file["acme"] # None => disk.acme = disk.enc
    /\ proc.enc = disk.enc

(* Once the next process will sign with an archive's SECRET_KEY, no user   *)
(* has a session version that a cookie of the archive's source carries.    *)
NoReplayedSessions == disk.secret \in Restores => db.fresh

(* Tables and files change as RestoreAtomic says: all selected categories  *)
(* of a restore in one step, its files, its secrets and its success only   *)
(* after that; whichever step fails or is the last one of the process.     *)
Atomic == INSTANCE RestoreAtomic WITH
    origin <- db.origin,
    asked <- [r \in Restores |-> TablesOf(r)],
    placed <- {r \in Restores : disk.secret = r \/ \E f \in Files : disk.file[f] = r},
    shown <- IF row = "complete" THEN "success" ELSE "nothing"
ImplementsAtomic == Atomic!Spec

(* A restore that was begun does not close the gate for good, through      *)
(* failures and restarts, unless the process cannot start again.           *)
GateReopens == row = "running" ~> row # "running" \/ (~proc.up /\ ~CanStart)

(* Not an invariant: the finally of a restore that ended may take the row  *)
(* of the next one for its own, and a third may then begin.                *)
OneRestore == Cardinality({r \in Restores : pc[r] \notin {"idle", "end"}}) <= 1

(* Not an invariant: the settings of an archive may ask for a certificate  *)
(* that was not restored, or whose files were removed and not yet written. *)
Bootable == ~proc.up => CanStart
==============================================================================
