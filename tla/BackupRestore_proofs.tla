------------------------ MODULE BackupRestore_proofs ------------------------
(***************************************************************************)
(* Proofs about BackupRestore, for every number of restores, every set of  *)
(* requests and every numbering of the zones: the tables of a restore and  *)
(* what comes after them implement RestoreAtomic; what is stored can be    *)
(* decrypted; no session of an archive can be replayed; every restriction  *)
(* of an API key points to a zone of a granted name; and restores that     *)
(* leave SSL alone leave a state the process can start from.               *)
(*                                                                         *)
(* All rest on Types, the shape of the state, which holds only together    *)
(* with Control: whose transaction is open, and that a worker that does    *)
(* anything was asked for something.                                       *)
(***************************************************************************)
EXTENDS BackupRestore, TLAPS

InTx == {"fill", "commit"}

Control ==
    /\ \A r \in Restores : request[r] = None => pc[r] = "idle" /\ r \notin applied
    /\ \A r \in Restores : pc[r] \in InTx => tx # None /\ tx.by = r
    /\ tx # None => pc[tx.by] \in InTx

Types == TypeOK /\ Control

DiskRow == [file: [Files -> Origins \cup {None}], acme: EncryptionKeys,
            secret: Origins, enc: EncryptionKeys]

LEMMA ZonesNumbered ==
  ASSUME NEW names \in Seq(ZoneNames)
  PROVE  Numbered(names) \in [ZoneIds -> ZoneNames \cup {None}]
BY RestoreAssumption DEF Numbered, ZoneIds

LEMMA EmptyNumbered == Numbered(<<>>) \in [ZoneIds -> ZoneNames \cup {None}]
<1>1. <<>> \in Seq(ZoneNames)
  OBVIOUS
<1>2. QED
  BY <1>1, ZonesNumbered

(* Whoever works was asked for something. *)
LEMMA Asked ==
  ASSUME Types, NEW r \in Restores, pc[r] # "idle"
  PROVE  /\ request[r] \in Requests
         /\ TablesOf(r) \subseteq Categories
         /\ Rewrapped(r) \in EncryptionKeys
  BY DEF Types, TypeOK, Control, TablesOf, Cats, Rewrapped, Requests

LEMMA WipedTypes ==
  ASSUME NEW t \in Tables, NEW r \in Restores
  PROVE  Wiped(r, t) \in Tables
<1> DEFINE origin == [c \in Categories |-> IF c \in Cats(r) THEN None ELSE t.origin[c]]
           links == IF Cats(r) \cap {"api_keys", "zones"} # {} THEN {} ELSE t.links
           zones == IF "zones" \in Cats(r) THEN Numbered(<<>>) ELSE t.zones
           ssl == t.ssl /\ "settings" \notin Cats(r)
<1>1. /\ origin \in [Categories -> Origins \cup {None}]
      /\ links \in SUBSET (Origins \X ZoneIds)
      /\ zones \in [ZoneIds -> ZoneNames \cup {None}]
      /\ ssl \in BOOLEAN
  BY EmptyNumbered DEF Tables
<1>2. Wiped(r, t) = [t EXCEPT !.origin = origin, !.links = links, !.zones = zones, !.ssl = ssl]
  BY DEF Wiped
<1> HIDE DEF origin, links, zones, ssl
<1>3. QED
  BY <1>1, <1>2 DEF Tables

LEMMA FilledTypes ==
  ASSUME NEW t \in Tables, NEW r \in Restores, NEW c \in Categories,
         request[r] \in Requests, Rewrapped(r) \in EncryptionKeys
  PROVE  Filled(r, c, t) \in Tables
<1> DEFINE owned == [t EXCEPT !.origin[c] = r]
<1>1. owned \in Tables
  <2> DEFINE origin == [t.origin EXCEPT ![c] = r]
  <2>1. origin \in [Categories -> Origins \cup {None}]
    BY DEF Tables, Origins
  <2>2. owned = [t EXCEPT !.origin = origin]
    OBVIOUS
  <2> HIDE DEF origin
  <2>3. QED
    BY <2>1, <2>2 DEF Tables
<1>2. owned.links = t.links
  BY DEF Tables
<1> HIDE DEF owned
<1>3. CASE c = "settings"
  <2> DEFINE enc == [owned.enc EXCEPT !["settings"] = Rewrapped(r)]
  <2>1. enc \in [{"settings", "zones"} -> EncryptionKeys]
    BY <1>1 DEF Tables
  <2>2. Filled(r, c, t) = [owned EXCEPT !.enc = enc, !.ssl = request[r].ssl]
    BY <1>3 DEF Filled, owned
  <2>3. request[r].ssl \in BOOLEAN
    BY DEF Requests
  <2> HIDE DEF enc
  <2>4. QED
    BY <1>1, <2>1, <2>2, <2>3 DEF Tables
<1>4. CASE c = "users"
  <2>1. Filled(r, c, t) = [owned EXCEPT !.fresh = TRUE]
    BY <1>4 DEF Filled, owned
  <2>2. QED
    BY <1>1, <2>1 DEF Tables
<1>5. CASE c = "zones"
  <2> DEFINE enc == [owned.enc EXCEPT !["zones"] = Rewrapped(r)]
             zones == Numbered(ArchiveZones)
  <2>1. enc \in [{"settings", "zones"} -> EncryptionKeys]
    BY <1>1 DEF Tables
  <2>2. Filled(r, c, t) = [owned EXCEPT !.enc = enc, !.zones = zones]
    BY <1>5 DEF Filled, owned
  <2>3. zones \in [ZoneIds -> ZoneNames \cup {None}]
    BY ZonesNumbered, RestoreAssumption
  <2> HIDE DEF enc, zones
  <2>4. QED
    BY <1>1, <2>1, <2>2, <2>3 DEF Tables
<1>6. CASE c = "api_keys"
  <2> DEFINE links == owned.links \cup Linked(r, t.zones, ArchiveGrant)
  <2>1. links \in SUBSET (Origins \X ZoneIds)
    BY <1>1 DEF Tables, Linked, Origins
  <2>2. Filled(r, c, t) = [owned EXCEPT !.links = links]
    BY <1>6 DEF Filled, owned
  <2> HIDE DEF links
  <2>3. QED
    BY <1>1, <2>1, <2>2 DEF Tables
<1>7. CASE c \notin {"settings", "users", "zones", "api_keys"}
  BY <1>1, <1>7 DEF Filled, owned
<1>8. QED
  BY <1>3, <1>4, <1>5, <1>6, <1>7
-----------------------------------------------------------------------------
(* Control: each step moves its own worker, and takes or gives back only   *)
(* its own transaction.                                                    *)

LEMMA InitTypes == Init => Types
<1> SUFFICES ASSUME Init PROVE Types
  OBVIOUS
<1>1. \A r \in Restores : request[r] = None /\ pc[r] = "idle"
  BY DEF Init
<1>2. Control
  BY <1>1 DEF Init, Control, InTx
<1>3. PICK ssl \in BOOLEAN, have \in {{}, Files} :
        /\ db = [origin |-> [c \in Categories |-> Live],
                 zones |-> Numbered(LiveZones),
                 links |-> Linked(Live, Numbered(LiveZones), LiveGrant),
                 enc |-> [c \in {"settings", "zones"} |-> "own"],
                 ssl |-> ssl, fresh |-> FALSE]
        /\ disk = [file |-> [f \in Files |-> IF f \in have THEN Live ELSE None],
                   acme |-> "own", secret |-> Live, enc |-> "own"]
  BY DEF Init
<1>4. Linked(Live, Numbered(LiveZones), LiveGrant) \in SUBSET (Origins \X ZoneIds)
  BY DEF Linked, Origins
<1>5. db \in Tables
  BY <1>3, <1>4, ZonesNumbered, RestoreAssumption DEF Tables, Origins, EncryptionKeys
<1>6. disk \in DiskRow
  BY <1>3 DEF DiskRow, Origins, EncryptionKeys
<1>7. QED
  BY <1>2, <1>5, <1>6 DEF Init, Types, TypeOK, DiskRow, EncryptionKeys, Steps

(* A step of r outside its transaction leaves the transaction of another.  *)
LEMMA OutsideControl ==
  ASSUME Types, NEW r \in Restores, NEW step \in Steps \ InTx, To(r, step),
         pc[r] \notin InTx, pc[r] # "idle", UNCHANGED <<tx, request, applied>>
  PROVE  Control'
<1>1. \A s \in Restores \ {r} : pc'[s] = pc[s]
  BY DEF To, Types, TypeOK
<1>2. pc'[r] = step
  BY DEF To, Types, TypeOK
<1>3. request[r] # None
  BY DEF Types, Control
<1>4. tx # None => tx.by \in Restores \ {r}
  BY DEF Types, TypeOK, Control, Transactions
<1>5. QED
  BY <1>1, <1>2, <1>3, <1>4 DEF Types, Control

(* The worker that has the transaction ends it, or goes on in it. *)
LEMMA InsideControl ==
  ASSUME Types, NEW r \in Restores, NEW step \in Steps, To(r, step),
         pc[r] # "idle", tx = None \/ tx.by = r,
         IF step \in InTx THEN tx' # None /\ tx'.by = r ELSE tx' = None,
         UNCHANGED request, applied' \subseteq applied \cup {r}
  PROVE  Control'
<1>1. /\ \A s \in Restores \ {r} : pc'[s] = pc[s]
      /\ pc'[r] = step
  BY DEF To, Types, TypeOK
<1>2. request[r] # None
  BY DEF Types, Control
<1>3. \A s \in Restores \ {r} : pc[s] \notin InTx
  BY DEF Types, Control
<1>4. QED
  BY <1>1, <1>2, <1>3 DEF Types, Control

LEMMA StepControl ==
  ASSUME Types, [Next]_vars
  PROVE  Control'
<1>1. ASSUME NEW r \in Restores, NEW q \in Requested, Begin(r, q) PROVE Control'
  <2>1. q # None
    BY RestoreAssumption
  <2>2. /\ request'[r] = q /\ pc'[r] = "start" /\ tx = None /\ UNCHANGED <<tx, applied>>
        /\ \A s \in Restores \ {r} : request'[s] = request[s] /\ pc'[s] = pc[s]
    BY <1>1 DEF Begin, To, Unlocked, Types, TypeOK
  <2>3. QED
    BY <2>1, <2>2 DEF Types, Control, InTx
<1>2. ASSUME NEW r \in Restores,
             \/ Start(r) \/ SslFiles(r) \/ Unlink(r) \/ Written(r) \/ Secrets(r)
             \/ Persist(r) \/ Complete(r) \/ Restart(r) \/ ReportFailure(r)
      PROVE  Control'
  <2>1. PICK step \in Steps : To(r, step) /\ step \notin InTx
    BY <1>2 DEF Start, SslFiles, Unlink, Written, Secrets, Persist, Complete, Restart,
                ReportFailure, Steps, InTx
  <2>2. /\ pc[r] \notin InTx /\ pc[r] # "idle"
        /\ UNCHANGED <<tx, request, applied>>
    BY <1>2 DEF Start, SslFiles, Unlink, Written, Secrets, Persist, Complete, Restart,
                ReportFailure, At, InTx
  <2>3. QED
    BY <2>1, <2>2, OutsideControl
<1>3. ASSUME NEW r \in Restores, Wipe(r) PROVE Control'
  <2>1. /\ tx = None /\ tx' = [by |-> r, left |-> TablesOf(r), db |-> Wiped(r, db)]
        /\ pc[r] = "wipe" /\ To(r, "fill") /\ UNCHANGED <<request, applied>>
    BY <1>3 DEF Wipe, At, Unlocked
  <2>2. tx' \in Transactions /\ tx'.by = r
    BY <2>1, Asked, WipedTypes DEF Transactions, Types, TypeOK
  <2>3. tx' # None /\ "fill" \in Steps \cap InTx
    BY <2>2, NoTransaction DEF Steps, InTx
  <2>4. QED
    BY <2>1, <2>2, <2>3, InsideControl
<1>4. ASSUME NEW r \in Restores, NEW c \in Categories, Fill(r, c) PROVE Control'
  <2>1. /\ tx' = [tx EXCEPT !.left = @ \ {c}, !.db = Filled(r, c, @)]
        /\ pc[r] = "fill" /\ UNCHANGED <<request, applied>>
    BY <1>4 DEF Fill, At
  <2>2. PICK step \in InTx : To(r, step)
    BY <1>4 DEF Fill, InTx
  <2>3. tx \in Transactions /\ tx # None /\ tx.by = r
    BY <2>1 DEF Types, TypeOK, Control, InTx
  <2>4. Filled(r, c, tx.db) \in Tables
    BY <2>1, <2>3, Asked, FilledTypes DEF Transactions
  <2>5. tx' \in Transactions /\ tx'.by = r
    BY <2>1, <2>3, <2>4 DEF Transactions
  <2>6. tx' # None /\ step \in Steps
    BY <2>5, NoTransaction DEF Steps, InTx
  <2>7. QED
    BY <2>1, <2>2, <2>3, <2>5, <2>6, InsideControl
<1>5. ASSUME NEW r \in Restores, Commit(r) PROVE Control'
  <2>1. tx' = None /\ tx.by = r /\ "files" \in Steps \ InTx
    BY <1>5 DEF Commit, At, Types, Control, Steps, InTx
  <2>2. QED
    BY <1>5, <2>1, InsideControl DEF Commit, At
<1>6. ASSUME NEW r \in Restores, Fail(r) PROVE Control'
  <2>1. "failed" \in Steps \ InTx /\ pc[r] # "idle"
    BY <1>6 DEF Fail, Steps, InTx
  <2>2. CASE tx # None /\ tx.by = r
    BY <1>6, <2>1, <2>2, InsideControl DEF Fail
  <2>3. CASE tx = None \/ tx.by # r
    <3>1. pc[r] \notin InTx /\ UNCHANGED tx
      BY <1>6, <2>3 DEF Fail, Types, Control
    <3>2. QED
      BY <1>6, <2>1, <3>1, OutsideControl DEF Fail
  <2>4. QED
    BY <2>2, <2>3
<1>7. CASE Stop
  BY <1>7 DEF Stop, Types, Control, InTx
<1>8. CASE UNCHANGED <<tx, request, pc, applied>>
  BY <1>8 DEF Types, Control
<1>9. ASSUME NEW r \in Restores, Work(r) PROVE Control'
  BY <1>2, <1>3, <1>4, <1>5, <1>6, <1>8, <1>9 DEF Work, Write
<1>10. ASSUME NEW r \in Restores, Finish(r) PROVE UNCHANGED <<tx, request, pc, applied>>
  BY <1>10 DEF Finish
<1>11. QED
  BY <1>1, <1>7, <1>8, <1>9, <1>10 DEF Next, vars, CreateZone, DeleteZone, Boot
-----------------------------------------------------------------------------
(* A worker that goes on keeps the shape of the rest. *)
LEMMA ToTypes ==
  ASSUME TypeOK, NEW r \in Restores, NEW step \in Steps, To(r, step)
  PROVE  pc' \in [Restores -> Steps]
BY DEF TypeOK, To

LEMMA WorkTypes ==
  ASSUME Types, NEW r \in Restores, Work(r)
  PROVE  TypeOK'
<1> USE DEF Types
<1>0. \E step \in Steps : pc' = [pc EXCEPT ![r] = step] \/ pc' = pc
  BY DEF Work, To, Start, Wipe, Commit, SslFiles, Unlink, Fill, Write, Written, Secrets, Persist,
         Complete, Restart, Fail, ReportFailure, Steps
<1>1. pc' \in [Restores -> Steps]
  BY <1>0 DEF TypeOK
<1>2. /\ UNCHANGED request /\ finally' \subseteq Restores /\ applied' \subseteq Restores
      /\ row' \in {"idle", "running", "complete", "error"}
  BY DEF Work, Start, Wipe, Commit, SslFiles, Unlink, Fill, Write, Written, Secrets, Persist,
         Complete, Restart, Fail, ReportFailure, Report, TypeOK
<1>3. proc' \in [up: BOOLEAN, stopping: BOOLEAN, enc: EncryptionKeys]
  <2>1. CASE UNCHANGED proc
    BY <2>1 DEF TypeOK
  <2>2. CASE Restart(r)
    BY <2>2 DEF Restart, TypeOK
  <2>3. QED
    BY <2>1, <2>2 DEF Work, Start, Wipe, Commit, SslFiles, Unlink, Fill, Write, Written, Secrets,
                      Persist, Complete, Fail, ReportFailure
<1>4. disk' \in DiskRow
  <2>1. CASE UNCHANGED disk
    BY <2>1 DEF TypeOK, DiskRow
  <2>2. CASE Unlink(r)
    <3>1. PICK kept \in SUBSET Files :
            disk' = [disk EXCEPT !.file = [f \in Files |-> IF f \in kept THEN @[f] ELSE None]]
      BY <2>2 DEF Unlink
    <3>2. QED
      BY <3>1 DEF TypeOK, DiskRow
  <2>3. ASSUME NEW f \in Files, Write(r, f) PROVE disk' \in DiskRow
    <3> DEFINE file == [disk.file EXCEPT ![f] = r]
               acme == IF f = "acme" THEN Rewrapped(r) ELSE disk.acme
    <3>1. disk' = [disk EXCEPT !.file = file, !.acme = acme]
      BY <2>3 DEF Write, TypeOK
    <3>2. file \in [Files -> Origins \cup {None}] /\ acme \in EncryptionKeys
      BY <2>3, Asked DEF Write, At, TypeOK, Origins
    <3> HIDE DEF file, acme
    <3>3. QED
      BY <3>1, <3>2 DEF TypeOK, DiskRow
  <2>4. CASE Persist(r)
    <3>1. request[r].enc \in EncryptionKeys
      BY <2>4, Asked DEF Persist, At, Requests
    <3>2. QED
      BY <2>4, <3>1 DEF Persist, TypeOK, DiskRow, Origins
  <2>5. QED
    BY <2>1, <2>2, <2>3, <2>4 DEF Work, Start, Wipe, Commit, SslFiles, Fill, Written, Secrets,
                                  Complete, Restart, Fail, ReportFailure
<1>5. tx' \in {None} \cup Transactions
  <2>1. CASE tx' \in {None, tx}
    BY <2>1 DEF TypeOK
  <2>2. CASE Wipe(r)
    <3>1. Wiped(r, db) \in Tables /\ TablesOf(r) \subseteq Categories
      BY <2>2, Asked, WipedTypes DEF Wipe, At, TypeOK
    <3>2. QED
      BY <2>2, <3>1 DEF Wipe, Transactions
  <2>3. ASSUME NEW c \in Categories, Fill(r, c) PROVE tx' \in Transactions
    <3>1. tx' = [tx EXCEPT !.left = @ \ {c}, !.db = Filled(r, c, @)] /\ pc[r] = "fill"
      BY <2>3 DEF Fill, At
    <3>2. tx \in Transactions
      BY <3>1 DEF TypeOK, Control, InTx
    <3>3. Filled(r, c, tx.db) \in Tables
      BY <3>1, <3>2, Asked, FilledTypes DEF Transactions
    <3>4. QED
      BY <3>1, <3>2, <3>3 DEF Transactions
  <2>4. QED
    BY <2>1, <2>2, <2>3 DEF Work, Start, Commit, SslFiles, Unlink, Write, Written, Secrets, Persist,
                            Complete, Restart, Fail, ReportFailure
<1>6. db' \in Tables
  <2>1. CASE UNCHANGED db
    BY <2>1 DEF TypeOK
  <2>2. CASE Commit(r)
    <3>1. tx \in Transactions
      BY <2>2 DEF Commit, At, TypeOK, Control, InTx
    <3>2. QED
      BY <2>2, <3>1 DEF Commit, Transactions
  <2>3. CASE db' = [db EXCEPT !.fresh = TRUE]
    BY <2>3 DEF TypeOK, Tables
  <2>4. QED
    BY <2>1, <2>2, <2>3 DEF Work, Start, Wipe, SslFiles, Unlink, Fill, Write, Written, Secrets,
                            Persist, Complete, Restart, Fail, ReportFailure
<1>7. QED
  BY <1>1, <1>2, <1>3, <1>4, <1>5, <1>6 DEF TypeOK, DiskRow

LEMMA StepTypes ==
  ASSUME Types, [Next]_vars
  PROVE  TypeOK'
<1>1. ASSUME NEW r \in Restores, NEW q \in Requested, Begin(r, q) PROVE TypeOK'
  <2>1. q \in Requests /\ "start" \in Steps
    BY RestoreAssumption DEF Steps
  <2>2. QED
    BY <1>1, <2>1, ToTypes DEF Begin, Types, TypeOK
<1>2. ASSUME NEW r \in Restores, Finish(r) PROVE TypeOK'
  BY <1>2 DEF Finish, Types, TypeOK
<1>3. ASSUME NEW name \in ZoneNames, CreateZone(name) PROVE TypeOK'
  <2>1. PICK id \in ZoneIds : db' = [db EXCEPT !.zones[id] = name]
    BY <1>3 DEF CreateZone
  <2> DEFINE zones == [db.zones EXCEPT ![id] = name]
  <2>2. db' = [db EXCEPT !.zones = zones] /\ zones \in [ZoneIds -> ZoneNames \cup {None}]
    BY <2>1 DEF Types, TypeOK, Tables
  <2> HIDE DEF zones
  <2>3. db' \in Tables
    BY <2>2 DEF Types, TypeOK, Tables
  <2>4. QED
    BY <1>3, <2>3 DEF CreateZone, Types, TypeOK
<1>4. ASSUME NEW id \in ZoneIds, DeleteZone(id) PROVE TypeOK'
  <2> DEFINE zones == [db.zones EXCEPT ![id] = None]
             links == {l \in db.links : l[2] # id}
  <2>1. /\ zones \in [ZoneIds -> ZoneNames \cup {None}]
        /\ links \in SUBSET (Origins \X ZoneIds)
    BY DEF Types, TypeOK, Tables
  <2>2. db' = [db EXCEPT !.zones = zones, !.links = links]
    BY <1>4 DEF DeleteZone
  <2> HIDE DEF zones, links
  <2>3. db' \in Tables
    BY <2>1, <2>2 DEF Types, TypeOK, Tables
  <2>4. QED
    BY <1>4, <2>3 DEF DeleteZone, Types, TypeOK
<1>5. CASE Stop
  <2>1. pc' \in [Restores -> Steps] /\ tx' = None /\ finally' = {}
    BY <1>5 DEF Stop, Steps
  <2>2. proc' \in [up: BOOLEAN, stopping: BOOLEAN, enc: EncryptionKeys]
    BY <1>5 DEF Stop, Types, TypeOK
  <2>3. QED
    BY <1>5, <2>1, <2>2 DEF Stop, Types, TypeOK
<1>6. CASE Boot
  BY <1>6 DEF Boot, Types, TypeOK
<1>7. CASE UNCHANGED vars
  BY <1>7 DEF vars, Types, TypeOK
<1>8. QED
  BY <1>1, <1>2, <1>3, <1>4, <1>5, <1>6, <1>7, WorkTypes DEF Next

LEMMA TypesInvariant == Spec => []Types
<1>1. Types /\ [Next]_vars => Types'
  BY StepTypes, StepControl DEF Types
<1>2. QED
  BY InitTypes, <1>1, PTL DEF Spec

(* Every step keeps the rows, the transaction, the files, the secrets and  *)
(* the steps of the workers what they are meant to be.                     *)
THEOREM RestoreTypes == Spec => []TypeOK
<1>1. Types => TypeOK
  BY DEF Types
<1>2. QED
  BY <1>1, TypesInvariant, PTL
-----------------------------------------------------------------------------
(* What a restore does to the tables, field by field *)

(* u is t after the deletion, or with the rows of category c written. *)
WipedAs(r, t, u) ==
    /\ u.enc = t.enc
    /\ u.fresh = t.fresh
    /\ u.origin = [c \in Categories |-> IF c \in Cats(r) THEN None ELSE t.origin[c]]
    /\ u.links = IF Cats(r) \cap {"api_keys", "zones"} # {} THEN {} ELSE t.links
    /\ u.zones = IF "zones" \in Cats(r) THEN Numbered(<<>>) ELSE t.zones

FilledAs(r, c, t, u) ==
    /\ u.enc = IF c \in {"settings", "zones"} THEN [t.enc EXCEPT ![c] = Rewrapped(r)] ELSE t.enc
    /\ u.fresh = IF c = "users" THEN TRUE ELSE t.fresh
    /\ u.origin = [t.origin EXCEPT ![c] = r]
    /\ u.links = IF c = "api_keys" THEN t.links \cup Linked(r, t.zones, ArchiveGrant) ELSE t.links
    /\ u.zones = IF c = "zones" THEN Numbered(ArchiveZones) ELSE t.zones

LEMMA WipedFields ==
  ASSUME NEW t \in Tables, NEW r \in Restores
  PROVE  WipedAs(r, t, Wiped(r, t))
<1> DEFINE origin == [c \in Categories |-> IF c \in Cats(r) THEN None ELSE t.origin[c]]
           links == IF Cats(r) \cap {"api_keys", "zones"} # {} THEN {} ELSE t.links
           zones == IF "zones" \in Cats(r) THEN Numbered(<<>>) ELSE t.zones
           ssl == t.ssl /\ "settings" \notin Cats(r)
<1>1. Wiped(r, t) = [t EXCEPT !.origin = origin, !.links = links, !.zones = zones, !.ssl = ssl]
  BY DEF Wiped
<1> SUFFICES /\ Wiped(r, t).enc = t.enc
             /\ Wiped(r, t).fresh = t.fresh
             /\ Wiped(r, t).origin = origin
             /\ Wiped(r, t).links = links
             /\ Wiped(r, t).zones = zones
  BY DEF WipedAs
<1> HIDE DEF origin, links, zones, ssl
<1>2. QED
  BY <1>1 DEF Tables

LEMMA FilledFields ==
  ASSUME NEW t \in Tables, NEW r \in Restores, NEW c \in Categories
  PROVE  FilledAs(r, c, t, Filled(r, c, t))
<1> DEFINE owned == [t EXCEPT !.origin[c] = r]
           origin == [t.origin EXCEPT ![c] = r]
<1>1. owned = [t EXCEPT !.origin = origin]
  OBVIOUS
<1> SUFFICES /\ Filled(r, c, t).enc = IF c \in {"settings", "zones"}
                                      THEN [t.enc EXCEPT ![c] = Rewrapped(r)] ELSE t.enc
             /\ Filled(r, c, t).fresh = IF c = "users" THEN TRUE ELSE t.fresh
             /\ Filled(r, c, t).origin = origin
             /\ Filled(r, c, t).links = IF c = "api_keys" THEN t.links \cup Linked(r, t.zones, ArchiveGrant)
                                        ELSE t.links
             /\ Filled(r, c, t).zones = IF c = "zones" THEN Numbered(ArchiveZones) ELSE t.zones
  BY DEF FilledAs
<1> HIDE DEF origin
<1>2. /\ owned.enc = t.enc /\ owned.fresh = t.fresh /\ owned.origin = origin
      /\ owned.links = t.links /\ owned.zones = t.zones
      /\ \E base : owned = [t EXCEPT !.origin = base]
  BY <1>1 DEF Tables
<1> HIDE DEF owned
<1>3. CASE c = "settings"
  <2> DEFINE enc == [owned.enc EXCEPT !["settings"] = Rewrapped(r)]
             ssl == request[r].ssl
  <2>1. Filled(r, c, t) = [owned EXCEPT !.enc = enc, !.ssl = ssl]
    BY <1>3 DEF Filled, owned
  <2>2. enc = [t.enc EXCEPT ![c] = Rewrapped(r)]
    BY <1>2, <1>3
  <2> HIDE DEF enc, ssl
  <2>3. QED
    BY <1>2, <1>3, <2>1, <2>2 DEF Tables
<1>4. CASE c = "users"
  <2>1. Filled(r, c, t) = [owned EXCEPT !.fresh = TRUE]
    BY <1>4 DEF Filled, owned
  <2>2. QED
    BY <1>2, <1>4, <2>1 DEF Tables
<1>5. CASE c = "zones"
  <2> DEFINE enc == [owned.enc EXCEPT !["zones"] = Rewrapped(r)]
             zones == Numbered(ArchiveZones)
  <2>1. Filled(r, c, t) = [owned EXCEPT !.enc = enc, !.zones = zones]
    BY <1>5 DEF Filled, owned
  <2>2. enc = [t.enc EXCEPT ![c] = Rewrapped(r)]
    BY <1>2, <1>5
  <2> SUFFICES /\ Filled(r, c, t).enc = enc /\ Filled(r, c, t).fresh = t.fresh
               /\ Filled(r, c, t).origin = origin
               /\ Filled(r, c, t).links = t.links /\ Filled(r, c, t).zones = zones
    BY <1>5, <2>2 DEF Tables
  <2> HIDE DEF enc, zones
  <2>3. QED
    BY <1>2, <2>1 DEF Tables
<1>6. CASE c = "api_keys"
  <2> DEFINE links == owned.links \cup Linked(r, t.zones, ArchiveGrant)
  <2>1. Filled(r, c, t) = [owned EXCEPT !.links = links]
    BY <1>6 DEF Filled, owned
  <2>2. links = t.links \cup Linked(r, t.zones, ArchiveGrant)
    BY <1>2
  <2> HIDE DEF links
  <2>3. QED
    BY <1>2, <1>6, <2>1, <2>2 DEF Tables
<1>7. CASE c \notin {"settings", "users", "zones", "api_keys"}
  <2>1. Filled(r, c, t) = owned
    BY <1>7 DEF Filled, owned
  <2>2. QED
    BY <1>2, <1>7, <2>1 DEF Tables
<1>8. QED
  BY <1>3, <1>4, <1>5, <1>6, <1>7
-----------------------------------------------------------------------------
(* The ways in which tables change, the committed ones and those of the    *)
(* open transaction.                                                       *)
Opens(r) ==
    /\ tx = None /\ db' = db /\ pc[r] = "wipe" /\ request[r] \in Requests
    /\ tx' \in Transactions /\ tx'.by = r
    /\ tx'.left = TablesOf(r) /\ tx'.db = Wiped(r, db)

Fills(r, c) ==
    /\ tx \in Transactions /\ tx # None /\ tx.by = r
    /\ c \in tx.left /\ \A d \in tx.left : Rank[c] <= Rank[d]
    /\ db' = db /\ request[r] \in Requests
    /\ tx' \in Transactions /\ tx'.by = r
    /\ tx'.left = tx.left \ {c} /\ tx'.db = Filled(r, c, tx.db)

Commits(r) ==
    /\ tx \in Transactions /\ tx # None /\ tx.by = r /\ pc[r] = "commit"
    /\ tx' = None /\ db' = tx.db

Rotates == tx = None /\ tx' = None /\ db' = [db EXCEPT !.fresh = TRUE]

TableStep ==
    \/ db' = db /\ tx' \in {tx, None}
    \/ \E r \in Restores : Opens(r) \/ Commits(r)
    \/ \E r \in Restores, c \in Categories : Fills(r, c)
    \/ Rotates
    \/ \E name \in ZoneNames : CreateZone(name)
    \/ \E id \in ZoneIds : DeleteZone(id)

LEMMA WipeOpens ==
  ASSUME Types, NEW r \in Restores, Wipe(r)
  PROVE  Opens(r)
<1>1. Wiped(r, db) \in Tables /\ TablesOf(r) \subseteq Categories /\ request[r] \in Requests
  BY Asked, WipedTypes DEF Wipe, At, Types, TypeOK
<1>2. tx' = [by |-> r, left |-> TablesOf(r), db |-> Wiped(r, db)]
  BY DEF Wipe
<1>3. QED
  BY <1>1, <1>2 DEF Wipe, At, Unlocked, Opens, Transactions

LEMMA FillFills ==
  ASSUME Types, NEW r \in Restores, NEW c \in Categories, Fill(r, c)
  PROVE  Fills(r, c)
<1>1. /\ tx' = [tx EXCEPT !.left = @ \ {c}, !.db = Filled(r, c, @)]
      /\ pc[r] = "fill" /\ db' = db
      /\ c \in tx.left /\ \A d \in tx.left : Rank[c] <= Rank[d]
  BY DEF Fill, At
<1>2. tx \in Transactions /\ tx # None /\ tx.by = r
  BY <1>1 DEF Types, TypeOK, Control, InTx
<1>3. Filled(r, c, tx.db) \in Tables /\ request[r] \in Requests
  BY <1>1, <1>2, Asked, FilledTypes DEF Transactions
<1>4. tx' \in Transactions /\ tx'.by = r /\ tx'.left = tx.left \ {c} /\ tx'.db = Filled(r, c, tx.db)
  BY <1>1, <1>2, <1>3 DEF Transactions
<1>5. QED
  BY <1>1, <1>2, <1>3, <1>4 DEF Fills

LEMMA TableSteps ==
  ASSUME Types, [Next]_vars
  PROVE  TableStep
<1>1. ASSUME NEW r \in Restores, Commit(r) PROVE Commits(r)
  BY <1>1 DEF Commit, At, Commits, Types, TypeOK, Control, InTx
<1>2. ASSUME NEW r \in Restores, Secrets(r) PROVE (db' = db /\ tx' = tx) \/ Rotates
  BY <1>2 DEF Secrets, Unlocked, Rotates
<1>3. ASSUME NEW r \in Restores,
             \/ Start(r) \/ SslFiles(r) \/ Unlink(r) \/ Written(r) \/ Persist(r) \/ Complete(r)
             \/ Restart(r) \/ Fail(r) \/ ReportFailure(r) \/ Finish(r)
             \/ \E q \in Requested : Begin(r, q)
             \/ \E f \in Files : Write(r, f)
      PROVE  db' = db /\ tx' \in {tx, None}
  BY <1>3 DEF Start, SslFiles, Unlink, Written, Persist, Complete, Restart, Fail, ReportFailure,
              Finish, Begin, Write
<1>4. CASE Stop \/ Boot \/ UNCHANGED vars
  BY <1>4 DEF Stop, Boot, vars, TableStep
<1>5. ASSUME NEW r \in Restores, Work(r) PROVE TableStep
  BY <1>1, <1>2, <1>3, <1>5, WipeOpens, FillFills DEF Work, TableStep
<1>6. QED
  BY <1>3, <1>4, <1>5 DEF Next, TableStep
-----------------------------------------------------------------------------
(* Everything that is stored, or will be, is encrypted with the key that   *)
(* this process and every later one reads.                                 *)
Decrypts(t) == \A c \in {"settings", "zones"} : t.enc[c] = "own"

OwnKey ==
    /\ proc.enc = "own" /\ disk.enc = "own" /\ disk.acme = "own"
    /\ Decrypts(db)
    /\ tx # None => Decrypts(tx.db)
    /\ \A r \in Restores : request[r] # None /\ Adopt(r) => request[r].enc = "own"
    /\ \A r \in Restores : pc[r] = "persist" => Adopt(r)

LEMMA OwnKeyInvariant == Spec => []OwnKey
<1>1. Init => OwnKey
  <2> SUFFICES ASSUME Init PROVE OwnKey
    OBVIOUS
  <2>1. Decrypts(db) /\ disk.enc = "own" /\ disk.acme = "own"
    BY DEF Init, Decrypts
  <2>2. QED
    BY <2>1 DEF Init, OwnKey
<1>2. Types /\ OwnKey /\ [Next]_vars => OwnKey'
  <2> SUFFICES ASSUME Types, OwnKey, [Next]_vars PROVE OwnKey'
    OBVIOUS
  <2>1. \A r \in Restores : Rewrapped(r) = "own"
    BY DEF Rewrapped, OwnKey
  <2>2. proc'.enc = "own"
    <3>1. CASE UNCHANGED proc
      BY <3>1 DEF OwnKey
    <3>2. CASE Boot
      BY <3>2 DEF Boot, OwnKey
    <3>3. CASE Stop
      BY <3>3 DEF Stop, OwnKey, Types, TypeOK
    <3>4. ASSUME NEW r \in Restores, Restart(r) PROVE proc'.enc = "own"
      BY <3>4 DEF Restart, OwnKey, Types, TypeOK
    <3>5. QED
      BY <3>1, <3>2, <3>3, <3>4
         DEF Next, vars, Work, Start, Wipe, Commit, SslFiles, Unlink, Fill, Write, Written, Secrets,
             Persist, Complete, Fail, ReportFailure, Finish, Begin, CreateZone, DeleteZone
  <2>3. disk'.enc = "own" /\ disk'.acme = "own"
    <3>1. CASE UNCHANGED disk
      BY <3>1 DEF OwnKey
    <3>2. ASSUME NEW r \in Restores, Unlink(r) PROVE disk'.enc = "own" /\ disk'.acme = "own"
      BY <3>2 DEF Unlink, OwnKey, Types, TypeOK
    <3>3. ASSUME NEW r \in Restores, NEW f \in Files, Write(r, f)
          PROVE  disk'.enc = "own" /\ disk'.acme = "own"
      BY <2>1, <3>3 DEF Write, OwnKey, Types, TypeOK
    <3>4. ASSUME NEW r \in Restores, Persist(r) PROVE disk'.enc = "own" /\ disk'.acme = "own"
      <4>1. request[r] # None /\ Adopt(r)
        BY <3>4 DEF Persist, At, OwnKey, Types, Control
      <4>2. request[r].enc = "own"
        BY <4>1 DEF OwnKey
      <4>3. QED
        BY <3>4, <4>2 DEF Persist, OwnKey, Types, TypeOK
    <3>5. QED
      BY <3>1, <3>2, <3>3, <3>4
         DEF Next, vars, Work, Start, Wipe, Commit, SslFiles, Fill, Written, Secrets,
             Complete, Restart, Fail, ReportFailure, Finish, Begin, CreateZone, DeleteZone, Stop, Boot
  <2>4. Decrypts(db') /\ (tx' # None => Decrypts(tx'.db))
    <3>1. CASE db' = db /\ tx' \in {tx, None}
      BY <3>1 DEF OwnKey
    <3>2. ASSUME NEW r \in Restores, Opens(r)
          PROVE  Decrypts(db') /\ (tx' # None => Decrypts(tx'.db))
      <4>1. WipedAs(r, db, tx'.db)
        BY <3>2, WipedFields DEF Opens, Types, TypeOK
      <4>2. QED
        BY <3>2, <4>1 DEF WipedAs, Opens, OwnKey, Decrypts
    <3>3. ASSUME NEW r \in Restores, Commits(r)
          PROVE  Decrypts(db') /\ (tx' # None => Decrypts(tx'.db))
      BY <3>3 DEF Commits, OwnKey
    <3>4. ASSUME NEW r \in Restores, NEW c \in Categories, Fills(r, c)
          PROVE  Decrypts(db') /\ (tx' # None => Decrypts(tx'.db))
      <4>1. tx.db \in Tables /\ Decrypts(tx.db)
        BY <3>4 DEF Fills, OwnKey, Transactions
      <4>2. FilledAs(r, c, tx.db, tx'.db)
        BY <3>4, <4>1, FilledFields DEF Fills
      <4>3. tx.db.enc \in [{"settings", "zones"} -> EncryptionKeys]
        BY <4>1 DEF Tables
      <4>4. Decrypts(tx'.db)
        BY <2>1, <4>1, <4>2, <4>3 DEF Decrypts, FilledAs
      <4>5. QED
        BY <3>4, <4>4 DEF Fills, OwnKey
    <3>5. CASE db'.enc = db.enc /\ tx' = None
      BY <3>5 DEF OwnKey, Decrypts
    <3>6. ASSUME Rotates \/ (\E name \in ZoneNames : CreateZone(name))
                         \/ (\E id \in ZoneIds : DeleteZone(id))
          PROVE  db'.enc = db.enc /\ tx' = None
      BY <3>6 DEF Rotates, CreateZone, DeleteZone, Unlocked, Types, TypeOK, Tables
    <3>7. QED
      BY <3>1, <3>2, <3>3, <3>4, <3>5, <3>6, TableSteps DEF TableStep
  <2>5. \A r \in Restores : request'[r] # None /\ Adopt(r)' => request'[r].enc = "own"
    <3>1. CASE UNCHANGED <<request, proc>>
      BY <3>1 DEF OwnKey, Adopt, Cats
    <3>2. CASE UNCHANGED request
      BY <2>2, <3>2 DEF OwnKey, Adopt, Cats
    <3>3. ASSUME NEW s \in Restores, NEW q \in Requested, Begin(s, q)
          PROVE  \A r \in Restores : request'[r] # None /\ Adopt(r)' => request'[r].enc = "own"
      <4>1. request' = [request EXCEPT ![s] = q] /\ Valid(q) /\ UNCHANGED proc
        BY <3>3 DEF Begin
      <4>2. ASSUME Adopt(s)' PROVE q.enc = "own"
        BY <4>1, <4>2 DEF Adopt, Cats, Valid, OwnKey, Types, TypeOK
      <4>3. ASSUME NEW r \in Restores \ {s} PROVE request'[r] = request[r] /\ Adopt(r)' = Adopt(r)
        BY <4>1 DEF Adopt, Cats, Types, TypeOK
      <4>4. request'[s] = q
        BY <4>1 DEF Types, TypeOK
      <4>5. QED
        BY <4>2, <4>3, <4>4 DEF OwnKey
    <3>4. QED
      BY <3>2, <3>3
         DEF Next, vars, Work, Start, Wipe, Commit, SslFiles, Unlink, Fill, Write, Written, Secrets,
             Persist, Complete, Restart, Fail, ReportFailure, Finish, CreateZone, DeleteZone, Stop, Boot
  <2>6. \A r \in Restores : pc'[r] = "persist" => Adopt(r)'
    <3>1. ASSUME NEW s \in Restores, Secrets(s) PROVE \A r \in Restores : pc'[r] = "persist" => Adopt(r)'
      BY <3>1 DEF Secrets, To, OwnKey, Adopt, Cats, Types, TypeOK
    <3>2. CASE /\ \A r \in Restores : pc'[r] = "persist" => pc[r] = "persist"
               /\ UNCHANGED request
      BY <2>2, <3>2 DEF OwnKey, Adopt, Cats
    <3>3. ASSUME NEW s \in Restores, NEW q \in Requested, Begin(s, q)
          PROVE  \A r \in Restores : pc'[r] = "persist" => Adopt(r)'
      <4>1. \A r \in Restores : pc'[r] = "persist" => r # s /\ pc[r] = "persist"
        BY <3>3 DEF Begin, To, Types, TypeOK
      <4>2. \A r \in Restores \ {s} : Adopt(r)' = Adopt(r)
        BY <3>3 DEF Begin, Adopt, Cats, Types, TypeOK
      <4>3. QED
        BY <4>1, <4>2 DEF OwnKey
    <3>4. ASSUME NEW s \in Restores, Work(s)
          PROVE  Secrets(s) \/ /\ \A r \in Restores : pc'[r] = "persist" => pc[r] = "persist"
                               /\ UNCHANGED request
      BY <3>4 DEF Work, To, Start, Wipe, Commit, SslFiles, Unlink, Fill, Write, Written, Persist,
                  Complete, Restart, Fail, ReportFailure, Types, TypeOK
    <3>5. CASE Stop
      BY <3>2, <3>5 DEF Stop
    <3>6. QED
      BY <3>1, <3>2, <3>3, <3>4, <3>5 DEF Next, vars, Finish, CreateZone, DeleteZone, Boot
  <2>7. QED
    BY <2>2, <2>3, <2>4, <2>5, <2>6 DEF OwnKey, Decrypts
<1>3. QED
  BY <1>1, <1>2, TypesInvariant, PTL DEF Spec

(* Whatever part of a restore was done when it failed or the process died, *)
(* the process and its successor can decrypt what is stored.               *)
THEOREM NothingIsLockedAway == Spec => []StoredDecrypts
<1>1. Types /\ OwnKey => StoredDecrypts
  <2>1. Types => DOMAIN db.enc = {"settings", "zones"}
    BY DEF Types, TypeOK, Tables
  <2>2. QED
    BY <2>1 DEF OwnKey, Decrypts, StoredDecrypts
<1>2. QED
  BY <1>1, OwnKeyInvariant, TypesInvariant, PTL
-----------------------------------------------------------------------------
(* The ways of a worker, and what it was asked for *)
WorkerStep(r) ==
    \/ pc'[r] = pc[r]
    \/ pc'[r] \in {"restart", "failed", "end"}
    \/ pc'[r] = "start" /\ \E q \in Requested : Begin(r, q)
    \/ pc[r] \in {"start", "wipe", "fill"} /\ pc'[r] \in {"wipe", "fill"}
    \/ pc[r] \in {"secrets", "persist"} /\ pc'[r] = "complete"
    \/ \E c \in Categories : Fill(r, c) /\ tx.left = {c} /\ pc'[r] = "commit"
    \/ Start(r) /\ TablesOf(r) = {} /\ pc'[r] = "files"
    \/ Commit(r) /\ pc'[r] = "files"
    \/ pc[r] = "files" /\ "ssl_files" \in Cats(r) /\ pc'[r] = "unlink"
    \/ pc[r] = "unlink" /\ pc'[r] = "write"
    \/ pc[r] \in {"files", "write"} /\ pc'[r] = "secrets"
    \/ Secrets(r) /\ Adopt(r) /\ pc'[r] = "persist"

LEMMA WorkerSteps ==
  ASSUME Types, [Next]_vars, NEW r \in Restores
  PROVE  WorkerStep(r)
<1>1. ASSUME NEW s \in Restores, Work(s) \/ Finish(s) \/ (\E q \in Requested : Begin(s, q)), s # r
      PROVE  WorkerStep(r)
  <2>1. pc' = pc \/ \E step \in Steps : pc' = [pc EXCEPT ![s] = step]
    BY <1>1 DEF Work, To, Start, Wipe, Commit, SslFiles, Unlink, Fill, Write, Written, Secrets,
                Persist, Complete, Restart, Fail, ReportFailure, Finish, Begin, Steps
  <2>2. QED
    BY <1>1, <2>1 DEF WorkerStep, Types, TypeOK
<1>2. CASE Finish(r) \/ \E q \in Requested : Begin(r, q)
  BY <1>2 DEF Finish, Begin, To, WorkerStep, Types, TypeOK
<1>3. ASSUME NEW step, To(r, step) PROVE pc'[r] = step
  BY <1>3 DEF To, Types, TypeOK
<1>4. CASE Start(r)
  BY <1>3, <1>4 DEF Start, At, WorkerStep
<1>5. ASSUME NEW c \in Categories, Fill(r, c) PROVE WorkerStep(r)
  BY <1>3, <1>5 DEF Fill, At, WorkerStep
<1>6. CASE Secrets(r)
  BY <1>3, <1>6 DEF Secrets, At, WorkerStep
<1>7. CASE Commit(r)
  BY <1>3, <1>7 DEF Commit, WorkerStep
<1>8. CASE SslFiles(r) \/ Unlink(r) \/ Written(r)
  BY <1>3, <1>8 DEF SslFiles, Unlink, Written, At, WorkerStep
<1>9. CASE Wipe(r) \/ Persist(r) \/ Complete(r) \/ Restart(r) \/ Fail(r) \/ ReportFailure(r)
           \/ \E f \in Files : Write(r, f)
  BY <1>3, <1>9 DEF Wipe, Persist, Complete, Restart, Fail, ReportFailure, Write, At, WorkerStep
<1>10. CASE Stop
  <2>1. pc'[r] = IF request[r] = None THEN "idle" ELSE "end"
    BY <1>10 DEF Stop
  <2>2. QED
    BY <2>1 DEF WorkerStep, Types, Control
<1>11. CASE UNCHANGED pc
  BY <1>11 DEF WorkerStep
<1>12. QED
  BY <1>1, <1>2, <1>4, <1>5, <1>6, <1>7, <1>8, <1>9, <1>10, <1>11
     DEF Next, vars, Work, Boot, CreateZone, DeleteZone

(* A restore is asked for once, and not while a transaction is open. *)
LEMMA RequestsStay ==
  ASSUME Types, [Next]_vars
  PROVE  /\ tx' # None \/ tx # None => request' = request
         /\ \A r \in Restores : request[r] # None => request'[r] = request[r]
<1>1. ASSUME NEW s \in Restores, NEW q \in Requested, Begin(s, q)
      PROVE  /\ tx = None /\ tx' = None
             /\ \A r \in Restores : request[r] # None => request'[r] = request[r]
  BY <1>1 DEF Begin, Unlocked, Types, TypeOK
<1>2. (\E s \in Restores, q \in Requested : Begin(s, q)) \/ request' = request
  BY DEF Next, vars, Work, Start, Wipe, Commit, SslFiles, Unlink, Fill, Write, Written, Secrets,
         Persist, Complete, Restart, Fail, ReportFailure, Finish, CreateZone, DeleteZone, Stop, Boot
<1>3. QED
  BY <1>1, <1>2
-----------------------------------------------------------------------------
(* Nobody but the restore writes a session version of an archive, and it   *)
(* writes fresh ones: once they are, they stay fresh, and they are before  *)
(* the archive's SECRET_KEY is written.                                    *)
AfterRows == {"files", "unlink", "write", "secrets", "persist"}

Fresh ==
    /\ tx # None => /\ db.fresh => tx.db.fresh
                    /\ "users" \in TablesOf(tx.by) \ tx.left => tx.db.fresh
    /\ \A r \in Restores : /\ pc[r] = "commit" => tx.left = {}
                           /\ pc[r] \in AfterRows /\ "users" \in Cats(r) => db.fresh
                           /\ pc[r] = "persist" => db.fresh
    /\ NoReplayedSessions

LEMMA FreshInvariant == Spec => []Fresh
<1>1. Init => Fresh
  <2> SUFFICES ASSUME Init PROVE Fresh
    OBVIOUS
  <2>1. disk.secret = Live
    BY DEF Init
  <2>2. QED
    BY <2>1, RestoreAssumption DEF Init, Fresh, NoReplayedSessions, AfterRows
<1>2. Types /\ Fresh /\ [Next]_vars => Fresh'
  <2> SUFFICES ASSUME Types, Fresh, [Next]_vars PROVE Fresh'
    OBVIOUS
  <2>1. db.fresh => db'.fresh
    <3>1. ASSUME NEW r \in Restores, Commits(r) PROVE db.fresh => db'.fresh
      BY <3>1 DEF Commits, Fresh
    <3>2. ASSUME \/ Rotates \/ (\E name \in ZoneNames : CreateZone(name))
                 \/ (\E id \in ZoneIds : DeleteZone(id))
          PROVE  db.fresh => db'.fresh
      BY <3>2 DEF Rotates, CreateZone, DeleteZone, Types, TypeOK, Tables
    <3>3. QED
      BY <3>1, <3>2, TableSteps DEF TableStep, Opens, Fills
  <2>2. ASSUME tx' # None
        PROVE  /\ db'.fresh => tx'.db.fresh
               /\ "users" \in TablesOf(tx'.by) \ tx'.left => tx'.db.fresh
    <3>1. CASE db' = db /\ tx' = tx
      BY <2>2, <3>1 DEF Fresh
    <3>2. ASSUME NEW r \in Restores, Opens(r)
          PROVE  /\ db'.fresh => tx'.db.fresh
                 /\ "users" \notin TablesOf(tx'.by) \ tx'.left
      <4>1. WipedAs(r, db, tx'.db)
        BY <3>2, WipedFields DEF Opens, Types, TypeOK
      <4>2. QED
        BY <3>2, <4>1 DEF Opens, WipedAs
    <3>3. ASSUME NEW r \in Restores, NEW c \in Categories, Fills(r, c)
          PROVE  /\ db'.fresh => tx'.db.fresh
                 /\ "users" \in TablesOf(tx'.by) \ tx'.left => tx'.db.fresh
      <4>1. FilledAs(r, c, tx.db, tx'.db)
        BY <3>3, FilledFields DEF Fills, Transactions
      <4>2. tx'.db.fresh = IF c = "users" THEN TRUE ELSE tx.db.fresh
        BY <4>1 DEF FilledAs
      <4>3. /\ db.fresh => tx.db.fresh
            /\ "users" \in TablesOf(r) \ tx.left => tx.db.fresh
        BY <3>3 DEF Fills, Fresh
      <4>4. CASE c = "users"
        BY <4>2, <4>4
      <4>5. CASE c # "users"
        BY <3>3, <4>2, <4>3, <4>5 DEF Fills
      <4>6. QED
        BY <4>4, <4>5
    <3>4. QED
      BY <2>2, <3>1, <3>2, <3>3, TableSteps DEF TableStep, Commits, Rotates, CreateZone, DeleteZone, Unlocked
  <2>3. ASSUME tx' # None PROVE ("users" \in TablesOf(tx.by) \ tx.left => tx.db.fresh)'
    <3>1. request' = request
      BY <2>3, RequestsStay
    <3>2. QED
      BY <2>2, <2>3, <3>1 DEF TablesOf, Cats
  <2>4. ASSUME NEW r \in Restores, pc'[r] = "commit" PROVE tx'.left = {}
    <3>1. CASE pc[r] = "commit"
      <4>1. tx.by = r /\ tx.left = {} /\ tx # None
        BY <3>1 DEF Types, Control, Fresh, InTx
      <4>2. tx' # None
        BY <2>4, StepControl DEF Control, InTx
      <4>3. tx' = tx
        BY <3>1, <4>1, <4>2, TableSteps
           DEF TableStep, Opens, Fills, Commits, Rotates, CreateZone, DeleteZone, Unlocked
      <4>4. QED
        BY <4>1, <4>3
    <3>2. CASE pc[r] # "commit"
      <4>1. PICK c \in Categories : Fill(r, c) /\ tx.left = {c}
        BY <2>4, <3>2, WorkerSteps DEF WorkerStep
      <4>2. tx'.left = tx.left \ {c}
        BY <4>1, FillFills DEF Fills
      <4>3. QED
        BY <4>1, <4>2
    <3>3. QED
      BY <3>1, <3>2
  <2>5. ASSUME NEW r \in Restores, pc'[r] \in AfterRows, "users" \in Cats(r)' PROVE db'.fresh
    <3>1. CASE pc[r] \in AfterRows \/ Start(r) \/ Commit(r)
      <4>1. request[r] # None
        BY <3>1 DEF AfterRows, Start, Commit, At, Types, Control
      <4>2. "users" \in Cats(r) /\ "users" \in TablesOf(r)
        BY <2>5, <4>1, RequestsStay DEF Cats, TablesOf, Categories
      <4>3. CASE pc[r] \in AfterRows
        BY <2>1, <4>2, <4>3 DEF Fresh
      <4>4. CASE Commit(r)
        BY <4>2, <4>4 DEF Commit, At, Fresh, Types, Control, InTx
      <4>5. CASE Start(r) /\ pc[r] \notin AfterRows
        BY <2>5, <4>2, <4>5, WorkerSteps
           DEF WorkerStep, Start, At, AfterRows, Fill, Commit, Secrets
      <4>6. QED
        BY <3>1, <4>3, <4>4, <4>5
    <3>2. QED
      BY <2>5, <3>1, WorkerSteps DEF WorkerStep, AfterRows, Secrets, At
  <2>6. ASSUME NEW r \in Restores, pc'[r] = "persist" PROVE db'.fresh
    <3>1. CASE pc[r] = "persist"
      BY <2>1, <3>1 DEF Fresh
    <3>2. CASE Secrets(r) /\ Adopt(r)
      <4>1. CASE "users" \in Cats(r)
        BY <2>1, <3>2, <4>1 DEF Secrets, At, Fresh, AfterRows
      <4>2. CASE "users" \notin Cats(r)
        BY <3>2, <4>2 DEF Secrets, Types, TypeOK, Tables
      <4>3. QED
        BY <4>1, <4>2
    <3>3. QED
      BY <2>6, <3>1, <3>2, WorkerSteps DEF WorkerStep
  <2>7. NoReplayedSessions'
    <3>1. CASE disk'.secret = disk.secret
      BY <2>1, <3>1 DEF Fresh, NoReplayedSessions
    <3>2. ASSUME NEW r \in Restores, Persist(r) PROVE db'.fresh
      BY <2>1, <3>2 DEF Persist, At, Fresh
    <3>3. ASSUME NEW r \in Restores, Unlink(r) \/ \E f \in Files : Write(r, f)
          PROVE  disk'.secret = disk.secret
      BY <3>3 DEF Unlink, Write, Types, TypeOK
    <3>4. QED
      BY <3>1, <3>2, <3>3
         DEF NoReplayedSessions, Next, vars, Work, Start, Wipe, Commit, SslFiles, Fill, Written,
             Secrets, Complete, Restart, Fail, ReportFailure, Finish, Begin, CreateZone, DeleteZone,
             Stop, Boot
  <2>8. QED
    BY <2>2, <2>3, <2>4, <2>5, <2>6, <2>7 DEF Fresh
<1>3. QED
  BY <1>1, <1>2, TypesInvariant, PTL DEF Spec

(* Once the next process will sign with an archive's SECRET_KEY, no user   *)
(* has a session version that a cookie of the archive's source carries.    *)
THEOREM NoSessionReplay == Spec => []NoReplayedSessions
<1>1. Fresh => NoReplayedSessions
  BY DEF Fresh
<1>2. QED
  BY <1>1, FreshInvariant, PTL
-----------------------------------------------------------------------------
(* A link leaves with either of its tables, so that between the deletion   *)
(* and the insertion of the API keys there is none, and the rows a link is *)
(* made to are looked up by name.                                          *)
Reach(t) == \A l \in t.links : l[1] = t.origin["api_keys"] /\ t.zones[l[2]] \in Grant(l[1])

Links ==
    /\ Reach(db)
    /\ tx # None => /\ Reach(tx.db)
                    /\ tx.left \cap {"api_keys", "zones"} # {} => tx.db.links = {}

LEMMA LinkedReach ==
  ASSUME NEW k \in Origins, NEW zones \in [ZoneIds -> ZoneNames \cup {None}],
         NEW names \in SUBSET ZoneNames, NEW l \in Linked(k, zones, names)
  PROVE  l[1] = k /\ zones[l[2]] \in names
BY DEF Linked

LEMMA LinksInvariant == Spec => []Links
<1>1. Init => Links
  <2> SUFFICES ASSUME Init PROVE Links
    OBVIOUS
  <2>1. /\ db.links = Linked(Live, db.zones, LiveGrant)
        /\ db.zones = Numbered(LiveZones)
        /\ db.origin["api_keys"] = Live
    BY DEF Init, Categories
  <2>2. db.zones \in [ZoneIds -> ZoneNames \cup {None}] /\ LiveGrant \in SUBSET ZoneNames
    BY <2>1, ZonesNumbered, RestoreAssumption
  <2>3. Reach(db)
    <3>1. \A l \in db.links : l[1] = Live /\ db.zones[l[2]] \in LiveGrant
      BY <2>1, <2>2, LinkedReach DEF Origins
    <3>2. QED
      BY <2>1, <3>1 DEF Reach, Grant
  <2>4. tx = None
    BY DEF Init
  <2>5. QED
    BY <2>3, <2>4 DEF Links
<1>2. Types /\ Links /\ [Next]_vars => Links'
  <2> SUFFICES ASSUME Types, Links, [Next]_vars PROVE Links'
    OBVIOUS
  <2>1. CASE db' = db /\ tx' \in {tx, None}
    BY <2>1 DEF Links, Reach
  <2>2. ASSUME NEW r \in Restores, Opens(r) PROVE Links'
    <3> DEFINE u == tx'.db
    <3>1. WipedAs(r, db, u)
      BY <2>2, WipedFields DEF Opens, Types, TypeOK
    <3> HIDE DEF u
    <3>2. CASE Cats(r) \cap {"api_keys", "zones"} # {}
      <4>1. u.links = {}
        BY <3>1, <3>2 DEF WipedAs
      <4>2. QED
        BY <2>2, <4>1 DEF Opens, Links, Reach, u
    <3>3. CASE Cats(r) \cap {"api_keys", "zones"} = {}
      <4>1. /\ u.links = db.links /\ u.zones = db.zones
            /\ u.origin["api_keys"] = db.origin["api_keys"]
        BY <3>1, <3>3 DEF WipedAs, Categories
      <4>2. Reach(u)
        BY <4>1 DEF Links, Reach
      <4>3. tx'.left \cap {"api_keys", "zones"} = {}
        BY <2>2, <3>3 DEF Opens, TablesOf
      <4>4. QED
        BY <2>2, <4>2, <4>3 DEF Opens, Links, Reach, u
    <3>4. QED
      BY <3>2, <3>3
  <2>3. ASSUME NEW r \in Restores, Commits(r) PROVE Links'
    BY <2>3 DEF Commits, Links, Reach
  <2>4. ASSUME NEW r \in Restores, NEW c \in Categories, Fills(r, c) PROVE Links'
    <3> DEFINE t == tx.db
               u == tx'.db
    <3>1. FilledAs(r, c, t, u)
      BY <2>4, FilledFields DEF Fills, Transactions
    <3>2. t \in Tables /\ Reach(t) /\ (c \in {"api_keys", "zones"} => t.links = {})
      BY <2>4 DEF Fills, Links, Transactions
    <3>3. tx.left \cap {"api_keys", "zones"} # {} => t.links = {}
      BY <2>4 DEF Fills, Links
    <3> HIDE DEF t, u
    <3>4. CASE c = "api_keys"
      <4>1. u.links = Linked(r, t.zones, ArchiveGrant) /\ u.zones = t.zones
        BY <3>1, <3>2, <3>4 DEF FilledAs
      <4>2. u.origin["api_keys"] = r
        BY <3>1, <3>2, <3>4 DEF FilledAs, Tables
      <4>3. Grant(r) = ArchiveGrant /\ r \in Origins /\ ArchiveGrant \in SUBSET ZoneNames
        BY RestoreAssumption DEF Grant, Origins
      <4>4. t.zones \in [ZoneIds -> ZoneNames \cup {None}]
        BY <3>2 DEF Tables
      <4>5. Reach(u)
        BY <4>1, <4>2, <4>3, <4>4, LinkedReach DEF Reach
      <4>6. "zones" \notin tx'.left
        BY <2>4, <3>4 DEF Fills, Rank
      <4>7. tx'.left \cap {"api_keys", "zones"} = {} /\ tx' # None /\ db' = db
        BY <2>4, <3>4, <4>6, NoTransaction DEF Fills
      <4>8. QED
        BY <4>5, <4>7 DEF Links, Reach, u
    <3>5. CASE c = "zones"
      <4>1. u.links = {}
        BY <3>1, <3>2, <3>5 DEF FilledAs
      <4>2. QED
        BY <2>4, <4>1 DEF Fills, Links, Reach, u
    <3>6. CASE c \notin {"api_keys", "zones"}
      <4>1. /\ u.links = t.links /\ u.zones = t.zones
            /\ u.origin["api_keys"] = t.origin["api_keys"]
        BY <3>1, <3>2, <3>6 DEF FilledAs, Tables, Categories
      <4>2. Reach(u)
        BY <3>2, <4>1 DEF Reach
      <4>3. tx'.left \cap {"api_keys", "zones"} = tx.left \cap {"api_keys", "zones"}
        BY <2>4, <3>6 DEF Fills
      <4>4. QED
        BY <2>4, <3>3, <4>1, <4>2, <4>3 DEF Fills, Links, u
    <3>7. QED
      BY <3>4, <3>5, <3>6
  <2>5. CASE Rotates
    <3>1. db'.links = db.links /\ db'.zones = db.zones /\ db'.origin = db.origin
      BY <2>5 DEF Rotates, Types, TypeOK, Tables
    <3>2. QED
      BY <2>5, <3>1 DEF Rotates, Links, Reach
  <2>6. ASSUME NEW name \in ZoneNames, CreateZone(name) PROVE Links'
    <3>1. PICK id \in ZoneIds : /\ \A u \in {i \in ZoneIds : db.zones[i] # None} : u < id
                                /\ db' = [db EXCEPT !.zones[id] = name]
      BY <2>6 DEF CreateZone
    <3>2. db.zones[id] = None
      BY <3>1 DEF ZoneIds
    <3>3. /\ db'.links = db.links /\ db'.origin = db.origin
          /\ \A i \in ZoneIds \ {id} : db'.zones[i] = db.zones[i]
      BY <3>1 DEF Types, TypeOK, Tables
    <3>4. \A l \in db.links : l[2] \in ZoneIds /\ db.zones[l[2]] # None
      <4>1. \A k : None \notin Grant(k)
        BY RestoreAssumption DEF Grant
      <4>2. QED
        BY <4>1 DEF Links, Reach, Types, TypeOK, Tables
    <3>5. Reach(db')
      BY <3>2, <3>3, <3>4 DEF Links, Reach
    <3>6. tx' = None
      BY <2>6 DEF CreateZone, Unlocked
    <3>7. QED
      BY <3>5, <3>6 DEF Links, Reach
  <2>7. ASSUME NEW id \in ZoneIds, DeleteZone(id) PROVE Links'
    <3>1. /\ db'.links = {l \in db.links : l[2] # id} /\ db'.origin = db.origin
          /\ db'.zones = [db.zones EXCEPT ![id] = None]
      BY <2>7 DEF DeleteZone, Types, TypeOK, Tables
    <3>2. \A l \in db'.links : l[2] \in ZoneIds /\ db'.zones[l[2]] = db.zones[l[2]]
      BY <3>1 DEF Types, TypeOK, Tables
    <3>3. Reach(db')
      BY <3>1, <3>2 DEF Links, Reach
    <3>4. tx' = None
      BY <2>7 DEF DeleteZone, Unlocked
    <3>5. QED
      BY <3>3, <3>4 DEF Links, Reach
  <2>8. QED
    BY <2>1, <2>2, <2>3, <2>4, <2>5, <2>6, <2>7, TableSteps DEF TableStep
<1>3. QED
  BY <1>1, <1>2, TypesInvariant, PTL DEF Spec

(* After any restore, row ids given again or not, a restriction of an API  *)
(* key points to a zone of a name that the key was granted.                *)
THEOREM KeysStayGranted == Spec => []KeysReachGrantedZones
<1>1. Links => KeysReachGrantedZones
  BY DEF Links, Reach, KeysReachGrantedZones
<1>2. QED
  BY <1>1, LinksInvariant, PTL
-----------------------------------------------------------------------------
(* The refinement: until a restore commits, its transaction holds the rows *)
(* of the archive in the categories it has filled, none in those it has    *)
(* not, and elsewhere what is committed; what a worker does to files and   *)
(* secrets, and its success, comes after its commit.                       *)
BeforeCommit == {"start", "wipe", "fill", "commit"}
AfterCommit == AfterRows \cup {"complete"}

RowsOf(t, r, left) ==
    /\ left \subseteq TablesOf(r)
    /\ \A c \in Categories :
        t.origin[c] = IF c \in left THEN None ELSE IF c \in TablesOf(r) THEN r ELSE db.origin[c]

(* The restores that have left a file or their secrets on the disk. *)
Placed == {r \in Restores : disk.secret = r \/ \E f \in Files : disk.file[f] = r}

Order ==
    /\ \A r \in Restores : pc[r] \in BeforeCommit => r \notin applied
    /\ \A r \in Restores : pc[r] \in AfterCommit => TablesOf(r) = {} \/ r \in applied
    /\ \A r \in Placed : request[r] # None
    /\ tx # None => RowsOf(tx.db, tx.by, tx.left)

(* A restore that leaves its first file or its secrets is at work. *)
LEMMA OnlyWorkersPlace ==
  ASSUME Types, [Next]_vars, NEW r \in Placed', r \notin Placed
  PROVE  pc[r] # "idle"
<1>1. \/ disk' = disk
      \/ \E s \in Restores : Unlink(s) \/ Persist(s) \/ \E f \in Files : Write(s, f)
  BY DEF Next, vars, Work, Start, Wipe, Commit, SslFiles, Fill, Written, Secrets,
         Complete, Restart, Fail, ReportFailure, Finish, Begin, CreateZone, DeleteZone, Stop, Boot
<1>2. disk' # disk
  BY DEF Placed
<1>3. ASSUME NEW s \in Restores, Unlink(s) PROVE FALSE
  <2>1. PICK kept \in SUBSET Files :
          disk' = [disk EXCEPT !.file = [f \in Files |-> IF f \in kept THEN @[f] ELSE None]]
    BY <1>3 DEF Unlink
  <2>2. disk'.secret = disk.secret /\ \A f \in Files : disk'.file[f] \in {disk.file[f], None}
    BY <2>1 DEF Types, TypeOK
  <2>3. QED
    BY <2>2, RestoreAssumption DEF Placed, Origins
<1>4. ASSUME NEW s \in Restores, Persist(s) PROVE r = s /\ pc[s] = "persist"
  <2>1. disk'.secret = s /\ disk'.file = disk.file
    BY <1>4 DEF Persist, Types, TypeOK
  <2>2. QED
    BY <1>4, <2>1 DEF Persist, At, Placed
<1>5. ASSUME NEW s \in Restores, NEW f \in Files, Write(s, f) PROVE r = s /\ pc[s] = "write"
  <2>1. /\ disk'.secret = disk.secret /\ disk'.file[f] = s
        /\ \A g \in Files \ {f} : disk'.file[g] = disk.file[g]
    BY <1>5 DEF Write, Types, TypeOK
  <2>2. QED
    BY <1>5, <2>1 DEF Write, At, Placed
<1>6. QED
  BY <1>1, <1>2, <1>3, <1>4, <1>5

LEMMA OrderInvariant == Spec => []Order
<1>1. Init => Order
  BY RestoreAssumption DEF Init, Order, BeforeCommit, AfterCommit, AfterRows, Placed, Origins
<1>2. Types /\ Order /\ [Next]_vars => Order'
  <2> SUFFICES ASSUME Types, Order, [Next]_vars PROVE Order'
    OBVIOUS
  <2>1. applied \subseteq applied' /\ \A r \in Restores : r \in applied' \ applied => Commit(r)
    BY DEF Next, vars, Work, Start, Wipe, Commit, SslFiles, Unlink, Fill, Write, Written, Secrets,
           Persist, Complete, Restart, Fail, ReportFailure, Finish, Begin, CreateZone, DeleteZone,
           Stop, Boot
  <2>2. ASSUME NEW r \in Restores, pc'[r] \in BeforeCommit PROVE r \notin applied'
    <3>1. r \notin applied
      <4>1. ASSUME NEW q \in Requested, Begin(r, q) PROVE r \notin applied
        BY <4>1 DEF Begin, Types, Control
      <4>2. pc[r] \in BeforeCommit \/ \E q \in Requested : Begin(r, q)
        BY <2>2, WorkerSteps
           DEF WorkerStep, BeforeCommit, Fill, Start, Commit, Secrets, At
      <4>3. QED
        BY <4>1, <4>2 DEF Order
    <3>2. ~Commit(r)
      BY <2>2 DEF Commit, To, BeforeCommit, Types, TypeOK
    <3>3. QED
      BY <2>1, <3>1, <3>2
  <2>3. ASSUME NEW r \in Restores, pc'[r] \in AfterCommit PROVE TablesOf(r)' = {} \/ r \in applied'
    <3>1. CASE pc[r] \in AfterCommit
      <4>1. request'[r] = request[r]
        BY <3>1, RequestsStay DEF AfterCommit, AfterRows, Types, Control
      <4>2. QED
        BY <2>1, <3>1, <4>1 DEF Order, TablesOf, Cats
    <3>2. CASE Commit(r)
      BY <3>2 DEF Commit
    <3>3. CASE Start(r) /\ TablesOf(r) = {}
      BY <3>3 DEF Start, TablesOf, Cats
    <3>4. QED
      BY <2>3, <3>1, <3>2, <3>3, WorkerSteps DEF WorkerStep, AfterCommit, AfterRows, Secrets, At
  <2>4. ASSUME tx' # None PROVE (RowsOf(tx.db, tx.by, tx.left))'
    <3>1. request' = request
      BY <2>4, RequestsStay
    <3>2. tx'.left \subseteq TablesOf(tx'.by)
      BY <2>4, TableSteps
         DEF TableStep, Opens, Fills, Commits, Rotates, CreateZone, DeleteZone, Unlocked, Order, RowsOf
    <3>3. SUFFICES ASSUME NEW c \in Categories
                   PROVE  tx'.db.origin[c] = IF c \in tx'.left THEN None
                                             ELSE IF c \in TablesOf(tx'.by) THEN tx'.by
                                             ELSE db'.origin[c]
      BY <3>1, <3>2 DEF RowsOf, TablesOf, Cats
    <3>4. CASE db' = db /\ tx' = tx
      BY <2>4, <3>4 DEF Order, RowsOf
    <3>5. ASSUME NEW r \in Restores, Opens(r)
          PROVE  tx'.db.origin[c] = IF c \in tx'.left THEN None
                                    ELSE IF c \in TablesOf(tx'.by) THEN tx'.by ELSE db'.origin[c]
      <4>1. WipedAs(r, db, tx'.db)
        BY <3>5, WipedFields DEF Opens, Types, TypeOK
      <4>2. tx'.db.origin[c] = IF c \in Cats(r) THEN None ELSE db.origin[c]
        BY <4>1 DEF WipedAs
      <4>3. c \in TablesOf(r) <=> c \in Cats(r)
        BY <3>5, RestoreAssumption DEF Opens, TablesOf
      <4>4. QED
        BY <3>5, <4>2, <4>3 DEF Opens
    <3>6. ASSUME NEW r \in Restores, NEW d \in Categories, Fills(r, d)
          PROVE  tx'.db.origin[c] = IF c \in tx'.left THEN None
                                    ELSE IF c \in TablesOf(tx'.by) THEN tx'.by ELSE db'.origin[c]
      <4>1. FilledAs(r, d, tx.db, tx'.db)
        BY <3>6, FilledFields DEF Fills, Transactions
      <4>2. tx.db.origin \in [Categories -> Origins \cup {None}]
        BY <3>6 DEF Fills, Transactions, Tables
      <4>3. tx'.db.origin[c] = IF c = d THEN r ELSE tx.db.origin[c]
        BY <4>1, <4>2 DEF FilledAs
      <4>4. /\ d \in TablesOf(r)
            /\ tx.db.origin[c] = IF c \in tx.left THEN None
                                 ELSE IF c \in TablesOf(r) THEN r ELSE db.origin[c]
        BY <3>6 DEF Fills, Order, RowsOf
      <4>5. QED
        BY <3>6, <4>3, <4>4 DEF Fills
    <3>7. QED
      BY <2>4, <3>4, <3>5, <3>6, TableSteps
         DEF TableStep, Commits, Rotates, CreateZone, DeleteZone, Unlocked
  <2>5. ASSUME NEW r \in Placed' PROVE request'[r] # None
    <3>1. request[r] # None => request'[r] # None
      BY RequestsStay, <2>5 DEF Placed
    <3>2. CASE r \in Placed
      BY <3>1, <3>2 DEF Order
    <3>3. CASE r \notin Placed
      <4>1. pc[r] # "idle"
        BY <2>5, <3>3, OnlyWorkersPlace
      <4>2. QED
        BY <3>1, <4>1, <2>5 DEF Types, Control, Placed
    <3>4. QED
      BY <3>2, <3>3
  <2>6. QED
    BY <2>2, <2>3, <2>4, <2>5 DEF Order
<1>3. QED
  BY <1>1, <1>2, TypesInvariant, PTL DEF Spec
-----------------------------------------------------------------------------
Shown == IF row = "complete" THEN "success" ELSE "nothing"
AskedOf == [r \in Restores |-> TablesOf(r)]

(* The state in the terms of RestoreAtomic. *)
LEMMA Mapped ==
  /\ Atomic!vars = <<db.origin, AskedOf, applied, Placed, Shown>>
  /\ Atomic!Init <=> /\ db.origin = [c \in Categories |-> Live] /\ AskedOf = [r \in Restores |-> {}]
                     /\ applied = {} /\ Placed = {} /\ Shown = "nothing"
BY DEF Atomic!vars, Atomic!Init, AskedOf, Placed, Shown

LEMMA InitMapped == Init => Atomic!Init
<1> SUFFICES ASSUME Init PROVE Atomic!Init
  OBVIOUS
<1>1. /\ db.origin = [c \in Categories |-> Live] /\ disk.secret = Live
      /\ \A f \in Files : disk.file[f] \in {Live, None}
  BY DEF Init
<1>2. AskedOf = [r \in Restores |-> {}]
  BY DEF Init, AskedOf, TablesOf
<1>3. Placed = {}
  BY <1>1, RestoreAssumption DEF Placed, Origins
<1>4. applied = {} /\ Shown = "nothing"
  BY DEF Init, Shown
<1>5. QED
  BY <1>1, <1>2, <1>3, <1>4, Mapped

(* What is written after the commit is a file or the secrets of r. *)
LEMMA PlacedSteps ==
  ASSUME Types, NEW r \in Restores, Persist(r) \/ \E f \in Files : Write(r, f)
  PROVE  \E kept \in SUBSET Placed : Placed' = kept \cup {r}
<1>1. r \in Placed'
  <2>1. CASE Persist(r)
    BY <2>1 DEF Persist, Placed, Types, TypeOK
  <2>2. ASSUME NEW f \in Files, Write(r, f) PROVE disk'.file[f] = r
    BY <2>2 DEF Write, Types, TypeOK
  <2>3. QED
    BY <2>1, <2>2 DEF Placed
<1>2. ASSUME NEW s \in Placed', s # r PROVE s \in Placed
  <2>1. CASE Persist(r)
    <3>1. disk'.secret = r /\ disk'.file = disk.file
      BY <2>1 DEF Persist, Types, TypeOK
    <3>2. QED
      BY <1>2, <3>1 DEF Placed
  <2>2. ASSUME NEW f \in Files, Write(r, f) PROVE s \in Placed
    <3>1. /\ disk'.secret = disk.secret /\ disk'.file[f] = r
          /\ \A g \in Files \ {f} : disk'.file[g] = disk.file[g]
      BY <2>2 DEF Write, Types, TypeOK
    <3>2. QED
      BY <1>2, <3>1 DEF Placed
  <2>3. QED
    BY <2>1, <2>2
<1>3. Placed' = (Placed' \ {r}) \cup {r} /\ Placed' \ {r} \in SUBSET Placed
  BY <1>1, <1>2
<1>4. QED
  BY <1>3

LEMMA StepMapped ==
  ASSUME Types, Fresh, Order, [Next]_vars
  PROVE  [Atomic!Next]_(Atomic!vars)
<1>1. (Atomic!vars)' = <<db'.origin, AskedOf', applied', Placed', Shown'>>
  BY DEF Atomic!vars, AskedOf, Placed, Shown
<1>2. ASSUME NEW r \in Restores, NEW q \in Requested, Begin(r, q) PROVE Atomic!Ask(r)
  <2>1. request[r] = None /\ request' = [request EXCEPT ![r] = q] /\ row' = "running"
        /\ UNCHANGED <<db, disk, applied>>
    BY <1>2 DEF Begin
  <2>2. AskedOf[r] = {} /\ AskedOf' = [AskedOf EXCEPT ![r] = TablesOf(r)']
    BY <2>1 DEF AskedOf, TablesOf, Cats, Types, TypeOK
  <2>3. TablesOf(r)' \in SUBSET Categories
    BY DEF TablesOf
  <2>4. Shown' = "nothing" /\ Placed' = Placed
    BY <2>1 DEF Shown, Placed
  <2>5. r \notin applied \cup Placed
    BY <2>1 DEF Order, Types, Control
  <2>6. QED
    BY <2>1, <2>2, <2>3, <2>4, <2>5 DEF Atomic!Ask, AskedOf, Shown, Placed
<1>3. ASSUME NEW r \in Restores, Commit(r) PROVE Atomic!Apply(r)
  <2>1. pc[r] = "commit" /\ tx # None /\ tx.by = r /\ tx.left = {}
    BY <1>3 DEF Commit, At, Types, Control, InTx, Fresh
  <2>2. r \notin applied
    BY <2>1 DEF Order, BeforeCommit
  <2>3. \A c \in Categories : tx.db.origin[c] = IF c \in TablesOf(r) THEN r ELSE db.origin[c]
    BY <2>1 DEF Order, RowsOf
  <2>4. db' = tx.db /\ tx.db.origin \in [Categories -> Origins \cup {None}]
    BY <1>3, <2>1 DEF Commit, Types, TypeOK, Transactions, Tables
  <2>5. db'.origin = [c \in Categories |-> IF c \in AskedOf[r] THEN r ELSE db.origin[c]]
    BY <2>3, <2>4 DEF AskedOf
  <2>6. AskedOf' = AskedOf /\ Placed' = Placed /\ Shown' = Shown /\ applied' = applied \cup {r}
    BY <1>3 DEF Commit, AskedOf, TablesOf, Cats, Placed, Shown
  <2>7. QED
    BY <2>2, <2>5, <2>6 DEF Atomic!Apply, AskedOf, Placed, Shown
<1>4. ASSUME NEW r \in Restores, pc[r] \in AfterCommit PROVE Atomic!RowsDone(r)
  BY <1>4 DEF Order, Atomic!RowsDone
<1>5. ASSUME NEW r \in Restores, Persist(r) \/ \E f \in Files : Write(r, f) PROVE Atomic!Place(r)
  <2>1. Atomic!RowsDone(r)
    BY <1>4, <1>5 DEF Persist, Write, At, AfterCommit, AfterRows
  <2>2. \E kept \in SUBSET Placed : Placed' = kept \cup {r}
    BY <1>5, PlacedSteps
  <2>3. db' = db /\ AskedOf' = AskedOf /\ applied' = applied /\ Shown' = Shown
    BY <1>5 DEF Persist, Write, AskedOf, TablesOf, Cats, Shown
  <2>4. QED
    BY <2>1, <2>2, <2>3 DEF Atomic!Place, AskedOf, Placed, Shown
<1>6. ASSUME NEW r \in Restores, Unlink(r) PROVE Atomic!Remove
  <2>1. PICK kept \in SUBSET Files :
          disk' = [disk EXCEPT !.file = [f \in Files |-> IF f \in kept THEN @[f] ELSE None]]
    BY <1>6 DEF Unlink
  <2>2. disk'.secret = disk.secret /\ \A f \in Files : disk'.file[f] \in {disk.file[f], None}
    BY <2>1 DEF Types, TypeOK
  <2>3. Placed' \subseteq Placed
    BY <2>2, RestoreAssumption DEF Placed, Origins
  <2>4. db' = db /\ AskedOf' = AskedOf /\ applied' = applied /\ Shown' = Shown
    BY <1>6 DEF Unlink, AskedOf, TablesOf, Cats, Shown
  <2>5. QED
    BY <2>3, <2>4 DEF Atomic!Remove, AskedOf, Placed, Shown
<1>7. ASSUME NEW r \in Restores, Complete(r) PROVE Atomic!Succeed(r)
  <2>1. Atomic!RowsDone(r)
    BY <1>4, <1>7 DEF Complete, At, AfterCommit
  <2>2. db' = db /\ AskedOf' = AskedOf /\ applied' = applied /\ Placed' = Placed /\ Shown' = "success"
    BY <1>7 DEF Complete, AskedOf, TablesOf, Cats, Placed, Shown
  <2>3. QED
    BY <2>1, <2>2 DEF Atomic!Succeed, AskedOf, Placed, Shown
<1>8. ASSUME UNCHANGED <<disk, request, applied>>, db'.origin = db.origin,
             row' = row \/ row' # "complete"
      PROVE  Atomic!Withdraw \/ UNCHANGED Atomic!vars
  <2>1. AskedOf' = AskedOf /\ Placed' = Placed
    BY <1>8 DEF AskedOf, TablesOf, Cats, Placed
  <2>2. Shown' = Shown \/ Shown' = "nothing"
    BY <1>8 DEF Shown
  <2>3. QED
    BY <1>1, <1>8, <2>1, <2>2, Mapped DEF Atomic!Withdraw, AskedOf, Placed, Shown
<1>9. ASSUME NEW r \in Restores,
             \/ Start(r) \/ Wipe(r) \/ (\E c \in Categories : Fill(r, c)) \/ SslFiles(r)
             \/ Written(r) \/ Restart(r) \/ Fail(r) \/ ReportFailure(r) \/ Finish(r)
      PROVE  Atomic!Withdraw \/ UNCHANGED Atomic!vars
  BY <1>8, <1>9 DEF Start, Wipe, Fill, SslFiles, Written, Restart, Fail, ReportFailure, Finish, Report
<1>10. ASSUME NEW r \in Restores, Secrets(r) PROVE Atomic!Withdraw \/ UNCHANGED Atomic!vars
  <2>1. db'.origin = db.origin
    BY <1>10 DEF Secrets, Types, TypeOK, Tables
  <2>2. QED
    BY <1>8, <1>10, <2>1 DEF Secrets
<1>11. ASSUME \/ Stop \/ Boot \/ (\E name \in ZoneNames : CreateZone(name))
              \/ (\E id \in ZoneIds : DeleteZone(id)) \/ UNCHANGED vars
       PROVE  Atomic!Withdraw \/ UNCHANGED Atomic!vars
  <2>1. db'.origin = db.origin
    BY <1>11 DEF Stop, Boot, CreateZone, DeleteZone, vars, Types, TypeOK, Tables
  <2>2. QED
    BY <1>8, <1>11, <2>1 DEF Stop, Boot, CreateZone, DeleteZone, vars
<1>12. QED
  BY <1>2, <1>3, <1>5, <1>6, <1>7, <1>9, <1>10, <1>11 DEF Next, Work, Atomic!Next

(* A restore is, to everyone who reads the tables, the files and the       *)
(* dialog, what RestoreAtomic says: one step for all its rows or none,     *)
(* and its files, secrets and success only after it.                       *)
THEOREM RestoreIsAtomic == Spec => ImplementsAtomic
<1>1. Types /\ Fresh /\ Order /\ [Next]_vars => [Atomic!Next]_(Atomic!vars)
  BY StepMapped
<1>2. QED
  BY <1>1, InitMapped, TypesInvariant, FreshInvariant, OrderInvariant, PTL
     DEF Spec, ImplementsAtomic, Atomic!Spec

(* What the abstract restore keeps. *)
LEMMA AtomicPromises == Atomic!Spec => [](Atomic!RowsAreWhole /\ Atomic!NoOrphans)
<1> DEFINE Kept == Atomic!RowsAreWhole /\ Atomic!NoOrphans
<1>1. Atomic!Init => Kept
  BY DEF Atomic!Init, Atomic!RowsAreWhole, Atomic!NoOrphans
<1>2. Kept /\ [Atomic!Next]_(Atomic!vars) => Kept'
  BY DEF Atomic!Next, Atomic!vars, Atomic!Ask, Atomic!Apply, Atomic!Place, Atomic!Remove,
         Atomic!Succeed, Atomic!Withdraw, Atomic!RowsDone, Atomic!RowsAreWhole, Atomic!NoOrphans
<1>3. QED
  BY <1>1, <1>2, PTL DEF Atomic!Spec

(* No category is ever left wiped or half filled, however a restore ends,  *)
(* and no certificate file or secret of an archive is on the disk without  *)
(* the rows it was to come with: the comments of restore_payload, carried  *)
(* over from RestoreAtomic.                                                *)
THEOREM RestoresLeaveNoHalf == Spec => [](Atomic!RowsAreWhole /\ Atomic!NoOrphans)
BY RestoreIsAtomic, AtomicPromises, PTL DEF ImplementsAtomic
-----------------------------------------------------------------------------
(* bootstrap refuses to start when the settings ask for a certificate that *)
(* is not there.  Restores may bring that about in two ways: by replacing  *)
(* the files, or by settings that turn SSL on.  Without either the process *)
(* can start again after any failure or end.                               *)
LeavesSslAlone(q) == "ssl_files" \notin q.cats /\ ("settings" \in q.cats => ~q.ssl)

HasFiles == disk.file["key"] # None /\ disk.file["cert"] # None

OpenServed(t) == t.left \subseteq TablesOf(t.by) /\ (t.db.ssl => HasFiles)

SslServed ==
    /\ \A r \in Restores : /\ pc[r] \notin {"unlink", "write"}
                           /\ request[r] # None => LeavesSslAlone(request[r])
    /\ db.ssl => HasFiles
    /\ tx # None => OpenServed(tx)

LEMMA FilledSsl ==
  ASSUME NEW t \in Tables, NEW r \in Restores, NEW c \in Categories
  PROVE  Filled(r, c, t).ssl = IF c = "settings" THEN request[r].ssl ELSE t.ssl
<1> DEFINE owned == [t EXCEPT !.origin[c] = r]
<1>1. owned.ssl = t.ssl /\ \E base : owned = [t EXCEPT !.origin = base]
  BY DEF Tables
<1>2. t = [origin |-> t.origin, zones |-> t.zones, links |-> t.links, enc |-> t.enc,
           ssl |-> t.ssl, fresh |-> t.fresh]
  BY DEF Tables
<1> HIDE DEF owned
<1>3. CASE c = "settings"
  <2> DEFINE enc == [owned.enc EXCEPT !["settings"] = Rewrapped(r)]
             ssl == request[r].ssl
  <2>1. Filled(r, c, t) = [owned EXCEPT !.enc = enc, !.ssl = ssl]
    BY <1>3 DEF Filled, owned
  <2> HIDE DEF enc, ssl
  <2>2. Filled(r, c, t).ssl = ssl
    BY <1>1, <2>1 DEF Tables
  <2>3. QED
    BY <1>3, <2>2 DEF ssl
<1>4. CASE c # "settings"
  <2>1. \/ Filled(r, c, t) = owned
        \/ \E x : Filled(r, c, t) = [owned EXCEPT !.fresh = x]
        \/ \E x, y : Filled(r, c, t) = [owned EXCEPT !.enc = x, !.zones = y]
        \/ \E x : Filled(r, c, t) = [owned EXCEPT !.links = x]
    <3>1. CASE c = "zones"
      <4> DEFINE x == [owned.enc EXCEPT !["zones"] = Rewrapped(r)]
      <4>1. Filled(r, c, t) = [owned EXCEPT !.enc = x, !.zones = Numbered(ArchiveZones)]
        BY <3>1 DEF Filled, owned
      <4> HIDE DEF x
      <4>2. QED
        BY <4>1
    <3>2. CASE c = "api_keys"
      <4> DEFINE x == owned.links \cup Linked(r, t.zones, ArchiveGrant)
      <4>1. Filled(r, c, t) = [owned EXCEPT !.links = x]
        BY <3>2 DEF Filled, owned
      <4> HIDE DEF x
      <4>2. QED
        BY <4>1
    <3>3. CASE c \notin {"zones", "api_keys"}
      BY <1>4, <3>3 DEF Filled, owned
    <3>4. QED
      BY <3>1, <3>2, <3>3
  <2>2. QED
    BY <1>1, <1>4, <2>1 DEF Tables
<1>5. QED
  BY <1>3, <1>4

LEMMA SslServedInvariant ==
  ASSUME \A q \in Requested : LeavesSslAlone(q)
  PROVE  Spec => []SslServed
<1>1. Init => SslServed
  <2> SUFFICES ASSUME Init PROVE SslServed
    OBVIOUS
  <2>1. db.ssl => \A f \in Files : disk.file[f] = Live
    BY DEF Init
  <2>2. \A r \in Restores : request[r] = None /\ pc[r] = "idle"
    BY DEF Init
  <2>3. tx = None /\ Live # None
    BY RestoreAssumption DEF Init, Origins
  <2>4. QED
    BY <2>1, <2>2, <2>3 DEF SslServed, HasFiles, Files
<1>2. Types /\ SslServed /\ [Next]_vars => SslServed'
  <2> SUFFICES ASSUME Types, SslServed, [Next]_vars PROVE SslServed'
    OBVIOUS
  <2>1. ASSUME NEW r \in Restores
        PROVE  /\ pc'[r] \notin {"unlink", "write"}
               /\ request'[r] # None => LeavesSslAlone(request'[r])
    <3>1. request'[r] \in {request[r]} \cup Requested
      <4>1. CASE \E s \in Restores, q \in Requested : Begin(s, q)
        BY <4>1 DEF Begin, Types, TypeOK
      <4>2. CASE request' = request
        BY <4>2
      <4>3. QED
        BY <4>1, <4>2
        DEF Next, vars, Work, Start, Wipe, Commit, SslFiles, Unlink, Fill, Write, Written, Secrets,
            Persist, Complete, Restart, Fail, ReportFailure, Finish, CreateZone, DeleteZone, Stop, Boot
    <3>2. pc'[r] \notin {"unlink", "write"}
      <4>1. pc[r] # "idle" => LeavesSslAlone(request[r])
        BY DEF SslServed, Types, Control
      <4>2. QED
        BY <4>1, WorkerSteps DEF WorkerStep, SslServed, LeavesSslAlone, Cats
    <3>3. QED
      BY <3>1, <3>2 DEF SslServed
  <2>2. disk'.file = disk.file
    <3>1. CASE \E r \in Restores : Persist(r)
      BY <3>1 DEF Persist, Types, TypeOK
    <3>2. CASE disk' = disk
      BY <3>2
    <3>3. QED
      BY <3>1, <3>2
      DEF SslServed, At, Next, vars, Work, Start, Wipe, Commit, SslFiles, Unlink, Fill, Write, Written,
          Secrets, Complete, Restart, Fail, ReportFailure, Finish, Begin, CreateZone, DeleteZone,
          Stop, Boot
  <2>3. tx' # None => \A r \in Restores : TablesOf(r)' = TablesOf(r)
    BY RequestsStay DEF TablesOf, Cats
  <2>4. ASSUME NEW r \in Restores, Opens(r) PROVE tx'.db.ssl => db.ssl
    BY <2>4 DEF Opens, Wiped, Types, TypeOK, Tables
  <2>5. ASSUME NEW r \in Restores, NEW c \in Categories, Fills(r, c)
        PROVE  tx'.db.ssl => tx.db.ssl
    <3>1. tx'.db.ssl = IF c = "settings" THEN request[r].ssl ELSE tx.db.ssl
      BY <2>5, FilledSsl DEF Fills, Transactions
    <3>2. c \in TablesOf(r)
      BY <2>5 DEF Fills, SslServed, OpenServed
    <3>3. c = "settings" => ~request[r].ssl
      BY <2>5, <3>2, RestoreAssumption DEF Fills, SslServed, TablesOf, Cats, LeavesSslAlone
    <3>4. QED
      BY <3>1, <3>3
  <2>6. (db'.ssl => db.ssl \/ (tx # None /\ tx.db.ssl))
    <3>1. CASE \/ Rotates \/ (\E name \in ZoneNames : CreateZone(name))
               \/ \E id \in ZoneIds : DeleteZone(id)
      BY <3>1 DEF Rotates, CreateZone, DeleteZone, Types, TypeOK, Tables
    <3>2. QED
      BY <3>1, TableSteps DEF TableStep, Opens, Fills, Commits
  <2>7. HasFiles' <=> HasFiles
    BY <2>2 DEF HasFiles
  <2>8. ASSUME tx' # None PROVE OpenServed(tx)'
    <3> DEFINE Served == /\ tx'.by \in Restores /\ tx'.left \subseteq TablesOf(tx'.by)
                         /\ tx'.db.ssl => HasFiles
    <3>1. SUFFICES Served
      BY <2>3, <2>7, <2>8 DEF OpenServed
    <3>2. CASE tx' = tx
      BY <2>8, <3>2 DEF SslServed, OpenServed, Types, TypeOK, Transactions
    <3>3. ASSUME NEW r \in Restores, Opens(r) PROVE Served
      BY <2>4, <3>3 DEF Opens, SslServed
    <3>4. ASSUME NEW r \in Restores, NEW c \in Categories, Fills(r, c) PROVE Served
      BY <2>5, <3>4 DEF Fills, SslServed, OpenServed
    <3>5. QED
      BY <2>8, <3>2, <3>3, <3>4, TableSteps
      DEF TableStep, Commits, Rotates, CreateZone, DeleteZone, Unlocked
  <2>9. db'.ssl => HasFiles'
    BY <2>6, <2>7 DEF SslServed, OpenServed
  <2>10. QED
    BY <2>1, <2>8, <2>9 DEF SslServed
<1>3. QED
  BY <1>1, <1>2, TypesInvariant, PTL DEF Spec

(* Restores that bring no certificate files and no settings with SSL on    *)
(* never keep the process from starting again, whatever fails.             *)
THEOREM RestoreStaysBootable ==
  ASSUME \A q \in Requested : LeavesSslAlone(q)
  PROVE  Spec => []CanStart
<1>1. Types /\ SslServed /\ StoredDecrypts => CanStart
  BY DEF Types, TypeOK, Tables, SslServed, HasFiles, StoredDecrypts, CanStart
<1>2. Spec => []SslServed
  BY SslServedInvariant
<1>3. QED
  BY <1>1, <1>2, TypesInvariant, NothingIsLockedAway, PTL
=============================================================================
