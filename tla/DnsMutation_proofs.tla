------------------------- MODULE DnsMutation_proofs -------------------------
(***************************************************************************)
(* Proofs about AccessControl, for any number of keys, zones, providers    *)
(* and concurrent administrators, and about DnsMutation, which composes    *)
(* them with any number of concurrent requests, whatever a provider        *)
(* lookup answers.                                                         *)
(***************************************************************************)
EXTENDS DnsMutation, FiniteSetTheorems, TLAPS

(* No handler deletes a key, so the row an update loaded is still there    *)
(* when the update commits.                                                *)
UpdatedKeyExists ==
    \A a \in Admins : admin[a].pc = "keySave" => keys[admin[a].key] # NoRow

TypeInv == AccessTypeOK /\ UpdatedKeyExists

(* A write of one row of the key table. *)
LEMMA RowReplaced ==
  ASSUME AccessTypeOK, NEW k \in Keys, NEW row \in KeyRow,
         keys' = [keys EXCEPT ![k] = row]
  PROVE  /\ keys' \in [Keys -> {NoRow} \cup KeyRow]
         /\ \A j \in Keys : keys[j] # NoRow => keys'[j] # NoRow
         /\ \A j \in Keys \ {k} : keys'[j] = keys[j]
         /\ keys'[k] = row
<1>1. row # NoRow
  BY AccessAssumption
<1>2. QED
  BY <1>1 DEF AccessTypeOK

(* The commit of a key update keeps the active flag of the row; the row is *)
(* the one the handler loaded.                                             *)
LEMMA SaveWritesRow ==
  ASSUME AccessTypeOK, UpdatedKeyExists, NEW a \in Admins, KeySave(a)
  PROVE  /\ admin[a].key \in Keys
         /\ admin[a].zones \in SUBSET ZoneIds
         /\ \E row \in KeyRow : /\ row.active = keys[admin[a].key].active
                               /\ keys' = [keys EXCEPT ![admin[a].key] = row]
<1>1. admin[a] \in Handler /\ admin[a].pc = "keySave"
  BY DEF AccessTypeOK, KeySave
<1>2. /\ admin[a].key \in Keys
      /\ admin[a].rw \in BOOLEAN
      /\ admin[a].zones \in SUBSET ZoneIds
  BY <1>1 DEF Handler
<1>3. keys[admin[a].key] \in KeyRow
  BY <1>1, <1>2 DEF UpdatedKeyExists, AccessTypeOK
<1> DEFINE old == keys[admin[a].key]
           mode == IF admin[a].rw = admin[a].was THEN old.rw ELSE admin[a].rw
           row == [old EXCEPT !.rw = mode]
<1>4. mode \in BOOLEAN
  BY <1>2, <1>3 DEF KeyRow
<1>5. keys' = [keys EXCEPT ![admin[a].key] = row]
  BY DEF KeySave
<1>6. old \in KeyRow
  BY <1>3
<1> HIDE DEF mode, old
<1>7. row \in KeyRow /\ row.active = old.active
  BY <1>4, <1>6 DEF KeyRow
<1> HIDE DEF row
<1>8. QED
  BY <1>2, <1>5, <1>7 DEF old

(* The commit of a revocation. *)
LEMMA RevokeWritesRow ==
  ASSUME AccessTypeOK, NEW a \in Admins, NEW k \in Keys, KeyRevoke(a, k)
  PROVE  \E row \in KeyRow : ~row.active /\ keys' = [keys EXCEPT ![k] = row]
<1> DEFINE old == keys[k]
           row == [old EXCEPT !.active = FALSE]
<1>1. old \in KeyRow
  BY DEF KeyRevoke, AccessTypeOK
<1>2. keys' = [keys EXCEPT ![k] = row]
  BY DEF KeyRevoke
<1> HIDE DEF old
<1>3. row \in KeyRow /\ ~row.active
  BY <1>1 DEF KeyRow
<1> HIDE DEF row
<1>4. QED
  BY <1>2, <1>3

(* Every commit keeps the types and the row of a pending key update. *)
LEMMA TypeInvariant == AccessSpec => []TypeInv
<1>1. AccessInit => TypeInv
  BY DEF AccessInit, TypeInv, UpdatedKeyExists, AccessTypeOK, Handler, Idle
<1>2. TypeInv /\ [AdminStep]_accessVars => TypeInv'
  <2> SUFFICES ASSUME AccessTypeOK, UpdatedKeyExists, [AdminStep]_accessVars
               PROVE  TypeInv'
    BY DEF TypeInv
  <2> USE DEF TypeInv, UpdatedKeyExists, AccessTypeOK, Step, Finish, Idle
  <2>1. ASSUME NEW a \in Admins, NEW k \in Keys, NEW rw \in BOOLEAN,
               NEW zs \in SUBSET ZoneIds, KeyCreate(a, k, rw, zs)
        PROVE  TypeInv'
    BY <2>1 DEF KeyCreate, Handler, KeyRow
  <2>2. ASSUME NEW a \in Admins, NEW k \in Keys, NEW rw \in BOOLEAN,
               NEW zs \in SUBSET ZoneIds, KeyUpdate(a, k, rw, zs)
        PROVE  TypeInv'
    BY <2>2 DEF KeyUpdate, Handler, KeyRow, LinksOfKey
  <2>3. ASSUME NEW a \in Admins, KeySave(a) PROVE TypeInv'
    <3>1. PICK row \in KeyRow : keys' = [keys EXCEPT ![admin[a].key] = row]
      BY <2>3, SaveWritesRow
    <3>2. /\ keys' \in [Keys -> {NoRow} \cup KeyRow]
          /\ \A j \in Keys : keys[j] # NoRow => keys'[j] # NoRow
      BY <2>3, <3>1, SaveWritesRow, RowReplaced
    <3>3. admin[a].key \in Keys /\ admin[a].zones \in SUBSET ZoneIds
      BY <2>3, SaveWritesRow
    <3>4. QED
      BY <2>3, <3>2, <3>3 DEF KeySave, Handler
  <2>4. ASSUME NEW a \in Admins, KeyFindZones(a) PROVE TypeInv'
    BY <2>4 DEF KeyFindZones, Handler
  <2>5. ASSUME NEW a \in Admins, KeyLink(a) PROVE TypeInv'
    BY <2>5 DEF KeyLink, Handler, Link
  <2>6. ASSUME NEW a \in Admins, NEW k \in Keys, KeyRevoke(a, k)
        PROVE  TypeInv'
    <3>1. PICK row \in KeyRow : keys' = [keys EXCEPT ![k] = row]
      BY <2>6, RevokeWritesRow
    <3>2. /\ keys' \in [Keys -> {NoRow} \cup KeyRow]
          /\ \A j \in Keys : keys[j] # NoRow => keys'[j] # NoRow
      BY <3>1, RowReplaced
    <3>3. QED
      BY <2>6, <3>2 DEF KeyRevoke, Handler
  <2>7. ASSUME NEW a \in Admins, NEW row \in ZoneRow, ZoneCreate(a, row)
        PROVE  TypeInv'
    BY <2>7 DEF ZoneCreate, Handler
  <2>8. ASSUME NEW a \in Admins, ZoneInsert(a) PROVE TypeInv'
    BY <2>8 DEF ZoneInsert, Handler
  <2>9. ASSUME NEW a \in Admins, NEW i \in ZoneIds, NEW p \in Providers,
               ZoneUpdate(a, i, p)
        PROVE  TypeInv'
    BY <2>9 DEF ZoneUpdate, Handler
  <2>10. ASSUME NEW a \in Admins, ZoneSave(a) PROVE TypeInv'
    BY <2>10 DEF ZoneSave, Handler, ZoneRow, Exists
  <2>11. ASSUME NEW a \in Admins, NEW i \in ZoneIds, ZoneDelete(a, i)
         PROVE  TypeInv'
    BY <2>11 DEF ZoneDelete, Handler
  <2>12. ASSUME NEW a \in Admins, ZoneDetach(a) PROVE TypeInv'
    BY <2>12 DEF ZoneDetach, Handler, LinksOfZone
  <2>13. ASSUME NEW a \in Admins, ZoneDrop(a) PROVE TypeInv'
    BY <2>13 DEF ZoneDrop, Handler
  <2>14. ASSUME NEW a \in Admins, NEW p \in Providers,
                PluginDisable(a, p) \/ PluginEnable(a, p)
         PROVE  TypeInv'
    BY <2>14 DEF PluginDisable, PluginEnable, Handler
  <2>15. ASSUME NEW a \in Admins, PluginSave(a) PROVE TypeInv'
    BY <2>15 DEF PluginSave, Handler
  <2>16. CASE Restart
    BY <2>16 DEF Restart, Handler
  <2>17. CASE UNCHANGED accessVars
    BY <2>17 DEF accessVars
  <2>18. QED
    BY <2>1, <2>2, <2>3, <2>4, <2>5, <2>6, <2>7, <2>8, <2>9, <2>10, <2>11,
       <2>12, <2>13, <2>14, <2>15, <2>16, <2>17 DEF AdminStep
<1>3. QED
  BY <1>1, <1>2, PTL DEF AccessSpec

(* The next zone row id lies within the bound when a zone is inserted, so  *)
(* the type of the tables and of what unfinished handlers have read is     *)
(* kept by every commit.                                                   *)
THEOREM TypeCorrect == AccessSpec => []AccessTypeOK
<1>1. TypeInv => AccessTypeOK
  BY DEF TypeInv
<1>2. QED
  BY <1>1, TypeInvariant, PTL

-----------------------------------------------------------------------------
(* The guard of settings_plugin_disable, counted: when more than one       *)
(* provider is enabled, one other than p is.                               *)
LEMMA AnotherEnabled ==
  ASSUME NEW p \in Providers, Cardinality(Providers \ disabled) > 1
  PROVE  \E q \in Providers \ disabled : q # p
<1> SUFFICES ASSUME \A q \in Providers \ disabled : q = p
             PROVE  FALSE
  OBVIOUS
<1>1. CASE Providers \ disabled = {}
  BY <1>1, FS_EmptySet
<1>2. CASE Providers \ disabled # {}
  <2>1. Providers \ disabled = {p}
    BY <1>2
  <2>2. QED
    BY <2>1, FS_Singleton
<1>3. QED
  BY <1>1, <1>2

(* A handler that is about to disable a provider still knows of another    *)
(* one that its read found enabled, and one that is about to enable a      *)
(* provider leaves at least that one.                                      *)
DisableLeavesOne ==
    \A a \in Admins :
       admin[a].pc = "disable" =>
          \E q \in Providers \ admin[a].seen : q # admin[a].provider

(* "At least one DNS provider plugin must remain enabled": whatever the    *)
(* interleaving of administrators disabling and enabling plugins.          *)
THEOREM PluginsRemain == AccessSpec => []SomePluginEnabled
<1>1. AccessInit => SomePluginEnabled /\ DisableLeavesOne
  BY AccessAssumption DEF AccessInit, SomePluginEnabled, DisableLeavesOne, Idle
<1>2. /\ SomePluginEnabled /\ DisableLeavesOne
      /\ AccessTypeOK /\ [AdminStep]_accessVars
      => (SomePluginEnabled /\ DisableLeavesOne)'
  <2> SUFFICES ASSUME SomePluginEnabled, DisableLeavesOne, AccessTypeOK,
                      [AdminStep]_accessVars
               PROVE  (SomePluginEnabled /\ DisableLeavesOne)'
    OBVIOUS
  <2> USE DEF SomePluginEnabled, DisableLeavesOne, AccessTypeOK, Step, Finish, Idle
  <2>1. ASSUME NEW a \in Admins, NEW p \in Providers, PluginDisable(a, p)
        PROVE  (SomePluginEnabled /\ DisableLeavesOne)'
    <3>1. \E q \in Providers \ disabled : q # p
      BY <2>1, AnotherEnabled DEF PluginDisable
    <3>2. QED
      BY <2>1, <3>1 DEF PluginDisable
  <2>2. ASSUME NEW a \in Admins, NEW p \in Providers, PluginEnable(a, p)
        PROVE  (SomePluginEnabled /\ DisableLeavesOne)'
    BY <2>2 DEF PluginEnable
  <2>3. ASSUME NEW a \in Admins, PluginSave(a)
        PROVE  (SomePluginEnabled /\ DisableLeavesOne)'
    <3>1. disabled' # Providers
      BY <2>3 DEF PluginSave, Handler
    <3>2. QED
      BY <2>3, <3>1 DEF PluginSave
  <2>4. ASSUME UNCHANGED disabled,
               \A b \in Admins : admin'[b].pc = "disable" => admin'[b] = admin[b]
        PROVE  (SomePluginEnabled /\ DisableLeavesOne)'
    BY <2>4
  <2>5. ASSUME NEW a \in Admins, NEW k \in Keys, NEW rw \in BOOLEAN,
               NEW zs \in SUBSET ZoneIds,
               KeyCreate(a, k, rw, zs) \/ KeyUpdate(a, k, rw, zs)
        PROVE  (SomePluginEnabled /\ DisableLeavesOne)'
    BY <2>4, <2>5 DEF KeyCreate, KeyUpdate
  <2>6. ASSUME NEW a \in Admins, KeySave(a) \/ KeyFindZones(a) \/ KeyLink(a)
        PROVE  (SomePluginEnabled /\ DisableLeavesOne)'
    BY <2>4, <2>6 DEF KeySave, KeyFindZones, KeyLink
  <2>7. ASSUME NEW a \in Admins, NEW k \in Keys, KeyRevoke(a, k)
        PROVE  (SomePluginEnabled /\ DisableLeavesOne)'
    BY <2>4, <2>7 DEF KeyRevoke
  <2>8. ASSUME NEW a \in Admins, NEW row \in ZoneRow, ZoneCreate(a, row)
        PROVE  (SomePluginEnabled /\ DisableLeavesOne)'
    BY <2>4, <2>8 DEF ZoneCreate
  <2>9. ASSUME NEW a \in Admins, NEW i \in ZoneIds, NEW p \in Providers,
               ZoneUpdate(a, i, p) \/ ZoneDelete(a, i)
        PROVE  (SomePluginEnabled /\ DisableLeavesOne)'
    BY <2>4, <2>9 DEF ZoneUpdate, ZoneDelete
  <2>10. ASSUME NEW a \in Admins,
                ZoneInsert(a) \/ ZoneSave(a) \/ ZoneDetach(a) \/ ZoneDrop(a)
         PROVE  (SomePluginEnabled /\ DisableLeavesOne)'
    BY <2>4, <2>10 DEF ZoneInsert, ZoneSave, ZoneDetach, ZoneDrop
  <2>11. CASE Restart
    BY <2>4, <2>11 DEF Restart
  <2>12. CASE UNCHANGED accessVars
    BY <2>12 DEF accessVars
  <2>13. QED
    BY <2>1, <2>2, <2>3, <2>5, <2>6, <2>7, <2>8, <2>9, <2>10, <2>11, <2>12,
       AccessAssumption DEF AdminStep
<1>3. QED
  BY <1>1, <1>2, TypeCorrect, PTL DEF AccessSpec

-----------------------------------------------------------------------------
(* A revoked key is never usable again: the edit of a key writes only the  *)
(* columns it changed, so it cannot bring back an active flag it read      *)
(* before the revocation.                                                  *)
THEOREM RevokedStaysRevoked == AccessSpec => RevocationIsFinal
<1> DEFINE Kept == \A k \in Keys : (keys[k] # NoRow /\ ~keys[k].active)
                                      => (keys'[k] # NoRow /\ ~keys'[k].active)
<1>1. TypeInv /\ [AdminStep]_accessVars => [Kept]_accessVars
  <2> SUFFICES ASSUME AccessTypeOK, UpdatedKeyExists, AdminStep
               PROVE  Kept
    BY DEF TypeInv
  <2>1. CASE UNCHANGED keys
    BY <2>1
  <2>2. ASSUME NEW a \in Admins, NEW k \in Keys, NEW rw \in BOOLEAN,
               NEW zs \in SUBSET ZoneIds, KeyCreate(a, k, rw, zs)
        PROVE  Kept
    BY <2>2 DEF KeyCreate, AccessTypeOK
  <2>3. ASSUME NEW a \in Admins, KeySave(a) PROVE Kept
    <3>1. PICK row \in KeyRow : /\ row.active = keys[admin[a].key].active
                                /\ keys' = [keys EXCEPT ![admin[a].key] = row]
      BY <2>3, SaveWritesRow
    <3>2. admin[a].key \in Keys
      BY <2>3, SaveWritesRow
    <3>3. QED
      BY <3>1, <3>2, RowReplaced
  <2>4. ASSUME NEW a \in Admins, NEW k \in Keys, KeyRevoke(a, k) PROVE Kept
    <3>1. PICK row \in KeyRow : ~row.active /\ keys' = [keys EXCEPT ![k] = row]
      BY <2>4, RevokeWritesRow
    <3>2. QED
      BY <3>1, RowReplaced
  <2>5. QED
    BY <2>1, <2>2, <2>3, <2>4
    DEF AdminStep, KeyUpdate, KeyFindZones, KeyLink, ZoneCreate, ZoneInsert,
        ZoneUpdate, ZoneSave, ZoneDelete, ZoneDetach, ZoneDrop,
        PluginDisable, PluginEnable, PluginSave, Restart
<1>2. QED
  BY <1>1, TypeInvariant, PTL DEF AccessSpec, RevocationIsFinal

-----------------------------------------------------------------------------
(* No two zone rows have one name.  An insertion that is pending was       *)
(* checked against the names there are, and until it commits no other      *)
(* coroutine inserts a row; deletions in between only help.                *)
ZoneNamesUnique == \A i, j \in LiveIds : zones[i].name = zones[j].name => i = j

PendingNamesFree ==
    /\ \A a \in Admins : admin[a].pc = "zoneInsert" =>
          \A i \in LiveIds : zones[i].name # admin[a].row.name
    /\ \A a, b \in Admins :
          /\ admin[a].pc \in {"zoneInsert", "zoneSave"}
          /\ admin[b].pc \in {"zoneInsert", "zoneSave"}
          => a = b

NamesInv == ZoneNamesUnique /\ PendingNamesFree

(* The UNIQUE constraint on zone_name never fires after the check of       *)
(* zone_create, however many administrators create, update and delete.     *)
THEOREM NamesStayUnique == AccessSpec => []ZoneNamesUnique
<1>1. AccessInit => NamesInv
  BY DEF AccessInit, NamesInv, ZoneNamesUnique, PendingNamesFree, LiveIds, Exists, Idle
<1>2. AccessTypeOK /\ NamesInv /\ [AdminStep]_accessVars => NamesInv'
  <2> SUFFICES ASSUME AccessTypeOK, NamesInv, [AdminStep]_accessVars PROVE NamesInv'
    OBVIOUS
  <2> USE DEF Step, Finish, Idle
  (* a step that starts no coroutine and leaves every name *)
  <2>1. ASSUME \A i \in LiveIds' : i \in LiveIds /\ zones'[i].name = zones[i].name,
               \A a \in Admins : admin'[a].pc \in {"zoneInsert", "zoneSave"} =>
                  admin'[a] = admin[a]
        PROVE  NamesInv'
    BY <2>1 DEF NamesInv, ZoneNamesUnique, PendingNamesFree
  <2>2. CASE UNCHANGED <<zones, admin>>
    BY <2>1, <2>2 DEF LiveIds, Exists
  <2>3. ASSUME NEW a \in Admins, NEW rec, admin' = [admin EXCEPT ![a] = rec],
               rec.pc \notin {"zoneInsert", "zoneSave"}, UNCHANGED zones
        PROVE  NamesInv'
    <3>1. \A b \in Admins : b # a => admin'[b] = admin[b]
      BY <2>3 DEF AccessTypeOK
    <3>2. admin'[a] = rec
      BY <2>3 DEF AccessTypeOK
    <3>3. QED
      BY <2>1, <2>3, <3>1, <3>2 DEF LiveIds, Exists
  <2>4. ASSUME NEW a \in Admins, NEW k \in Keys, NEW rw \in BOOLEAN,
               NEW zs \in SUBSET ZoneIds,
               KeyCreate(a, k, rw, zs) \/ KeyUpdate(a, k, rw, zs)
        PROVE  NamesInv'
    BY <2>3, <2>4 DEF KeyCreate, KeyUpdate
  <2>5. ASSUME NEW a \in Admins, KeySave(a) \/ KeyFindZones(a) \/ KeyLink(a)
        PROVE  NamesInv'
    BY <2>3, <2>5 DEF KeySave, KeyFindZones, KeyLink
  <2>6. ASSUME NEW a \in Admins, NEW k \in Keys, KeyRevoke(a, k) PROVE NamesInv'
    BY <2>2, <2>6 DEF KeyRevoke
  <2>7. ASSUME NEW a \in Admins, NEW row \in ZoneRow, ZoneCreate(a, row)
        PROVE  NamesInv'
    <3>1. /\ admin'[a] = [pc |-> "zoneInsert", row |-> row]
          /\ \A b \in Admins : b # a => admin'[b] = admin[b]
      BY <2>7 DEF ZoneCreate, AccessTypeOK
    <3>2. \A b \in Admins : admin[b].pc \notin {"zoneInsert", "zoneSave"}
      BY <2>7 DEF ZoneCreate, LoopFree
    <3>3. zones' = zones /\ \A i \in LiveIds : zones[i].name # row.name
      BY <2>7 DEF ZoneCreate
    <3>4. QED
      BY <3>1, <3>2, <3>3 DEF NamesInv, ZoneNamesUnique, PendingNamesFree, LiveIds, Exists
  <2>8. ASSUME NEW a \in Admins, NEW i \in ZoneIds, NEW p \in Providers, ZoneUpdate(a, i, p)
        PROVE  NamesInv'
    <3>1. /\ admin'[a].pc = "zoneSave"
          /\ \A b \in Admins : b # a => admin'[b] = admin[b]
      BY <2>8 DEF ZoneUpdate, AccessTypeOK
    <3>2. \A b \in Admins : admin[b].pc \notin {"zoneInsert", "zoneSave"}
      BY <2>8 DEF ZoneUpdate, LoopFree
    <3>3. zones' = zones
      BY <2>8 DEF ZoneUpdate
    <3>4. QED
      BY <3>1, <3>2, <3>3 DEF NamesInv, ZoneNamesUnique, PendingNamesFree, LiveIds, Exists
  <2>9. ASSUME NEW a \in Admins, ZoneInsert(a) PROVE NamesInv'
    <3>1. /\ admin'[a].pc = "idle" /\ admin[a].pc = "zoneInsert"
          /\ \A b \in Admins : b # a => admin'[b] = admin[b]
      BY <2>9 DEF ZoneInsert, AccessTypeOK
    <3>2. \A b \in Admins : admin'[b].pc \notin {"zoneInsert", "zoneSave"}
      BY <3>1 DEF NamesInv, PendingNamesFree
    <3> DEFINE new == NextZoneId
    <3>3. /\ new \in ZoneIds /\ zones'[new] = admin[a].row
          /\ \A i \in ZoneIds : i # new => zones'[i] = zones[i]
      BY <2>9 DEF ZoneInsert, AccessTypeOK
    <3> HIDE DEF new
    <3>4. \A i \in LiveIds' : i = new \/ (i \in LiveIds /\ zones'[i].name = zones[i].name)
      BY <3>3 DEF LiveIds, Exists
    <3>5. \A i \in LiveIds : zones[i].name # zones'[new].name
      BY <3>1, <3>3 DEF NamesInv, PendingNamesFree
    <3>6. ZoneNamesUnique'
      BY <3>4, <3>5 DEF NamesInv, ZoneNamesUnique
    <3>7. QED
      BY <3>2, <3>6 DEF NamesInv, PendingNamesFree
  <2>10. ASSUME NEW a \in Admins, ZoneSave(a) PROVE NamesInv'
    <3>1. \A i \in LiveIds' : i \in LiveIds /\ zones'[i].name = zones[i].name
      <4>1. admin[a].id \in ZoneIds
        BY <2>10 DEF ZoneSave, AccessTypeOK, Handler
      <4>2. QED
        BY <2>10, <4>1 DEF ZoneSave, LiveIds, Exists, AccessTypeOK, ZoneRow
    <3>2. /\ admin'[a].pc = "idle"
          /\ \A b \in Admins : b # a => admin'[b] = admin[b]
      BY <2>10 DEF ZoneSave, AccessTypeOK
    <3>3. QED
      BY <2>1, <3>1, <3>2
  <2>11. ASSUME NEW a \in Admins, NEW i \in ZoneIds, ZoneDelete(a, i) PROVE NamesInv'
    BY <2>3, <2>11 DEF ZoneDelete
  <2>12. ASSUME NEW a \in Admins, ZoneDetach(a) PROVE NamesInv'
    BY <2>3, <2>12 DEF ZoneDetach
  <2>13. ASSUME NEW a \in Admins, ZoneDrop(a) PROVE NamesInv'
    <3>1. \A i \in LiveIds' : i \in LiveIds /\ zones'[i].name = zones[i].name
      BY <2>13 DEF ZoneDrop, LiveIds, Exists, AccessTypeOK
    <3>2. /\ admin'[a].pc = "idle"
          /\ \A b \in Admins : b # a => admin'[b] = admin[b]
      BY <2>13 DEF ZoneDrop, AccessTypeOK
    <3>3. QED
      BY <2>1, <3>1, <3>2
  <2>14. ASSUME NEW a \in Admins, NEW p \in Providers,
                PluginDisable(a, p) \/ PluginEnable(a, p)
         PROVE  NamesInv'
    BY <2>3, <2>14 DEF PluginDisable, PluginEnable
  <2>15. ASSUME NEW a \in Admins, PluginSave(a) PROVE NamesInv'
    BY <2>3, <2>15 DEF PluginSave
  <2>16. CASE Restart
    BY <2>1, <2>16 DEF Restart, LiveIds, Exists
  <2>17. CASE UNCHANGED accessVars
    BY <2>2, <2>17 DEF accessVars
  <2>18. QED
    BY <2>4, <2>5, <2>6, <2>7, <2>8, <2>9, <2>10, <2>11, <2>12, <2>13, <2>14,
       <2>15, <2>16, <2>17 DEF AdminStep
<1>3. NamesInv => ZoneNamesUnique
  BY DEF NamesInv
<1>4. QED
  BY <1>1, <1>2, <1>3, TypeCorrect, PTL DEF AccessSpec

-----------------------------------------------------------------------------
(* What one administrator at a time keeps.  A handler that is alone finds  *)
(* at its commit what it read before it.                                   *)
OneAdmin == \A a, b \in Admins : a = b

UsedPluginsEnabled == \A i \in LiveIds : zones[i].provider \notin disabled

ReadsStand(a) ==
    /\ admin[a].pc = "keyCommit" => admin[a].found \subseteq LiveIds
    /\ admin[a].pc = "zoneDelete" => LinksOfZone(admin[a].id) \subseteq admin[a].stale
    /\ admin[a].pc = "zoneInsert" => admin[a].row.provider \notin disabled
    /\ admin[a].pc = "zoneSave" => admin[a].provider \notin disabled
    /\ admin[a].pc \in {"disable", "enable"} => admin[a].seen = disabled
    /\ admin[a].pc = "disable" => ZonesUsing(admin[a].provider) = {}

LoneInv ==
    NoDanglingLinks /\ UsedPluginsEnabled /\ \A a \in Admins : ReadsStand(a)

LEMMA LoneAdmin ==
  ASSUME OneAdmin
  PROVE  AccessSpec => []LoneInv
<1>1. AccessInit => LoneInv
  BY DEF AccessInit, LoneInv, NoDanglingLinks, UsedPluginsEnabled, ReadsStand, LiveIds, Exists, Idle
<1>2. AccessTypeOK /\ LoneInv /\ [AdminStep]_accessVars => LoneInv'
  <2> SUFFICES ASSUME AccessTypeOK, LoneInv, [AdminStep]_accessVars PROVE LoneInv'
    OBVIOUS
  <2> USE DEF Step, Finish, Idle
  (* The step of the one handler there is: its new record is all that is   *)
  (* left to check.                                                        *)
  <2>1. ASSUME NEW a \in Admins, ReadsStand(a)', NoDanglingLinks', UsedPluginsEnabled'
        PROVE  LoneInv'
    BY <2>1, OneAdmin DEF LoneInv, OneAdmin
  <2>rec. ASSUME NEW a \in Admins, NEW rec, admin' = [admin EXCEPT ![a] = rec]
         PROVE  admin'[a] = rec
    BY <2>rec DEF AccessTypeOK
  <2>idle. ASSUME NEW a \in Admins, admin' = [admin EXCEPT ![a] = Idle],
                NoDanglingLinks', UsedPluginsEnabled'
         PROVE  LoneInv'
    <3>1. admin'[a].pc = "idle"
      BY <2>rec, <2>idle
    <3>2. QED
      BY <2>1, <2>idle, <3>1 DEF ReadsStand
  <2>2. ASSUME UNCHANGED <<zones, disabled>>, links' \subseteq links
        PROVE  /\ NoDanglingLinks' /\ UsedPluginsEnabled'
               /\ LiveIds' = LiveIds
    BY <2>2 DEF LoneInv, NoDanglingLinks, UsedPluginsEnabled, LiveIds, Exists
  <2>3. ASSUME NEW a \in Admins, NEW k \in Keys, NEW rw \in BOOLEAN,
               NEW zs \in SUBSET ZoneIds,
               KeyCreate(a, k, rw, zs) \/ KeyUpdate(a, k, rw, zs)
        PROVE  LoneInv'
    <3>1. admin'[a].pc \in {"keyLinks", "keySave"}
      BY <2>3, <2>rec DEF KeyCreate, KeyUpdate
    <3>2. QED
      BY <2>1, <2>2, <2>3, <3>1 DEF KeyCreate, KeyUpdate, ReadsStand
  <2>4. ASSUME NEW a \in Admins, KeySave(a) PROVE LoneInv'
    BY <2>1, <2>2, <2>4 DEF KeySave, ReadsStand
  <2>5. ASSUME NEW a \in Admins, KeyFindZones(a) PROVE LoneInv'
    <3>1. admin'[a] = [pc |-> "keyCommit", key |-> admin[a].key, found |-> admin[a].zones \cap LiveIds]
      BY <2>5, <2>rec DEF KeyFindZones
    <3>2. ReadsStand(a)'
      BY <2>5, <3>1 DEF KeyFindZones, ReadsStand, LiveIds, Exists
    <3>3. QED
      BY <2>1, <2>2, <2>5, <3>2 DEF KeyFindZones
  <2>6. ASSUME NEW a \in Admins, KeyLink(a) PROVE LoneInv'
    <3>1. admin[a].found \subseteq LiveIds
      BY <2>6 DEF KeyLink, LoneInv, ReadsStand
    <3>2. NoDanglingLinks' /\ UsedPluginsEnabled'
      BY <2>6, <3>1 DEF KeyLink, LoneInv, NoDanglingLinks, UsedPluginsEnabled, LiveIds, Exists
    <3>3. QED
      BY <2>idle, <2>6, <3>2 DEF KeyLink
  <2>7. ASSUME NEW a \in Admins, NEW k \in Keys, KeyRevoke(a, k) PROVE LoneInv'
    BY <2>7 DEF KeyRevoke, LoneInv, NoDanglingLinks, UsedPluginsEnabled, ReadsStand,
                LiveIds, Exists, LinksOfZone, ZonesUsing
  <2>8. ASSUME NEW a \in Admins, NEW row \in ZoneRow, ZoneCreate(a, row) PROVE LoneInv'
    <3>1. admin'[a] = [pc |-> "zoneInsert", row |-> row]
      BY <2>8, <2>rec DEF ZoneCreate
    <3>2. ReadsStand(a)'
      BY <2>8, <3>1 DEF ZoneCreate, ReadsStand
    <3>3. QED
      BY <2>1, <2>2, <2>8, <3>2 DEF ZoneCreate
  <2>9. ASSUME NEW a \in Admins, ZoneInsert(a) PROVE LoneInv'
    <3> DEFINE new == NextZoneId
    <3>1. /\ new \in ZoneIds /\ zones' = [zones EXCEPT ![new] = admin[a].row]
          /\ admin[a].row \in ZoneRow /\ admin[a].row.provider \notin disabled
          /\ UNCHANGED <<links, disabled>> /\ admin' = [admin EXCEPT ![a] = Idle]
      BY <2>9 DEF ZoneInsert, LoneInv, ReadsStand, AccessTypeOK, Handler
    <3> HIDE DEF new
    <3>2. /\ zones'[new] = admin[a].row
          /\ \A i \in ZoneIds : i # new => zones'[i] = zones[i]
      BY <3>1 DEF AccessTypeOK
    <3>3. NoDanglingLinks'
      BY <3>1, <3>2, AccessAssumption
      DEF LoneInv, NoDanglingLinks, Exists, AccessTypeOK, Link
    <3>4. UsedPluginsEnabled'
      BY <3>1, <3>2 DEF LoneInv, UsedPluginsEnabled, LiveIds, Exists
    <3>5. QED
      BY <2>idle, <3>1, <3>3, <3>4
  <2>10. ASSUME NEW a \in Admins, NEW i \in ZoneIds, NEW p \in Providers, ZoneUpdate(a, i, p)
         PROVE  LoneInv'
    <3>1. admin'[a] = [pc |-> "zoneSave", id |-> i, provider |-> p]
      BY <2>10, <2>rec DEF ZoneUpdate
    <3>2. ReadsStand(a)'
      BY <2>10, <3>1 DEF ZoneUpdate, ReadsStand
    <3>3. QED
      BY <2>1, <2>2, <2>10, <3>2 DEF ZoneUpdate
  <2>11. ASSUME NEW a \in Admins, ZoneSave(a) PROVE LoneInv'
    <3>1. /\ admin[a].id \in ZoneIds /\ admin[a].provider \notin disabled
          /\ UNCHANGED <<links, disabled>> /\ admin' = [admin EXCEPT ![a] = Idle]
      BY <2>11 DEF ZoneSave, LoneInv, ReadsStand, AccessTypeOK, Handler
    <3>2. CASE zones' = zones
      BY <2>2, <2>idle, <3>1, <3>2
    <3>3. CASE Exists(admin[a].id) /\ zones' # zones
      <4> DEFINE id == admin[a].id
                 old == zones[id]
                 row == [old EXCEPT !.provider = admin[a].provider]
      <4>1. old \in ZoneRow /\ zones' = [zones EXCEPT ![id] = row]
        BY <2>11, <3>1, <3>3 DEF ZoneSave, Exists, AccessTypeOK
      <4> HIDE DEF old
      <4>2. row.provider = admin[a].provider /\ row \in ZoneRow
        <5>1. row.provider = admin[a].provider
          BY <4>1 DEF ZoneRow
        <5>2. admin[a].provider \in Providers
          BY <2>11 DEF ZoneSave, AccessTypeOK, Handler
        <5>3. QED
          BY <4>1, <5>1, <5>2 DEF ZoneRow
      <4> HIDE DEF row
      <4>3. /\ zones'[id] = row
            /\ \A i \in ZoneIds : i # id => zones'[i] = zones[i]
        BY <3>1, <4>1 DEF AccessTypeOK
      <4>4. NoDanglingLinks'
        BY <3>1, <3>3, <4>2, <4>3, AccessAssumption
        DEF LoneInv, NoDanglingLinks, Exists, AccessTypeOK, Link
      <4>5. UsedPluginsEnabled'
        BY <3>1, <4>2, <4>3 DEF LoneInv, UsedPluginsEnabled, LiveIds, Exists
      <4>6. QED
        BY <2>idle, <3>1, <4>4, <4>5
    <3>4. QED
      BY <2>11, <3>2, <3>3 DEF ZoneSave
  <2>12. ASSUME NEW a \in Admins, NEW i \in ZoneIds, ZoneDelete(a, i) PROVE LoneInv'
    <3>1. admin'[a] = [pc |-> "zoneDetach", id |-> i]
      BY <2>12, <2>rec DEF ZoneDelete
    <3>2. ReadsStand(a)'
      BY <2>12, <3>1 DEF ZoneDelete, ReadsStand
    <3>3. QED
      BY <2>1, <2>2, <2>12, <3>2 DEF ZoneDelete
  <2>13. ASSUME NEW a \in Admins, ZoneDetach(a) PROVE LoneInv'
    <3> DEFINE next == [pc |-> "zoneDelete", id |-> admin[a].id, stale |-> LinksOfZone(admin[a].id)]
    <3>1. UNCHANGED <<zones, links, disabled>>
      BY <2>13 DEF ZoneDetach
    <3>2. CASE admin' = [admin EXCEPT ![a] = next]
      <4>1. admin'[a] = next
        BY <2>rec, <3>2
      <4>2. ReadsStand(a)'
        BY <3>1, <4>1 DEF ReadsStand, LinksOfZone
      <4>3. QED
        BY <2>1, <2>2, <3>1, <4>2
    <3>3. CASE admin' = [admin EXCEPT ![a] = Idle]
      BY <2>2, <2>idle, <3>1, <3>3
    <3>4. QED
      BY <2>13, <3>2, <3>3 DEF ZoneDetach
  <2>14. ASSUME NEW a \in Admins, ZoneDrop(a) PROVE LoneInv'
    <3>1. /\ admin[a].id \in ZoneIds /\ LinksOfZone(admin[a].id) \subseteq admin[a].stale
          /\ links' = links \ admin[a].stale
          /\ zones' = [zones EXCEPT ![admin[a].id] = NoRow]
          /\ UNCHANGED disabled /\ admin' = [admin EXCEPT ![a] = Idle]
      BY <2>14 DEF ZoneDrop, LoneInv, ReadsStand, AccessTypeOK, Handler
    <3>2. /\ zones'[admin[a].id] = NoRow
          /\ \A i \in ZoneIds : i # admin[a].id => zones'[i] = zones[i]
      BY <3>1 DEF AccessTypeOK
    <3>3. \A l \in links' : l \in links /\ l[2] # admin[a].id
      BY <3>1 DEF LinksOfZone
    <3>4. NoDanglingLinks'
      BY <3>2, <3>3 DEF LoneInv, NoDanglingLinks, Exists, AccessTypeOK, Link
    <3>5. UsedPluginsEnabled'
      BY <3>1, <3>2 DEF LoneInv, UsedPluginsEnabled, LiveIds, Exists
    <3>6. QED
      BY <2>idle, <3>1, <3>4, <3>5
  <2>15. ASSUME NEW a \in Admins, NEW p \in Providers,
                PluginDisable(a, p) \/ PluginEnable(a, p)
         PROVE  LoneInv'
    <3>1. UNCHANGED <<zones, links, disabled>>
      BY <2>15 DEF PluginDisable, PluginEnable
    <3>2. /\ admin'[a].pc \in {"disable", "enable"} /\ admin'[a].seen = disabled
          /\ admin'[a].provider = p
          /\ admin'[a].pc = "disable" => ZonesUsing(p) = {}
      BY <2>15, <2>rec DEF PluginDisable, PluginEnable
    <3>3. ReadsStand(a)'
      BY <3>1, <3>2 DEF ReadsStand, ZonesUsing, LiveIds, Exists
    <3>4. QED
      BY <2>1, <2>2, <3>1, <3>3
  <2>16. ASSUME NEW a \in Admins, PluginSave(a) PROVE LoneInv'
    <3>1. /\ admin[a].pc \in {"disable", "enable"} /\ admin[a].seen = disabled
          /\ admin[a].pc = "disable" => ZonesUsing(admin[a].provider) = {}
          /\ disabled' = IF admin[a].pc = "disable" THEN disabled \cup {admin[a].provider}
                         ELSE disabled \ {admin[a].provider}
          /\ UNCHANGED <<zones, links>> /\ admin' = [admin EXCEPT ![a] = Idle]
      BY <2>16 DEF PluginSave, LoneInv, ReadsStand
    <3>2. NoDanglingLinks' /\ UsedPluginsEnabled'
      BY <3>1 DEF LoneInv, NoDanglingLinks, UsedPluginsEnabled, ZonesUsing, LiveIds, Exists
    <3>3. QED
      BY <2>idle, <3>1, <3>2
  <2>17. CASE Restart
    BY <2>2, <2>17 DEF Restart, LoneInv, ReadsStand
  <2>18. CASE UNCHANGED accessVars
    BY <2>18 DEF accessVars, LoneInv, NoDanglingLinks, UsedPluginsEnabled, ReadsStand,
                 LiveIds, Exists, LinksOfZone, ZonesUsing
  <2>19. QED
    BY <2>3, <2>4, <2>5, <2>6, <2>7, <2>8, <2>9, <2>10, <2>11, <2>12, <2>13, <2>14,
       <2>15, <2>16, <2>17, <2>18 DEF AdminStep
<1>3. QED
  BY <1>1, <1>2, TypeCorrect, PTL DEF AccessSpec

(* NoDanglingLinks: administrators who do not overlap leave no permission  *)
(* for a zone that is gone (api_key_update, zone_delete); two that do may. *)
THEOREM OneAdminNoDangling ==
  ASSUME OneAdmin
  PROVE  AccessSpec => []NoDanglingLinks
<1>1. LoneInv => NoDanglingLinks
  BY DEF LoneInv
<1>2. AccessSpec => []LoneInv
  BY OneAdmin, LoneAdmin
<1>3. QED
  BY <1>1, <1>2, PTL

(* "Cannot disable ... Delete DNS zones ... first": administrators who do  *)
(* not overlap leave no zone with a disabled plugin, so none whose         *)
(* requests are all answered 503 (settings_plugin_disable, zone_create,    *)
(* zone_update).                                                           *)
THEOREM UsedPluginsStay ==
  ASSUME OneAdmin
  PROVE  AccessSpec => []UsedPluginsEnabled
<1>1. LoneInv => UsedPluginsEnabled
  BY DEF LoneInv
<1>2. AccessSpec => []LoneInv
  BY OneAdmin, LoneAdmin
<1>3. QED
  BY <1>1, <1>2, PTL

-----------------------------------------------------------------------------
(* Requests leave the rows alone: the composition is a behaviour of the    *)
(* administrators, and what holds of them alone holds of it.               *)
THEOREM RequestsOnlyRead == Spec => AccessSpec
<1>1. Init => AccessInit
  BY DEF Init
<1>2. [Next]_vars => [AdminStep]_accessVars
  <2> SUFFICES ASSUME [Next]_vars PROVE [AdminStep]_accessVars
    OBVIOUS
  <2>1. CASE UNCHANGED vars
    BY <2>1 DEF vars, accessVars
  <2>2. ASSUME NEW r \in Requests, NEW q \in Ask, Arrive(r, q)
        PROVE  UNCHANGED accessVars
    BY <2>2 DEF Arrive, accessVars
  <2>3. ASSUME NEW r \in Requests, RequestStep(r)
        PROVE  UNCHANGED accessVars
    BY <2>3 DEF RequestStep, LoadKey, LoadZone, CheckLink, CheckPlugin,
                PreCheck, InnerRead, Write, accessVars
  <2>4. QED
    BY <2>1, <2>2, <2>3 DEF Next, Act
<1>3. QED
  BY <1>1, <1>2, PTL DEF Spec, AccessSpec

-----------------------------------------------------------------------------
Granted == {"plugin", "check", "inner", "write"}
Running(r) == req[r].pc \in Stages

(* What a handler knows was once true.  The first conjunct says that a     *)
(* running request has observed the current state; the others carry the    *)
(* answers of get_api_key and of the link lookup to the write.             *)
KnowledgeIsOld(r) ==
    /\ Running(r) => FactsOf(r) \subseteq past[r]
    /\ Running(r) /\ req[r].rw = TRUE => "key" \in past[r]
    /\ req[r].pc \in Granted => {"key", "link"} \subseteq past[r]
    /\ req[r].pc = "done" /\ req[r].wrote =>
          {"key", "link"} \subseteq past[r] /\ req[r].status \in {200} \cup Failures

Shape ==
    /\ rrset \in {Omit} \cup RRset
    /\ req \in [Requests -> Request]
    /\ past \in [Requests -> SUBSET Facts]

RequestInv == Shape /\ \A r \in Requests : KnowledgeIsOld(r)

(* The merge of a PATCH is a complete RRset. *)
LEMMA WantedIsRRset ==
  ASSUME NEW q \in Ask, NEW seen \in {Omit} \cup RRset,
         (q.mode = "create") = (seen = Omit)
  PROVE  Wanted(q, seen) \in {Omit} \cup RRset
<1>1. CASE q.mode = "delete"
  BY <1>1 DEF Wanted
<1>2. CASE q.mode = "patch"
  <2>1. q.ttl \in {Omit} \cup Ttls /\ q.values \in {Omit} \cup Data
    BY <1>2 DEF Ask
  <2>2. seen \in RRset
    BY <1>2
  <2>3. seen.ttl \in Ttls /\ seen.values \in Data
    BY <2>2 DEF RRset
  <2>4. QED
    BY <1>2, <2>1, <2>3 DEF Wanted, Merge, RRset
<1>3. CASE q.mode \in {"create", "replace"}
  <2>1. q.ttl \in Ttls /\ q.values \in Data
    BY <1>3 DEF Ask
  <2>2. QED
    BY <1>3, <2>1 DEF Wanted, RRset
<1>4. QED
  BY <1>1, <1>2, <1>3 DEF Ask

LEMMA LookupIsRRset ==
  ASSUME Shape
  PROVE  Lookup \subseteq {Omit} \cup RRset
BY DEF Shape, Lookup

(* What a step of one request does to that request. *)
LEMMA FieldsOfRunning ==
  ASSUME Shape, NEW r \in Requests, Running(r)
  PROVE  /\ req[r].ask \in Ask
         /\ req[r].rw \in BOOLEAN
         /\ req[r].zone \in {NoRow} \cup Found
         /\ req[r].new \in {Omit} \cup RRset
         /\ req[r] = [pc |-> req[r].pc, ask |-> req[r].ask, rw |-> req[r].rw,
                      zone |-> req[r].zone, new |-> req[r].new]
BY DEF Shape, Request, Running, Stages

Statuses == {200, 401, 403, 404, 409, 503} \cup Failures

(* What a handler learns is the only thing that changes.                   *)
LEMMA LearnMoves ==
  ASSUME Shape, NEW r \in Requests, Running(r), NEW pc \in Stages,
         NEW rw \in BOOLEAN, NEW zone \in {NoRow} \cup Found,
         NEW new \in {Omit} \cup RRset, Learn(r, pc, rw, zone, new)
  PROVE  /\ req' \in [Requests -> Request]
         /\ req'[r] = [pc |-> pc, ask |-> req[r].ask, rw |-> rw,
                       zone |-> zone, new |-> new]
         /\ \A s \in Requests \ {r} : req'[s] = req[s]
<1> DEFINE rec == [pc |-> pc, ask |-> req[r].ask, rw |-> rw, zone |-> zone, new |-> new]
<1>1. rec \in Request
  <2>1. req[r].ask \in Ask
    BY FieldsOfRunning
  <2>2. rec \in [pc: Stages, ask: Ask, rw: BOOLEAN, zone: {NoRow} \cup Found,
                 new: {Omit} \cup RRset]
    BY <2>1
  <2>3. QED
    BY <2>2 DEF Request
<1>2. req' = [req EXCEPT ![r] = rec]
  BY DEF Learn
<1> HIDE DEF rec
<1>3. /\ req' \in [Requests -> Request]
      /\ req'[r] = rec
      /\ \A s \in Requests \ {r} : req'[s] = req[s]
  BY <1>1, <1>2 DEF Shape
<1>4. QED
  BY <1>3 DEF rec

LEMMA AnswerEnds ==
  ASSUME Shape, NEW r \in Requests, Running(r), NEW status \in Statuses,
         Answer(r, status)
  PROVE  /\ req' \in [Requests -> Request]
         /\ req'[r].pc = "done" /\ req'[r].wrote = FALSE
         /\ \A s \in Requests \ {r} : req'[s] = req[s]
<1> DEFINE rec == [pc |-> "done", ask |-> req[r].ask, wrote |-> FALSE,
                   status |-> status]
<1>1. rec \in Request
  <2>1. req[r].ask \in Ask
    BY FieldsOfRunning
  <2>2. rec \in [pc: {"done"}, ask: Ask, wrote: BOOLEAN, status: Statuses]
    BY <2>1
  <2>3. QED
    BY <2>2 DEF Request, Statuses
<1>2. req' = [req EXCEPT ![r] = rec]
  BY DEF Answer
<1>3. QED
  BY <1>1, <1>2 DEF Shape

(* A request never forgets, and sees every state it runs in. *)
LEMMA ObserveGrows ==
  ASSUME Shape, Observe
  PROVE  /\ past' \in [Requests -> SUBSET Facts]
         /\ \A r \in Requests : past[r] \subseteq past'[r]
         /\ \A r \in Requests :
               req'[r].pc # "none" /\ req[r].pc # "done"
                  => FactsOf(r)' \subseteq past'[r]
<1>1. \A r \in Requests : FactsOf(r)' \subseteq Facts
  BY DEF FactsOf
<1>2. QED
  BY <1>1 DEF Shape, Observe

LEMMA UntouchedKeeps ==
  ASSUME Shape, Observe, NEW r \in Requests, KnowledgeIsOld(r), req'[r] = req[r]
  PROVE  KnowledgeIsOld(r)'
<1>1. Running(r) => req'[r].pc # "none" /\ req[r].pc # "done"
  BY DEF Running, Stages
<1>2. QED
  BY <1>1, ObserveGrows DEF KnowledgeIsOld, Running

LEMMA EndedKeeps ==
  ASSUME NEW r \in Requests, req'[r].pc = "done", req'[r].wrote = FALSE
  PROVE  KnowledgeIsOld(r)'
BY DEF KnowledgeIsOld, Running, Stages, Granted

LEMMA RunningKeeps ==
  ASSUME Shape, Observe, NEW r \in Requests, KnowledgeIsOld(r),
         Running(r), Running(r)',
         req'[r].rw = TRUE => "key" \in past'[r],
         req'[r].pc \in Granted => {"key", "link"} \subseteq past'[r]
  PROVE  KnowledgeIsOld(r)'
<1>1. req'[r].pc # "none" /\ req[r].pc # "done" /\ req'[r].pc # "done"
  BY DEF Running, Stages
<1>2. QED
  BY <1>1, ObserveGrows DEF KnowledgeIsOld

-----------------------------------------------------------------------------
(* Each action preserves the request part of the invariant.  In every case *)
(* the requests that did not move only observe.                            *)
LEMMA OneMoves ==
  ASSUME Shape, Observe, NEW r \in Requests, RequestInv,
         rrset' \in {Omit} \cup RRset,
         req' \in [Requests -> Request],
         \A s \in Requests \ {r} : req'[s] = req[s],
         KnowledgeIsOld(r)'
  PROVE  RequestInv'
<1>1. Shape'
  BY ObserveGrows DEF Shape
<1>2. ASSUME NEW s \in Requests PROVE KnowledgeIsOld(s)'
  <2>1. CASE s = r
    BY <2>1
  <2>2. CASE s # r
    BY <2>2, UntouchedKeeps DEF RequestInv
  <2>3. QED
    BY <2>1, <2>2
<1>3. QED
  BY <1>1, <1>2 DEF RequestInv

LEMMA AnswerKeeps ==
  ASSUME RequestInv, Observe, NEW r \in Requests, Running(r),
         NEW status \in Statuses, Answer(r, status), UNCHANGED rrset
  PROVE  RequestInv'
<1>1. Shape
  BY DEF RequestInv
<1>2. KnowledgeIsOld(r)'
  BY <1>1, AnswerEnds, EndedKeeps
<1>3. QED
  BY <1>1, <1>2, AnswerEnds, OneMoves DEF Shape

(* A request that moves on without learning anything: it was already past  *)
(* the authorisation.                                                      *)
LEMMA StaysGranted ==
  ASSUME RequestInv, Observe, NEW r \in Requests, NEW pc \in Granted,
         req[r].pc \in Granted, NEW new \in {Omit} \cup RRset,
         Learn(r, pc, req[r].rw, req[r].zone, new), UNCHANGED rrset
  PROVE  RequestInv'
<1>1. Shape /\ KnowledgeIsOld(r)
  BY DEF RequestInv
<1>2. Running(r) /\ pc \in Stages
  BY DEF Running, Granted, Stages
<1>3. /\ req' \in [Requests -> Request]
      /\ req'[r] = [pc |-> pc, ask |-> req[r].ask, rw |-> req[r].rw,
                    zone |-> req[r].zone, new |-> new]
      /\ \A s \in Requests \ {r} : req'[s] = req[s]
  <2>1. req[r].rw \in BOOLEAN /\ req[r].zone \in {NoRow} \cup Found
    BY <1>1, <1>2, FieldsOfRunning
  <2>2. QED
    BY <1>1, <1>2, <2>1, LearnMoves
<1>4. {"key", "link"} \subseteq past'[r]
  BY <1>1, ObserveGrows DEF KnowledgeIsOld
<1>5. Running(r)'
  <2>1. req'[r].pc = pc
    BY <1>3
  <2>2. QED
    BY <1>2, <2>1 DEF Running
<1>6. KnowledgeIsOld(r)'
  BY <1>1, <1>2, <1>4, <1>5, RunningKeeps
<1>7. QED
  BY <1>1, <1>3, <1>6, OneMoves DEF Shape

LEMMA LoadKeyKeeps ==
  ASSUME RequestInv, AccessTypeOK, Observe, NEW r \in Requests, LoadKey(r)
  PROVE  RequestInv'
<1> DEFINE row == keys[req[r].ask.key]
<1>1. Shape /\ KnowledgeIsOld(r) /\ Running(r) /\ UNCHANGED rrset
  BY DEF RequestInv, LoadKey, Running, Stages
<1>2. CASE Answer(r, 401)
  BY <1>1, <1>2, AnswerKeeps DEF Statuses
<1>3. CASE /\ row # NoRow /\ row.active
           /\ Learn(r, "zone", row.rw, NoRow, Omit)
  <2>1. row \in KeyRow
    <3>1. req[r].ask.key \in Keys
      BY <1>1, FieldsOfRunning DEF Ask
    <3>2. QED
      BY <1>3, <3>1 DEF AccessTypeOK
  <2>2. row.rw \in BOOLEAN
    BY <2>1 DEF KeyRow
  <2> HIDE DEF row
  <2>3. /\ req' \in [Requests -> Request]
        /\ req'[r] = [pc |-> "zone", ask |-> req[r].ask, rw |-> row.rw,
                      zone |-> NoRow, new |-> Omit]
        /\ \A s \in Requests \ {r} : req'[s] = req[s]
    BY <1>1, <1>3, <2>2, LearnMoves DEF Stages
  <2>4. req'[r].ask = req[r].ask /\ req'[r].pc = "zone" /\ req'[r].rw = row.rw
    BY <2>3
  <2>5. row.rw = TRUE => "key" \in past'[r]
    <3>1. row.rw = TRUE => "key" \in FactsOf(r)'
      BY <1>3, <2>4 DEF LoadKey, accessVars, FactsOf, row, Facts
    <3>2. QED
      BY <1>1, <2>4, <3>1, ObserveGrows DEF Running, Stages
  <2>6. KnowledgeIsOld(r)'
    BY <1>1, <2>4, <2>5, RunningKeeps DEF Running, Stages, Granted
  <2>7. QED
    BY <1>1, <2>3, <2>6, OneMoves DEF Shape
<1>4. QED
  BY <1>2, <1>3 DEF LoadKey

LEMMA LoadZoneKeeps ==
  ASSUME RequestInv, AccessTypeOK, Observe, NEW r \in Requests, LoadZone(r)
  PROVE  RequestInv'
<1>1. Shape /\ KnowledgeIsOld(r) /\ Running(r) /\ UNCHANGED rrset
  BY DEF RequestInv, LoadZone, Running, Stages
<1>2. CASE Answer(r, 403)
  BY <1>1, <1>2, AnswerKeeps DEF Statuses
<1>3. ASSUME NEW i \in Named,
             Learn(r, "link", req[r].rw, [id |-> i, provider |-> zones[i].provider], Omit)
      PROVE  RequestInv'
  <2> DEFINE zone == [id |-> i, provider |-> zones[i].provider]
  <2>1. i \in ZoneIds /\ zones[i] \in ZoneRow
    BY DEF Named, LiveIds, Exists, AccessTypeOK
  <2>2. zone \in Found
    BY <2>1 DEF Found, ZoneRow
  <2> HIDE DEF zone
  <2>3. /\ req' \in [Requests -> Request]
        /\ req'[r] = [pc |-> "link", ask |-> req[r].ask, rw |-> req[r].rw,
                      zone |-> zone, new |-> Omit]
        /\ \A s \in Requests \ {r} : req'[s] = req[s]
    <3>1. Learn(r, "link", req[r].rw, zone, Omit)
      BY <1>3 DEF zone
    <3>2. req[r].rw \in BOOLEAN /\ "link" \in Stages
      BY <1>1, FieldsOfRunning DEF Stages
    <3>3. QED
      BY <1>1, <2>2, <3>1, <3>2, LearnMoves
  <2>4. req'[r].pc = "link" /\ req'[r].rw = req[r].rw
    BY <2>3
  <2>5. KnowledgeIsOld(r)'
    <3>1. req[r].rw = TRUE => "key" \in past'[r]
      BY <1>1, ObserveGrows DEF KnowledgeIsOld
    <3>2. QED
      BY <1>1, <2>4, <3>1, RunningKeeps DEF Running, Stages, Granted
  <2>6. QED
    BY <1>1, <2>3, <2>5, OneMoves DEF Shape
<1>4. QED
  BY <1>2, <1>3 DEF LoadZone

(* The write access is decided here: both facts have been observed.        *)
LEMMA CheckLinkKeeps ==
  ASSUME RequestInv, Observe, NEW r \in Requests, CheckLink(r)
  PROVE  RequestInv'
<1>1. Shape /\ KnowledgeIsOld(r) /\ Running(r) /\ UNCHANGED rrset /\ req[r].pc = "link"
  BY DEF RequestInv, CheckLink, Running, Stages
<1>2. ASSUME NEW status \in {400, 403}, Answer(r, status) PROVE RequestInv'
  BY <1>1, <1>2, AnswerKeeps DEF Statuses, Failures
<1>3. CASE Linked(r) /\ req[r].rw /\ Go(r, "plugin")
  <2>1. "link" \in past[r]
    <3>1. "link" \in FactsOf(r)
      BY <1>1, <1>3 DEF FactsOf, Facts, Linked
    <3>2. QED
      BY <1>1, <3>1 DEF KnowledgeIsOld
  <2>2. "key" \in past[r]
    BY <1>1, <1>3, FieldsOfRunning DEF KnowledgeIsOld
  <2>3. /\ req' \in [Requests -> Request]
        /\ req'[r] = [pc |-> "plugin", ask |-> req[r].ask, rw |-> req[r].rw,
                      zone |-> req[r].zone, new |-> req[r].new]
        /\ \A s \in Requests \ {r} : req'[s] = req[s]
    <3>1. Learn(r, "plugin", req[r].rw, req[r].zone, req[r].new)
      BY <1>3 DEF Go
    <3>2. /\ req[r].rw \in BOOLEAN /\ "plugin" \in Stages
          /\ req[r].zone \in {NoRow} \cup Found
          /\ req[r].new \in {Omit} \cup RRset
      BY <1>1, FieldsOfRunning DEF Stages
    <3>3. QED
      BY <1>1, <3>1, <3>2, LearnMoves
  <2>4. req'[r].pc = "plugin"
    BY <2>3
  <2>5. KnowledgeIsOld(r)'
    <3>1. {"key", "link"} \subseteq past'[r]
      BY <1>1, <2>1, <2>2, ObserveGrows
    <3>2. QED
      BY <1>1, <2>4, <3>1, RunningKeeps DEF Running, Stages
  <2>6. QED
    BY <1>1, <2>3, <2>5, OneMoves DEF Shape
<1>4. QED
  BY <1>2, <1>3 DEF CheckLink

LEMMA CheckPluginKeeps ==
  ASSUME RequestInv, Observe, NEW r \in Requests, CheckPlugin(r)
  PROVE  RequestInv'
<1>1. Shape /\ Running(r) /\ UNCHANGED rrset /\ req[r].pc \in Granted
  BY DEF RequestInv, CheckPlugin, Running, Stages, Granted
<1>2. ASSUME NEW status \in {503} \cup Failures, Answer(r, status) PROVE RequestInv'
  BY <1>1, <1>2, AnswerKeeps DEF Statuses
<1>3. CASE Go(r, "check")
  BY <1>1, <1>3, FieldsOfRunning, StaysGranted DEF Go, Granted
<1>4. Go(r, "check") \/ \E status \in {503} \cup Failures : Answer(r, status)
  <2>1. 503 \in {503} \cup Failures /\ Failures \cup {503} = {503} \cup Failures
    OBVIOUS
  <2>2. QED
    BY <2>1, ZenonT(30) DEF CheckPlugin
<1>5. QED
  BY <1>2, <1>3, <1>4

LEMMA PreCheckKeeps ==
  ASSUME RequestInv, Observe, NEW r \in Requests, PreCheck(r)
  PROVE  RequestInv'
<1>1. Shape /\ Running(r) /\ UNCHANGED rrset /\ req[r].pc \in Granted
  BY DEF RequestInv, PreCheck, Running, Stages, Granted
<1>2. ASSUME NEW status \in {404, 409} \cup Failures, Answer(r, status) PROVE RequestInv'
  BY <1>1, <1>2, AnswerKeeps DEF Statuses
<1>3. ASSUME NEW seen \in Lookup, (req[r].ask.mode = "create") = (seen = Omit),
             Learn(r, "inner", req[r].rw, req[r].zone, Wanted(req[r].ask, seen))
      PROVE  RequestInv'
  <2>1. Wanted(req[r].ask, seen) \in {Omit} \cup RRset
    BY <1>1, <1>3, FieldsOfRunning, LookupIsRRset, WantedIsRRset
  <2>2. QED
    BY <1>1, <1>3, <2>1, StaysGranted DEF Granted
<1>4. \/ Answer(r, 404) \/ Answer(r, 409) \/ \E f \in Failures : Answer(r, f)
      \/ \E seen \in Lookup :
            /\ (req[r].ask.mode = "create") = (seen = Omit)
            /\ Learn(r, "inner", req[r].rw, req[r].zone, Wanted(req[r].ask, seen))
  BY ZenonT(30) DEF PreCheck
<1>5. \A status : status = 404 \/ status = 409 \/ status \in Failures
                     => status \in {404, 409} \cup Failures
  OBVIOUS
<1>6. QED
  BY <1>2, <1>3, <1>4, <1>5, ZenonT(30)

LEMMA InnerReadKeeps ==
  ASSUME RequestInv, Observe, NEW r \in Requests, InnerRead(r)
  PROVE  RequestInv'
<1>1. Shape /\ Running(r) /\ UNCHANGED rrset /\ req[r].pc \in Granted
  BY DEF RequestInv, InnerRead, Running, Stages, Granted
<1>2. ASSUME NEW status \in {200} \cup Failures, Answer(r, status) PROVE RequestInv'
  BY <1>1, <1>2, AnswerKeeps DEF Statuses
<1>3. CASE Go(r, "write")
  BY <1>1, <1>3, FieldsOfRunning, StaysGranted DEF Go, Granted
<1>4. \/ Go(r, "write") \/ Answer(r, 200) \/ \E f \in Failures : Answer(r, f)
  BY ZenonT(30) DEF InnerRead
<1>5. \A status : status = 200 \/ status \in Failures => status \in {200} \cup Failures
  OBVIOUS
<1>6. QED
  BY <1>2, <1>3, <1>4, <1>5, ZenonT(30)

LEMMA WriteKeeps ==
  ASSUME RequestInv, Observe, NEW r \in Requests, Write(r)
  PROVE  RequestInv'
<1>1. Shape /\ KnowledgeIsOld(r) /\ Running(r) /\ req[r].pc \in Granted
  BY DEF RequestInv, Write, Running, Stages, Granted
<1>2. PICK applied \in BOOLEAN, status \in {200} \cup Failures :
         /\ rrset' = IF applied THEN req[r].new ELSE rrset
         /\ req' = [req EXCEPT ![r] = [pc |-> "done", ask |-> req[r].ask,
                                       wrote |-> applied, status |-> status]]
  BY DEF Write
<1> DEFINE rec == [pc |-> "done", ask |-> req[r].ask, wrote |-> applied, status |-> status]
<1>3. rec \in Request
  BY <1>1, FieldsOfRunning DEF Request
<1>4. rec.pc = "done" /\ rec.status = status /\ req' = [req EXCEPT ![r] = rec]
  BY <1>2
<1> HIDE DEF rec
<1>5. /\ req' \in [Requests -> Request]
      /\ req'[r] = rec
      /\ \A s \in Requests \ {r} : req'[s] = req[s]
  BY <1>1, <1>3, <1>4 DEF Shape
<1>6. rrset' \in {Omit} \cup RRset
  BY <1>1, <1>2, FieldsOfRunning DEF Shape
<1>7. KnowledgeIsOld(r)'
  <2>1. {"key", "link"} \subseteq past'[r]
    BY <1>1, ObserveGrows DEF KnowledgeIsOld
  <2>2. req'[r].pc = "done" /\ req'[r].status \in {200} \cup Failures
    BY <1>4, <1>5
  <2>3. QED
    BY <2>1, <2>2 DEF KnowledgeIsOld, Running, Stages, Granted
<1>8. QED
  BY <1>1, <1>5, <1>6, <1>7, OneMoves

LEMMA ArriveKeeps ==
  ASSUME RequestInv, Observe, NEW r \in Requests, NEW q \in Ask, Arrive(r, q)
  PROVE  RequestInv'
<1> DEFINE rec == [pc |-> "key", ask |-> q, rw |-> FALSE, zone |-> NoRow, new |-> Omit]
<1>1. Shape /\ UNCHANGED rrset /\ req[r].pc = "none"
  BY DEF RequestInv, Arrive
<1>2. rec \in Request /\ rec.pc = "key" /\ rec.rw = FALSE
  BY DEF Request, Stages
<1>3. req' = [req EXCEPT ![r] = rec]
  BY DEF Arrive
<1> HIDE DEF rec
<1>4. /\ req' \in [Requests -> Request]
      /\ req'[r] = rec
      /\ \A s \in Requests \ {r} : req'[s] = req[s]
  BY <1>1, <1>2, <1>3 DEF Shape
<1>5. KnowledgeIsOld(r)'
  <2>1. FactsOf(r)' \subseteq past'[r]
    BY <1>1, <1>2, <1>4, ObserveGrows
  <2>2. QED
    BY <1>2, <1>4, <2>1 DEF KnowledgeIsOld, Running, Granted
<1>6. QED
  BY <1>1, <1>4, <1>5, OneMoves DEF Shape

(* Administrators do not touch requests; every running request observes    *)
(* what they did.                                                          *)
LEMMA AdminKeeps ==
  ASSUME RequestInv, Observe, UNCHANGED rqVars
  PROVE  RequestInv'
<1>1. Shape /\ Shape'
  BY ObserveGrows DEF RequestInv, rqVars, Shape
<1>2. ASSUME NEW r \in Requests PROVE KnowledgeIsOld(r)'
  BY <1>1, UntouchedKeeps DEF RequestInv, rqVars
<1>3. QED
  BY <1>1, <1>2 DEF RequestInv

LEMMA RequestInvariant == Spec => []RequestInv
<1>1. Init => RequestInv
  BY DEF Init, RequestInv, Shape, Request, KnowledgeIsOld, Running, Stages, Granted
<1>2. RequestInv /\ AccessTypeOK /\ [Next]_vars => RequestInv'
  <2> SUFFICES ASSUME RequestInv, AccessTypeOK, [Next]_vars PROVE RequestInv'
    OBVIOUS
  <2>1. CASE Next
    <3>1. Observe
      BY <2>1 DEF Next
    <3>2. CASE AdminStep /\ UNCHANGED rqVars
      BY <3>1, <3>2, AdminKeeps
    <3>3. ASSUME NEW r \in Requests, NEW q \in Ask, Arrive(r, q)
          PROVE  RequestInv'
      BY <3>1, <3>3, ArriveKeeps
    <3>4. ASSUME NEW r \in Requests, RequestStep(r) PROVE RequestInv'
      BY <3>1, <3>4, LoadKeyKeeps, LoadZoneKeeps, CheckLinkKeeps,
         CheckPluginKeeps, PreCheckKeeps, InnerReadKeeps, WriteKeeps
      DEF RequestStep
    <3>5. QED
      BY <2>1, <3>2, <3>3, <3>4 DEF Next, Act
  <2>2. CASE UNCHANGED vars
    BY <2>2 DEF vars, accessVars, RequestInv, Shape, KnowledgeIsOld, Running,
       FactsOf, Named, LiveIds, Exists
  <2>3. QED
    BY <2>1, <2>2
<1>3. QED
  BY <1>1, <1>2, RequestsOnlyRead, TypeCorrect, PTL DEF Spec

-----------------------------------------------------------------------------
(* Rows, record, requests and what they observed keep their types.         *)
THEOREM RequestTypes == Spec => []TypeOK
<1>1. RequestInv /\ AccessTypeOK => TypeOK
  BY DEF RequestInv, Shape, TypeOK
<1>2. QED
  BY <1>1, RequestInvariant, RequestsOnlyRead, TypeCorrect, PTL

(* _require_dns_api_key_write_access and _resolve_dns_api_zone: whatever   *)
(* administrators and other requests do in between, a request that changes *)
(* the zone has a key that was active and read_write during the request,   *)
(* and linked during the request to the zone row it found.                 *)
THEOREM OnlyAllowedWrites == Spec => []WritesWereAllowed
<1>1. RequestInv => WritesWereAllowed
  BY DEF RequestInv, KnowledgeIsOld, WritesWereAllowed
<1>2. QED
  BY <1>1, RequestInvariant, PTL
-----------------------------------------------------------------------------
(* Answers.  With a provider that reports a failed lookup, what a request  *)
(* decides on was true when it was read, hence in the past of the request. *)

Decided == {"inner", "write"}

AnswerIsOld(r) ==
    /\ req[r].pc \in Decided /\ req[r].ask.mode = "create" => "absent" \in past[r]
    /\ req[r].pc \in Decided /\ req[r].ask.mode = "delete" => req[r].new = Omit
    /\ Answered(r, "create", 200) => "absent" \in past[r]
    /\ Answered(r, "create", 409) => "present" \in past[r]
    /\ \A m \in Modes : Answered(r, m, 404) => "absent" \in past[r]
    /\ Answered(r, "delete", 200) => "absent" \in past[r]

LEMMA SeesRecord ==
  ASSUME RequestInv, NEW r \in Requests, Running(r)
  PROVE  IF rrset = Omit THEN "absent" \in past[r] ELSE "present" \in past[r]
<1>1. FactsOf(r) \subseteq past[r]
  BY DEF RequestInv, KnowledgeIsOld
<1>2. QED
  BY <1>1 DEF FactsOf, Facts

LEMMA OthersAnswers ==
  ASSUME RequestInv, Observe, NEW r \in Requests, AnswerIsOld(r), req'[r] = req[r]
  PROVE  AnswerIsOld(r)'
BY ObserveGrows DEF RequestInv, AnswerIsOld, Answered

(* An answer that is neither a success nor about the existence of a record *)
LEMMA OtherStatus ==
  ASSUME RequestInv, NEW r \in Requests, Running(r),
         NEW status \in Statuses \ {200, 404, 409}, Answer(r, status)
  PROVE  AnswerIsOld(r)' /\ \A s \in Requests \ {r} : req'[s] = req[s]
<1> DEFINE rec == [pc |-> "done", ask |-> req[r].ask, wrote |-> FALSE, status |-> status]
<1>1. req' = [req EXCEPT ![r] = rec] /\ rec.pc = "done" /\ rec.status = status
  BY DEF Answer
<1> HIDE DEF rec
<1>2. req'[r] = rec /\ \A s \in Requests \ {r} : req'[s] = req[s]
  BY <1>1 DEF RequestInv, Shape
<1>3. QED
  BY <1>1, <1>2 DEF AnswerIsOld, Answered, Decided

(* A step to another stage, before the pre-check has decided *)
LEMMA Undecided ==
  ASSUME RequestInv, NEW r \in Requests, NEW pc \in Stages \ Decided, NEW rw, NEW zone, NEW new,
         Learn(r, pc, rw, zone, new)
  PROVE  AnswerIsOld(r)' /\ \A s \in Requests \ {r} : req'[s] = req[s]
<1> DEFINE rec == [pc |-> pc, ask |-> req[r].ask, rw |-> rw, zone |-> zone, new |-> new]
<1>1. req' = [req EXCEPT ![r] = rec] /\ rec.pc = pc
  BY DEF Learn
<1> HIDE DEF rec
<1>2. req'[r] = rec /\ \A s \in Requests \ {r} : req'[s] = req[s]
  BY <1>1 DEF RequestInv, Shape
<1>3. pc \notin Decided /\ pc # "done"
  BY DEF Stages
<1>4. QED
  BY <1>1, <1>2, <1>3 DEF AnswerIsOld, Answered

LEMMA AuthorisationAnswers ==
  ASSUME RequestInv, NEW r \in Requests,
         LoadKey(r) \/ LoadZone(r) \/ CheckLink(r) \/ CheckPlugin(r)
  PROVE  AnswerIsOld(r)' /\ \A s \in Requests \ {r} : req'[s] = req[s]
<1>1. {"zone", "link", "plugin", "check"} \subseteq Stages \ Decided /\ Running(r)
  BY DEF Stages, Decided, Running, LoadKey, LoadZone, CheckLink, CheckPlugin
<1>2. {400, 401, 403, 503} \cup Failures \subseteq Statuses \ {200, 404, 409}
  BY DEF Statuses, Failures
<1>3. ASSUME NEW status \in {400, 401, 403, 503} \cup Failures, Answer(r, status)
      PROVE  AnswerIsOld(r)' /\ \A s \in Requests \ {r} : req'[s] = req[s]
  BY <1>1, <1>2, <1>3, OtherStatus
<1>4. ASSUME NEW pc \in {"zone", "link", "plugin", "check"}, NEW rw, NEW zone, NEW new,
             Learn(r, pc, rw, zone, new)
      PROVE  AnswerIsOld(r)' /\ \A s \in Requests \ {r} : req'[s] = req[s]
  BY <1>1, <1>4, Undecided
<1>5. CASE LoadKey(r)
  BY <1>3, <1>4, <1>5 DEF LoadKey
<1>6. CASE LoadZone(r)
  BY <1>3, <1>4, <1>6 DEF LoadZone
<1>7. ASSUME NEW pc \in {"plugin", "check"}, Go(r, pc)
      PROVE  AnswerIsOld(r)' /\ \A s \in Requests \ {r} : req'[s] = req[s]
  <2>1. Learn(r, pc, req[r].rw, req[r].zone, req[r].new)
    BY <1>7 DEF Go
  <2>2. QED
    BY <1>4, <2>1
<1>8. CASE CheckLink(r)
  BY <1>3, <1>7, <1>8 DEF CheckLink
<1>9. CASE CheckPlugin(r)
  <2>1. Go(r, "check") \/ \E f \in Failures \cup {503} : Answer(r, f)
    BY <1>9 DEF CheckPlugin
  <2>2. CASE Go(r, "check")
    BY <1>7, <2>2
  <2>3. ASSUME NEW f \in Failures \cup {503}, Answer(r, f)
        PROVE  AnswerIsOld(r)' /\ \A s \in Requests \ {r} : req'[s] = req[s]
    <3>1. f \in {400, 401, 403, 503} \cup Failures
      OBVIOUS
    <3>2. QED
      BY <1>3, <2>3, <3>1
  <2>4. QED
    BY <2>1, <2>2, <2>3
<1>10. QED
  BY <1>5, <1>6, <1>8, <1>9

LEMMA PreCheckAnswers ==
  ASSUME ~SilentLookup, RequestInv, Observe, NEW r \in Requests, PreCheck(r)
  PROVE  AnswerIsOld(r)' /\ \A s \in Requests \ {r} : req'[s] = req[s]
<1>1. Running(r) /\ Lookup = {rrset} /\ Shape
  BY DEF PreCheck, Running, Stages, Lookup, RequestInv
<1>2. past[r] \subseteq past'[r]
  BY <1>1, ObserveGrows
<1>3. IF rrset = Omit THEN "absent" \in past'[r] ELSE "present" \in past'[r]
  BY <1>1, <1>2, SeesRecord
<1>4. req[r].ask \in Ask
  BY <1>1, FieldsOfRunning
<1>5. ASSUME NEW status \in {404, 409}, Answer(r, status),
             status = 409 => req[r].ask.mode = "create" /\ rrset # Omit,
             status = 404 => rrset = Omit
      PROVE  AnswerIsOld(r)' /\ \A s \in Requests \ {r} : req'[s] = req[s]
  <2> DEFINE rec == [pc |-> "done", ask |-> req[r].ask, wrote |-> FALSE, status |-> status]
  <2>1. req' = [req EXCEPT ![r] = rec] /\ rec.pc = "done" /\ rec.status = status
    BY <1>5 DEF Answer
  <2> HIDE DEF rec
  <2>2. req'[r] = rec /\ \A s \in Requests \ {r} : req'[s] = req[s]
    BY <1>1, <2>1 DEF Shape
  <2>3. QED
    BY <1>3, <1>5, <2>1, <2>2 DEF AnswerIsOld, Answered, Decided
<1>6. ASSUME (req[r].ask.mode = "create") = (rrset = Omit),
             Learn(r, "inner", req[r].rw, req[r].zone, Wanted(req[r].ask, rrset))
      PROVE  AnswerIsOld(r)' /\ \A s \in Requests \ {r} : req'[s] = req[s]
  <2> DEFINE new == Wanted(req[r].ask, rrset)
             rec == [pc |-> "inner", ask |-> req[r].ask, rw |-> req[r].rw, zone |-> req[r].zone,
                     new |-> new]
  <2>1. req[r].ask.mode = "delete" => new = Omit
    BY DEF Wanted
  <2> HIDE DEF new
  <2>2. /\ req' = [req EXCEPT ![r] = rec]
        /\ rec.pc = "inner" /\ rec.ask = req[r].ask /\ rec.new = new
    BY <1>6 DEF Learn, new
  <2> HIDE DEF rec
  <2>3. req'[r] = rec /\ \A s \in Requests \ {r} : req'[s] = req[s]
    BY <1>1, <2>2 DEF Shape
  <2>4. QED
    BY <1>3, <1>6, <2>1, <2>2, <2>3 DEF AnswerIsOld, Answered
<1>7. ASSUME NEW status \in Failures, Answer(r, status)
      PROVE  AnswerIsOld(r)' /\ \A s \in Requests \ {r} : req'[s] = req[s]
  BY <1>1, <1>7, OtherStatus DEF Failures, Statuses
<1>8. QED
  BY <1>1, <1>5, <1>6, <1>7 DEF PreCheck

LEMMA InnerReadAnswers ==
  ASSUME ~SilentLookup, RequestInv, Observe, NEW r \in Requests, AnswerIsOld(r), InnerRead(r)
  PROVE  AnswerIsOld(r)' /\ \A s \in Requests \ {r} : req'[s] = req[s]
<1>1. Running(r) /\ Lookup = {rrset} /\ Shape /\ req[r].pc = "inner"
  BY DEF InnerRead, Running, Stages, Lookup, RequestInv
<1>2. past[r] \subseteq past'[r]
  BY <1>1, ObserveGrows
<1>3. CASE req[r].ask.mode = "delete" /\ rrset = Omit /\ Answer(r, 200)
  <2> DEFINE rec == [pc |-> "done", ask |-> req[r].ask, wrote |-> FALSE, status |-> 200]
  <2>1. /\ req' = [req EXCEPT ![r] = rec]
        /\ rec.pc = "done" /\ rec.status = 200 /\ rec.ask = req[r].ask
    BY <1>3 DEF Answer
  <2> HIDE DEF rec
  <2>2. req'[r] = rec /\ \A s \in Requests \ {r} : req'[s] = req[s]
    BY <1>1, <2>1 DEF Shape
  <2>3. "absent" \in past'[r]
    BY <1>1, <1>2, <1>3, SeesRecord
  <2>4. QED
    BY <2>1, <2>2, <2>3 DEF AnswerIsOld, Answered, Decided
<1>4. CASE Go(r, "write")
  <2> DEFINE old == req[r]
             rec == [pc |-> "write", ask |-> old.ask, rw |-> old.rw, zone |-> old.zone, new |-> old.new]
  <2>1. /\ req' = [req EXCEPT ![r] = rec]
        /\ rec.pc = "write" /\ rec.ask = req[r].ask /\ rec.new = req[r].new
    BY <1>4 DEF Go, Learn
  <2> HIDE DEF rec
  <2>2. req'[r] = rec /\ \A s \in Requests \ {r} : req'[s] = req[s]
    BY <1>1, <2>1 DEF Shape
  <2>3. QED
    BY <1>1, <1>2, <2>1, <2>2 DEF AnswerIsOld, Answered, Decided
<1>5. ASSUME NEW status \in Failures, Answer(r, status)
      PROVE  AnswerIsOld(r)' /\ \A s \in Requests \ {r} : req'[s] = req[s]
  BY <1>1, <1>5, OtherStatus DEF Failures, Statuses
<1>6. QED
  BY <1>1, <1>3, <1>4, <1>5 DEF InnerRead

(* A DELETE that is confirmed has left the zone without the record.        *)
LEMMA WriteAnswers ==
  ASSUME RequestInv, Observe, NEW r \in Requests, AnswerIsOld(r), Write(r)
  PROVE  AnswerIsOld(r)' /\ \A s \in Requests \ {r} : req'[s] = req[s]
<1>1. Shape /\ req[r].pc = "write"
  BY DEF Write, RequestInv
<1>2. PICK applied \in BOOLEAN, status \in {200} \cup Failures :
         /\ status = 200 => applied
         /\ rrset' = IF applied THEN req[r].new ELSE rrset
         /\ req' = [req EXCEPT ![r] = [pc |-> "done", ask |-> req[r].ask,
                                       wrote |-> applied, status |-> status]]
  BY DEF Write
<1> DEFINE rec == [pc |-> "done", ask |-> req[r].ask, wrote |-> applied, status |-> status]
<1>3. /\ req' = [req EXCEPT ![r] = rec]
      /\ rec.pc = "done" /\ rec.status = status /\ rec.ask = req[r].ask
  BY <1>2
<1> HIDE DEF rec
<1>4. req'[r] = rec /\ \A s \in Requests \ {r} : req'[s] = req[s]
  BY <1>1, <1>3 DEF Shape
<1>5. FactsOf(r)' \subseteq past'[r] /\ past[r] \subseteq past'[r]
  BY <1>1, <1>3, <1>4, ObserveGrows
<1>6. rrset' = Omit => "absent" \in past'[r]
  BY <1>5 DEF FactsOf, Facts
<1>7. status \notin {404, 409}
  BY <1>2 DEF Failures
<1>8. QED
  BY <1>1, <1>2, <1>3, <1>4, <1>5, <1>6, <1>7 DEF AnswerIsOld, Answered, Decided

LEMMA AnswersInvariant ==
  ASSUME ~SilentLookup
  PROVE  Spec => [](\A r \in Requests : AnswerIsOld(r))
<1> DEFINE Old == \A r \in Requests : AnswerIsOld(r)
<1>1. Init => Old
  BY DEF Init, AnswerIsOld, Answered, Decided
<1>2. RequestInv /\ Old /\ [Next]_vars => Old'
  <2> SUFFICES ASSUME RequestInv, Old, [Next]_vars PROVE Old'
    OBVIOUS
  <2>1. ASSUME Observe, NEW r \in Requests, AnswerIsOld(r)',
               \A s \in Requests \ {r} : req'[s] = req[s]
        PROVE  Old'
    <3> SUFFICES ASSUME NEW s \in Requests PROVE AnswerIsOld(s)'
      OBVIOUS
    <3>1. CASE s = r
      BY <2>1, <3>1
    <3>2. CASE s # r
      BY <2>1, <3>2, OthersAnswers
    <3>3. QED
      BY <3>1, <3>2
  <2>2. CASE Next
    <3>1. Observe
      BY <2>2 DEF Next
    <3>2. CASE UNCHANGED rqVars
      BY <3>1, <3>2, OthersAnswers DEF rqVars
    <3>3. ASSUME NEW r \in Requests, NEW q \in Ask, Arrive(r, q)
          PROVE  Old'
      <4> DEFINE rec == [pc |-> "key", ask |-> q, rw |-> FALSE, zone |-> NoRow, new |-> Omit]
      <4>1. req' = [req EXCEPT ![r] = rec] /\ rec.pc = "key"
        BY <3>3 DEF Arrive
      <4> HIDE DEF rec
      <4>2. req'[r] = rec /\ \A s \in Requests \ {r} : req'[s] = req[s]
        BY <4>1 DEF RequestInv, Shape
      <4>3. AnswerIsOld(r)'
        BY <4>1, <4>2 DEF AnswerIsOld, Answered, Decided
      <4>4. QED
        BY <2>1, <3>1, <4>2, <4>3
    <3>4. ASSUME NEW r \in Requests, RequestStep(r) PROVE Old'
      <4>1. AnswerIsOld(r)' /\ \A s \in Requests \ {r} : req'[s] = req[s]
        BY <3>1, <3>4, AuthorisationAnswers, PreCheckAnswers, InnerReadAnswers, WriteAnswers
           DEF RequestStep
      <4>2. QED
        BY <2>1, <3>1, <4>1
    <3>5. QED
      BY <2>2, <3>2, <3>3, <3>4 DEF Next, Act
  <2>3. CASE UNCHANGED vars
    BY <2>3 DEF vars, AnswerIsOld, Answered
  <2>4. QED
    BY <2>2, <2>3
<1>3. QED
  BY <1>1, <1>2, RequestInvariant, PTL DEF Spec

(* With a provider that reports a failed lookup, and however requests and  *)
(* administrators interleave: a create that succeeds saw the name free     *)
(* while it ran.                                                           *)
THEOREM CreatesFoundNothing ==
  ASSUME ~SilentLookup
  PROVE  Spec => []CreatedOnlyIfAbsent
<1>1. (\A r \in Requests : AnswerIsOld(r)) => CreatedOnlyIfAbsent
  BY DEF AnswerIsOld, CreatedOnlyIfAbsent
<1>2. QED
  BY <1>1, AnswersInvariant, PTL

(* A refusal with 409 or 404 is true of some moment of the request.        *)
THEOREM RefusalsWereTrue ==
  ASSUME ~SilentLookup
  PROVE  Spec => []RefusalsAreJustified
<1>1. (\A r \in Requests : AnswerIsOld(r)) => RefusalsAreJustified
  BY DEF AnswerIsOld, RefusalsAreJustified
<1>2. QED
  BY <1>1, AnswersInvariant, PTL

(* After a DELETE answered 200, and before, there was a moment without the *)
(* record, whether the DELETE removed it or found nothing.                 *)
THEOREM DeletesLeftNothing ==
  ASSUME ~SilentLookup
  PROVE  Spec => []DeletedMeansGone
<1>1. (\A r \in Requests : AnswerIsOld(r)) => DeletedMeansGone
  BY DEF AnswerIsOld, DeletedMeansGone
<1>2. QED
  BY <1>1, AnswersInvariant, PTL
-----------------------------------------------------------------------------
(* PATCH.  One request at a time, what will be written is the merge with   *)
(* the record as it still is.                                              *)
OneRequest == \A q, r \in Requests : q = r

MergeStands(r) ==
    req[r].pc \in Decided /\ req[r].ask.mode = "patch" =>
        rrset # Omit /\ req[r].new = Merge(req[r].ask, rrset)

LEMMA RequestMerges ==
  ASSUME RequestInv, OneRequest, NEW r \in Requests, MergeStands(r),
         (\E q \in Ask : Arrive(r, q)) \/ RequestStep(r)
  PROVE  MergeStands(r)'
<1>1. Shape /\ DOMAIN req = Requests
  BY DEF RequestInv, Shape
<1>2. ASSUME NEW status, Answer(r, status)
      PROVE  MergeStands(r)'
  <2> DEFINE rec == [pc |-> "done", ask |-> req[r].ask, wrote |-> FALSE, status |-> status]
  <2>1. req' = [req EXCEPT ![r] = rec] /\ rec.pc = "done"
    BY <1>2 DEF Answer
  <2> HIDE DEF rec
  <2>2. QED
    BY <1>1, <2>1 DEF MergeStands, Decided
<1>3. ASSUME NEW pc, NEW rw, NEW zone, NEW new, Learn(r, pc, rw, zone, new), rrset' = rrset,
             pc \in Decided /\ req[r].ask.mode = "patch" =>
               rrset # Omit /\ new = Merge(req[r].ask, rrset)
      PROVE  MergeStands(r)'
  <2> DEFINE rec == [pc |-> pc, ask |-> req[r].ask, rw |-> rw, zone |-> zone, new |-> new]
  <2>1. req' = [req EXCEPT ![r] = rec] /\ rec.pc = pc /\ rec.ask = req[r].ask /\ rec.new = new
    BY <1>3 DEF Learn
  <2> HIDE DEF rec
  <2>2. req'[r] = rec
    BY <1>1, <2>1
  <2>3. QED
    BY <1>3, <2>1, <2>2 DEF MergeStands, Merge
<1>4. ASSUME NEW q \in Ask, Arrive(r, q)
      PROVE  MergeStands(r)'
  <2> DEFINE rec == [pc |-> "key", ask |-> q, rw |-> FALSE, zone |-> NoRow, new |-> Omit]
  <2>1. req' = [req EXCEPT ![r] = rec] /\ rec.pc = "key"
    BY <1>4 DEF Arrive
  <2> HIDE DEF rec
  <2>2. QED
    BY <1>1, <2>1 DEF MergeStands, Decided
<1>5. CASE LoadKey(r) \/ LoadZone(r)
  <2>1. "zone" \notin Decided /\ "link" \notin Decided
    BY DEF Decided
  <2>2. CASE LoadKey(r)
    BY <1>2, <1>3, <2>1, <2>2 DEF LoadKey
  <2>3. CASE LoadZone(r)
    BY <1>2, <1>3, <2>1, <2>3 DEF LoadZone
  <2>4. QED
    BY <1>5, <2>2, <2>3
<1>6. CASE CheckLink(r) \/ CheckPlugin(r)
  <2>1. "plugin" \notin Decided /\ "check" \notin Decided
    BY DEF Decided
  <2>2. CASE CheckLink(r)
    BY <1>2, <1>3, <2>1, <2>2 DEF CheckLink, Go
  <2>3. CASE CheckPlugin(r)
    <3>1. Go(r, "check") \/ \E status : Answer(r, status)
      BY <2>3 DEF CheckPlugin
    <3>2. QED
      BY <1>2, <1>3, <2>1, <2>3, <3>1 DEF CheckPlugin, Go
  <2>4. QED
    BY <1>6, <2>2, <2>3
<1>7. CASE PreCheck(r)
  <2>1. ASSUME NEW seen \in Lookup, (req[r].ask.mode = "create") = (seen = Omit),
               Learn(r, "inner", req[r].rw, req[r].zone, Wanted(req[r].ask, seen))
        PROVE  MergeStands(r)'
    <3>1. req[r].ask.mode = "patch" => seen # Omit /\ seen = rrset
      BY <2>1 DEF Lookup
    <3>2. req[r].ask.mode = "patch" => Wanted(req[r].ask, seen) = Merge(req[r].ask, rrset)
      BY <3>1 DEF Wanted
    <3>3. QED
      BY <1>3, <1>7, <2>1, <3>1, <3>2 DEF PreCheck
  <2>2. QED
    BY <1>2, <1>7, <2>1 DEF PreCheck
<1>8. CASE InnerRead(r)
  <2>1. rrset' = rrset /\ req[r].pc \in Decided
    BY <1>8 DEF InnerRead, Decided
  <2>2. CASE Go(r, "write")
    BY <1>3, <2>1, <2>2 DEF Go, MergeStands
  <2>3. QED
    BY <1>2, <1>8, <2>2 DEF InnerRead
<1>9. CASE Write(r)
  <2>1. PICK applied \in BOOLEAN, status \in {200} \cup Failures :
           req' = [req EXCEPT ![r] = [pc |-> "done", ask |-> req[r].ask,
                                      wrote |-> applied, status |-> status]]
    BY <1>9 DEF Write
  <2>2. req'[r] = [pc |-> "done", ask |-> req[r].ask, wrote |-> applied, status |-> status]
    BY <1>1, <2>1
  <2>3. QED
    BY <2>2 DEF MergeStands, Decided
<1>10. QED
  BY <1>4, <1>5, <1>6, <1>7, <1>8, <1>9 DEF RequestStep

(* Only the write ends a request at its last stage.                        *)
LEMMA PatchWrites ==
  ASSUME RequestInv, OneRequest, NEW r \in Requests, MergeStands(r), [Next]_vars,
         req[r].pc = "write", req[r].ask.mode = "patch", req'[r].pc = "done", req'[r].wrote
  PROVE  rrset' = Merge(req[r].ask, rrset)
<1>1. Write(r)
  <2>1. CASE UNCHANGED rqVars \/ UNCHANGED vars
    BY <2>1 DEF rqVars, vars
  <2>2. ASSUME NEW s \in Requests, (\E q \in Ask : Arrive(s, q)) \/ RequestStep(s)
        PROVE  Write(r)
    <3>1. s = r
      BY DEF OneRequest
    <3>2. QED
      BY <2>2, <3>1 DEF Arrive, RequestStep, LoadKey, LoadZone, CheckLink, CheckPlugin, PreCheck,
                        InnerRead
  <2>3. QED
    BY <2>1, <2>2 DEF Next, Act
<1>2. PICK applied \in BOOLEAN, status \in {200} \cup Failures :
         /\ rrset' = IF applied THEN req[r].new ELSE rrset
         /\ req' = [req EXCEPT ![r] = [pc |-> "done", ask |-> req[r].ask,
                                       wrote |-> applied, status |-> status]]
  BY <1>1 DEF Write
<1>3. req'[r] = [pc |-> "done", ask |-> req[r].ask, wrote |-> applied, status |-> status]
  BY <1>2 DEF RequestInv, Shape
<1>4. applied
  BY <1>3
<1>5. QED
  BY <1>2, <1>4 DEF MergeStands, Decided

(* One request at a time, a PATCH leaves the fields it omits as they are,  *)
(* whatever lookups miss and whatever administrators do meanwhile.         *)
THEOREM PatchKeepsOmitted ==
  ASSUME OneRequest
  PROVE  Spec => OmittedFieldsPreserved
<1> DEFINE Stands == \A r \in Requests : MergeStands(r)
<1>1. Init => Stands
  BY DEF Init, MergeStands, Decided
<1>2. RequestInv /\ Stands /\ [Next]_vars => Stands'
  <2> SUFFICES ASSUME RequestInv, Stands, [Next]_vars, NEW r \in Requests PROVE MergeStands(r)'
    OBVIOUS
  <2>1. CASE UNCHANGED rqVars \/ UNCHANGED vars
    BY <2>1 DEF rqVars, vars, MergeStands, Merge
  <2>2. ASSUME NEW s \in Requests, (\E q \in Ask : Arrive(s, q)) \/ RequestStep(s)
        PROVE  MergeStands(r)'
    <3>1. s = r
      BY DEF OneRequest
    <3>2. QED
      BY <2>2, <3>1, RequestMerges
  <2>3. QED
    BY <2>1, <2>2 DEF Next, Act
<1>3. RequestInv /\ Stands /\ [Next]_vars =>
        [\A r \in Requests :
           (req[r].pc = "write" /\ req[r].ask.mode = "patch" /\ req'[r].pc = "done"
              /\ req'[r].wrote /\ rrset # Omit)
           => /\ req[r].ask.ttl = Omit => rrset'.ttl = rrset.ttl
              /\ req[r].ask.values = Omit => rrset'.values = rrset.values]_vars
  BY PatchWrites DEF Merge
<1>4. QED
  BY <1>1, <1>2, <1>3, RequestInvariant, PTL DEF Spec, OmittedFieldsPreserved
-----------------------------------------------------------------------------
(* The API in sequence: what a request means for the record, and what its  *)
(* answer says of the record before and after.                             *)
Legal(q, before) == (q.mode = "create") = (before = Omit)

Serial(q, before, after, status) ==
    \/ status = 200 /\ Legal(q, before) /\ after = Wanted(q, before)
    \/ status = 409 /\ q.mode = "create" /\ before # Omit /\ after = before
    \/ status = 404 /\ q.mode # "create" /\ before = Omit /\ after = before
    \/ status \in {401, 403, 503} \cup Failures /\ after = before
    \/ status \in Failures /\ Legal(q, before) /\ after = Wanted(q, before)

(* Every answer is as Serial says.                                         *)
AnswersAreSerial ==
    [][\A r \in Requests :
         req'[r].pc = "done" /\ req[r].pc # "done" =>
             Serial(req[r].ask, rrset, rrset', req'[r].status)]_vars

OnlyAnswersChange ==
    [][rrset' # rrset => \E r \in Requests : req[r].pc # "done" /\ req'[r].pc = "done"]_vars

Ready(r) ==
    req[r].pc \in Decided =>
        Legal(req[r].ask, rrset) /\ req[r].new = Wanted(req[r].ask, rrset)

(* What a step of a lone request does: it goes on, ready once the record   *)
(* was looked up, or it is answered.                                       *)
LEMMA LoneStep ==
  ASSUME RequestInv, OneRequest, ~SilentLookup, NEW r \in Requests, Ready(r),
         (\E q \in Ask : Arrive(r, q)) \/ RequestStep(r)
  PROVE  \/ /\ req'[r].pc \notin {"none", "done"} /\ rrset' = rrset
            /\ Ready(r)'
         \/ /\ req'[r].pc = "done" /\ req[r].pc # "done"
            /\ Serial(req[r].ask, rrset, rrset', req'[r].status)
<1> DEFINE Next1 == /\ req'[r].pc \notin {"none", "done"} /\ rrset' = rrset
                    /\ Ready(r)'
           Next2 == /\ req'[r].pc = "done" /\ req[r].pc # "done"
                    /\ Serial(req[r].ask, rrset, rrset', req'[r].status)
<1>1. Shape /\ DOMAIN req = Requests
  BY DEF RequestInv, Shape
<1>2. ASSUME NEW status, Answer(r, status), rrset' = rrset, req[r].pc # "done",
             \/ status \in {401, 403, 503} \cup Failures
             \/ status = 409 /\ req[r].ask.mode = "create" /\ rrset # Omit
             \/ status = 404 /\ req[r].ask.mode # "create" /\ rrset = Omit
      PROVE  Next2
  <2> DEFINE rec == [pc |-> "done", ask |-> req[r].ask, wrote |-> FALSE, status |-> status]
  <2>1. req' = [req EXCEPT ![r] = rec] /\ rec.pc = "done" /\ rec.status = status
    BY <1>2 DEF Answer
  <2> HIDE DEF rec
  <2>2. req'[r].pc = "done" /\ req'[r].status = status
    BY <1>1, <2>1
  <2>3. QED
    BY <1>2, <2>2 DEF Serial
<1>3. ASSUME NEW pc \in Stages, NEW rw, NEW zone, NEW new, Learn(r, pc, rw, zone, new), rrset' = rrset,
             pc \in Decided => Legal(req[r].ask, rrset) /\ new = Wanted(req[r].ask, rrset)
      PROVE  Next1
  <2> DEFINE rec == [pc |-> pc, ask |-> req[r].ask, rw |-> rw, zone |-> zone, new |-> new]
  <2>1. req' = [req EXCEPT ![r] = rec] /\ rec.pc = pc /\ rec.ask = req[r].ask /\ rec.new = new
    BY <1>3 DEF Learn
  <2> HIDE DEF rec
  <2>2. req'[r] = rec
    BY <1>1, <2>1
  <2>3. QED
    BY <1>3, <2>1, <2>2 DEF Ready, Legal, Wanted, Merge, Stages
<1>4. ASSUME NEW q \in Ask, Arrive(r, q)
      PROVE  Next1
  <2> DEFINE rec == [pc |-> "key", ask |-> q, rw |-> FALSE, zone |-> NoRow, new |-> Omit]
  <2>1. req' = [req EXCEPT ![r] = rec] /\ rec.pc = "key" /\ rrset' = rrset
    BY <1>4 DEF Arrive
  <2> HIDE DEF rec
  <2>2. QED
    BY <1>1, <2>1 DEF Ready, Decided
<1>5. CASE LoadKey(r) \/ LoadZone(r) \/ CheckLink(r)
  <2>1. {"zone", "link", "plugin"} \subseteq Stages \ Decided
    BY DEF Decided, Stages
  <2>2. CASE LoadKey(r)
    BY <1>2, <1>3, <2>1, <2>2 DEF LoadKey
  <2>3. CASE LoadZone(r)
    BY <1>2, <1>3, <2>1, <2>3 DEF LoadZone
  <2>4. CASE CheckLink(r)
    BY <1>2, <1>3, <2>1, <2>4 DEF CheckLink, Go, Failures
  <2>5. QED
    BY <1>5, <2>2, <2>3, <2>4
<1>6. CASE CheckPlugin(r)
  <2>1. "check" \in Stages \ Decided
    BY DEF Decided, Stages
  <2>2. Go(r, "check") \/ \E status \in {503} \cup Failures : Answer(r, status)
    BY <1>6 DEF CheckPlugin
  <2>3. QED
    BY <1>2, <1>3, <1>6, <2>1, <2>2 DEF CheckPlugin, Go
<1>7. CASE PreCheck(r)
  <2>1. Lookup = {rrset}
    BY DEF Lookup
  <2>2. "inner" \in Stages
    BY DEF Stages
  <2>3. CASE Learn(r, "inner", req[r].rw, req[r].zone, Wanted(req[r].ask, rrset))
             /\ (req[r].ask.mode = "create") = (rrset = Omit)
    BY <1>3, <1>7, <2>2, <2>3 DEF PreCheck, Legal
  <2>4. QED
    BY <1>2, <1>7, <2>1, <2>3 DEF PreCheck
<1>8. CASE InnerRead(r)
  <2>1. rrset' = rrset /\ req[r].pc \in Decided /\ Lookup = {rrset}
    BY <1>8 DEF InnerRead, Decided, Lookup
  <2>2. Legal(req[r].ask, rrset) /\ req[r].new = Wanted(req[r].ask, rrset)
    BY <2>1 DEF Ready
  <2>3. CASE Go(r, "write")
    BY <1>3, <2>1, <2>2, <2>3 DEF Go, Stages
  <2>4. CASE \E f \in Failures : Answer(r, f)
    BY <1>2, <1>8, <2>1, <2>4 DEF InnerRead
  <2>5. QED
    BY <1>8, <2>1, <2>2, <2>3, <2>4 DEF InnerRead, Legal
<1>9. CASE Write(r)
  <2>1. PICK applied \in BOOLEAN, status \in {200} \cup Failures :
           /\ status = 200 => applied
           /\ rrset' = IF applied THEN req[r].new ELSE rrset
           /\ req' = [req EXCEPT ![r] = [pc |-> "done", ask |-> req[r].ask,
                                         wrote |-> applied, status |-> status]]
    BY <1>9 DEF Write
  <2>2. req'[r] = [pc |-> "done", ask |-> req[r].ask, wrote |-> applied, status |-> status]
    BY <1>1, <2>1
  <2>3. req[r].pc = "write" /\ Legal(req[r].ask, rrset) /\ req[r].new = Wanted(req[r].ask, rrset)
    BY <1>9 DEF Write, Ready, Decided
  <2>4. QED
    BY <2>1, <2>2, <2>3 DEF Serial
<1>10. QED
  BY <1>4, <1>5, <1>6, <1>7, <1>8, <1>9 DEF RequestStep

(* "Returns 409 ... if a record of that type already exists", "404 ... if  *)
(* the type does not exist", "omitted fields are preserved": one request   *)
(* at a time, at a provider that reports failed look-ups, every answer is  *)
(* true of the record and nothing else changes it, whatever administrators *)
(* do while the request runs.                                              *)
THEOREM LoneRequestIsSerial ==
  ASSUME OneRequest, ~SilentLookup
  PROVE  Spec => AnswersAreSerial /\ OnlyAnswersChange
<1> DEFINE Stands == \A r \in Requests : Ready(r)
           Answers == \A r \in Requests :
                        req'[r].pc = "done" /\ req[r].pc # "done" =>
                            Serial(req[r].ask, rrset, rrset', req'[r].status)
           Changes == rrset' # rrset =>
                        \E r \in Requests : req[r].pc # "done" /\ req'[r].pc = "done"
<1>1. Init => Stands
  BY DEF Init, Ready, Decided
<1>2. RequestInv /\ Stands /\ [Next]_vars => Stands' /\ Answers /\ Changes
  <2> SUFFICES ASSUME RequestInv, Stands, [Next]_vars PROVE Stands' /\ Answers /\ Changes
    OBVIOUS
  <2>1. CASE UNCHANGED rqVars \/ UNCHANGED vars
    BY <2>1 DEF rqVars, vars, Ready, Legal, Wanted, Merge
  <2>2. ASSUME NEW r \in Requests, (\E q \in Ask : Arrive(r, q)) \/ RequestStep(r)
        PROVE  Stands' /\ Answers /\ Changes
    <3>1. \A s \in Requests : s = r
      BY DEF OneRequest
    <3>2. \/ /\ req'[r].pc \notin {"none", "done"} /\ rrset' = rrset /\ Ready(r)'
          \/ /\ req'[r].pc = "done" /\ req[r].pc # "done"
             /\ Serial(req[r].ask, rrset, rrset', req'[r].status)
      BY <2>2, LoneStep
    <3>3. req'[r].pc = "done" => Ready(r)'
      BY DEF Ready, Decided
    <3>4. QED
      BY <3>1, <3>2, <3>3
  <2>3. QED
    BY <2>1, <2>2 DEF Next, Act
<1>3. RequestInv /\ Stands /\ [Next]_vars => [Answers]_vars /\ [Changes]_vars
  BY <1>2
<1>4. QED
  BY <1>1, <1>2, <1>3, RequestInvariant, PTL DEF Spec, AnswersAreSerial, OnlyAnswersChange
=============================================================================
