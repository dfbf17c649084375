---------------------------- MODULE AccessControl ----------------------------
(***************************************************************************)
(* The administrator's side of the DNS API: API keys, DNS zone             *)
(* configurations, the links that allow a key to use a zone, and the set   *)
(* of disabled provider plugins.  Every handler is split where the code    *)
(* commits: SQLite takes no lock for a SELECT, so whatever a handler read  *)
(* before its COMMIT may be stale when the COMMIT runs.  Several handlers  *)
(* run at once, each in a thread of the pool; zone creation and zone       *)
(* update are coroutines and exclude each other.                           *)
(***************************************************************************)
EXTENDS Naturals, FiniteSets, FiniteSetsExt

CONSTANTS
    Keys,       \* API key rows that may be created
    ZoneNames,  \* names a zone configuration may have
    MaxZoneId,  \* bound on SQLite row ids of zone configurations
    Providers,  \* provider plugins: azure, bind, cloudflare, microsoft
    Admins,     \* administrator requests that may be in flight together
    NoRow       \* the value of a missing row

ZoneIds == 1..MaxZoneId

KeyRow == [active: BOOLEAN, rw: BOOLEAN]
ZoneRow == [name: ZoneNames, provider: Providers]
Link == Keys \X ZoneIds

ASSUME AccessAssumption ==
    /\ MaxZoneId \in Nat
    /\ Providers # {}
    /\ NoRow \notin KeyRow
    /\ NoRow \notin ZoneRow

VARIABLES
    keys,      \* keys[k]: [active, rw] or NoRow
    zones,     \* zones[i]: [name, provider] or NoRow
    links,     \* pairs <<key, zone id>>: the table api_key_allowed_zone
    disabled,  \* the setting disabled_dns_plugins
    admin      \* admin[a]: what the handler serving a has read, and where it is

accessVars == <<keys, zones, links, disabled, admin>>

Idle == [pc |-> "idle"]

(* What an unfinished handler holds between two of its transactions. *)
Handler ==
    [pc: {"idle"}]
        \cup [pc: {"keySave"}, key: Keys, rw: BOOLEAN, zones: SUBSET ZoneIds,
              was: BOOLEAN, stale: SUBSET Link]
        \cup [pc: {"keyLinks"}, key: Keys, zones: SUBSET ZoneIds]
        \cup [pc: {"keyCommit"}, key: Keys, found: SUBSET ZoneIds]
        \cup [pc: {"zoneInsert"}, row: ZoneRow]
        \cup [pc: {"zoneSave"}, id: ZoneIds, provider: Providers]
        \cup [pc: {"zoneDetach"}, id: ZoneIds]
        \cup [pc: {"zoneDelete"}, id: ZoneIds, stale: SUBSET Link]
        \cup [pc: {"disable", "enable"}, provider: Providers, seen: SUBSET Providers]

AccessTypeOK ==
    /\ keys \in [Keys -> {NoRow} \cup KeyRow]
    /\ zones \in [ZoneIds -> {NoRow} \cup ZoneRow]
    /\ links \subseteq Link
    /\ disabled \subseteq Providers
    /\ admin \in [Admins -> Handler]

AccessInit ==
    /\ keys = [k \in Keys |-> NoRow]
    /\ zones = [i \in ZoneIds |-> NoRow]
    /\ links = {}
    /\ disabled = {}
    /\ admin = [a \in Admins |-> Idle]

Exists(i) == zones[i] # NoRow
LiveIds == {i \in ZoneIds : Exists(i)}
LinksOfKey(k) == {l \in links : l[1] = k}
LinksOfZone(i) == {l \in links : l[2] = i}
Step(a, rec) == admin' = [admin EXCEPT ![a] = rec]
Finish(a) == Step(a, Idle)
-----------------------------------------------------------------------------
(* API keys *)

(* create_api_key_route without a key_id: the key row is committed first   *)
(* and its links in a second transaction.                                  *)
KeyCreate(a, k, rw, zs) ==
    /\ admin[a] = Idle
    /\ keys[k] = NoRow
    /\ zs # {}
    /\ keys' = [keys EXCEPT ![k] = [active |-> TRUE, rw |-> rw]]
    /\ Step(a, [pc |-> "keyLinks", key |-> k, zones |-> zs])
    /\ UNCHANGED <<zones, links, disabled>>

(* api_key_update (and the same code under key_id in the create route):    *)
(* load the row and the links to delete.                                   *)
KeyUpdate(a, k, rw, zs) ==
    /\ admin[a] = Idle
    /\ keys[k] # NoRow
    /\ zs # {}
    /\ Step(a, [pc |-> "keySave", key |-> k, rw |-> rw, zones |-> zs,
                was |-> keys[k].rw, stale |-> LinksOfKey(k)])
    /\ UNCHANGED <<keys, zones, links, disabled>>

KeySaveAllColumns(a) ==     \* fault: the whole row is written
    LET h == admin[a] IN
    /\ h.pc = "keySave"
    /\ keys' = [keys EXCEPT ![h.key] = [active |-> TRUE, rw |-> h.rw]]
    /\ links' = links \ h.stale
    /\ Step(a, [pc |-> "keyLinks", key |-> h.key, zones |-> h.zones])
    /\ UNCHANGED <<zones, disabled>>

(* First commit of the update.  The ORM writes only columns whose value    *)
(* differs from the one it loaded: active keeps the value of the database, *)
(* and so does access_mode when the form repeats what was loaded.          *)
KeySave(a) ==
    LET h == admin[a] IN
    /\ h.pc = "keySave"
    /\ keys' = [keys EXCEPT ![h.key].rw = IF h.rw = h.was THEN @ ELSE h.rw]
    /\ links' = links \ h.stale
    /\ Step(a, [pc |-> "keyLinks", key |-> h.key, zones |-> h.zones])
    /\ UNCHANGED <<zones, disabled>>

(* db.get(DnsZoneConfig, zid) for every submitted zone id: ids of zones    *)
(* that are gone are skipped.                                              *)
KeyFindZones(a) ==
    LET h == admin[a] IN
    /\ h.pc = "keyLinks"
    /\ Step(a, [pc |-> "keyCommit", key |-> h.key, found |-> h.zones \cap LiveIds])
    /\ UNCHANGED <<keys, zones, links, disabled>>

(* Second commit: the new links, all or (on uq_api_key_zone) none. *)
KeyLink(a) ==
    LET h == admin[a]
        new == {h.key} \X h.found
    IN
    /\ h.pc = "keyCommit"
    /\ links' = IF new \cap links = {} THEN links \cup new ELSE links
    /\ Finish(a)
    /\ UNCHANGED <<keys, zones, disabled>>

(* revoke_api_key; no route sets active again. *)
KeyRevoke(a, k) ==
    /\ admin[a] = Idle
    /\ keys[k] # NoRow
    /\ keys' = [keys EXCEPT ![k].active = FALSE]
    /\ UNCHANGED <<zones, links, disabled, admin>>
-----------------------------------------------------------------------------
(* Zones *)

(* zone_create and zone_update run on the event loop without an await      *)
(* after the form was read: no two of them interleave, so the UNIQUE       *)
(* constraint on zone_name never fires after the check of zone_create.     *)
LoopFree == \A b \in Admins : admin[b].pc \notin {"zoneInsert", "zoneSave"}

ZoneCreate(a, row) ==
    /\ admin[a] = Idle
    /\ LoopFree
    /\ \A i \in LiveIds : zones[i].name # row.name
    /\ row.provider \notin disabled
    /\ Step(a, [pc |-> "zoneInsert", row |-> row])
    /\ UNCHANGED <<keys, zones, links, disabled>>

(* SQLite without AUTOINCREMENT: the new row id is one above the largest   *)
(* one in the table, so the id of a deleted zone can come back.            *)
NextZoneId == IF LiveIds = {} THEN 1 ELSE Max(LiveIds) + 1

ZoneInsert(a) ==
    LET h == admin[a] IN
    /\ h.pc = "zoneInsert"
    /\ NextZoneId \in ZoneIds          \* bound
    /\ zones' = [zones EXCEPT ![NextZoneId] = h.row]
    /\ Finish(a)
    /\ UNCHANGED <<keys, links, disabled>>

(* zone_update: the provider comes from the form and must be enabled. *)
ZoneUpdate(a, i, p) ==
    /\ admin[a] = Idle
    /\ LoopFree
    /\ Exists(i)
    /\ p \notin disabled
    /\ Step(a, [pc |-> "zoneSave", id |-> i, provider |-> p])
    /\ UNCHANGED <<keys, zones, links, disabled>>

(* The UPDATE of a row that was deleted meanwhile matches nothing: the ORM *)
(* raises and nothing is written.                                          *)
ZoneSave(a) ==
    LET h == admin[a] IN
    /\ h.pc = "zoneSave"
    /\ zones' = IF Exists(h.id)
                THEN [zones EXCEPT ![h.id].provider = h.provider]
                ELSE zones
    /\ Finish(a)
    /\ UNCHANGED <<keys, links, disabled>>

ZoneDelete(a, i) ==
    /\ admin[a] = Idle
    /\ Exists(i)
    /\ Step(a, [pc |-> "zoneDetach", id |-> i])
    /\ UNCHANGED <<keys, zones, links, disabled>>

ZoneDetachOnly(a) ==     \* fault: the links are never selected
    LET h == admin[a] IN
    /\ h.pc = "zoneDetach"
    /\ Step(a, [pc |-> "zoneDelete", id |-> h.id])
    /\ UNCHANGED <<keys, zones, links, disabled>>

(* detach_dns_zone_from_letsencrypt may call the DNS provider, for long,   *)
(* and may raise, which ends the handler.  Then the links are selected.    *)
ZoneDetach(a) ==
    LET h == admin[a] IN
    /\ h.pc = "zoneDetach"
    /\ \/ Finish(a)
       \/ Step(a, [pc |-> "zoneDelete", id |-> h.id, stale |-> LinksOfZone(h.id)])
    /\ UNCHANGED <<keys, zones, links, disabled>>

ZoneDrop(a) ==
    LET h == admin[a] IN
    /\ h.pc = "zoneDelete"
    /\ links' = links \ h.stale
    /\ zones' = [zones EXCEPT ![h.id] = NoRow]
    /\ Finish(a)
    /\ UNCHANGED <<keys, disabled>>
-----------------------------------------------------------------------------
(* Plugins *)

ZonesUsing(p) == {i \in LiveIds : zones[i].provider = p}

(* settings_plugin_disable: all three guards are reads. *)
PluginDisable(a, p) ==
    /\ admin[a] = Idle
    /\ p \notin disabled
    /\ Cardinality(Providers \ disabled) > 1
    /\ ZonesUsing(p) = {}
    /\ Step(a, [pc |-> "disable", provider |-> p, seen |-> disabled])
    /\ UNCHANGED <<keys, zones, links, disabled>>

PluginEnable(a, p) ==
    /\ admin[a] = Idle
    /\ Step(a, [pc |-> "enable", provider |-> p, seen |-> disabled])
    /\ UNCHANGED <<keys, zones, links, disabled>>

PluginSaveMerged(a) ==     \* fault: the change is made to the setting as it is
    LET h == admin[a] IN
    /\ h.pc \in {"disable", "enable"}
    /\ disabled' = IF h.pc = "disable"
                   THEN disabled \cup {h.provider}
                   ELSE disabled \ {h.provider}
    /\ Finish(a)
    /\ UNCHANGED <<keys, zones, links>>

(* set_disabled_dns_plugins overwrites the whole setting. *)
PluginSave(a) ==
    LET h == admin[a] IN
    /\ h.pc \in {"disable", "enable"}
    /\ disabled' = IF h.pc = "disable"
                   THEN h.seen \cup {h.provider}
                   ELSE h.seen \ {h.provider}
    /\ Finish(a)
    /\ UNCHANGED <<keys, zones, links>>
-----------------------------------------------------------------------------
(* The process is stopped (restart, crash): unfinished handlers are gone,  *)
(* committed rows stay.                                                    *)
Restart ==
    /\ \E a \in Admins : admin[a] # Idle
    /\ admin' = [a \in Admins |-> Idle]
    /\ UNCHANGED <<keys, zones, links, disabled>>

(* Every administrator action; the composition with the request side uses it. *)
AdminStep ==
    \/ \E a \in Admins :
          \/ \E k \in Keys, rw \in BOOLEAN, zs \in SUBSET ZoneIds :
                KeyCreate(a, k, rw, zs) \/ KeyUpdate(a, k, rw, zs)
          \/ KeySave(a)
          \/ KeyFindZones(a)
          \/ KeyLink(a)
          \/ \E k \in Keys : KeyRevoke(a, k)
          \/ \E row \in ZoneRow : ZoneCreate(a, row)
          \/ ZoneInsert(a)
          \/ \E i \in ZoneIds, p \in Providers : ZoneUpdate(a, i, p)
          \/ ZoneSave(a)
          \/ \E i \in ZoneIds : ZoneDelete(a, i)
          \/ ZoneDetach(a)
          \/ ZoneDrop(a)
          \/ \E p \in Providers : PluginDisable(a, p) \/ PluginEnable(a, p)
          \/ PluginSave(a)
    \/ Restart

AccessSpec == AccessInit /\ [][AdminStep]_accessVars
-----------------------------------------------------------------------------
(* "At least one DNS provider plugin must remain enabled."  It holds with  *)
(* any number of concurrent administrators although the guard is a read:   *)
(* a save overwrites the setting with a set computed from one consistent   *)
(* read.                                                                   *)
SomePluginEnabled == disabled # Providers

(* Revocation is final: no interleaving of a revocation with an edit of    *)
(* the same key makes the key usable again.                                *)
RevocationIsFinal ==
    [][\A k \in Keys : (keys[k] # NoRow /\ ~keys[k].active)
                          => (keys'[k] # NoRow /\ ~keys'[k].active)]_accessVars

(* A permission names a zone that exists.  Otherwise a zone created later  *)
(* under the same row id would inherit it.  Two administrators do not      *)
(* keep this.                                                              *)
NoDanglingLinks == \A l \in links : Exists(l[2])
=============================================================================
