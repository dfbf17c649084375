# api-to-dns: formal models

api-to-dns is one Python process (FastAPI, a thread pool, an event loop with two
background loops, SQLite) that lets holders of API keys change DNS records at a
provider (BIND, Azure, Cloudflare, Microsoft) and lets administrators manage keys,
zones, providers, certificates, accounts and backups in a browser.  These modules
model the parts of it in which *order* matters: handlers that run together, each a
sequence of transactions and calls to the outside, and a process that may end
between any two of them.

Source paths below are relative to `src/src/` unless they begin with `src/`.

## 1. How the system runs, and what that means for a model

* **Handlers.** A route declared `def` runs in a thread of the pool, so any number
  of them interleave.  A route declared `async def` that never awaits
  (zone creation and update) runs alone on the event loop among its kind, but
  interleaves with the threads.
* **Transactions.** Every handler has one SQLAlchemy session.  With SQLite a
  `SELECT` takes no lasting lock, so what a handler read before its `COMMIT` may be
  stale when the commit runs.  The only exception is `begin_immediate`
  (`settings_store.py:123`).  A step of a model is therefore *the reads and
  the writes up to one commit or one call to the outside*; a handler with two
  commits has at least two steps.  `set_setting` commits each settings row on
  its own.
* **Objects in memory.** SQLAlchemy writes only the columns an object has changed.
  This is why an edit of a key does not write back an old `active` flag, and it is
  modelled (`KeySave`).
* **The outside.** The provider and the ACME server may refuse, fail, time out, or
  do what was asked and lose the answer.  Every call has a time limit, which is
  what justifies the fairness assumed below.
* **Crashes.** SIGTERM (and a crash) ends every handler.  The rows stay;
  `_startup_init` (`app.py:79`) repairs some of them.

## 2. Inventory

| Component | State | Operations | Interacts with | Hard part |
|---|---|---|---|---|
| DNS record API (`dns_api_service.py`, `dns_mutation.py`, `routes/dns_api.py`) | none of its own: the record at the provider | POST, PUT, PATCH, DELETE, three GETs | key/zone/link rows, plugin | read, decide, write are three calls; failed look-ups; lost answers |
| Keys, zones, plugin switches (`routes/api_keys.py`, `routes/zones.py`, `routes/settings_plugins.py`, `zone_service.py`) | rows `ApiKey`, `DnsZoneConfig`, `ApiKeyAllowedZone`; setting `disabled_dns_plugins` | create, edit, revoke; create, edit, delete; enable, disable | read by every DNS request; zone deletion calls Let's Encrypt | links committed after the zone was looked up; SQLite reuses row ids |
| Let's Encrypt (`letsencrypt.py`, `routes/settings_ssl.py`) | three settings rows, the TXT challenge record, certificate files | start (background, synchronous), continue, cancel, save, renew, detach zone | provider plugins, ACME, restart flags, zone deletion | the gate covers one of seven routes; steps last minutes |
| Restart coordination (`restart.py`, `app.py`) | restart-required, renewal-pending, last date | mark, restart now, scheduled restart, start-up clean-up | Let's Encrypt, SSL settings | a flag set late or not at all |
| Remote syslog (`remote_syslog.py`) | queue, generation, configuration, sockets, worker thread | configure, enqueue, worker loop, stop | every handler that reports an event | lock held only around some steps; queue replaced under the worker |
| Provider plugins (`plugins/*`, `dns_client.py`) | remote records; two zone-transfer slots | look up, create-or-update, delete, browse | DNS API, Let's Encrypt, browser | several calls per change (Cloudflare, Microsoft) |
| Accounts (`auth.py`, `rbac.py`, `routes/settings_users.py`, `routes/auth_pages.py`) | user rows with `session_version`; signed cookies | login, refresh, password, roles, enable, disable, delete | every page | absolute writes of a counter read earlier; "at least one enabled" |
| Backup and restore (`backup_service.py`, `backup_crypto.py`, `routes/settings_backup.py`) | progress row, `_import_in_progress`, all tables, files | export, restore in the background | everything it replaces | one transaction, then files, then secrets |
| Certificates on disk (`ssl_certs.py`, `routes/settings_ssl.py`) | key, certificate, `server.source`, temporary files | upload, self-signed, install, switch the listener | Let's Encrypt, backup, restart, start of the process | three renames, temporary files of fixed names |
| Alerting (`alerting.py`, `routes/settings_alerts.py`) | rules with `last_triggered_at` | evaluate on every event; create, edit, delete a rule | activity log, SMTP | cooldown written after sending; rules read once and used after commits |
| Rate limiter (`rate_limit.py`) | counters per route, identity and window | count, refuse | middleware | lock retries, fail closed, window boundary |
| Activity log (`activity_logging.py`) | event rows, time of the last clean-up in a setting and in memory | write, search, retention | everything | a clean-up throttled in two places |
| Settings store (`settings_store.py`, `settings_registry.py`) | encrypted rows | get, set, delete, `begin_immediate` | everything | one commit per row |
| Record types and values (`dns_record_types.py`) | none | normalise, compare | DNS API, plugins | pure functions |
| Admin DNS browser (`dns_browser_service.py`) | none | list, edit in a session | plugins | same helpers as the DNS API |
| Secrets bootstrap (`env_bootstrap.py`, `security.py`) | environment file | create keys, encrypt | backup | rewriting a file |
| Database, web UI | schema, templates | migrate once; render | | no order to explore |

What makes each correct, in one line: the **DNS API** answers truthfully and writes
only what was permitted; **keys and zones** keep links and zones in order and never
revive a revoked key; **Let's Encrypt** runs one enrollment at a time, never loses a
certificate, never uses a deleted zone, and its gate opens again; **syslog** keeps
order, bounds and destinations, and decides every event; **accounts** end the
sessions they should, keep one enabled administrator and let only administrators
make administrators; **restore** replaces all rows or none, stays readable, revives no
session and no grant, and its gate opens again; **certificates**: an installation
that nobody disturbs takes effect; a **plugin** that reports success has written what was
asked; **alerts** are neither lost nor a storm; the **log** forgets in time.

## 3. Modules

| Module | What it is |
|---|---|
| `AccessControl` | keys, zones, links, disabled plugins; administrators as handlers split at their commits |
| `DnsMutation` | EXTENDS `AccessControl`: requests of the DNS API that read those rows while administrators change them, and one RRset at the provider |
| `RecordWriters` | what the four plugins do at the provider for one change, call by call; the zone-transfer slots |
| `LetsEncrypt` | enrollment, renewal, detachment, the restart flags |
| `Certificates` | the certificate files and everything that replaces them |
| `RestoreAtomic` | the abstract restore: one step for all its rows or none, files and success after it |
| `BackupRestore` | the restore step by step, with failures and the end of the process; implements `RestoreAtomic` |
| `RemoteSyslog` | the forwarder of audit events and the saving of its settings |
| `ActivityAlerts` | the event log with its clean-up and the mails that events cause |
| `Accounts` | user rows, session cookies, logins and the routes that change accounts |
| `…_proofs` | theorems about `DnsMutation` and the `AccessControl` it extends (`DnsMutation_proofs`), `RecordWriters`, `LetsEncrypt`, `Certificates`, `BackupRestore` and its `RestoreAtomic`, `RemoteSyslog`, `ActivityAlerts`, `Accounts` (section 5) |
| `MC…` | the instance of each module that TLC checks: definitions for constants, symmetry, an initial state |

`AccessControl` is the abstract specification of what requests may assume: the
theorem `RequestsOnlyRead` says that a behaviour of `DnsMutation` is a behaviour of
`AccessControl`, so what is proved of administrators holds with requests running.

Three modules abstract from a part that another one details.  `Write` in `DnsMutation` is
the one step that a provider call is for BIND and Azure; `RecordWriters` opens it
up, and `WritesSettle` says that for those two the RRset at rest is what one of the writes
asked for, as if each had been that one step.  `Install` in `LetsEncrypt` is one step; `Certificates` has its renames.  The
files in `BackupRestore` are those of `Certificates`, written by a restore that the gate
keeps alone among restores.  These are not connected by a formal refinement: the steps inside
can overlap those of another handler, and section 4 says what then happens.

Definitions marked `\* fault` are plausible mistakes in the code next to which they
stand (a dropped guard, a missing reset, a changed order).  No specification uses
them; each shows that a property notices when the definition below it is wrong.

### AccessControl

State: `keys[k]` (active, read_write), `zones[i]` by row id (name, provider),
`links`, `disabled`, and `admin[a]`, the local variables of handler `a`: `pc` says which
commit comes next.  Zone ids are numbers because SQLite hands a freed id out again
(`NextZoneId`), names and keys are model values.

| Actions | Code |
|---|---|
| `KeyCreate`, `KeyFindZones`, `KeyLink` | `create_api_key_route`: commit the key, look the zones up, commit the links |
| `KeyUpdate`, `KeySave`, `KeyLink` | `api_key_update`: read, commit columns and the removal of the links, commit new links |
| `KeyRevoke` | `revoke_api_key`, one transaction |
| `ZoneCreate`, `ZoneInsert`; `ZoneUpdate`, `ZoneSave` | the two coroutines; `LoopFree` keeps one of them at a time |
| `ZoneDelete`, `ZoneDetach`, `ZoneDrop` | `zone_delete`: read the row, detach it from Let's Encrypt (a call that may last or fail), select and delete its links with the row |
| `PluginDisable`, `PluginEnable`, `PluginSave` | read the guards and the whole setting, then write the whole setting |
| `Restart` | every handler ends where it is |

### DnsMutation

A request (`req[r]`) goes `key → zone → link → plugin → check → inner → write → done`,
each arrow one read or one call: `LoadKey`, `LoadZone`, `CheckLink` (link and access
mode), `CheckPlugin` (disabled plugin 503), `Lookup`+`PreCheck` (409 for POST, 404
for PATCH and DELETE, merge of a PATCH), `InnerRead` (the plugin's own existence
test), `Write`.  `SilentLookup = TRUE` is BIND, for which a failed look-up is the
same as "no record" (`plugins/utils.py:163`); FALSE is a provider that reports it.
`Write` may fail before or after it took effect.  `past[r]` records which facts held at
some moment of the request; no action reads it.  Properties are stated
against it because "true when read" is all a concurrent server can promise.

### LetsEncrypt

`job[j]` is a handler with its route (`what`), its next step and what it has read.
Background enrollment (`StartAsync … Finisher`, `Overwrite`) passes the gate `progress`;
`Start`, `SaveSettings`, `Continue`, `Cancel`, `DeleteZone` and `Renew` do not.  The
steps between are shared: `Validate`, `Save`, `PrepareOrder`, `CreateTxt`, `VerifyTxt`,
`WriteRow`, `Reload`, `Finalize`, `Install`, `WriteConfig`, `ClearRow`, `DeleteTxt`,
`MarkRestart`.  An error goes where the route's `except` and `finally` send it
(`Raise`).  `cert` and `served` are the installed and the loaded certificate;
`required`, `pending` and `stopping` are the flags by which the first becomes the second.

### RemoteSyslog

A save writes its rows one after the other (`StoreRow`), reads them back (`ReadRows`:
rows that do not fit together disable forwarding, `Effective`) and calls `Configure`, which
holds the lock: a new generation, a new queue if the size changes, no
sockets.  An event is read against the configuration (`ReadConfig`), finds the queue
(`LoadQueue`) and is put (`Put`), three steps without the lock.  The worker takes,
compares generations, and sends: over UDP without looking again, over a stream with
`Install` and the test before a second attempt under the lock.  Ports, facilities,
levels and the RFC 5424 text are not modelled; TCP and TLS behave alike and are one
protocol.  `accepted` and `sent` are histories that no action reads.

### Accounts

State: `users[n]` (password, roles, disabled, `session_version`), the `cookies` that browsers
hold, `handler[h]` (the request, with what `load_current_user` cached and then what it
will write), `login[b]`.  `ended` and `used` are histories; `used` only limits `UserCreate`
when `NamesReused` is FALSE.

| Actions | Code |
|---|---|
| `LoginRead`, `LoginAnswer` | `login`: read the row and verify the password; set the cookie.  A login that is refused changes nothing |
| `Authenticate` | `load_current_user`: the cookie is good if the row is enabled and has its version; roles are cached on the request |
| `OwnPassword`, `UserCreate`, `UserDisable`, `UserEnable`, `UserDelete`, `UserReset`, `UserRoles` | the seven routes of `settings_users.py` up to the hashing of a password or the commit: every guard, in any order, since no guard changes anything |
| `Commit` | the commit: the columns that the handler changed, with values that follow from what it read (`bump_session_version` writes a number, not an increment) |
| `Answer` | `refresh_session_cookie`; after a change of the own password, with the new version |
| `Restart` | every handler ends; `_startup_init` creates `ADMIN_USER` again if it is gone and still in the environment |

Only the roles that decide who may change what are modelled: `global.admin`,
`account.update` and `account.reset_password`, the last two standing for all roles that only a
global administrator grants.  Rows are identified by name; the routes use the row id,
which makes a difference only when a row is deleted between the two halves of another
handler.

### RecordWriters

State: the `rows` of one RRset at one `provider` (Cloudflare gives each an id), `job[w]`
(what writer `w` was asked and what it has still to delete, keep and write), the free `slots`.

| Actions | Code |
|---|---|
| `Begin`, `List` | `create_or_update_record` or `delete_record` up to and including its first call, which reads; a DELETE that finds nothing ends there |
| `Put` | BIND: one DNS UPDATE (`_send_update`); Azure: one PUT or DELETE of the record set |
| `Remove`, `Update`, `Create`, `Finish` | Cloudflare `_sync_records`: stale rows are deleted, those that stay updated, new ones created, one call each; a CNAME is overwritten in place and surplus rows go afterwards |
| `Script`, then `Remove`, `Create` | Microsoft: a run of the PowerShell script removes what it gets and adds the values; `_run_ps_with_retry` runs it again |
| `Fault` | a call is refused or its answer lost: the action before it was taken, and the request ends with an error or the script is run again |
| `Transfer`, `TransferEnds` | `_iter_axfr_rrsets`: a slot is taken or refused at once, and given back by the `finally` |

It is assumed that Cloudflare and Microsoft refuse a value that is there and a second
CNAME, that reading the rows on the Microsoft server answers, and that a script whose
answer was lost has ended before it is run again.  The values are finitely many, and there is
an id for each of them (`WritersAssumption`), so that `Create` always finds one.

### Certificates

State: for `server.key` and `server.crt` the pair they belong to, and the same for the temporary files
of `_write_atomic` (`tmp`) and of openssl (`new`); `source`, `ssl_enabled`, whether a restart
is announced, whether the process is `up` and what it `loaded`.

| Actions | Code |
|---|---|
| `Upload`, `LetsEncrypt`, then `WriteTmp`, `Replace`, `WriteSource` | `install_uploaded_cert`, which `install_letsencrypt_cert` calls and then writes its own source |
| `SelfSigned`, then `Look`, `Unlink`, `RemoveStale`, `Generate`, `ReplaceNew`, `WriteSource` | `settings_regenerate_ssl`: an installed pair is removed before the new one exists |
| `Mark` | `mark_restart_required` |
| `Toggle`, `Check`, `Switch`, `Announce` | `settings_update_ssl` |
| `Fail`, `Stop`, `Start` | an `OSError`; the end of the process; `bootstrap` and `serve`, which refuse a missing file or a torn pair |

`alone` (installers that ran beside no other) and `whole` (what the last of them installed)
are histories.

### BackupRestore and RestoreAtomic

State: `db` (whose rows each category holds, zones by row id, links, the key that
encrypts settings and zones, `ssl_enabled`, whether session versions are fresh), `tx` (the open write
transaction), `row` (the progress row, which is the gate), `disk` (files and durable secrets), `proc`.

| Actions | Code |
|---|---|
| `Begin` | `settings_backup_import_async` with `try_begin_restore` under `begin_immediate` |
| `Start`, `Wipe`, `Fill` per category, `Commit` | `restore_payload`: one transaction; SQLite has one writer, so every other commit waits (`Unlocked`) |
| `SslFiles`, `Unlink`, `Write`, `Written` | `_restore_ssl_files`: every file goes, then those of the archive come |
| `Secrets`, `Persist` | fresh session versions in a commit of their own, then `write_application_secrets` |
| `Complete`, `Restart` | the last progress and `perform_application_restart` |
| `Fail`, `ReportFailure`, `Finish` | any exception; the report, which may fail too; `mark_restore_worker_finished` in the `finally` of the task |
| `Stop`, `Boot` | the end of the process; `bootstrap` and `clear_stale_restore_progress`, if it can start (`CanStart`) |
| `CreateZone`, `DeleteZone` | administrators who edit zones between the transactions |

`ImplementsAtomic == Atomic!Spec` maps `origin` to `db.origin`, `asked[r]` to the
categories of the form that are tables, `placed` to the restores with a file or the secrets on
the disk, and `shown` to whether the progress row says complete.

### ActivityAlerts

State: the clock, the settings (`level`, `window`, number of `smtp` servers), the `rows` of the
log by their time, the last clean-up as stored (`lastDb`) and as remembered (`lastLocal`), `rule[r]`,
`job[w]` (an evaluation).  `burst`, `due` and `keptFor` are histories.

| Actions | Code |
|---|---|
| `Emit` | `emit_activity_event`: threshold, row, `run_retention_cleanup` |
| `Look` | the loop of `evaluate_alert_rules` up to the next rule that matches and is not cooling down, or that was deleted: reading it again raises, and the evaluation ends |
| `Send` | `send_alert_email`, one server at a time |
| `Record`, `Answer` | commit `last_triggered_at`; emit `alert.email_sent` or `alert.email_failed`, for which no rule is evaluated |
| `SaveRule`, `DeleteRule`, `SetLevel`, `SetWindow`, `SetSmtp` | the administrator's forms |
| `Restart`, `Tick` | `_startup_init` with its clean-up, which may fail; time |

The clean-up caused by an event is taken to succeed, and is one step with the row
that caused it.  Filters of a rule other than its level are left out.

## 4. What the runs check

| Run | Question and properties | Instance | Distinct states |
|---|---|---|---|
| `access_two` | Two administrators at once: types, one provider stays enabled (`SomePluginEnabled`), revocation is final (`RevocationIsFinal`) | 1 key, 2 zone names, 2 ids, 2 providers | 439,999 |
| `access_dangling` (violated) | `NoDanglingLinks` with two administrators | the same | |
| `dns_requests` | Two requests: `CreatedOnlyIfAbsent`, `RefusalsAreJustified`, `DeletedMeansGone`, `EveryRequestAnswered` | 2 values, 2 TTLs, a provider that reports failed look-ups | 218,417 |
| `dns_admin` | One request and one administrator: types, `WritesWereAllowed`, `OmittedFieldsPreserved` | 2 zone names, 2 providers, 2 TTLs, failed look-ups silent | 854,440 |
| `writers` | Two writers of one RRset at each provider: types and slots, `SettledAsAsked` (writes that agree leave what they ask for; at BIND and Azure any writes leave what one of them asked for; nothing is left that nobody asked for), `KeptValuesStay`, `WritesEnd` | 2 values, 2 TTLs, 6 row ids, 2 writes, 2 attempts, 2 browsers for 1 slot | 103,126 |
| `le_handlers` | Two handlers: types, `AutoRenewSupported`, `NewCertificateAnnounced` | 2 orders, two submitted configurations, a provider that deletes | 2,451,499 |
| `le_alone` | One handler, every configuration, providers that refuse to delete: `DeletedZoneIsDetached`, `GateReopens` | 2 orders | 579,824 |
| `certificates` | Two handlers of any kind, failures and the end of the process at every write: types, `LoneInstallTakesEffect` | 3 pairs | 356,830 |
| `restore` | Two restores of six kinds, with every step failing or being the last: types, `KeysReachGrantedZones`, `StoredDecrypts`, `NoReplayedSessions`, `ImplementsAtomic`, `GateReopens` | 2 zone names, 2 row ids; an archive with the same zones in another order | 552,813 |
| `syslog_forwarder` | Two events, one administrator: types (with the bound of the queue), `OrderKept`, `RunsAsStored`, `StreamFollowsConfig`, `EveryEventDecided` | sizes 1 and 2, two servers, three submitted configurations, two generations per process | 798,664 |
| `alerting` | Two requests and an administrator: types, `StormBounded`, `MatchedRulesServed`, `RowsLeaveInTime` | 2 rules, 1 server, a tick is a day, 2 days, 2 events, 1 change or restart | 3,301,957 |
| `accounts` | One account request with a login and restarts overlapping it: types, `RevokedSessionsEnd`, `AdminRemains`, `PrivilegesNeedAdmin` | 3 names, 1 password, versions up to 2 | 1,941,626 |

**Why these bounds are enough.**  Two of everything is where interleavings begin:
two handlers give every pair of steps in either order, and every race listed below
needs two.  One RRset, because RRsets never interact; two TTLs and two values, so that a
merge of two writers is neither of them.  Two row ids and two names, so that an id can be freed
and taken by a zone of another name.  `dns_admin` has one row id: the zone under a
request can be deleted and another one created in its place.  In `writers` an RRset of two
values has every kind of row to delete, to keep and to create, and six ids
let each of two writers hold two rows that are gone while two others are there;
three writes instead of two were checked once (1,348,596 states, no error) and are left
out for time.  Two ACME orders, so that an old order and a new one can be confused; one TXT
record, because all names of a certificate are handled alike.  Three pairs of a certificate are the
one in use, one torn and one being installed.  Two restores: the gate, the
finisher that takes the row of the next, and rows of an archive under those of another; the six
requests are those whose guards differ (secrets that go with encrypted categories, alone,
or not at all; a foreign key; keys and zones without each other; everything).  Three
accounts are one that acts, one that is acted upon and one that is left; with one password every login that names
an enabled account succeeds, which is the harder case; two changes of an account give
three versions, so that a session can be too old by more than one.  A queue of one or two events is full, shrinks and grows.
Two generations let a worker hold the old one; three were checked once (1.4
million states, no error) and are left out for time.  In `alerting` a day is a tick, so that
cooldowns and windows of one and two ticks end before, at and after a clean-up.

`CHECK_DEADLOCK FALSE` stands where the model may really stop: `dns_requests` has a finite number
of requests and no administrator; in `restore` and `certificates` a process that cannot
start stays down; `writers` and `alerting` come to the end of their bounds (writes;
time, events and changes).

**Symmetry** is used only where no liveness property is checked: keys,
administrators and zone names of `AccessControl`, the handlers of `LetsEncrypt` and
`Certificates`, the requests of `ActivityAlerts`, and the names of `Accounts` other than `AdminUser`.

**Fairness.**  `DnsMutation`: a request that began takes its next step; each is a
statement on a local database or a call with a time limit, and no step waits for
another request.  `LetsEncrypt`: a handler that has begun takes its next step; DNS
verification polls for a limited time, and so does ACME.  `RecordWriters`: a writer takes its next
step; every call has a timeout.  `BackupRestore` (`FairSpec`): the worker thread runs, the event loop runs
the `finally` of its task, a process told to stop stops, and the container restarts it.
`RemoteSyslog`: the worker thread runs, and its socket operations have
timeouts.  Requests, renewals and crashes are never forced, and nothing is assumed of administrators or of
calls succeeding.

### Disagreements between the code and what it says

`access_dangling` has a run: a key can keep a permission for a zone row that is gone, and
the next zone created takes that id (`models.py:78`: "Which configured zones an API key may modify.").
It takes two administrators who overlap: `OneAdminNoDangling` proves that without them it cannot happen.

The others are reached by changing the constants of an instance and checking one definition, which
TLC then finds violated:

| Definition | With | What happens |
|---|---|---|
| `CreatedOnlyIfAbsent` | `dns_requests`, `SilentLookup = TRUE` | `src/README.md:273`: POST "Returns 409 … if a record of that type already exists"; with BIND a failed look-up lets it replace the record and answer 200 |
| `DeletedMeansGone` | the same | the plugin takes a failed look-up for absence, sends no update, and DELETE answers 200 |
| `OmittedFieldsPreserved` | `dns_requests` | a PATCH merges with what it read before the other request wrote |
| `OneWorker` | `le_handlers` | `letsencrypt.py:185`, "Returns False if already running": the finisher of one enrollment takes the next one's progress for its own and opens the gate under it |
| `DeletedZoneIsDetached` | `le_handlers` | `src/CHANGELOG.md:217`: a configuration written while its zone is deleted brings the zone back |
| `NewCertificateAnnounced` | `le_handlers`, `DeleteMayFail = TRUE` | a provider error after the installation hides it |
| `OneRestore` | `restore` | the finisher of a restore takes the row of the next one for its own; a third may then begin |
| `Bootable` | `restore` | settings restored without the certificate they ask for, or files removed and not yet written: the process does not start again; these two ways are the only ones (`RestoreStaysBootable`) |
| `PairMatches` | `certificates` | `src/README.md:222` ("writes `server.key` / `server.crt` atomically") and `ssl_certs.py:331`: two renames, with another installer or the end of the process between them |
| `PendingPreserved` | `syslog_forwarder`, `Requested <- Resize`, `First <- Small` | `remote_syslog.py:355`, "Preserve pending events when resizing": they are moved to the new queue and then discarded, because `configure` has just increased the generation they are compared with |
| `RunsAsStored` | `syslog_forwarder`, `Savers = {s1, s2}`, `MaxGen = 3`, `Events = {e1}` | the last to write the rows need not be the last to configure the forwarder |
| `AdminRemains` | `accounts`, `Handlers = {h1, h2}` | two administrators disable each other, since each counts the enabled accounts before the other commits |
| `RevokedSessionsEnd` | the same | two changes that read the same version write the same version, and a session of the first survives the second |
| `RevokedSessionsEnd` | `accounts`, `NamesReused = TRUE` | an account that is deleted and created again begins at version 0, where cookies of the old one are good until they time out |

What the properties leave room for, because the code does:

* `SettledAsAsked` lets two overlapping writes that ask for different things leave a mixture
  of the two at Cloudflare and Microsoft ("Edits replace the whole RRset", `src/README.md:168`,
  which BIND and Azure keep).
* `KeptValuesStay` leaves Microsoft out: its script removes the whole RRset first.
* `StormBounded` lets each request mail once in a cooldown, as many as overlap; a
  process that ends between the mail and the commit mails again.
* `MatchedRulesServed` excuses the rules behind one that was deleted during the evaluation.

## 5. What is proved

All by TLAPS, for every value of the constants that satisfies the named assumptions of
the module; TLC evaluates the same assumptions in every run.  An extra assumption of a
theorem is given with it.

| Theorem | States | Argument |
|---|---|---|
| **AccessControl** | | |
| `TypeCorrect` | `[]AccessTypeOK` | Types are not inductive by themselves: `KeySave` writes a column of a row it has looked up earlier.  `TypeInv` adds `UpdatedKeyExists` (a key being saved has a row), true because key rows are never deleted. |
| `PluginsRemain` | `[]SomePluginEnabled` | The guard is a stale read, so the current set says nothing.  `DisableLeavesOne` says of each unfinished disable that *the set it read*, with its provider added, leaves one; since the whole set is written, the last writer decides and leaves one. |
| `RevokedStaysRevoked` | `RevocationIsFinal` | The three writers of `keys` either create a row, copy `active` from the current row, or clear it. |
| `NamesStayUnique` | `[]ZoneNamesUnique`: no two zone rows have one name | `PendingNamesFree`: a name checked by `zone_create` is still free when its row is inserted, because one of the two coroutines is under way at a time and deletions only free names. |
| `OneAdminNoDangling` | `OneAdmin => []NoDanglingLinks` | `ReadsStand`: what the one handler read, the zones it found, the links it selected, the plugin setting, is still so at its commit.  The run `access_dangling` shows that two administrators break it. |
| `UsedPluginsStay` | `OneAdmin => []UsedPluginsEnabled`: no zone has a disabled plugin | The same invariant, `LoneInv`: the guard of a disable and the guard of a zone's form are true when they commit. |
| **DnsMutation** | | |
| `RequestsOnlyRead` | `Spec => AccessSpec` | Refinement with the identity mapping: a request step changes no row, so it is a stutter of `AccessControl`. |
| `RequestTypes` | `[]TypeOK` | From `TypeCorrect` through `RequestsOnlyRead`, and `Shape`; the merge of a PATCH is a whole record (`WantedIsRRset`). |
| `OnlyAllowedWrites` | `[]WritesWereAllowed` | `KnowledgeIsOld` carries what each read established: past `LoadKey`, the access mode found is a fact in `past[r]`; past `CheckLink`, so is the link. |
| `CreatesFoundNothing`, `RefusalsWereTrue`, `DeletesLeftNothing` | `~SilentLookup => []…` | `AnswerIsOld`: a decision taken and an answer given are facts of a moment of the request.  Without the assumption the look-up establishes nothing. |
| `PatchKeepsOmitted` | `OneRequest => OmittedFieldsPreserved` | `MergeStands`: from the pre-check on, what the request will write is the merge with the record *as it is*. |
| `LoneRequestIsSerial` | `OneRequest /\ ~SilentLookup => AnswersAreSerial`, `OnlyAnswersChange` | The sequential meaning of the API (`Serial`): a 200 is the operation done on the record it applies to, 409 and 404 are true and change nothing, a failure has done all or nothing.  `Ready`: what was decided at the pre-check is still the right decision.  TLC violates it with two requests or with silent look-ups. |
| **RecordWriters** | | all from `WriteInv`, of which the first part, `Shape` and `Held`, says what a writer holds at each of its steps (`HoldsItsStep`) and that a Cloudflare listing is still true (`ListingStands`) |
| `WriterTypes` | `[]TypeOK` | Two rows never have one value: a value is created when no row has it.  `SlotsCounted` counts the transfers that run; a CNAME keeps one row because it is overwritten in place. |
| `WritesSettle` | `[]SettledAsAsked` | What is true at rest must be carried through every overlap of writers: `UnaskedLeave` (a row nobody asked for is one that *every* writer still at work will remove or update, so it is gone when the last ends), `WantedCome` (a value all want is there or somebody is still to write it), `NameReturns` (the name is empty at rest only after a DELETE), and `OneCall` (at BIND and Azure the RRset is what one ask wants as soon as one has made its call). |
| `LoneWriteKeepsValues` | `KeptValuesStay` | `ListingStands` and `HoldsItsStep`: what is deleted was listed and is not wanted; a wanted row is only updated. |
| **LetsEncrypt** | | |
| `EnrollmentTypes` | `[]TypeOK` | `Fit`: what a handler holds at each of its steps (a configuration, an order). |
| `AutoRenewNeverManual` | `[]AutoRenewSupported` | The writers of the configuration write what they read long before, so `Fit` says of every configuration in a handler, in the enrollment row and in the setting that it is supported. |
| `NewCertificateIsAnnounced` | `~DeleteMayFail => []NewCertificateAnnounced` | The property is inductive with `Fit`: each step from the installation on either keeps the handler in `StillToAnnounce` or sets a flag. |
| `DeletedZoneStaysDetached` | one handler `=> []DeletedZoneIsDetached` | `Detached`: without the zone neither row names it (`Without`), and what the handler has read of the zone and the rows is still true at the step that relies on it (`Knows`). |
| **Certificates** | | |
| `CertificateTypes` | `[]TypeOK` | `Coherent`: a handler is at a step of its own kind, with a pair if it installs. |
| `LoneInstall` | `[]LoneInstallTakesEffect` | `Progress`: at each step of an installer that is alone, which of the files are already its own; files of fixed names left by others are overwritten or removed before they are renamed. |
| `LoneInstallStarts` | `[](whole # None => Startable)` | From `LoneInstall`: its two files are there and of one pair, whatever torn pairs there were before. |
| **BackupRestore** | | |
| `RestoreTypes` | `[]TypeOK` | `Control`: a transaction is open only while its worker is between its first write and its commit. |
| `NothingIsLockedAway` | `[]StoredDecrypts` | `OwnKey`: the process never changes its ENCRYPTION_KEY, since secrets of another key are not adopted with what it encrypts, and every token is rewrapped on the way in, in the transaction too. |
| `NoSessionReplay` | `[]NoReplayedSessions` | `Fresh`: past `Secrets` versions are fresh, by the restored users or by the extra commit, and no later commit undoes it. |
| `KeysStayGranted` | `[]KeysReachGrantedZones` | `Links`: the same of the tables inside the open transaction, where links vanish with either side and are made again from names. |
| `RestoreIsAtomic` | `ImplementsAtomic` | `Order` says how far the transaction is by the worker's step.  Each action is then a step of `RestoreAtomic` or a stutter: `Commit` is its `Apply`, `Write` and `Persist` its `Place`, `Unlink` its `Remove`, `Complete` its `Succeed`. |
| `RestoresLeaveNoHalf` | `[](Atomic!RowsAreWhole /\ Atomic!NoOrphans)` | Proved of `RestoreAtomic` and carried over by `RestoreIsAtomic`: no category is left wiped or half filled, and no file or secret of an archive is on the disk without its rows. |
| `RestoreStaysBootable` | no request brings SSL files or settings with SSL on `=> []CanStart` | `SslServed`: committed or in the open transaction, SSL is on only with both files; with `NothingIsLockedAway` the process can start again after any failure or end. |
| **RemoteSyslog** | | |
| `ForwarderTypes` | `[]TypeOK` | `Inv`: what savers, events, queues and the worker hold at each step; the queue in use has the configured size, and no queue more than its own. |
| `NothingToReplacedServer` | `StreamFollowsConfig` | From `Inv`: an installed stream belongs to the configuration in force, since `configure` closes it under the lock. |
| `LoneSaverRunsAsStored` | one saver `=> []RunsAsStored` | `AppliesStored`: what a saver is about to configure is what the rows say. |
| `EventsArriveInOrder` | `[]OrderKept` | `Dated` (an event's generation is not newer than the forwarder's), `Placed` (an event waits in one place, once), `InOrder` (the live events on the queue in use are in the order of acceptance, after the one in the worker's hand and those sent). |
| **ActivityAlerts** | | |
| `AlertTypes` | `[]TypeOK` | with `ServerLeft`: a server is tried only while one is left. |
| `NoMailStorm` | `[]StormBounded` | `BurstInv`: a request that mailed in a burst has either not yet written its time, and so cannot mail again, or has, and the rule cools down at least as long as the burst. |
| `DueRulesServed` | `[]MatchedRulesServed` | `DueInv`: a rule still owed is ahead in `todo` and still matches. |
| `OldRowsLeave` | `RowsLeaveInTime` | `CleanupInv`: every row is at most the window of the last clean-up older than that clean-up, and what is remembered in memory is nothing or what is stored. |
| **Accounts** | | |
| `AccountTypes` | `[]TypeOK` | Inductive as it stands.  `ActPlans` says what each of the seven routes plans, once, and all theorems use it. |
| `AdminAlwaysRemains` | `OneHandler => []AdminRemains` | The guards count enabled accounts, not administrators, so the reason is another one: who takes something from an administrator is another administrator (`GuardsStand`) and is still enabled (`ActorsStand`).  Both need `OneHandler`. |
| `RevokedStaysEnded` | `OneHandler /\ ~NamesReused => []RevokedSessionsEnd` | `SessionInv`: every cookie held or about to be set is at most as new as its account, revoked ones are older, and what a request will write is a bump of the row as it is (`WritesAreFresh`).  Versions never go back (`NeverBack`). |
| `AdminsNeedAdmins` | `OneHandler /\ ~NamesReused => PrivilegesNeedAdmin` | `WithAuthority`: a request about to commit has the authority its route asks for, against the rows as they are and not as they were cached. |

Only model-checked:

* liveness (`EveryRequestAnswered`, `EveryEventDecided`, `GateReopens` of `LetsEncrypt` and of
  `BackupRestore`, `WritesEnd`): temporal properties under fairness are out of this prover's
  reach, as is ENABLED.

Every invariant and every action property of the passing runs is stated by one of the theorems;
the assumptions added to some of them (`OneHandler`, `OneRequest`, one handler, one saver,
`~SilentLookup`, `~DeleteMayFail`, `~NamesReused`) are those without which section 4 shows the
property violated, or without which the code does not promise it.

`NoDanglingLinks` is violated with two administrators.  No module declares a RECURSIVE operator.

## 6. What is not modelled

* GET routes, `/keycheck`, `/zones`, the pages, templates and static files: they change nothing.
* The admin DNS browser: its writes are those of the DNS API, through `apply_rrset_mutation` and the
  plugins; what is its own lists, filters and renders.
* The rate limiter: one upsert and one read in one transaction that SQLite serialises, so that no
  other step comes between.
* Record types and values: pure text rules, which the models replace by normalised values.
* Schema migrations: once, at start, in one thread.
* The text of messages, encryption of settings and of an exported archive, hashing of keys: values are compared, never taken
  apart.  An export is a read: it appears as what an archive holds.
* Time of day (scheduled restart, session idle time): the events it triggers are actions that may happen.
* Redaction and search of the activity log, rotation of the operational log file, filters of alert rules
  other than the level.
* Sessions and credentials of the providers, pages of a listing.
* Outside `ActivityAlerts`, the event row written at the end of most handlers.
* A database other than SQLite.
* Several processes: the forwarder and the restore flag are per process by design.
