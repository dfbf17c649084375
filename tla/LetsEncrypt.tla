----------------------------- MODULE LetsEncrypt -----------------------------
(***************************************************************************)
(* Certificate enrollment and renewal, and the restart that loads a new    *)
(* certificate.  The handlers share three settings rows (configuration,    *)
(* enrollment, progress), the TXT record of the DNS-01 challenge, and the  *)
(* certificate files.  The background enrollment goes through a gate, the  *)
(* progress row; the synchronous routes, the renewal loop and the deletion *)
(* of a zone do not.  A step ends where the code commits, calls the DNS    *)
(* provider or calls the ACME server.                                      *)
(*                                                                         *)
(* One zone configuration and one certificate name are modelled, hence one *)
(* TXT record; the ACME server issues when it finds the order's challenge. *)
(***************************************************************************)
EXTENDS Naturals, FiniteSets

CONSTANTS
    Jobs,           \* handlers that may run together
    Requested,      \* the configurations that are submitted
    MaxOrder,       \* bound on ACME orders
    DeleteMayFail,  \* whether the provider may refuse to delete a record
    NoRow           \* the value of a missing row, record or order

Orders == 1..MaxOrder
Kinds == {"zone", "manual", "http"}   \* DNS-01 by plugin, DNS-01 by hand, HTTP-01
Config == [kind: Kinds, auto: BOOLEAN, sched: BOOLEAN]

ASSUME LetsEncryptAssumption ==
    /\ MaxOrder \in Nat
    /\ Requested \subseteq Config
    /\ DeleteMayFail \in BOOLEAN
    /\ NoRow \notin Orders \cup Config

VARIABLES
    zone,        \* the zone configuration exists
    config,      \* letsencrypt_config
    enrollment,  \* letsencrypt_enrollment: [order, cfg]
    progress,    \* letsencrypt_enrollment_progress
    txt,         \* the order whose value _acme-challenge holds
    orders,      \* orders made so far
    cert,        \* the order whose certificate is installed; 0: another source
    served,      \* the certificate the process loaded when it started
    required,    \* restart_required
    pending,     \* letsencrypt_renewal_pending_restart
    stopping,    \* SIGTERM is scheduled
    job          \* job[j]: what handler j does, and what it has read

rows == <<zone, config, enrollment>>
flags == <<required, pending, stopping>>
vars == <<rows, progress, txt, orders, cert, served, flags, job>>

Routes == {"async", "start", "config", "continue", "renew", "cancel", "delete"}
Steps == {"idle", "validate", "save", "order", "create", "verify", "cleanup",
          "fail", "row", "reload", "finalize", "install", "config", "clear",
          "untxt", "mark", "complete", "error", "finish", "overwrite", "finally",
          "release", "finallyOk", "releaseOk", "policy", "detach", "cancel", "cancelRow", "unset", "drop"}

TypeOK ==
    /\ zone \in BOOLEAN
    /\ config \in {NoRow} \cup Config
    /\ enrollment \in {NoRow} \cup [order: Orders, cfg: Config]
    /\ progress \in {"idle", "running", "complete", "error"}
    /\ txt \in {NoRow} \cup Orders
    /\ orders \in 0..MaxOrder
    /\ cert \in 0..MaxOrder /\ served \in 0..MaxOrder
    /\ required \in BOOLEAN /\ pending \in BOOLEAN /\ stopping \in BOOLEAN
    /\ job \in [Jobs -> [pc: Steps, what: Routes, cfg: {NoRow} \cup Config,
                         order: {NoRow} \cup Orders]]

Free == [pc |-> "idle", what |-> "start", cfg |-> NoRow, order |-> NoRow]

Init ==
    /\ zone = TRUE
    /\ config = NoRow /\ enrollment = NoRow /\ txt = NoRow
    /\ progress = "idle"
    /\ orders = 0 /\ cert = 0 /\ served = 0
    /\ required = FALSE /\ pending = FALSE /\ stopping = FALSE
    /\ job = [j \in Jobs |-> Free]

At(j, pc) == job[j].pc = pc
To(j, pc) == job' = [job EXCEPT ![j].pc = pc]
End(j) == job' = [job EXCEPT ![j] = Free]
UsesZone(cfg) == cfg # NoRow /\ cfg.kind = "zone"

(* Where an exception leads: the background worker records it, a renewal   *)
(* runs its finally, a route answers with an error.                        *)
Raise(j) ==
    CASE job[j].what = "async" -> To(j, "error")
      [] job[j].what = "renew" -> To(j, "finally")
      [] OTHER -> End(j)

(* The background worker reports each phase it enters. *)
Report(j) == progress' = IF job[j].what = "async" THEN "running" ELSE progress
-----------------------------------------------------------------------------
(* Requests *)

Begin(j, what, pc, cfg) ==
    /\ At(j, "idle")
    /\ job' = [job EXCEPT ![j] = [pc |-> pc, what |-> what, cfg |-> cfg, order |-> NoRow]]

(* auto_renew_enabled as save_config writes it: enrollment passes None. *)
Effective(what, cfg) ==
    [cfg EXCEPT !.auto = IF what = "config" THEN cfg.auto /\ cfg.kind # "manual"
                         ELSE cfg.kind = "zone"]

(* start-async: DNS-01 with a zone only.  try_begin_enrollment checks and  *)
(* writes the progress row under BEGIN IMMEDIATE.                          *)
StartAsync(j, cfg) ==
    /\ cfg.kind = "zone"
    /\ progress # "running"
    /\ Begin(j, "async", "validate", cfg)
    /\ progress' = "running"
    /\ UNCHANGED <<rows, txt, orders, cert, served, flags>>

Start(j, cfg) ==
    /\ Begin(j, "start", "validate", cfg)
    /\ UNCHANGED <<rows, progress, txt, orders, cert, served, flags>>

SaveSettings(j, cfg) ==
    /\ Begin(j, "config", "validate", cfg)
    /\ UNCHANGED <<rows, progress, txt, orders, cert, served, flags>>

Continue(j) ==
    /\ Begin(j, "continue", "reload", NoRow)
    /\ UNCHANGED <<rows, progress, txt, orders, cert, served, flags>>

Cancel(j) ==
    /\ Begin(j, "cancel", "cancel", NoRow)
    /\ UNCHANGED <<rows, progress, txt, orders, cert, served, flags>>

DeleteZone(j) ==
    /\ zone
    /\ Begin(j, "delete", "detach", NoRow)
    /\ UNCHANGED <<rows, progress, txt, orders, cert, served, flags>>

(* maybe_renew_certificate, up to the order; the certificate may be close  *)
(* to its end at any time.  The loop runs one renewal at a time.           *)
Renew(j) ==
    /\ \A k \in Jobs : job[k].what # "renew"
    /\ cert # 0
    /\ config # NoRow /\ config.auto /\ config.kind # "manual"
    /\ Begin(j, "renew", "order", config)
    /\ UNCHANGED <<rows, progress, txt, orders, cert, served, flags>>
-----------------------------------------------------------------------------
(* start_enrollment and _attach_challenges_to_enrollment *)

(* save_config reads the zone row ... *)
Validate(j) ==
    /\ At(j, "validate")
    /\ Report(j)
    /\ IF UsesZone(job[j].cfg) /\ ~zone THEN Raise(j) ELSE To(j, "save")
    /\ UNCHANGED <<rows, txt, orders, cert, served, flags>>

(* ... and writes the whole configuration. *)
Save(j) ==
    LET cfg == Effective(job[j].what, job[j].cfg) IN
    /\ At(j, "save")
    /\ config' = cfg
    /\ IF job[j].what = "config" THEN End(j)
       ELSE job' = [job EXCEPT ![j].pc = "order", ![j].cfg = cfg]
    /\ UNCHANGED <<zone, enrollment, progress, txt, orders, cert, served, flags>>

(* The ACME server may refuse.  In a renewal that is before the try.       *)
PrepareOrder(j) ==
    /\ At(j, "order")
    /\ Report(j)
    /\ \/ /\ orders < MaxOrder          \* bound
          /\ orders' = orders + 1
          /\ job' = [job EXCEPT ![j].order = orders + 1,
                                ![j].pc = IF UsesZone(job[j].cfg) THEN "create" ELSE "row"]
       \/ /\ IF job[j].what = "renew" THEN End(j) ELSE Raise(j)
          /\ UNCHANGED orders
    /\ UNCHANGED <<rows, txt, cert, served, flags>>

(* create_dns_txt_challenge replaces the RRset.  A missing zone row is a   *)
(* LetsEncryptError with nothing to clean up; a failure of the provider is *)
(* not a LetsEncryptError.                                                 *)
CreateTxt(j) ==
    /\ At(j, "create")
    /\ Report(j)
    /\ \/ zone /\ txt' = job[j].order /\ To(j, "verify")
       \/ zone /\ UNCHANGED txt /\ Raise(j)
       \/ ~zone /\ UNCHANGED txt /\ To(j, "fail")
    /\ UNCHANGED <<rows, orders, cert, served, flags>>

(* All attempts of _verify_dns_txt_challenge. *)
VerifyTxt(j) ==
    /\ At(j, "verify")
    /\ Report(j)
    /\ \/ zone /\ txt = job[j].order /\ To(j, "row")
       \/ To(j, "cleanup")
       \/ Raise(j)
    /\ UNCHANGED <<rows, txt, orders, cert, served, flags>>

Deleted == IF zone THEN {NoRow} ELSE {txt}

(* _cleanup_dns_txt_challenges swallows every failure. *)
CleanUp(j) ==
    /\ At(j, "cleanup")
    /\ txt' \in Deleted \cup (IF DeleteMayFail THEN {txt} ELSE {})
    /\ To(j, "fail")
    /\ UNCHANGED <<rows, progress, orders, cert, served, flags>>

(* start_enrollment clears the row; a renewal reaches its finally. *)
FailAttach(j) ==
    /\ At(j, "fail")
    /\ enrollment' = IF job[j].what = "renew" THEN enrollment ELSE NoRow
    /\ Raise(j)
    /\ UNCHANGED <<zone, config, progress, txt, orders, cert, served, flags>>

(* Only DNS-01 through a zone goes on at once; the others wait for the     *)
(* operator.  A renewal always goes on.                                    *)
WriteRow(j) ==
    /\ At(j, "row")
    /\ enrollment' = [order |-> job[j].order, cfg |-> job[j].cfg]
    /\ CASE job[j].what = "renew" -> To(j, "finalize")
         [] job[j].what # "renew" /\ UsesZone(job[j].cfg) -> To(j, "reload")
         [] OTHER -> End(j)
    /\ UNCHANGED <<zone, config, progress, txt, orders, cert, served, flags>>
-----------------------------------------------------------------------------
(* continue_enrollment *)

(* It reads the row again, whoever wrote it. *)
Reload(j) ==
    /\ At(j, "reload")
    /\ Report(j)
    /\ IF enrollment = NoRow THEN Raise(j)
       ELSE job' = [job EXCEPT ![j].pc = "finalize", ![j].order = enrollment.order,
                               ![j].cfg = enrollment.cfg]
    /\ UNCHANGED <<rows, txt, orders, cert, served, flags>>

(* What the ACME server finds: the TXT record, the token served from the   *)
(* enrollment row, or what the operator did by hand.                       *)
Validates(order, cfg) ==
    CASE cfg.kind = "zone" -> {txt = order}
      [] cfg.kind = "http" -> {enrollment # NoRow /\ enrollment.order = order}
      [] OTHER -> BOOLEAN

Finalize(j) ==
    /\ At(j, "finalize")
    /\ Report(j)
    /\ \/ TRUE \in Validates(job[j].order, job[j].cfg) /\ To(j, "install")
       \/ Raise(j)
    /\ UNCHANGED <<rows, txt, orders, cert, served, flags>>

(* install_letsencrypt_cert *)
Install(j) ==
    /\ At(j, "install")
    /\ Report(j)
    /\ cert' = job[j].order
    /\ To(j, IF job[j].what = "renew" THEN "finallyOk" ELSE "config")
    /\ UNCHANGED <<rows, txt, orders, served, flags>>

(* The configuration of the enrollment, as it was when it began. *)
WriteConfig(j) ==
    /\ At(j, "config")
    /\ config' = job[j].cfg
    /\ To(j, "clear")
    /\ UNCHANGED <<zone, enrollment, progress, txt, orders, cert, served, flags>>

ClearRow(j) ==
    /\ At(j, "clear")
    /\ enrollment' = NoRow
    /\ To(j, IF UsesZone(job[j].cfg) THEN "untxt" ELSE "mark")
    /\ UNCHANGED <<zone, config, progress, txt, orders, cert, served, flags>>

(* Here a failure to delete the record is raised. *)
DeleteTxt(j) ==
    /\ At(j, "untxt")
    /\ \/ txt' \in Deleted /\ To(j, "mark")
       \/ DeleteMayFail /\ zone /\ UNCHANGED txt /\ Raise(j)
    /\ UNCHANGED <<rows, progress, orders, cert, served, flags>>

MarkRestart(j) ==
    /\ At(j, "mark")
    /\ required' = TRUE
    /\ IF job[j].what = "async" THEN To(j, "complete") ELSE End(j)
    /\ UNCHANGED <<rows, progress, txt, orders, cert, served, pending, stopping>>
-----------------------------------------------------------------------------
(* The end of a background enrollment *)

Complete(j) ==
    /\ At(j, "complete")
    /\ progress' = "complete"
    /\ To(j, "finish")
    /\ UNCHANGED <<rows, txt, orders, cert, served, flags>>

(* The write may itself fail, the database being locked. *)
ReportError(j) ==
    /\ At(j, "error")
    /\ progress' \in {"error", progress}
    /\ To(j, "finish")
    /\ UNCHANGED <<rows, txt, orders, cert, served, flags>>

FinisherGone(j) ==     \* fault: the task does not look at the progress again
    /\ At(j, "finish")
    /\ End(j)
    /\ UNCHANGED <<rows, progress, txt, orders, cert, served, flags>>

(* mark_enrollment_worker_finished, once the thread has ended: a progress  *)
(* row that still says running is taken for its own.                       *)
Finisher(j) ==
    /\ At(j, "finish")
    /\ IF progress = "running" THEN To(j, "overwrite") ELSE End(j)
    /\ UNCHANGED <<rows, progress, txt, orders, cert, served, flags>>

RowRemoved(j) ==     \* fault: the progress row is removed, not completed
    /\ At(j, "overwrite")
    /\ progress' = NoRow
    /\ End(j)
    /\ UNCHANGED <<rows, txt, orders, cert, served, flags>>

Overwrite(j) ==
    /\ At(j, "overwrite")
    /\ progress' = "error"
    /\ End(j)
    /\ UNCHANGED <<rows, txt, orders, cert, served, flags>>
-----------------------------------------------------------------------------
(* The finally of a renewal, and what the renewal does to restart *)

Finally(j) ==
    /\ job[j].pc \in {"finally", "finallyOk"}
    /\ txt' \in IF UsesZone(job[j].cfg)
                THEN Deleted \cup (IF DeleteMayFail THEN {txt} ELSE {})
                ELSE {txt}
    /\ To(j, IF At(j, "finallyOk") THEN "releaseOk" ELSE "release")
    /\ UNCHANGED <<rows, progress, orders, cert, served, flags>>

(* clear_enrollment removes the row whoever wrote it. *)
Release(j) ==
    /\ job[j].pc \in {"release", "releaseOk"}
    /\ enrollment' = NoRow
    /\ IF At(j, "releaseOk") THEN To(j, "policy") ELSE End(j)
    /\ UNCHANGED <<zone, config, progress, txt, orders, cert, served, flags>>

PolicyScheduledOnly(j) ==     \* fault: without a schedule nobody is told
    /\ At(j, "policy")
    /\ pending' = (pending \/ job[j].cfg.sched)
    /\ End(j)
    /\ UNCHANGED <<rows, progress, txt, orders, cert, served, required, stopping>>

(* apply_le_renewal_restart_policy *)
Policy(j) ==
    /\ At(j, "policy")
    /\ IF job[j].cfg.sched
       THEN pending' = TRUE /\ UNCHANGED required
       ELSE required' = TRUE /\ UNCHANGED pending
    /\ End(j)
    /\ UNCHANGED <<rows, progress, txt, orders, cert, served, stopping>>
-----------------------------------------------------------------------------
(* cancel_enrollment, alone or as a part of the deletion of the zone *)

(* detach_dns_zone_from_letsencrypt reads both rows first. *)
Detach(j) ==
    /\ At(j, "detach")
    /\ job' = [job EXCEPT ![j].cfg = config,
                          ![j].pc = IF enrollment # NoRow /\ UsesZone(enrollment.cfg) THEN "cancel"
                                    ELSE IF UsesZone(config) THEN "unset" ELSE "drop"]
    /\ UNCHANGED <<rows, progress, txt, orders, cert, served, flags>>

(* A failure to delete the record is raised and ends the handler. *)
CancelTxt(j) ==
    /\ At(j, "cancel")
    /\ IF enrollment # NoRow /\ UsesZone(enrollment.cfg)
       THEN \/ txt' \in Deleted /\ To(j, "cancelRow")
            \/ DeleteMayFail /\ zone /\ UNCHANGED txt /\ End(j)
       ELSE UNCHANGED txt /\ To(j, "cancelRow")
    /\ UNCHANGED <<rows, progress, orders, cert, served, flags>>

CancelRowOnly(j) ==     \* fault: a cancelled enrollment ends the detachment
    /\ At(j, "cancelRow")
    /\ enrollment' = NoRow
    /\ IF job[j].what = "cancel" THEN End(j) ELSE To(j, "drop")
    /\ UNCHANGED <<zone, config, progress, txt, orders, cert, served, flags>>

CancelRow(j) ==
    /\ At(j, "cancelRow")
    /\ enrollment' = NoRow
    /\ IF job[j].what = "cancel" THEN End(j)
       ELSE To(j, IF UsesZone(job[j].cfg) THEN "unset" ELSE "drop")
    /\ UNCHANGED <<zone, config, progress, txt, orders, cert, served, flags>>

UnsetKeepsAuto(j) ==     \* fault: automatic renewal stays on
    /\ At(j, "unset")
    /\ config' = [job[j].cfg EXCEPT !.kind = "manual"]
    /\ To(j, "drop")
    /\ UNCHANGED <<zone, enrollment, progress, txt, orders, cert, served, flags>>

(* The configuration that was read, without the zone. *)
Unset(j) ==
    /\ At(j, "unset")
    /\ config' = [job[j].cfg EXCEPT !.kind = "manual", !.auto = FALSE]
    /\ To(j, "drop")
    /\ UNCHANGED <<zone, enrollment, progress, txt, orders, cert, served, flags>>

(* zone_delete removes the row. *)
Drop(j) ==
    /\ At(j, "drop")
    /\ zone' = FALSE
    /\ End(j)
    /\ UNCHANGED <<config, enrollment, progress, txt, orders, cert, served, flags>>
-----------------------------------------------------------------------------
(* Restart *)

(* system_restart answers, and the process ends a moment later. *)
SystemRestart ==
    /\ required' = FALSE
    /\ stopping' = TRUE
    /\ UNCHANGED <<rows, progress, txt, orders, cert, served, pending, job>>

(* _maybe_scheduled_le_restart, on a tick in the configured minute of a    *)
(* day that has not had its restart; a tick may miss that minute.          *)
ScheduledRestart ==
    /\ config # NoRow /\ config.sched
    /\ cert # 0
    /\ pending
    /\ pending' = FALSE
    /\ stopping' = TRUE
    /\ UNCHANGED <<rows, progress, txt, orders, cert, served, required, job>>

(* The process ends, with every handler, and _startup_init runs. *)
Restart ==
    /\ job' = [j \in Jobs |-> Free]
    /\ progress' = "idle"
    /\ required' = FALSE /\ pending' = FALSE /\ stopping' = FALSE
    /\ served' = cert
    /\ UNCHANGED <<rows, txt, orders, cert>>

Request(j) ==
    \/ \E cfg \in Requested : StartAsync(j, cfg) \/ Start(j, cfg) \/ SaveSettings(j, cfg)
    \/ Continue(j) \/ Cancel(j) \/ DeleteZone(j) \/ Renew(j)

JobStep(j) ==
    \/ Validate(j) \/ Save(j) \/ PrepareOrder(j) \/ CreateTxt(j) \/ VerifyTxt(j)
    \/ CleanUp(j) \/ FailAttach(j) \/ WriteRow(j)
    \/ Reload(j) \/ Finalize(j) \/ Install(j) \/ WriteConfig(j) \/ ClearRow(j)
    \/ DeleteTxt(j) \/ MarkRestart(j)
    \/ Complete(j) \/ ReportError(j) \/ Finisher(j) \/ Overwrite(j)
    \/ Finally(j) \/ Release(j) \/ Policy(j)
    \/ Detach(j) \/ CancelTxt(j) \/ CancelRow(j) \/ Unset(j) \/ Drop(j)

Next ==
    \/ \E j \in Jobs : Request(j) \/ JobStep(j)
    \/ SystemRestart \/ ScheduledRestart \/ Restart

(* A handler that has begun takes its next step: every call to the         *)
(* provider and to the ACME server has a time limit.                       *)
Fairness == \A j \in Jobs : WF_vars(JobStep(j))

Spec == Init /\ [][Next]_vars /\ Fairness
-----------------------------------------------------------------------------
(* "Let's Encrypt auto-renew cannot stay enabled with Manual DNS",         *)
(* whichever of the four writers of the configuration comes last.          *)
AutoRenewSupported == config # NoRow /\ config.auto => config.kind # "manual"

(* A certificate the process has not loaded is announced: by a restart     *)
(* required, a scheduled one, a restart under way, or a handler that will  *)
(* still say so.                                                           *)
StillToAnnounce == {"config", "clear", "untxt", "mark", "finallyOk", "releaseOk", "policy"}
NewCertificateAnnounced ==
    cert # served =>
        \/ required \/ pending \/ stopping
        \/ \E j \in Jobs : job[j].pc \in StillToAnnounce

(* A zone that was deleted is not the challenge zone of the configuration. *)
DeletedZoneIsDetached == ~zone => ~UsesZone(config)

(* try_begin_enrollment "returns False if already running": at most one    *)
(* background worker is between its start and its last report.             *)
Working(j) == job[j].what = "async" /\ job[j].pc \notin {"idle", "finish", "overwrite"}
OneWorker == \A j, k \in Jobs : Working(j) /\ Working(k) => j = k

(* The gate opens again after every enrollment, however it ended. *)
GateReopens == (progress = "running") ~> (progress # "running")
=============================================================================
