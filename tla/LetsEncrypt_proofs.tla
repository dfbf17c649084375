------------------------- MODULE LetsEncrypt_proofs -------------------------
(***************************************************************************)
(* Proofs about LetsEncrypt, for any number of handlers, any number of     *)
(* orders and any set of submitted configurations: types, automatic        *)
(* renewal is never on with manual DNS, a new certificate is announced     *)
(* until the process has loaded it, and a deleted zone is detached.        *)
(*                                                                         *)
(* They hold together with Fit, what a handler has read when it comes to a *)
(* step: a configuration, one that may be stored, an order.                *)
(***************************************************************************)
EXTENDS LetsEncrypt, TLAPS

JobRow == [pc: Steps, what: Routes, cfg: {NoRow} \cup Config, order: {NoRow} \cup Orders]

Supported(cfg) == cfg # NoRow /\ cfg.auto => cfg.kind # "manual"

Ordered == {"create", "verify", "row", "finalize", "install"}
Saved == Ordered \cup {"order", "config"}
Configured == Saved \cup {"validate", "save", "unset"}

Fit(row) ==
    /\ row \in JobRow
    /\ row.pc \in Configured => row.cfg \in Config
    /\ row.pc \in Saved => Supported(row.cfg)
    /\ row.pc \in Ordered => row.order \in Orders

Fits == /\ job \in [Jobs -> JobRow]
        /\ \A j \in Jobs : Fit(job[j])

RowsFit ==
    /\ zone \in BOOLEAN
    /\ config \in {NoRow} \cup Config /\ Supported(config)
    /\ enrollment \in {NoRow} \cup [order: Orders, cfg: Config]
    /\ enrollment # NoRow => Supported(enrollment.cfg)

RestFits ==
    /\ progress \in {"idle", "running", "complete", "error"}
    /\ txt \in {NoRow} \cup Orders
    /\ orders \in 0..MaxOrder
    /\ cert \in 0..MaxOrder /\ served \in 0..MaxOrder
    /\ required \in BOOLEAN /\ pending \in BOOLEAN /\ stopping \in BOOLEAN

Inv == RowsFit /\ RestFits /\ Fits

LEMMA RowFits ==
  ASSUME Fits, NEW j \in Jobs, NEW row, Fit(row), job' = [job EXCEPT ![j] = row]
  PROVE  Fits'
BY DEF Fits, Fit

LEMMA EndFits ==
  ASSUME Fits, NEW j \in Jobs, End(j)
  PROVE  Fits'
<1>1. Fit(Free)
  BY DEF Fit, Free, JobRow, Steps, Routes, Configured, Saved, Ordered
<1>2. QED
  BY <1>1, RowFits DEF End

LEMMA ToFits ==
  ASSUME Fits, NEW j \in Jobs, NEW pc \in Steps, To(j, pc),
         pc \in Configured => job[j].cfg \in Config,
         pc \in Saved => Supported(job[j].cfg),
         pc \in Ordered => job[j].order \in Orders
  PROVE  Fits'
<1> DEFINE old == job[j]
           row == [old EXCEPT !.pc = pc]
<1>1. job' = [job EXCEPT ![j] = row]
  BY DEF To
<1>2. old \in JobRow
  BY DEF Fits
<1> HIDE DEF old
<1>3. row \in JobRow /\ row.pc = pc /\ row.cfg = old.cfg /\ row.order = old.order
  BY <1>2 DEF JobRow
<1> HIDE DEF row
<1>4. Fit(row)
  BY <1>3 DEF Fit, old
<1>5. QED
  BY <1>1, <1>4, RowFits

(* Steps before which nothing has to be read. *)
LEMMA FreelyFits ==
  ASSUME Fits, NEW j \in Jobs, NEW pc \in Steps \ Configured, To(j, pc)
  PROVE  Fits'
BY ToFits DEF Configured, Saved

LEMMA RaiseFits ==
  ASSUME Fits, NEW j \in Jobs, Raise(j)
  PROVE  Fits'
<1>1. {"error", "finally"} \subseteq Steps \ Configured
  BY DEF Steps, Configured, Saved, Ordered
<1>2. QED
  BY <1>1, FreelyFits, EndFits DEF Raise

LEMMA BeginFits ==
  ASSUME Fits, NEW j \in Jobs, NEW what \in Routes, NEW pc \in Steps, NEW cfg \in {NoRow} \cup Config,
         Begin(j, what, pc, cfg), pc \notin Ordered,
         pc \in Configured => cfg \in Config, pc \in Saved => Supported(cfg)
  PROVE  Fits'
<1> DEFINE row == [pc |-> pc, what |-> what, cfg |-> cfg, order |-> NoRow]
<1>1. Fit(row)
  BY DEF Fit, JobRow
<1>2. QED
  BY <1>1, RowFits DEF Begin

LEMMA RequestFits ==
  ASSUME Inv, NEW j \in Jobs, Request(j)
  PROVE  /\ Fits' /\ UNCHANGED <<rows, txt, orders, cert, served, flags>>
         /\ progress' \in {progress, "running"}
<1>1. ASSUME NEW cfg \in Requested, StartAsync(j, cfg) \/ Start(j, cfg) \/ SaveSettings(j, cfg)
      PROVE  Fits'
  <2>1. cfg \in Config /\ "validate" \in Steps \cap Configured /\ "validate" \notin Saved
    BY LetsEncryptAssumption DEF Steps, Configured, Saved, Ordered
  <2>2. QED
    BY <1>1, <2>1, BeginFits DEF StartAsync, Start, SaveSettings, Routes, Inv, Saved
<1>2. CASE Continue(j) \/ Cancel(j) \/ DeleteZone(j)
  <2>1. {"reload", "cancel", "detach"} \subseteq Steps \ Configured
    BY DEF Steps, Configured, Saved, Ordered
  <2>2. QED
    BY <1>2, <2>1, BeginFits DEF Continue, Cancel, DeleteZone, Routes, Inv, Configured, Saved
<1>3. CASE Renew(j)
  <2>1. config \in Config /\ "order" \in Steps \ Ordered
    BY <1>3 DEF Renew, Inv, RowsFit, Steps, Ordered
  <2>2. QED
    BY <1>3, <2>1, BeginFits DEF Renew, Routes, Inv, RowsFit
<1>4. QED
  BY <1>1, <1>2, <1>3
     DEF Request, StartAsync, Start, SaveSettings, Continue, Cancel, DeleteZone, Renew

LEMMA StepSets ==
  /\ Steps \ Configured =
       {"idle", "cleanup", "fail", "reload", "clear", "untxt", "mark", "complete", "error", "finish",
        "overwrite", "finally", "release", "finallyOk", "releaseOk", "policy", "detach", "cancel",
        "cancelRow", "drop"}
  /\ Ordered \subseteq Saved /\ Saved \subseteq Configured /\ Configured \subseteq Steps
BY DEF Steps, Configured, Saved, Ordered

(* start_enrollment *)
LEMMA EnrollFits ==
  ASSUME Inv, NEW j \in Jobs,
         \/ Validate(j) \/ Save(j) \/ PrepareOrder(j) \/ CreateTxt(j) \/ VerifyTxt(j)
         \/ CleanUp(j) \/ FailAttach(j) \/ WriteRow(j)
  PROVE  Inv'
<1> DEFINE old == job[j]
<1>0. /\ Fits /\ Fit(old) /\ old \in JobRow
      /\ UNCHANGED flags => UNCHANGED <<required, pending, stopping>>
  BY DEF Inv, Fits, flags
<1>1. CASE Validate(j)
  <2>1. "save" \in Steps /\ "save" \notin Saved /\ old.cfg \in Config
    BY <1>0, <1>1 DEF Validate, At, Fit, Configured, Saved, Ordered, Steps
  <2>2. Fits'
    BY <1>0, <1>1, <2>1, ToFits, RaiseFits, StepSets DEF Validate
  <2>3. QED
    BY <1>1, <2>2 DEF Validate, Report, Inv, RowsFit, RestFits, rows, flags
<1>2. CASE Save(j)
  <2> DEFINE cfg == Effective(old.what, old.cfg)
  <2>1. old.cfg \in Config
    BY <1>0, <1>2 DEF Save, At, Fit, Configured
  <2>2. cfg \in Config /\ Supported(cfg)
    BY <2>1 DEF Effective, Config, Kinds, Supported
  <2>3. Fits'
    <3>1. CASE End(j)
      BY <1>0, <3>1, EndFits
    <3>2. CASE job' = [job EXCEPT ![j].pc = "order", ![j].cfg = cfg]
      <4> DEFINE row == [old EXCEPT !.pc = "order", !.cfg = cfg]
      <4> HIDE DEF cfg
      <4>1. job' = [job EXCEPT ![j] = row]
        BY <3>2
      <4> HIDE DEF old
      <4>2. row \in JobRow /\ row.pc = "order" /\ row.cfg = cfg
        BY <1>0, <2>2 DEF JobRow, Steps
      <4> HIDE DEF row
      <4>3. Fit(row)
        BY <2>2, <4>2 DEF Fit, Ordered
      <4>4. QED
        BY <1>0, <4>1, <4>3, RowFits
    <3>3. QED
      BY <1>2, <3>1, <3>2 DEF Save
  <2>4. config' = cfg /\ UNCHANGED <<zone, enrollment, progress, txt, orders, cert, served, flags>>
    BY <1>2 DEF Save
  <2> HIDE DEF cfg
  <2>5. QED
    BY <2>2, <2>3, <2>4 DEF Inv, RowsFit, RestFits, flags
<1>3. CASE PrepareOrder(j)
  <2>1. old.cfg \in Config /\ Supported(old.cfg)
    BY <1>0, <1>3 DEF PrepareOrder, At, Fit, Configured, Saved
  <2>2. Fits' /\ orders' \in 0..MaxOrder
    <3>1. CASE /\ orders < MaxOrder /\ orders' = orders + 1
               /\ job' = [job EXCEPT ![j].order = orders + 1,
                                     ![j].pc = IF UsesZone(job[j].cfg) THEN "create" ELSE "row"]
      <4> DEFINE pc == IF UsesZone(job[j].cfg) THEN "create" ELSE "row"
                 row == [old EXCEPT !.order = orders + 1, !.pc = pc]
      <4>1. job' = [job EXCEPT ![j] = row]
        BY <3>1
      <4>2. orders + 1 \in Orders /\ orders' \in 0..MaxOrder
        BY <3>1, LetsEncryptAssumption DEF Inv, RestFits, Orders
      <4>3. pc \in Ordered
        BY DEF Ordered
      <4> HIDE DEF old, pc
      <4>4. /\ row \in JobRow /\ row.cfg = old.cfg /\ row.order = orders + 1
        BY <1>0, <4>2, <4>3, StepSets DEF JobRow
      <4> HIDE DEF row
      <4>5. Fit(row)
        BY <2>1, <4>2, <4>4 DEF Fit
      <4>6. QED
        BY <1>0, <4>1, <4>2, <4>5, RowFits
    <3>2. CASE UNCHANGED orders /\ (End(j) \/ Raise(j))
      BY <1>0, <3>2, EndFits, RaiseFits DEF Inv, RestFits
    <3>3. QED
      BY <1>3, <3>1, <3>2 DEF PrepareOrder
  <2>3. QED
    BY <1>3, <2>2 DEF PrepareOrder, Report, Inv, RowsFit, RestFits, rows, flags
<1>4. CASE CreateTxt(j)
  <2>1. old.cfg \in Config /\ Supported(old.cfg) /\ old.order \in Orders
    BY <1>0, <1>4 DEF CreateTxt, At, Fit, Configured, Saved, Ordered
  <2>2. Fits'
    BY <1>0, <1>4, <2>1, ToFits, RaiseFits, FreelyFits, StepSets DEF CreateTxt, Steps
  <2>3. QED
    BY <1>4, <2>1, <2>2 DEF CreateTxt, Report, Inv, RowsFit, RestFits, rows, flags
<1>5. CASE VerifyTxt(j)
  <2>1. old.cfg \in Config /\ Supported(old.cfg) /\ old.order \in Orders
    BY <1>0, <1>5 DEF VerifyTxt, At, Fit, Configured, Saved, Ordered
  <2>2. Fits'
    BY <1>0, <1>5, <2>1, ToFits, RaiseFits, FreelyFits, StepSets DEF VerifyTxt, Steps
  <2>3. QED
    BY <1>5, <2>2 DEF VerifyTxt, Report, Inv, RowsFit, RestFits, rows, flags
<1>6. CASE CleanUp(j)
  <2>1. Fits'
    BY <1>0, <1>6, FreelyFits, StepSets DEF CleanUp
  <2>2. txt' \in {NoRow, txt}
    BY <1>6 DEF CleanUp, Deleted
  <2>3. QED
    BY <1>6, <2>1, <2>2 DEF CleanUp, Inv, RowsFit, RestFits, rows, flags
<1>7. CASE FailAttach(j)
  <2>1. Fits'
    BY <1>0, <1>7, RaiseFits DEF FailAttach
  <2>2. QED
    BY <1>7, <2>1 DEF FailAttach, Inv, RowsFit, RestFits, flags
<1>8. CASE WriteRow(j)
  <2>1. old.cfg \in Config /\ Supported(old.cfg) /\ old.order \in Orders
    BY <1>0, <1>8 DEF WriteRow, At, Fit, Configured, Saved, Ordered
  <2>2. Fits'
    BY <1>0, <1>8, <2>1, ToFits, EndFits, FreelyFits, StepSets DEF WriteRow, Steps
  <2>3. /\ enrollment' = [order |-> old.order, cfg |-> old.cfg]
        /\ UNCHANGED <<zone, config, progress, txt, orders, cert, served, flags>>
    BY <1>8 DEF WriteRow
  <2> HIDE DEF old
  <2>4. QED
    BY <2>1, <2>2, <2>3 DEF Inv, RowsFit, RestFits, flags
<1>9. QED
  BY <1>1, <1>2, <1>3, <1>4, <1>5, <1>6, <1>7, <1>8

(* continue_enrollment *)
LEMMA ContinueFits ==
  ASSUME Inv, NEW j \in Jobs,
         \/ Reload(j) \/ Finalize(j) \/ Install(j) \/ WriteConfig(j) \/ ClearRow(j)
         \/ DeleteTxt(j) \/ MarkRestart(j)
  PROVE  Inv'
<1> DEFINE old == job[j]
<1>0. Fits /\ Fit(old) /\ old \in JobRow
  BY DEF Inv, Fits
<1>1. CASE Reload(j)
  <2>1. Fits'
    <3>1. CASE enrollment = NoRow
      BY <1>0, <1>1, <3>1, RaiseFits DEF Reload
    <3>2. CASE enrollment # NoRow
      <4> DEFINE order == enrollment.order
                 cfg == enrollment.cfg
                 row == [old EXCEPT !.pc = "finalize", !.order = order, !.cfg = cfg]
      <4>1. job' = [job EXCEPT ![j] = row]
        BY <1>1, <3>2 DEF Reload
      <4>2. order \in Orders /\ cfg \in Config /\ Supported(cfg)
        BY <3>2 DEF Inv, RowsFit
      <4> HIDE DEF old, order, cfg
      <4>3. row \in JobRow /\ row.order = order /\ row.cfg = cfg
        BY <1>0, <4>2 DEF JobRow, Steps
      <4> HIDE DEF row
      <4>4. Fit(row)
        BY <4>2, <4>3 DEF Fit
      <4>5. QED
        BY <1>0, <4>1, <4>4, RowFits
    <3>3. QED
      BY <3>1, <3>2
  <2>2. QED
    BY <1>1, <2>1 DEF Reload, Report, Inv, RowsFit, RestFits, rows, flags
<1>2. CASE Finalize(j)
  <2>1. old.cfg \in Config /\ Supported(old.cfg) /\ old.order \in Orders
    BY <1>0, <1>2 DEF Finalize, At, Fit, Configured, Saved, Ordered
  <2>2. Fits'
    BY <1>0, <1>2, <2>1, ToFits, RaiseFits DEF Finalize, Steps
  <2>3. QED
    BY <1>2, <2>2 DEF Finalize, Report, Inv, RowsFit, RestFits, rows, flags
<1>3. CASE Install(j)
  <2>1. old.cfg \in Config /\ Supported(old.cfg) /\ old.order \in Orders
    BY <1>0, <1>3 DEF Install, At, Fit, Configured, Saved, Ordered
  <2>2. Fits'
    BY <1>0, <1>3, <2>1, ToFits, FreelyFits, StepSets DEF Install, Steps, Ordered
  <2>3. cert' \in 0..MaxOrder
    BY <1>3, <2>1 DEF Install, Orders
  <2>4. QED
    BY <1>3, <2>2, <2>3 DEF Install, Report, Inv, RowsFit, RestFits, rows, flags
<1>4. CASE WriteConfig(j)
  <2>1. old.cfg \in Config /\ Supported(old.cfg)
    BY <1>0, <1>4 DEF WriteConfig, At, Fit, Configured, Saved
  <2>2. Fits'
    BY <1>0, <1>4, FreelyFits, StepSets DEF WriteConfig
  <2>3. QED
    BY <1>4, <2>1, <2>2 DEF WriteConfig, Inv, RowsFit, RestFits, flags
<1>5. CASE ClearRow(j)
  <2>1. Fits'
    BY <1>0, <1>5, FreelyFits, StepSets DEF ClearRow
  <2>2. QED
    BY <1>5, <2>1 DEF ClearRow, Inv, RowsFit, RestFits, flags
<1>6. CASE DeleteTxt(j)
  <2>1. Fits'
    BY <1>0, <1>6, FreelyFits, RaiseFits, StepSets DEF DeleteTxt
  <2>2. txt' \in {NoRow, txt}
    BY <1>6 DEF DeleteTxt, Deleted
  <2>3. QED
    BY <1>6, <2>1, <2>2 DEF DeleteTxt, Inv, RowsFit, RestFits, rows, flags
<1>7. CASE MarkRestart(j)
  <2>1. Fits'
    BY <1>0, <1>7, FreelyFits, EndFits, StepSets DEF MarkRestart
  <2>2. QED
    BY <1>7, <2>1 DEF MarkRestart, Inv, RowsFit, RestFits, rows
<1>8. QED
  BY <1>1, <1>2, <1>3, <1>4, <1>5, <1>6, <1>7

(* The ends of a background enrollment and of a renewal *)
LEMMA EndingFits ==
  ASSUME Inv, NEW j \in Jobs,
         \/ Complete(j) \/ ReportError(j) \/ Finisher(j) \/ Overwrite(j)
         \/ Finally(j) \/ Release(j) \/ Policy(j)
  PROVE  Inv'
<1>0. Fits
  BY DEF Inv
<1>1. Fits'
  BY <1>0, FreelyFits, EndFits, StepSets
     DEF Complete, ReportError, Finisher, Overwrite, Finally, Release, Policy
<1>2. CASE Complete(j) \/ ReportError(j) \/ Finisher(j) \/ Overwrite(j)
  BY <1>1, <1>2 DEF Complete, ReportError, Finisher, Overwrite, Inv, RowsFit, RestFits, rows, flags
<1>3. CASE Finally(j)
  <2>1. txt' \in {NoRow, txt}
    BY <1>3 DEF Finally, Deleted
  <2>2. QED
    BY <1>1, <1>3, <2>1 DEF Finally, Inv, RowsFit, RestFits, rows, flags
<1>4. CASE Release(j)
  BY <1>1, <1>4 DEF Release, Inv, RowsFit, RestFits, flags
<1>5. CASE Policy(j)
  BY <1>1, <1>5 DEF Policy, Inv, RowsFit, RestFits, rows
<1>6. QED
  BY <1>2, <1>3, <1>4, <1>5

(* cancel_enrollment and the deletion of the zone *)
LEMMA DetachFits ==
  ASSUME Inv, NEW j \in Jobs,
         Detach(j) \/ CancelTxt(j) \/ CancelRow(j) \/ Unset(j) \/ Drop(j)
  PROVE  Inv'
<1> DEFINE old == job[j]
<1>0. Fits /\ Fit(old) /\ old \in JobRow
  BY DEF Inv, Fits
<1>1. CASE Detach(j)
  <2> DEFINE pc == IF enrollment # NoRow /\ UsesZone(enrollment.cfg) THEN "cancel"
                   ELSE IF UsesZone(config) THEN "unset" ELSE "drop"
             row == [old EXCEPT !.cfg = config, !.pc = pc]
  <2>1. job' = [job EXCEPT ![j] = row]
    BY <1>1 DEF Detach
  <2>2. config \in {NoRow} \cup Config
    BY DEF Inv, RowsFit
  <2>3. pc \in {"cancel", "unset", "drop"} /\ (pc = "unset" => config # NoRow)
    BY DEF UsesZone
  <2> HIDE DEF old, pc
  <2>4. row \in JobRow /\ row.cfg = config /\ row.pc = pc
    BY <1>0, <2>2, <2>3 DEF JobRow, Steps
  <2> HIDE DEF row
  <2>5. Fit(row)
    BY <2>2, <2>3, <2>4 DEF Fit, Configured, Saved, Ordered
  <2>6. Fits'
    BY <1>0, <2>1, <2>5, RowFits
  <2>7. QED
    BY <1>1, <2>6 DEF Detach, Inv, RowsFit, RestFits, rows, flags
<1>2. CASE CancelTxt(j)
  <2>1. Fits'
    BY <1>0, <1>2, FreelyFits, EndFits, StepSets DEF CancelTxt
  <2>2. txt' \in {NoRow, txt}
    BY <1>2 DEF CancelTxt, Deleted
  <2>3. QED
    BY <1>2, <2>1, <2>2 DEF CancelTxt, Inv, RowsFit, RestFits, rows, flags
<1>3. CASE CancelRow(j)
  <2>1. UsesZone(old.cfg) => old.cfg \in Config
    BY <1>0 DEF UsesZone, JobRow
  <2>2. "unset" \in Steps /\ "unset" \notin Saved
    BY DEF Steps, Saved, Ordered
  <2>3. Fits'
    BY <1>0, <1>3, <2>1, <2>2, ToFits, FreelyFits, EndFits, StepSets DEF CancelRow
  <2>4. QED
    BY <1>3, <2>3 DEF CancelRow, Inv, RowsFit, RestFits, flags
<1>4. CASE Unset(j)
  <2>1. old.cfg \in Config
    BY <1>0, <1>4 DEF Unset, At, Fit, Configured
  <2>2. config' \in Config /\ Supported(config')
    BY <1>4, <2>1 DEF Unset, Config, Kinds, Supported
  <2>3. Fits'
    BY <1>0, <1>4, FreelyFits, StepSets DEF Unset
  <2>4. QED
    BY <1>4, <2>2, <2>3 DEF Unset, Inv, RowsFit, RestFits, flags
<1>5. CASE Drop(j)
  <2>1. Fits'
    BY <1>0, <1>5, EndFits DEF Drop
  <2>2. QED
    BY <1>5, <2>1 DEF Drop, Inv, RowsFit, RestFits, flags
<1>6. QED
  BY <1>1, <1>2, <1>3, <1>4, <1>5

LEMMA Invariant == Spec => []Inv
<1>1. Init => Inv
  <2> SUFFICES ASSUME Init PROVE Inv
    OBVIOUS
  <2>1. Fits
    BY DEF Init, Fits, Fit, Free, JobRow, Steps, Routes, Configured, Saved, Ordered
  <2>2. RowsFit
    BY DEF Init, RowsFit, Supported
  <2>3. 0 \in 0..MaxOrder
    BY LetsEncryptAssumption
  <2>4. RestFits
    BY <2>3 DEF Init, RestFits
  <2>5. QED
    BY <2>1, <2>2, <2>4 DEF Inv
<1>2. Inv /\ [Next]_vars => Inv'
  <2> SUFFICES ASSUME Inv, [Next]_vars PROVE Inv'
    OBVIOUS
  <2>1. ASSUME NEW j \in Jobs, Request(j) PROVE Inv'
    BY <2>1, RequestFits DEF Inv, RowsFit, RestFits, rows, flags
  <2>2. ASSUME NEW j \in Jobs, JobStep(j) PROVE Inv'
    BY <2>2, EnrollFits, ContinueFits, EndingFits, DetachFits DEF JobStep
  <2>3. CASE SystemRestart \/ ScheduledRestart \/ UNCHANGED vars
    <3>1. UNCHANGED <<rows, progress, txt, orders, cert, served, job>>
      BY <2>3 DEF SystemRestart, ScheduledRestart, vars
    <3>2. required' \in BOOLEAN /\ pending' \in BOOLEAN /\ stopping' \in BOOLEAN
      BY <2>3 DEF SystemRestart, ScheduledRestart, vars, flags, Inv, RestFits
    <3>3. QED
      BY <3>1, <3>2 DEF Inv, RowsFit, RestFits, Fits, rows
  <2>4. CASE Restart
    <3>1. Fits'
      <4>1. Fit(Free)
        BY DEF Fit, Free, JobRow, Steps, Routes, Configured, Saved, Ordered
      <4>2. QED
        BY <2>4, <4>1 DEF Restart, Fits, Fit
    <3>2. QED
      BY <2>4, <3>1 DEF Restart, Inv, RowsFit, RestFits, rows
  <2>5. QED
    BY <2>1, <2>2, <2>3, <2>4 DEF Next
<1>3. QED
  BY <1>1, <1>2, PTL DEF Spec

(* The settings rows, the record, the orders and the handlers keep their   *)
(* shape: an enrollment row always has an order and a configuration.       *)
THEOREM EnrollmentTypes == Spec => []TypeOK
<1>1. Inv => TypeOK
  BY DEF Inv, RowsFit, RestFits, Fits, JobRow, TypeOK
<1>2. QED
  BY <1>1, Invariant, PTL

(* Whichever of the four writers of the configuration comes last, and      *)
(* however old what it has read is, automatic renewal is not left on with  *)
(* manual DNS.                                                             *)
THEOREM AutoRenewNeverManual == Spec => []AutoRenewSupported
<1>1. Inv => AutoRenewSupported
  BY DEF Inv, RowsFit, Supported, AutoRenewSupported
<1>2. QED
  BY <1>1, Invariant, PTL
-----------------------------------------------------------------------------
(* A new certificate is announced.  Only Install changes what is served    *)
(* from now on, and a handler that has installed goes on to the step that  *)
(* raises a restart flag; a flag falls only in the step that schedules the *)
(* end of the process, and the next process has loaded the certificate.    *)

Announcing(row) == row.pc \in StillToAnnounce

LEMMA OneRow ==
  ASSUME Fits, NEW j \in Jobs, NEW row, job' = [job EXCEPT ![j] = row]
  PROVE  /\ job'[j] = row
         /\ \A k \in Jobs \ {j} : job'[k] = job[k]
BY DEF Fits

LEMMA ToPc ==
  ASSUME Fits, NEW j \in Jobs, NEW pc, To(j, pc)
  PROVE  /\ job'[j].pc = pc
         /\ \A k \in Jobs \ {j} : job'[k] = job[k]
<1> DEFINE old == job[j]
           row == [old EXCEPT !.pc = pc]
<1>1. job' = [job EXCEPT ![j] = row]
  BY DEF To
<1>2. old \in JobRow
  BY DEF Fits
<1> HIDE DEF old
<1>3. row.pc = pc
  BY <1>2 DEF JobRow
<1> HIDE DEF row
<1>4. QED
  BY <1>1, <1>3, OneRow

LEMMA RaiseOthers ==
  ASSUME Fits, NEW j \in Jobs, Raise(j)
  PROVE  \A k \in Jobs \ {j} : job'[k] = job[k]
BY ToPc, OneRow DEF Raise, End

(* A step of one handler leaves the others where they are. *)
LEMMA OthersStay ==
  ASSUME Fits, NEW j \in Jobs, Request(j) \/ JobStep(j)
  PROVE  \A k \in Jobs \ {j} : job'[k] = job[k]
<1>1. CASE Request(j)
  BY <1>1, OneRow DEF Request, StartAsync, Start, SaveSettings, Continue, Cancel, DeleteZone, Renew, Begin
<1>2. CASE \/ Validate(j) \/ CreateTxt(j) \/ VerifyTxt(j) \/ CleanUp(j) \/ FailAttach(j) \/ WriteRow(j)
           \/ Finalize(j) \/ Install(j) \/ WriteConfig(j) \/ ClearRow(j) \/ DeleteTxt(j) \/ MarkRestart(j)
  BY <1>2, ToPc, OneRow, RaiseOthers
     DEF Validate, CreateTxt, VerifyTxt, CleanUp, FailAttach, WriteRow, Finalize, Install,
         WriteConfig, ClearRow, DeleteTxt, MarkRestart, End
<1>3. CASE Save(j) \/ PrepareOrder(j) \/ Reload(j) \/ Detach(j)
  <2> DEFINE old == job[j]
             saved == [old EXCEPT !.pc = "order", !.cfg = Effective(old.what, old.cfg)]
             ordered == [old EXCEPT !.order = orders + 1,
                                    !.pc = IF UsesZone(old.cfg) THEN "create" ELSE "row"]
             loaded == [old EXCEPT !.pc = "finalize", !.order = enrollment.order,
                                   !.cfg = enrollment.cfg]
             read == [old EXCEPT !.cfg = config,
                                 !.pc = IF enrollment # NoRow /\ UsesZone(enrollment.cfg) THEN "cancel"
                                        ELSE IF UsesZone(config) THEN "unset" ELSE "drop"]
  <2>1. \/ Raise(j) \/ job' = [job EXCEPT ![j] = Free]
        \/ job' = [job EXCEPT ![j] = saved] \/ job' = [job EXCEPT ![j] = ordered]
        \/ job' = [job EXCEPT ![j] = loaded] \/ job' = [job EXCEPT ![j] = read]
    BY <1>3 DEF Save, PrepareOrder, Reload, Detach, End
  <2> HIDE DEF saved, ordered, loaded, read
  <2>2. QED
    BY <2>1, OneRow, RaiseOthers
<1>4. CASE \/ Complete(j) \/ ReportError(j) \/ Finisher(j) \/ Overwrite(j)
           \/ Finally(j) \/ Release(j) \/ Policy(j)
           \/ CancelTxt(j) \/ CancelRow(j) \/ Unset(j) \/ Drop(j)
  BY <1>4, ToPc, OneRow
     DEF Complete, ReportError, Finisher, Overwrite, Finally, Release, Policy, CancelTxt,
         CancelRow, Unset, Drop, End
<1>5. QED
  BY <1>1, <1>2, <1>3, <1>4 DEF JobStep

(* A handler that has still to tell of a certificate goes on until it does.*)
LEMMA GoesOn ==
  ASSUME Fits, ~DeleteMayFail, NEW j \in Jobs, Announcing(job[j]), JobStep(j)
  PROVE  Announcing(job'[j]) \/ required' \/ pending'
<1>1. \/ WriteConfig(j) \/ ClearRow(j) \/ DeleteTxt(j) \/ MarkRestart(j)
      \/ Finally(j) \/ Release(j) \/ Policy(j)
  BY DEF Announcing, StillToAnnounce, JobStep, At, Validate, Save, PrepareOrder, CreateTxt,
         VerifyTxt, CleanUp, FailAttach, WriteRow, Reload, Finalize, Install, Complete,
         ReportError, Finisher, Overwrite, Detach, CancelTxt, CancelRow, Unset, Drop
<1>2. CASE MarkRestart(j) \/ Policy(j)
  BY <1>2 DEF MarkRestart, Policy
<1>3. CASE WriteConfig(j) \/ ClearRow(j) \/ DeleteTxt(j)
  BY <1>3, ToPc DEF WriteConfig, ClearRow, DeleteTxt, Announcing, StillToAnnounce
<1>4. CASE Finally(j) \/ Release(j)
  BY <1>4, ToPc DEF Finally, Release, Announcing, StillToAnnounce, At
<1>5. QED
  BY <1>1, <1>2, <1>3, <1>4

(* No step of a handler takes back a flag, and a new certificate has its   *)
(* announcer.                                                              *)
LEMMA Unloaded ==
  ASSUME Fits, NEW j \in Jobs, JobStep(j)
  PROVE  /\ served' = served
         /\ cert' = cert \/ Announcing(job'[j])
         /\ required => required'
         /\ pending => pending'
         /\ stopping => stopping'
<1>1. CASE \/ Validate(j) \/ Save(j) \/ PrepareOrder(j) \/ CreateTxt(j) \/ VerifyTxt(j)
           \/ CleanUp(j) \/ FailAttach(j) \/ WriteRow(j) \/ Reload(j) \/ Finalize(j)
  <2>1. UNCHANGED <<cert, served, flags>>
    <3>1. CASE Validate(j) \/ Save(j) \/ PrepareOrder(j) \/ CreateTxt(j) \/ VerifyTxt(j)
      BY <3>1 DEF Validate, Save, PrepareOrder, CreateTxt, VerifyTxt
    <3>2. CASE CleanUp(j) \/ FailAttach(j) \/ WriteRow(j) \/ Reload(j) \/ Finalize(j)
      BY <3>2 DEF CleanUp, FailAttach, WriteRow, Reload, Finalize
    <3>3. QED
      BY <1>1, <3>1, <3>2
  <2>2. QED
    BY <2>1 DEF flags
<1>2. CASE Install(j)
  BY <1>2, ToPc DEF Install, Announcing, StillToAnnounce, flags
<1>3. CASE \/ WriteConfig(j) \/ ClearRow(j) \/ DeleteTxt(j) \/ MarkRestart(j) \/ Complete(j)
           \/ ReportError(j) \/ Finisher(j) \/ Overwrite(j) \/ Finally(j) \/ Release(j) \/ Policy(j)
  BY <1>3 DEF WriteConfig, ClearRow, DeleteTxt, MarkRestart, Complete, ReportError, Finisher,
              Overwrite, Finally, Release, Policy, flags
<1>4. CASE Detach(j) \/ CancelTxt(j) \/ CancelRow(j) \/ Unset(j) \/ Drop(j)
  BY <1>4 DEF Detach, CancelTxt, CancelRow, Unset, Drop, flags
<1>5. QED
  BY <1>1, <1>2, <1>3, <1>4 DEF JobStep

(* While the DNS provider deletes what it is asked to delete, a           *)
(* certificate that is installed and not yet loaded is announced, in       *)
(* whatever order the handlers, the scheduled restart and the restarts of  *)
(* the process follow one another.                                         *)
THEOREM NewCertificateIsAnnounced ==
  ASSUME ~DeleteMayFail
  PROVE  Spec => []NewCertificateAnnounced
<1>1. Init => NewCertificateAnnounced
  BY DEF Init, NewCertificateAnnounced
<1>2. Inv /\ NewCertificateAnnounced /\ [Next]_vars => NewCertificateAnnounced'
  <2> SUFFICES ASSUME Inv, NewCertificateAnnounced, [Next]_vars, cert' # served'
               PROVE  \/ required' \/ pending' \/ stopping'
                      \/ \E k \in Jobs : Announcing(job'[k])
    BY DEF NewCertificateAnnounced, Announcing
  <2>0. Fits
    BY DEF Inv
  <2>1. ASSUME NEW j \in Jobs, JobStep(j)
        PROVE  \/ required' \/ pending' \/ stopping'
               \/ \E k \in Jobs : Announcing(job'[k])
    <3>1. CASE Announcing(job'[j])
      BY <3>1
    <3>2. CASE required \/ pending \/ stopping
      BY <2>0, <2>1, <3>2, Unloaded
    <3>3. CASE \E k \in Jobs : Announcing(job[k])
      BY <2>0, <2>1, <3>3, GoesOn, OthersStay
    <3>4. cert # served \/ Announcing(job'[j])
      BY <2>0, <2>1, Unloaded
    <3>5. QED
      BY <3>1, <3>2, <3>3, <3>4 DEF NewCertificateAnnounced, Announcing
  <2>2. ASSUME NEW j \in Jobs, Request(j)
        PROVE  \/ required' \/ pending' \/ stopping'
               \/ \E k \in Jobs : Announcing(job'[k])
    <3>1. UNCHANGED <<cert, served, required, pending, stopping>>
      BY <2>2, RequestFits DEF flags
    <3>2. ~Announcing(job[j])
      BY <2>2 DEF Request, StartAsync, Start, SaveSettings, Continue, Cancel, DeleteZone, Renew,
                  Begin, At, Announcing, StillToAnnounce
    <3>3. QED
      BY <2>0, <2>2, <3>1, <3>2, OthersStay DEF NewCertificateAnnounced, Announcing
  <2>3. CASE SystemRestart \/ ScheduledRestart
    BY <2>3 DEF SystemRestart, ScheduledRestart
  <2>4. CASE Restart
    BY <2>4 DEF Restart
  <2>5. CASE UNCHANGED vars
    BY <2>5 DEF vars, flags, NewCertificateAnnounced, Announcing
  <2>6. QED
    BY <2>1, <2>2, <2>3, <2>4, <2>5 DEF Next
<1>3. QED
  BY <1>1, <1>2, Invariant, PTL DEF Spec
-----------------------------------------------------------------------------
(* A deleted zone is detached, one handler at a time.  Where a handler     *)
(* relies on the zone of its configuration the zone exists; the deletion   *)
(* comes to a step only when what the steps before it remove is gone.      *)

Uses(e) == e # NoRow /\ UsesZone(e.cfg)

Rely == Saved \cup {"save"}
Aside == {"detach", "cancel", "cancelRow", "unset", "drop"}

Knows(row, z, c, e) ==
    /\ row.pc \in Rely /\ UsesZone(row.cfg) => z
    /\ row.what = "delete" => row.pc \in Aside
    /\ row.pc \in {"detach", "unset", "drop"} => row.what = "delete"
    /\ row.pc \in {"cancel", "cancelRow"} =>
         row.what = "cancel" \/ (row.what = "delete" /\ row.cfg = c)
    /\ row.pc \in {"unset", "drop"} => ~Uses(e)
    /\ row.pc = "drop" => ~UsesZone(c)

Without(z, c, e) == ~z => ~UsesZone(c) /\ ~Uses(e)

Detached ==
    /\ Without(zone, config, enrollment)
    /\ \A j \in Jobs : Knows(job[j], zone, config, enrollment)

LEMMA FreeKnows ==
  ASSUME NEW z, NEW c, NEW e
  PROVE  Knows(Free, z, c, e)
BY DEF Knows, Free, UsesZone, Rely, Saved, Ordered, Aside

LEMMA AloneMoves ==
  ASSUME Fits, \A k, l \in Jobs : k = l, NEW j \in Jobs, NEW row, job' = [job EXCEPT ![j] = row],
         Knows(row, zone', config', enrollment'), Without(zone', config', enrollment')
  PROVE  Detached'
<1>1. \A k \in Jobs : job'[k] = row
  BY DEF Fits
<1>2. QED
  BY <1>1 DEF Detached

LEMMA AloneEnds ==
  ASSUME Fits, \A k, l \in Jobs : k = l, NEW j \in Jobs, End(j),
         Without(zone', config', enrollment')
  PROVE  Detached'
BY FreeKnows, AloneMoves DEF End

(* A step of a handler that deletes and cancels nothing *)
LEMMA AloneGoes ==
  ASSUME Fits, Detached, \A k, l \in Jobs : k = l, NEW j \in Jobs, job[j].pc \notin Aside,
         NEW pc \in Steps \ Aside, To(j, pc),
         pc \in Rely /\ UsesZone(job[j].cfg) => zone',
         Without(zone', config', enrollment')
  PROVE  Detached'
<1> DEFINE old == job[j]
           row == [old EXCEPT !.pc = pc]
<1>1. old \in JobRow /\ Knows(old, zone, config, enrollment)
  BY DEF Fits, Detached
<1>2. job' = [job EXCEPT ![j] = row]
  BY DEF To
<1> HIDE DEF old
<1>3. row.pc = pc /\ row.cfg = old.cfg /\ row.what = old.what
  BY <1>1 DEF JobRow
<1>4. old.what # "delete"
  BY <1>1 DEF Knows, old
<1> HIDE DEF row
<1>5. Knows(row, zone', config', enrollment')
  BY <1>3, <1>4 DEF Knows, Aside, old
<1>6. QED
  BY <1>2, <1>5, AloneMoves

LEMMA AloneRaises ==
  ASSUME Fits, Detached, \A k, l \in Jobs : k = l, NEW j \in Jobs, job[j].pc \notin Aside, Raise(j),
         Without(zone', config', enrollment')
  PROVE  Detached'
<1>1. {"error", "finally"} \subseteq Steps \ (Aside \cup Rely)
  BY DEF Steps, Aside, Rely, Saved, Ordered
<1>2. QED
  BY <1>1, AloneGoes, AloneEnds DEF Raise

LEMMA RelySets ==
  /\ {"save", "order", "create", "verify", "row", "finalize", "install", "config"} = Rely
  /\ Rely \subseteq Steps /\ Rely \cap Aside = {}
BY DEF Rely, Saved, Ordered, Steps, Aside

LEMMA RequestKeepsDetached ==
  ASSUME Inv, Detached, \A k, l \in Jobs : k = l, NEW j \in Jobs, Request(j)
  PROVE  Detached'
<1>0. Fits /\ UNCHANGED <<zone, config, enrollment>> /\ Without(zone', config', enrollment')
  BY RequestFits DEF Inv, rows, Detached
<1>1. ASSUME NEW what, NEW pc, NEW cfg, Begin(j, what, pc, cfg),
             Knows([pc |-> pc, what |-> what, cfg |-> cfg, order |-> NoRow], zone, config, enrollment)
      PROVE  Detached'
  BY <1>0, <1>1, AloneMoves DEF Begin
<1>2. ASSUME NEW cfg, NEW what \in Routes \ {"delete"}, Begin(j, what, "validate", cfg)
      PROVE  Detached'
  BY <1>1, <1>2, RelySets DEF Knows
<1>3. CASE Continue(j) \/ Cancel(j) \/ DeleteZone(j)
  <2>1. {"reload", "cancel", "detach"} \cap Rely = {} /\ "detach" \in Aside
    BY DEF Rely, Saved, Ordered, Aside
  <2>2. CASE Continue(j)
    BY <1>1, <2>1, <2>2 DEF Knows, Continue
  <2>3. CASE Cancel(j)
    BY <1>1, <2>1, <2>3 DEF Knows, Cancel
  <2>4. CASE DeleteZone(j)
    BY <1>1, <2>1, <2>4 DEF Knows, DeleteZone
  <2>5. QED
    BY <1>3, <2>2, <2>3, <2>4
<1>4. CASE Renew(j)
  <2>1. UsesZone(config) => zone
    BY DEF Detached, Without
  <2>2. QED
    BY <1>1, <1>4, <2>1, RelySets DEF Knows, Renew
<1>5. QED
  BY <1>2, <1>3, <1>4 DEF Request, StartAsync, Start, SaveSettings, Routes

LEMMA EnrollKeepsDetached ==
  ASSUME Inv, Detached, \A k, l \in Jobs : k = l, NEW j \in Jobs,
         \/ Validate(j) \/ Save(j) \/ PrepareOrder(j) \/ CreateTxt(j) \/ VerifyTxt(j)
         \/ CleanUp(j) \/ FailAttach(j) \/ WriteRow(j)
  PROVE  Detached'
<1> DEFINE old == job[j]
<1>0. /\ Fits /\ old \in JobRow /\ Knows(old, zone, config, enrollment)
      /\ Without(zone, config, enrollment) /\ old.pc \notin Aside
      /\ old.pc \in Rely /\ UsesZone(old.cfg) => zone
  BY DEF Inv, Fits, Detached, Knows, Aside, Validate, Save, PrepareOrder, CreateTxt, VerifyTxt,
         CleanUp, FailAttach, WriteRow, At
<1>1. CASE Validate(j)
  BY <1>0, <1>1, AloneGoes, AloneRaises, RelySets DEF Validate, rows, Aside
<1>2. CASE Save(j)
  <2> DEFINE cfg == Effective(old.what, old.cfg)
  <2>1. old.pc \in Rely /\ old.cfg \in Config /\ UNCHANGED <<zone, enrollment>> /\ config' = cfg
    BY <1>2, RelySets DEF Save, At, Inv, Fits, Fit, Configured
  <2>2. cfg \in Config /\ (UsesZone(cfg) => zone)
    BY <1>0, <2>1, LetsEncryptAssumption DEF Effective, UsesZone, Config
  <2>3. Without(zone', config', enrollment')
    BY <1>0, <2>1, <2>2 DEF Without
  <2>4. CASE End(j)
    BY <1>0, <2>3, <2>4, AloneEnds
  <2>5. CASE job' = [job EXCEPT ![j].pc = "order", ![j].cfg = cfg]
    <3> DEFINE row == [old EXCEPT !.pc = "order", !.cfg = cfg]
    <3> HIDE DEF cfg
    <3>1. job' = [job EXCEPT ![j] = row]
      BY <2>5
    <3>2. old.what # "delete"
      BY <1>0 DEF Knows
    <3> HIDE DEF old
    <3>3. row.pc = "order" /\ row.cfg = cfg /\ row.what = old.what
      BY <1>0 DEF JobRow
    <3> HIDE DEF row
    <3>4. Knows(row, zone', config', enrollment')
      BY <2>1, <2>2, <3>2, <3>3 DEF Knows
    <3>5. QED
      BY <1>0, <2>3, <3>1, <3>4, AloneMoves
  <2>6. QED
    BY <1>2, <2>4, <2>5 DEF Save
<1>3. CASE PrepareOrder(j)
  <2>1. UNCHANGED <<zone, config, enrollment>> /\ old.pc \in Rely
    BY <1>3, RelySets DEF PrepareOrder, rows, At
  <2>2. CASE job' = [job EXCEPT ![j].order = orders + 1,
                                ![j].pc = IF UsesZone(job[j].cfg) THEN "create" ELSE "row"]
    <3> DEFINE pc == IF UsesZone(job[j].cfg) THEN "create" ELSE "row"
               row == [old EXCEPT !.order = orders + 1, !.pc = pc]
    <3>1. job' = [job EXCEPT ![j] = row]
      BY <2>2
    <3>2. pc \in {"create", "row"} /\ old.what # "delete"
      BY <1>0 DEF Knows
    <3> HIDE DEF old, pc
    <3>3. row.pc = pc /\ row.cfg = old.cfg /\ row.what = old.what
      BY <1>0 DEF JobRow
    <3> HIDE DEF row
    <3>4. Knows(row, zone', config', enrollment')
      BY <1>0, <2>1, <3>2, <3>3 DEF Knows
    <3>5. QED
      BY <1>0, <2>1, <3>1, <3>4, AloneMoves
  <2>3. CASE End(j) \/ Raise(j)
    BY <1>0, <2>1, <2>3, AloneEnds, AloneRaises
  <2>4. QED
    BY <1>3, <2>2, <2>3 DEF PrepareOrder
<1>4. CASE CreateTxt(j) \/ VerifyTxt(j) \/ CleanUp(j) \/ FailAttach(j)
  <2>1. /\ UNCHANGED <<zone, config>> /\ enrollment' \in {enrollment, NoRow}
        /\ \/ Raise(j)
           \/ old.pc \in Rely /\ (To(j, "verify") \/ To(j, "row"))
           \/ To(j, "fail") \/ To(j, "cleanup")
    BY <1>4, RelySets DEF CreateTxt, VerifyTxt, CleanUp, FailAttach, rows, At
  <2>2. Without(zone', config', enrollment')
    BY <1>0, <2>1 DEF Without, Uses
  <2>3. {"fail", "cleanup"} \subseteq Steps \ (Aside \cup Rely)
    BY DEF Steps, Aside, Rely, Saved, Ordered
  <2>4. QED
    BY <1>0, <2>1, <2>2, <2>3, AloneGoes, AloneRaises, RelySets
<1>5. CASE WriteRow(j)
  <2>1. /\ UNCHANGED <<zone, config>> /\ old.pc \in Rely
        /\ enrollment' = [order |-> old.order, cfg |-> old.cfg]
        /\ To(j, "finalize") \/ To(j, "reload") \/ End(j)
    BY <1>5, RelySets DEF WriteRow, At
  <2>2. Without(zone', config', enrollment')
    BY <1>0, <2>1 DEF Without, Uses
  <2>3. "reload" \in Steps \ (Aside \cup Rely)
    BY DEF Steps, Aside, Rely, Saved, Ordered
  <2>4. QED
    BY <1>0, <2>1, <2>2, <2>3, AloneGoes, AloneEnds, RelySets
<1>6. QED
  BY <1>1, <1>2, <1>3, <1>4, <1>5

LEMMA ContinueKeepsDetached ==
  ASSUME Inv, Detached, \A k, l \in Jobs : k = l, NEW j \in Jobs,
         \/ Reload(j) \/ Finalize(j) \/ Install(j) \/ WriteConfig(j) \/ ClearRow(j)
         \/ DeleteTxt(j) \/ MarkRestart(j)
         \/ Complete(j) \/ ReportError(j) \/ Finisher(j) \/ Overwrite(j)
         \/ Finally(j) \/ Release(j) \/ Policy(j)
  PROVE  Detached'
<1> DEFINE old == job[j]
<1>0. /\ Fits /\ old \in JobRow /\ Knows(old, zone, config, enrollment)
      /\ Without(zone, config, enrollment) /\ old.pc \notin Aside
      /\ old.pc \in Rely /\ UsesZone(old.cfg) => zone
  BY DEF Inv, Fits, Detached, Knows, Aside, Reload, Finalize, Install, WriteConfig, ClearRow,
         DeleteTxt, MarkRestart, Complete, ReportError, Finisher, Overwrite, Finally, Release,
         Policy, At
<1>1. CASE Reload(j) /\ enrollment # NoRow
  <2> DEFINE row == [old EXCEPT !.pc = "finalize", !.order = enrollment.order,
                                !.cfg = enrollment.cfg]
  <2>1. job' = [job EXCEPT ![j] = row] /\ UNCHANGED <<zone, config, enrollment>>
    BY <1>1 DEF Reload, rows
  <2>2. old.what # "delete" /\ (UsesZone(enrollment.cfg) => zone)
    BY <1>0, <1>1 DEF Knows, Without, Uses
  <2> HIDE DEF old
  <2>3. row.pc = "finalize" /\ row.cfg = enrollment.cfg /\ row.what = old.what
    BY <1>0 DEF JobRow
  <2> HIDE DEF row
  <2>4. Knows(row, zone', config', enrollment')
    BY <2>1, <2>2, <2>3 DEF Knows
  <2>5. QED
    BY <1>0, <2>1, <2>4, AloneMoves
<1>2. CASE \/ Reload(j) /\ enrollment = NoRow
           \/ Finalize(j) \/ Install(j) \/ WriteConfig(j) \/ ClearRow(j)
           \/ DeleteTxt(j) \/ MarkRestart(j)
           \/ Complete(j) \/ ReportError(j) \/ Finisher(j) \/ Overwrite(j)
           \/ Finally(j) \/ Release(j) \/ Policy(j)
  <2> DEFINE Later == {"finallyOk", "clear", "untxt", "mark", "complete", "finish", "overwrite",
                       "release", "releaseOk", "policy"}
  <2>1. zone' = zone /\ enrollment' \in {enrollment, NoRow}
    BY <1>2 DEF Reload, Finalize, Install, WriteConfig, ClearRow, DeleteTxt, MarkRestart, Complete,
         ReportError, Finisher, Overwrite, Finally, Release, Policy, rows
  <2>2. config' = config \/ (old.pc \in Rely /\ config' = old.cfg)
    <3>1. CASE WriteConfig(j)
      BY <3>1, RelySets DEF WriteConfig, At
    <3>2. CASE ~WriteConfig(j)
      BY <1>2, <3>2 DEF Reload, Finalize, Install, ClearRow, DeleteTxt, MarkRestart, Complete,
           ReportError, Finisher, Overwrite, Finally, Release, Policy, rows
    <3>3. QED
      BY <3>1, <3>2
  <2>3. \/ Raise(j) \/ End(j) \/ \E pc \in Later : To(j, pc)
        \/ old.pc \in Rely /\ (To(j, "install") \/ To(j, "config"))
    <3>1. CASE (Reload(j) /\ enrollment = NoRow) \/ Finalize(j)
      BY <3>1, RelySets DEF Reload, Finalize, At
    <3>2. CASE Install(j) \/ WriteConfig(j)
      <4>1. "install" \in Rely
        BY RelySets
      <4>2. QED
        BY <3>2, <4>1 DEF Install, WriteConfig, At
    <3>3. CASE ClearRow(j) \/ DeleteTxt(j) \/ MarkRestart(j)
      BY <3>3 DEF ClearRow, DeleteTxt, MarkRestart
    <3>4. CASE Complete(j) \/ ReportError(j) \/ Finisher(j) \/ Overwrite(j)
      BY <3>4 DEF Complete, ReportError, Finisher, Overwrite
    <3>5. CASE Finally(j) \/ Release(j) \/ Policy(j)
      BY <3>5 DEF Finally, Release, Policy
    <3>6. QED
      BY <1>2, <3>1, <3>2, <3>3, <3>4, <3>5
  <2>4. Without(zone', config', enrollment')
    BY <1>0, <2>1, <2>2 DEF Without, Uses
  <2>5. Later \subseteq Steps \ (Aside \cup Rely)
    BY DEF Steps, Aside, Rely, Saved, Ordered
  <2>6. QED
    BY <1>0, <2>1, <2>3, <2>4, <2>5, AloneGoes, AloneEnds, AloneRaises, RelySets
<1>3. QED
  BY <1>1, <1>2

LEMMA DetachKeepsDetached ==
  ASSUME Inv, Detached, \A k, l \in Jobs : k = l, NEW j \in Jobs,
         Detach(j) \/ CancelTxt(j) \/ CancelRow(j) \/ Unset(j) \/ Drop(j)
  PROVE  Detached'
<1> DEFINE old == job[j]
<1>0. /\ Fits /\ old \in JobRow /\ Knows(old, zone, config, enrollment)
      /\ Without(zone, config, enrollment)
  BY DEF Inv, Fits, Detached
(* a step to one of the steps of a deletion *)
<1>a. ASSUME NEW pc \in Aside, NEW cfg, job' = [job EXCEPT ![j] = [old EXCEPT !.pc = pc, !.cfg = cfg]],
             Without(zone', config', enrollment'),
             pc \in {"detach", "unset", "drop"} => old.what = "delete",
             pc \in {"cancel", "cancelRow"} =>
               old.what = "cancel" \/ (old.what = "delete" /\ cfg = config'),
             pc \in {"unset", "drop"} => ~Uses(enrollment'),
             pc = "drop" => ~UsesZone(config')
      PROVE  Detached'
  <2> DEFINE row == [old EXCEPT !.pc = pc, !.cfg = cfg]
  <2>1. job' = [job EXCEPT ![j] = row]
    BY <1>a
  <2> HIDE DEF old
  <2>2. row.pc = pc /\ row.cfg = cfg /\ row.what = old.what
    BY <1>0 DEF JobRow
  <2> HIDE DEF row
  <2>3. Knows(row, zone', config', enrollment')
    BY <1>a, <2>2, RelySets DEF Knows
  <2>4. QED
    BY <1>0, <1>a, <2>1, <2>3, AloneMoves
<1>b. ASSUME NEW pc, To(j, pc)
      PROVE  job' = [job EXCEPT ![j] = [old EXCEPT !.pc = pc, !.cfg = old.cfg]]
  <2>1. [old EXCEPT !.pc = pc, !.cfg = old.cfg] = [old EXCEPT !.pc = pc]
    BY <1>0 DEF JobRow
  <2>2. QED
    BY <1>b, <2>1 DEF To
<1>1. CASE Detach(j)
  <2> DEFINE pc == IF enrollment # NoRow /\ UsesZone(enrollment.cfg) THEN "cancel"
                   ELSE IF UsesZone(config) THEN "unset" ELSE "drop"
  <2>1. /\ job' = [job EXCEPT ![j] = [old EXCEPT !.cfg = config, !.pc = pc]]
        /\ UNCHANGED <<zone, config, enrollment>> /\ old.what = "delete"
    BY <1>0, <1>1 DEF Detach, rows, At, Knows
  <2>2. [old EXCEPT !.cfg = config, !.pc = pc] = [old EXCEPT !.pc = pc, !.cfg = config]
    BY <1>0 DEF JobRow
  <2>3. /\ pc \in {"cancel", "unset", "drop"}
        /\ pc \in {"unset", "drop"} => ~Uses(enrollment)
        /\ pc = "drop" => ~UsesZone(config)
    BY DEF Uses
  <2> HIDE DEF old, pc
  <2>4. QED
    BY <1>0, <1>a, <2>1, <2>2, <2>3 DEF Aside
<1>2. CASE CancelTxt(j)
  <2>1. /\ UNCHANGED <<zone, config, enrollment>>
        /\ To(j, "cancelRow") \/ End(j)
        /\ old.what = "cancel" \/ (old.what = "delete" /\ old.cfg = config')
        /\ Without(zone', config', enrollment')
    BY <1>0, <1>2 DEF CancelTxt, rows, At, Knows
  <2>2. CASE To(j, "cancelRow")
    <3>1. job' = [job EXCEPT ![j] = [old EXCEPT !.pc = "cancelRow", !.cfg = old.cfg]]
      BY <1>b, <2>2
    <3> HIDE DEF old
    <3>2. QED
      BY <1>a, <2>1, <3>1 DEF Aside
  <2>3. QED
    BY <1>0, <2>1, <2>2, AloneEnds
<1>3. CASE CancelRow(j)
  <2>1. /\ UNCHANGED <<zone, config>> /\ enrollment' = NoRow
        /\ Without(zone', config', enrollment') /\ ~Uses(enrollment')
    BY <1>0, <1>3 DEF CancelRow, Without, Uses
  <2>2. CASE End(j)
    BY <1>0, <2>1, <2>2, AloneEnds
  <2>3. CASE old.what # "cancel"
    <3>1. old.what = "delete" /\ old.cfg = config
      BY <1>0, <1>3, <2>3 DEF CancelRow, At, Knows
    <3> DEFINE pc == IF UsesZone(old.cfg) THEN "unset" ELSE "drop"
    <3>2. To(j, pc)
      BY <1>3, <2>3 DEF CancelRow
    <3>3. job' = [job EXCEPT ![j] = [old EXCEPT !.pc = pc, !.cfg = old.cfg]]
      BY <1>b, <3>2
    <3>4. pc \in {"unset", "drop"} /\ (pc = "drop" => ~UsesZone(config'))
      BY <2>1, <3>1
    <3> HIDE DEF old, pc
    <3>5. QED
      BY <1>a, <2>1, <3>1, <3>3, <3>4 DEF Aside
  <2>4. QED
    BY <1>3, <2>2, <2>3 DEF CancelRow
<1>4. CASE Unset(j)
  <2>1. /\ UNCHANGED <<zone, enrollment>> /\ To(j, "drop") /\ ~Uses(enrollment)
        /\ old.what = "delete" /\ config' = [old.cfg EXCEPT !.kind = "manual", !.auto = FALSE]
    BY <1>0, <1>4 DEF Unset, At, Knows
  <2>2. old.cfg \in Config
    BY <1>4 DEF Inv, Fits, Fit, Unset, At, Configured
  <2>3. ~UsesZone(config')
    BY <2>1, <2>2 DEF Config, UsesZone
  <2>4. QED
    BY <1>a, <1>b, <2>1, <2>3 DEF Aside, Without
<1>5. CASE Drop(j)
  BY <1>0, <1>5, AloneEnds DEF Drop, At, Knows, Without
<1>6. QED
  BY <1>1, <1>2, <1>3, <1>4, <1>5

(* A deleted zone is not the challenge zone of the configuration, as long  *)
(* as one handler runs at a time: zone_delete drops the row only after     *)
(* detach_dns_zone_from_letsencrypt, and save_config checks the zone.      *)
THEOREM DeletedZoneStaysDetached ==
  ASSUME \A k, l \in Jobs : k = l
  PROVE  Spec => []DeletedZoneIsDetached
<1>1. Init => Detached
  BY FreeKnows DEF Init, Detached, Without
<1>2. ASSUME Inv, Detached, [Next]_vars
      PROVE  Detached'
  <2>1. ASSUME NEW j \in Jobs, Request(j) \/ JobStep(j)
        PROVE  Detached'
    BY <1>2, <2>1, RequestKeepsDetached, EnrollKeepsDetached, ContinueKeepsDetached,
       DetachKeepsDetached DEF JobStep
  <2>2. CASE SystemRestart \/ ScheduledRestart \/ UNCHANGED vars
    BY <1>2, <2>2 DEF SystemRestart, ScheduledRestart, vars, rows, Detached
  <2>3. CASE Restart
    BY <1>2, <2>3, FreeKnows DEF Restart, rows, Detached
  <2>4. QED
    BY <1>2, <2>1, <2>2, <2>3 DEF Next
<1>3. Detached => DeletedZoneIsDetached
  BY DEF Detached, Without, DeletedZoneIsDetached
<1>4. QED
  BY <1>1, <1>2, <1>3, Invariant, PTL DEF Spec
=============================================================================
