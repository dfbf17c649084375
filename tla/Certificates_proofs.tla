------------------------- MODULE Certificates_proofs -------------------------
(***************************************************************************)
(* Proofs about Certificates, for any number of handlers and of pairs: an  *)
(* installer that ran beside no other has installed what it was given,     *)
(* whatever is left of those before it, and a restart loads it.            *)
(***************************************************************************)
EXTENDS Certificates, TLAPS

JobRow == [pc: Steps, kind: Kinds, pair: Pairs \cup {None}]

(* The steps of each handler: those of a switch, of an upload, of a        *)
(* self-signed pair.                                                       *)
SwitchSteps == {"check", "enable", "disable", "restart"}
UploadSteps == {"keyTmp", "key", "certTmp", "cert", "uploaded", "mark"}
SignSteps == {"look", "unlinkKey", "unlinkCert", "clean", "generate", "newKey", "newCert",
              "self_signed", "mark"}

Coherent(j) ==
    \/ j = Free
    \/ j.kind = "toggle" /\ j.pc \in SwitchSteps
    \/ j.kind = "upload" /\ j.pc \in UploadSteps /\ j.pair \in Pairs
    \/ j.kind = "letsEncrypt" /\ j.pc \in UploadSteps \cup {"letsencrypt"} /\ j.pair \in Pairs
    \/ j.kind = "selfSigned" /\ j.pc \in SignSteps /\ j.pair \in Pairs

Types == TypeOK /\ \A h \in Handlers : Coherent(job[h])

LEMMA FreeRow == Free \in JobRow /\ Coherent(Free)
BY DEF Free, JobRow, Steps, Kinds, Coherent

(* A handler that goes on to another step of its kind stays coherent. *)
LEMMA ToStays ==
  ASSUME Types, NEW h \in Handlers, NEW pc \in Steps, To(h, pc),
         Coherent([job[h] EXCEPT !.pc = pc])
  PROVE  /\ job' \in [Handlers -> JobRow]
         /\ \A k \in Handlers : Coherent(job'[k])
<1> DEFINE old == job[h]
<1>1. job' = [job EXCEPT ![h] = [old EXCEPT !.pc = pc]]
  BY DEF To
<1>2. old \in JobRow /\ Coherent([old EXCEPT !.pc = pc])
  BY DEF Types, TypeOK, JobRow
<1> HIDE DEF old
<1>3. [old EXCEPT !.pc = pc] \in JobRow
  BY <1>2 DEF JobRow
<1>4. QED
  BY <1>1, <1>2, <1>3 DEF Types, TypeOK, JobRow

LEMMA EndStays ==
  ASSUME Types, NEW h \in Handlers, End(h)
  PROVE  /\ job' \in [Handlers -> JobRow]
         /\ \A k \in Handlers : Coherent(job'[k])
BY FreeRow DEF End, Types, TypeOK, JobRow

(* Steps of a kind only lead to steps of that kind. *)
Follows(j, pc) ==
    \/ j.kind = "toggle" /\ pc \in SwitchSteps
    \/ j.kind = "upload" /\ pc \in UploadSteps
    \/ j.kind = "letsEncrypt" /\ pc \in UploadSteps \cup {"letsencrypt"}
    \/ j.kind = "selfSigned" /\ pc \in SignSteps

LEMMA FollowsCoherent ==
  ASSUME NEW j \in JobRow, NEW pc \in Steps, Follows(j, pc), Coherent(j), j.pc # "idle"
  PROVE  Coherent([j EXCEPT !.pc = pc])
<1>1. /\ [j EXCEPT !.pc = pc].pc = pc
      /\ [j EXCEPT !.pc = pc].kind = j.kind
      /\ [j EXCEPT !.pc = pc].pair = j.pair
  BY DEF JobRow
<1>2. j # Free
  BY DEF Free
<1>3. QED
  BY <1>1, <1>2 DEF Follows, Coherent

LEMMA HandleJobs ==
  ASSUME Types, NEW h \in Handlers, Handle(h)
  PROVE  /\ job' \in [Handlers -> JobRow]
         /\ \A k \in Handlers : Coherent(job'[k])
<1> DEFINE j == job[h]
<1>1. j \in JobRow /\ Coherent(j) /\ j.pc # "idle"
  BY DEF Types, TypeOK, JobRow, Handle, WriteTmp, Replace, Unlink, ReplaceNew, WriteSource, Look,
         RemoveStale, Generate, Mark, Check, Switch, Announce, Fail, At, Files, Sources
<1>2. ASSUME NEW pc \in Steps, To(h, pc), Follows(j, pc)
      PROVE  /\ job' \in [Handlers -> JobRow]
             /\ \A k \in Handlers : Coherent(job'[k])
  BY <1>1, <1>2, FollowsCoherent, ToStays
<1>3. ASSUME NEW f \in Files, WriteTmp(h, f) PROVE To(h, f) /\ Follows(j, f) /\ f \in Steps
  BY <1>1, <1>3 DEF WriteTmp, At, Files, Follows, Coherent, UploadSteps, SignSteps, SwitchSteps, Steps, Free
<1>4. ASSUME NEW f \in Files, Replace(h, f)
      PROVE  \E pc \in Steps : To(h, pc) /\ Follows(j, pc)
  BY <1>1, <1>4 DEF Replace, At, Files, Follows, Coherent, UploadSteps, SignSteps, SwitchSteps, Steps, Free
<1>5. ASSUME NEW f \in Files, Unlink(h, f) \/ ReplaceNew(h, f)
      PROVE  \E pc \in Steps : To(h, pc) /\ Follows(j, pc)
  BY <1>1, <1>5 DEF Unlink, ReplaceNew, At, Files, Follows, Coherent, UploadSteps, SignSteps,
                    SwitchSteps, Steps, Free
<1>6. ASSUME NEW s \in Sources, WriteSource(h, s)
      PROVE  \E pc \in Steps : To(h, pc) /\ Follows(j, pc)
  BY <1>1, <1>6 DEF WriteSource, At, Sources, Follows, Coherent, UploadSteps, SignSteps, SwitchSteps,
                    Steps, Free
<1>7. ASSUME Look(h) \/ RemoveStale(h) PROVE \E pc \in Steps : To(h, pc) /\ Follows(j, pc)
  BY <1>1, <1>7 DEF Look, RemoveStale, At, Follows, Coherent, UploadSteps, SignSteps, SwitchSteps,
                    Steps, Free
<1>8. ASSUME Generate(h) PROVE End(h) \/ \E pc \in Steps : To(h, pc) /\ Follows(j, pc)
  BY <1>1, <1>8 DEF Generate, At, Follows, Coherent, UploadSteps, SignSteps, SwitchSteps, Steps, Free
<1>9. ASSUME Check(h) \/ \E on \in BOOLEAN : Switch(h, on)
      PROVE  End(h) \/ \E pc \in Steps : To(h, pc) /\ Follows(j, pc)
  BY <1>1, <1>9 DEF Check, Switch, At, Follows, Coherent, UploadSteps, SignSteps, SwitchSteps, Steps, Free
<1>10. ASSUME Mark(h) \/ Announce(h) \/ Fail(h) PROVE End(h)
  BY <1>10 DEF Mark, Announce, Fail
<1>11. QED
  BY <1>2, <1>3, <1>4, <1>5, <1>6, <1>7, <1>8, <1>9, <1>10, EndStays DEF Handle

LEMMA HandleFiles ==
  ASSUME Types, NEW h \in Handlers, Handle(h)
  PROVE  /\ live' \in OnDisk /\ tmp' \in OnDisk /\ new' \in OnDisk
         /\ source' \in Sources \cup {None} /\ ssl' \in BOOLEAN /\ required' \in BOOLEAN
         /\ UNCHANGED <<up, loaded, made, alone>>
<1>1. ASSUME NEW f \in Files, WriteTmp(h, f)
      PROVE  tmp' \in OnDisk /\ UNCHANGED <<live, new, source, ssl, required, up, loaded, made, alone>>
  BY <1>1 DEF WriteTmp, Types, TypeOK, OnDisk
<1>2. ASSUME NEW f \in Files, Replace(h, f)
      PROVE  /\ tmp' \in OnDisk /\ live' \in OnDisk
             /\ UNCHANGED <<new, source, ssl, required, up, loaded, made, alone>>
  BY <1>2 DEF Replace, Types, TypeOK, OnDisk
<1>3. ASSUME NEW f \in Files, Unlink(h, f) \/ ReplaceNew(h, f)
      PROVE  /\ live' \in OnDisk /\ new' \in OnDisk
             /\ UNCHANGED <<tmp, source, ssl, required, up, loaded, made, alone>>
  BY <1>3 DEF Unlink, ReplaceNew, Types, TypeOK, OnDisk
<1>4. ASSUME Generate(h) \/ RemoveStale(h)
      PROVE  new' \in OnDisk /\ UNCHANGED <<live, tmp, source, ssl, required, up, loaded, made, alone>>
  BY <1>4 DEF Generate, RemoveStale, NoFiles, Types, TypeOK, OnDisk
<1>5. ASSUME \/ (\E s \in Sources : WriteSource(h, s)) \/ Look(h) \/ Mark(h) \/ Check(h)
             \/ (\E on \in BOOLEAN : Switch(h, on)) \/ Announce(h) \/ Fail(h)
      PROVE  /\ UNCHANGED <<live, tmp, new, up, loaded, made, alone>>
             /\ source' \in Sources \cup {None} /\ ssl' \in BOOLEAN /\ required' \in BOOLEAN
  BY <1>5 DEF WriteSource, Look, Mark, Check, Switch, Announce, Fail, Types, TypeOK
<1>6. QED
  BY <1>1, <1>2, <1>3, <1>4, <1>5 DEF Handle, Types, TypeOK

Wholes == {None} \cup [pair: Pairs, source: Sources]

LEMMA InstalledWhole ==
  ASSUME Types, NEW h \in Handlers, job[h].pc = "mark"
  PROVE  Installed(h) \in Wholes
<1>1. job[h].pair \in Pairs /\ job[h].kind \in {"upload", "selfSigned", "letsEncrypt"}
  BY DEF Types, Coherent, Free, SwitchSteps
<1>2. QED
  BY <1>1 DEF Installed, SourceOf, Wholes, Sources

LEMMA TypesInvariant == Spec => []Types
<1>1. Init => Types
  <2> SUFFICES ASSUME Init PROVE Types
    OBVIOUS
  <2>1. job \in [Handlers -> JobRow] /\ \A h \in Handlers : Coherent(job[h])
    BY FreeRow DEF Init
  <2>2. NoFiles \in OnDisk /\ made \in 0..MaxPairs
    BY CertificatesAssumption DEF Init, NoFiles, OnDisk
  <2>3. QED
    BY <2>1, <2>2 DEF Init, Types, TypeOK, JobRow
<1>2. Types /\ [Next]_vars => Types'
  <2> SUFFICES ASSUME Types, [Next]_vars PROVE Types'
    OBVIOUS
  <2>1. ASSUME NEW h \in Handlers, NEW kind \in {"upload", "letsEncrypt", "selfSigned"},
               NEW pc \in Steps, Begin(h, kind, pc), Follows([job[h] EXCEPT !.kind = kind], pc)
        PROVE  Types'
    <3> DEFINE row == [pc |-> pc, kind |-> kind, pair |-> made + 1]
    <3>1. made + 1 \in Pairs /\ made' \in 0..MaxPairs
      BY <2>1, CertificatesAssumption DEF Begin, Pairs, Types, TypeOK
    <3>2. row \in JobRow
      BY <3>1 DEF JobRow, Kinds
    <3>3. [job[h] EXCEPT !.kind = kind].kind = kind
      BY DEF Types, TypeOK
    <3>4. Coherent(row)
      BY <2>1, <3>1, <3>3 DEF Coherent, Follows
    <3>5. job' = [job EXCEPT ![h] = row]
      BY <2>1 DEF Begin
    <3> HIDE DEF row
    <3>6. job' \in [Handlers -> JobRow] /\ \A k \in Handlers : Coherent(job'[k])
      BY <3>2, <3>4, <3>5 DEF Types, TypeOK, JobRow
    <3>7. alone' \subseteq Handlers
      BY <2>1 DEF Begin
    <3>8. QED
      BY <2>1, <3>1, <3>6, <3>7 DEF Begin, Types, TypeOK, JobRow
  <2>2. ASSUME NEW h \in Handlers, Upload(h) \/ LetsEncrypt(h) \/ SelfSigned(h) PROVE Types'
    <3>1. \A kind : [job[h] EXCEPT !.kind = kind].kind = kind
      BY DEF Types, TypeOK
    <3>2. CASE Upload(h)
      BY <2>1, <3>1, <3>2 DEF Upload, Follows, UploadSteps, Steps
    <3>3. CASE LetsEncrypt(h)
      BY <2>1, <3>1, <3>3 DEF LetsEncrypt, Follows, UploadSteps, Steps
    <3>4. CASE SelfSigned(h)
      BY <2>1, <3>1, <3>4 DEF SelfSigned, Follows, SignSteps, Steps
    <3>5. QED
      BY <2>2, <3>2, <3>3, <3>4
  <2>3. ASSUME NEW h \in Handlers, NEW pc \in {"check", "disable"}, Toggle(h, pc) PROVE Types'
    <3> DEFINE row == [pc |-> pc, kind |-> "toggle", pair |-> None]
    <3>1. row \in JobRow /\ Coherent(row) /\ job' = [job EXCEPT ![h] = row]
      BY <2>3 DEF Toggle, JobRow, Steps, Kinds, Coherent, SwitchSteps
    <3> HIDE DEF row
    <3>2. job' \in [Handlers -> JobRow] /\ \A k \in Handlers : Coherent(job'[k])
      BY <3>1 DEF Types, TypeOK, JobRow
    <3>3. QED
      BY <2>3, <3>2 DEF Toggle, Types, TypeOK, JobRow
  <2>4. ASSUME NEW h \in Handlers, Handle(h) PROVE Types'
    <3>1. whole' \in Wholes
      <4>1. CASE Mark(h)
        BY <4>1, InstalledWhole DEF Mark, At
      <4>2. CASE UNCHANGED whole
        BY <4>2 DEF Types, TypeOK, Wholes
      <4>3. QED
        BY <2>4, <4>1, <4>2 DEF Handle, WriteTmp, Replace, Unlink, ReplaceNew, WriteSource, Look,
                                RemoveStale, Generate, Check, Switch, Announce, Fail
    <3>2. QED
      BY <2>4, <3>1, HandleJobs, HandleFiles DEF Types, TypeOK, JobRow, Wholes
  <2>5. CASE Stop
    <3>1. job' \in [Handlers -> JobRow] /\ \A k \in Handlers : Coherent(job'[k])
      BY <2>5, FreeRow DEF Stop
    <3>2. QED
      BY <2>5, <3>1 DEF Stop, Types, TypeOK, JobRow
  <2>6. CASE Start
    BY <2>6 DEF Start, Types, TypeOK, OnDisk, Files
  <2>7. CASE UNCHANGED vars
    BY <2>7 DEF vars, Types, TypeOK
  <2>8. QED
    BY <2>2, <2>3, <2>4, <2>5, <2>6, <2>7 DEF Next
<1>3. QED
  BY <1>1, <1>2, PTL DEF Spec

(* Files, settings, jobs and marks stay what they are meant to be. *)
THEOREM CertificateTypes == Spec => []TypeOK
<1>1. Types => TypeOK
  BY DEF Types
<1>2. QED
  BY <1>1, TypesInvariant, PTL
-----------------------------------------------------------------------------
(* While an installer is alone nobody else touches the files: it finds     *)
(* each file as it left it in the step before.                             *)
Has(files, f, pair) == files[f] = pair

Progress(j) ==
    /\ j.pc \in {"key"} => Has(tmp, "key", j.pair)
    /\ j.pc \in {"certTmp", "cert", "uploaded", "letsencrypt", "newCert", "self_signed", "mark"} =>
            Has(live, "key", j.pair)
    /\ j.pc \in {"cert"} => Has(tmp, "cert", j.pair)
    /\ j.pc \in {"uploaded", "letsencrypt", "self_signed", "mark"} => Has(live, "cert", j.pair)
    /\ j.pc \in {"newKey"} => Has(new, "key", j.pair)
    /\ j.pc \in {"newKey", "newCert"} => Has(new, "cert", j.pair)
    /\ j.pc = "mark" => source = SourceOf[j.kind]

Alone ==
    /\ \A h \in alone : Installers \subseteq {h}
    /\ \A h \in alone : h \in Installers => Progress(job[h])
    /\ whole # None => Installers = {}
    /\ LoneInstallTakesEffect

LEMMA Moved ==
  ASSUME Types, NEW h \in Handlers, NEW pc, To(h, pc)
  PROVE  /\ job'[h].pc = pc /\ job'[h].kind = job[h].kind /\ job'[h].pair = job[h].pair
         /\ \A k \in Handlers \ {h} : job'[k] = job[k]
BY DEF To, Types, TypeOK

LEMMA Ended ==
  ASSUME Types, NEW h \in Handlers, End(h)
  PROVE  job'[h].pc = "idle" /\ \A k \in Handlers \ {h} : job'[k] = job[k]
BY DEF End, Free, Types, TypeOK

(* An installer leaves each file as its next step wants to find it. *)
LEMMA ProgressStays ==
  ASSUME Types, NEW h \in Handlers, Handle(h), Progress(job[h]), job[h].kind # "toggle",
         job'[h].pc # "idle"
  PROVE  Progress(job[h])'
<1> DEFINE j == job[h]
<1>0. /\ j.kind = "upload" => j.pc \in UploadSteps
      /\ j.kind = "letsEncrypt" => j.pc \in UploadSteps \cup {"letsencrypt"}
      /\ j.kind = "selfSigned" => j.pc \in SignSteps
      /\ j.kind \in {"upload", "letsEncrypt", "selfSigned"}
  BY DEF Types, TypeOK, Coherent, Free, Kinds, Handle, WriteTmp, Replace, Unlink, ReplaceNew,
         WriteSource, Look, RemoveStale, Generate, Mark, Check, Switch, Announce, Fail, At, Files, Sources
<1>1. ASSUME NEW f \in Files, WriteTmp(h, f) PROVE Progress(job[h])'
  <2>1. /\ j.pc = IF f = "key" THEN "keyTmp" ELSE "certTmp"
        /\ job'[h].pc = f /\ job'[h].kind = j.kind /\ job'[h].pair = j.pair
        /\ tmp'[f] = j.pair /\ UNCHANGED live
    BY <1>1, Moved DEF WriteTmp, At, Types, TypeOK, OnDisk
  <2>2. QED
    BY <2>1 DEF Progress, Has, Files
<1>2. ASSUME NEW f \in Files, Replace(h, f) PROVE Progress(job[h])'
  <2>1. /\ j.pc = f /\ job'[h].pc = IF f = "key" THEN "certTmp" ELSE "uploaded"
        /\ job'[h].kind = j.kind /\ job'[h].pair = j.pair
        /\ live'[f] = tmp[f] /\ \A g \in Files \ {f} : live'[g] = live[g]
    BY <1>2, Moved DEF Replace, At, Types, TypeOK, OnDisk
  <2>2. QED
    BY <2>1 DEF Progress, Has, Files
<1>3. ASSUME NEW f \in Files, Unlink(h, f) PROVE Progress(job[h])'
  <2>1. job'[h].pc \in {"unlinkCert", "clean"}
    BY <1>3, Moved DEF Unlink
  <2>2. QED
    BY <2>1 DEF Progress
<1>4. ASSUME NEW f \in Files, ReplaceNew(h, f) PROVE Progress(job[h])'
  <2>1. /\ j.pc = IF f = "key" THEN "newKey" ELSE "newCert"
        /\ job'[h].pc = IF f = "key" THEN "newCert" ELSE "self_signed"
        /\ job'[h].kind = j.kind /\ job'[h].pair = j.pair
        /\ live'[f] = new[f]
        /\ \A g \in Files \ {f} : live'[g] = live[g] /\ new'[g] = new[g]
    BY <1>4, Moved DEF ReplaceNew, At, Types, TypeOK, OnDisk
  <2>2. QED
    BY <2>1 DEF Progress, Has, Files
<1>5. ASSUME NEW s \in Sources, WriteSource(h, s) PROVE Progress(job[h])'
  <2>1. /\ j.pc = s /\ source' = s /\ UNCHANGED live
        /\ job'[h].pc = IF s = "uploaded" /\ j.kind = "letsEncrypt" THEN "letsencrypt" ELSE "mark"
        /\ job'[h].kind = j.kind /\ job'[h].pair = j.pair
    BY <1>5, Moved DEF WriteSource, At
  <2>2. job'[h].pc = "mark" => s = SourceOf[j.kind]
    BY <1>0, <2>1 DEF SourceOf, UploadSteps, SignSteps, Sources
  <2>3. Has(live, "key", j.pair) /\ Has(live, "cert", j.pair)
    BY <2>1 DEF Progress, Sources
  <2>4. QED
    BY <2>1, <2>2, <2>3 DEF Progress, Has
<1>6. CASE Look(h) \/ RemoveStale(h)
  <2>1. job'[h].pc \in {"unlinkKey", "clean", "generate"}
    BY <1>6, Moved DEF Look, RemoveStale
  <2>2. QED
    BY <2>1 DEF Progress
<1>7. CASE Generate(h)
  <2>1. /\ job'[h].pc = "newKey" /\ job'[h].pair = j.pair
        /\ new' = [f \in Files |-> j.pair]
    BY <1>7, Moved, Ended DEF Generate
  <2>2. QED
    BY <2>1 DEF Progress, Has, Files
<1>8. CASE Check(h) \/ \E on \in BOOLEAN : Switch(h, on)
  BY <1>0, <1>8 DEF Check, Switch, At, UploadSteps, SignSteps
<1>9. CASE Mark(h) \/ Announce(h) \/ Fail(h)
  BY <1>9, Ended DEF Mark, Announce, Fail
<1>10. QED
  BY <1>1, <1>2, <1>3, <1>4, <1>5, <1>6, <1>7, <1>8, <1>9 DEF Handle

(* The switch touches no file, and announces what it did. *)
LEMMA SwitchStays ==
  ASSUME Types, NEW h \in Handlers, Handle(h), job[h].kind = "toggle"
  PROVE  /\ UNCHANGED <<live, tmp, new, source, up, loaded, alone, whole>>
         /\ required => required'
         /\ \A k \in Handlers \ {h} : job'[k] = job[k]
         /\ job'[h].pc # "idle" => job'[h].kind = "toggle"
<1>1. job[h].pc \in SwitchSteps \cup {"idle"}
  BY DEF Types, Coherent, Free
<1>2. CASE Check(h) \/ (\E on \in BOOLEAN : Switch(h, on)) \/ Announce(h)
  BY <1>2, Moved, Ended DEF Check, Switch, Announce
<1>3. QED
  BY <1>1, <1>2 DEF Handle, WriteTmp, Replace, Unlink, ReplaceNew, WriteSource, Look, RemoveStale,
                    Generate, Mark, Fail, At, SwitchSteps, Files, Sources

LEMMA AloneInvariant == Spec => []Alone
<1>1. Init => Alone
  BY DEF Init, Alone, LoneInstallTakesEffect
<1>2. Types /\ Types' /\ Alone /\ [Next]_vars => Alone'
  <2> SUFFICES ASSUME Types, Types', Alone, [Next]_vars PROVE Alone'
    OBVIOUS
  <2>1. ASSUME NEW h \in Handlers, Upload(h) \/ LetsEncrypt(h) \/ SelfSigned(h) PROVE Alone'
    <3>1. /\ whole' = None
          /\ alone' = IF Installers = {} THEN {h} ELSE {}
          /\ job'[h].pc \in {"keyTmp", "look"}
          /\ \A k \in Handlers \ {h} : job'[k] = job[k]
      BY <2>1 DEF Upload, LetsEncrypt, SelfSigned, Begin, Types, TypeOK
    <3>2. Progress(job[h])'
      BY <3>1 DEF Progress
    <3>3. Installers = {} => Installers' \subseteq {h}
      BY <3>1 DEF Installers
    <3>4. QED
      BY <3>1, <3>2, <3>3 DEF Alone, LoneInstallTakesEffect
  <2>2. ASSUME UNCHANGED <<live, tmp, new, source, loaded, alone, whole>>,
               up' => up, required => required',
               Installers' = {} \/ /\ Installers' = Installers
                                   /\ \A h \in Installers : job'[h] = job[h]
        PROVE  Alone'
    <3>1. Installers' \subseteq Installers
      BY <2>2
    <3>2. \A h \in alone : h \in Installers' => Progress(job[h])'
      BY <2>2 DEF Alone, Progress, Has
    <3>3. LoneInstallTakesEffect'
      BY <2>2 DEF Alone, LoneInstallTakesEffect
    <3>4. QED
      BY <2>2, <3>1, <3>2, <3>3 DEF Alone
  <2>3. ASSUME NEW h \in Handlers, NEW pc \in {"check", "disable"}, Toggle(h, pc) PROVE Alone'
    <3>1. job[h].pc = "idle" /\ job'[h].kind = "toggle" /\ \A k \in Handlers \ {h} : job'[k] = job[k]
      BY <2>3 DEF Toggle, Types, TypeOK
    <3>2. Installers' = Installers /\ h \notin Installers
      BY <3>1 DEF Installers
    <3>3. QED
      BY <2>2, <2>3, <3>1, <3>2 DEF Toggle, Installers
  <2>4. ASSUME NEW h \in Handlers, Handle(h), job[h].kind = "toggle" PROVE Alone'
    <3>1. /\ UNCHANGED <<live, tmp, new, source, up, loaded, alone, whole>>
          /\ required => required'
          /\ \A k \in Handlers \ {h} : job'[k] = job[k]
          /\ job'[h].pc # "idle" => job'[h].kind = "toggle"
      BY <2>4, SwitchStays
    <3>2. Installers' = Installers /\ h \notin Installers
      BY <2>4, <3>1 DEF Installers
    <3>3. QED
      BY <2>2, <3>1, <3>2 DEF Installers
  <2>5. ASSUME NEW h \in Handlers, Handle(h), job[h].kind # "toggle" PROVE Alone'
    <3>1. h \in Installers /\ whole = None
      <4>1. job[h].pc # "idle"
        BY <2>5 DEF Handle, WriteTmp, Replace, Unlink, ReplaceNew, WriteSource, Look, RemoveStale, Generate,
               Mark, Check, Switch, Announce, Fail, At, Files, Sources
      <4>2. QED
        BY <2>5, <4>1 DEF Installers, Alone
    <3>2. /\ \A k \in Handlers \ {h} : job'[k] = job[k]
          /\ job'[h].pc # "idle" => job'[h].kind = job[h].kind
      BY <2>5, Moved, Ended DEF Handle, WriteTmp, Replace, Unlink, ReplaceNew, WriteSource, Look,
               RemoveStale, Generate, Mark, Check, Switch, Announce, Fail
    <3>3. Installers' \subseteq Installers
      BY <2>5, <3>1, <3>2 DEF Installers
    <3>4. alone' = alone /\ \A k \in alone : k = h
      BY <2>5, <3>1, HandleFiles DEF Alone
    <3>5. \A k \in alone' : k \in Installers' => Progress(job[k])'
      BY <2>5, <3>1, <3>4, ProgressStays DEF Installers, Alone
    <3>6. whole' # None => Installers' = {} /\ LoneInstallTakesEffect'
      <4>1. CASE ~Mark(h)
        <5>1. UNCHANGED whole
          BY <2>5, <4>1 DEF Handle, WriteTmp, Replace, Unlink, ReplaceNew, WriteSource, Look, RemoveStale,
                   Generate, Check, Switch, Announce, Fail
        <5>2. QED
          BY <3>1, <5>1
      <4>2. CASE Mark(h) /\ h \notin alone
        BY <4>2 DEF Mark, Installed
      <4>3. CASE Mark(h) /\ h \in alone
        <5>1. Installers' = {}
          BY <3>2, <3>3, <4>3, Ended DEF Mark, Alone, Installers
        <5>2. /\ whole' = [pair |-> job[h].pair, source |-> SourceOf[job[h].kind]]
              /\ job[h].pc = "mark" /\ required' = TRUE /\ UNCHANGED <<live, source>>
          BY <4>3 DEF Mark, Installed, At
        <5>3. /\ live["key"] = job[h].pair /\ live["cert"] = job[h].pair
              /\ source = SourceOf[job[h].kind]
          BY <3>1, <4>3, <5>2 DEF Alone, Progress, Has
        <5>4. QED
          BY <5>1, <5>2, <5>3 DEF LoneInstallTakesEffect, Files
      <4>4. QED
        BY <4>1, <4>2, <4>3
    <3>7. whole' = None => LoneInstallTakesEffect'
      BY DEF LoneInstallTakesEffect
    <3>8. QED
      BY <3>3, <3>4, <3>5, <3>6, <3>7 DEF Alone
  <2>6. CASE Stop
    <3>1. Installers' = {}
      BY <2>6 DEF Stop, Installers, Free
    <3>2. QED
      BY <2>2, <2>6, <3>1 DEF Stop
  <2>7. CASE Start
    <3>1. Installers' = Installers /\ \A h \in alone : h \in Installers' => Progress(job[h])'
      BY <2>7 DEF Start, Installers, Alone, Progress, Has
    <3>2. LoneInstallTakesEffect'
      BY <2>7 DEF Start, Alone, LoneInstallTakesEffect, Files
    <3>3. QED
      BY <2>7, <3>1, <3>2 DEF Start, Alone
  <2>8. CASE UNCHANGED vars
    BY <2>2, <2>8 DEF vars, Installers
  <2>9. QED
    BY <2>1, <2>3, <2>4, <2>5, <2>6, <2>7, <2>8 DEF Next
<1>3. QED
  BY <1>1, <1>2, TypesInvariant, PTL DEF Spec

(* An installer that ran beside no other and reached its end has installed *)
(* its own pair under its own name, whatever those before it left behind,  *)
(* and that pair is in use or a restart is announced.                      *)
THEOREM LoneInstall == Spec => []LoneInstallTakesEffect
<1>1. Alone => LoneInstallTakesEffect
  BY DEF Alone
<1>2. QED
  BY <1>1, AloneInvariant, PTL

(* bootstrap and serve refuse a missing file or a torn pair.  From the end *)
(* of an installer that was alone until the next one begins, the process   *)
(* can start again, whatever is switched, fails or ends meanwhile.         *)
THEOREM LoneInstallStarts == Spec => [](whole # None => Startable)
<1>1. TypeOK /\ LoneInstallTakesEffect => (whole # None => Startable)
  BY CertificatesAssumption
  DEF TypeOK, LoneInstallTakesEffect, Startable, Exists, Files
<1>2. QED
  BY <1>1, CertificateTypes, LoneInstall, PTL
=============================================================================
