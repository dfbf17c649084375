---------------------------- MODULE Certificates ----------------------------
(***************************************************************************)
(* The certificate files and the handlers that replace them: the upload of *)
(* a pair (on the event loop), the creation of a self-signed pair by       *)
(* openssl and the installation of a Let's Encrypt certificate (in         *)
(* threads), and the switch of the SSL listener.  A step ends where the    *)
(* code writes, renames or removes a file, or commits a settings row.  The *)
(* process may die between two steps and loads the pair when it starts.    *)
(***************************************************************************)
EXTENDS Naturals, FiniteSets

CONSTANTS
    Handlers,  \* handlers that may run together
    MaxPairs,  \* bound on the key/certificate pairs that are made
    None       \* no file

Pairs == 1..MaxPairs
Files == {"key", "cert"}
Kinds == {"upload", "selfSigned", "letsEncrypt", "toggle"}
Sources == {"uploaded", "self_signed", "letsencrypt"}

ASSUME CertificatesAssumption == MaxPairs \in Nat \ {0} /\ None \notin Pairs

VARIABLES
    ssl,       \* ssl_enabled
    live,      \* live[f]: the pair that server.key, server.crt belongs to
    tmp,       \* the same of server.key.tmp, server.crt.tmp (_write_atomic)
    new,       \* the same of server.key.new, server.crt.new (openssl)
    source,    \* server.source
    required,  \* a restart is announced
    up,        \* the process runs
    loaded,    \* the pair on disk when it started
    made,      \* pairs made so far
    job,       \* job[h]: the handler's next step, its kind, its pair
    alone,     \* installers that no other one ran beside
    whole      \* what the last installer installed, if it ended and was alone

vars == <<ssl, live, tmp, new, source, required, up, loaded, made, job, alone, whole>>

Steps == {"idle", "keyTmp", "key", "certTmp", "cert", "uploaded", "letsencrypt", "look",
          "unlinkKey", "unlinkCert", "clean", "generate", "newKey", "newCert", "self_signed",
          "mark", "check", "enable", "disable", "restart"}

OnDisk == [Files -> Pairs \cup {None}]

TypeOK ==
    /\ ssl \in BOOLEAN /\ required \in BOOLEAN /\ up \in BOOLEAN
    /\ live \in OnDisk /\ tmp \in OnDisk /\ new \in OnDisk
    /\ source \in Sources \cup {None}
    /\ loaded \in Pairs \cup {None}
    /\ whole \in {None} \cup [pair: Pairs, source: Sources]
    /\ made \in 0..MaxPairs
    /\ job \in [Handlers -> [pc: Steps, kind: Kinds, pair: Pairs \cup {None}]]
    /\ alone \subseteq Handlers

Free == [pc |-> "idle", kind |-> "toggle", pair |-> None]
NoFiles == [f \in Files |-> None]

Init ==
    /\ ssl = FALSE /\ required = FALSE /\ up = TRUE
    /\ live = NoFiles /\ tmp = NoFiles /\ new = NoFiles
    /\ source = None /\ loaded = None /\ whole = None
    /\ made = 0
    /\ job = [h \in Handlers |-> Free]
    /\ alone = {}

At(h, pc) == up /\ job[h].pc = pc
To(h, pc) == job' = [job EXCEPT ![h].pc = pc]
End(h) == job' = [job EXCEPT ![h] = Free]
Exists == \A f \in Files : live[f] # None

Installers == {h \in Handlers : job[h].pc # "idle" /\ job[h].kind # "toggle"}
-----------------------------------------------------------------------------
(* The requests *)

(* An upload runs on the event loop from its validation to its answer: no  *)
(* other upload comes between.                                             *)
Begin(h, kind, pc) ==
    /\ up /\ job[h].pc = "idle"
    /\ kind = "upload" => \A k \in Handlers : job[k].pc = "idle" \/ job[k].kind # "upload"
    /\ made < MaxPairs          \* bound
    /\ made' = made + 1
    /\ job' = [job EXCEPT ![h] = [pc |-> pc, kind |-> kind, pair |-> made + 1]]
    /\ alone' = IF Installers = {} THEN {h} ELSE {}
    /\ whole' = None
    /\ UNCHANGED <<ssl, live, tmp, new, source, required, up, loaded>>

(* install_uploaded_cert once the pair is found to match and to be         *)
(* current; it also installs what the ACME server issued.                  *)
Upload(h) == Begin(h, "upload", "keyTmp")
LetsEncrypt(h) == Begin(h, "letsEncrypt", "keyTmp")
SelfSigned(h) == Begin(h, "selfSigned", "look")

Toggle(h, pc) ==
    /\ up /\ job[h].pc = "idle"
    /\ pc = "disable" => ssl
    /\ job' = [job EXCEPT ![h] = [pc |-> pc, kind |-> "toggle", pair |-> None]]
    /\ UNCHANGED <<ssl, live, tmp, new, source, required, up, loaded, made, alone, whole>>
-----------------------------------------------------------------------------
(* install_uploaded_cert and install_letsencrypt_cert *)

(* _write_atomic: the temporary file has a fixed name.                     *)
WriteTmp(h, f) ==
    /\ At(h, IF f = "key" THEN "keyTmp" ELSE "certTmp")
    /\ tmp' = [tmp EXCEPT ![f] = job[h].pair]
    /\ To(h, f)
    /\ UNCHANGED <<ssl, live, new, source, required, up, loaded, made, alone, whole>>

ReplaceCertOnly(h, f) ==     \* fault: the key is not moved into place
    /\ At(h, f)
    /\ live' = IF f = "key" THEN live ELSE [live EXCEPT ![f] = tmp[f]]
    /\ To(h, IF f = "key" THEN "certTmp" ELSE "uploaded")
    /\ UNCHANGED <<ssl, tmp, new, source, required, up, loaded, made, alone, whole>>

(* os.replace moves whatever has that name, and fails if nothing has.      *)
Replace(h, f) ==
    /\ At(h, f)
    /\ tmp[f] # None
    /\ live' = [live EXCEPT ![f] = tmp[f]]
    /\ tmp' = [tmp EXCEPT ![f] = None]
    /\ To(h, IF f = "key" THEN "certTmp" ELSE "uploaded")
    /\ UNCHANGED <<ssl, new, source, required, up, loaded, made, alone, whole>>

WriteKind(h, s) ==     \* fault: the file names the handler, not the source
    /\ At(h, s)
    /\ source' = job[h].kind
    /\ To(h, IF s = "uploaded" /\ job[h].kind = "letsEncrypt" THEN "letsencrypt" ELSE "mark")
    /\ UNCHANGED <<ssl, live, tmp, new, required, up, loaded, made, alone, whole>>

(* _write_source *)
WriteSource(h, s) ==
    /\ At(h, s)
    /\ source' = s
    /\ To(h, IF s = "uploaded" /\ job[h].kind = "letsEncrypt" THEN "letsencrypt" ELSE "mark")
    /\ UNCHANGED <<ssl, live, tmp, new, required, up, loaded, made, alone, whole>>
-----------------------------------------------------------------------------
(* settings_regenerate_ssl *)

(* An installed pair is removed before the new one exists. *)
Look(h) ==
    /\ At(h, "look")
    /\ To(h, IF Exists THEN "unlinkKey" ELSE "clean")
    /\ UNCHANGED <<ssl, live, tmp, new, source, required, up, loaded, made, alone, whole>>

Unlink(h, f) ==
    /\ At(h, IF f = "key" THEN "unlinkKey" ELSE "unlinkCert")
    /\ live' = [live EXCEPT ![f] = None]
    /\ To(h, IF f = "key" THEN "unlinkCert" ELSE "clean")
    /\ UNCHANGED <<ssl, tmp, new, source, required, up, loaded, made, alone, whole>>

RemoveStale(h) ==
    /\ At(h, "clean")
    /\ new' = NoFiles
    /\ To(h, "generate")
    /\ UNCHANGED <<ssl, live, tmp, source, required, up, loaded, made, alone, whole>>

(* openssl is a process of its own; when it fails its files are removed.   *)
Generate(h) ==
    /\ At(h, "generate")
    /\ \/ new' = [f \in Files |-> job[h].pair] /\ To(h, "newKey")
       \/ new' = NoFiles /\ End(h)
    /\ UNCHANGED <<ssl, live, tmp, source, required, up, loaded, made, alone, whole>>

ReplaceNew(h, f) ==
    /\ At(h, IF f = "key" THEN "newKey" ELSE "newCert")
    /\ new[f] # None
    /\ live' = [live EXCEPT ![f] = new[f]]
    /\ new' = [new EXCEPT ![f] = None]
    /\ To(h, IF f = "key" THEN "newCert" ELSE "self_signed")
    /\ UNCHANGED <<ssl, tmp, source, required, up, loaded, made, alone, whole>>
-----------------------------------------------------------------------------
SourceOf == [upload |-> "uploaded", selfSigned |-> "self_signed", letsEncrypt |-> "letsencrypt"]
Installed(h) == IF h \in alone THEN [pair |-> job[h].pair, source |-> SourceOf[job[h].kind]]
                ELSE None

(* mark_restart_required, or the pending restart of a renewal. *)
Mark(h) ==
    /\ At(h, "mark")
    /\ required' = TRUE
    /\ whole' = Installed(h)
    /\ End(h)
    /\ UNCHANGED <<ssl, live, tmp, new, source, up, loaded, made, alone>>

(* settings_update_ssl looks for the files, and then writes the setting.   *)
Check(h) ==
    /\ At(h, "check")
    /\ IF Exists THEN To(h, "enable") ELSE End(h)
    /\ UNCHANGED <<ssl, live, tmp, new, source, required, up, loaded, made, alone, whole>>

Switch(h, on) ==
    /\ At(h, IF on THEN "enable" ELSE "disable")
    /\ ssl' = on
    /\ IF ssl # on THEN To(h, "restart") ELSE End(h)
    /\ UNCHANGED <<live, tmp, new, source, required, up, loaded, made, alone, whole>>

Announce(h) ==
    /\ At(h, "restart")
    /\ required' = TRUE
    /\ End(h)
    /\ UNCHANGED <<ssl, live, tmp, new, source, up, loaded, made, alone, whole>>

(* A file cannot be written or is no longer there. *)
Fail(h) ==
    /\ up /\ job[h].pc \in {"keyTmp", "key", "certTmp", "cert", "uploaded", "letsencrypt", "newKey",
                            "newCert", "self_signed", "mark"}
    /\ End(h)
    /\ UNCHANGED <<ssl, live, tmp, new, source, required, up, loaded, made, alone, whole>>
-----------------------------------------------------------------------------
(* The process *)

Stop ==
    /\ up
    /\ up' = FALSE
    /\ job' = [h \in Handlers |-> Free]
    /\ UNCHANGED <<ssl, live, tmp, new, source, required, loaded, made, alone, whole>>

(* bootstrap wants both files; uvicorn does not load a certificate with    *)
(* another key.                                                            *)
Startable == ssl => Exists /\ live["key"] = live["cert"]

(* serve, and the start of the application clears restart_required. *)
Start ==
    /\ ~up /\ Startable
    /\ up' = TRUE
    /\ required' = FALSE
    /\ loaded' = live["cert"]
    /\ UNCHANGED <<ssl, live, tmp, new, source, made, job, alone, whole>>
-----------------------------------------------------------------------------
Handle(h) ==
    \/ \E f \in Files : WriteTmp(h, f) \/ Replace(h, f) \/ Unlink(h, f) \/ ReplaceNew(h, f)
    \/ \E s \in Sources : WriteSource(h, s)
    \/ Look(h) \/ RemoveStale(h) \/ Generate(h) \/ Mark(h)
    \/ Check(h) \/ \E on \in BOOLEAN : Switch(h, on)
    \/ Announce(h) \/ Fail(h)

Next ==
    \/ \E h \in Handlers :
        \/ Upload(h) \/ LetsEncrypt(h) \/ SelfSigned(h)
        \/ Toggle(h, "check") \/ Toggle(h, "disable")
        \/ Handle(h)
    \/ Stop \/ Start

Spec == Init /\ [][Next]_vars
-----------------------------------------------------------------------------
(* Properties *)

(* An installer that ran beside no other and reached its end has installed *)
(* its own key with its own certificate under its own name, whatever those *)
(* that died, failed or overlapped before it have left behind; and its     *)
(* certificate is the one the process started with, or a restart is        *)
(* announced until the process stops.                                      *)
LoneInstallTakesEffect ==
    whole # None =>
        /\ source = whole.source /\ \A f \in Files : live[f] = whole.pair
        /\ up /\ whole.pair # loaded => required

(* Not an invariant: install_uploaded_cert is said to install a pair       *)
(* atomically, but it renames the two files one by one.                    *)
PairMatches == Exists => live["key"] = live["cert"]
==============================================================================
