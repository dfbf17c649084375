----------------------------- MODULE DnsMutation -----------------------------
(***************************************************************************)
(* POST / PUT / PATCH / DELETE of /dns-record: authorisation against the   *)
(* rows of AccessControl, the pre-check read from the provider, the        *)
(* plugin's own read, and the write.  Requests run in threads of the pool  *)
(* and interleave with each other and with the administrators between any  *)
(* two of those steps.  One RRset (one type at one name of the domain of   *)
(* zone Target) is enough: RRsets never interact.  The write is one atomic *)
(* call, as it is for BIND (one DNS UPDATE) and Azure (one PUT).           *)
(***************************************************************************)
EXTENDS AccessControl

CONSTANTS
    Requests,      \* requests in flight together
    Target,        \* the zone name they are about
    Data, Ttls,    \* the value lists and TTLs a record may have
    Omit,          \* a field PATCH leaves out; also: no RRset
    SilentLookup   \* TRUE for BIND: a failed lookup looks like "no record"

RRset == [ttl: Ttls, values: Data]
Modes == {"create", "replace", "patch", "delete"}

ASSUME MutationAssumption ==
    /\ Target \in ZoneNames
    /\ SilentLookup \in BOOLEAN
    /\ Omit \notin Ttls \cup Data

VARIABLES
    rrset,  \* the provider's RRset, or Omit
    req,    \* req[r]: the request and what its handler has read
    past    \* past[r]: what was true while r ran (observed, never read)

vars == <<accessVars, rrset, req, past>>
rqVars == <<rrset, req>>

(* What the client sends, after the body model has validated it: a PATCH   *)
(* names at least one field.                                               *)
Ask ==
    [mode: {"create", "replace"}, key: Keys, ttl: Ttls, values: Data]
        \cup {q \in [mode: {"patch"}, key: Keys, ttl: {Omit} \cup Ttls,
                     values: {Omit} \cup Data] : q.ttl # Omit \/ q.values # Omit}
        \cup [mode: {"delete"}, key: Keys, ttl: {Omit}, values: {Omit}]

(* http_exception_from_dns_error: what an exception of the provider, or a  *)
(* refusal of the request itself, becomes.                                 *)
Failures == {400, 500, 502}

(* rw: access_mode of the key row when it was loaded.  zone: the row found *)
(* by name, with its id.  new: what will be written.                       *)
Stages == {"key", "zone", "link", "plugin", "check", "inner", "write"}
Found == [id: ZoneIds, provider: Providers]
Request ==
    [pc: {"none"}]
        \cup [pc: Stages, ask: Ask, rw: BOOLEAN, zone: {NoRow} \cup Found,
              new: {Omit} \cup RRset]
        \cup [pc: {"done"}, ask: Ask, wrote: BOOLEAN,
              status: {200, 401, 403, 404, 409, 503} \cup Failures]

Facts == {"absent", "present", "key", "link"}

TypeOK ==
    /\ AccessTypeOK
    /\ rrset \in {Omit} \cup RRset
    /\ req \in [Requests -> Request]
    /\ past \in [Requests -> SUBSET Facts]

Init ==
    /\ AccessInit
    /\ rrset \in {Omit} \cup RRset
    /\ req = [r \in Requests |-> [pc |-> "none"]]
    /\ past = [r \in Requests |-> {}]

Learn(r, pc, rw, zone, new) ==
    req' = [req EXCEPT ![r] = [pc |-> pc, ask |-> @.ask, rw |-> rw,
                               zone |-> zone, new |-> new]]
Go(r, pc) == Learn(r, pc, req[r].rw, req[r].zone, req[r].new)
Answer(r, status) ==
    req' = [req EXCEPT ![r] = [pc |-> "done", ask |-> @.ask, wrote |-> FALSE,
                               status |-> status]]
-----------------------------------------------------------------------------
Arrive(r, q) ==
    /\ req[r].pc = "none"
    /\ req' = [req EXCEPT ![r] = [pc |-> "key", ask |-> q, rw |-> FALSE,
                                  zone |-> NoRow, new |-> Omit]]
    /\ UNCHANGED <<accessVars, rrset>>

(* get_api_key: the row with this hash, if active. *)
LoadKey(r) ==
    LET row == keys[req[r].ask.key] IN
    /\ req[r].pc = "key"
    /\ \/ /\ row = NoRow \/ ~row.active
          /\ Answer(r, 401)
       \/ /\ row # NoRow /\ row.active
          /\ Learn(r, "zone", row.rw, NoRow, Omit)
    /\ UNCHANGED <<accessVars, rrset>>

Named == {i \in LiveIds : zones[i].name = Target}

LoadZone(r) ==
    /\ req[r].pc = "zone"
    /\ \/ /\ Named = {}
          /\ Answer(r, 403)
       \/ \E i \in Named :
             Learn(r, "link", req[r].rw,
                   [id |-> i, provider |-> zones[i].provider], Omit)
    /\ UNCHANGED <<accessVars, rrset>>

(* The link is looked up by row id; a zone row without what its provider   *)
(* needs is refused (400); then access_mode counts, as it was loaded.      *)
Linked(r) == <<req[r].ask.key, req[r].zone.id>> \in links

CheckLinkOnly(r) ==     \* fault: access_mode is forgotten
    /\ req[r].pc = "link"
    /\ IF Linked(r) THEN Go(r, "plugin") ELSE Answer(r, 403)
    /\ UNCHANGED <<accessVars, rrset>>

CheckLink(r) ==
    /\ req[r].pc = "link"
    /\ \/ Linked(r) /\ req[r].rw /\ Go(r, "plugin")
       \/ ~(Linked(r) /\ req[r].rw) /\ Answer(r, 403)
       \/ Linked(r) /\ Answer(r, 400)
    /\ UNCHANGED <<accessVars, rrset>>

(* The provider of the row as it was loaded must not be disabled (503).    *)
(* The client may not be created (503 too, without its library), and       *)
(* prepare_mutation may refuse the request.                                *)
CheckPlugin(r) ==
    /\ req[r].pc = "plugin"
    /\ \/ /\ req[r].zone.provider \in disabled
          /\ Answer(r, 503)
       \/ /\ req[r].zone.provider \notin disabled
          /\ Go(r, "check") \/ \E f \in Failures \cup {503} : Answer(r, f)
    /\ UNCHANGED <<accessVars, rrset>>

LookupMayMiss == {rrset, Omit}     \* fault: every provider is silent

(* What a lookup at the provider may return. *)
Lookup == {rrset} \cup (IF SilentLookup THEN {Omit} ELSE {})

MergeDefaultTtl(q, seen) ==     \* fault: an omitted TTL becomes the default
    [ttl |-> IF q.ttl = Omit THEN 300 ELSE q.ttl,
     values |-> IF q.values = Omit THEN seen.values ELSE q.values]

(* merge_patch: omitted fields come from the record that was read. *)
Merge(q, seen) ==
    [ttl |-> IF q.ttl = Omit THEN seen.ttl ELSE q.ttl,
     values |-> IF q.values = Omit THEN seen.values ELSE q.values]

WantedAsSent(q, seen) == IF q.mode = "delete" THEN Omit      \* fault: no merge
                         ELSE [ttl |-> q.ttl, values |-> q.values]

Wanted(q, seen) == IF q.mode = "delete" THEN Omit
                   ELSE IF q.mode = "patch" THEN Merge(q, seen)
                   ELSE [ttl |-> q.ttl, values |-> q.values]

PreCheckNoConflict(r) ==     \* fault: a create overwrites
    LET q == req[r].ask IN
    /\ req[r].pc = "check"
    /\ \E seen \in Lookup :
          IF q.mode # "create" /\ seen = Omit
          THEN Answer(r, 404)
          ELSE Learn(r, "inner", req[r].rw, req[r].zone, Wanted(q, seen))
    /\ UNCHANGED <<accessVars, rrset>>

(* record_exists_at_type, or the read of apply_patch_mutation.  Providers  *)
(* other than BIND report a failed lookup: the request ends with an error. *)
PreCheck(r) ==
    LET q == req[r].ask IN
    /\ req[r].pc = "check"
    /\ \/ \E seen \in Lookup :
            \/ /\ q.mode = "create" /\ seen # Omit
               /\ Answer(r, 409)
            \/ /\ q.mode # "create" /\ seen = Omit
               /\ Answer(r, 404)
            \/ /\ (q.mode = "create") = (seen = Omit)
               /\ Learn(r, "inner", req[r].rw, req[r].zone, Wanted(q, seen))
       \/ /\ ~SilentLookup
          /\ \E f \in Failures : Answer(r, f)
    /\ UNCHANGED <<accessVars, rrset>>

InnerReadRetries(r) ==     \* fault: a failed read starts the handler again
    /\ req[r].pc = "inner"
    /\ \/ Go(r, "write")
       \/ ~SilentLookup /\ Go(r, "check")
    /\ UNCHANGED <<accessVars, rrset>>

(* The plugin asks again.  Its answer matters for DELETE only, which stops *)
(* without an update when it sees no record; the route answers 200.        *)
InnerRead(r) ==
    /\ req[r].pc = "inner"
    /\ \/ \E seen \in Lookup :
            IF req[r].ask.mode = "delete" /\ seen = Omit
            THEN Answer(r, 200)
            ELSE Go(r, "write")
       \/ /\ ~SilentLookup
          /\ \E f \in Failures : Answer(r, f)
    /\ UNCHANGED <<accessVars, rrset>>

WriteUnconfirmed(r) ==     \* fault: the provider's answer is not checked
    /\ req[r].pc = "write"
    /\ \E applied \in BOOLEAN :
          /\ rrset' = IF applied THEN req[r].new ELSE rrset
          /\ req' = [req EXCEPT ![r] = [pc |-> "done", ask |-> @.ask,
                                        wrote |-> applied, status |-> 200]]
    /\ UNCHANGED accessVars

(* The update is applied and acknowledged, applied with the answer lost,   *)
(* or fails.                                                               *)
Write(r) ==
    /\ req[r].pc = "write"
    /\ \E applied \in BOOLEAN, status \in {200} \cup Failures :
          /\ status = 200 => applied
          /\ rrset' = IF applied THEN req[r].new ELSE rrset
          /\ req' = [req EXCEPT ![r] = [pc |-> "done", ask |-> @.ask,
                                        wrote |-> applied, status |-> status]]
    /\ UNCHANGED accessVars

RequestStep(r) ==
    \/ LoadKey(r) \/ LoadZone(r) \/ CheckLink(r) \/ CheckPlugin(r)
    \/ PreCheck(r) \/ InnerRead(r) \/ Write(r)

(* What holds of the rows and the record in one state, for request r; the  *)
(* link is to the row id the request found.                                *)
FactsOf(r) ==
    LET k == req[r].ask.key
        mayWrite == keys[k] # NoRow /\ keys[k].active /\ keys[k].rw
    IN  {f \in Facts :
           \/ f = "absent" /\ rrset = Omit
           \/ f = "present" /\ rrset # Omit
           \/ f = "key" /\ mayWrite
           \/ f = "link" /\ req[r].pc = "link" /\ <<k, req[r].zone.id>> \in links}

(* Every step is observed by the requests that run during it. *)
Observe ==
    past' = [r \in Requests |->
               IF req'[r].pc = "none" \/ req[r].pc = "done"
               THEN past[r] ELSE past[r] \cup FactsOf(r)']

Act ==
    \/ AdminStep /\ UNCHANGED rqVars
    \/ \E r \in Requests : (\E q \in Ask : Arrive(r, q)) \/ RequestStep(r)

Next == Act /\ Observe

(* Threads of the pool are scheduled, and every provider call has a time   *)
(* limit: a request that has begun takes its next step.                    *)
Fairness == \A r \in Requests : WF_rqVars(RequestStep(r))

Spec == Init /\ [][Next]_vars /\ Fairness
-----------------------------------------------------------------------------
Answered(r, mode, status) ==
    /\ req[r].pc = "done"
    /\ req[r].ask.mode = mode
    /\ req[r].status = status

(* README: POST "Returns 409 record_already_exists if a record of that     *)
(* type already exists".  A create that succeeds saw the name free at some *)
(* moment of its own life.                                                 *)
CreatedOnlyIfAbsent ==
    \A r \in Requests : Answered(r, "create", 200) => "absent" \in past[r]

(* 409 is not given for a record that was never there while the request    *)
(* ran, nor 404 ("if the type does not exist") for one that was always     *)
(* there.                                                                  *)
RefusalsAreJustified ==
    \A r \in Requests :
        /\ Answered(r, "create", 409) => "present" \in past[r]
        /\ \A m \in Modes : Answered(r, m, 404) => "absent" \in past[r]

(* A DELETE answered 200 "deleted": there was a moment without the record. *)
DeletedMeansGone ==
    \A r \in Requests : Answered(r, "delete", 200) => "absent" \in past[r]

(* The zone is changed only by a request whose key was, at some moment of  *)
(* the request, active and read_write, and at some moment linked to the    *)
(* zone row the request found; and no refused request changed anything.    *)
WritesWereAllowed ==
    \A r \in Requests :
        req[r].pc = "done" /\ req[r].wrote =>
            /\ {"key", "link"} \subseteq past[r]
            /\ req[r].status \in {200} \cup Failures

(* README: PATCH, "omitted fields are preserved from the live record".  A  *)
(* PATCH that replaces a record leaves the fields it omits as they are.    *)
(* One request at a time keeps this; with two, the merge is stale.         *)
OmittedFieldsPreserved ==
    [][\A r \in Requests :
         (req[r].pc = "write" /\ req[r].ask.mode = "patch" /\ req'[r].pc = "done"
            /\ req'[r].wrote /\ rrset # Omit)
         => /\ req[r].ask.ttl = Omit => rrset'.ttl = rrset.ttl
            /\ req[r].ask.values = Omit => rrset'.values = rrset.values]_vars

(* Every request that arrived is answered. *)
EveryRequestAnswered ==
    \A r \in Requests : (req[r].pc = "key") ~> (req[r].pc = "done")
=============================================================================
