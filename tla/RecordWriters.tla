---------------------------- MODULE RecordWriters ----------------------------
(***************************************************************************)
(* What the plugins do at the provider for one RRset, call by call.  BIND  *)
(* and Azure replace it in one call.  Cloudflare has one row per value:    *)
(* the plugin lists the rows and deletes, updates and creates them one by  *)
(* one.  Microsoft DNS runs a script on the server that removes what is    *)
(* there and adds the values one by one, and runs it again when it fails.  *)
(* A call may be refused, or take effect and lose its answer: the step is  *)
(* taken and Fault follows it.  Several requests write the same RRset.     *)
(* Zone transfers of the BIND plugin take one of a few slots.              *)
(***************************************************************************)
EXTENDS Naturals, FiniteSets

CONSTANTS
    Writers,      \* requests that may write together
    Browsers,     \* requests that list a zone together
    Values, Ttls,
    Ids,          \* ids of Cloudflare rows; an id nobody holds may come again
    MaxWrites,    \* bound on the writes ever begun
    MaxAttempts,  \* _WINRM_MAX_ATTEMPTS
    Slots,        \* _AXFR_MAX_CONCURRENT
    None          \* nothing asked; the TTL of a DELETE

Providers == {"bind", "azure", "cloudflare", "microsoft"}
Rows == [id: Ids, val: Values, ttl: Ttls]
Listed == [id: Ids, val: Values]
Asks == [op: {"set"}, vals: (SUBSET Values) \ {{}}, ttl: Ttls]
            \cup [op: {"delete"}, vals: {{}}, ttl: {None}]

ASSUME WritersAssumption ==
    /\ MaxAttempts \in Nat \ {0} /\ Slots \in Nat /\ MaxWrites \in Nat
    /\ None \notin Asks
    /\ IsFiniteSet(Values)
    /\ \E f \in [Values -> Ids] : \A u, v \in Values : u # v => f[u] # f[v]

VARIABLES
    provider,  \* the provider of the zone
    cname,     \* the RRset is a CNAME: one value; other types may have several
    rows,      \* the rows of the RRset at the provider
    job,       \* job[w]: where writer w is, what it was asked, the rows it has
               \* still to delete, the rows it keeps and the values it has to write
    begun,     \* writes begun, up to MaxWrites
    asked,     \* what was asked since the RRset was last at rest, {} once a writer failed
    slots,     \* free transfer slots
    browse     \* browse[b]: "idle" or "streaming"

vars == <<provider, cname, rows, job, begun, asked, slots, browse>>
zone == <<provider, cname, begun, slots, browse>>

(* Every transfer slot is free or held by a transfer that runs. *)
TypeOK ==
    /\ provider \in Providers /\ cname \in BOOLEAN
    /\ rows \subseteq Rows
    /\ \A r, s \in rows : r # s => r.id # s.id /\ r.val # s.val
    /\ cname => Cardinality(rows) <= 1
    /\ job \in [Writers -> [pc: {"idle", "list", "put", "script", "sync"}, ask: {None} \cup Asks,
                            stale: SUBSET Listed, kept: SUBSET Listed, left: SUBSET Values,
                            tries: 0..MaxAttempts - 1]]
    /\ begun \in 0..MaxWrites
    /\ asked \subseteq Asks
    /\ browse \in [Browsers -> {"idle", "streaming"}]
    /\ slots \in Nat /\ slots + Cardinality({b \in Browsers : browse[b] = "streaming"}) = Slots

Free == [pc |-> "idle", ask |-> None, stale |-> {}, kept |-> {}, left |-> {}, tries |-> 0]

AsRows(vals, ttl) ==
    LET f == CHOOSE g \in [vals -> Ids] : \A u, v \in vals : u # v => g[u] # g[v]
    IN {[id |-> f[v], val |-> v, ttl |-> ttl] : v \in vals}

Init ==
    /\ provider \in Providers /\ cname \in BOOLEAN
    /\ \E vals \in SUBSET Values : \E ttls \in [vals -> Ttls] :
        /\ cname => Cardinality(vals) <= 1
        /\ rows = {[row EXCEPT !.ttl = ttls[row.val]] : row \in AsRows(vals, None)}
    /\ job = [w \in Writers |-> Free]
    /\ begun = 0 /\ asked = {}
    /\ slots = Slots
    /\ browse = [b \in Browsers |-> "idle"]

At(w, pc) == job[w].pc = pc
Running == {w \in Writers : ~At(w, "idle")}

(* The request ends with success, or with an error. *)
Succeed(w) == job' = [job EXCEPT ![w] = Free] /\ UNCHANGED asked
Refuse(w) == job' = [job EXCEPT ![w] = Free] /\ asked' = {}

(* A CNAME of Cloudflare is overwritten; otherwise stale rows go first.    *)
Overwrites(w) == provider = "cloudflare" /\ cname /\ job[w].ask.op = "set"
-----------------------------------------------------------------------------
(* create_or_update_record, up to its first call *)
Begin(w, ask) ==
    /\ At(w, "idle") /\ begun < MaxWrites
    /\ begun' = begun + 1
    /\ cname => Cardinality(ask.vals) <= 1
    /\ job' = [job EXCEPT ![w] = [Free EXCEPT !.pc = "list", !.ask = ask, !.left = ask.vals]]
    /\ asked' = IF Running = {} THEN {ask} ELSE IF asked = {} THEN {} ELSE asked \cup {ask}
    /\ UNCHANGED <<provider, cname, rows, slots, browse>>

Bare(some) == {[id |-> row.id, val |-> row.val] : row \in some}

KeptNone(w) == {}     \* fault: every row is deleted and made again

(* The listed rows Cloudflare updates in place; the others are stale. *)
Kept(w) ==
    Bare(IF Overwrites(w) THEN rows ELSE {row \in rows : row.val \in job[w].ask.vals})

(* The first call reads.  A DELETE that finds nothing ends there.          *)
List(w) ==
    /\ At(w, "list")
    /\ IF job[w].ask.op = "delete" /\ rows = {} THEN Succeed(w)
       ELSE /\ job' = CASE provider = "cloudflare" ->
                            [job EXCEPT ![w].pc = "sync", ![w].kept = Kept(w),
                                        ![w].stale = Bare(rows) \ Kept(w)]
                        [] provider = "microsoft" -> [job EXCEPT ![w].pc = "script"]
                        [] OTHER -> [job EXCEPT ![w].pc = "put"]
            /\ UNCHANGED asked
    /\ UNCHANGED <<zone, rows>>

(* BIND sends one DNS UPDATE (replace or delete), Azure one PUT or DELETE. *)
Put(w) ==
    /\ At(w, "put")
    /\ rows' = AsRows(job[w].ask.vals, job[w].ask.ttl)
    /\ job' = [job EXCEPT ![w].pc = "sync", ![w].left = {}]
    /\ UNCHANGED <<zone, asked>>

ScriptAddsOnly(w) ==     \* fault: a run after the first does not remove again
    /\ At(w, "script")
    /\ job' = [job EXCEPT ![w].pc = "sync", ![w].left = job[w].ask.vals,
                          ![w].stale = IF job[w].tries = 0 THEN Bare(rows) ELSE {}]
    /\ UNCHANGED <<zone, rows, asked>>

(* A run of the PowerShell script: it gets the rows first. *)
Script(w) ==
    /\ At(w, "script")
    /\ job' = [job EXCEPT ![w].pc = "sync", ![w].stale = Bare(rows), ![w].left = job[w].ask.vals]
    /\ UNCHANGED <<zone, rows, asked>>
-----------------------------------------------------------------------------
Same(row, other) ==
    IF provider = "microsoft" THEN row.val = other.val ELSE row.id = other.id

(* _delete_record, or one row of the pipe into Remove-DnsServerResourceRecord; *)
(* a row that is gone is an error (Fault).                                 *)
Remove(w) ==
    /\ At(w, "sync")
    /\ Overwrites(w) => job[w].left = {}
    /\ \E row \in job[w].stale :
        /\ \E r \in rows : Same(r, row)
        /\ rows' = {r \in rows : ~Same(r, row)}
        /\ job' = [job EXCEPT ![w].stale = @ \ {row}]
    /\ UNCHANGED <<zone, asked>>

(* _update_record: a PUT of value and TTL over a row that is there *)
Update(w) ==
    /\ At(w, "sync")
    /\ job[w].stale = {} \/ Overwrites(w)
    /\ \E v \in job[w].left, row \in job[w].kept :
        /\ Overwrites(w) \/ row.val = v
        /\ \E r \in rows : Same(r, row)
        /\ rows' = {r \in rows : ~Same(r, row)} \cup {[id |-> row.id, val |-> v, ttl |-> job[w].ask.ttl]}
        /\ job' = [job EXCEPT ![w].left = @ \ {v}, ![w].kept = @ \ {row}]
    /\ UNCHANGED <<zone, asked>>

(* ids held by a row or by a writer that listed it *)
UsedIds == {row.id : row \in rows \cup UNION {job[w].stale \cup job[w].kept : w \in Writers}}

(* _create_record, or one Add-DnsServerResourceRecord.  The providers      *)
(* refuse a value that is there, and a second CNAME (Fault).               *)
Create(w) ==
    /\ At(w, "sync")
    /\ job[w].stale = {}
    /\ \E v \in job[w].left :
        /\ ~\E row \in job[w].kept : Overwrites(w) \/ row.val = v
        /\ ~\E row \in rows : cname \/ row.val = v
        /\ \E id \in Ids \ UsedIds :
            /\ \A other \in Ids \ UsedIds : id <= other
            /\ rows' = rows \cup {[id |-> id, val |-> v, ttl |-> job[w].ask.ttl]}
        /\ job' = [job EXCEPT ![w].left = @ \ {v}]
    /\ UNCHANGED <<zone, asked>>

(* the last answer *)
Finish(w) ==
    /\ At(w, "sync") /\ job[w].stale = {} /\ job[w].left = {}
    /\ Succeed(w)
    /\ UNCHANGED <<zone, rows>>

FaultForever(w) ==     \* fault: attempts are not counted
    /\ ~At(w, "idle")
    /\ \/ Refuse(w)
       \/ /\ provider = "microsoft" /\ At(w, "sync")
          /\ job' = [job EXCEPT ![w].pc = "script"]
          /\ UNCHANGED asked
    /\ UNCHANGED <<zone, rows>>

(* A call fails, or the answer to the one before is lost.  Only the script *)
(* is run again (_run_ps_with_retry), unless access was denied.            *)
Fault(w) ==
    /\ ~At(w, "idle")
    /\ \/ Refuse(w)
       \/ /\ provider = "microsoft" /\ At(w, "sync")
          /\ job[w].tries + 1 < MaxAttempts
          /\ job' = [job EXCEPT ![w].pc = "script", ![w].tries = @ + 1,
                                ![w].stale = {}, ![w].left = {}]
          /\ UNCHANGED asked
    /\ UNCHANGED <<zone, rows>>
-----------------------------------------------------------------------------
(* _iter_axfr_rrsets: no free slot is an error at once; the finally gives  *)
(* the slot back after the last RRset, an early stop or an error.          *)
Transfer(b) ==
    /\ provider = "bind" /\ browse[b] = "idle" /\ slots > 0
    /\ slots' = slots - 1
    /\ browse' = [browse EXCEPT ![b] = "streaming"]
    /\ UNCHANGED <<provider, cname, rows, job, begun, asked>>

TransferEndsLate(b) ==     \* fault: an early stop keeps the slot
    /\ browse[b] = "streaming"
    /\ slots' \in {slots, slots + 1}
    /\ browse' = [browse EXCEPT ![b] = "idle"]
    /\ UNCHANGED <<provider, cname, rows, job, begun, asked>>

TransferEnds(b) ==
    /\ browse[b] = "streaming"
    /\ slots' = slots + 1
    /\ browse' = [browse EXCEPT ![b] = "idle"]
    /\ UNCHANGED <<provider, cname, rows, job, begun, asked>>
-----------------------------------------------------------------------------
WriterStep(w) ==
    \/ List(w) \/ Put(w) \/ Script(w)
    \/ Remove(w) \/ Update(w) \/ Create(w)
    \/ Finish(w) \/ Fault(w)

Next ==
    \/ \E w \in Writers : WriterStep(w) \/ \E ask \in Asks : Begin(w, ask)
    \/ \E b \in Browsers : Transfer(b) \/ TransferEnds(b)

Spec == Init /\ [][Next]_vars

(* Every call has a timeout: a writer that has a step to take takes one.   *)
FairSpec == Spec /\ \A w \in Writers : WF_vars(WriterStep(w))
-----------------------------------------------------------------------------
Content == {<<row.val, row.ttl>> : row \in rows}
Wanted(ask) == ask.vals \X {ask.ttl}
AtRest == Running = {} /\ asked # {}

(* When every write since the RRset was last at rest asked for the same    *)
(* and succeeded, the RRset is exactly that: after a script that ran       *)
(* twice, over the leftovers of an earlier write that failed, with rows    *)
(* deleted, updated and created one by one.  When overlapping writes that  *)
(* asked for different things succeeded, what is left was asked by one of  *)
(* them, values with their TTL (nothing older survives), and the name is   *)
(* not empty unless one was a DELETE; with BIND and Azure it is what one   *)
(* of them asked for.                                                      *)
SettledAsAsked ==
    AtRest =>
        /\ \A ask \in asked : asked = {ask} => Content = Wanted(ask)
        /\ provider \in {"bind", "azure"} => \E ask \in asked : Content = Wanted(ask)
        /\ Content \subseteq UNION {Wanted(ask) : ask \in asked}
        /\ rows = {} => \E ask \in asked : ask.op = "delete"

(* A lone write by BIND, Azure or Cloudflare never takes away a value that *)
(* is there and is wanted, and never empties a name it sets a CNAME on:    *)
(* readers keep getting an answer (Microsoft DNS removes everything first).*)
KeptValuesStay ==
    [][\A w \in Writers :
        (Running = {w} /\ Running' = {w} /\ asked = {job[w].ask} /\ provider # "microsoft"
           /\ job[w].ask.op = "set") =>
            /\ {c[1] : c \in Content} \cap job[w].ask.vals \subseteq {c[1] : c \in Content'}
            /\ (cname /\ rows # {}) => rows' # {}]_vars

(* A write is answered: a script is not run for ever. *)
WritesEnd == \A w \in Writers : (~At(w, "idle")) ~> At(w, "idle")
==============================================================================
