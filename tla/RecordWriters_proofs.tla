------------------------ MODULE RecordWriters_proofs ------------------------
(***************************************************************************)
(* Proofs about RecordWriters for any number of writers, values, TTLs,     *)
(* row ids, attempts and transfers, at each of the four providers.         *)
(***************************************************************************)
EXTENDS RecordWriters, FiniteSetTheorems, TLAPS

One(s) == \A x, y \in s : x = y

(* The records of TypeOK, with the size of a set said by its elements.     *)
Job == [pc: {"idle", "list", "put", "script", "sync"}, ask: {None} \cup Asks,
        stale: SUBSET Listed, kept: SUBSET Listed, left: SUBSET Values,
        tries: 0..MaxAttempts - 1]

RowsApart(some) ==
    /\ some \subseteq Rows
    /\ \A r, s \in some : r # s => r.id # s.id /\ r.val # s.val

Shape ==
    /\ provider \in Providers /\ cname \in BOOLEAN
    /\ RowsApart(rows) /\ (cname => One(rows))
    /\ job \in [Writers -> Job]
    /\ begun \in 0..MaxWrites
    /\ asked \subseteq Asks

Streaming == {b \in Browsers : browse[b] = "streaming"}

SlotsCounted ==
    /\ browse \in [Browsers -> {"idle", "streaming"}]
    /\ IsFiniteSet(Streaming)
    /\ slots \in Nat /\ slots + Cardinality(Streaming) = Slots

(* Before the first call that writes, or before another run of the script. *)
Early == {"list", "put", "script"}

(* What a writer holds at each of its steps: stale rows go first, so as    *)
(* long as one is held nothing has been written; only Cloudflare updates   *)
(* rows in place, and only Cloudflare and the script remove row by row.    *)
HoldsItsStep(w) ==
    /\ At(w, "idle") => job[w].left = {}
    /\ ~At(w, "idle") => job[w].ask \in Asks /\ (cname => One(job[w].ask.vals))
    /\ At(w, "list") => job[w].left = job[w].ask.vals
    /\ At(w, "put") => provider \in {"bind", "azure"}
    /\ At(w, "script") => provider = "microsoft"
    /\ At(w, "sync") => job[w].left \subseteq job[w].ask.vals
    /\ At(w, "sync") /\ provider \in {"bind", "azure"} => job[w].left = {}
    /\ job[w].stale # {} => /\ job[w].left = job[w].ask.vals
                            /\ provider \in {"cloudflare", "microsoft"}
                            /\ ~Overwrites(w)
    /\ ~At(w, "sync") => job[w].stale = {} /\ job[w].kept = {}
    /\ provider # "cloudflare" => job[w].kept = {}

(* What a Cloudflare writer has listed is still so.  The id of a row that  *)
(* somebody has listed is not given to another row; the value of a row     *)
(* changes only where a CNAME is overwritten.                              *)
ListingStands(w) ==
    provider = "cloudflare" /\ At(w, "sync") /\ ~Overwrites(w) =>
        /\ \A row \in job[w].stale : row.val \notin job[w].ask.vals
        /\ \A row \in job[w].kept : row.val \in job[w].ask.vals
        /\ ~cname => \A row \in job[w].stale \cup job[w].kept, r \in rows :
                        r.id = row.id => r.val = row.val

Answerable == asked # {} => \A w \in Running : job[w].ask \in asked

(* A row that none of the writes asked for is one that every writer still  *)
(* at work is going to remove or to update; so it is gone when one ends.   *)
Unasked(r) == \A ask \in asked : <<r.val, r.ttl>> \notin Wanted(ask)

WillReplace(w, r) ==
    \/ job[w].pc \in Early
    \/ \E row \in job[w].stale : Same(r, row)
    \/ \E row \in job[w].kept :
          /\ r.id = row.id /\ job[w].left # {}
          /\ Overwrites(w) \/ r.val \in job[w].left

UnaskedLeave ==
    asked # {} => \A r \in rows : Unasked(r) =>
        Running # {} /\ \A w \in Running : WillReplace(w, r)

(* A value all writers want is there, or one of them is still to write it. *)
WillWrite(w, v) == job[w].pc \in Early \/ v \in job[w].left

WantedCome ==
    \A ask \in asked : asked = {ask} =>
        \A v \in ask.vals : (\E r \in rows : r.val = v) \/ \E w \in Writers : WillWrite(w, v)

(* The name is empty only on the way, unless a write was a DELETE. *)
NameReturns ==
    asked # {} /\ rows = {} =>
        \/ \E ask \in asked : ask.op = "delete"
        \/ \E w \in Writers : job[w].pc \in Early \/ job[w].left # {}

(* Where one call replaces the RRset, it is what a write since the last    *)
(* rest asked for as soon as one of them has made its call.                *)
OneCall ==
    provider \in {"bind", "azure"} /\ asked # {} =>
        \/ \E ask \in asked : Content = Wanted(ask)
        \/ Running # {} /\ \A w \in Running : job[w].pc \in Early

Held == \A w \in Writers : HoldsItsStep(w) /\ ListingStands(w)

WriteInv ==
    Shape /\ Held /\ Answerable /\ UnaskedLeave /\ WantedCome /\ NameReturns /\ OneCall
-----------------------------------------------------------------------------
(* A set of at most one element, by its size and by its elements. *)
LEMMA OneByCount ==
  ASSUME NEW s, IsFiniteSet(s)
  PROVE  Cardinality(s) <= 1 <=> One(s)
<1>1. CASE s = {}
  BY <1>1, FS_EmptySet DEF One
<1>2. ASSUME NEW x \in s PROVE Cardinality(s) <= 1 <=> One(s)
  <2>1. Cardinality({x}) = 1 /\ Cardinality(s) \in Nat
    BY FS_Singleton, FS_CardinalityType
  <2>2. /\ Cardinality({x}) <= Cardinality(s)
        /\ Cardinality(s) = Cardinality({x}) => s = {x}
    BY <1>2, FS_Subset
  <2>3. One(s) => s = {x}
    BY <1>2 DEF One
  <2>4. s = {x} => One(s)
    BY DEF One
  <2>5. QED
    BY <2>1, <2>2, <2>3, <2>4
<1>3. QED
  BY <1>1, <1>2

(* The rows of an RRset are no more than the values there are. *)
LEMMA RowsFinite ==
  ASSUME NEW some, RowsApart(some)
  PROVE  IsFiniteSet(some)
<1> DEFINE value == [r \in some |-> r.val]
<1>1. value \in Injection(some, Values)
  BY DEF RowsApart, Rows, Injection, IsInjective
<1>2. QED
  BY <1>1, FS_Injection, WritersAssumption

(* AsRows gives every value an id of its own. *)
LEMMA AsRowsShape ==
  ASSUME NEW vals \in SUBSET Values, NEW ttl
  PROVE  \E f \in [vals -> Ids] :
            /\ \A u, v \in vals : u # v => f[u] # f[v]
            /\ AsRows(vals, ttl) = {[id |-> f[v], val |-> v, ttl |-> ttl] : v \in vals}
<1> DEFINE Apart(g) == \A u, v \in vals : u # v => g[u] # g[v]
           f == CHOOSE g \in [vals -> Ids] : Apart(g)
<1>1. \E g \in [vals -> Ids] : Apart(g)
  <2>1. PICK h \in [Values -> Ids] : \A u, v \in Values : u # v => h[u] # h[v]
    BY WritersAssumption
  <2>2. [v \in vals |-> h[v]] \in [vals -> Ids] /\ Apart([v \in vals |-> h[v]])
    BY <2>1
  <2>3. QED
    BY <2>2
<1>2. f \in [vals -> Ids] /\ Apart(f)
  BY <1>1
<1>3. AsRows(vals, ttl) = {[id |-> f[v], val |-> v, ttl |-> ttl] : v \in vals}
  BY DEF AsRows
<1>4. QED
  BY <1>2, <1>3

(* One call writes a row of every value asked for, and nothing else. *)
LEMMA AsRowsWrites ==
  ASSUME NEW vals \in SUBSET Values, NEW ttl, vals # {} => ttl \in Ttls
  PROVE  /\ RowsApart(AsRows(vals, ttl))
         /\ \A r \in AsRows(vals, ttl) : r.val \in vals /\ r.ttl = ttl
         /\ \A v \in vals : \E r \in AsRows(vals, ttl) : r.val = v
         /\ One(vals) => One(AsRows(vals, ttl))
<1>1. PICK f \in [vals -> Ids] :
        /\ \A u, v \in vals : u # v => f[u] # f[v]
        /\ AsRows(vals, ttl) = {[id |-> f[v], val |-> v, ttl |-> ttl] : v \in vals}
  BY AsRowsShape
<1>2. RowsApart(AsRows(vals, ttl))
  BY <1>1 DEF RowsApart, Rows
<1>3. \A r \in AsRows(vals, ttl) : r.val \in vals /\ r.ttl = ttl
  BY <1>1
<1>4. \A v \in vals : \E r \in AsRows(vals, ttl) : r.val = v
  <2> TAKE v \in vals
  <2> DEFINE r == [id |-> f[v], val |-> v, ttl |-> ttl]
  <2>1. r \in AsRows(vals, ttl) /\ r.val = v
    BY <1>1
  <2>2. QED
    BY <2>1
<1>5. One(vals) => One(AsRows(vals, ttl))
  BY <1>1 DEF One
<1>6. QED
  BY <1>2, <1>3, <1>4, <1>5

(* Whatever the RRset held before the first write. *)
LEMMA AtTheStart == Init => WriteInv /\ SlotsCounted
<1> SUFFICES ASSUME Init PROVE WriteInv /\ SlotsCounted
  OBVIOUS
<1>1. PICK vals \in SUBSET Values : \E ttls \in [vals -> Ttls] :
        /\ cname => Cardinality(vals) <= 1
        /\ rows = {[row EXCEPT !.ttl = ttls[row.val]] : row \in AsRows(vals, None)}
  BY DEF Init
<1>2. PICK ttls \in [vals -> Ttls] :
        /\ cname => Cardinality(vals) <= 1
        /\ rows = {[row EXCEPT !.ttl = ttls[row.val]] : row \in AsRows(vals, None)}
  BY <1>1
<1>3. PICK f \in [vals -> Ids] :
        /\ \A u, v \in vals : u # v => f[u] # f[v]
        /\ AsRows(vals, None) = {[id |-> f[v], val |-> v, ttl |-> None] : v \in vals}
  BY AsRowsShape
<1> DEFINE row(v) == [id |-> f[v], val |-> v, ttl |-> ttls[v]]
           bare(v) == [id |-> f[v], val |-> v, ttl |-> None]
           dated(r) == [r EXCEPT !.ttl = ttls[r.val]]
<1>4. rows = {row(v) : v \in vals}
  <2>1. \A v \in vals : dated(bare(v)) = row(v)
    OBVIOUS
  <2>2. AsRows(vals, None) = {bare(v) : v \in vals}
    BY <1>3
  <2>3. rows = {dated(r) : r \in AsRows(vals, None)}
    BY <1>2
  <2> HIDE DEF row, bare, dated
  <2>4. QED
    BY <2>1, <2>2, <2>3
<1>5. RowsApart(rows)
  BY <1>3, <1>4 DEF RowsApart, Rows
<1>6. IsFiniteSet(vals)
  BY FS_Subset, WritersAssumption
<1>7. cname => One(rows)
  <2>1. cname => One(vals)
    BY <1>2, <1>6, OneByCount
  <2>2. One(vals) => One(rows)
    BY <1>4 DEF One
  <2>3. QED
    BY <2>1, <2>2
<1>8. Free \in Job
  BY WritersAssumption DEF Free, Job
<1>9. job = [w \in Writers |-> Free] /\ asked = {} /\ begun = 0
  BY DEF Init
<1>10. Shape
  BY <1>5, <1>7, <1>8, <1>9, WritersAssumption DEF Shape, Init
<1>11. Held
  BY <1>9 DEF Held, HoldsItsStep, ListingStands, At, Free
<1>12. Answerable /\ UnaskedLeave /\ WantedCome /\ NameReturns /\ OneCall
  BY <1>9 DEF Answerable, UnaskedLeave, WantedCome, NameReturns, OneCall
<1>13. SlotsCounted
  <2>1. Streaming = {} /\ slots = Slots
    BY DEF Init, Streaming
  <2>2. QED
    BY <2>1, FS_EmptySet, WritersAssumption DEF SlotsCounted, Init
<1>14. QED
  BY <1>10, <1>11, <1>12, <1>13 DEF WriteInv
-----------------------------------------------------------------------------
(* Each step, by what it does to the job of its writer.  The other writers *)
(* are where they were.                                                    *)
Moves(w) ==
    /\ job' \in [Writers -> Job]
    /\ \A o \in Writers \ {w} : job'[o] = job[o]

LEMMA OneMoves ==
  ASSUME Shape, NEW w \in Writers, NEW new \in Job, job' = [job EXCEPT ![w] = new]
  PROVE  Moves(w) /\ job'[w] = new
BY DEF Shape, Moves

LEMMA EndGives ==
  ASSUME Shape, NEW w \in Writers, job' = [job EXCEPT ![w] = Free]
  PROVE  /\ Moves(w)
         /\ job'[w].pc = "idle" /\ job'[w].left = {}
         /\ job'[w].stale = {} /\ job'[w].kept = {}
<1>1. Free \in Job
  BY WritersAssumption DEF Free, Job
<1>2. Moves(w) /\ job'[w] = Free
  BY <1>1, OneMoves
<1>3. QED
  BY <1>2 DEF Free

LEMMA BeginGives ==
  ASSUME Shape, NEW w \in Writers, NEW ask \in Asks, Begin(w, ask)
  PROVE  /\ Moves(w)
         /\ job'[w].pc = "list" /\ job'[w].ask = ask /\ job'[w].left = ask.vals
         /\ job'[w].stale = {} /\ job'[w].kept = {}
         /\ cname => One(ask.vals)
<1> DEFINE old == Free
           new == [old EXCEPT !.pc = "list", !.ask = ask, !.left = ask.vals]
<1>1. ask.vals \in SUBSET Values
  BY DEF Asks
<1>2. old \in Job /\ old.stale = {} /\ old.kept = {}
  BY WritersAssumption DEF Free, Job
<1>3. job' = [job EXCEPT ![w] = new]
  BY DEF Begin
<1> HIDE DEF old
<1>4. /\ new \in Job
      /\ new.pc = "list" /\ new.ask = ask /\ new.left = ask.vals
      /\ new.stale = {} /\ new.kept = {}
  BY <1>1, <1>2 DEF Job
<1> HIDE DEF new
<1>5. Moves(w) /\ job'[w] = new
  BY <1>3, <1>4, OneMoves
<1>6. IsFiniteSet(ask.vals)
  BY <1>1, FS_Subset, WritersAssumption
<1>7. cname => One(ask.vals)
  BY <1>6, OneByCount DEF Begin
<1>8. QED
  BY <1>4, <1>5, <1>7
(* The read: what a Cloudflare writer will keep and what is stale. *)
LEMMA ListGives ==
  ASSUME Shape, NEW w \in Writers, List(w)
  PROVE  /\ At(w, "list") /\ Moves(w)
         /\ UNCHANGED <<zone, rows, asked>>
         /\ \/ /\ job[w].ask.op = "delete" /\ rows = {}
               /\ job'[w].pc = "idle" /\ job'[w].left = {}
               /\ job'[w].stale = {} /\ job'[w].kept = {}
            \/ /\ job'[w].ask = job[w].ask /\ job'[w].left = job[w].left
               /\ \/ /\ provider = "cloudflare" /\ job'[w].pc = "sync"
                     /\ job'[w].kept = Kept(w) /\ job'[w].stale = Bare(rows) \ Kept(w)
                  \/ /\ provider = "microsoft" /\ job'[w].pc = "script"
                     /\ job'[w].kept = job[w].kept /\ job'[w].stale = job[w].stale
                  \/ /\ provider \in {"bind", "azure"} /\ job'[w].pc = "put"
                     /\ job'[w].kept = job[w].kept /\ job'[w].stale = job[w].stale
<1>1. At(w, "list") /\ UNCHANGED <<zone, rows>> /\ asked' = asked
  BY DEF List, Succeed
<1>2. CASE job[w].ask.op = "delete" /\ rows = {}
  <2>1. job' = [job EXCEPT ![w] = Free]
    BY <1>2 DEF List, Succeed
  <2>2. QED
    BY <1>1, <1>2, <2>1, EndGives
<1>3. CASE ~(job[w].ask.op = "delete" /\ rows = {})
  <2> DEFINE old == job[w]
  <2>1. old \in Job
    BY DEF Shape
  <2>2. CASE provider = "cloudflare"
    <3> DEFINE new == [old EXCEPT !.pc = "sync", !.kept = Kept(w), !.stale = Bare(rows) \ Kept(w)]
    <3>1. job' = [job EXCEPT ![w] = new]
      BY <1>3, <2>2 DEF List, Shape
    <3>2. Bare(rows) \subseteq Listed /\ Kept(w) \subseteq Listed
      BY DEF Kept, Bare, Shape, RowsApart, Rows, Listed
    <3> HIDE DEF old
    <3>3. /\ new \in Job /\ new.pc = "sync" /\ new.ask = old.ask /\ new.left = old.left
          /\ new.kept = Kept(w) /\ new.stale = Bare(rows) \ Kept(w)
      BY <2>1, <3>2 DEF Job
    <3> HIDE DEF new
    <3>4. QED
      BY <1>1, <2>2, <3>1, <3>3, OneMoves DEF old
  <2>3. CASE provider # "cloudflare"
    <3> DEFINE pc == IF provider = "microsoft" THEN "script" ELSE "put"
               new == [old EXCEPT !.pc = pc]
    <3>1. job' = [job EXCEPT ![w] = new]
      BY <1>3, <2>3 DEF List, Shape
    <3> HIDE DEF old
    <3>3. /\ new \in Job /\ new.pc = pc /\ new.ask = old.ask /\ new.left = old.left
          /\ new.kept = old.kept /\ new.stale = old.stale
      BY <2>1 DEF Job
    <3> HIDE DEF new
    <3>4. provider = "microsoft" \/ provider \in {"bind", "azure"}
      BY <2>3 DEF Shape, Providers
    <3>5. QED
      BY <1>1, <3>1, <3>3, <3>4, OneMoves DEF old
  <2>4. QED
    BY <2>2, <2>3
<1>4. QED
  BY <1>2, <1>3

LEMMA PutGives ==
  ASSUME Shape, NEW w \in Writers, Put(w)
  PROVE  /\ At(w, "put") /\ Moves(w) /\ UNCHANGED <<zone, asked>>
         /\ job'[w].pc = "sync" /\ job'[w].left = {} /\ job'[w].ask = job[w].ask
         /\ job'[w].stale = job[w].stale /\ job'[w].kept = job[w].kept
         /\ rows' = AsRows(job[w].ask.vals, job[w].ask.ttl)
<1> DEFINE old == job[w]
           new == [old EXCEPT !.pc = "sync", !.left = {}]
<1>1. old \in Job
  BY DEF Shape
<1>2. job' = [job EXCEPT ![w] = new]
  BY DEF Put, Shape
<1>3. /\ At(w, "put") /\ UNCHANGED <<zone, asked>>
      /\ rows' = AsRows(job[w].ask.vals, job[w].ask.ttl)
  BY DEF Put
<1> HIDE DEF old
<1>4. /\ new \in Job /\ new.pc = "sync" /\ new.left = {} /\ new.ask = old.ask
      /\ new.stale = old.stale /\ new.kept = old.kept
  BY <1>1 DEF Job
<1> HIDE DEF new
<1>5. QED
  BY <1>2, <1>3, <1>4, OneMoves DEF old

LEMMA ScriptGives ==
  ASSUME Shape, Held, NEW w \in Writers, Script(w)
  PROVE  /\ At(w, "script") /\ Moves(w) /\ UNCHANGED <<zone, rows, asked>>
         /\ job'[w].pc = "sync" /\ job'[w].ask = job[w].ask
         /\ job'[w].left = job[w].ask.vals
         /\ job'[w].stale = Bare(rows) /\ job'[w].kept = {}
<1> DEFINE old == job[w]
           new == [old EXCEPT !.pc = "sync", !.stale = Bare(rows), !.left = job[w].ask.vals]
<1>1. old \in Job /\ old.kept = {} /\ At(w, "script")
  BY DEF Shape, Held, HoldsItsStep, Script, At
<1>2. job' = [job EXCEPT ![w] = new]
  BY DEF Script, Shape
<1>3. UNCHANGED <<zone, rows, asked>>
  BY DEF Script
<1>4. Bare(rows) \subseteq Listed /\ job[w].ask.vals \subseteq Values
  BY <1>1 DEF Held, HoldsItsStep, Asks, At, Bare, Shape, RowsApart, Rows, Listed
<1> HIDE DEF old
<1>5. /\ new \in Job /\ new.pc = "sync" /\ new.ask = old.ask
      /\ new.left = job[w].ask.vals /\ new.stale = Bare(rows) /\ new.kept = old.kept
  BY <1>1, <1>4 DEF Job
<1> HIDE DEF new
<1>6. QED
  BY <1>1, <1>2, <1>3, <1>5, OneMoves DEF old
(* Only a write that sets values has one to write. *)
LEMMA SetsValue ==
  ASSUME NEW ask \in Asks, NEW v \in ask.vals
  PROVE  ask.op = "set" /\ ask.ttl \in Ttls /\ v \in Values
BY DEF Asks

LEMMA SetHasValues ==
  ASSUME NEW ask \in Asks, ask.op = "set"
  PROVE  ask.vals # {} /\ ask.vals \subseteq Values /\ ask.ttl \in Ttls
<1>1. ask \in [op: {"set"}, vals: (SUBSET Values) \ {{}}, ttl: Ttls]
  BY DEF Asks
<1>2. ask.vals \in (SUBSET Values) \ {{}} /\ ask.ttl \in Ttls
  BY <1>1
<1>3. QED
  BY <1>2

(* A row that Cloudflare is told to delete is none of the wanted ones. *)
LEMMA RemoveGives ==
  ASSUME Shape, Held, NEW w \in Writers, Remove(w)
  PROVE  /\ At(w, "sync") /\ Moves(w) /\ UNCHANGED <<zone, asked>>
         /\ job'[w].pc = "sync" /\ job'[w].ask = job[w].ask
         /\ job'[w].left = job[w].left /\ job'[w].kept = job[w].kept
         /\ job[w].left = job[w].ask.vals /\ ~Overwrites(w)
         /\ provider \in {"cloudflare", "microsoft"}
         /\ provider = "cloudflare" => \A r \in rows \ rows' : r.val \notin job[w].ask.vals
         /\ \E row \in job[w].stale : /\ rows' = {r \in rows : ~Same(r, row)}
                                      /\ job'[w].stale = job[w].stale \ {row}
<1>1. PICK row \in job[w].stale :
        /\ rows' = {r \in rows : ~Same(r, row)}
        /\ job' = [job EXCEPT ![w].stale = @ \ {row}]
  BY DEF Remove
<1>2. /\ At(w, "sync") /\ UNCHANGED <<zone, asked>> /\ HoldsItsStep(w) /\ ListingStands(w)
      /\ job[w].pc = "sync"
  BY DEF Remove, Held, At
<1>3. /\ job[w].left = job[w].ask.vals /\ ~Overwrites(w)
      /\ provider \in {"cloudflare", "microsoft"}
  BY <1>1, <1>2 DEF HoldsItsStep
<1>4. ASSUME provider = "cloudflare", NEW r \in rows \ rows' PROVE r.val \notin job[w].ask.vals
  <2>1. r.id = row.id
    BY <1>1, <1>4 DEF Same
  <2>2. CASE ~cname
    BY <1>1, <1>2, <1>3, <1>4, <2>1, <2>2 DEF ListingStands
  <2>3. CASE cname
    <3>1. job[w].ask \in Asks /\ job[w].ask.op # "set"
      BY <1>2, <1>3, <1>4, <2>3 DEF HoldsItsStep, Overwrites, At
    <3>2. QED
      BY <3>1, SetsValue
  <2>4. QED
    BY <2>2, <2>3
<1> DEFINE old == job[w]
           new == [old EXCEPT !.stale = old.stale \ {row}]
<1>5. old \in Job
  BY DEF Shape
<1>6. job' = [job EXCEPT ![w] = new]
  BY <1>1 DEF Shape
<1> HIDE DEF old
<1>7. /\ new \in Job /\ new.pc = old.pc /\ new.ask = old.ask /\ new.left = old.left
      /\ new.kept = old.kept /\ new.stale = old.stale \ {row}
  BY <1>5 DEF Job
<1> HIDE DEF new
<1>8. Moves(w) /\ job'[w] = new
  BY <1>6, <1>7, OneMoves
<1>9. QED
  BY <1>1, <1>2, <1>3, <1>4, <1>7, <1>8 DEF old

(* A row updated in place had the value already, or is the only one of a   *)
(* CNAME; the values stay apart.                                           *)
Updates(w, v, row) ==
    LET new == [id |-> row.id, val |-> v, ttl |-> job[w].ask.ttl] IN
    /\ v \in job[w].ask.vals /\ new \in Rows
    /\ job'[w].left = job[w].left \ {v} /\ job'[w].kept = job[w].kept \ {row}
    /\ rows' = {r \in rows : r.id # row.id} \cup {new}
    /\ cname \/ row.val = v
    /\ \E r \in rows : r.id = row.id
    /\ cname => rows' = {new} /\ job[w].ask.vals = {v}
    /\ ~cname => /\ \A r \in rows : r.id = row.id => r.val = v
                 /\ \A r \in rows : r.id # row.id => r.val # v

LEMMA UpdateGives ==
  ASSUME Shape, Held, NEW w \in Writers, Update(w)
  PROVE  /\ At(w, "sync") /\ Moves(w) /\ UNCHANGED <<zone, asked>>
         /\ provider = "cloudflare"
         /\ job'[w].pc = "sync" /\ job'[w].ask = job[w].ask
         /\ job[w].stale = {} /\ job'[w].stale = {}
         /\ \E v \in job[w].left, row \in job[w].kept : Updates(w, v, row)
<1>1. PICK v \in job[w].left, row \in job[w].kept :
        /\ Overwrites(w) \/ row.val = v
        /\ \E r \in rows : Same(r, row)
        /\ rows' = {r \in rows : ~Same(r, row)}
                      \cup {[id |-> row.id, val |-> v, ttl |-> job[w].ask.ttl]}
        /\ job' = [job EXCEPT ![w].left = @ \ {v}, ![w].kept = @ \ {row}]
  BY DEF Update
<1>2. /\ At(w, "sync") /\ UNCHANGED <<zone, asked>> /\ HoldsItsStep(w) /\ ListingStands(w)
      /\ job[w].pc = "sync" /\ (job[w].stale = {} \/ Overwrites(w))
  BY DEF Update, Held, At
<1>3. provider = "cloudflare" /\ job[w].stale = {} /\ job[w].ask \in Asks
      /\ v \in job[w].ask.vals /\ (cname => One(job[w].ask.vals))
  BY <1>1, <1>2 DEF HoldsItsStep, At
<1>4. job[w].ask.op = "set" /\ job[w].ask.ttl \in Ttls /\ v \in Values
  BY <1>3, SetsValue
<1>5. cname = Overwrites(w)
  BY <1>3, <1>4 DEF Overwrites, Shape
<1>6. row \in Listed
  BY DEF Shape, Job
<1> DEFINE fresh == [id |-> row.id, val |-> v, ttl |-> job[w].ask.ttl]
<1>7. fresh \in Rows /\ fresh.id = row.id /\ fresh.val = v
  BY <1>4, <1>6 DEF Rows, Listed
<1>8. PICK there \in rows : there.id = row.id
  BY <1>1, <1>3 DEF Same
<1>9. rows' = {r \in rows : r.id # row.id} \cup {fresh}
  BY <1>1, <1>3 DEF Same
<1> HIDE DEF fresh
<1>10. cname => rows' = {fresh} /\ job[w].ask.vals = {v}
  BY <1>3, <1>8, <1>9 DEF Shape, One
<1>11. ASSUME ~cname
       PROVE  /\ row.val = v
              /\ \A r \in rows : r.id = row.id => r.val = v
              /\ \A r \in rows : r.id # row.id => r.val # v
  <2>1. row.val = v
    BY <1>1, <1>5, <1>11
  <2>2. \A r \in rows : r.id = row.id => r.val = v
    BY <1>2, <1>3, <1>5, <1>11, <2>1 DEF ListingStands
  <2>3. \A r \in rows : r.id # row.id => r.val # v
    BY <1>8, <2>2 DEF Shape, RowsApart
  <2>4. QED
    BY <2>1, <2>2, <2>3
<1> DEFINE old == job[w]
           new == [old EXCEPT !.left = old.left \ {v}, !.kept = old.kept \ {row}]
<1>12. old \in Job
  BY DEF Shape
<1>13. job' = [job EXCEPT ![w] = new]
  BY <1>1 DEF Shape
<1> HIDE DEF old
<1>14. /\ new \in Job /\ new.pc = old.pc /\ new.ask = old.ask /\ new.stale = old.stale
       /\ new.left = old.left \ {v} /\ new.kept = old.kept \ {row}
  BY <1>12 DEF Job
<1> HIDE DEF new
<1>15. Moves(w) /\ job'[w] = new
  BY <1>13, <1>14, OneMoves
<1>16. /\ job'[w].pc = "sync" /\ job'[w].ask = job[w].ask /\ job'[w].stale = {}
       /\ job'[w].left = job[w].left \ {v} /\ job'[w].kept = job[w].kept \ {row}
  BY <1>2, <1>3, <1>14, <1>15 DEF old
<1>17. QED
  <2>1. Updates(w, v, row)
    BY <1>3, <1>7, <1>8, <1>9, <1>10, <1>11, <1>16 DEF fresh, Updates
  <2>2. QED
    BY <1>2, <1>3, <1>15, <1>16, <2>1
(* A row made has an id nobody holds and a value that was not there. *)
LEMMA CreateGives ==
  ASSUME Shape, Held, NEW w \in Writers, Create(w)
  PROVE  /\ At(w, "sync") /\ Moves(w) /\ UNCHANGED <<zone, asked>>
         /\ job'[w].pc = "sync" /\ job'[w].ask = job[w].ask
         /\ job[w].stale = {} /\ job'[w].stale = {} /\ job'[w].kept = job[w].kept
         /\ \E v \in job[w].left, id \in Ids \ UsedIds :
               LET new == [id |-> id, val |-> v, ttl |-> job[w].ask.ttl] IN
               /\ v \in job[w].ask.vals /\ new \in Rows
               /\ job'[w].left = job[w].left \ {v}
               /\ rows' = rows \cup {new}
               /\ ~\E r \in rows : cname \/ r.val = v
<1>1. PICK v \in job[w].left, id \in Ids \ UsedIds :
        /\ ~\E r \in rows : cname \/ r.val = v
        /\ rows' = rows \cup {[id |-> id, val |-> v, ttl |-> job[w].ask.ttl]}
        /\ job' = [job EXCEPT ![w].left = @ \ {v}]
  BY DEF Create
<1>2. /\ At(w, "sync") /\ UNCHANGED <<zone, asked>> /\ HoldsItsStep(w)
      /\ job[w].pc = "sync" /\ job[w].stale = {}
  BY DEF Create, Held, At
<1>3. job[w].ask \in Asks /\ v \in job[w].ask.vals
  BY <1>1, <1>2 DEF HoldsItsStep, At
<1>4. job[w].ask.ttl \in Ttls /\ v \in Values
  BY <1>3, SetsValue
<1>5. [id |-> id, val |-> v, ttl |-> job[w].ask.ttl] \in Rows
  BY <1>4 DEF Rows
<1> DEFINE old == job[w]
           new == [old EXCEPT !.left = old.left \ {v}]
<1>6. old \in Job
  BY DEF Shape
<1>7. job' = [job EXCEPT ![w] = new]
  BY <1>1 DEF Shape
<1> HIDE DEF old
<1>8. /\ new \in Job /\ new.pc = old.pc /\ new.ask = old.ask /\ new.stale = old.stale
      /\ new.left = old.left \ {v} /\ new.kept = old.kept
  BY <1>6 DEF Job
<1> HIDE DEF new
<1>9. Moves(w) /\ job'[w] = new
  BY <1>7, <1>8, OneMoves
<1>10. /\ job'[w].pc = "sync" /\ job'[w].ask = job[w].ask /\ job'[w].stale = {}
       /\ job'[w].left = job[w].left \ {v} /\ job'[w].kept = job[w].kept
  BY <1>2, <1>8, <1>9 DEF old
<1>11. QED
  BY <1>1, <1>2, <1>3, <1>5, <1>9, <1>10

LEMMA FaultGives ==
  ASSUME Shape, Held, NEW w \in Writers, Fault(w)
  PROVE  /\ ~At(w, "idle") /\ Moves(w) /\ UNCHANGED <<zone, rows>>
         /\ job'[w].left = {} /\ job'[w].stale = {} /\ job'[w].kept = {}
         /\ \/ job'[w].pc = "idle" /\ asked' = {}
            \/ /\ job'[w].pc = "script" /\ job'[w].ask = job[w].ask
               /\ provider = "microsoft" /\ asked' = asked
<1>1. ~At(w, "idle") /\ UNCHANGED <<zone, rows>>
  BY DEF Fault
<1>2. CASE Refuse(w)
  BY <1>1, <1>2, EndGives DEF Refuse
<1>3. CASE /\ provider = "microsoft" /\ job[w].tries + 1 < MaxAttempts
           /\ job' = [job EXCEPT ![w].pc = "script", ![w].tries = @ + 1,
                                 ![w].stale = {}, ![w].left = {}]
           /\ UNCHANGED asked
  <2> DEFINE old == job[w]
             new == [old EXCEPT !.pc = "script", !.tries = old.tries + 1,
                                !.stale = {}, !.left = {}]
  <2>1. old \in Job /\ old.kept = {} /\ old.tries + 1 < MaxAttempts
    BY <1>3 DEF Shape, Held, HoldsItsStep
  <2>2. job' = [job EXCEPT ![w] = new]
    BY <1>3 DEF Shape
  <2> HIDE DEF old
  <2>3. old.tries + 1 \in 0..MaxAttempts - 1
    BY <2>1, WritersAssumption DEF Job
  <2>4. /\ new \in Job /\ new.pc = "script" /\ new.ask = old.ask /\ new.stale = {}
        /\ new.left = {} /\ new.kept = old.kept
    BY <2>1, <2>3 DEF Job
  <2> HIDE DEF new
  <2>5. Moves(w) /\ job'[w] = new
    BY <2>2, <2>4, OneMoves
  <2>6. QED
    BY <1>1, <1>3, <2>1, <2>4, <2>5 DEF old
<1>4. QED
  BY <1>2, <1>3 DEF Fault

LEMMA FinishGives ==
  ASSUME Shape, NEW w \in Writers, Finish(w)
  PROVE  /\ At(w, "sync") /\ job[w].stale = {} /\ job[w].left = {}
         /\ Moves(w) /\ UNCHANGED <<zone, rows, asked>>
         /\ job'[w].pc = "idle" /\ job'[w].left = {}
         /\ job'[w].stale = {} /\ job'[w].kept = {}
<1>1. job' = [job EXCEPT ![w] = Free] /\ UNCHANGED asked
  BY DEF Finish, Succeed
<1>2. At(w, "sync") /\ job[w].stale = {} /\ job[w].left = {} /\ UNCHANGED <<zone, rows>>
  BY DEF Finish
<1>3. QED
  BY <1>1, <1>2, EndGives
-----------------------------------------------------------------------------
(* A step is one of a writer, or leaves the writers and the rows alone. *)
Quiet == UNCHANGED <<provider, cname, rows, job, begun, asked>>

LEMMA StepKinds ==
  ASSUME [Next]_vars
  PROVE  \/ Quiet
         \/ \E w \in Writers : WriterStep(w) \/ \E ask \in Asks : Begin(w, ask)
BY DEF Next, vars, Quiet, Transfer, TransferEnds

(* The rows keep apart, whoever removes, updates or makes one. *)
LEMMA RowsStayApart ==
  ASSUME Shape, Held, NEW w \in Writers, WriterStep(w)
  PROVE  RowsApart(rows') /\ (cname => One(rows'))
<1>1. CASE List(w)
  BY <1>1, ListGives DEF Shape
<1>2. CASE Put(w)
  <2> DEFINE ask == job[w].ask
  <2>1. ask \in Asks /\ (cname => One(ask.vals)) /\ rows' = AsRows(ask.vals, ask.ttl)
    BY <1>2, PutGives DEF Held, HoldsItsStep, At
  <2>2. ask.vals \in SUBSET Values /\ (ask.vals # {} => ask.ttl \in Ttls)
    BY <2>1 DEF Asks
  <2> HIDE DEF ask
  <2>3. QED
    BY <2>1, <2>2, AsRowsWrites
<1>3. CASE Script(w)
  BY <1>3, ScriptGives DEF Shape
<1>4. CASE Remove(w)
  <2>1. rows' \subseteq rows
    BY <1>4, RemoveGives
  <2>2. QED
    BY <2>1 DEF Shape, RowsApart, One
<1>5. CASE Update(w)
  <2>1. PICK v \in job[w].left, row \in job[w].kept : Updates(w, v, row)
    BY <1>5, UpdateGives
  <2>2. CASE cname
    BY <2>1, <2>2 DEF RowsApart, One, Updates
  <2>3. CASE ~cname
    BY <2>1, <2>3 DEF Shape, RowsApart, Updates
  <2>4. QED
    BY <2>2, <2>3 DEF Shape
<1>6. CASE Create(w)
  <2>1. PICK v \in job[w].left, id \in Ids \ UsedIds :
          LET new == [id |-> id, val |-> v, ttl |-> job[w].ask.ttl] IN
          /\ new \in Rows /\ rows' = rows \cup {new}
          /\ ~\E r \in rows : cname \/ r.val = v
    BY <1>6, CreateGives
  <2>2. \A r \in rows : r.id # id
    BY DEF UsedIds
  <2>3. RowsApart(rows')
    BY <2>1, <2>2 DEF Shape, RowsApart
  <2>4. cname => One(rows')
    BY <2>1 DEF One
  <2>5. QED
    BY <2>3, <2>4
<1>7. CASE Finish(w)
  BY <1>7, FinishGives DEF Shape
<1>8. CASE Fault(w)
  BY <1>8, FaultGives DEF Shape
<1>9. QED
  BY <1>1, <1>2, <1>3, <1>4, <1>5, <1>6, <1>7, <1>8 DEF WriterStep

(* What every step of a writer leaves alone. *)
LEMMA WriterFrame ==
  ASSUME Shape, Held, NEW w \in Writers, WriterStep(w)
  PROVE  /\ UNCHANGED zone /\ Moves(w)
         /\ asked' = asked \/ (asked' = {} /\ Fault(w))
BY ListGives, PutGives, ScriptGives, RemoveGives, UpdateGives, CreateGives,
   FinishGives, FaultGives DEF WriterStep

LEMMA ShapeKept == ASSUME Shape, Held, [Next]_vars PROVE Shape'
<1>1. CASE Quiet
  BY <1>1 DEF Quiet, Shape, RowsApart, One
<1>2. ASSUME NEW w \in Writers, NEW ask \in Asks, Begin(w, ask) PROVE Shape'
  <2>1. Moves(w)
    BY <1>2, BeginGives
  <2>2. begun' \in 0..MaxWrites /\ asked' \subseteq Asks
    BY <1>2, WritersAssumption DEF Begin, Shape
  <2>3. UNCHANGED <<provider, cname, rows>>
    BY <1>2 DEF Begin
  <2>4. QED
    BY <2>1, <2>2, <2>3 DEF Shape, Moves, RowsApart, One
<1>3. ASSUME NEW w \in Writers, WriterStep(w) PROVE Shape'
  <2>1. RowsApart(rows') /\ (cname => One(rows'))
    BY <1>3, RowsStayApart
  <2>2. UNCHANGED zone /\ Moves(w) /\ (asked' = asked \/ asked' = {})
    BY <1>3, WriterFrame
  <2>3. QED
    BY <2>1, <2>2 DEF Shape, Moves, zone, RowsApart, One
<1>4. QED
  BY <1>1, <1>2, <1>3, StepKinds
-----------------------------------------------------------------------------
(* At Cloudflare an id that is held by a writer keeps its value: a row is  *)
(* as it was, or has an id that nobody holds.                              *)
LEMMA RowsTraceable ==
  ASSUME Shape, Held, NEW w \in Writers, WriterStep(w),
         provider = "cloudflare", ~cname, NEW r \in rows'
  PROVE  \/ \E s \in rows : s.id = r.id /\ s.val = r.val
         \/ \A o \in Writers : \A row \in job[o].stale \cup job[o].kept : row.id # r.id
<1>1. CASE List(w)
  BY <1>1, ListGives
<1>2. CASE Put(w)
  BY <1>2, PutGives DEF Held, HoldsItsStep
<1>3. CASE Script(w)
  BY <1>3, ScriptGives
<1>4. CASE Remove(w)
  BY <1>4, RemoveGives
<1>5. CASE Update(w)
  <2>1. PICK v \in job[w].left, row \in job[w].kept : Updates(w, v, row)
    BY <1>5, UpdateGives
  <2>2. QED
    BY <2>1 DEF Updates
<1>6. CASE Create(w)
  <2>1. PICK v \in job[w].left, id \in Ids \ UsedIds :
          rows' = rows \cup {[id |-> id, val |-> v, ttl |-> job[w].ask.ttl]}
    BY <1>6, CreateGives
  <2>2. \A o \in Writers : \A row \in job[o].stale \cup job[o].kept : row.id # id
    BY DEF UsedIds
  <2>3. QED
    BY <2>1, <2>2
<1>7. CASE Finish(w)
  BY <1>7, FinishGives
<1>8. CASE Fault(w)
  BY <1>8, FaultGives
<1>9. QED
  BY <1>1, <1>2, <1>3, <1>4, <1>5, <1>6, <1>7, <1>8 DEF WriterStep

(* A writer that does not step holds what it held, and it still stands. *)
LEMMA OthersHold ==
  ASSUME Shape, Held, NEW w \in Writers, WriterStep(w), NEW o \in Writers \ {w}
  PROVE  HoldsItsStep(o)' /\ ListingStands(o)'
<1>1. job'[o] = job[o] /\ UNCHANGED <<provider, cname>>
  BY WriterFrame DEF Moves, zone
<1>2. HoldsItsStep(o) /\ ListingStands(o)
  BY DEF Held
<1>3. HoldsItsStep(o)'
  BY <1>1, <1>2 DEF HoldsItsStep, At, Overwrites
<1>4. ASSUME provider = "cloudflare", ~cname,
             NEW row \in job[o].stale \cup job[o].kept, NEW r \in rows', r.id = row.id,
             At(o, "sync"), ~Overwrites(o)
      PROVE  r.val = row.val
  <2>1. PICK s \in rows : s.id = r.id /\ s.val = r.val
    BY <1>4, RowsTraceable
  <2>2. QED
    BY <1>2, <1>4, <2>1 DEF ListingStands
<1>5. ListingStands(o)'
  BY <1>1, <1>2, <1>4 DEF ListingStands, At, Overwrites
<1>6. QED
  BY <1>3, <1>5

(* The same of the writer that steps, at its new step. *)
LEMMA WriterHolds ==
  ASSUME Shape, Held, NEW w \in Writers, WriterStep(w)
  PROVE  HoldsItsStep(w)'
<1>1. HoldsItsStep(w) /\ UNCHANGED <<provider, cname>>
  BY WriterFrame DEF Held, zone
<1>2. CASE List(w)
  <2>1. Overwrites(w) => Bare(rows) \ Kept(w) = {}
    BY DEF Kept
  <2>2. QED
    BY <1>1, <1>2, <2>1, ListGives DEF HoldsItsStep, At, Overwrites
<1>3. CASE Put(w)
  BY <1>1, <1>3, PutGives DEF HoldsItsStep, At, Overwrites
<1>4. CASE Script(w)
  BY <1>1, <1>4, ScriptGives DEF HoldsItsStep, At, Overwrites
<1>5. CASE Remove(w)
  BY <1>1, <1>5, RemoveGives DEF HoldsItsStep, At, Overwrites
<1>6. CASE Update(w)
  BY <1>1, <1>6, UpdateGives DEF HoldsItsStep, At, Overwrites, Updates
<1>7. CASE Create(w)
  BY <1>1, <1>7, CreateGives DEF HoldsItsStep, At, Overwrites
<1>8. CASE Finish(w)
  BY <1>1, <1>8, FinishGives DEF HoldsItsStep, At, Overwrites
<1>9. CASE Fault(w)
  BY <1>1, <1>9, FaultGives DEF HoldsItsStep, At, Overwrites
<1>10. QED
  BY <1>2, <1>3, <1>4, <1>5, <1>6, <1>7, <1>8, <1>9 DEF WriterStep
LEMMA WriterListing ==
  ASSUME Shape, Held, NEW w \in Writers, WriterStep(w)
  PROVE  ListingStands(w)'
<1>1. ListingStands(w) /\ HoldsItsStep(w) /\ UNCHANGED <<provider, cname>>
  BY WriterFrame DEF Held, zone
<1>2. CASE List(w)
  <2>1. Kept(w) = IF Overwrites(w) THEN Bare(rows)
                  ELSE Bare({r \in rows : r.val \in job[w].ask.vals})
    BY DEF Kept
  <2>2. ~Overwrites(w) =>
          /\ \A row \in Kept(w) : row.val \in job[w].ask.vals
          /\ \A row \in Bare(rows) \ Kept(w) : row.val \notin job[w].ask.vals
    BY <2>1 DEF Bare
  <2>3. \A row \in Bare(rows), r \in rows : r.id = row.id => r.val = row.val
    BY DEF Bare, Shape, RowsApart
  <2>4. Kept(w) \subseteq Bare(rows)
    BY <2>1 DEF Bare
  <2>5. ASSUME provider = "cloudflare", job'[w].pc = "sync", job'[w].ask = job[w].ask,
               job'[w].kept = Kept(w), job'[w].stale = Bare(rows) \ Kept(w), rows' = rows
        PROVE  ListingStands(w)'
    <3>1. Overwrites(w)' = Overwrites(w)
      BY <1>1, <2>5 DEF Overwrites
    <3>2. QED
      BY <1>1, <2>2, <2>3, <2>4, <2>5, <3>1 DEF ListingStands, At
  <2>6. QED
    BY <1>1, <1>2, <2>5, ListGives DEF ListingStands, At
<1>3. ASSUME provider = "cloudflare", At(w, "sync"),
             job'[w].ask = job[w].ask, job'[w].pc = "sync",
             job'[w].stale \subseteq job[w].stale, job'[w].kept \subseteq job[w].kept
      PROVE  ListingStands(w)'
  <2>1. Overwrites(w)' = Overwrites(w)
    BY <1>1, <1>3 DEF Overwrites
  <2>2. ASSUME ~cname, ~Overwrites(w), NEW row \in job[w].stale \cup job[w].kept,
               NEW r \in rows', r.id = row.id
        PROVE  r.val = row.val
    <3>1. PICK t \in rows : t.id = r.id /\ t.val = r.val
      BY <1>3, <2>2, RowsTraceable
    <3>2. QED
      BY <1>1, <1>3, <2>2, <3>1 DEF ListingStands
  <2>3. QED
    BY <1>1, <1>3, <2>1, <2>2 DEF ListingStands, At
<1>4. CASE Put(w) \/ Script(w)
  BY <1>1, <1>4, PutGives, ScriptGives DEF HoldsItsStep, ListingStands
<1>5. CASE Remove(w)
  BY <1>1, <1>3, <1>5, RemoveGives DEF ListingStands
<1>6. CASE Update(w)
  BY <1>3, <1>6, UpdateGives DEF Updates
<1>7. CASE Create(w)
  BY <1>1, <1>3, <1>7, CreateGives DEF ListingStands
<1>8. CASE Finish(w) \/ Fault(w)
  BY <1>1, <1>8, FinishGives, FaultGives DEF ListingStands, At
<1>9. QED
  BY <1>2, <1>4, <1>5, <1>6, <1>7, <1>8 DEF WriterStep

LEMMA HeldKept == ASSUME Shape, Held, [Next]_vars PROVE Held'
<1>1. CASE Quiet
  BY <1>1 DEF Quiet, Held, HoldsItsStep, ListingStands, At, Overwrites
<1>2. ASSUME NEW w \in Writers, NEW ask \in Asks, Begin(w, ask),
             NEW o \in Writers
      PROVE  HoldsItsStep(o)' /\ ListingStands(o)'
  <2>1. UNCHANGED <<provider, cname, rows>> /\ HoldsItsStep(o) /\ ListingStands(o)
    BY <1>2 DEF Begin, Held
  <2>2. CASE o = w
    BY <1>2, <2>1, <2>2, BeginGives DEF HoldsItsStep, ListingStands, At, Overwrites
  <2>3. CASE o # w
    <3>1. job'[o] = job[o]
      BY <1>2, <2>3, BeginGives DEF Moves
    <3>2. QED
      BY <2>1, <3>1 DEF HoldsItsStep, ListingStands, At, Overwrites
  <2>4. QED
    BY <2>2, <2>3
<1>3. ASSUME NEW w \in Writers, WriterStep(w) PROVE Held'
  BY <1>3, OthersHold, WriterHolds, WriterListing DEF Held
<1>4. QED
  BY <1>1, <1>2, <1>3, StepKinds DEF Held
-----------------------------------------------------------------------------
(* Who runs, and on what. *)
LEMMA AnswerableKept == ASSUME Shape, Held, Answerable, [Next]_vars PROVE Answerable'
<1>1. CASE Quiet
  BY <1>1 DEF Quiet, Answerable, Running, At
<1>2. ASSUME NEW w \in Writers, NEW ask \in Asks, Begin(w, ask) PROVE Answerable'
  <2>1. asked' = IF Running = {} THEN {ask} ELSE IF asked = {} THEN {} ELSE asked \cup {ask}
    BY <1>2 DEF Begin
  <2>2. \A o \in Running' : o = w \/ (o \in Running /\ job'[o].ask = job[o].ask)
    BY <1>2, BeginGives DEF Running, At, Moves
  <2>3. job'[w].ask = ask
    BY <1>2, BeginGives
  <2>4. QED
    BY <2>1, <2>2, <2>3 DEF Answerable
<1>3. ASSUME NEW w \in Writers, WriterStep(w) PROVE Answerable'
  <2>1. asked' = asked \/ asked' = {}
    BY <1>3, WriterFrame
  <2>2. \A o \in Running' : o \in Running /\ job'[o].ask = job[o].ask
    <3>1. \A o \in Writers \ {w} : job'[o] = job[o]
      BY <1>3, WriterFrame DEF Moves
    <3>2. w \in Running' => w \in Running /\ job'[w].ask = job[w].ask
      BY <1>3, ListGives, PutGives, ScriptGives, RemoveGives, UpdateGives, CreateGives,
         FinishGives, FaultGives DEF WriterStep, Running, At
    <3>3. QED
      BY <3>1, <3>2 DEF Running, At
  <2>3. QED
    BY <2>1, <2>2 DEF Answerable
<1>4. QED
  BY <1>1, <1>2, <1>3, StepKinds
-----------------------------------------------------------------------------
LEMMA StepRuns ==
  ASSUME Shape, Held, NEW w \in Writers, WriterStep(w)
  PROVE  w \in Running /\ job[w].ask \in Asks
BY ListGives, PutGives, ScriptGives, RemoveGives, UpdateGives, CreateGives, FinishGives,
   FaultGives DEF WriterStep, Running, Held, HoldsItsStep, At

(* A row that appears is one its writer was asked for. *)
LEMMA NewRowsWanted ==
  ASSUME Shape, Held, NEW w \in Writers, WriterStep(w), NEW r \in rows', r \notin rows \/ Put(w)
  PROVE  <<r.val, r.ttl>> \in Wanted(job[w].ask)
<1>1. CASE Put(w)
  <2> DEFINE ask == job[w].ask
  <2>1. ask \in Asks /\ rows' = AsRows(ask.vals, ask.ttl)
    BY <1>1, PutGives, StepRuns
  <2>2. ask.vals \in SUBSET Values /\ (ask.vals # {} => ask.ttl \in Ttls)
    BY <2>1 DEF Asks
  <2> HIDE DEF ask
  <2>3. \A t \in AsRows(ask.vals, ask.ttl) : t.val \in ask.vals /\ t.ttl = ask.ttl
    BY <2>2, AsRowsWrites
  <2>4. r.val \in ask.vals /\ r.ttl = ask.ttl
    BY <2>1, <2>3
  <2>5. QED
    BY <2>4 DEF Wanted, ask
<1>2. CASE Update(w) /\ ~Put(w)
  <2>1. PICK v \in job[w].left, row \in job[w].kept : Updates(w, v, row)
    BY <1>2, UpdateGives
  <2>2. r = [id |-> row.id, val |-> v, ttl |-> job[w].ask.ttl]
    BY <1>2, <2>1 DEF Updates
  <2>3. QED
    BY <2>1, <2>2 DEF Wanted, Updates
<1>3. CASE Create(w) /\ ~Put(w)
  <2>1. PICK v \in job[w].left, id \in Ids \ UsedIds :
          LET new == [id |-> id, val |-> v, ttl |-> job[w].ask.ttl] IN
          v \in job[w].ask.vals /\ rows' = rows \cup {new}
    BY <1>3, CreateGives
  <2>2. r = [id |-> id, val |-> v, ttl |-> job[w].ask.ttl]
    BY <1>3, <2>1
  <2>3. QED
    BY <2>1, <2>2 DEF Wanted
<1>4. ASSUME rows' \subseteq rows, ~Put(w) PROVE FALSE
  BY <1>4
<1>5. CASE ~Put(w) /\ ~Update(w) /\ ~Create(w)
  BY <1>4, <1>5, ListGives, ScriptGives, RemoveGives, FinishGives, FaultGives DEF WriterStep
<1>6. QED
  BY <1>1, <1>2, <1>3, <1>5

(* A writer that steps still is going to replace the rows nobody asked     *)
(* for that its step leaves; at its end there are none.                    *)
LEMMA StillReplaces ==
  ASSUME Shape, Held, NEW w \in Writers, WriterStep(w), asked' # {},
         NEW r \in rows, r \in rows', <<r.val, r.ttl>> \notin Wanted(job[w].ask),
         WillReplace(w, r)
  PROVE  w \in Running' /\ WillReplace(w, r)'
<1> DEFINE bare == [id |-> r.id, val |-> r.val]
<1>1. bare \in Bare(rows) /\ bare.id = r.id /\ bare.val = r.val
  BY DEF Bare
<1>2. UNCHANGED <<provider, cname>> /\ HoldsItsStep(w)
  BY WriterFrame DEF zone, Held
<1>3. job[w].ask \in Asks
  BY StepRuns
<1> HIDE DEF bare
<1>4. CASE List(w)
  <2>1. CASE job'[w].pc = "sync" /\ provider = "cloudflare"
    <3>1. /\ job'[w].ask = job[w].ask /\ job'[w].left = job[w].ask.vals
          /\ job'[w].kept = Kept(w) /\ job'[w].stale = Bare(rows) \ Kept(w)
      BY <1>2, <1>4, <2>1, ListGives DEF HoldsItsStep
    <3>2. Overwrites(w)' = Overwrites(w)
      BY <1>2, <3>1 DEF Overwrites
    <3>3. CASE bare \notin Kept(w)
      <4>1. bare \in job'[w].stale /\ Same(r, bare)'
        BY <1>1, <1>2, <2>1, <3>1, <3>3 DEF Same
      <4>2. QED
        BY <2>1, <4>1 DEF WillReplace, Running, At
    <3>4. CASE bare \in Kept(w)
      <4>1. Overwrites(w) => job'[w].left # {}
        BY <1>3, <3>1, SetHasValues DEF Overwrites
      <4>2. ~Overwrites(w) => r.val \in job'[w].left
        BY <1>1, <3>1, <3>4 DEF Kept, Bare
      <4>3. bare \in job'[w].kept
        BY <3>1, <3>4
      <4>4. QED
        BY <1>1, <2>1, <3>2, <4>1, <4>2, <4>3 DEF WillReplace, Running, At
    <3>5. QED
      BY <3>3, <3>4
  <2>2. QED
    BY <1>4, <2>1, ListGives DEF WillReplace, Early, Running, At
<1>5. CASE Put(w)
  BY <1>5, NewRowsWanted
<1>6. CASE Script(w)
  <2>1. bare \in job'[w].stale /\ job'[w].pc = "sync" /\ provider = "microsoft"
    BY <1>1, <1>2, <1>6, ScriptGives DEF HoldsItsStep
  <2>2. Same(r, bare)'
    BY <1>1, <1>2, <2>1 DEF Same
  <2>3. QED
    BY <2>1, <2>2 DEF WillReplace, Running, At
<1>7. CASE Remove(w)
  <2>1. PICK row \in job[w].stale : /\ rows' = {t \in rows : ~Same(t, row)}
                                    /\ job'[w].stale = job[w].stale \ {row}
    BY <1>7, RemoveGives
  <2>2. /\ job'[w].pc = "sync" /\ At(w, "sync") /\ job'[w].ask = job[w].ask
        /\ job'[w].left = job[w].left /\ job'[w].kept = job[w].kept
    BY <1>7, RemoveGives
  <2>3. \A s : Same(r, s)' = Same(r, s)
    BY <1>2 DEF Same
  <2>4. Overwrites(w)' = Overwrites(w)
    BY <1>2, <2>2 DEF Overwrites
  <2>5. \A s \in job[w].stale : Same(r, s) => s \in job'[w].stale
    BY <2>1
  <2>6. QED
    BY <2>2, <2>3, <2>4, <2>5 DEF WillReplace, Early, Running, At
<1>8. CASE Update(w)
  <2>1. PICK v \in job[w].left, row \in job[w].kept : Updates(w, v, row)
    BY <1>8, UpdateGives
  <2>2. r # [id |-> row.id, val |-> v, ttl |-> job[w].ask.ttl]
    BY <2>1 DEF Wanted, Updates
  <2>3. ~cname /\ r.id # row.id /\ r.val # v
    BY <2>1, <2>2 DEF Updates
  <2>4. PICK s \in job[w].kept : r.id = s.id /\ r.val \in job[w].left
    BY <1>8, <2>3, UpdateGives DEF WillReplace, Overwrites, Early, At
  <2>5. s \in job'[w].kept /\ r.val \in job'[w].left
    BY <2>1, <2>3, <2>4 DEF Updates
  <2>6. QED
    BY <1>8, <2>4, <2>5, UpdateGives DEF WillReplace, Running, At
<1>9. CASE Create(w)
  <2>1. PICK v \in job[w].left : /\ job'[w].left = job[w].left \ {v}
                                 /\ ~cname /\ r.val # v
    BY <1>9, CreateGives
  <2>2. PICK s \in job[w].kept : r.id = s.id /\ r.val \in job[w].left
    BY <1>9, <2>1, CreateGives DEF WillReplace, Overwrites, Early, At
  <2>3. s \in job'[w].kept /\ r.val \in job'[w].left
    BY <1>9, <2>1, <2>2, CreateGives
  <2>4. QED
    BY <1>9, <2>2, <2>3, CreateGives DEF WillReplace, Running, At
<1>10. CASE Finish(w)
  BY <1>10, FinishGives DEF WillReplace, Early, At
<1>11. CASE Fault(w)
  BY <1>11, FaultGives DEF WillReplace, Early, Running, At
<1>12. QED
  BY <1>4, <1>5, <1>6, <1>7, <1>8, <1>9, <1>10, <1>11 DEF WriterStep
LEMMA UnaskedLeaveKept ==
  ASSUME Shape, Held, Answerable, UnaskedLeave, [Next]_vars
  PROVE  UnaskedLeave'
<1>1. CASE Quiet
  BY <1>1 DEF Quiet, UnaskedLeave, Unasked, Running, At, WillReplace, Same, Overwrites
<1>2. ASSUME NEW w \in Writers, NEW ask \in Asks, Begin(w, ask),
             asked' # {}, NEW r \in rows', Unasked(r)'
      PROVE  Running' # {} /\ \A o \in Running' : WillReplace(o, r)'
  <2>1. w \in Running' /\ WillReplace(w, r)'
    BY <1>2, BeginGives DEF Running, At, WillReplace, Early
  <2>2. ASSUME NEW o \in Running', o # w PROVE WillReplace(o, r)'
    <3>1. job'[o] = job[o] /\ UNCHANGED <<provider, cname, rows>>
      BY <1>2, <2>2, BeginGives DEF Moves, Begin, Running
    <3>2. o \in Running
      BY <2>2, <3>1 DEF Running, At
    <3>3. asked # {} /\ asked' = asked \cup {ask}
      BY <1>2, <3>2 DEF Begin
    <3>4. r \in rows /\ Unasked(r)
      BY <1>2, <3>1, <3>3 DEF Unasked
    <3>5. WillReplace(o, r)
      BY <3>2, <3>3, <3>4 DEF UnaskedLeave
    <3>6. QED
      BY <3>1, <3>5 DEF WillReplace, Same, Overwrites
  <2>3. QED
    BY <2>1, <2>2
<1>3. ASSUME NEW w \in Writers, WriterStep(w),
             asked' # {}, NEW r \in rows', Unasked(r)'
      PROVE  Running' # {} /\ \A o \in Running' : WillReplace(o, r)'
  <2>1. asked' = asked /\ Moves(w) /\ UNCHANGED <<provider, cname>>
    BY <1>3, WriterFrame DEF zone
  <2>2. w \in Running /\ job[w].ask \in asked
    BY <1>3, <2>1, StepRuns DEF Answerable
  <2>3. <<r.val, r.ttl>> \notin Wanted(job[w].ask) /\ Unasked(r)
    BY <1>3, <2>1, <2>2 DEF Unasked
  <2>4. r \in rows
    BY <1>3, <2>3, NewRowsWanted
  <2>5. \A o \in Running : WillReplace(o, r)
    BY <1>3, <2>1, <2>3, <2>4 DEF UnaskedLeave
  <2>6. w \in Running' /\ WillReplace(w, r)'
    BY <1>3, <2>2, <2>3, <2>4, <2>5, StillReplaces
  <2>7. ASSUME NEW o \in Running', o # w PROVE WillReplace(o, r)'
    <3>1. job'[o] = job[o] /\ o \in Running
      BY <2>1, <2>7 DEF Moves, Running, At
    <3>2. QED
      BY <2>1, <2>5, <3>1 DEF WillReplace, Same, Overwrites
  <2>8. QED
    BY <2>6, <2>7
<1>4. QED
  BY <1>1, <1>2, <1>3, StepKinds DEF UnaskedLeave
-----------------------------------------------------------------------------
(* BIND, Azure and Cloudflare take no wanted value away: one call replaces *)
(* the RRset, stale rows are the unwanted ones, a row is updated in place. *)
LEMMA WantedStays ==
  ASSUME Shape, Held, NEW w \in Writers, WriterStep(w), provider # "microsoft",
         NEW r \in rows, r.val \in job[w].ask.vals
  PROVE  \E s \in rows' : s.val = r.val
<1>1. CASE rows \subseteq rows'
  BY <1>1
<1>2. CASE Put(w)
  <2> DEFINE ask == job[w].ask
  <2>1. ask \in Asks /\ rows' = AsRows(ask.vals, ask.ttl)
    BY <1>2, PutGives, StepRuns
  <2>2. ask.vals \in SUBSET Values /\ (ask.vals # {} => ask.ttl \in Ttls)
    BY <2>1 DEF Asks
  <2> HIDE DEF ask
  <2>3. \A v \in ask.vals : \E s \in AsRows(ask.vals, ask.ttl) : s.val = v
    BY <2>2, AsRowsWrites
  <2>4. QED
    BY <2>1, <2>3 DEF ask
<1>3. CASE Remove(w)
  BY <1>3, RemoveGives DEF Providers
<1>4. CASE Update(w)
  <2>1. PICK v \in job[w].left, row \in job[w].kept : Updates(w, v, row)
    BY <1>4, UpdateGives
  <2> DEFINE new == [id |-> row.id, val |-> v, ttl |-> job[w].ask.ttl]
  <2>2. new \in rows' /\ new.val = v
    BY <2>1 DEF Updates
  <2>3. r \in rows' \/ r.val = v
    BY <2>1 DEF Updates, Shape
  <2>4. QED
    BY <2>2, <2>3
<1>5. CASE Create(w)
  <2>1. rows \subseteq rows'
    BY <1>5, CreateGives
  <2>2. QED
    BY <1>1, <2>1
<1>6. QED
  BY <1>1, <1>2, <1>3, <1>4, <1>5, ListGives, ScriptGives, FinishGives, FaultGives DEF WriterStep

(* A wanted value that is there, or is still to be written, is so after    *)
(* the step; the script that removes it has it still to write.             *)
LEMMA WantedStillComes ==
  ASSUME Shape, Held, NEW w \in Writers, WriterStep(w), asked' # {},
         NEW v \in job[w].ask.vals, (\E r \in rows : r.val = v) \/ WillWrite(w, v)
  PROVE  (\E r \in rows' : r.val = v) \/ WillWrite(w, v)'
<1>1. HoldsItsStep(w) /\ job[w].ask \in Asks
  BY StepRuns DEF Held
<1>2. CASE List(w)
  BY <1>1, <1>2, ListGives, SetsValue DEF WillWrite, Early, HoldsItsStep
<1>3. CASE Put(w)
  <2> DEFINE ask == job[w].ask
  <2>1. ask \in Asks /\ rows' = AsRows(ask.vals, ask.ttl)
    BY <1>3, PutGives, StepRuns
  <2>2. ask.vals \in SUBSET Values /\ (ask.vals # {} => ask.ttl \in Ttls)
    BY <2>1 DEF Asks
  <2> HIDE DEF ask
  <2>3. \A u \in ask.vals : \E s \in AsRows(ask.vals, ask.ttl) : s.val = u
    BY <2>2, AsRowsWrites
  <2>4. QED
    BY <2>1, <2>3 DEF ask
<1>4. CASE Script(w)
  BY <1>4, ScriptGives DEF WillWrite
<1>5. CASE Remove(w)
  BY <1>5, RemoveGives DEF WillWrite
<1>6. CASE Update(w)
  <2>1. PICK u \in job[w].left, row \in job[w].kept : Updates(w, u, row)
    BY <1>6, UpdateGives
  <2>2. CASE \E r \in rows : r.val = v
    BY <1>6, <2>2, UpdateGives, WantedStays
  <2>3. CASE v = u
    <3> DEFINE new == [id |-> row.id, val |-> u, ttl |-> job[w].ask.ttl]
    <3>1. new \in rows' /\ new.val = v
      BY <2>1, <2>3 DEF Updates
    <3>2. QED
      BY <3>1
  <2>4. CASE WillWrite(w, v) /\ v # u
    BY <1>6, <2>1, <2>4, UpdateGives DEF WillWrite, Updates, Early, At
  <2>5. QED
    BY <2>2, <2>3, <2>4
<1>7. CASE Create(w)
  <2>1. PICK u \in job[w].left, id \in Ids \ UsedIds :
          LET new == [id |-> id, val |-> u, ttl |-> job[w].ask.ttl] IN
          job'[w].left = job[w].left \ {u} /\ rows' = rows \cup {new}
    BY <1>7, CreateGives
  <2>2. CASE v = u
    <3> DEFINE new == [id |-> id, val |-> u, ttl |-> job[w].ask.ttl]
    <3>1. new \in rows' /\ new.val = v
      BY <2>1, <2>2
    <3>2. QED
      BY <3>1
  <2>3. CASE v # u
    BY <1>7, <2>1, <2>3, CreateGives DEF WillWrite, Early, At
  <2>4. QED
    BY <2>2, <2>3
<1>8. CASE Finish(w)
  BY <1>8, FinishGives DEF WillWrite, Early, At
<1>9. CASE Fault(w)
  BY <1>9, FaultGives DEF WillWrite, Early
<1>10. QED
  BY <1>2, <1>3, <1>4, <1>5, <1>6, <1>7, <1>8, <1>9 DEF WriterStep
LEMMA WantedComeKept ==
  ASSUME Shape, Held, Answerable, WantedCome, [Next]_vars
  PROVE  WantedCome'
<1>1. CASE Quiet
  BY <1>1 DEF Quiet, WantedCome, WillWrite
<1>2. ASSUME NEW w \in Writers, NEW ask \in Asks, Begin(w, ask) PROVE WantedCome'
  BY <1>2, BeginGives DEF WantedCome, WillWrite, Early
<1>3. ASSUME NEW w \in Writers, WriterStep(w),
             NEW ask \in asked', asked' = {ask}, NEW v \in ask.vals
      PROVE  (\E r \in rows' : r.val = v) \/ \E o \in Writers : WillWrite(o, v)'
  <2>1. asked' = asked /\ Moves(w)
    BY <1>3, WriterFrame
  <2>2. job[w].ask = ask
    BY <1>3, <2>1, StepRuns DEF Answerable
  <2>3. (\E r \in rows : r.val = v) \/ \E o \in Writers : WillWrite(o, v)
    BY <1>3, <2>1 DEF WantedCome
  <2>4. CASE (\E r \in rows : r.val = v) \/ WillWrite(w, v)
    BY <1>3, <2>2, <2>4, WantedStillComes
  <2>5. CASE \E o \in Writers \ {w} : WillWrite(o, v)
    BY <2>1, <2>5 DEF WillWrite, Moves
  <2>6. QED
    BY <2>3, <2>4, <2>5
<1>4. QED
  BY <1>1, <1>2, <1>3, StepKinds DEF WantedCome

Pending(w) == job[w].pc \in Early \/ job[w].left # {}

(* A writer that sets values and leaves the name empty has them to write. *)
LEMMA EmptiesPending ==
  ASSUME Shape, Held, NEW w \in Writers, WriterStep(w), asked' # {},
         job[w].ask.op = "set", rows' = {}, rows # {} \/ Pending(w)
  PROVE  Pending(w)'
<1>1. HoldsItsStep(w) /\ job[w].ask \in Asks /\ job[w].ask.vals # {}
  BY StepRuns, SetHasValues DEF Held
<1>2. CASE List(w)
  BY <1>1, <1>2, ListGives DEF Pending, HoldsItsStep
<1>3. CASE Put(w)
  <2> DEFINE ask == job[w].ask
  <2>1. ask \in Asks /\ rows' = AsRows(ask.vals, ask.ttl) /\ ask.vals # {}
    BY <1>1, <1>3, PutGives
  <2>2. ask.vals \in SUBSET Values /\ (ask.vals # {} => ask.ttl \in Ttls)
    BY <2>1 DEF Asks
  <2> HIDE DEF ask
  <2>3. \A u \in ask.vals : \E s \in AsRows(ask.vals, ask.ttl) : s.val = u
    BY <2>2, AsRowsWrites
  <2>4. QED
    BY <2>1, <2>3
<1>4. CASE Script(w)
  BY <1>1, <1>4, ScriptGives DEF Pending
<1>5. CASE Remove(w)
  BY <1>1, <1>5, RemoveGives DEF Pending
<1>6. CASE Update(w)
  BY <1>6, UpdateGives DEF Updates
<1>7. CASE Create(w)
  BY <1>7, CreateGives
<1>8. CASE Finish(w)
  BY <1>8, FinishGives DEF Pending, Early, At
<1>9. CASE Fault(w)
  BY <1>9, FaultGives DEF Pending, Early
<1>10. QED
  BY <1>2, <1>3, <1>4, <1>5, <1>6, <1>7, <1>8, <1>9 DEF WriterStep

LEMMA NameReturnsKept ==
  ASSUME Shape, Held, Answerable, NameReturns, [Next]_vars
  PROVE  NameReturns'
<1>1. CASE Quiet
  BY <1>1 DEF Quiet, NameReturns
<1>2. ASSUME NEW w \in Writers, NEW ask \in Asks, Begin(w, ask) PROVE NameReturns'
  BY <1>2, BeginGives DEF NameReturns, Early
<1>3. ASSUME NEW w \in Writers, WriterStep(w), asked' # {}, rows' = {},
             ~\E ask \in asked' : ask.op = "delete"
      PROVE  \E o \in Writers : Pending(o)'
  <2>1. asked' = asked /\ Moves(w)
    BY <1>3, WriterFrame
  <2>2. job[w].ask \in asked /\ job[w].ask \in Asks
    BY <1>3, <2>1, StepRuns DEF Answerable
  <2>3. job[w].ask.op = "set"
    BY <1>3, <2>1, <2>2 DEF Asks
  <2>4. rows # {} \/ \E o \in Writers : Pending(o)
    BY <1>3, <2>1 DEF NameReturns, Pending
  <2>5. CASE rows # {} \/ Pending(w)
    BY <1>3, <2>3, <2>5, EmptiesPending
  <2>6. CASE \E o \in Writers \ {w} : Pending(o)
    BY <2>1, <2>6 DEF Pending, Moves
  <2>7. QED
    BY <2>4, <2>5, <2>6
<1>4. QED
  BY <1>1, <1>2, <1>3, StepKinds DEF NameReturns, Pending
-----------------------------------------------------------------------------
(* One DNS UPDATE or one PUT leaves exactly what was asked. *)
LEMMA PutReplaces ==
  ASSUME Shape, Held, NEW w \in Writers, Put(w)
  PROVE  Content' = Wanted(job[w].ask)
<1> DEFINE ask == job[w].ask
<1>1. ask \in Asks /\ rows' = AsRows(ask.vals, ask.ttl)
  BY PutGives, StepRuns DEF WriterStep
<1>2. ask.vals \in SUBSET Values /\ (ask.vals # {} => ask.ttl \in Ttls)
  BY <1>1 DEF Asks
<1> HIDE DEF ask
<1>3. /\ \A r \in rows' : r.val \in ask.vals /\ r.ttl = ask.ttl
      /\ \A v \in ask.vals : \E r \in rows' : r.val = v
  BY <1>1, <1>2, AsRowsWrites
<1>4. Content' \subseteq Wanted(ask)
  BY <1>3 DEF Content, Wanted
<1>5. ASSUME NEW v \in ask.vals PROVE <<v, ask.ttl>> \in Content'
  <2>1. PICK r \in rows' : r.val = v /\ r.ttl = ask.ttl
    BY <1>3
  <2>2. QED
    BY <2>1 DEF Content
<1>6. Wanted(ask) \subseteq Content'
  BY <1>5 DEF Wanted
<1>7. QED
  BY <1>4, <1>6 DEF ask

LEMMA OneCallKept ==
  ASSUME Shape, Held, Answerable, OneCall, [Next]_vars
  PROVE  OneCall'
<1>1. CASE Quiet
  BY <1>1 DEF Quiet, OneCall, Content, Running, At
<1>2. ASSUME NEW w \in Writers, NEW ask \in Asks, Begin(w, ask) PROVE OneCall'
  <2>1. /\ UNCHANGED <<provider, rows>>
        /\ asked' = IF Running = {} THEN {ask} ELSE IF asked = {} THEN {} ELSE asked \cup {ask}
    BY <1>2 DEF Begin
  <2>2. /\ w \in Running' /\ job'[w].pc \in Early
        /\ \A o \in Running' : o = w \/ (o \in Running /\ job'[o] = job[o])
    BY <1>2, BeginGives DEF Running, At, Moves, Early
  <2>3. Content' = Content
    BY <2>1 DEF Content
  <2>4. CASE Running = {}
    BY <2>2, <2>4 DEF OneCall
  <2>5. CASE Running # {} /\ asked # {}
    BY <2>1, <2>2, <2>3, <2>5 DEF OneCall
  <2>6. QED
    BY <2>1, <2>4, <2>5 DEF OneCall
<1>3. ASSUME NEW w \in Writers, WriterStep(w), provider' \in {"bind", "azure"}, asked' # {}
      PROVE  \/ \E ask \in asked' : Content' = Wanted(ask)
             \/ Running' # {} /\ \A o \in Running' : job'[o].pc \in Early
  <2>1. asked' = asked /\ Moves(w) /\ provider \in {"bind", "azure"}
    BY <1>3, WriterFrame DEF zone
  <2>2. w \in Running /\ job[w].ask \in asked /\ HoldsItsStep(w)
    BY <1>3, <2>1, StepRuns DEF Answerable, Held
  <2>3. CASE Put(w)
    BY <2>1, <2>2, <2>3, PutReplaces
  <2>4. ASSUME ~Put(w) PROVE rows' = rows
    BY <1>3, <2>1, <2>2, <2>4, ListGives, ScriptGives, RemoveGives, UpdateGives, CreateGives,
       FinishGives, FaultGives DEF WriterStep, HoldsItsStep
  <2>5. CASE ~Put(w) /\ \E ask \in asked : Content = Wanted(ask)
    BY <2>1, <2>4, <2>5 DEF Content
  <2>6. CASE ~Put(w) /\ \A o \in Running : job[o].pc \in Early
    <3>1. CASE List(w) /\ job'[w].pc = "idle"
      <4>1. rows = {} /\ job[w].ask.op = "delete" /\ job[w].ask \in Asks
        BY <1>3, <3>1, ListGives, StepRuns
      <4>2. Wanted(job[w].ask) = {}
        BY <4>1 DEF Wanted, Asks
      <4>3. Content' = {}
        BY <2>4, <2>6, <4>1 DEF Content
      <4>4. QED
        BY <2>1, <2>2, <4>2, <4>3
    <3>2. CASE List(w) /\ job'[w].pc # "idle"
      <4>1. w \in Running' /\ job'[w].pc \in Early
        BY <2>1, <3>2, ListGives DEF Running, At, Early
      <4>2. \A o \in Running' : o = w \/ (o \in Running /\ job'[o] = job[o])
        BY <2>1 DEF Running, At, Moves
      <4>3. QED
        BY <2>6, <4>1, <4>2
    <3>3. CASE ~List(w)
      <4>1. job[w].pc \in Early
        BY <2>2, <2>6
      <4>2. QED
        BY <1>3, <2>1, <2>2, <2>6, <3>3, <4>1, ScriptGives, RemoveGives, UpdateGives, CreateGives,
           FinishGives, FaultGives DEF WriterStep, Early, At, HoldsItsStep
    <3>4. QED
      BY <3>1, <3>2, <3>3
  <2>7. QED
    BY <2>1, <2>2, <2>3, <2>5, <2>6 DEF OneCall
<1>4. QED
  BY <1>1, <1>2, <1>3, StepKinds DEF OneCall
-----------------------------------------------------------------------------
(* The parts together, and the slots of the zone transfers. *)
LEMMA SlotsKept == ASSUME SlotsCounted, [Next]_vars PROVE SlotsCounted'
<1>1. CASE UNCHANGED <<slots, browse>>
  BY <1>1 DEF SlotsCounted, Streaming
<1>2. ASSUME NEW b \in Browsers, Transfer(b) PROVE SlotsCounted'
  <2>1. Streaming' = Streaming \cup {b} /\ b \notin Streaming
    BY <1>2 DEF Transfer, SlotsCounted, Streaming
  <2>2. IsFiniteSet(Streaming') /\ Cardinality(Streaming') = Cardinality(Streaming) + 1
    BY <2>1, FS_AddElement DEF SlotsCounted
  <2>3. Cardinality(Streaming) \in Nat
    BY FS_CardinalityType DEF SlotsCounted
  <2>4. QED
    BY <1>2, <2>2, <2>3, WritersAssumption DEF Transfer, SlotsCounted
<1>3. ASSUME NEW b \in Browsers, TransferEnds(b) PROVE SlotsCounted'
  <2>1. Streaming' = Streaming \ {b} /\ b \in Streaming
    BY <1>3 DEF TransferEnds, SlotsCounted, Streaming
  <2>2. IsFiniteSet(Streaming') /\ Cardinality(Streaming') = Cardinality(Streaming) - 1
    BY <2>1, FS_RemoveElement DEF SlotsCounted
  <2>3. Cardinality(Streaming) \in Nat
    BY FS_CardinalityType DEF SlotsCounted
  <2>4. QED
    BY <1>3, <2>2, <2>3, WritersAssumption DEF TransferEnds, SlotsCounted
<1>4. ASSUME NEW w \in Writers, WriterStep(w) PROVE UNCHANGED <<slots, browse>>
  BY <1>4 DEF WriterStep, List, Put, Script, Remove, Update, Create, Finish, Fault, zone
<1>5. QED
  BY <1>1, <1>2, <1>3, <1>4 DEF Next, vars, Begin

LEMMA WritesInvariant == Spec => [](WriteInv /\ SlotsCounted)
<1>1. Init => WriteInv /\ SlotsCounted
  BY AtTheStart
<1>2. WriteInv /\ SlotsCounted /\ [Next]_vars => (WriteInv /\ SlotsCounted)'
  BY ShapeKept, HeldKept, AnswerableKept, UnaskedLeaveKept, WantedComeKept,
     NameReturnsKept, OneCallKept, SlotsKept DEF WriteInv
<1>3. QED
  BY <1>1, <1>2, PTL DEF Spec

(* TypeOK of RecordWriters: the rows of an RRset keep one id and one value *)
(* each (_list_records, _create_record), a CNAME has one row, and every    *)
(* transfer slot of _iter_axfr_rrsets is free or held by a transfer that   *)
(* runs.                                                                   *)
THEOREM WriterTypes == Spec => []TypeOK
<1>1. WriteInv /\ SlotsCounted => TypeOK
  <2> SUFFICES ASSUME WriteInv, SlotsCounted PROVE TypeOK
    OBVIOUS
  <2>1. IsFiniteSet(rows) /\ (cname => Cardinality(rows) <= 1)
    BY RowsFinite, OneByCount DEF WriteInv, Shape
  <2>2. slots + Cardinality({b \in Browsers : browse[b] = "streaming"}) = Slots
    BY DEF SlotsCounted, Streaming
  <2>3. QED
    BY <2>1, <2>2 DEF WriteInv, Shape, RowsApart, Job, SlotsCounted, TypeOK
<1>2. QED
  BY <1>1, WritesInvariant, PTL

(* SettledAsAsked: an RRset at rest, after writes that all succeeded, is   *)
(* what they asked for (create_or_update_record of the four plugins,       *)
(* _sync_records, _run_ps_with_retry).                                     *)
THEOREM WritesSettle == Spec => []SettledAsAsked
<1>1. WriteInv => SettledAsAsked
  <2> SUFFICES ASSUME WriteInv, AtRest PROVE
        /\ \A ask \in asked : asked = {ask} => Content = Wanted(ask)
        /\ provider \in {"bind", "azure"} => \E ask \in asked : Content = Wanted(ask)
        /\ Content \subseteq UNION {Wanted(ask) : ask \in asked}
        /\ rows = {} => \E ask \in asked : ask.op = "delete"
    BY DEF SettledAsAsked
  <2>1. asked # {} /\ \A w \in Writers : At(w, "idle")
    BY DEF AtRest, Running
  <2>2. \A w \in Writers : job[w].pc \notin Early /\ job[w].left = {}
    BY <2>1 DEF At, Early, WriteInv, Held, HoldsItsStep
  <2>3. \A r \in rows : \E ask \in asked : <<r.val, r.ttl>> \in Wanted(ask)
    BY <2>1 DEF AtRest, WriteInv, UnaskedLeave, Unasked
  <2>4. Content \subseteq UNION {Wanted(ask) : ask \in asked}
    BY <2>3 DEF Content
  <2>5. ASSUME NEW ask \in asked, asked = {ask} PROVE Wanted(ask) \subseteq Content
    <3> SUFFICES ASSUME NEW v \in ask.vals PROVE <<v, ask.ttl>> \in Content
      BY DEF Wanted
    <3>1. PICK r \in rows : r.val = v
      BY <2>2, <2>5 DEF WriteInv, WantedCome, WillWrite
    <3>2. <<r.val, r.ttl>> \in Wanted(ask)
      BY <2>3, <2>5
    <3>3. r.ttl = ask.ttl
      BY <3>2 DEF Wanted
    <3>4. QED
      BY <3>1, <3>3 DEF Content
  <2>6. rows = {} => \E ask \in asked : ask.op = "delete"
    BY <2>1, <2>2 DEF WriteInv, NameReturns
  <2>7. provider \in {"bind", "azure"} => \E ask \in asked : Content = Wanted(ask)
    BY DEF AtRest, WriteInv, OneCall
  <2>8. QED
    BY <2>4, <2>5, <2>6, <2>7
<1>2. QED
  BY <1>1, WritesInvariant, PTL

(* Setting a CNAME never leaves the name without one. *)
LEMMA CnameStays ==
  ASSUME Shape, Held, NEW w \in Writers, WriterStep(w), provider # "microsoft",
         job[w].ask.op = "set", cname, rows # {}
  PROVE  rows' # {}
<1>1. job[w].ask \in Asks /\ job[w].ask.vals # {}
  BY StepRuns, SetHasValues
<1>2. CASE Put(w)
  <2> DEFINE ask == job[w].ask
  <2>1. ask \in Asks /\ rows' = AsRows(ask.vals, ask.ttl) /\ ask.vals # {}
    BY <1>1, <1>2, PutGives
  <2>2. ask.vals \in SUBSET Values /\ (ask.vals # {} => ask.ttl \in Ttls)
    BY <2>1 DEF Asks
  <2> HIDE DEF ask
  <2>3. \A u \in ask.vals : \E s \in AsRows(ask.vals, ask.ttl) : s.val = u
    BY <2>2, AsRowsWrites
  <2>4. QED
    BY <2>1, <2>3
<1>3. CASE Remove(w)
  BY <1>3, RemoveGives DEF Overwrites
<1>4. CASE Update(w)
  BY <1>4, UpdateGives DEF Updates
<1>5. CASE Create(w)
  BY <1>5, CreateGives
<1>6. QED
  BY <1>2, <1>3, <1>4, <1>5, ListGives, ScriptGives, FinishGives, FaultGives DEF WriterStep

(* KeptValuesStay: while a lone write of BIND, Azure or Cloudflare is at   *)
(* work, the values it wants and finds are answered at every step          *)
(* (create_or_update_record; _sync_records deletes the stale rows only and *)
(* overwrites a CNAME).                                                    *)
THEOREM LoneWriteKeepsValues == Spec => KeptValuesStay
<1>1. ASSUME WriteInv, [Next]_vars, NEW w \in Writers,
             Running = {w}, Running' = {w}, asked = {job[w].ask},
             provider # "microsoft", job[w].ask.op = "set"
      PROVE  /\ {c[1] : c \in Content} \cap job[w].ask.vals \subseteq {c[1] : c \in Content'}
             /\ (cname /\ rows # {}) => rows' # {}
  <2>1. \/ rows' = rows
        \/ WriterStep(w)
    <3>1. ASSUME NEW o \in Writers, WriterStep(o) PROVE o = w
      BY <1>1, <3>1, StepRuns DEF WriteInv
    <3>2. QED
      BY <1>1, <3>1, StepKinds DEF Quiet, Begin
  <2>2. ASSUME NEW c \in Content, c[1] \in job[w].ask.vals
        PROVE  \E d \in Content' : d[1] = c[1]
    <3>1. PICK r \in rows : c = <<r.val, r.ttl>>
      BY DEF Content
    <3>2. PICK s \in rows' : s.val = r.val
      BY <1>1, <2>1, <2>2, <3>1, WantedStays DEF WriteInv
    <3>3. <<s.val, s.ttl>> \in Content'
      BY DEF Content
    <3>4. QED
      BY <3>1, <3>2, <3>3
  <2>3. {c[1] : c \in Content} \cap job[w].ask.vals \subseteq {c[1] : c \in Content'}
    <3> SUFFICES ASSUME NEW x \in {c[1] : c \in Content} \cap job[w].ask.vals
                 PROVE  x \in {c[1] : c \in Content'}
      OBVIOUS
    <3>1. PICK c \in Content : x = c[1]
      OBVIOUS
    <3>2. QED
      BY <2>2, <3>1
  <2>4. (cname /\ rows # {}) => rows' # {}
    BY <1>1, <2>1, CnameStays DEF WriteInv
  <2>5. QED
    BY <2>3, <2>4
<1> DEFINE Lone(w) ==
      (Running = {w} /\ Running' = {w} /\ asked = {job[w].ask} /\ provider # "microsoft"
         /\ job[w].ask.op = "set") =>
            /\ {c[1] : c \in Content} \cap job[w].ask.vals \subseteq {c[1] : c \in Content'}
            /\ (cname /\ rows # {}) => rows' # {}
<1>2. WriteInv /\ [Next]_vars => [\A w \in Writers : Lone(w)]_vars
  BY <1>1
<1>3. QED
  BY <1>2, WritesInvariant, PTL DEF Spec, KeptValuesStay
=============================================================================
