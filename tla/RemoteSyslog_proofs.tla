------------------------ MODULE RemoteSyslog_proofs ------------------------
(***************************************************************************)
(* Proofs about RemoteSyslog, for any number of events, administrators,    *)
(* settings and servers: types and the bound of the queue, nothing goes to *)
(* the stream of a configuration that was replaced, the forwarder runs     *)
(* with what is stored, and events arrive in the order of acceptance.      *)
(***************************************************************************)
EXTENDS RemoteSyslog, TLAPS, SequenceTheorems

Streaming == {"open", "install", "sendall", "reopen", "reinstall", "resend"}
Sending == Streaming \cup {"begin", "sendto"}
Waiting == {"wait", "check"}

StreamOf == {None} \cup [host: Hosts, proto: {"tls"}]
Queue == [size: 0..MaxSize, items: Seq(Events)]
EventRow == [pc: {"new", "read", "loaded", "queued"} \cup Fates, cfg: {None} \cup Config, q: Generations]
WorkerRow == [pc: Waiting \cup Sending, q: Generations, item: {None} \cup Events, cfg: {None} \cup Config]
SaverRow == [row: 0..Configuring, set: {None} \cup Settings]

(* The conjuncts of TypeOK, and what a saver holds at its steps. *)
Saving ==
    /\ stored \in Settings
    /\ saver \in [Savers -> SaverRow]
    /\ \A a \in Savers : saver[a].row # 0 => saver[a].set \in Settings

Queueing ==
    /\ config \in Config
    /\ queues \in [Generations -> Queue]
    /\ current \in Generations
    /\ queues[current].size = config.set.size
    /\ Len(queues[current].items) <= config.set.size
    /\ event \in [Events -> EventRow]
    /\ accepted \in Seq(Events) /\ sent \in Seq(Events)

Sockets == stream \in StreamOf /\ udp \in BOOLEAN

(* What the worker holds: the configuration it read may have been replaced *)
(* since, but one of the same generation is the one in force; and then its *)
(* stream is open only under the configuration it read.                    *)
Working ==
    /\ worker \in WorkerRow
    /\ worker.pc # "wait" => worker.item \in Events
    /\ worker.pc \in Sending =>
         /\ worker.cfg \in Config
         /\ worker.cfg.gen <= config.gen
         /\ worker.cfg.gen = config.gen => worker.cfg = config
         /\ stream = None \/ worker.cfg = config
    /\ worker.pc \in Streaming => worker.cfg.set.proto = "tls"
    /\ worker.pc = "sendto" => worker.cfg.set.proto = "udp"

Inv == Saving /\ Queueing /\ Sockets /\ Working

LEMMA Constants ==
  /\ MaxSize \in Nat /\ MaxGen \in Nat /\ 0 \in Generations /\ 1 \in Generations
  /\ Generations \subseteq Nat
  /\ Requested \subseteq Settings /\ First \in Settings /\ Effective(First) = First
  /\ None \notin Settings /\ None \notin Events
BY SyslogAssumption DEF Generations, Effective

LEMMA EffectiveType ==
  ASSUME NEW set \in Settings
  PROVE  Effective(set) \in Settings
BY DEF Effective, Settings

LEMMA TenRows == DOMAIN Rows = 1..5 /\ Len(Rows) = 5 /\ Applying = 6 /\ Configuring = 7
BY DEF Rows, Applying, Configuring

(* The youngest n events of a queue *)
LEMMA LastOfType ==
  ASSUME NEW s \in Seq(Events), NEW n \in Nat
  PROVE  LastOf(s, n) \in Seq(Events) /\ Len(LastOf(s, n)) <= n
<1> DEFINE m == IF Len(s) > n THEN Len(s) - n + 1 ELSE 1
<1>1. Len(s) \in Nat
  BY LenProperties
<1>2. m \in 1..Len(s)+1 /\ Len(s) - m + 1 <= n
  BY <1>1
<1>3. \A i \in m..Len(s) : s[i] \in Events
  BY <1>1, <1>2, ElementOfSeq
<1>4. /\ SubSeq(s, m, Len(s)) \in Seq(Events)
      /\ Len(SubSeq(s, m, Len(s))) = IF m <= Len(s) THEN Len(s) - m + 1 ELSE 0
  BY <1>1, <1>2, <1>3, SubSeqProperties
<1>5. QED
  BY <1>1, <1>2, <1>4 DEF LastOf

(* A process that has just applied the settings *)
LEMMA Booted ==
  ASSUME NEW set \in Settings, Boot(set)
  PROVE  /\ config' \in Config /\ config'.set = set
         /\ queues' \in [Generations -> Queue] /\ current' \in Generations
         /\ queues'[current'].size = config'.set.size
         /\ Len(queues'[current'].items) <= config'.set.size
         /\ Sockets' /\ worker' \in WorkerRow /\ worker'.pc = "wait"
<1>1. set.size \in 1..MaxSize
  BY DEF Settings
<1>2. config' = [set |-> set, gen |-> 1] /\ current' = 1 /\ stream' = None /\ udp' = FALSE
      /\ worker' = [pc |-> "wait", q |-> 1, item |-> None, cfg |-> None]
  BY DEF Boot, Ready
<1>3. queues' = [g \in Generations |-> IF g = 1 THEN [size |-> set.size, items |-> <<>>]
                                       ELSE [size |-> 0, items |-> <<>>]]
  BY DEF Boot, NoQueue
<1>4. queues' \in [Generations -> Queue]
  BY <1>1, <1>3, Constants DEF Queue
<1>5. queues'[1].size = set.size /\ queues'[1].items = <<>>
  BY <1>3, Constants
<1>6. Len(queues'[1].items) <= set.size
  BY <1>1, <1>5
<1>7. QED
  BY <1>2, <1>4, <1>5, <1>6, Constants DEF Config, Sockets, StreamOf, WorkerRow, Waiting

-----------------------------------------------------------------------------
(* Saving the settings *)

LEMMA SavingStays ==
  ASSUME Saving, UNCHANGED <<stored, saver>>
  PROVE  Saving'
BY DEF Saving

LEMMA SaverGoes ==
  ASSUME Saving, NEW a \in Savers, NEW r \in SaverRow, r.row # 0 => r.set \in Settings,
         saver' = [saver EXCEPT ![a] = r], stored' \in Settings
  PROVE  Saving'
BY DEF Saving

LEMMA SubmitInv ==
  ASSUME Inv, NEW a \in Savers, NEW set \in Requested, Submit(a, set)
  PROVE  Inv'
<1>1. set \in Settings /\ stored \in Settings
  BY Constants DEF Inv, Saving
<1> DEFINE r == [row |-> 1, set |-> set]
<1>2. r \in SaverRow /\ r.row # 0 /\ r.set = set
  BY <1>1, TenRows DEF SaverRow
<1>3. saver' = [saver EXCEPT ![a] = r] /\ stored' = stored
  BY DEF Submit
<1> HIDE DEF r
<1>4. Saving'
  BY <1>1, <1>2, <1>3, SaverGoes DEF Inv
<1>5. QED
  BY <1>4 DEF Submit, Inv, Queueing, Sockets, Working, sockets

LEMMA OneField ==
  ASSUME NEW old \in Settings, NEW new \in Settings, NEW i \in DOMAIN Rows
  PROVE  [old EXCEPT ![Rows[i]] = new[Rows[i]]] \in Settings
<1>1. Rows[i] \in {"enabled", "host", "proto", "size", "plain"}
  BY TenRows DEF Rows
<1>2. CASE Rows[i] = "enabled"
  BY <1>2 DEF Settings
<1>3. CASE Rows[i] = "host"
  BY <1>3 DEF Settings
<1>4. CASE Rows[i] = "proto"
  BY <1>4 DEF Settings
<1>5. CASE Rows[i] = "size"
  BY <1>5 DEF Settings
<1>6. CASE Rows[i] = "plain"
  BY <1>6 DEF Settings
<1>7. QED
  BY <1>1, <1>2, <1>3, <1>4, <1>5, <1>6

LEMMA StoreRowInv ==
  ASSUME Inv, NEW a \in Savers, StoreRow(a)
  PROVE  Inv'
<1> DEFINE old == saver[a]
           r == [old EXCEPT !.row = @ + 1]
<1>1. old \in SaverRow /\ old.row \in 1..5 /\ old.set \in Settings
  BY TenRows DEF StoreRow, Inv, Saving
<1>2. saver' = [saver EXCEPT ![a] = r]
  BY DEF StoreRow
<1>3. stored' = [stored EXCEPT ![Rows[old.row]] = old.set[Rows[old.row]]]
  BY DEF StoreRow
<1> HIDE DEF old
<1>4. r \in SaverRow /\ r.set = old.set
  BY <1>1, TenRows DEF SaverRow
<1> HIDE DEF r
<1>5. stored' \in Settings
  BY <1>1, <1>3, OneField, TenRows DEF Inv, Saving
<1>6. Saving'
  BY <1>1, <1>2, <1>4, <1>5, SaverGoes DEF Inv
<1>7. QED
  BY <1>6 DEF StoreRow, Inv, Queueing, Sockets, Working, sockets

LEMMA ReadRowsInv ==
  ASSUME Inv, NEW a \in Savers, ReadRows(a)
  PROVE  Inv'
<1> DEFINE r == [row |-> Configuring, set |-> Effective(stored)]
<1>1. stored \in Settings /\ Effective(stored) \in Settings
  BY EffectiveType DEF Inv, Saving
<1>2. saver' = [saver EXCEPT ![a] = r] /\ stored' = stored
  BY DEF ReadRows
<1>3. r \in SaverRow /\ r.set \in Settings
  BY <1>1, TenRows DEF SaverRow
<1> HIDE DEF r
<1>4. Saving'
  BY <1>1, <1>2, <1>3, SaverGoes DEF Inv
<1>5. QED
  BY <1>4 DEF ReadRows, Inv, Queueing, Sockets, Working, sockets

(* The queue is made again when its size changes, and no stream is left.   *)
LEMMA ConfigureInv ==
  ASSUME Inv, NEW a \in Savers, Configure(a)
  PROVE  Inv'
<1> DEFINE set == saver[a].set
           pending == queues[current].items
           kept == LastOf(pending, set.size)
           g == config.gen + 1
<1>1. /\ set \in Settings /\ set.size \in 1..MaxSize
      /\ pending \in Seq(Events)
      /\ config.gen \in Nat /\ g \in Generations
  <2>1. saver[a].row # 0
    BY TenRows DEF Configure
  <2>2. set \in Settings
    BY <2>1 DEF Inv, Saving
  <2>3. queues[current] \in Queue /\ config \in Config
    BY DEF Inv, Queueing
  <2>4. QED
    BY <2>2, <2>3, Constants DEF Settings, Queue, Config, Configure
<1>2. /\ config' = [set |-> set, gen |-> g]
      /\ stream' = None /\ udp' = FALSE
      /\ saver' = [saver EXCEPT ![a] = Asleep]
      /\ UNCHANGED <<stored, worker, accepted, sent>>
  BY DEF Configure
<1>3. \/ set.size = queues[current].size /\ UNCHANGED <<queues, current, event>>
      \/ /\ queues' = [queues EXCEPT ![current].items = <<>>,
                                     ![g] = [size |-> set.size, items |-> kept]]
         /\ current' = g
         /\ event' = [e \in Events |-> IF e \in Range(pending) \ Range(kept)
                                       THEN Fate("dropped") ELSE event[e]]
  BY DEF Configure
<1>4. Len(queues[current].items) <= queues[current].size
  BY DEF Inv, Queueing
<1>5. kept \in Seq(Events) /\ Len(kept) <= set.size
  BY <1>1, LastOfType, Constants
<1> HIDE DEF set, pending, kept, g
<1>6. Saving'
  <2>1. Asleep \in SaverRow /\ Asleep.row = 0
    BY TenRows DEF Asleep, SaverRow
  <2>2. QED
    BY <1>2, <2>1, SaverGoes DEF Inv, Saving
<1>7. config' \in Config /\ config'.set = set /\ config'.gen = g
  BY <1>1, <1>2 DEF Config
<1>8. Queueing'
  <2>1. CASE set.size = queues[current].size /\ UNCHANGED <<queues, current, event>>
    BY <1>2, <1>4, <1>7, <2>1 DEF Inv, Queueing
  <2>2. CASE /\ queues' = [queues EXCEPT ![current].items = <<>>,
                                         ![g] = [size |-> set.size, items |-> kept]]
             /\ current' = g
             /\ event' = [e \in Events |-> IF e \in Range(pending) \ Range(kept)
                                           THEN Fate("dropped") ELSE event[e]]
    <3> DEFINE new == [size |-> set.size, items |-> kept]
               emptied == [queues EXCEPT ![current].items = <<>>]
    <3>1. new \in Queue /\ new.size = set.size /\ new.items = kept
      BY <1>1, <1>5, Constants DEF Queue
    <3>2. emptied \in [Generations -> Queue]
      <4> DEFINE old == queues[current]
                 empty == [old EXCEPT !.items = <<>>]
      <4>1. old \in Queue /\ emptied = [queues EXCEPT ![current] = empty]
        BY DEF Inv, Queueing
      <4> HIDE DEF old, emptied
      <4>2. <<>> \in Seq(Events)
        BY EmptySeq
      <4>3. empty \in Queue
        BY <4>1, <4>2 DEF Queue
      <4> HIDE DEF empty
      <4>4. QED
        BY <4>1, <4>3 DEF Inv, Queueing
    <3>3. queues' = [emptied EXCEPT ![g] = new]
      BY <2>2
    <3> HIDE DEF new, emptied
    <3>4. queues' \in [Generations -> Queue] /\ queues'[current'] = new
      BY <1>1, <2>2, <3>1, <3>2, <3>3
    <3>5. Fate("dropped") \in EventRow
      BY Constants DEF Fate, EventRow, Fates
    <3>6. event' \in [Events -> EventRow]
      BY <2>2, <3>5 DEF Inv, Queueing
    <3>7. QED
      BY <1>1, <1>2, <1>5, <1>7, <2>2, <3>1, <3>4, <3>6 DEF Inv, Queueing
  <2>3. QED
    BY <1>3, <2>1, <2>2
<1>9. Sockets'
  BY <1>2 DEF Sockets, StreamOf
<1>10. Working'
  <2>1. g = config.gen + 1
    BY DEF g
  <2>2. worker.pc \in Sending => worker.cfg.gen \in Nat
    BY Constants DEF Inv, Working, Config
  <2>3. QED
    BY <1>1, <1>2, <1>7, <2>1, <2>2 DEF Inv, Working
<1>11. QED
  BY <1>6, <1>8, <1>9, <1>10 DEF Inv
-----------------------------------------------------------------------------
(* enqueue *)

LEMMA EventGoes ==
  ASSUME Inv, NEW e \in Events, NEW r \in EventRow, event' = [event EXCEPT ![e] = r]
  PROVE  event' \in [Events -> EventRow]
BY DEF Inv, Queueing

LEMMA ReadConfigInv ==
  ASSUME Inv, NEW e \in Events, ReadConfig(e)
  PROVE  Inv'
<1> DEFINE r == IF config.set.enabled THEN [pc |-> "read", cfg |-> config, q |-> 0] ELSE Fate("dropped")
<1>1. r \in EventRow
  BY Constants DEF Inv, Queueing, EventRow, Fate, Fates
<1>2. event' = [event EXCEPT ![e] = r]
  BY DEF ReadConfig
<1> HIDE DEF r
<1>3. event' \in [Events -> EventRow]
  BY <1>1, <1>2, EventGoes
<1>4. QED
  BY <1>3 DEF ReadConfig, Inv, Saving, Queueing, Sockets, Working, sockets

LEMMA LoadQueueInv ==
  ASSUME Inv, NEW e \in Events, LoadQueue(e)
  PROVE  Inv'
<1> DEFINE old == event[e]
           r == [old EXCEPT !.pc = "loaded", !.q = current]
<1>1. old \in EventRow /\ current \in Generations
  BY DEF Inv, Queueing
<1>2. event' = [event EXCEPT ![e] = r]
  BY DEF LoadQueue
<1> HIDE DEF old
<1>3. r \in EventRow
  BY <1>1 DEF EventRow
<1> HIDE DEF r
<1>4. event' \in [Events -> EventRow]
  BY <1>2, <1>3, EventGoes
<1>5. QED
  BY <1>4 DEF LoadQueue, Inv, Saving, Queueing, Sockets, Working, sockets

(* No queue grows past its size, the queue in use past the configured one. *)
LEMMA PutInv ==
  ASSUME Inv, NEW e \in Events, Put(e)
  PROVE  Inv'
<1> DEFINE old == event[e]
           q == old.q
           room == Len(queues[q].items) < queues[q].size
           r == IF room THEN [old EXCEPT !.pc = "queued", !.q = 0] ELSE Fate("dropped")
<1>1. old \in EventRow /\ q \in Generations
  BY DEF Inv, Queueing, EventRow
<1>2. event' = [event EXCEPT ![e] = r]
  BY DEF Put
<1>3. /\ queues' = IF room THEN [queues EXCEPT ![q].items = Append(@, e)] ELSE queues
      /\ accepted' = IF room THEN Append(accepted, e) ELSE accepted
      /\ UNCHANGED <<stored, saver, config, current, worker, sockets, sent>>
  BY DEF Put
<1>4. r \in EventRow
  <2> HIDE DEF old
  <2>1. QED
    BY <1>1, Constants DEF EventRow, Fate, Fates
<1> HIDE DEF old, r
<1>5. event' \in [Events -> EventRow]
  BY <1>2, <1>4, EventGoes
<1> HIDE DEF q
<1>6. /\ queues' \in [Generations -> Queue]
      /\ queues'[current].size = config.set.size
      /\ Len(queues'[current].items) <= config.set.size
  <2>1. CASE ~room
    BY <1>3, <2>1 DEF Inv, Queueing
  <2>2. CASE room
    <3> DEFINE was == queues[q]
               new == [was EXCEPT !.items = Append(was.items, e)]
    <3>1. was \in Queue /\ queues' = [queues EXCEPT ![q] = new] /\ Len(was.items) < was.size
      BY <1>1, <1>3, <2>2 DEF Inv, Queueing
    <3> HIDE DEF was
    <3>2. was.items \in Seq(Events)
      BY <3>1 DEF Queue
    <3>3. Append(was.items, e) \in Seq(Events) /\ Len(Append(was.items, e)) = Len(was.items) + 1
      BY <3>2, AppendProperties
    <3>4. new \in Queue /\ new.size = was.size /\ Len(new.items) <= was.size
      <4>1. Len(was.items) \in Nat
        BY <3>2, LenProperties
      <4>2. new \in Queue /\ new.size = was.size /\ new.items = Append(was.items, e)
        BY <3>1, <3>3 DEF Queue
      <4>3. was.size \in Nat
        BY <3>1, Constants DEF Queue
      <4>4. QED
        BY <3>1, <3>3, <4>1, <4>2, <4>3
    <3> HIDE DEF new
    <3>5. queues' \in [Generations -> Queue]
      BY <1>1, <3>1, <3>4 DEF Inv, Queueing
    <3>6. CASE q = current
      BY <1>1, <3>1, <3>4, <3>5, <3>6 DEF Inv, Queueing, was
    <3>7. CASE q # current
      BY <1>1, <3>1, <3>5, <3>7 DEF Inv, Queueing
    <3>8. QED
      BY <3>5, <3>6, <3>7
  <2>3. QED
    BY <2>1, <2>2
<1>7. accepted' \in Seq(Events)
  BY <1>3, AppendProperties DEF Inv, Queueing
<1>8. QED
  BY <1>3, <1>5, <1>6, <1>7 DEF Inv, Saving, Queueing, Sockets, Working, sockets
-----------------------------------------------------------------------------
(* The worker *)

LEMMA WorkPc ==
  ASSUME worker \in WorkerRow, NEW pc \in Waiting \cup Sending, Work(pc)
  PROVE  /\ worker' \in WorkerRow /\ worker'.pc = pc
         /\ worker'.item = worker.item /\ worker'.cfg = worker.cfg
BY DEF Work, WorkerRow

LEMMA ReadyInv ==
  ASSUME NEW g \in Generations, worker' = Ready(g)
  PROVE  worker' \in WorkerRow /\ worker'.pc = "wait"
BY DEF Ready, WorkerRow, Waiting

LEMMA WaitingWorks ==
  ASSUME worker' \in WorkerRow, worker'.pc = "wait"
  PROVE  Working'
BY DEF Working, Sending, Streaming

(* The event is over and the worker waits on the queue in use. *)
LEMMA DoneFits ==
  ASSUME Inv, NEW fate \in Fates, worker.pc # "wait", Done(fate),
         UNCHANGED <<config, queues, current, accepted>>, sent' \in Seq(Events)
  PROVE  Queueing' /\ Working'
<1>1. worker.item \in Events /\ current \in Generations
  BY DEF Inv, Working, Queueing
<1>2. Working'
  BY <1>1, ReadyInv, WaitingWorks DEF Done
<1>3. Fate(fate) \in EventRow
  BY Constants DEF Fate, EventRow
<1>4. event' \in [Events -> EventRow]
  BY <1>1, <1>3, EventGoes DEF Done
<1>5. QED
  BY <1>2, <1>4 DEF Inv, Queueing

LEMMA SentFits ==
  ASSUME Inv, worker.pc # "wait", UNCHANGED sent \/ Transmitted
  PROVE  sent' \in Seq(Events)
<1>1. worker.item \in Events
  BY DEF Inv, Working
<1>2. QED
  BY <1>1, AppendProperties DEF Inv, Queueing, Transmitted

LEMMA TakeInv ==
  ASSUME Inv, Poll \/ Take
  PROVE  Inv'
<1>1. CASE Poll
  <2>1. Working'
    BY <1>1, ReadyInv, WaitingWorks DEF Poll, Inv, Queueing
  <2>2. QED
    BY <1>1, <2>1 DEF Poll, Inv, Saving, Queueing, Sockets, sockets
<1>2. CASE Take
  <2> DEFINE q == worker.q
             was == queues[q]
             items == was.items
             new == [was EXCEPT !.items = Tail(items)]
             next == [worker EXCEPT !.pc = "check", !.item = Head(items)]
  <2>1. /\ q \in Generations /\ was \in Queue /\ items \in Seq(Events) /\ items # <<>>
        /\ queues' = [queues EXCEPT ![q] = new] /\ worker' = next
        /\ UNCHANGED <<stored, saver, config, current, event, sockets, accepted, sent>>
    BY <1>2 DEF Take, Inv, Working, WorkerRow, Queueing, Queue
  <2> HIDE DEF q, was
  <2>2. /\ Head(items) \in Events
        /\ Tail(items) \in Seq(Events) /\ Len(Tail(items)) = Len(items) - 1 /\ Len(items) \in Nat
    BY <2>1, HeadTailProperties, LenProperties
  <2>3. new \in Queue /\ new.size = was.size /\ new.items = Tail(items)
    BY <2>1, <2>2 DEF Queue
  <2>4. next \in WorkerRow /\ next.pc = "check" /\ next.item = Head(items)
    BY <2>2 DEF Inv, Working, WorkerRow, Waiting
  <2> HIDE DEF items, new, next
  <2>5. queues' \in [Generations -> Queue]
    BY <2>1, <2>3 DEF Inv, Queueing
  <2>6. /\ queues'[current].size = config.set.size
        /\ Len(queues'[current].items) <= config.set.size
    <3>1. CASE q = current
      <4>1. was.size = config.set.size /\ Len(items) <= config.set.size /\ config.set.size \in Nat
        BY <3>1, Constants DEF was, items, Inv, Queueing, Config, Settings
      <4>2. QED
        BY <2>1, <2>2, <2>3, <3>1, <4>1 DEF Inv, Queueing
    <3>2. CASE q # current
      BY <2>1, <3>2 DEF Inv, Queueing
    <3>3. QED
      BY <3>1, <3>2
  <2>7. Working'
    BY <2>1, <2>2, <2>4 DEF Working, Sending, Streaming
  <2>8. QED
    BY <2>1, <2>5, <2>6, <2>7 DEF Inv, Saving, Queueing, Sockets, sockets
<1>3. QED
  BY <1>1, <1>2

LEMMA CheckInv ==
  ASSUME Inv, CheckGeneration
  PROVE  Inv'
<1>1. CASE Done("stale")
  <2>1. Queueing' /\ Working'
    BY <1>1, DoneFits, SentFits DEF CheckGeneration, Fates
  <2>2. QED
    BY <2>1 DEF CheckGeneration, Inv, Saving, Sockets, sockets
<1>2. CASE worker' = [worker EXCEPT !.pc = "begin", !.cfg = config] /\ UNCHANGED event
  <2>1. config \in Config /\ config.gen \in Nat /\ worker.item \in Events
    BY Constants DEF CheckGeneration, Inv, Queueing, Working, Config
  <2>2. /\ worker' \in WorkerRow /\ worker'.pc = "begin" /\ worker'.cfg = config
        /\ worker'.item = worker.item
    BY <1>2, <2>1 DEF Inv, Working, WorkerRow, Sending
  <2>3. Working'
    BY <2>1, <2>2 DEF CheckGeneration, Working, Streaming
  <2>4. QED
    BY <1>2, <2>3 DEF CheckGeneration, Inv, Saving, Queueing, Sockets, sockets
<1>3. QED
  BY <1>1, <1>2 DEF CheckGeneration

(* A step of a send that goes on with the configuration that was read *)
LEMMA SendsOn ==
  ASSUME Inv, worker.pc \in Sending, NEW pc \in Sending, Work(pc), UNCHANGED config,
         stream' = None \/ stream' = stream \/ worker.cfg = config,
         pc \in Streaming => worker.cfg.set.proto = "tls",
         pc = "sendto" => worker.cfg.set.proto = "udp"
  PROVE  Working'
<1>1. worker.pc \notin Waiting
  BY DEF Sending, Streaming, Waiting
<1>2. QED
  BY <1>1, WorkPc DEF Inv, Working, Waiting

LEMMA TwoProtocols ==
  ASSUME Inv, worker.pc \in Sending
  PROVE  worker.cfg \in Config /\ worker.cfg.set.proto \in {"udp", "tls"}
BY DEF Inv, Working, Config, Settings

LEMMA UdpInv ==
  ASSUME Inv, BeginUdp \/ SendTo
  PROVE  Inv'
<1>1. CASE BeginUdp
  <2>1. Working'
    BY <1>1, SendsOn DEF BeginUdp, Sending, Streaming
  <2>2. QED
    BY <1>1, <2>1 DEF BeginUdp, Inv, Saving, Queueing, Sockets
<1>2. CASE SendTo
  <2>1. sent' \in Seq(Events)
    BY <1>2, SentFits DEF SendTo
  <2>2. Queueing' /\ Working'
    BY <1>2, <2>1, DoneFits DEF SendTo, Fates
  <2>3. QED
    BY <1>2, <2>2 DEF SendTo, Inv, Saving, Sockets, sockets
<1>3. QED
  BY <1>1, <1>2

LEMMA StreamInv ==
  ASSUME Inv, BeginStream \/ Open \/ Install
  PROVE  Inv'
<1>1. CASE BeginStream
  <2>1. worker.cfg.set.proto = "tls"
    BY <1>1, TwoProtocols DEF BeginStream, Sending
  <2>2. Working'
    BY <1>1, <2>1, SendsOn DEF BeginStream, Sending, Streaming, sockets
  <2>3. QED
    BY <1>1, <2>2 DEF BeginStream, Inv, Saving, Queueing, Sockets, sockets
<1>2. CASE Open
  <2>1. worker.cfg.set.proto = "tls" /\ worker.pc \in Sending /\ worker.pc # "wait"
    BY <1>2 DEF Open, Inv, Working, Sending, Streaming
  <2>2. Queueing' /\ Working'
    <3>1. CASE Done("failed")
      BY <1>2, <2>1, <3>1, DoneFits, SentFits DEF Open, Fates
    <3>2. CASE Work(IF worker.pc = "open" THEN "install" ELSE "reinstall") /\ UNCHANGED event
      <4>1. Working'
        BY <1>2, <2>1, <3>2, SendsOn DEF Open, Sending, Streaming, sockets
      <4>2. QED
        BY <1>2, <3>2, <4>1 DEF Open, Inv, Queueing
    <3>3. QED
      BY <1>2, <3>1, <3>2 DEF Open
  <2>3. QED
    BY <1>2, <2>2 DEF Open, Inv, Saving, Sockets, sockets
<1>3. CASE Install
  <2>1. worker.cfg.set.proto = "tls" /\ worker.pc \in Sending /\ worker.pc # "wait"
    BY <1>3 DEF Install, Inv, Working, Sending, Streaming
  <2>2. CASE StillWanted /\ stream' = Target(worker.cfg)
             /\ Work(IF worker.pc = "install" THEN "sendall" ELSE "resend") /\ UNCHANGED event
    <3>1. worker.cfg = config
      BY <2>1, <2>2 DEF StillWanted, Inv, Working
    <3>2. worker.cfg.set.host \in Hosts
      BY <2>1, TwoProtocols DEF Config, Settings
    <3>3. Sockets'
      BY <1>3, <2>1, <2>2, <3>2 DEF Install, Target, Inv, Sockets, StreamOf
    <3>4. Working'
      BY <1>3, <2>1, <2>2, <3>1, SendsOn DEF Install, Sending, Streaming
    <3>5. QED
      BY <1>3, <2>2, <3>3, <3>4 DEF Install, Inv, Saving, Queueing
  <2>3. CASE UNCHANGED stream /\ Done("stale")
    <3>1. Queueing' /\ Working'
      BY <1>3, <2>1, <2>3, DoneFits, SentFits DEF Install, Fates
    <3>2. QED
      BY <1>3, <2>3, <3>1 DEF Install, Inv, Saving, Sockets
  <2>4. QED
    BY <1>3, <2>2, <2>3 DEF Install
<1>4. QED
  BY <1>1, <1>2, <1>3

LEMMA SendInv ==
  ASSUME Inv, SendAll \/ Resend
  PROVE  Inv'
<1>1. worker.cfg.set.proto = "tls" /\ worker.pc \in Sending /\ worker.pc # "wait"
  BY DEF SendAll, Resend, Inv, Working, Sending, Streaming
<1>2. sent' \in Seq(Events)
  BY <1>1, SentFits DEF SendAll, Resend, MayArrive
<1>3. CASE SendAll
  <2>1. stream' \in {stream, None} /\ UNCHANGED <<stored, saver, config, queues, current, udp, accepted>>
    BY <1>3 DEF SendAll
  <2>2. CASE Done("sent") \/ Done("stale")
    <3>1. Queueing' /\ Working'
      BY <1>1, <1>2, <2>1, <2>2, DoneFits DEF Fates
    <3>2. QED
      BY <2>1, <3>1 DEF Inv, Saving, Sockets, StreamOf
  <2>3. CASE Work("reopen") /\ UNCHANGED event
    <3>1. Working'
      BY <1>1, <2>1, <2>3, SendsOn DEF Sending, Streaming
    <3>2. QED
      BY <1>2, <2>1, <2>3, <3>1 DEF Inv, Saving, Queueing, Sockets, StreamOf
  <2>4. QED
    BY <1>3, <2>2, <2>3 DEF SendAll
<1>4. CASE Resend
  <2>1. Queueing' /\ Working'
    BY <1>1, <1>2, <1>4, DoneFits DEF Resend, Fates
  <2>2. QED
    BY <1>4, <2>1 DEF Resend, Inv, Saving, Sockets, sockets
<1>5. QED
  BY <1>3, <1>4
-----------------------------------------------------------------------------
LEMMA RestartInv ==
  ASSUME Inv, Restart
  PROVE  Inv'
<1>1. stored \in Settings /\ Effective(stored) \in Settings
  BY EffectiveType DEF Inv, Saving
<1>2. Boot(Effective(stored))
  BY DEF Restart
<1>3. /\ config' \in Config /\ config'.set = Effective(stored)
      /\ queues' \in [Generations -> Queue] /\ current' \in Generations
      /\ queues'[current'].size = config'.set.size
      /\ Len(queues'[current'].items) <= config'.set.size
      /\ Sockets' /\ worker' \in WorkerRow /\ worker'.pc = "wait"
  BY <1>1, <1>2, Booted
<1>4. Asleep \in SaverRow /\ Asleep.row = 0 /\ Fate("dropped") \in EventRow
  BY TenRows, Constants DEF Asleep, SaverRow, Fate, EventRow, Fates
<1>5. Saving'
  BY <1>1, <1>4 DEF Restart, Saving
<1>6. event' \in [Events -> EventRow]
  BY <1>4 DEF Restart, Inv, Queueing
<1>7. Queueing'
  BY <1>3, <1>6 DEF Restart, Inv, Queueing
<1>8. QED
  BY <1>3, <1>5, <1>7, WaitingWorks DEF Inv

LEMMA InitInv ==
  ASSUME Init
  PROVE  Inv
<1>1. First \in Settings /\ First.size \in 1..MaxSize
  BY Constants DEF Settings
<1>2. Saving
  BY <1>1, TenRows DEF Init, Saving, SaverRow, Asleep
<1>3. config \in Config /\ config.set = First
  BY <1>1, Constants DEF Init, Config
<1>4. queues = [g \in Generations |-> IF g = 1 THEN [size |-> First.size, items |-> <<>>]
                                      ELSE [size |-> 0, items |-> <<>>]]
  BY DEF Init, NoQueue
<1>5. queues \in [Generations -> Queue] /\ queues[1].size = First.size /\ queues[1].items = <<>>
  BY <1>1, <1>4, Constants DEF Queue
<1>6. Len(queues[1].items) <= First.size
  BY <1>1, <1>5
<1>7. event \in [Events -> EventRow]
  BY Constants DEF Init, EventRow
<1>8. accepted \in Seq(Events) /\ sent \in Seq(Events)
  BY DEF Init
<1>9. current \in Generations /\ current = 1
  BY Constants DEF Init
<1>10. Queueing
  BY <1>3, <1>5, <1>6, <1>7, <1>8, <1>9 DEF Queueing
<1>11. Sockets
  BY DEF Init, Sockets, StreamOf
<1>12. worker \in WorkerRow /\ worker.pc = "wait"
  BY Constants DEF Init, Ready, WorkerRow, Waiting
<1>13. QED
  BY <1>2, <1>10, <1>11, <1>12 DEF Inv, Working, Sending, Streaming

LEMMA Invariant == Spec => []Inv
<1>1. Init => Inv
  BY InitInv
<1>2. Inv /\ [Next]_vars => Inv'
  <2> SUFFICES ASSUME Inv, [Next]_vars PROVE Inv'
    OBVIOUS
  <2>1. ASSUME NEW a \in Savers, NEW set \in Requested, Submit(a, set) PROVE Inv'
    BY <2>1, SubmitInv
  <2>2. ASSUME NEW a \in Savers, StoreRow(a) \/ ReadRows(a) \/ Configure(a) PROVE Inv'
    BY <2>2, StoreRowInv, ReadRowsInv, ConfigureInv
  <2>3. ASSUME NEW e \in Events, ReadConfig(e) \/ LoadQueue(e) \/ Put(e) PROVE Inv'
    BY <2>3, ReadConfigInv, LoadQueueInv, PutInv
  <2>4. CASE WorkerStep
    BY <2>4, TakeInv, CheckInv, UdpInv, StreamInv, SendInv DEF WorkerStep
  <2>5. CASE Restart
    BY <2>5, RestartInv
  <2>6. CASE UNCHANGED vars
    BY <2>6 DEF vars, Inv, Saving, Queueing, Sockets, Working
  <2>7. QED
    BY <2>1, <2>2, <2>3, <2>4, <2>5, <2>6 DEF Next
<1>3. QED
  BY <1>1, <1>2, PTL DEF Spec

(* The settings, the queues, the events and the worker keep their shape,   *)
(* and the queue in use has the configured size and never holds more,      *)
(* through every resize and every thread that puts an event without the    *)
(* lock.                                                                   *)
THEOREM ForwarderTypes == Spec => []TypeOK
<1>1. Inv => TypeOK
  <2> SUFFICES ASSUME Inv PROVE TypeOK
    OBVIOUS
  <2>1. /\ saver \in [Savers -> [row: 0..Configuring, set: {None} \cup Settings]]
        /\ queues \in [Generations -> [size: 0..MaxSize, items: Seq(Events)]]
        /\ event \in [Events -> [pc: {"new", "read", "loaded", "queued"} \cup Fates,
                                 cfg: {None} \cup Config, q: Generations]]
    BY DEF Inv, Saving, Queueing, SaverRow, Queue, EventRow
  <2>2. Waiting \cup Sending = {"wait", "check", "begin", "sendto", "open", "install", "sendall",
                                "reopen", "reinstall", "resend"}
    BY DEF Waiting, Sending, Streaming
  <2>3. worker \in [pc: {"wait", "check", "begin", "sendto", "open", "install", "sendall",
                         "reopen", "reinstall", "resend"},
                    q: Generations, item: {None} \cup Events, cfg: {None} \cup Config]
    BY <2>2 DEF Inv, Working, WorkerRow
  <2>4. QED
    BY <2>1, <2>3 DEF Inv, Saving, Queueing, Sockets, StreamOf, TypeOK
<1>2. QED
  BY <1>1, Invariant, PTL

(* Whatever is saved between the reading of the configuration, the opening *)
(* of the connection, its installation and the sending, nothing goes over  *)
(* a stream under a configuration that has been replaced.                  *)
THEOREM NothingToReplacedServer == Spec => StreamFollowsConfig
<1>1. Inv /\ [Next]_vars =>
        [sent' # sent /\ worker.cfg.set.proto # "udp" => worker.cfg = config]_vars
  <2> SUFFICES ASSUME Inv, Next, sent' # sent, worker.cfg.set.proto # "udp"
               PROVE  worker.cfg = config
    BY DEF vars
  <2>1. SendTo \/ SendAll \/ Resend
    BY DEF Next, WorkerStep, Submit, StoreRow, ReadRows, Configure, ReadConfig, LoadQueue, Put,
           Poll, Take, CheckGeneration, BeginUdp, BeginStream, Open, Install, Restart
  <2>2. ~SendTo
    BY DEF SendTo, Inv, Working
  <2>3. stream # None /\ worker.pc \in Sending
    BY <2>1, <2>2 DEF SendAll, Resend, MayArrive, Sending, Streaming
  <2>4. QED
    BY <2>3 DEF Inv, Working
<1>2. QED
  BY <1>1, Invariant, PTL DEF Spec, StreamFollowsConfig

(* What the one administrator is about to apply is what is stored. *)
AppliesStored == \A a \in Savers : saver[a].row = Configuring => saver[a].set = Effective(stored)

(* With at most one administrator at a time, whenever no save is under way *)
(* the forwarder runs with the stored settings, a save that a restart cut  *)
(* short between two rows included.                                        *)
THEOREM LoneSaverRunsAsStored ==
  ASSUME \A a, b \in Savers : a = b
  PROVE  Spec => []RunsAsStored
<1> DEFINE Lone == RunsAsStored /\ AppliesStored
<1>1. Init => Lone
  BY Constants, TenRows DEF Init, Asleep, RunsAsStored, AppliesStored
<1>2. Inv /\ Lone /\ [Next]_vars => Lone'
  <2> SUFFICES ASSUME Inv, Lone, [Next]_vars PROVE Lone'
    OBVIOUS
  <2>1. ASSUME NEW a \in Savers, NEW set \in Requested, Submit(a, set) PROVE Lone'
    <3> DEFINE r == [row |-> 1, set |-> set]
    <3>1. r.row = 1 /\ saver' = [saver EXCEPT ![a] = r] /\ saver'[a] = r
      BY <2>1 DEF Submit, Inv, Saving
    <3> HIDE DEF r
    <3>2. saver'[a] # Asleep
      BY <3>1 DEF Asleep
    <3>3. QED
      BY <3>1, <3>2, TenRows DEF RunsAsStored, AppliesStored
  <2>2. ASSUME NEW a \in Savers, StoreRow(a) PROVE Lone'
    <3> DEFINE old == saver[a]
               r == [old EXCEPT !.row = @ + 1]
    <3>1. old \in SaverRow /\ old.row \in 1..5
      BY <2>2, TenRows DEF StoreRow, Inv, Saving
    <3>2. saver' = [saver EXCEPT ![a] = r] /\ saver'[a] = r
      BY <2>2 DEF StoreRow, Inv, Saving
    <3> HIDE DEF old
    <3>3. r.row \in 2..6
      BY <3>1 DEF SaverRow
    <3> HIDE DEF r
    <3>4. saver'[a] # Asleep
      BY <3>2, <3>3 DEF Asleep
    <3>5. QED
      BY <3>2, <3>3, <3>4, TenRows DEF RunsAsStored, AppliesStored
  <2>3. ASSUME NEW a \in Savers, ReadRows(a) PROVE Lone'
    <3> DEFINE r == [row |-> Configuring, set |-> Effective(stored)]
    <3>1. /\ saver' = [saver EXCEPT ![a] = r] /\ saver'[a] = r /\ r.row = 7
          /\ r.set = Effective(stored) /\ stored' = stored
      BY <2>3, TenRows DEF ReadRows, Inv, Saving
    <3>2. Effective(stored)' = Effective(stored)
      BY <3>1
    <3> HIDE DEF r
    <3>3. saver'[a] # Asleep
      BY <3>1 DEF Asleep
    <3>4. QED
      BY <3>1, <3>2, <3>3 DEF RunsAsStored, AppliesStored
  <2>4. ASSUME NEW a \in Savers, Configure(a) PROVE Lone'
    <3>1. saver[a].set = Effective(stored)
      BY <2>4 DEF Configure, AppliesStored
    <3>2. config'.set = saver[a].set /\ stored' = stored
      BY <2>4 DEF Configure
    <3>3. saver'[a].row = 0
      BY <2>4 DEF Configure, Asleep, Inv, Saving
    <3>4. Effective(stored)' = Effective(stored)
      BY <3>2
    <3>5. QED
      BY <3>1, <3>2, <3>3, <3>4, TenRows DEF RunsAsStored, AppliesStored
  <2>5. CASE Restart
    <3>1. config'.set = Effective(stored) /\ stored' = stored
      BY <2>5 DEF Restart, Boot
    <3>2. Effective(stored)' = Effective(stored)
      BY <3>1
    <3>3. \A a \in Savers : saver'[a].row = 0
      BY <2>5 DEF Restart, Asleep
    <3>4. QED
      BY <3>1, <3>2, <3>3, TenRows DEF RunsAsStored, AppliesStored
  <2>6. ASSUME UNCHANGED <<stored, saver, config>> PROVE Lone'
    <3>1. Effective(stored)' = Effective(stored)
      BY <2>6
    <3>2. QED
      BY <2>6, <3>1 DEF RunsAsStored, AppliesStored
  <2>7. ASSUME NEW e \in Events, ReadConfig(e) \/ LoadQueue(e) \/ Put(e)
        PROVE  UNCHANGED <<stored, saver, config>>
    BY <2>7 DEF ReadConfig, LoadQueue, Put
  <2>8. ASSUME WorkerStep PROVE UNCHANGED <<stored, saver, config>>
    BY <2>8 DEF WorkerStep, Poll, Take, CheckGeneration, BeginUdp, SendTo, BeginStream, Open,
                Install, SendAll, Resend
  <2>9. QED
    BY <2>1, <2>2, <2>3, <2>4, <2>5, <2>6, <2>7, <2>8 DEF Next, vars
<1>3. QED
  BY <1>1, <1>2, Invariant, PTL DEF Spec
-----------------------------------------------------------------------------
(* Events are sent in the order in which they were accepted.               *)
(*                                                                         *)
(* Only an event of the generation in force can still be sent (Live), and  *)
(* such an event is on the queue in use: a thread that loaded another      *)
(* queue read the configuration before the queue was replaced.  So what is *)
(* sent comes before what the worker holds, that before what is live on    *)
(* the queue in use, and the queue is in order.                            *)

Items(q) == queues[q].items
Pending == {"read", "loaded", "queued"}
Live(e) == event[e].pc = "queued" /\ event[e].cfg.gen = config.gen
Known(e) == \E m \in DOMAIN accepted : accepted[m] = e
NotAfter(e, f) ==
    \E m, n \in DOMAIN accepted : m <= n /\ accepted[m] = e /\ accepted[n] = f

Dated ==
    \A e \in Events :
        /\ event[e].pc \in Pending => event[e].cfg \in Config /\ event[e].cfg.gen <= config.gen
        /\ event[e].pc = "loaded" /\ event[e].cfg.gen = config.gen => event[e].q = current

(* A queued event is in one place, and a live one is not on an old queue.  *)
OnQueue ==
    \A q \in Generations : \A i \in DOMAIN Items(q) :
        /\ event[Items(q)[i]].pc = "queued" /\ Known(Items(q)[i])
        /\ event[Items(q)[i]].cfg.gen = config.gen => q = current
OnePlace ==
    \A p, q \in Generations : \A i \in DOMAIN Items(p), j \in DOMAIN Items(q) :
        Items(p)[i] = Items(q)[j] => p = q /\ i = j
InHand ==
    worker.pc # "wait" =>
        /\ event[worker.item].pc = "queued" /\ Known(worker.item)
        /\ \A q \in Generations : \A i \in DOMAIN Items(q) : Items(q)[i] # worker.item
Placed == OnQueue /\ OnePlace /\ InHand

Coming(e) == Live(e) /\ \E i \in DOMAIN Items(current) : Items(current)[i] = e
Held == worker.pc \in Sending \/ (worker.pc = "check" /\ Live(worker.item))

QueueInOrder ==
    \A i, j \in DOMAIN Items(current) :
        i < j /\ Live(Items(current)[i]) /\ Live(Items(current)[j])
          => NotAfter(Items(current)[i], Items(current)[j])
SentFirst ==
    \A k \in DOMAIN sent :
        /\ Known(sent[k])
        /\ \A e \in Events : Coming(e) => NotAfter(sent[k], e)
        /\ Held => NotAfter(sent[k], worker.item)
HeldNext == Held => \A e \in Events : Coming(e) => NotAfter(worker.item, e)
InOrder == QueueInOrder /\ SentFirst /\ HeldNext /\ OrderKept

Order == Dated /\ Placed /\ InOrder

LEMMA ItemsAreEvents ==
  ASSUME Inv, NEW q \in Generations
  PROVE  Items(q) \in Seq(Events) /\ \A i \in DOMAIN Items(q) : Items(q)[i] \in Events
<1>1. Items(q) \in Seq(Events)
  BY DEF Inv, Queueing, Queue, Items
<1>2. QED
  BY <1>1, ElementOfSeq, LenProperties

(* What is known, and what is not after what, depends on accepted alone.   *)
LEMMA OrderUnchanged ==
  ASSUME accepted' = accepted
  PROVE  \A e, f : (Known(e)' <=> Known(e)) /\ (NotAfter(e, f)' <=> NotAfter(e, f))
BY DEF Known, NotAfter

LEMMA KnownIsNotAfter ==
  ASSUME Inv, NEW e, Known(e)
  PROVE  NotAfter(e, e)
<1>1. PICK m \in DOMAIN accepted : accepted[m] = e
  BY DEF Known
<1>2. m \in Nat
  BY <1>1, LenProperties DEF Inv, Queueing
<1>3. QED
  BY <1>1, <1>2 DEF NotAfter

(* Every step but Put and Take: nothing new comes to the worker, and it    *)
(* sends what it holds or nothing.                                         *)
LEMMA InOrderStays ==
  ASSUME Inv, Placed, InOrder, accepted' = accepted,
         sent' = sent \/ (worker.pc \in Sending /\ Transmitted),
         \A e \in Events : Coming(e)' => Coming(e),
         Held' => Held /\ worker'.item = worker.item,
         QueueInOrder'
  PROVE  InOrder'
<1>1. \A e, f : (Known(e)' <=> Known(e)) /\ (NotAfter(e, f)' <=> NotAfter(e, f))
  BY OrderUnchanged
<1>2. HeldNext'
  BY <1>1 DEF InOrder, HeldNext
<1>3. CASE sent' = sent
  <2>1. SentFirst'
    BY <1>1, <1>3 DEF InOrder, SentFirst
  <2>2. OrderKept'
    BY <1>3 DEF InOrder, OrderKept
  <2>3. QED
    BY <1>2, <2>1, <2>2 DEF InOrder
<1>4. CASE worker.pc \in Sending /\ Transmitted
  <2> DEFINE w == worker.item
  <2>1. Held /\ worker.pc # "wait" /\ w \in Events
    BY <1>4 DEF Held, Sending, Streaming, Inv, Working
  <2>2. /\ sent \in Seq(Events) /\ Len(sent) \in Nat /\ DOMAIN sent = 1..Len(sent)
        /\ DOMAIN sent' = 1..Len(sent) + 1
        /\ \A k \in 1..Len(sent) : sent'[k] = sent[k]
        /\ sent'[Len(sent) + 1] = w
    <3>1. sent \in Seq(Events) /\ sent' = Append(sent, w)
      BY <1>4 DEF Transmitted, Inv, Queueing
    <3>2. Append(sent, w) \in Seq(Events) /\ Len(Append(sent, w)) = Len(sent) + 1
      BY <2>1, <3>1, AppendProperties
    <3>3. DOMAIN Append(sent, w) = 1..Len(sent) + 1
      BY <3>2, LenProperties
    <3>4. QED
      BY <2>1, <3>1, <3>2, <3>3, AppendProperties, LenProperties
  <2>3. Known(w) /\ NotAfter(w, w)
    BY <2>1, KnownIsNotAfter DEF Placed, InHand
  <2>4. \A k \in DOMAIN sent : Known(sent[k]) /\ NotAfter(sent[k], w)
    BY <2>1 DEF InOrder, SentFirst
  <2>5. SentFirst'
    <3> SUFFICES ASSUME NEW k \in DOMAIN sent'
                 PROVE  /\ Known(sent'[k])
                        /\ \A e \in Events : Coming(e) => NotAfter(sent'[k], e)
                        /\ Held' => NotAfter(sent'[k], w)
      BY <1>1 DEF SentFirst
    <3>1. CASE k = Len(sent) + 1
      BY <2>1, <2>2, <2>3, <3>1 DEF InOrder, HeldNext
    <3>2. CASE k \in DOMAIN sent
      BY <2>2, <2>4, <3>2 DEF InOrder, SentFirst
    <3>3. QED
      BY <2>2, <3>1, <3>2
  <2>6. OrderKept'
    <3> SUFFICES ASSUME NEW i \in DOMAIN sent', NEW j \in DOMAIN sent', i < j
                 PROVE  NotAfter(sent'[i], sent'[j])
      BY DEF OrderKept, NotAfter
    <3>1. i \in DOMAIN sent
      BY <2>2
    <3>2. CASE j = Len(sent) + 1
      BY <2>2, <2>4, <3>1, <3>2
    <3>3. CASE j \in DOMAIN sent
      <4>1. NotAfter(sent[i], sent[j])
        BY <3>1, <3>3 DEF InOrder, OrderKept, NotAfter
      <4>2. QED
        BY <2>2, <3>1, <3>3, <4>1
    <3>4. QED
      BY <2>2, <3>2, <3>3
  <2>7. QED
    BY <1>2, <2>5, <2>6 DEF InOrder
<1>5. QED
  BY <1>3, <1>4

(* Steps that leave the queues: an event that is not on one may change, and *)
(* the worker goes on with its event or waits.                              *)
LEMMA QueuesStay ==
  ASSUME Inv, Order, UNCHANGED <<config, queues, current, accepted>>, Dated',
         sent' = sent \/ (worker.pc \in Sending /\ Transmitted),
         \A e \in Events :
            \/ event'[e] = event[e]
            \/ \A q \in Generations : \A i \in DOMAIN Items(q) : Items(q)[i] # e,
         \/ worker'.pc = "wait"
         \/ /\ worker.pc # "wait" /\ worker'.item = worker.item
            /\ event'[worker.item] = event[worker.item]
            /\ worker'.pc \in Sending \cup {"check"}
            /\ worker'.pc \in Sending => Held
            /\ worker'.pc = "check" => worker.pc = "check"
  PROVE  Order'
<1>1. \A f, g : (Known(f)' <=> Known(f)) /\ (NotAfter(f, g)' <=> NotAfter(f, g))
  BY OrderUnchanged
<1>2. \A q \in Generations : Items(q)' = Items(q)
  BY DEF Items
<1>3. current \in Generations /\ current' = current
  BY DEF Inv, Queueing
<1>4. \A q \in Generations : \A i \in DOMAIN Items(q) :
        /\ Items(q)[i] \in Events /\ event'[Items(q)[i]] = event[Items(q)[i]]
  BY ItemsAreEvents
<1>5. \A q \in Generations : \A i \in DOMAIN Items(q) : Live(Items(q)[i])' <=> Live(Items(q)[i])
  BY <1>2, <1>4 DEF Live
<1>6. OnQueue'
  BY <1>1, <1>2, <1>3, <1>4 DEF Order, Placed, OnQueue
<1>7. OnePlace'
  BY <1>2 DEF Order, Placed, OnePlace
<1>8. InHand'
  BY <1>1, <1>2 DEF Order, Placed, InHand
<1>9. \A f \in Events : Coming(f)' => Coming(f)
  BY <1>2, <1>3, <1>4, <1>5 DEF Coming, Live
<1>10. Held' => Held /\ worker'.item = worker.item
  BY DEF Held, Live, Sending, Streaming
<1>11. QueueInOrder'
  BY <1>1, <1>2, <1>3, <1>5 DEF Order, InOrder, QueueInOrder
<1>12. QED
  BY <1>6, <1>7, <1>8, <1>9, <1>10, <1>11, InOrderStays DEF Order, Placed

LEMMA DoneOrder ==
  ASSUME Inv, Order, NEW fate \in Fates, worker.pc # "wait", Done(fate),
         UNCHANGED <<config, queues, current, accepted>>,
         sent' = sent \/ (worker.pc \in Sending /\ Transmitted)
  PROVE  Order'
<1>1. worker.item \in Events /\ worker'.pc = "wait"
  BY DEF Inv, Working, Done, Ready
<1>2. event' = [event EXCEPT ![worker.item] = Fate(fate)] /\ event \in [Events -> EventRow]
  BY DEF Done, Inv, Queueing
<1>3. Fate(fate).pc \notin Pending
  BY DEF Fate, Fates, Pending
<1>4. Dated'
  BY <1>1, <1>2, <1>3 DEF Order, Dated, Pending
<1>5. \A e \in Events :
         \/ event'[e] = event[e]
         \/ \A q \in Generations : \A i \in DOMAIN Items(q) : Items(q)[i] # e
  BY <1>1, <1>2 DEF Order, Placed, InHand
<1>6. QED
  BY <1>1, <1>4, <1>5, QueuesStay

LEMMA WorkOrder ==
  ASSUME Inv, Order, worker.pc \in Sending, NEW pc \in Sending, Work(pc),
         UNCHANGED <<config, queues, current, event, accepted>>,
         sent' = sent \/ (worker.pc \in Sending /\ Transmitted)
  PROVE  Order'
<1>1. worker'.pc = pc /\ worker'.item = worker.item
  BY WorkPc DEF Inv, Working
<1>2. Held /\ worker.pc # "wait" /\ pc # "check"
  BY DEF Held, Sending, Streaming
<1>3. Dated'
  BY DEF Order, Dated
<1>4. QED
  BY <1>1, <1>2, <1>3, QueuesStay

LEMMA QuietOrder ==
  ASSUME Order, UNCHANGED <<config, queues, current, event, worker, accepted, sent>>
  PROVE  Order'
BY DEF Order, Dated, Placed, OnQueue, OnePlace, InHand, InOrder, QueueInOrder, SentFirst, HeldNext,
       OrderKept, Items, Live, Known, NotAfter, Coming, Held

LEMMA EnqueueOrder ==
  ASSUME Inv, Order, NEW e \in Events, ReadConfig(e) \/ LoadQueue(e)
  PROVE  Order'
<1>1. /\ event[e].pc \in {"new", "read"} /\ event[e] \in EventRow
      /\ config \in Config /\ config.gen \in Nat
  BY Constants DEF ReadConfig, LoadQueue, Inv, Queueing, Config
<1>2. /\ \A f \in Events : f # e => event'[f] = event[f]
      /\ UNCHANGED <<config, queues, current, worker, accepted, sent>>
  BY DEF ReadConfig, LoadQueue, Inv, Queueing
<1>3. /\ event'[e].pc \in Pending => event'[e].cfg \in Config /\ event'[e].cfg.gen <= config.gen
      /\ event'[e].pc = "loaded" => event'[e].q = current
  <2>1. CASE ReadConfig(e)
    <3>1. event'[e] = IF config.set.enabled THEN [pc |-> "read", cfg |-> config, q |-> 0]
                      ELSE [pc |-> "dropped", cfg |-> None, q |-> 0]
      BY <2>1 DEF ReadConfig, Fate, Inv, Queueing
    <3>2. QED
      BY <1>1, <3>1 DEF Pending
  <2>2. CASE LoadQueue(e)
    <3> DEFINE old == event[e]
    <3>1. event'[e] = [old EXCEPT !.pc = "loaded", !.q = current] /\ old.pc = "read"
      BY <2>2 DEF LoadQueue, Inv, Queueing
    <3>2. old.cfg \in Config /\ old.cfg.gen <= config.gen
      BY <3>1 DEF Order, Dated, Pending
    <3> HIDE DEF old
    <3>3. old \in EventRow
      BY <1>1 DEF old
    <3>4. event'[e].cfg = old.cfg /\ event'[e].q = current
      BY <3>1, <3>3 DEF EventRow
    <3>5. QED
      BY <3>2, <3>4
  <2>3. QED
    BY <2>1, <2>2
<1>4. Dated'
  BY <1>2, <1>3 DEF Order, Dated
<1>5. \A q \in Generations : \A i \in DOMAIN Items(q) : Items(q)[i] # e
  BY <1>1 DEF Order, Placed, OnQueue
<1>6. worker.pc # "wait" => event'[worker.item] = event[worker.item]
  BY <1>1, <1>2 DEF Order, Placed, InHand, Inv, Working
<1>7. worker.pc \in Sending \cup Waiting /\ (worker.pc \in Sending => Held)
  BY DEF Inv, Working, WorkerRow, Held
<1>8. QED
  BY <1>2, <1>4, <1>5, <1>6, <1>7, QueuesStay DEF Waiting

LEMMA WorkerOrder ==
  ASSUME Inv, Order, WorkerStep, ~Take
  PROVE  Order'
<1>1. CASE Poll
  <2>1. worker'.pc = "wait"
    BY <1>1 DEF Poll, Ready
  <2>2. UNCHANGED <<config, queues, current, event, accepted, sent>>
    BY <1>1 DEF Poll
  <2>3. Dated'
    BY <2>2 DEF Order, Dated
  <2>4. QED
    BY <2>1, <2>2, <2>3, QueuesStay
<1>2. CASE CheckGeneration
  <2>1. UNCHANGED <<config, queues, current, accepted, sent>> /\ worker.pc = "check"
    BY <1>2 DEF CheckGeneration
  <2>2. CASE Done("stale")
    BY <2>1, <2>2, DoneOrder DEF Fates
  <2>3. CASE ~Done("stale")
    <3>1. /\ event[worker.item].cfg.gen = config.gen
          /\ worker' = [worker EXCEPT !.pc = "begin", !.cfg = config] /\ event' = event
      BY <1>2, <2>3 DEF CheckGeneration
    <3>2. worker'.pc = "begin" /\ worker'.item = worker.item /\ "begin" \in Sending
      BY <3>1 DEF Inv, Working, WorkerRow, Sending
    <3>3. Held
      BY <2>1, <3>1 DEF Order, Placed, InHand, Held, Live
    <3>4. Dated'
      BY <2>1, <3>1 DEF Order, Dated
    <3>5. worker'.pc # "check" /\ worker.pc # "wait"
      BY <2>1, <3>2
    <3>6. QED
      BY <2>1, <3>1, <3>2, <3>3, <3>4, <3>5, QueuesStay
  <2>4. QED
    BY <2>2, <2>3
<1>3. CASE BeginUdp \/ BeginStream \/ SendTo \/ Open \/ Install \/ SendAll \/ Resend
  <2>1. /\ worker.pc \in Sending /\ worker.pc # "wait"
        /\ UNCHANGED <<config, queues, current, accepted>>
        /\ sent' = sent \/ (worker.pc \in Sending /\ Transmitted)
    BY <1>3 DEF BeginUdp, BeginStream, SendTo, Open, Install, SendAll, Resend, MayArrive,
                Sending, Streaming
  <2>2. \/ \E fate \in Fates : Done(fate)
        \/ \E pc \in Sending : Work(pc) /\ UNCHANGED event
    <3>1. Sending = {"begin", "sendto", "open", "install", "sendall", "reopen", "reinstall", "resend"}
      BY DEF Sending, Streaming
    <3>2. CASE BeginUdp \/ BeginStream
      BY <3>1, <3>2 DEF BeginUdp, BeginStream
    <3>3. CASE SendTo \/ Resend
      BY <3>3 DEF SendTo, Resend, Fates
    <3>4. CASE Open \/ Install \/ SendAll
      BY <3>1, <3>4 DEF Open, Install, SendAll, Fates
    <3>5. QED
      BY <1>3, <3>2, <3>3, <3>4
  <2>3. QED
    BY <2>1, <2>2, DoneOrder, WorkOrder
<1>4. QED
  BY <1>1, <1>2, <1>3 DEF WorkerStep

(* The oldest event of the queue in use, if it is live, comes after what   *)
(* was sent and before the rest.                                           *)
LEMMA TakeFrom ==
  ASSUME Inv, Order, Take, NEW q \in Generations, q = worker.q,
         NEW head \in Events, head = Head(Items(q))
  PROVE  Order'
<1>1. /\ q \in Generations /\ Items(q) # <<>> /\ current \in Generations
      /\ worker.pc = "wait" /\ worker'.pc = "check" /\ worker'.item = head
      /\ UNCHANGED <<config, current, event, accepted, sent>>
  <2>1. worker' = [worker EXCEPT !.pc = "check", !.item = head] /\ worker \in WorkerRow
    BY DEF Take, Items, Inv, Working
  <2>2. worker'.pc = "check" /\ worker'.item = head
    BY <2>1 DEF WorkerRow
  <2>3. QED
    BY <2>1, <2>2 DEF Take, Items, Inv, Queueing, WorkerRow
<1>2. /\ Items(q) \in Seq(Events) /\ Len(Items(q)) \in Nat \ {0}
      /\ DOMAIN Items(q) = 1..Len(Items(q)) /\ head = Items(q)[1]
  <2>1. Items(q) \in Seq(Events)
    BY <1>1, ItemsAreEvents
  <2>2. Len(Items(q)) \in Nat \ {0} /\ DOMAIN Items(q) = 1..Len(Items(q))
    BY <1>1, <2>1, EmptySeq, LenProperties
  <2>3. QED
    BY <2>1, <2>2
<1>3. /\ \A p \in Generations \ {q} : Items(p)' = Items(p)
      /\ Items(q)' = Tail(Items(q))
  <2> DEFINE was == queues[q]
             new == [was EXCEPT !.items = Tail(@)]
  <2>1. queues' = [queues EXCEPT ![q] = new] /\ was \in Queue /\ queues \in [Generations -> Queue]
    BY <1>1 DEF Take, Inv, Queueing
  <2>2. queues'[q] = new /\ \A p \in Generations \ {q} : queues'[p] = queues[p]
    BY <1>1, <2>1
  <2>3. new.items = Tail(was.items)
    <3> HIDE DEF was
    <3>1. QED
      BY <2>1 DEF Queue
  <2> HIDE DEF new
  <2>4. QED
    BY <2>2, <2>3 DEF Items
<1>4. /\ DOMAIN Items(q)' = 1..Len(Items(q)) - 1
      /\ \A i \in DOMAIN Items(q)' : i + 1 \in DOMAIN Items(q) /\ (Items(q)')[i] = Items(q)[i + 1]
  <2>1. /\ Tail(Items(q)) \in Seq(Events) /\ Len(Tail(Items(q))) = Len(Items(q)) - 1
        /\ \A i \in 1..Len(Tail(Items(q))) : Tail(Items(q))[i] = Items(q)[i + 1]
    BY <1>1, <1>2, HeadTailProperties
  <2>2. DOMAIN Tail(Items(q)) = 1..Len(Items(q)) - 1
    BY <2>1, LenProperties
  <2>3. QED
    BY <1>2, <1>3, <2>1, <2>2
<1>5. \A e, f : (Known(e)' <=> Known(e)) /\ (NotAfter(e, f)' <=> NotAfter(e, f)) /\ (Live(e)' <=> Live(e))
  BY <1>1, OrderUnchanged DEF Live
<1>6. Dated'
  BY <1>1 DEF Order, Dated
<1>7. OnQueue'
  <2> SUFFICES ASSUME NEW p \in Generations, NEW i \in DOMAIN Items(p)'
               PROVE  /\ event[(Items(p)')[i]].pc = "queued" /\ Known((Items(p)')[i])
                      /\ event[(Items(p)')[i]].cfg.gen = config.gen => p = current
    BY <1>1, <1>5 DEF OnQueue
  <2>1. \E j \in DOMAIN Items(p) : (Items(p)')[i] = Items(p)[j]
    BY <1>3, <1>4
  <2>2. QED
    BY <2>1 DEF Order, Placed, OnQueue
<1>8. OnePlace'
  <2> SUFFICES ASSUME NEW p \in Generations, NEW r \in Generations,
                      NEW i \in DOMAIN Items(p)', NEW j \in DOMAIN Items(r)',
                      (Items(p)')[i] = (Items(r)')[j]
               PROVE  p = r /\ i = j
    BY DEF OnePlace
  <2>1. CASE p = q /\ r = q
    <3>1. i + 1 = j + 1
      BY <1>1, <1>4, <2>1 DEF Order, Placed, OnePlace
    <3>2. i \in Int /\ j \in Int
      BY <1>2, <1>4, <2>1
    <3>3. QED
      BY <2>1, <3>1, <3>2
  <2>2. CASE p = q /\ r # q
    BY <1>1, <1>3, <1>4, <2>2 DEF Order, Placed, OnePlace
  <2>3. CASE p # q /\ r = q
    BY <1>1, <1>3, <1>4, <2>3 DEF Order, Placed, OnePlace
  <2>4. CASE p # q /\ r # q
    BY <1>3, <2>4 DEF Order, Placed, OnePlace
  <2>5. QED
    BY <2>1, <2>2, <2>3, <2>4
<1>9. InHand'
  <2>1. event[head].pc = "queued" /\ Known(head)
    BY <1>1, <1>2 DEF Order, Placed, OnQueue
  <2>2. ASSUME NEW p \in Generations, NEW i \in DOMAIN Items(p)'
        PROVE  (Items(p)')[i] # head
    <3>1. CASE p = q
      <4>1. i \in Int /\ i + 1 \in DOMAIN Items(q) /\ i >= 1 /\ (Items(q)')[i] = Items(q)[i + 1]
        BY <1>2, <1>4, <2>2, <3>1
      <4>2. i + 1 # 1
        BY <4>1
      <4>3. QED
        BY <1>1, <1>2, <3>1, <4>1, <4>2 DEF Order, Placed, OnePlace
    <3>2. CASE p # q
      BY <1>1, <1>2, <1>3, <2>2, <3>2 DEF Order, Placed, OnePlace
    <3>3. QED
      BY <3>1, <3>2
  <2>3. QED
    BY <1>1, <1>5, <2>1, <2>2 DEF InHand
<1>10. \A e \in Events : Coming(e)' => Coming(e)
  <2> SUFFICES ASSUME NEW e \in Events, Live(e), NEW i \in DOMAIN Items(current)',
                      (Items(current)')[i] = e
               PROVE  \E j \in DOMAIN Items(current) : Items(current)[j] = e
    BY <1>1, <1>5 DEF Coming, Items
  <2>1. QED
    BY <1>1, <1>3, <1>4
<1>11. Live(head) => q = current
  BY <1>1, <1>2 DEF Order, Placed, OnQueue, Live
<1>12. QueueInOrder'
  <2> SUFFICES ASSUME NEW i \in DOMAIN Items(current)', NEW j \in DOMAIN Items(current)', i < j,
                      Live((Items(current)')[i]), Live((Items(current)')[j])
               PROVE  NotAfter((Items(current)')[i], (Items(current)')[j])
    BY <1>1, <1>5 DEF QueueInOrder, Items
  <2>1. CASE current = q
    <3>0. Items(current)' = Items(q)'
      BY <1>1, <2>1 DEF Items
    <3>1. i \in Int /\ j \in Int /\ i + 1 < j + 1
      BY <1>2, <1>4, <3>0
    <3>2. QED
      BY <1>4, <2>1, <3>0, <3>1 DEF Order, InOrder, QueueInOrder
  <2>2. CASE current # q
    BY <1>1, <1>3, <2>2 DEF Order, InOrder, QueueInOrder
  <2>3. QED
    BY <2>1, <2>2
<1>13. Held' => Live(head) /\ Coming(head) /\ head \in Events
  <2>1. Held' => Live(head)
    BY <1>1, <1>5 DEF Held, Sending, Streaming
  <2>2. QED
    BY <1>1, <1>2, <1>11, <2>1, ElementOfSeq DEF Coming
<1>14. SentFirst'
  BY <1>1, <1>5, <1>10, <1>13 DEF Order, InOrder, SentFirst
<1>15. HeldNext'
  <2> SUFFICES ASSUME Held', NEW e \in Events, Coming(e)'
               PROVE  NotAfter(head, e)
    BY <1>1, <1>5 DEF HeldNext
  <2>1. q = current /\ Live(head)
    BY <1>11, <1>13
  <2>2. PICK i \in DOMAIN Items(q)' : (Items(q)')[i] = e /\ Live(e)
    BY <1>1, <1>5, <2>1 DEF Coming, Items
  <2>3. i + 1 \in DOMAIN Items(q) /\ Items(q)[i + 1] = e /\ 1 \in DOMAIN Items(q) /\ 1 < i + 1
    BY <1>2, <1>4, <2>2
  <2>4. QED
    BY <1>2, <2>1, <2>2, <2>3 DEF Order, InOrder, QueueInOrder
<1>16. OrderKept'
  BY <1>1 DEF Order, InOrder, OrderKept
<1>17. QED
  BY <1>6, <1>7, <1>8, <1>9, <1>12, <1>14, <1>15, <1>16 DEF Order, Placed, InOrder

LEMMA TakeOrder ==
  ASSUME Inv, Order, Take
  PROVE  Order'
<1>1. worker.q \in Generations /\ Items(worker.q) # <<>>
  BY DEF Inv, Working, WorkerRow, Take, Items
<1>2. Head(Items(worker.q)) \in Events
  BY <1>1, ItemsAreEvents, HeadTailProperties
<1>3. QED
  BY <1>1, <1>2, TakeFrom

(* An event that finds room comes after all that were accepted before it.  *)
LEMMA PutRoom ==
  ASSUME Inv, Order, NEW e \in Events, NEW q \in Generations, q = event[e].q, Put(e),
         Len(queues[q].items) < queues[q].size
  PROVE  Order'
<1> DEFINE n == Len(accepted) + 1
           l == Len(Items(q)) + 1
<1>1. /\ event[e].pc = "loaded" /\ event[e] \in EventRow /\ current \in Generations
      /\ event[e].cfg \in Config /\ event[e].cfg.gen <= config.gen
      /\ event[e].cfg.gen = config.gen => q = current
      /\ UNCHANGED <<config, current, worker, sent>>
  BY DEF Put, Inv, Queueing, Order, Dated, Pending
<1>2. /\ \A f \in Events : f # e => event'[f] = event[f]
      /\ event'[e].pc = "queued" /\ event'[e].cfg = event[e].cfg
  <2> DEFINE old == event[e]
             r == [old EXCEPT !.pc = "queued", !.q = 0]
  <2>1. event' = [event EXCEPT ![e] = r] /\ event \in [Events -> EventRow]
    BY DEF Put, Inv, Queueing
  <2> HIDE DEF old
  <2>2. r.pc = "queued" /\ r.cfg = old.cfg
    BY <1>1 DEF EventRow, old
  <2> HIDE DEF r
  <2>3. QED
    BY <2>1, <2>2 DEF old
<1>3. /\ accepted \in Seq(Events) /\ Len(accepted) \in Nat /\ DOMAIN accepted = 1..Len(accepted)
      /\ DOMAIN accepted' = 1..n /\ accepted'[n] = e
      /\ \A m \in DOMAIN accepted : accepted'[m] = accepted[m]
  <2>1. accepted' = Append(accepted, e) /\ accepted \in Seq(Events)
    BY DEF Put, Inv, Queueing
  <2>2. Append(accepted, e) \in Seq(Events) /\ Len(Append(accepted, e)) = n
    BY <2>1, AppendProperties
  <2>3. DOMAIN Append(accepted, e) = 1..n
    BY <2>2, LenProperties
  <2>4. QED
    BY <2>1, <2>3, AppendProperties, LenProperties
<1>4. Items(q) \in Seq(Events) /\ Len(Items(q)) \in Nat /\ DOMAIN Items(q) = 1..Len(Items(q))
  BY ItemsAreEvents, LenProperties
<1>5. /\ \A p \in Generations \ {q} : Items(p)' = Items(p)
      /\ Items(q)' = Append(Items(q), e)
  <2> DEFINE was == queues[q]
             new == [was EXCEPT !.items = Append(@, e)]
  <2>1. queues' = [queues EXCEPT ![q] = new] /\ was \in Queue /\ queues \in [Generations -> Queue]
    BY DEF Put, Inv, Queueing
  <2>2. queues'[q] = new /\ \A p \in Generations \ {q} : queues'[p] = queues[p]
    BY <2>1
  <2>3. new.items = Append(was.items, e)
    <3> HIDE DEF was
    <3>1. QED
      BY <2>1 DEF Queue
  <2> HIDE DEF new
  <2>4. QED
    BY <2>2, <2>3 DEF Items
<1>6. /\ DOMAIN (Items(q)') = 1..l /\ (Items(q)')[l] = e
      /\ \A i \in DOMAIN Items(q) : (Items(q)')[i] = Items(q)[i]
  <2>1. Append(Items(q), e) \in Seq(Events) /\ Len(Append(Items(q), e)) = l
    BY <1>4, AppendProperties
  <2>2. DOMAIN Append(Items(q), e) = 1..l
    BY <2>1, LenProperties
  <2>3. QED
    BY <1>4, <1>5, <2>2, AppendProperties
<1>7. /\ \A f : Known(f) => Known(f)' /\ NotAfter(f, e)'
      /\ Known(e)'
      /\ \A f, g : NotAfter(f, g) => NotAfter(f, g)'
  <2>1. n \in DOMAIN accepted' /\ \A m \in DOMAIN accepted : m \in DOMAIN accepted' /\ m <= n
    BY <1>3
  <2>2. QED
    BY <1>3, <2>1 DEF Known, NotAfter
<1> HIDE DEF n, l
<1>8. \A p \in Generations : \A i \in DOMAIN Items(p) :
        Items(p)[i] # e /\ Items(p)[i] \in Events /\ event'[Items(p)[i]] = event[Items(p)[i]]
  BY <1>1, <1>2, ItemsAreEvents DEF Order, Placed, OnQueue
<1>9. ASSUME NEW p \in Generations, NEW i \in DOMAIN (Items(p)')
      PROVE  \/ i \in DOMAIN Items(p) /\ (Items(p)')[i] = Items(p)[i]
             \/ p = q /\ i = l /\ (Items(p)')[i] = e
  BY <1>4, <1>5, <1>6, <1>9 DEF l
<1>10. worker.pc # "wait" => worker.item # e /\ worker.item \in Events
  BY <1>1 DEF Order, Placed, InHand, Inv, Working
<1>11. Dated'
  <2> SUFFICES ASSUME NEW f \in Events
               PROVE  /\ event'[f].pc \in Pending => event'[f].cfg \in Config /\ event'[f].cfg.gen <= config.gen
                      /\ event'[f].pc = "loaded" /\ event'[f].cfg.gen = config.gen => event'[f].q = current
    BY <1>1 DEF Dated
  <2>1. QED
    BY <1>1, <1>2 DEF Order, Dated
<1>12. OnQueue'
  <2> SUFFICES ASSUME NEW p \in Generations, NEW i \in DOMAIN (Items(p)')
               PROVE  /\ event'[(Items(p)')[i]].pc = "queued"
                      /\ \E m \in DOMAIN accepted' : accepted'[m] = (Items(p)')[i]
                      /\ event'[(Items(p)')[i]].cfg.gen = config.gen => p = current
    BY <1>1 DEF OnQueue, Known
  <2>1. CASE i \in DOMAIN Items(p) /\ (Items(p)')[i] = Items(p)[i]
    <3> DEFINE f == Items(p)[i]
    <3>1. event[f].pc = "queued" /\ Known(f) /\ (event[f].cfg.gen = config.gen => p = current)
      BY <2>1 DEF Order, Placed, OnQueue
    <3>2. event'[f] = event[f]
      BY <1>8, <2>1
    <3>3. \E m \in DOMAIN accepted' : accepted'[m] = f
      BY <1>3, <3>1 DEF Known, n
    <3>4. QED
      BY <2>1, <3>1, <3>2, <3>3
  <2>2. CASE p = q /\ (Items(p)')[i] = e
    BY <1>1, <1>2, <1>7, <2>2 DEF Known
  <2>3. QED
    BY <1>9, <2>1, <2>2
<1>13. OnePlace'
  <2> SUFFICES ASSUME NEW p \in Generations, NEW r \in Generations,
                      NEW i \in DOMAIN (Items(p)'), NEW j \in DOMAIN (Items(r)'),
                      (Items(p)')[i] = (Items(r)')[j]
               PROVE  p = r /\ i = j
    BY DEF OnePlace
  <2>1. QED
    BY <1>8, <1>9 DEF Order, Placed, OnePlace
<1>14. InHand'
  <2>1. ASSUME worker.pc # "wait", NEW p \in Generations, NEW i \in DOMAIN (Items(p)')
        PROVE  (Items(p)')[i] # worker.item
    BY <1>9, <1>10, <2>1 DEF Order, Placed, InHand
  <2>2. worker.pc # "wait" => event'[worker.item].pc = "queued" /\ Known(worker.item)'
    BY <1>1, <1>2, <1>7, <1>10 DEF Order, Placed, InHand, Known
  <2>3. QED
    BY <1>1, <2>1, <2>2 DEF InHand, Known
<1>15. \A f \in Events : Coming(f)' => f = e \/ Coming(f)
  <2> SUFFICES ASSUME NEW f \in Events, f # e, Coming(f)' PROVE Coming(f)
    OBVIOUS
  <2>1. PICK i \in DOMAIN (Items(current)') : (Items(current)')[i] = f
    BY <1>1 DEF Coming, Items
  <2>2. i \in DOMAIN Items(current) /\ Items(current)[i] = f
    <3>1. CASE current = q
      <4>1. Items(current)' = Items(q)'
        BY <1>1, <3>1 DEF Items
      <4>2. QED
        BY <1>9, <2>1, <3>1, <4>1
    <3>2. CASE current # q
      <4>1. Items(current)' = Items(current)
        BY <1>1, <1>5, <3>2 DEF Items
      <4>2. QED
        BY <2>1, <4>1
    <3>3. QED
      BY <3>1, <3>2
  <2>3. Live(f)
    BY <1>1, <1>2 DEF Coming, Live
  <2>4. QED
    BY <2>2, <2>3 DEF Coming
<1>16. Held' => Held
  BY <1>1, <1>2, <1>10 DEF Held, Live
<1>17. QueueInOrder'
  <2> DEFINE now == queues'[current].items
  <2>1. now = Items(current)'
    BY <1>1 DEF Items
  <2>2. \A i \in DOMAIN now :
          \/ i \in DOMAIN Items(current) /\ now[i] = Items(current)[i]
          \/ current = q /\ i = l /\ now[i] = e
    <3>1. CASE current = q
      <4>1. now = Items(q)'
        BY <1>1, <2>1, <3>1 DEF Items
      <4>2. QED
        BY <1>9, <3>1, <4>1
    <3>2. CASE current # q
      <4>1. now = Items(current)
        BY <1>1, <1>5, <2>1, <3>2 DEF Items
      <4>2. QED
        BY <4>1
    <3>3. QED
      BY <3>1, <3>2
  <2> HIDE DEF now
  <2> SUFFICES ASSUME NEW i \in DOMAIN now, NEW j \in DOMAIN now, i < j,
                      event'[now[i]].pc = "queued", event'[now[i]].cfg.gen = config.gen,
                      event'[now[j]].pc = "queued", event'[now[j]].cfg.gen = config.gen
               PROVE  \E m, k \in DOMAIN accepted' : m <= k /\ accepted'[m] = now[i] /\ accepted'[k] = now[j]
    BY <1>1, <2>1 DEF QueueInOrder, Live, NotAfter
  <2>3. i \in DOMAIN Items(current) /\ now[i] = Items(current)[i]
    <3>1. ~(current = q /\ i = l)
      <4> SUFFICES ASSUME current = q, i = l PROVE FALSE
        OBVIOUS
      <4>1. j \in 1..l
        BY <1>4, <2>2 DEF l
      <4>2. QED
        BY <1>4, <4>1 DEF l
    <3>2. QED
      BY <2>2, <3>1
  <2>4. Known(now[i])
    BY <1>1, <2>3 DEF Order, Placed, OnQueue
  <2>5. CASE now[j] = e
    BY <1>7, <2>4, <2>5 DEF Known, NotAfter
  <2>6. CASE j \in DOMAIN Items(current) /\ now[j] = Items(current)[j]
    <3>1. Live(now[i]) /\ Live(now[j])
      BY <1>1, <1>8, <2>3, <2>6 DEF Live
    <3>2. NotAfter(now[i], now[j])
      BY <2>3, <2>6, <3>1 DEF Order, InOrder, QueueInOrder
    <3>3. QED
      BY <1>7, <3>2 DEF NotAfter
  <2>7. QED
    BY <2>2, <2>5, <2>6
<1> DEFINE IsKnown(f) == \E m \in DOMAIN accepted' : accepted'[m] = f
           IsNotAfter(f, g) ==
             \E m, k \in DOMAIN accepted' : m <= k /\ accepted'[m] = f /\ accepted'[k] = g
<1>18. /\ \A f : Known(f) => IsKnown(f) /\ IsNotAfter(f, e)
       /\ \A f, g : NotAfter(f, g) => IsNotAfter(f, g)
  BY <1>7 DEF Known, NotAfter
<1>19. SentFirst'
  <2>1. ASSUME NEW k \in DOMAIN sent, NEW f \in Events, Coming(f)'
        PROVE  NotAfter(sent[k], f) \/ (f = e /\ Known(sent[k]))
    BY <1>15, <2>1 DEF Order, InOrder, SentFirst
  <2>2. \A k \in DOMAIN sent : Known(sent[k]) /\ (Held' => NotAfter(sent[k], worker.item))
    BY <1>16 DEF Order, InOrder, SentFirst
  <2> SUFFICES ASSUME NEW k \in DOMAIN sent
               PROVE  /\ IsKnown(sent[k])
                      /\ \A f \in Events : Coming(f)' => IsNotAfter(sent[k], f)
                      /\ Held' => IsNotAfter(sent[k], worker.item)
    BY <1>1 DEF SentFirst, Known, NotAfter
  <2>3. QED
    BY <1>18, <2>1, <2>2
<1>20. HeldNext'
  <2>1. ASSUME Held', NEW f \in Events, Coming(f)'
        PROVE  NotAfter(worker.item, f) \/ (f = e /\ Known(worker.item))
    <3>1. Held /\ worker.pc # "wait"
      BY <1>16, <2>1 DEF Held, Sending, Streaming
    <3>2. Known(worker.item)
      BY <3>1 DEF Order, Placed, InHand
    <3>3. QED
      BY <1>15, <2>1, <3>1, <3>2 DEF Order, InOrder, HeldNext
  <2> SUFFICES ASSUME Held', NEW f \in Events, Coming(f)'
               PROVE  IsNotAfter(worker.item, f)
    BY <1>1 DEF HeldNext, NotAfter
  <2>2. QED
    BY <1>18, <2>1
<1>21. OrderKept'
  <2>1. \A i, j \in DOMAIN sent : i < j => NotAfter(sent[i], sent[j])
    BY DEF Order, InOrder, OrderKept, NotAfter
  <2> SUFFICES ASSUME NEW i \in DOMAIN sent, NEW j \in DOMAIN sent, i < j
               PROVE  IsNotAfter(sent[i], sent[j])
    BY <1>1 DEF OrderKept
  <2>2. QED
    BY <1>18, <2>1
<1>22. QED
  BY <1>11, <1>12, <1>13, <1>14, <1>17, <1>19, <1>20, <1>21 DEF Order, Placed, InOrder

LEMMA PutOrder ==
  ASSUME Inv, Order, NEW e \in Events, Put(e)
  PROVE  Order'
<1> DEFINE q == event[e].q
<1>1. q \in Generations /\ event[e].pc = "loaded"
  BY DEF Put, Inv, Queueing, EventRow
<1>2. CASE Len(queues[q].items) < queues[q].size
  BY <1>1, <1>2, PutRoom
<1>3. CASE ~(Len(queues[q].items) < queues[q].size)
  <2>1. /\ event' = [event EXCEPT ![e] = Fate("dropped")] /\ event \in [Events -> EventRow]
        /\ UNCHANGED <<config, queues, current, worker, accepted, sent>>
    BY <1>3 DEF Put, Inv, Queueing
  <2>2. Dated'
    BY <2>1 DEF Order, Dated, Fate, Pending
  <2>3. \A p \in Generations : \A i \in DOMAIN Items(p) : Items(p)[i] # e
    BY <1>1 DEF Order, Placed, OnQueue
  <2>4. worker.pc # "wait" => event'[worker.item] = event[worker.item]
    BY <1>1, <2>1 DEF Order, Placed, InHand, Inv, Working
  <2>5. worker.pc \in Sending \cup Waiting /\ (worker.pc \in Sending => Held)
    BY DEF Inv, Working, WorkerRow, Held
  <2>6. QED
    BY <2>1, <2>2, <2>3, <2>4, <2>5, QueuesStay DEF Waiting
<1>4. QED
  BY <1>2, <1>3

(* A new generation leaves nothing live, so the order of what is moved to  *)
(* the new queue does not matter any more.                                 *)
LEMMA ConfigureOrder ==
  ASSUME Inv, Order, NEW a \in Savers, Configure(a)
  PROVE  Order'
<1> DEFINE set == saver[a].set
           pending == Items(current)
           kept == LastOf(pending, set.size)
           g == config.gen + 1
           Evicted(e) == e \in Range(pending) \ Range(kept)
<1>1. /\ current \in Generations /\ config.gen \in Nat /\ g \in Generations
      /\ config'.gen = g /\ pending \in Seq(Events)
      /\ UNCHANGED <<worker, accepted, sent>>
  BY Constants, ItemsAreEvents DEF Configure, Inv, Queueing, Config
<1>2. set.size \in Nat
  BY TenRows, Constants DEF Configure, Inv, Saving, Settings
<1>3. \/ UNCHANGED <<queues, current, event>>
      \/ /\ queues' = [queues EXCEPT ![current].items = <<>>,
                                     ![g] = [size |-> set.size, items |-> kept]]
         /\ current' = g
         /\ event' = [e \in Events |-> IF Evicted(e) THEN Fate("dropped") ELSE event[e]]
  BY DEF Configure, Items
<1>4. \E d \in Nat : \A i \in DOMAIN kept :
         i \in Nat /\ i + d \in DOMAIN pending /\ kept[i] = pending[i + d]
  <2> DEFINE n == set.size
             m == IF Len(pending) > n THEN Len(pending) - n + 1 ELSE 1
  <2>1. Len(pending) \in Nat /\ DOMAIN pending = 1..Len(pending)
    BY <1>1, LenProperties
  <2>2. m \in 1..Len(pending) + 1
    BY <1>2, <2>1
  <2>3. \A i \in m..Len(pending) : pending[i] \in Events
    BY <1>1, <2>1, <2>2, ElementOfSeq
  <2> HIDE DEF m
  <2>4. /\ kept \in Seq(Events)
        /\ Len(kept) = IF m <= Len(pending) THEN Len(pending) - m + 1 ELSE 0
        /\ \A i \in 1..Len(pending) - m + 1 : kept[i] = pending[m + i - 1]
    <3>1. kept = SubSeq(pending, m, Len(pending))
      BY DEF LastOf, m
    <3> HIDE DEF kept, pending
    <3> DEFINE s == SubSeq(pending, m, Len(pending))
    <3>2. /\ s \in Seq(Events)
          /\ Len(s) = IF m <= Len(pending) THEN Len(pending) - m + 1 ELSE 0
          /\ \A i \in 1..Len(pending) - m + 1 : s[i] = pending[m + i - 1]
      <4>1. m \in Int /\ Len(pending) \in Int
        BY <2>1, <2>2
      <4> HIDE DEF m, pending
      <4>2. QED
        BY <2>3, <4>1, SubSeqProperties
    <3>3. QED
      BY <3>1, <3>2
  <2>5. DOMAIN kept = 1..Len(kept)
    BY <2>4, LenProperties
  <2> HIDE DEF kept, pending
  <2>6. \A i \in DOMAIN kept : /\ i \in Nat /\ i + (m - 1) \in DOMAIN pending
                               /\ kept[i] = pending[i + (m - 1)]
    BY <2>1, <2>2, <2>4, <2>5
  <2>7. m - 1 \in Nat
    BY <2>1, <2>2
  <2>8. QED
    BY <2>6, <2>7
<1>5. PICK d \in Nat : \A i \in DOMAIN kept :
         i \in Nat /\ i + d \in DOMAIN pending /\ kept[i] = pending[i + d]
  BY <1>4
<1> DEFINE now == [p \in Generations |-> queues'[p].items]
<1>6. \A p \in Generations : now[p] = Items(p)'
  BY DEF Items
(* what is on a queue was on one, where nothing else was *)
<1>7. \/ UNCHANGED <<queues, current, event>> /\ \A p \in Generations : now[p] = Items(p)
      \/ /\ current' = g /\ now[g] = kept
         /\ \A p \in Generations \ {g} : now[p] = IF p = current THEN <<>> ELSE Items(p)
         /\ \A e \in Events : event'[e] = IF Evicted(e) THEN Fate("dropped") ELSE event[e]
  <2>1. CASE UNCHANGED <<queues, current, event>>
    BY <2>1 DEF Items
  <2>2. CASE /\ queues' = [queues EXCEPT ![current].items = <<>>,
                                         ![g] = [size |-> set.size, items |-> kept]]
             /\ current' = g
             /\ event' = [e \in Events |-> IF Evicted(e) THEN Fate("dropped") ELSE event[e]]
    <3> DEFINE old == queues[current]
               empty == [old EXCEPT !.items = <<>>]
               new == [size |-> set.size, items |-> kept]
               emptied == [queues EXCEPT ![current] = empty]
    <3>1. queues' = [emptied EXCEPT ![g] = new] /\ queues \in [Generations -> Queue] /\ old \in Queue
      BY <1>1, <2>2 DEF Inv, Queueing
    <3>2. new.items = kept
      OBVIOUS
    <3>3. empty.items = <<>>
      <4> HIDE DEF old
      <4>1. QED
        BY <3>1 DEF Queue
    <3> HIDE DEF old, empty, new, kept, g
    <3>4. /\ queues'[g] = new
          /\ \A p \in Generations \ {g} : queues'[p] = IF p = current THEN empty ELSE queues[p]
      BY <1>1, <3>1
    <3>5. now[g] = kept
      BY <1>1, <3>2, <3>4
    <3>6. \A p \in Generations \ {g} : now[p] = IF p = current THEN <<>> ELSE Items(p)
      BY <3>3, <3>4 DEF Items
    <3> HIDE DEF now, Evicted
    <3>7. QED
      BY <2>2, <3>5, <3>6
  <2>3. QED
    BY <1>3, <2>1, <2>2
<1> HIDE DEF now, g, pending, kept, Evicted
<1>8. ASSUME NEW p \in Generations, NEW i \in DOMAIN now[p]
      PROVE  /\ \E q \in Generations : \E j \in DOMAIN Items(q) : now[p][i] = Items(q)[j]
             /\ event'[now[p][i]] = event[now[p][i]]
  <2>1. CASE UNCHANGED <<queues, current, event>> /\ \A q \in Generations : now[q] = Items(q)
    BY <1>8, <2>1
  <2>2. CASE /\ current' = g /\ now[g] = kept
             /\ \A q \in Generations \ {g} : now[q] = IF q = current THEN <<>> ELSE Items(q)
             /\ \A e \in Events : event'[e] = IF Evicted(e) THEN Fate("dropped") ELSE event[e]
    <3>1. CASE p = g
      <4>1. i \in DOMAIN kept /\ now[p][i] = kept[i]
        BY <1>8, <2>2, <3>1
      <4>2. i + d \in DOMAIN Items(current) /\ kept[i] = Items(current)[i + d]
        BY <1>5, <4>1 DEF pending
      <4>3. ~Evicted(kept[i]) /\ kept[i] \in Events
        BY <1>1, <4>1, <4>2, ItemsAreEvents DEF Evicted, Range
      <4>4. QED
        BY <1>1, <2>2, <4>1, <4>2, <4>3
    <3>2. CASE p # g
      <4>1. p # current /\ i \in DOMAIN Items(p) /\ now[p][i] = Items(p)[i]
        BY <1>8, <2>2, <3>2
      <4>2. ~Evicted(Items(p)[i]) /\ Items(p)[i] \in Events
        BY <1>1, <4>1, ItemsAreEvents DEF Evicted, Range, pending, Order, Placed, OnePlace
      <4>3. QED
        BY <2>2, <4>1, <4>2
    <3>3. QED
      BY <3>1, <3>2
  <2>3. QED
    BY <1>7, <2>1, <2>2
<1>9. ASSUME NEW e \in Events
      PROVE  event'[e] = event[e] \/ event'[e].pc = "dropped"
  BY <1>7 DEF Fate
<1>10. \A e \in Events : event'[e].pc \in Pending => event'[e].cfg \in Config /\ event'[e].cfg.gen < g
  <2> SUFFICES ASSUME NEW e \in Events, event'[e].pc \in Pending
               PROVE  event[e].cfg \in Config /\ event[e].cfg.gen < g /\ event'[e] = event[e]
    OBVIOUS
  <2>1. event'[e] = event[e]
    BY <1>9 DEF Pending
  <2>2. event[e].cfg \in Config /\ event[e].cfg.gen <= config.gen
    BY <2>1 DEF Order, Dated
  <2>3. event[e].cfg.gen \in Nat
    BY <2>2, Constants DEF Config
  <2>4. QED
    BY <1>1, <2>1, <2>2, <2>3 DEF g
<1>11. \A e \in Events : event'[e].pc \in Pending => event'[e].cfg.gen # g /\ event'[e].cfg.gen <= g
  <2>1. g \in Nat
    BY <1>1 DEF g
  <2>2. \A e \in Events : event'[e].pc \in Pending => event'[e].cfg.gen \in Nat
    BY <1>10, Constants DEF Config
  <2>3. QED
    BY <1>10, <2>1, <2>2
<1>12. Dated'
  BY <1>1, <1>10, <1>11 DEF Dated, Pending
<1>13. \A p \in Generations : \A i \in DOMAIN now[p] :
         now[p][i] \in Events /\ event'[now[p][i]].pc = "queued" /\ Known(now[p][i])
  BY <1>8, ItemsAreEvents DEF Order, Placed, OnQueue
<1>14. OnQueue'
  <2> SUFFICES ASSUME NEW p \in Generations, NEW i \in DOMAIN now[p]
               PROVE  /\ event'[now[p][i]].pc = "queued" /\ Known(now[p][i])
                      /\ event'[now[p][i]].cfg.gen # g
    BY <1>1, <1>6 DEF OnQueue, Known
  <2>1. QED
    BY <1>11, <1>13 DEF Pending
<1>15. OnePlace'
  <2> SUFFICES ASSUME NEW p \in Generations, NEW q \in Generations,
                      NEW i \in DOMAIN now[p], NEW j \in DOMAIN now[q], now[p][i] = now[q][j]
               PROVE  p = q /\ i = j
    BY <1>6 DEF OnePlace
  <2>1. CASE \A r \in Generations : now[r] = Items(r)
    BY <2>1 DEF Order, Placed, OnePlace
  <2>2. CASE /\ now[g] = kept
             /\ \A r \in Generations \ {g} : now[r] = IF r = current THEN <<>> ELSE Items(r)
    <3>1. \A r \in Generations : \A k \in DOMAIN now[r] :
            \/ r = g /\ k \in Nat /\ k + d \in DOMAIN Items(current) /\ now[r][k] = Items(current)[k + d]
            \/ r # g /\ r # current /\ k \in DOMAIN Items(r) /\ now[r][k] = Items(r)[k]
      BY <1>5, <2>2 DEF pending
    <3>2. CASE p = g /\ q = g
      <4>1. i + d = j + d /\ i \in Nat /\ j \in Nat
        BY <1>1, <3>1, <3>2 DEF Order, Placed, OnePlace
      <4>2. QED
        BY <3>2, <4>1
    <3>3. CASE p = g /\ q # g
      BY <1>1, <3>1, <3>3 DEF Order, Placed, OnePlace
    <3>4. CASE p # g /\ q = g
      BY <1>1, <3>1, <3>4 DEF Order, Placed, OnePlace
    <3>5. CASE p # g /\ q # g
      BY <3>1, <3>5 DEF Order, Placed, OnePlace
    <3>6. QED
      BY <3>2, <3>3, <3>4, <3>5
  <2>3. QED
    BY <1>7, <2>1, <2>2
<1>16. InHand'
  <2> SUFFICES ASSUME worker.pc # "wait"
               PROVE  /\ event'[worker.item].pc = "queued" /\ Known(worker.item)
                      /\ \A p \in Generations : \A i \in DOMAIN now[p] : now[p][i] # worker.item
    BY <1>1, <1>6 DEF InHand, Known
  <2>1. worker.item \in Events /\ ~Evicted(worker.item)
    BY <1>1 DEF Inv, Working, Evicted, Range, pending, Order, Placed, InHand
  <2>2. event'[worker.item] = event[worker.item]
    BY <1>7, <2>1
  <2>3. QED
    BY <1>8, <2>2 DEF Order, Placed, InHand
<1>17. \A e \in Events : ~Live(e)'
  BY <1>1, <1>11 DEF Live, Pending
<1>18. QueueInOrder'
  <2>1. current' \in Generations
    BY <1>1, <1>7
  <2>2. \A i \in DOMAIN (Items(current)') : (Items(current)')[i] \in Events
    BY <1>6, <1>13, <2>1 DEF Items
  <2>3. QED
    BY <1>17, <2>2 DEF QueueInOrder
<1>19. Held' => Held /\ worker'.item = worker.item
  BY <1>1, <1>17 DEF Held, Inv, Working
<1>20. \A e \in Events : ~Coming(e)'
  BY <1>17 DEF Coming
<1>21. InOrder'
  BY <1>1, <1>18, <1>19, <1>20, InOrderStays DEF Order
<1>22. QED
  BY <1>12, <1>14, <1>15, <1>16, <1>21 DEF Order, Placed

LEMMA RestartOrder ==
  ASSUME Inv, Order, Restart
  PROVE  Order'
<1>1. \A p \in Generations : Items(p)' = <<>>
  BY DEF Restart, Boot, NoQueue, Items
<1>2. worker'.pc = "wait" /\ current' \in Generations /\ UNCHANGED <<accepted, sent>>
  BY Constants DEF Restart, Boot, Ready
<1>3. \A e \in Events : event'[e].pc \notin Pending
  <2>1. \A e \in Events : event'[e] = IF Lost(e) THEN Fate("dropped") ELSE event[e]
    BY DEF Restart
  <2>2. QED
    BY <2>1 DEF Lost, Fate, Pending
<1>4. Dated'
  BY <1>3 DEF Dated, Pending
<1>5. Placed'
  BY <1>1, <1>2 DEF Placed, OnQueue, OnePlace, InHand
<1>6. Items(current)' = <<>>
  BY <1>1, <1>2 DEF Items
<1>7. \A e \in Events : ~Coming(e)'
  BY <1>6 DEF Coming
<1>8. QueueInOrder' /\ ~Held'
  BY <1>2, <1>6 DEF QueueInOrder, Held, Sending, Streaming
<1>9. InOrder'
  BY <1>2, <1>7, <1>8, InOrderStays DEF Order
<1>10. QED
  BY <1>4, <1>5, <1>9 DEF Order

(* Over reconnections, resized queues, discarded events and restarts,      *)
(* events arrive in the order in which they were accepted; one that is     *)
(* sent again after a failure comes before those accepted after it.        *)
THEOREM EventsArriveInOrder == Spec => []OrderKept
<1>1. Init => Order
  <2> SUFFICES ASSUME Init PROVE Order
    OBVIOUS
  <2>1. \A p \in Generations : Items(p) = <<>>
    BY DEF Init, NoQueue, Items
  <2>2. current \in Generations /\ worker.pc = "wait" /\ sent = <<>>
    BY Constants DEF Init, Ready
  <2>3. Dated
    BY DEF Init, Dated, Pending
  <2>4. Placed
    BY <2>1, <2>2 DEF Placed, OnQueue, OnePlace, InHand
  <2>5. InOrder
    BY <2>1, <2>2 DEF InOrder, QueueInOrder, SentFirst, HeldNext, OrderKept, Held, Sending, Streaming
  <2>6. QED
    BY <2>3, <2>4, <2>5 DEF Order
<1>2. Inv /\ Order /\ [Next]_vars => Order'
  <2> SUFFICES ASSUME Inv, Order, [Next]_vars PROVE Order'
    OBVIOUS
  <2>1. ASSUME NEW a \in Savers, NEW set \in Requested, Submit(a, set) PROVE Order'
    BY <2>1, QuietOrder DEF Submit
  <2>2. ASSUME NEW a \in Savers, StoreRow(a) \/ ReadRows(a) PROVE Order'
    BY <2>2, QuietOrder DEF StoreRow, ReadRows
  <2>3. ASSUME NEW a \in Savers, Configure(a) PROVE Order'
    BY <2>3, ConfigureOrder
  <2>4. ASSUME NEW e \in Events, ReadConfig(e) \/ LoadQueue(e) \/ Put(e) PROVE Order'
    BY <2>4, EnqueueOrder, PutOrder
  <2>5. CASE WorkerStep
    BY <2>5, WorkerOrder, TakeOrder
  <2>6. CASE Restart
    BY <2>6, RestartOrder
  <2>7. CASE UNCHANGED vars
    BY <2>7, QuietOrder DEF vars
  <2>8. QED
    BY <2>1, <2>2, <2>3, <2>4, <2>5, <2>6, <2>7 DEF Next
<1>3. Order => OrderKept
  BY DEF Order, InOrder
<1>4. QED
  BY <1>1, <1>2, <1>3, Invariant, PTL DEF Spec
=============================================================================
