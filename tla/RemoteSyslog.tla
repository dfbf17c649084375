----------------------------- MODULE RemoteSyslog -----------------------------
(***************************************************************************)
(* The forwarder of audit events: request threads put events on a bounded  *)
(* queue, one worker thread takes them off and sends them over UDP or over *)
(* a stream (TCP, TLS), and an administrator replaces the configuration    *)
(* meanwhile.  Every configuration has a generation; the worker discards   *)
(* what was accepted under another one.  The forwarder's lock makes        *)
(* configure, _install_stream and the tests around a send atomic; putting, *)
(* taking and sending happen without it.                                   *)
(***************************************************************************)
EXTENDS Naturals, Sequences, Functions

CONSTANTS
    Events,     \* audit events, each with the thread that reports it
    Savers,     \* administrators that save the settings together
    Requested,  \* the configurations they submit
    First,      \* the configuration stored when the process starts
    Hosts,      \* syslog servers
    MaxSize,    \* bound on the queue size
    MaxGen,     \* bound on the generations of one process
    None        \* no configuration, no event, no socket

Settings == [enabled: BOOLEAN, host: Hosts, proto: {"udp", "tls"}, size: 1..MaxSize,
             plain: BOOLEAN]      \* plain: allow_insecure_plaintext

(* validate_syslog_config *)
Valid(set) == set.enabled /\ set.proto = "udp" => set.plain
Generations == 0..MaxGen

ASSUME SyslogAssumption ==
    /\ MaxSize \in Nat \ {0} /\ MaxGen \in Nat \ {0}
    /\ Requested \subseteq {set \in Settings : Valid(set)}
    /\ First \in {set \in Settings : Valid(set)}
    /\ None \notin Settings \cup Events \cup Hosts

VARIABLES
    stored,   \* the settings rows
    saver,    \* saver[a]: the next row to write and the settings submitted
    config,   \* the forwarder's configuration, with its generation
    queues,   \* queues[g]: the queue made by generation g
    current,  \* the generation that made the queue in use
    event,    \* event[e]: how far e is, its configuration, the queue it goes to
    worker,   \* the worker thread: the queue it waits on, what it holds
    stream,   \* the destination of the open stream, or None
    udp,      \* the UDP socket is open
    accepted, \* events in the order they were put on a queue
    sent      \* events in the order they were sent

vars == <<stored, saver, config, queues, current, event, worker, stream, udp,
          accepted, sent>>
sockets == <<stream, udp>>

Rows == <<"enabled", "host", "proto", "size", "plain">>
Applying == Len(Rows) + 1     \* every row is written: read them back
Configuring == Len(Rows) + 2

Config == [set: Settings, gen: Generations]
Fates == {"sent", "failed", "stale", "dropped"}

(* The queue in use has the configured size and holds no more than that.   *)
TypeOK ==
    /\ stored \in Settings
    /\ saver \in [Savers -> [row: 0..Configuring, set: {None} \cup Settings]]
    /\ config \in Config
    /\ queues \in [Generations -> [size: 0..MaxSize, items: Seq(Events)]]
    /\ current \in Generations
    /\ queues[current].size = config.set.size
    /\ Len(queues[current].items) <= config.set.size
    /\ event \in [Events -> [pc: {"new", "read", "loaded", "queued"} \cup Fates,
                             cfg: {None} \cup Config, q: Generations]]
    /\ worker \in [pc: {"wait", "check", "begin", "sendto", "open", "install", "sendall",
                        "reopen", "reinstall", "resend"},
                   q: Generations, item: {None} \cup Events, cfg: {None} \cup Config]
    /\ stream \in {None} \cup [host: Hosts, proto: {"tls"}]
    /\ udp \in BOOLEAN
    /\ accepted \in Seq(Events) /\ sent \in Seq(Events)

NoQueue == [size |-> 0, items |-> <<>>]
Asleep == [row |-> 0, set |-> None]
Fate(f) == [pc |-> f, cfg |-> None, q |-> 0]
Ready(g) == [pc |-> "wait", q |-> g, item |-> None, cfg |-> None]

(* get_remote_syslog_config: rows that do not fit together disable it. *)
Effective(set) == IF Valid(set) THEN set ELSE [set EXCEPT !.enabled = FALSE]

(* A process that has just applied the settings. *)
Boot(set) ==
    /\ config' = [set |-> set, gen |-> 1]
    /\ queues' = [g \in Generations |-> IF g = 1 THEN [size |-> set.size, items |-> <<>>]
                                        ELSE NoQueue]
    /\ current' = 1
    /\ worker' = Ready(1)
    /\ stream' = None /\ udp' = FALSE

Init ==
    /\ stored = First
    /\ saver = [a \in Savers |-> Asleep]
    /\ config = [set |-> First, gen |-> 1]
    /\ queues = [g \in Generations |-> IF g = 1 THEN [size |-> First.size, items |-> <<>>]
                                       ELSE NoQueue]
    /\ current = 1
    /\ event = [e \in Events |-> [pc |-> "new", cfg |-> None, q |-> 0]]
    /\ worker = Ready(1)
    /\ stream = None /\ udp = FALSE
    /\ accepted = <<>> /\ sent = <<>>
-----------------------------------------------------------------------------
(* Saving the settings *)

Submit(a, set) ==
    /\ saver[a] = Asleep
    /\ saver' = [saver EXCEPT ![a] = [row |-> 1, set |-> set]]
    /\ UNCHANGED <<stored, config, queues, current, event, worker, sockets, accepted, sent>>

(* set_remote_syslog_config commits one row after the other. *)
StoreRow(a) ==
    /\ saver[a].row \in DOMAIN Rows
    /\ stored' = [stored EXCEPT ![Rows[saver[a].row]] = saver[a].set[Rows[saver[a].row]]]
    /\ saver' = [saver EXCEPT ![a].row = @ + 1]
    /\ UNCHANGED <<config, queues, current, event, worker, sockets, accepted, sent>>

(* apply_remote_syslog_config reads the rows back ... *)
ReadRows(a) ==
    /\ saver[a].row = Applying
    /\ saver' = [saver EXCEPT ![a] = [row |-> Configuring, set |-> Effective(stored)]]
    /\ UNCHANGED <<stored, config, queues, current, event, worker, sockets, accepted, sent>>

LastOf(s, n) == SubSeq(s, IF Len(s) > n THEN Len(s) - n + 1 ELSE 1, Len(s))

ConfigureUnbounded(a) ==     \* fault: a resize moves every pending event
    LET set == saver[a].set
        pending == queues[current].items
        g == config.gen + 1
    IN
    /\ saver[a].row = Configuring
    /\ g \in Generations
    /\ config' = [set |-> set, gen |-> g]
    /\ IF set.size = queues[current].size THEN UNCHANGED <<queues, current>>
       ELSE /\ queues' = [queues EXCEPT ![current].items = <<>>,
                                        ![g] = [size |-> set.size, items |-> pending]]
            /\ current' = g
    /\ stream' = None /\ udp' = FALSE
    /\ saver' = [saver EXCEPT ![a] = Asleep]
    /\ UNCHANGED <<stored, event, worker, accepted, sent>>

(* ... and configures the forwarder: a new generation, a new queue when    *)
(* the size changes, with the youngest of the pending events, and no       *)
(* socket.  (A thread that read the configuration before may put an event  *)
(* while the pending ones are moved; all of them are of old generations.)  *)
Configure(a) ==
    LET set == saver[a].set
        pending == queues[current].items
        kept == LastOf(pending, set.size)
        g == config.gen + 1
        Evicted(e) == e \in Range(pending) \ Range(kept)
    IN
    /\ saver[a].row = Configuring
    /\ g \in Generations               \* bound
    /\ config' = [set |-> set, gen |-> g]
    /\ IF set.size = queues[current].size THEN UNCHANGED <<queues, current, event>>
       ELSE /\ queues' = [queues EXCEPT ![current].items = <<>>,
                                        ![g] = [size |-> set.size, items |-> kept]]
            /\ current' = g
            /\ event' = [e \in Events |->
                           IF Evicted(e) THEN Fate("dropped") ELSE event[e]]
    /\ stream' = None /\ udp' = FALSE
    /\ saver' = [saver EXCEPT ![a] = Asleep]
    /\ UNCHANGED <<stored, worker, accepted, sent>>
-----------------------------------------------------------------------------
(* enqueue, by the thread that reports the event *)

(* Events below the minimum level are left out. *)
ReadConfig(e) ==
    /\ event[e].pc = "new"
    /\ event' = [event EXCEPT ![e] = IF config.set.enabled
                                      THEN [pc |-> "read", cfg |-> config, q |-> 0]
                                      ELSE Fate("dropped")]
    /\ UNCHANGED <<stored, saver, config, queues, current, worker, sockets, accepted, sent>>

(* self._queue is evaluated without the lock. *)
LoadQueue(e) ==
    /\ event[e].pc = "read"
    /\ event' = [event EXCEPT ![e].pc = "loaded", ![e].q = current]
    /\ UNCHANGED <<stored, saver, config, queues, current, worker, sockets, accepted, sent>>

PutFront(e) ==     \* fault: the queue is a stack
    LET q == event[e].q
        room == Len(queues[q].items) < queues[q].size
    IN
    /\ event[e].pc = "loaded"
    /\ event' = [event EXCEPT ![e] = IF room THEN [@ EXCEPT !.pc = "queued", !.q = 0]
                                      ELSE Fate("dropped")]
    /\ queues' = IF room THEN [queues EXCEPT ![q].items = <<e>> \o @] ELSE queues
    /\ accepted' = IF room THEN Append(accepted, e) ELSE accepted
    /\ UNCHANGED <<stored, saver, config, current, worker, sockets, sent>>

Put(e) ==
    LET q == event[e].q
        room == Len(queues[q].items) < queues[q].size
    IN
    /\ event[e].pc = "loaded"
    /\ event' = [event EXCEPT ![e] = IF room THEN [@ EXCEPT !.pc = "queued", !.q = 0]
                                      ELSE Fate("dropped")]
    /\ queues' = IF room THEN [queues EXCEPT ![q].items = Append(@, e)] ELSE queues
    /\ accepted' = IF room THEN Append(accepted, e) ELSE accepted
    /\ UNCHANGED <<stored, saver, config, current, worker, sockets, sent>>
-----------------------------------------------------------------------------
(* The worker *)

Work(pc) == worker' = [worker EXCEPT !.pc = pc]
Done(fate) ==
    /\ worker' = Ready(current)
    /\ event' = [event EXCEPT ![worker.item] = Fate(fate)]
Target(cfg) == [host |-> cfg.set.host, proto |-> cfg.set.proto]
Transmitted == sent' = Append(sent, worker.item)

PollOldQueue ==     \* fault: the queue is read once, before the loop
    /\ worker.pc = "wait"
    /\ queues[worker.q].items = <<>>
    /\ UNCHANGED vars

(* A get that times out is made again, on the queue that is in use then. *)
Poll ==
    /\ worker.pc = "wait"
    /\ worker.q # current
    /\ queues[worker.q].items = <<>>
    /\ worker' = Ready(current)
    /\ UNCHANGED <<stored, saver, config, queues, current, event, sockets, accepted, sent>>

Take ==
    LET items == queues[worker.q].items IN
    /\ worker.pc = "wait"
    /\ items # <<>>
    /\ queues' = [queues EXCEPT ![worker.q].items = Tail(@)]
    /\ worker' = [worker EXCEPT !.pc = "check", !.item = Head(items)]
    /\ UNCHANGED <<stored, saver, config, current, event, sockets, accepted, sent>>

CheckGeneration ==
    /\ worker.pc = "check"
    /\ IF event[worker.item].cfg.gen # config.gen \/ ~config.set.enabled
       THEN Done("stale")
       ELSE /\ worker' = [worker EXCEPT !.pc = "begin", !.cfg = config]
            /\ UNCHANGED event
    /\ UNCHANGED <<stored, saver, config, queues, current, sockets, accepted, sent>>

(* _send_udp: whatever the generation is by now. *)
BeginUdp ==
    /\ worker.pc = "begin"
    /\ worker.cfg.set.proto = "udp"
    /\ udp' = TRUE
    /\ Work("sendto")
    /\ UNCHANGED <<stored, saver, config, queues, current, event, stream, accepted, sent>>

SendTo ==
    /\ worker.pc = "sendto"
    /\ \/ udp /\ Transmitted /\ Done("sent")
       \/ UNCHANGED sent /\ Done("failed")
    /\ UNCHANGED <<stored, saver, config, queues, current, sockets, accepted>>

(* _send_stream *)
BeginStream ==
    /\ worker.pc = "begin"
    /\ worker.cfg.set.proto # "udp"
    /\ Work(IF stream = Target(worker.cfg) THEN "sendall" ELSE "open")
    /\ UNCHANGED <<stored, saver, config, queues, current, event, sockets, accepted, sent>>

(* The connection is made without the lock. *)
Open ==
    /\ worker.pc \in {"open", "reopen"}
    /\ \/ /\ Work(IF worker.pc = "open" THEN "install" ELSE "reinstall")
          /\ UNCHANGED event
       \/ Done("failed")
    /\ UNCHANGED <<stored, saver, config, queues, current, sockets, accepted, sent>>

StillWanted ==
    /\ config.gen = worker.cfg.gen /\ config.set.enabled
    /\ Target(config) = Target(worker.cfg)

InstallUnchecked ==     \* fault: the configuration is not looked at again
    /\ worker.pc \in {"install", "reinstall"}
    /\ stream' = Target(worker.cfg)
    /\ Work(IF worker.pc = "install" THEN "sendall" ELSE "resend")
    /\ UNCHANGED <<event, stored, saver, config, queues, current, udp, accepted, sent>>

(* _install_stream *)
Install ==
    /\ worker.pc \in {"install", "reinstall"}
    /\ \/ /\ StillWanted
          /\ stream' = Target(worker.cfg)
          /\ Work(IF worker.pc = "install" THEN "sendall" ELSE "resend")
          /\ UNCHANGED event
       \/ /\ ~StillWanted
          /\ UNCHANGED stream
          /\ Done("stale")
    /\ UNCHANGED <<stored, saver, config, queues, current, udp, accepted, sent>>

MayArrive == UNCHANGED sent \/ (stream # None /\ Transmitted)

(* sendall succeeds, or fails with some or all of it delivered.  A stream  *)
(* that configure has closed fails.  Then the stream is closed and the     *)
(* configuration looked at again.                                          *)
SendAll ==
    /\ worker.pc = "sendall"
    /\ \/ /\ stream # None
          /\ Transmitted /\ Done("sent")
          /\ UNCHANGED stream
       \/ /\ MayArrive
          /\ stream' = None
          /\ IF StillWanted THEN Work("reopen") /\ UNCHANGED event ELSE Done("stale")
    /\ UNCHANGED <<stored, saver, config, queues, current, udp, accepted>>

(* The second attempt is the last; its stream stays installed. *)
Resend ==
    /\ worker.pc = "resend"
    /\ \/ stream # None /\ Transmitted /\ Done("sent")
       \/ MayArrive /\ Done("failed")
    /\ UNCHANGED <<stored, saver, config, queues, current, sockets, accepted>>

WorkerStep ==
    \/ Poll \/ Take \/ CheckGeneration \/ BeginUdp \/ SendTo
    \/ BeginStream \/ Open \/ Install \/ SendAll \/ Resend
-----------------------------------------------------------------------------
Lost(e) == event[e].pc \in {"read", "loaded", "queued"}

RestartDefault ==     \* fault: the stored settings are not applied
    /\ Boot(First)
    /\ saver' = [a \in Savers |-> Asleep]
    /\ event' = [e \in Events |-> IF Lost(e) THEN Fate("dropped") ELSE event[e]]
    /\ UNCHANGED <<stored, accepted, sent>>

(* The process ends, stop or not, with what is on the queue; the next one  *)
(* applies the stored settings, however far a save had come.               *)
Restart ==
    /\ Boot(Effective(stored))
    /\ saver' = [a \in Savers |-> Asleep]
    /\ event' = [e \in Events |-> IF Lost(e) THEN Fate("dropped") ELSE event[e]]
    /\ UNCHANGED <<stored, accepted, sent>>

Next ==
    \/ \E a \in Savers :
          \/ \E set \in Requested : Submit(a, set)
          \/ StoreRow(a) \/ ReadRows(a) \/ Configure(a)
    \/ \E e \in Events : ReadConfig(e) \/ LoadQueue(e) \/ Put(e)
    \/ WorkerStep
    \/ Restart

(* The worker thread runs, and every call to the network has a timeout. *)
Fairness == WF_vars(WorkerStep)

Spec == Init /\ [][Next]_vars /\ Fairness
-----------------------------------------------------------------------------
(* Events arrive at the server in the order in which they were accepted,   *)
(* across reconnections, resized queues and the discarding of old ones.    *)
OrderKept ==
    \A i, j \in DOMAIN sent : i < j =>
        \E m, n \in DOMAIN accepted :
            m <= n /\ accepted[m] = sent[i] /\ accepted[n] = sent[j]

(* Over a stream nothing is sent to a server once another configuration is *)
(* in force, however the sending and the saving interleave.                *)
StreamFollowsConfig ==
    [][sent' # sent /\ worker.cfg.set.proto # "udp" => worker.cfg = config]_vars

(* With one save at a time, the forwarder runs with the stored settings,   *)
(* whether they were saved or a save was cut short by a restart.           *)
RunsAsStored == (\A a \in Savers : saver[a] = Asleep) => config.set = Effective(stored)

(* An event on the queue in use is decided: sent, failed, discarded or      *)
(* dropped by a resize, whatever the administrator and the network do.      *)
EveryEventDecided ==
    \A e \in Events :
        e \in Range(queues[current].items) ~> event[e].pc # "queued"

(* "Preserve pending events when resizing": an event is discarded as stale *)
(* only if more than the size of the queue has changed.                    *)
PendingPreserved ==
    [][\A e \in Events : event[e].pc # "stale" /\ event'[e].pc = "stale" =>
         [event[e].cfg.set EXCEPT !.size = 1] # [config.set EXCEPT !.size = 1]]_vars
=============================================================================
