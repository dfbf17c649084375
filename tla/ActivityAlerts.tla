---------------------------- MODULE ActivityAlerts ----------------------------
(***************************************************************************)
(* The activity log and its email alerts.  A request that emits an event   *)
(* stores it, runs the retention cleanup when one is due, and evaluates    *)
(* the alert rules itself: for every rule that matches and is not cooling  *)
(* down it tries the SMTP servers in order, writes the time into the rule  *)
(* and emits an event about the delivery.  Each of these is a transaction  *)
(* of its own, and other requests and the administrator run in between.    *)
(* Time is counted in ticks, Day of which make 24 hours.                   *)
(***************************************************************************)
EXTENDS Integers, FiniteSets

CONSTANTS
    Workers,     \* requests that may emit events together
    NRules,      \* alert rules are 1..NRules, in the order of their ids
    Ranks,       \* ranks of log levels
    InfoRank, ErrorRank,  \* the levels of alert.email_sent and alert.email_failed
    Cooldowns,   \* cooldowns a rule may have, in ticks
    Windows,     \* retention windows, in ticks
    Day,
    NServers,    \* most SMTP servers in the list
    MaxTime,     \* bound on the clock
    MaxEvents,   \* bound on the events requests emit
    MaxChanges,  \* bound on what the administrator does, and on restarts
    Never        \* a time that was not

Rules == 1..NRules

ASSUME AlertsAssumption ==
    /\ NRules \in Nat /\ NServers \in Nat /\ Day \in Nat \ {0}
    /\ Ranks \subseteq Nat /\ {InfoRank, ErrorRank} \subseteq Ranks
    /\ \A rank \in Ranks : rank <= ErrorRank
    /\ Cooldowns \subseteq Nat /\ Windows \subseteq Nat \ {0}
    /\ MaxTime \in Nat /\ MaxEvents \in Nat /\ MaxChanges \in Nat
    /\ Never \notin Int

VARIABLES
    now, level, smtp,       \* the clock, log_level, how many servers are listed
    window,                 \* activity_retention_days
    rows,                   \* times of the rows of activity_log
    lastDb, lastLocal,      \* last cleanup: the stored setting, _retention_state
    rule,                   \* rule[r]: row of alert_rule
    job,                    \* job[w]: what worker w evaluates
    events, changes,        \* counters of the bounds
    keptFor,                \* the window of the last cleanup
    burst,                  \* burst[r]: when r began to mail after a cooldown, who did since, and
                            \* whether one request did twice
    due                     \* due[w]: rules w has to serve before it ends

log == <<rows, lastDb, lastLocal, keptFor>>
config == <<now, level, smtp, window, changes>>
vars == <<log, config, rule, job, events, burst, due>>

Times == 0..MaxTime \cup {Never}
Steps == {"idle", "look", "send", "record", "answer"}

TypeOK ==
    /\ now \in 0..MaxTime /\ level \in Ranks /\ smtp \in 0..NServers /\ window \in Windows
    /\ rows \subseteq 0..MaxTime
    /\ lastDb \in Times /\ lastLocal \in Times /\ keptFor \in Windows
    /\ rule \in [Rules -> [here: BOOLEAN, enabled: BOOLEAN, min: Ranks,
                           cooldown: Cooldowns, last: Times]]
    /\ job \in [Workers -> [pc: Steps, rank: Ranks, todo: SUBSET Rules, cur: 0..NRules,
                            left: 0..NServers, sent: BOOLEAN]]
    /\ events \in 0..MaxEvents /\ changes \in 0..MaxChanges
    /\ burst \in [Rules -> [since: Times, by: SUBSET Workers, twice: BOOLEAN]]
    /\ due \in [Workers -> SUBSET Rules]
    /\ \A w \in Workers : job[w].pc \in {"send", "record", "answer"} => job[w].cur \in Rules

Free == [pc |-> "idle", rank |-> InfoRank, todo |-> {}, cur |-> 0, left |-> 0, sent |-> FALSE]
Quiet == [since |-> Never, by |-> {}, twice |-> FALSE]

Init ==
    /\ now = 0 /\ level = InfoRank /\ smtp = NServers
    /\ window \in Windows /\ keptFor = window
    /\ rows = {} /\ lastDb = 0 /\ lastLocal = 0
    /\ rule \in [Rules -> [here: {TRUE}, enabled: {TRUE}, min: {InfoRank}, cooldown: Cooldowns, last: {Never}]]
    /\ job = [w \in Workers |-> Free]
    /\ events = 0 /\ changes = 0
    /\ burst = [r \in Rules |-> Quiet]
    /\ due = [w \in Workers |-> {}]

At(w, pc) == job[w].pc = pc
Within(t, span) == t # Never /\ now - t < span
-----------------------------------------------------------------------------
(* should_store_event *)
Stored(rank, security) == security \/ rank >= level

CleanLocally ==     \* fault: the time is written, the delete is not committed
    /\ rows' = rows \cup {now}
    /\ lastDb' = now /\ lastLocal' = now
    /\ keptFor' = window

Clean ==
    /\ rows' = {t \in rows : t >= now - window} \cup {now}
    /\ lastDb' = now /\ lastLocal' = now
    /\ keptFor' = window

(* emit_activity_event: the row, then run_retention_cleanup, at most once  *)
(* in 24 hours by this process or by the one before it                     *)
Store ==
    CASE Within(lastLocal, Day) ->
            rows' = rows \cup {now} /\ UNCHANGED <<lastDb, lastLocal, keptFor>>
      [] ~Within(lastLocal, Day) /\ Within(lastDb, Day) ->
            rows' = rows \cup {now} /\ lastLocal' = lastDb /\ UNCHANGED <<lastDb, keptFor>>
      [] OTHER -> Clean

(* emit_activity_event, up to the evaluation of the rules *)
Emit(w, rank, security) ==
    /\ At(w, "idle") /\ events < MaxEvents
    /\ events' = events + 1
    /\ IF Stored(rank, security)
       THEN Store /\ job' = [job EXCEPT ![w] = [Free EXCEPT !.pc = "look", !.rank = rank]]
       ELSE UNCHANGED <<log, job>>
    /\ UNCHANGED <<config, rule, burst, due>>
-----------------------------------------------------------------------------
Cooling(r) == rule[r].cooldown # 0 /\ Within(rule[r].last, rule[r].cooldown)

Matches(w, r) == job[w].rank >= rule[r].min /\ ~Cooling(r)

(* The rules still to look at: read at the first step, enabled ones only.  *)
Todo(w) ==
    IF job[w].cur = 0 THEN {r \in Rules : rule[r].here /\ rule[r].enabled} ELSE job[w].todo

(* The next rule that matches, or that was deleted: reading a deleted row  *)
(* after a commit raises, and the evaluation ends there.                   *)
NextRules(w) ==
    LET stops == {r \in Todo(w) : ~rule[r].here \/ Matches(w, r)}
    IN {r \in stops : \A s \in stops : r <= s}

NewBurst(w, r) ==
    IF rule[r].cooldown = 0 THEN Quiet
    ELSE IF Within(burst[r].since, rule[r].cooldown)
    THEN [burst[r] EXCEPT !.by = @ \cup {w}, !.twice = @ \/ w \in burst[r].by]
    ELSE [since |-> now, by |-> {w}, twice |-> FALSE]

DueAtFirst(w) == {r \in Todo(w) : rule[r].here /\ Matches(w, r)}

End(w) ==
    /\ job' = [job EXCEPT ![w] = Free]
    /\ UNCHANGED burst

(* The loop of evaluate_alert_rules, up to the next email *)
Look(w) ==
    /\ At(w, "look")
    /\ LET owed == IF job[w].cur = 0 THEN DueAtFirst(w) ELSE due[w]
       IN \/ /\ NextRules(w) = {}
             /\ End(w)
             /\ due' = [due EXCEPT ![w] = owed]
          \/ \E r \in NextRules(w) :
                IF rule[r].here
                THEN /\ job' = [job EXCEPT ![w].pc = IF smtp = 0 THEN "record" ELSE "send",
                                           ![w].todo = {s \in Todo(w) : s > r},
                                           ![w].cur = r, ![w].left = smtp, ![w].sent = FALSE]
                     /\ burst' = [burst EXCEPT ![r] = NewBurst(w, r)]
                     /\ due' = [due EXCEPT ![w] = owed \ {r}]
                ELSE End(w) /\ due' = [due EXCEPT ![w] = {}]
    /\ UNCHANGED <<log, config, rule, events>>

SendPastLast(w) ==    \* fault: one server too many is tried
    /\ At(w, "send")
    /\ \/ job' = [job EXCEPT ![w].pc = "record", ![w].left = 0, ![w].sent = TRUE]
       \/ job' = [job EXCEPT ![w].left = @ - 1, ![w].pc = IF job[w].left = 0 THEN "record" ELSE "send"]
    /\ UNCHANGED <<log, config, rule, events, burst, due>>

(* One server of send_alert_email: it takes the message, or the next one   *)
(* is tried; after the last one the alert has failed.                      *)
Send(w) ==
    /\ At(w, "send")
    /\ \/ job' = [job EXCEPT ![w].pc = "record", ![w].left = 0, ![w].sent = TRUE]
       \/ job' = [job EXCEPT ![w].left = @ - 1, ![w].pc = IF job[w].left = 1 THEN "record" ELSE "send"]
    /\ UNCHANGED <<log, config, rule, events, burst, due>>

StampSent(w) ==      \* fault: a delivery that failed does not start the cooldown
    rule' = IF job[w].sent THEN [rule EXCEPT ![job[w].cur].last = now] ELSE rule

Stamp(w) == rule' = [rule EXCEPT ![job[w].cur].last = now]

(* last_triggered_at is committed; the rule may be gone by then. *)
Record(w) ==
    /\ At(w, "record")
    /\ IF rule[job[w].cur].here
       THEN /\ Stamp(w)
            /\ job' = [job EXCEPT ![w].pc = "answer"]
            /\ due' = [v \in Workers |-> due[v] \ {job[w].cur}]
       ELSE /\ job' = [job EXCEPT ![w] = Free]
            /\ due' = [due EXCEPT ![w] = {}]
            /\ UNCHANGED rule
    /\ UNCHANGED <<log, config, events, burst>>

AnswerStops(w) ==    \* fault: a delivery that failed ends the evaluation
    /\ At(w, "answer")
    /\ Store
    /\ job' = [job EXCEPT ![w] = IF job[w].sent THEN [@ EXCEPT !.pc = "look", !.sent = FALSE] ELSE Free]
    /\ UNCHANGED <<config, rule, events, burst, due>>

(* alert.email_sent or alert.email_failed; no rule is evaluated for it. *)
Answer(w) ==
    /\ At(w, "answer")
    /\ IF Stored(IF job[w].sent THEN InfoRank ELSE ErrorRank, FALSE) THEN Store ELSE UNCHANGED log
    /\ job' = [job EXCEPT ![w].pc = "look", ![w].sent = FALSE]
    /\ UNCHANGED <<config, rule, events, burst, due>>
-----------------------------------------------------------------------------
Change == changes < MaxChanges /\ changes' = changes + 1

(* settings_alerts_create, settings_alerts_update: nothing but the fields  *)
(* of the form is written.                                                 *)
SaveRule(r, enabled, min, cooldown) ==
    /\ Change
    /\ rule' = [rule EXCEPT ![r] = [here |-> TRUE, enabled |-> enabled, min |-> min, cooldown |-> cooldown,
                                    last |-> IF rule[r].here THEN rule[r].last ELSE Never]]
    /\ rule[r].here \/ (\A s \in Rules : rule[s].here <=> s < r)   \* the next id: one may come again
    /\ burst' = [burst EXCEPT ![r] = Quiet]
    /\ due' = [w \in Workers |-> due[w] \ {r}]
    /\ UNCHANGED <<log, now, level, smtp, window, job, events>>

(* settings_alerts_delete *)
DeleteRule(r) ==
    /\ Change
    /\ rule[r].here
    /\ rule' = [rule EXCEPT ![r].here = FALSE]
    /\ burst' = [burst EXCEPT ![r] = Quiet]
    /\ due' = [w \in Workers |-> due[w] \ {r}]
    /\ UNCHANGED <<log, now, level, smtp, window, job, events>>

SetLevel(rank) == Change /\ level' = rank /\ UNCHANGED <<log, now, smtp, window, rule, job, events, burst, due>>
SetWindow(span) == Change /\ window' = span /\ UNCHANGED <<log, now, level, smtp, rule, job, events, burst, due>>
SetSmtp(n) == Change /\ smtp' = n /\ UNCHANGED <<log, now, level, window, rule, job, events, burst, due>>

(* The process ends anywhere and starts: _startup_init cleans up, or goes  *)
(* on without when that fails; _retention_state starts empty.              *)
Restart ==
    /\ Change
    /\ \/ /\ rows' = {t \in rows : t >= now - window}
          /\ lastDb' = now /\ lastLocal' = now
          /\ keptFor' = window
       \/ lastLocal' = Never /\ UNCHANGED <<rows, lastDb, keptFor>>
    /\ job' = [w \in Workers |-> Free]
    /\ burst' = [r \in Rules |-> Quiet]
    /\ due' = [w \in Workers |-> {}]
    /\ UNCHANGED <<now, level, smtp, window, rule, events>>

Tick ==
    /\ now < MaxTime
    /\ now' = now + 1
    /\ UNCHANGED <<log, level, smtp, window, changes, rule, job, events, burst, due>>
-----------------------------------------------------------------------------
Evaluate(w) == Look(w) \/ Send(w) \/ Record(w) \/ Answer(w)

Next ==
    \/ \E w \in Workers :
        \/ Evaluate(w)
        \/ \E rank \in Ranks, security \in BOOLEAN : Emit(w, rank, security)
    \/ \E r \in Rules :
        \/ DeleteRule(r)
        \/ \E enabled \in BOOLEAN, min \in Ranks, cooldown \in Cooldowns : SaveRule(r, enabled, min, cooldown)
    \/ \E rank \in Ranks : SetLevel(rank)
    \/ \E span \in Windows : SetWindow(span)
    \/ \E n \in 0..NServers : SetSmtp(n)
    \/ Restart \/ Tick

Spec == Init /\ [][Next]_vars
-----------------------------------------------------------------------------
(* Evaluations that overlap each mail before the others have written the   *)
(* time, so one cooldown may see several mails.  It never sees more than   *)
(* one from each request thread, and a delivery that failed cools down     *)
(* like one that succeeded: a storm of events is not a storm of mails.     *)
StormBounded == \A r \in Rules : ~burst[r].twice

(* A rule that matched an event and was not cooling down when the event    *)
(* was stored gets its mail before the evaluation ends, whatever happened  *)
(* to the rules before it: unless the rule was edited, another evaluation  *)
(* served it, a deleted rule cut the evaluation short, or a restart.       *)
MatchedRulesServed == \A w \in Workers : At(w, "idle") => due[w] = {}

(* Whenever a row is added, no row is older than the window of the last    *)
(* cleanup and a day: throttled by this process or by the setting that a   *)
(* process before it stored, across restarts and changes of the window.    *)
RowsLeaveInTime == [][rows' # rows => \A t \in rows' : now - t < keptFor' + Day]_vars
==============================================================================
