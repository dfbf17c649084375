------------------------ MODULE ActivityAlerts_proofs ------------------------
(***************************************************************************)
(* Proofs about ActivityAlerts for any number of requests, rules, servers, *)
(* levels and cooldowns, and any bounds.                                   *)
(***************************************************************************)
EXTENDS ActivityAlerts, WellFoundedInduction, TLAPS

(* An evaluation that is sending has a server left to try. *)
ServerLeft == \A w \in Workers : job[w].pc = "send" => job[w].left > 0

TypeInv == TypeOK /\ ServerLeft

(* The parts of TypeOK that a handler of an event may change. *)
LEMMA StoreTypes ==
  ASSUME TypeOK, Store
  PROVE  /\ rows' \subseteq 0..MaxTime
         /\ lastDb' \in Times /\ lastLocal' \in Times /\ keptFor' \in Windows
BY DEF TypeOK, Store, Clean, Times

(* A step replaces one record of job by another one of its type. *)
JobRow == [pc: Steps, rank: Ranks, todo: SUBSET Rules, cur: 0..NRules,
           left: 0..NServers, sent: BOOLEAN]

LEMMA JobReplaced ==
  ASSUME TypeInv, NEW w \in Workers, NEW row \in JobRow,
         job' = [job EXCEPT ![w] = row],
         row.pc \in {"send", "record", "answer"} => row.cur \in Rules,
         row.pc = "send" => row.left > 0
  PROVE  /\ job' \in [Workers -> JobRow]
         /\ \A v \in Workers : job'[v].pc \in {"send", "record", "answer"} => job'[v].cur \in Rules
         /\ \A v \in Workers : job'[v].pc = "send" => job'[v].left > 0
BY DEF TypeInv, TypeOK, ServerLeft, JobRow

BurstRow == [since: Times, by: SUBSET Workers, twice: BOOLEAN]

LEMMA BurstTypes ==
  ASSUME TypeOK, NEW w \in Workers, NEW r \in Rules
  PROVE  NewBurst(w, r) \in BurstRow
<1> DEFINE old == burst[r]
<1>1. old \in BurstRow /\ now \in Times
  BY DEF TypeOK, BurstRow, Times
<1>2. Quiet \in BurstRow
  BY DEF Quiet, BurstRow, Times
<1>3. [since |-> now, by |-> {w}, twice |-> FALSE] \in BurstRow
  BY <1>1 DEF BurstRow
<1>4. [old EXCEPT !.by = @ \cup {w}, !.twice = @ \/ w \in old.by] \in BurstRow
  <2> HIDE DEF old
  <2> DEFINE twice == old.twice \/ w \in old.by
  <2>1. twice \in BOOLEAN /\ old.by \cup {w} \in SUBSET Workers
    BY <1>1 DEF BurstRow
  <2> HIDE DEF twice
  <2>2. [old EXCEPT !.by = old.by \cup {w}, !.twice = twice] \in BurstRow
    BY <1>1, <2>1 DEF BurstRow
  <2>3. QED
    BY <2>2 DEF twice
<1>5. QED
  BY <1>2, <1>3, <1>4 DEF NewBurst

RuleRow == [here: BOOLEAN, enabled: BOOLEAN, min: Ranks, cooldown: Cooldowns, last: Times]

LEMMA FreeRow == Free \in JobRow
BY AlertsAssumption DEF Free, JobRow, Steps

LEMMA TodoTypes ==
  ASSUME TypeOK, NEW w \in Workers
  PROVE  Todo(w) \subseteq Rules /\ NextRules(w) \subseteq Rules
BY DEF TypeOK, Todo, NextRules

LEMMA TypeInvariant == Spec => []TypeInv
<1>1. Init => TypeInv
  <2> SUFFICES ASSUME Init PROVE TypeInv
    OBVIOUS
  <2>1. Free \in JobRow
    BY FreeRow
  <2>2. job \in [Workers -> JobRow]
    BY <2>1 DEF Init
  <2>3. \A w \in Workers : job[w].pc = "idle"
    BY DEF Init, Free
  <2>4. TypeOK
    <3>1. /\ 0 \in 0..MaxTime /\ 0 \in 0..MaxEvents /\ 0 \in 0..MaxChanges /\ 0 \in Times
          /\ InfoRank \in Ranks /\ NServers \in 0..NServers /\ Never \in Times
      BY AlertsAssumption DEF Times
    <3>2. Quiet \in [since: Times, by: SUBSET Workers, twice: BOOLEAN]
      BY <3>1 DEF Quiet
    <3>3. rule \in [Rules -> [here: BOOLEAN, enabled: BOOLEAN, min: Ranks,
                             cooldown: Cooldowns, last: Times]]
      BY <3>1 DEF Init
    <3>4. job \in [Workers -> [pc: Steps, rank: Ranks, todo: SUBSET Rules, cur: 0..NRules,
                             left: 0..NServers, sent: BOOLEAN]]
      BY <2>2 DEF JobRow
    <3>5. QED
      BY <2>3, <3>1, <3>2, <3>3, <3>4 DEF Init, TypeOK
  <2>5. QED
    BY <2>3, <2>4 DEF TypeInv, ServerLeft
<1>2. TypeInv /\ [Next]_vars => TypeInv'
  <2> SUFFICES ASSUME TypeOK, ServerLeft, [Next]_vars PROVE TypeInv'
    BY DEF TypeInv
  <2>0. TypeInv
    BY DEF TypeInv
  <2>1. ASSUME NEW w \in Workers, Look(w) PROVE TypeInv'
    <3>1. Todo(w) \subseteq Rules /\ NextRules(w) \subseteq Rules
      BY TodoTypes
    <3>2. job[w] \in JobRow
      BY DEF TypeOK, JobRow
    <3>3. /\ UNCHANGED <<log, config, rule, events>>
          /\ burst' \in [Rules -> [since: Times, by: SUBSET Workers, twice: BOOLEAN]]
          /\ due' \in [Workers -> SUBSET Rules]
      <4>1. \A r \in Rules : NewBurst(w, r) \in BurstRow
        BY BurstTypes
      <4>2. DueAtFirst(w) \subseteq Rules
        BY <3>1 DEF DueAtFirst
      <4>3. QED
        <5>0. due' \in [Workers -> SUBSET Rules]
          <6>1. due[w] \in SUBSET Rules
            BY DEF TypeOK
          <6>2. \E x \in SUBSET Rules : due' = [due EXCEPT ![w] = x]
            BY <2>1, <3>1, <4>2, <6>1 DEF Look
          <6>3. QED
            BY <6>2 DEF TypeOK
        <5>1. CASE End(w)
          BY <2>1, <5>0, <5>1 DEF Look, End, TypeOK, BurstRow
        <5>2. CASE ~End(w)
          <6>1. PICK r \in NextRules(w) : burst' = [burst EXCEPT ![r] = NewBurst(w, r)]
            BY <2>1, <5>2 DEF Look
          <6>2. NewBurst(w, r) \in BurstRow /\ burst \in [Rules -> BurstRow]
            BY <3>1, <4>1 DEF TypeOK, BurstRow
          <6>3. burst' \in [Rules -> BurstRow]
            BY <6>1, <6>2
          <6>4. QED
            BY <2>1, <5>0, <6>3 DEF Look, BurstRow
        <5>3. QED
          BY <5>1, <5>2
    <3>4. \E row \in JobRow : /\ job' = [job EXCEPT ![w] = row]
                              /\ row.pc \in {"send", "record", "answer"} => row.cur \in Rules
                              /\ row.pc = "send" => row.left > 0
      <4>1. CASE job' = [job EXCEPT ![w] = Free]
        BY <4>1, FreeRow DEF Free
      <4>2. CASE ~(job' = [job EXCEPT ![w] = Free])
        <5>1. PICK r \in NextRules(w) :
                job' = [job EXCEPT ![w].pc = IF smtp = 0 THEN "record" ELSE "send",
                                   ![w].todo = {s \in Todo(w) : s > r},
                                   ![w].cur = r, ![w].left = smtp, ![w].sent = FALSE]
          BY <2>1, <4>2 DEF Look, End
        <5> DEFINE row == [job[w] EXCEPT !.pc = IF smtp = 0 THEN "record" ELSE "send",
                                        !.todo = {s \in Todo(w) : s > r},
                                        !.cur = r, !.left = smtp, !.sent = FALSE]
        <5>2. job' = [job EXCEPT ![w] = row]
          BY <5>1 DEF TypeOK
        <5>3. r \in Rules /\ r \in 0..NRules /\ smtp \in 0..NServers
          <6>1. r \in Rules
            BY <3>1, <5>1
          <6>2. smtp \in 0..NServers
            BY DEF TypeOK
          <6>3. QED
            BY <6>1, <6>2, AlertsAssumption DEF Rules
        <5>4. row \in JobRow /\ row.cur = r /\ (row.pc = "send" => row.left > 0)
          <6> DEFINE old == job[w]
                     pc == IF smtp = 0 THEN "record" ELSE "send"
                     todo == {s \in Todo(w) : s > r}
          <6>1. pc \in Steps /\ todo \in SUBSET Rules /\ old \in JobRow
            BY <3>1, <3>2 DEF Steps
          <6>2. pc = "send" => smtp > 0
            BY <5>3, AlertsAssumption
          <6> HIDE DEF old, pc, todo
          <6>3. LET new == [old EXCEPT !.pc = pc, !.todo = todo, !.cur = r, !.left = smtp, !.sent = FALSE]
                IN  new \in JobRow /\ new.pc = pc /\ new.cur = r /\ new.left = smtp
            BY <5>3, <6>1 DEF JobRow
          <6>4. QED
            BY <6>2, <6>3 DEF old, pc, todo
        <5> HIDE DEF row
        <5>5. QED
          BY <5>2, <5>3, <5>4
      <4>3. QED
        BY <4>1, <4>2
    <3>5. QED
      BY <2>0, <3>3, <3>4, JobReplaced DEF TypeInv, TypeOK, ServerLeft, JobRow, log, config
  <2>2. ASSUME NEW w \in Workers, Send(w) PROVE TypeInv'
    <3>1. job[w] \in JobRow /\ job[w].left > 0 /\ job[w].cur \in Rules
      BY <2>2 DEF TypeOK, JobRow, ServerLeft, Send, At
    <3>2. \E row \in JobRow : /\ job' = [job EXCEPT ![w] = row]
                              /\ row.cur \in Rules
                              /\ row.pc = "send" => row.left > 0
      <4>1. CASE job' = [job EXCEPT ![w].pc = "record", ![w].left = 0, ![w].sent = TRUE]
        <5> DEFINE row == [job[w] EXCEPT !.pc = "record", !.left = 0, !.sent = TRUE]
        <5>1. job' = [job EXCEPT ![w] = row]
          BY <4>1 DEF TypeOK
        <5>2. row \in JobRow /\ row.cur \in Rules /\ row.pc = "record"
          <6> DEFINE old == job[w]
          <6>1. old \in JobRow /\ old.cur \in Rules /\ 0 \in 0..NServers /\ "record" \in Steps
            BY <3>1, AlertsAssumption DEF Steps
          <6> HIDE DEF old
          <6>2. LET new == [old EXCEPT !.pc = "record", !.left = 0, !.sent = TRUE]
                IN  new \in JobRow /\ new.cur \in Rules /\ new.pc = "record"
            BY <6>1 DEF JobRow
          <6>3. QED
            BY <6>2 DEF old
        <5> HIDE DEF row
        <5>3. QED
          BY <5>1, <5>2
      <4>2. CASE job' = [job EXCEPT ![w].left = @ - 1, ![w].pc = IF job[w].left = 1 THEN "record" ELSE "send"]
        <5> DEFINE row == [job[w] EXCEPT !.left = @ - 1, !.pc = IF job[w].left = 1 THEN "record" ELSE "send"]
        <5>1. job' = [job EXCEPT ![w] = row]
          BY <4>2 DEF TypeOK
        <5>2. job[w].left \in 0..NServers
          BY <3>1 DEF JobRow
        <5>3. job[w].left - 1 \in 0..NServers
          BY <3>1, <5>2, AlertsAssumption
        <5>4. row \in JobRow /\ row.cur \in Rules /\ (row.pc = "send" => row.left > 0)
          <6> DEFINE old == job[w]
                     pc == IF old.left = 1 THEN "record" ELSE "send"
          <6>1. /\ old \in JobRow /\ old.cur \in Rules /\ old.left - 1 \in 0..NServers
                /\ pc \in Steps /\ (pc = "send" => old.left - 1 > 0)
            BY <3>1, <5>2, <5>3, AlertsAssumption DEF Steps
          <6> HIDE DEF old, pc
          <6>2. LET new == [old EXCEPT !.left = old.left - 1, !.pc = pc]
                IN  new \in JobRow /\ new.cur \in Rules /\ new.pc = pc /\ new.left = old.left - 1
            BY <6>1 DEF JobRow
          <6>3. QED
            BY <6>1, <6>2 DEF old, pc
        <5> HIDE DEF row
        <5>5. QED
          BY <5>1, <5>4
      <4>3. QED
        BY <2>2, <4>1, <4>2 DEF Send
    <3>3. QED
      BY <2>0, <2>2, <3>2, JobReplaced DEF Send, TypeInv, TypeOK, ServerLeft, JobRow, log, config
  <2>3. ASSUME NEW w \in Workers, Record(w) PROVE TypeInv'
    <3>1. job[w] \in JobRow /\ job[w].cur \in Rules
      BY <2>3 DEF TypeOK, JobRow, Record, At
    <3>2. \E row \in JobRow : /\ job' = [job EXCEPT ![w] = row]
                              /\ row.pc \in {"answer", "idle"}
                              /\ row.pc = "answer" => row.cur \in Rules
      <4>1. CASE job' = [job EXCEPT ![w] = Free]
        BY <4>1, FreeRow DEF Free
      <4>2. CASE job' = [job EXCEPT ![w].pc = "answer"]
        <5> DEFINE row == [job[w] EXCEPT !.pc = "answer"]
        <5>1. job' = [job EXCEPT ![w] = row]
          BY <4>2 DEF TypeOK
        <5>2. row \in JobRow /\ row.cur \in Rules /\ row.pc = "answer"
          BY <3>1 DEF JobRow, Steps
        <5> HIDE DEF row
        <5>3. QED
          BY <5>1, <5>2
      <4>3. QED
        BY <2>3, <4>1, <4>2 DEF Record
    <3>3. /\ rule' \in [Rules -> [here: BOOLEAN, enabled: BOOLEAN, min: Ranks,
                                 cooldown: Cooldowns, last: Times]]
          /\ due' \in [Workers -> SUBSET Rules]
      <4>1. now \in Times
        BY DEF TypeOK, Times
      <4>2. CASE rule[job[w].cur].here
        <5> DEFINE c == job[w].cur
                   row == [rule[c] EXCEPT !.last = now]
        <5>1. rule' = [rule EXCEPT ![c] = row] /\ due' = [v \in Workers |-> due[v] \ {c}]
          BY <2>3, <4>2 DEF Record, Stamp, TypeOK
        <5>2. row \in RuleRow
          BY <3>1, <4>1 DEF TypeOK, RuleRow
        <5> HIDE DEF row
        <5>3. QED
          BY <3>1, <5>1, <5>2 DEF TypeOK, RuleRow
      <4>3. CASE ~rule[job[w].cur].here
        BY <2>3, <4>3 DEF Record, TypeOK
      <4>4. QED
        BY <4>2, <4>3
    <3>4. QED
      BY <2>0, <2>3, <3>2, <3>3, JobReplaced DEF Record, TypeInv, TypeOK, ServerLeft, JobRow, log, config
  <2>4. ASSUME NEW w \in Workers, Answer(w) PROVE TypeInv'
    <3>1. job[w] \in JobRow
      BY DEF TypeOK, JobRow
    <3> DEFINE row == [job[w] EXCEPT !.pc = "look", !.sent = FALSE]
    <3>2. job' = [job EXCEPT ![w] = row]
      BY <2>4 DEF Answer, TypeOK
    <3>3. row \in JobRow /\ row.pc = "look"
      BY <3>1 DEF JobRow, Steps
    <3> HIDE DEF row
    <3>4. /\ rows' \subseteq 0..MaxTime
          /\ lastDb' \in Times /\ lastLocal' \in Times /\ keptFor' \in Windows
      BY <2>4, StoreTypes DEF Answer, log, TypeOK
    <3>5. QED
      BY <2>0, <2>4, <3>2, <3>3, <3>4, JobReplaced DEF Answer, TypeInv, TypeOK, ServerLeft, JobRow, config
  <2>5. ASSUME NEW w \in Workers, NEW rank \in Ranks, NEW security \in BOOLEAN, Emit(w, rank, security)
        PROVE  TypeInv'
    <3> DEFINE row == [Free EXCEPT !.pc = "look", !.rank = rank]
    <3>1. row \in JobRow /\ row.pc = "look"
      BY FreeRow DEF JobRow, Steps
    <3>2. \/ job' = [job EXCEPT ![w] = row] /\ Store
          \/ UNCHANGED <<log, job>>
      BY <2>5 DEF Emit
    <3> HIDE DEF row
    <3>3. /\ rows' \subseteq 0..MaxTime
          /\ lastDb' \in Times /\ lastLocal' \in Times /\ keptFor' \in Windows
      BY <3>2, StoreTypes DEF log, TypeOK
    <3>4. events' \in 0..MaxEvents
      BY <2>5, AlertsAssumption DEF Emit, TypeOK
    <3>5. QED
      BY <2>0, <2>5, <3>1, <3>2, <3>3, <3>4, JobReplaced DEF Emit, TypeInv, TypeOK, ServerLeft, JobRow, config
  <2>6. ASSUME NEW r \in Rules, DeleteRule(r) PROVE TypeInv'
    <3>1. Quiet \in BurstRow
      BY DEF Quiet, BurstRow, Times
    <3>2. burst' \in [Rules -> BurstRow]
      BY <2>6, <3>1 DEF DeleteRule, TypeOK, BurstRow
    <3> DEFINE row == [rule[r] EXCEPT !.here = FALSE]
    <3>3. row \in RuleRow /\ rule' = [rule EXCEPT ![r] = row]
      BY <2>6 DEF DeleteRule, TypeOK, RuleRow
    <3> HIDE DEF row
    <3>4. rule' \in [Rules -> RuleRow]
      BY <3>3 DEF TypeOK, RuleRow
    <3>5. QED
      BY <2>6, <3>2, <3>4, AlertsAssumption
         DEF DeleteRule, Change, TypeInv, TypeOK, ServerLeft, log, BurstRow, RuleRow
  <2>7. ASSUME NEW r \in Rules, NEW enabled \in BOOLEAN, NEW min \in Ranks, NEW cooldown \in Cooldowns,
               SaveRule(r, enabled, min, cooldown)
        PROVE  TypeInv'
    BY <2>7, AlertsAssumption DEF SaveRule, Change, TypeInv, TypeOK, ServerLeft, log, Quiet, Times
  <2>8. ASSUME NEW rank \in Ranks, SetLevel(rank) PROVE TypeInv'
    BY <2>8, AlertsAssumption DEF SetLevel, Change, TypeInv, TypeOK, ServerLeft, log
  <2>9. ASSUME NEW span \in Windows, SetWindow(span) PROVE TypeInv'
    BY <2>9, AlertsAssumption DEF SetWindow, Change, TypeInv, TypeOK, ServerLeft, log
  <2>10. ASSUME NEW n \in 0..NServers, SetSmtp(n) PROVE TypeInv'
    BY <2>10, AlertsAssumption DEF SetSmtp, Change, TypeInv, TypeOK, ServerLeft, log
  <2>11. ASSUME Restart PROVE TypeInv'
    <3>1. job' \in [Workers -> JobRow] /\ \A w \in Workers : job'[w].pc = "idle"
      BY <2>11, FreeRow DEF Restart, Free
    <3>2. QED
      <4>1. Quiet \in BurstRow
        BY DEF Quiet, BurstRow, Times
      <4>2. burst' \in [Rules -> BurstRow]
        BY <2>11, <4>1 DEF Restart
      <4>3. /\ rows' \subseteq 0..MaxTime /\ lastDb' \in Times /\ lastLocal' \in Times
            /\ keptFor' \in Windows /\ changes' \in 0..MaxChanges
        <5>1. now \in Times /\ Never \in Times /\ window \in Windows /\ rows \subseteq 0..MaxTime
              /\ lastDb \in Times /\ keptFor \in Windows
          BY DEF TypeOK, Times
        <5>2. changes' \in 0..MaxChanges
          BY <2>11, AlertsAssumption DEF Restart, Change, TypeOK
        <5>3. QED
          BY <2>11, <5>1, <5>2 DEF Restart
      <4>4. QED
        BY <2>11, <3>1, <4>2, <4>3 DEF Restart, TypeInv, TypeOK, ServerLeft, JobRow, BurstRow
  <2>12. ASSUME Tick PROVE TypeInv'
    BY <2>12, AlertsAssumption DEF Tick, TypeInv, TypeOK, ServerLeft, log
  <2>13. CASE UNCHANGED vars
    BY <2>13 DEF vars, log, config, TypeInv, TypeOK, ServerLeft
  <2>14. QED
    BY <2>1, <2>2, <2>3, <2>4, <2>5, <2>6, <2>7, <2>8, <2>9, <2>10, <2>11, <2>12, <2>13
       DEF Next, Evaluate
<1>3. QED
  BY <1>1, <1>2, PTL DEF Spec

(* Rows, jobs and the clock keep their types for every value of the        *)
(* constants, and no server beyond the last one is tried.                  *)
THEOREM AlertTypes == Spec => []TypeOK
BY TypeInvariant, PTL DEF TypeInv
-----------------------------------------------------------------------------
(* StormBounded is inductive once it is known why a request that mailed in *)
(* a burst does not do so again: it is still busy with that mail, or the   *)
(* time of a delivery since the burst began is in the rule.                *)
BurstInv ==
    \A r \in Rules :
        /\ ~burst[r].twice
        /\ burst[r].since # Never => burst[r].since <= now
        /\ ~rule[r].here => burst[r].by = {}
        /\ \A w \in burst[r].by :
             /\ burst[r].since # Never
             /\ \/ job[w].pc \in {"send", "record"} /\ job[w].cur = r
                \/ rule[r].last # Never /\ rule[r].last >= burst[r].since

(* A request that comes to a rule whose burst it is part of finds the rule *)
(* cooling down, unless the burst is over.                                 *)
LEMMA NotTwice ==
  ASSUME TypeOK, BurstInv, NEW w \in Workers, NEW r \in Rules, job[w].pc = "look",
         rule[r].cooldown # 0, Within(burst[r].since, rule[r].cooldown), w \in burst[r].by
  PROVE  ~Matches(w, r)
<1>1. rule[r].last # Never /\ rule[r].last >= burst[r].since /\ burst[r].since # Never
  BY DEF BurstInv
<1>2. /\ rule[r].last \in Int /\ burst[r].since \in Int /\ now \in Int /\ rule[r].cooldown \in Int
  <2>1. rule[r] \in RuleRow /\ burst[r] \in BurstRow /\ now \in Int
    BY DEF TypeOK, RuleRow, BurstRow
  <2>2. rule[r].last \in Times /\ burst[r].since \in Times /\ rule[r].cooldown \in Cooldowns
    BY <2>1 DEF RuleRow, BurstRow
  <2>3. QED
    <3>1. rule[r].last \in 0..MaxTime /\ burst[r].since \in 0..MaxTime
      BY <1>1, <2>2 DEF Times
    <3>2. rule[r].cooldown \in Nat
      <4>1. Cooldowns \subseteq Nat
        BY AlertsAssumption
      <4>2. QED
        BY <2>2, <4>1
    <3>3. QED
      BY <2>1, <3>1, <3>2
<1>3. Within(rule[r].last, rule[r].cooldown)
  BY <1>1, <1>2 DEF Within
<1>4. QED
  BY <1>3 DEF Matches, Cooling

LEMMA BurstInvariant == Spec => []BurstInv
<1>1. Init => BurstInv
  BY DEF Init, BurstInv, Quiet
<1>2. TypeOK /\ BurstInv /\ [Next]_vars => BurstInv'
  <2> SUFFICES ASSUME TypeOK, BurstInv, [Next]_vars PROVE BurstInv'
    OBVIOUS
  <2>0. now \in Int /\ \A r \in Rules : rule[r].last # Never => rule[r].last \in Int
    BY DEF TypeOK, Times
  <2>00. \A r \in Rules : burst[r].since # Never => burst[r].since \in Int
    BY DEF TypeOK, Times
  <2>1. ASSUME NEW w \in Workers, Look(w) PROVE BurstInv'
    <3>1. CASE End(w)
      <4>1. job'[w].pc = "idle" /\ \A v \in Workers \ {w} : job'[v] = job[v]
        BY <3>1 DEF End, Free, TypeOK
      <4>2. UNCHANGED <<burst, rule, now>>
        BY <2>1, <3>1 DEF Look, End, config
      <4>3. job[w].pc = "look"
        BY <2>1 DEF Look, At
      <4>4. \A r \in Rules : burst[r].by \subseteq Workers
        BY DEF TypeOK
      <4>5. QED
        BY <4>1, <4>2, <4>3, <4>4 DEF BurstInv
    <3>2. CASE ~End(w)
      <4>1. PICK r \in NextRules(w) :
              /\ rule[r].here
              /\ job' = [job EXCEPT ![w].pc = IF smtp = 0 THEN "record" ELSE "send",
                                    ![w].todo = {s \in Todo(w) : s > r},
                                    ![w].cur = r, ![w].left = smtp, ![w].sent = FALSE]
              /\ burst' = [burst EXCEPT ![r] = NewBurst(w, r)]
        BY <2>1, <3>2 DEF Look
      <4>2. r \in Rules /\ Matches(w, r)
        BY <4>1, TodoTypes DEF NextRules
      <4>3. UNCHANGED <<rule, now>> /\ job[w].pc = "look"
        BY <2>1 DEF Look, config, At
      <4>4. /\ job'[w].pc \in {"send", "record"} /\ job'[w].cur = r
            /\ \A v \in Workers \ {w} : job'[v] = job[v]
        <5> DEFINE old == job[w]
                   pc == IF smtp = 0 THEN "record" ELSE "send"
                   todo == {s \in Todo(w) : s > r}
        <5>1. /\ job'[w] = [old EXCEPT !.pc = pc, !.todo = todo, !.cur = r, !.left = smtp, !.sent = FALSE]
              /\ \A v \in Workers \ {w} : job'[v] = job[v]
          BY <4>1 DEF TypeOK
        <5>2. old \in JobRow /\ pc \in {"send", "record"}
          BY DEF TypeOK, JobRow
        <5> HIDE DEF old, pc, todo
        <5>3. job'[w].pc = pc /\ job'[w].cur = r
          BY <5>1, <5>2 DEF JobRow
        <5>4. QED
          BY <5>1, <5>2, <5>3
      <4>5. \A q \in Rules : burst[q].by \subseteq Workers
        BY DEF TypeOK
      <4>6. burst'[r] = NewBurst(w, r) /\ \A q \in Rules \ {r} : burst'[q] = burst[q]
        BY <4>1, <4>2 DEF TypeOK
      <4>7. /\ ~burst'[r].twice
            /\ burst'[r].since # Never => burst'[r].since <= now
            /\ \A v \in burst'[r].by :
                 /\ v # w => v \in burst[r].by /\ burst'[r].since = burst[r].since
                 /\ burst'[r].since # Never
        <5>1. CASE rule[r].cooldown = 0
          BY <4>6, <5>1 DEF NewBurst, Quiet
        <5>2. CASE rule[r].cooldown # 0 /\ ~Within(burst[r].since, rule[r].cooldown)
          <6>1. burst'[r] = [since |-> now, by |-> {w}, twice |-> FALSE]
            BY <4>6, <5>2 DEF NewBurst
          <6>2. now # Never
            BY <2>0, AlertsAssumption
          <6>3. QED
            <7>1. burst'[r].since = now /\ burst'[r].by = {w} /\ burst'[r].twice = FALSE
              BY <6>1
            <7>2. QED
              BY <2>0, <6>2, <7>1
        <5>3. CASE rule[r].cooldown # 0 /\ Within(burst[r].since, rule[r].cooldown)
          <6> DEFINE old == burst[r]
          <6>1. burst'[r] = [old EXCEPT !.by = old.by \cup {w}, !.twice = old.twice \/ w \in old.by]
            BY <4>6, <5>3 DEF NewBurst
          <6>2. old \in BurstRow /\ ~old.twice /\ old.since # Never /\ old.since <= now
            BY <4>2, <5>3 DEF BurstInv, TypeOK, BurstRow, Within
          <6>3. w \notin old.by
            BY <4>2, <4>3, <5>3, NotTwice
          <6> HIDE DEF old
          <6> DEFINE new == [old EXCEPT !.by = old.by \cup {w}, !.twice = old.twice \/ w \in old.by]
          <6>4. new.since = old.since /\ new.by = old.by \cup {w} /\ (new.twice <=> old.twice \/ w \in old.by)
            BY <6>2 DEF BurstRow
          <6> HIDE DEF new
          <6>5. burst'[r] = new
            BY <6>1 DEF new
          <6>6. ~burst'[r].twice
            BY <6>2, <6>3, <6>4, <6>5
          <6>7. burst'[r].since = old.since /\ burst'[r].by = old.by \cup {w}
            BY <6>4, <6>5
          <6>8. QED
            BY <6>2, <6>6, <6>7 DEF old
        <5>4. QED
          BY <5>1, <5>2, <5>3
      <4>8. \A v \in burst'[r].by :
              \/ job'[v].pc \in {"send", "record"} /\ job'[v].cur = r
              \/ rule'[r].last # Never /\ rule'[r].last >= burst'[r].since
        BY <4>2, <4>3, <4>4, <4>5, <4>7 DEF BurstInv
      <4>9. \A q \in Rules \ {r} : \A v \in burst[q].by :
              \/ job'[v].pc \in {"send", "record"} /\ job'[v].cur = q
              \/ rule[q].last # Never /\ rule[q].last >= burst[q].since
        BY <4>3, <4>4, <4>5 DEF BurstInv
      <4>10. QED
        BY <4>1, <4>3, <4>6, <4>7, <4>8, <4>9 DEF BurstInv
    <3>3. QED
      BY <3>1, <3>2
  <2>2. ASSUME NEW w \in Workers, Send(w) PROVE BurstInv'
    <3>1. /\ job[w].pc = "send"
          /\ job'[w].cur = job[w].cur /\ job'[w].pc \in {"send", "record"}
          /\ \A v \in Workers \ {w} : job'[v] = job[v]
      BY <2>2 DEF Send, At, TypeOK
    <3>2. UNCHANGED <<rule, burst, now>>
      BY <2>2 DEF Send, config
    <3>3. \A q \in Rules : burst[q].by \subseteq Workers
      BY DEF TypeOK
    <3>4. QED
      BY <3>1, <3>2, <3>3 DEF BurstInv
  <2>3. ASSUME NEW w \in Workers, Record(w) PROVE BurstInv'
    <3> DEFINE c == job[w].cur
    <3>1. c \in Rules /\ job[w].pc = "record" /\ UNCHANGED <<burst, now>>
      BY <2>3 DEF Record, At, TypeOK, config
    <3>2. \A q \in Rules : burst[q].by \subseteq Workers
      BY DEF TypeOK
    <3>3. \A v \in Workers \ {w} : job'[v] = job[v]
      BY <2>3 DEF Record, TypeOK
    <3>4. CASE rule[c].here
      <4>1. rule' = [rule EXCEPT ![c].last = now]
        BY <2>3, <3>4 DEF Record, Stamp
      <4>2. /\ rule'[c].last = now /\ rule'[c].here = rule[c].here
            /\ \A q \in Rules \ {c} : rule'[q] = rule[q]
        BY <3>1, <4>1 DEF TypeOK
      <4>3. now # Never
        BY <2>0, AlertsAssumption
      <4>4. \A q \in Rules : \A v \in burst[q].by :
              \/ job'[v].pc \in {"send", "record"} /\ job'[v].cur = q
              \/ rule'[q].last # Never /\ rule'[q].last >= burst[q].since
        <5>1. ASSUME NEW v \in burst[c].by PROVE rule'[c].last # Never /\ rule'[c].last >= burst[c].since
          BY <2>0, <2>00, <3>1, <4>2, <4>3, <5>1 DEF BurstInv
        <5>2. ASSUME NEW q \in Rules \ {c}, NEW v \in burst[q].by
              PROVE  \/ job'[v].pc \in {"send", "record"} /\ job'[v].cur = q
                     \/ rule'[q].last # Never /\ rule'[q].last >= burst[q].since
          BY <3>2, <3>3, <4>2, <5>2 DEF BurstInv
        <5>3. QED
          BY <5>1, <5>2
      <4>5. QED
        BY <3>1, <4>2, <4>4 DEF BurstInv
    <3>5. CASE ~rule[c].here
      <4>1. UNCHANGED rule
        BY <2>3, <3>5 DEF Record
      <4>2. burst[c].by = {}
        BY <3>1, <3>5 DEF BurstInv
      <4>3. QED
        BY <3>1, <3>2, <3>3, <4>1, <4>2 DEF BurstInv
    <3>6. QED
      BY <3>4, <3>5
  <2>4. ASSUME NEW w \in Workers, Answer(w) PROVE BurstInv'
    <3>1. job[w].pc = "answer" /\ \A v \in Workers \ {w} : job'[v] = job[v]
      BY <2>4 DEF Answer, At, TypeOK
    <3>2. UNCHANGED <<rule, burst, now>>
      BY <2>4 DEF Answer, config
    <3>3. \A q \in Rules : burst[q].by \subseteq Workers
      BY DEF TypeOK
    <3>4. QED
      BY <3>1, <3>2, <3>3 DEF BurstInv
  <2>5. ASSUME NEW w \in Workers, NEW rank \in Ranks, NEW security \in BOOLEAN, Emit(w, rank, security)
        PROVE  BurstInv'
    <3>1. job[w].pc = "idle" /\ \A v \in Workers \ {w} : job'[v] = job[v]
      BY <2>5 DEF Emit, At, TypeOK
    <3>2. UNCHANGED <<rule, burst, now>>
      BY <2>5 DEF Emit, config
    <3>3. \A q \in Rules : burst[q].by \subseteq Workers
      BY DEF TypeOK
    <3>4. QED
      BY <3>1, <3>2, <3>3 DEF BurstInv
  <2>6. ASSUME NEW r \in Rules, burst' = [burst EXCEPT ![r] = Quiet], UNCHANGED <<now, job>>,
               \A q \in Rules \ {r} : rule'[q] = rule[q]
        PROVE  BurstInv'
    <3>1. burst'[r] = Quiet /\ \A q \in Rules \ {r} : burst'[q] = burst[q]
      BY <2>6 DEF TypeOK
    <3>2. QED
      BY <2>6, <3>1 DEF BurstInv, Quiet
  <2>7. ASSUME NEW r \in Rules, DeleteRule(r) PROVE BurstInv'
    BY <2>6, <2>7 DEF DeleteRule, TypeOK
  <2>8. ASSUME NEW r \in Rules, NEW enabled \in BOOLEAN, NEW min \in Ranks, NEW cooldown \in Cooldowns,
               SaveRule(r, enabled, min, cooldown)
        PROVE  BurstInv'
    BY <2>6, <2>8 DEF SaveRule, TypeOK
  <2>9. ASSUME UNCHANGED <<now, rule, job, burst>> PROVE BurstInv'
    BY <2>9 DEF BurstInv
  <2>10. ASSUME Restart PROVE BurstInv'
    BY <2>10 DEF Restart, BurstInv, Quiet
  <2>11. ASSUME Tick PROVE BurstInv'
    BY <2>0, <2>00, <2>11 DEF Tick, BurstInv
  <2>12. QED
    BY <2>1, <2>2, <2>3, <2>4, <2>5, <2>7, <2>8, <2>9, <2>10, <2>11
       DEF Next, Evaluate, SetLevel, SetWindow, SetSmtp, vars, config
<1>3. QED
  BY <1>1, <1>2, TypeInvariant, PTL DEF Spec, TypeInv

(* However many requests, rules and edits interleave, no request mails the *)
(* same rule twice in one cooldown, failed deliveries included.            *)
THEOREM NoMailStorm == Spec => []StormBounded
<1>1. BurstInv => StormBounded
  BY DEF BurstInv, StormBounded
<1>2. QED
  BY <1>1, BurstInvariant, PTL
-----------------------------------------------------------------------------
(* A set of rules has a first one. *)
LEMMA FirstRule ==
  ASSUME NEW S \in SUBSET Nat, S # {}
  PROVE  \E x \in S : \A y \in S : x <= y
<1> DEFINE R == OpToRel(<, Nat)
<1>1. IsWellFoundedOn(R, Nat)
  BY NatLessThanWellFounded
<1>2. PICK x \in S : \A y \in S : ~(<<y, x>> \in R)
  <2> HIDE DEF R
  <2>1. QED
    BY <1>1, WFMin
<1>3. \A y \in S : ~(y < x)
  BY <1>2 DEF OpToRel
<1>4. QED
  BY <1>3

(* What is owed is still ahead of the evaluation, and still to be mailed. *)
DueInv ==
    \A w \in Workers :
        /\ (job[w].pc = "idle" \/ job[w].cur = 0) => due[w] = {}
        /\ \A r \in due[w] : /\ r \in job[w].todo
                             /\ rule[r].here /\ Matches(w, r)

(* Rules that are due when an evaluation goes on are among those that stop *)
(* it.                                                                     *)
LEMMA OwedStops ==
  ASSUME TypeOK, DueInv, NEW w \in Workers, job[w].pc = "look",
         NEW owed, owed = IF job[w].cur = 0 THEN DueAtFirst(w) ELSE due[w]
  PROVE  /\ owed \subseteq Rules
         /\ \A r \in owed : r \in Todo(w) /\ rule[r].here /\ Matches(w, r)
         /\ NextRules(w) = {} => owed = {}
         /\ \A r \in NextRules(w), s \in owed : r <= s
<1>1. owed \subseteq Rules /\ \A r \in owed : r \in Todo(w) /\ rule[r].here /\ Matches(w, r)
  BY DEF DueInv, DueAtFirst, Todo, TypeOK
<1> DEFINE stops == {r \in Todo(w) : ~rule[r].here \/ Matches(w, r)}
<1>2. owed \subseteq stops
  BY <1>1
<1>3. stops \in SUBSET Nat
  BY TodoTypes, AlertsAssumption DEF Rules
<1>4. NextRules(w) = {r \in stops : \A s \in stops : r <= s}
  BY DEF NextRules
<1> HIDE DEF stops
<1>5. stops # {} => NextRules(w) # {}
  BY <1>3, <1>4, FirstRule
<1>6. QED
  BY <1>1, <1>2, <1>4, <1>5

LEMMA DueInvariant == Spec => []DueInv
<1>1. Init => DueInv
  BY DEF Init, DueInv
<1>2. TypeOK /\ DueInv /\ [Next]_vars => DueInv'
  <2> SUFFICES ASSUME TypeOK, DueInv, [Next]_vars PROVE DueInv'
    OBVIOUS
  <2>0. \A w \in Workers : due[w] \subseteq Rules
    BY DEF TypeOK
  <2>1. ASSUME NEW w \in Workers, Look(w) PROVE DueInv'
    <3> DEFINE owed == IF job[w].cur = 0 THEN DueAtFirst(w) ELSE due[w]
    <3>1. UNCHANGED <<rule, now>> /\ job[w].pc = "look"
      BY <2>1 DEF Look, config, At
    <3>2. /\ owed \subseteq Rules
          /\ \A r \in owed : r \in Todo(w) /\ rule[r].here /\ Matches(w, r)
          /\ NextRules(w) = {} => owed = {}
          /\ \A r \in NextRules(w), s \in owed : r <= s
      BY <3>1, OwedStops
    <3>3. \A v \in Workers \ {w} : job'[v] = job[v] /\ due'[v] = due[v]
      BY <2>1 DEF Look, End, TypeOK
    <3> HIDE DEF owed
    <3>4. /\ (job'[w].pc = "idle" \/ job'[w].cur = 0) => due'[w] = {}
          /\ \A r \in due'[w] : r \in job'[w].todo /\ job'[w].rank = job[w].rank /\ r \in owed
      <4>1. CASE job' = [job EXCEPT ![w] = Free]
        <5>1. (due' = [due EXCEPT ![w] = owed] /\ owed = {}) \/ due' = [due EXCEPT ![w] = {}]
          <6>1. CASE NextRules(w) = {}
            BY <2>1, <3>2, <6>1 DEF Look, owed
          <6>2. CASE NextRules(w) # {}
            <7> DEFINE pc == IF smtp = 0 THEN "record" ELSE "send"
            <7>1. PICK r \in NextRules(w) :
                    IF rule[r].here
                    THEN job' = [job EXCEPT ![w].pc = pc,
                                            ![w].todo = {s \in Todo(w) : s > r},
                                            ![w].cur = r, ![w].left = smtp, ![w].sent = FALSE]
                    ELSE due' = [due EXCEPT ![w] = {}]
              BY <2>1, <6>2 DEF Look
            <7>2. job'[w].pc = "idle"
              BY <4>1 DEF TypeOK, Free
            <7>3. ASSUME rule[r].here PROVE FALSE
              <8> DEFINE old == job[w]
                         todo == {s \in Todo(w) : s > r}
              <8>1. job'[w] = [old EXCEPT !.pc = pc, !.todo = todo, !.cur = r, !.left = smtp, !.sent = FALSE]
                BY <7>1, <7>3 DEF TypeOK
              <8>2. old \in JobRow /\ pc # "idle"
                BY DEF TypeOK, JobRow
              <8> HIDE DEF old, pc, todo
              <8>3. job'[w].pc = pc
                BY <8>1, <8>2 DEF JobRow
              <8>4. QED
                BY <7>2, <8>2, <8>3
            <7>4. QED
              BY <7>1, <7>3
          <6>3. QED
            BY <6>1, <6>2
        <5>2. due'[w] = {}
          BY <5>1 DEF TypeOK
        <5>3. QED
          BY <5>2
      <4>2. CASE job' # [job EXCEPT ![w] = Free]
        <5>1. PICK r \in NextRules(w) :
                /\ job' = [job EXCEPT ![w].pc = IF smtp = 0 THEN "record" ELSE "send",
                                      ![w].todo = {s \in Todo(w) : s > r},
                                      ![w].cur = r, ![w].left = smtp, ![w].sent = FALSE]
                /\ due' = [due EXCEPT ![w] = owed \ {r}]
          BY <2>1, <4>2 DEF Look, End, owed
        <5> DEFINE old == job[w]
                   pc == IF smtp = 0 THEN "record" ELSE "send"
                   todo == {s \in Todo(w) : s > r}
        <5>2. /\ job'[w] = [old EXCEPT !.pc = pc, !.todo = todo, !.cur = r, !.left = smtp, !.sent = FALSE]
              /\ due'[w] = owed \ {r}
          BY <5>1 DEF TypeOK
        <5>3. old \in JobRow /\ pc # "idle"
          BY DEF TypeOK, JobRow
        <5>4. r \in Nat \ {0} /\ \A s \in owed : s \in Nat /\ r <= s
          BY <3>2, TodoTypes, AlertsAssumption DEF Rules
        <5>5. \A s \in owed \ {r} : s \in todo
          BY <3>2, <5>4
        <5> HIDE DEF old, pc, todo
        <5>6. /\ job'[w].pc = pc /\ job'[w].cur = r /\ job'[w].todo = todo /\ job'[w].rank = old.rank
          BY <5>2, <5>3 DEF JobRow
        <5>7. QED
          BY <5>2, <5>3, <5>4, <5>5, <5>6 DEF old
      <4>3. QED
        BY <4>1, <4>2
    <3>5. \A r \in due'[w] : rule'[r].here /\ Matches(w, r)'
      BY <3>1, <3>2, <3>4 DEF Matches, Cooling, Within
    <3>6. \A v \in Workers \ {w} : \A r \in due[v] : rule'[r].here /\ Matches(v, r)'
      BY <3>1, <3>3 DEF DueInv, Matches, Cooling, Within
    <3>7. QED
      BY <3>3, <3>4, <3>5, <3>6 DEF DueInv
  <2>2. ASSUME NEW w \in Workers, UNCHANGED <<rule, now, due>>,
               \A v \in Workers \ {w} : job'[v] = job[v],
               \/ due[w] = {}
               \/ job'[w].pc # "idle" /\ job'[w].cur = job[w].cur /\ job'[w].todo = job[w].todo
                    /\ job'[w].rank = job[w].rank
        PROVE  DueInv'
    <3>1. \A v \in Workers : \A r \in due[v] : job'[v].rank = job[v].rank /\ job'[v].todo = job[v].todo
      BY <2>2
    <3>2. \A v \in Workers : \A r \in due[v] : Matches(v, r)' /\ rule'[r].here
      BY <2>2, <3>1 DEF DueInv, Matches, Cooling, Within
    <3>3. QED
      BY <2>2, <3>1, <3>2 DEF DueInv
  <2>3. ASSUME NEW w \in Workers, Send(w) PROVE DueInv'
    <3>1. job[w] \in JobRow
      BY DEF TypeOK, JobRow
    <3>2. /\ job'[w].pc # "idle" /\ job'[w].cur = job[w].cur
          /\ job'[w].todo = job[w].todo /\ job'[w].rank = job[w].rank
          /\ \A v \in Workers \ {w} : job'[v] = job[v]
      BY <2>3, <3>1 DEF Send, TypeOK, JobRow
    <3>3. QED
      BY <2>2, <2>3, <3>2 DEF Send, config
  <2>4. ASSUME NEW w \in Workers, Answer(w) PROVE DueInv'
    <3>1. job[w] \in JobRow
      BY DEF TypeOK, JobRow
    <3>2. /\ job'[w].pc # "idle" /\ job'[w].cur = job[w].cur
          /\ job'[w].todo = job[w].todo /\ job'[w].rank = job[w].rank
          /\ \A v \in Workers \ {w} : job'[v] = job[v]
      BY <2>4, <3>1 DEF Answer, TypeOK, JobRow
    <3>3. QED
      BY <2>2, <2>4, <3>2 DEF Answer, config
  <2>5. ASSUME NEW w \in Workers, NEW rank \in Ranks, NEW security \in BOOLEAN, Emit(w, rank, security)
        PROVE  DueInv'
    <3>1. due[w] = {} /\ \A v \in Workers \ {w} : job'[v] = job[v]
      BY <2>5 DEF Emit, At, DueInv, TypeOK
    <3>2. QED
      BY <2>2, <2>5, <3>1 DEF Emit, config
  <2>6. ASSUME NEW w \in Workers, Record(w) PROVE DueInv'
    <3> DEFINE c == job[w].cur
    <3>1. c \in Rules /\ job[w] \in JobRow /\ UNCHANGED now
          /\ \A v \in Workers \ {w} : job'[v] = job[v]
      BY <2>6 DEF Record, At, TypeOK, JobRow, config
    <3>2. CASE rule[c].here
      <4>1. /\ rule' = [rule EXCEPT ![c].last = now]
            /\ job' = [job EXCEPT ![w].pc = "answer"]
            /\ due' = [v \in Workers |-> due[v] \ {c}]
        BY <2>6, <3>2 DEF Record, Stamp
      <4>2. /\ job'[w].pc = "answer" /\ job'[w].cur = job[w].cur
            /\ job'[w].todo = job[w].todo /\ job'[w].rank = job[w].rank
        BY <3>1, <4>1 DEF TypeOK, JobRow
      <4>3. \A q \in Rules \ {c} : rule'[q] = rule[q]
        BY <4>1 DEF TypeOK
      <4>4. \A v \in Workers : /\ due'[v] = due[v] \ {c}
                               /\ job'[v].todo = job[v].todo /\ job'[v].rank = job[v].rank
        BY <3>1, <4>1, <4>2
      <4>5. \A v \in Workers : \A r \in due'[v] : rule'[r].here /\ Matches(v, r)' /\ r \in job'[v].todo
        BY <2>0, <3>1, <4>3, <4>4 DEF DueInv, Matches, Cooling, Within
      <4>6. QED
        BY <3>1, <4>2, <4>4, <4>5 DEF DueInv
    <3>3. CASE ~rule[c].here
      <4>1. UNCHANGED rule /\ due' = [due EXCEPT ![w] = {}]
        BY <2>6, <3>3 DEF Record
      <4>2. due'[w] = {} /\ \A v \in Workers \ {w} : due'[v] = due[v]
        BY <4>1 DEF TypeOK
      <4>3. \A v \in Workers \ {w} : \A r \in due[v] : rule'[r].here /\ Matches(v, r)'
        BY <3>1, <4>1 DEF DueInv, Matches, Cooling, Within
      <4>4. QED
        BY <3>1, <4>2, <4>3 DEF DueInv
    <3>4. QED
      BY <3>2, <3>3
  <2>7. ASSUME NEW r \in Rules, due' = [w \in Workers |-> due[w] \ {r}], UNCHANGED <<now, job>>,
               \A q \in Rules \ {r} : rule'[q] = rule[q]
        PROVE  DueInv'
    <3>1. \A w \in Workers : \A q \in due'[w] : rule'[q].here /\ Matches(w, q)'
      BY <2>0, <2>7 DEF DueInv, Matches, Cooling, Within
    <3>2. QED
      BY <2>7, <3>1 DEF DueInv
  <2>8. ASSUME NEW r \in Rules, DeleteRule(r) PROVE DueInv'
    BY <2>7, <2>8 DEF DeleteRule, TypeOK
  <2>9. ASSUME NEW r \in Rules, NEW enabled \in BOOLEAN, NEW min \in Ranks, NEW cooldown \in Cooldowns,
               SaveRule(r, enabled, min, cooldown)
        PROVE  DueInv'
    BY <2>7, <2>9 DEF SaveRule, TypeOK
  <2>10. ASSUME UNCHANGED <<now, rule, job, due>> PROVE DueInv'
    <3>1. \A w \in Workers : \A q \in due[w] : Matches(w, q)'
      BY <2>10 DEF DueInv, Matches, Cooling, Within
    <3>2. QED
      BY <2>10, <3>1 DEF DueInv
  <2>11. ASSUME Restart PROVE DueInv'
    BY <2>11 DEF Restart, DueInv
  <2>12. ASSUME Tick PROVE DueInv'
    <3>1. UNCHANGED <<rule, job, due>> /\ now' = now + 1 /\ now \in Int
      BY <2>12 DEF Tick, TypeOK
    <3>2. ASSUME NEW w \in Workers, NEW q \in due[w] PROVE Matches(w, q)'
      <4>1. rule[q] \in RuleRow /\ Matches(w, q)
        BY <2>0, <3>2 DEF TypeOK, RuleRow, DueInv
      <4>2. rule[q].cooldown \in Nat /\ rule[q].last \in Times
        BY <4>1, AlertsAssumption DEF RuleRow
      <4>3. rule[q].last # Never => rule[q].last \in Int
        BY <4>2 DEF Times
      <4>4. QED
        BY <3>1, <4>1, <4>2, <4>3 DEF Matches, Cooling, Within
    <3>3. QED
      BY <3>1, <3>2 DEF DueInv
  <2>13. QED
    BY <2>1, <2>3, <2>4, <2>5, <2>6, <2>8, <2>9, <2>10, <2>11, <2>12
       DEF Next, Evaluate, SetLevel, SetWindow, SetSmtp, vars, config
<1>3. QED
  BY <1>1, <1>2, TypeInvariant, PTL DEF Spec, TypeInv

(* A rule that matched an event and was not cooling down is served before  *)
(* the evaluation ends, whatever happened to the rules before it.          *)
THEOREM DueRulesServed == Spec => []MatchedRulesServed
<1>1. DueInv => MatchedRulesServed
  BY DEF DueInv, MatchedRulesServed, At
<1>2. QED
  BY <1>1, DueInvariant, PTL
-----------------------------------------------------------------------------
(* Retention.  What this process remembers of the last cleanup is what is  *)
(* stored about it, and that cleanup left no row older than its window.    *)
CleanupInv ==
    /\ lastDb \in 0..now /\ lastLocal \in {Never, lastDb}
    /\ \A t \in rows : t <= now /\ lastDb - t <= keptFor

RowsInWindow == rows' # rows => \A t \in rows' : now - t < keptFor' + Day

LEMMA StoreRetains ==
  ASSUME TypeOK, CleanupInv, Store, now' = now
  PROVE  CleanupInv' /\ RowsInWindow
<1>1. /\ now \in Nat /\ window \in Nat \ {0} /\ keptFor \in Nat \ {0} /\ rows \subseteq Nat
      /\ lastDb \in Nat /\ lastDb <= now /\ Day \in Nat \ {0} /\ Never \notin Int
  BY AlertsAssumption DEF TypeOK, CleanupInv
<1>2. CASE Within(lastLocal, Day) \/ Within(lastDb, Day)
  <2>1. /\ rows' = rows \cup {now} /\ lastDb' = lastDb /\ keptFor' = keptFor
        /\ lastLocal' \in {lastLocal, lastDb}
    BY <1>2 DEF Store
  <2>2. now - lastDb < Day
    BY <1>2 DEF Within, CleanupInv
  <2>3. \A t \in rows' : t <= now /\ lastDb - t <= keptFor /\ now - t < keptFor + Day
    <3> SUFFICES ASSUME NEW t \in rows'
                 PROVE  t <= now /\ lastDb - t <= keptFor /\ now - t < keptFor + Day
      OBVIOUS
    <3>1. t \in Nat /\ t <= now /\ lastDb - t <= keptFor
      BY <1>1, <2>1 DEF CleanupInv
    <3>2. QED
      BY <1>1, <2>2, <3>1
  <2>4. QED
    BY <2>1, <2>3 DEF CleanupInv, RowsInWindow
<1>3. CASE ~Within(lastLocal, Day) /\ ~Within(lastDb, Day)
  <2>1. /\ rows' = {t \in rows : t >= now - window} \cup {now}
        /\ lastDb' = now /\ lastLocal' = now /\ keptFor' = window
    BY <1>3 DEF Store, Clean
  <2>2. \A t \in rows' : t <= now /\ now - t <= window /\ now - t < window + Day
    <3> SUFFICES ASSUME NEW t \in rows'
                 PROVE  t <= now /\ now - t <= window /\ now - t < window + Day
      OBVIOUS
    <3>1. t \in Nat /\ t <= now /\ t >= now - window
      BY <1>1, <2>1 DEF CleanupInv
    <3>2. QED
      BY <1>1, <3>1
  <2>3. QED
    BY <1>1, <2>1, <2>2 DEF CleanupInv, RowsInWindow
<1>4. QED
  BY <1>2, <1>3

LEMMA StepRetains == TypeOK /\ CleanupInv /\ [Next]_vars => CleanupInv' /\ RowsInWindow
<1> SUFFICES ASSUME TypeOK, CleanupInv, [Next]_vars PROVE CleanupInv' /\ RowsInWindow
  OBVIOUS
<1>1. ASSUME UNCHANGED log, now' = now
      PROVE  CleanupInv' /\ RowsInWindow
  BY <1>1 DEF log, CleanupInv, RowsInWindow
<1>2. ASSUME NEW w \in Workers, Look(w) \/ Send(w) \/ Record(w)
      PROVE  CleanupInv' /\ RowsInWindow
  BY <1>1, <1>2 DEF Look, Send, Record, config
<1>3. ASSUME NEW w \in Workers,
             Answer(w) \/ \E rank \in Ranks, security \in BOOLEAN : Emit(w, rank, security)
      PROVE  CleanupInv' /\ RowsInWindow
  <2>1. now' = now /\ (Store \/ UNCHANGED log)
    BY <1>3 DEF Answer, Emit, config
  <2>2. QED
    BY <1>1, <2>1, StoreRetains
<1>4. CASE \E r \in Rules :
             \/ DeleteRule(r)
             \/ \E enabled \in BOOLEAN, min \in Ranks, cooldown \in Cooldowns :
                   SaveRule(r, enabled, min, cooldown)
  BY <1>1, <1>4 DEF DeleteRule, SaveRule
<1>5. CASE \/ \E rank \in Ranks : SetLevel(rank)
           \/ \E span \in Windows : SetWindow(span)
           \/ \E n \in 0..NServers : SetSmtp(n)
  BY <1>1, <1>5 DEF SetLevel, SetWindow, SetSmtp
<1>6. CASE Restart
  <2>1. now' = now /\ now \in Nat /\ window \in Nat /\ Day \in Nat \ {0} /\ rows \subseteq Nat
    BY <1>6, AlertsAssumption DEF Restart, TypeOK
  <2>2. CASE rows' = rows /\ lastDb' = lastDb /\ keptFor' = keptFor /\ lastLocal' = Never
    BY <2>1, <2>2 DEF CleanupInv, RowsInWindow
  <2>3. CASE /\ rows' = {t \in rows : t >= now - window}
             /\ lastDb' = now /\ lastLocal' = now /\ keptFor' = window
    <3>1. \A t \in rows' : t <= now /\ now - t <= window /\ now - t < window + Day
      <4> SUFFICES ASSUME NEW t \in rows'
                   PROVE  t <= now /\ now - t <= window /\ now - t < window + Day
        OBVIOUS
      <4>1. t \in Nat /\ t <= now /\ t >= now - window
        BY <2>1, <2>3 DEF CleanupInv
      <4>2. QED
        BY <2>1, <4>1
    <3>2. QED
      BY <2>1, <2>3, <3>1 DEF CleanupInv, RowsInWindow
  <2>4. QED
    BY <1>6, <2>2, <2>3 DEF Restart
<1>7. CASE Tick
  <2>1. now' = now + 1 /\ now \in Nat /\ rows \subseteq Nat /\ UNCHANGED log
    BY <1>7 DEF Tick, TypeOK
  <2>2. QED
    BY <2>1 DEF log, CleanupInv, RowsInWindow
<1>8. CASE UNCHANGED vars
  BY <1>1, <1>8 DEF vars, config
<1>9. QED
  BY <1>2, <1>3, <1>4, <1>5, <1>6, <1>7, <1>8 DEF Next, Evaluate

(* Whenever a row is added, no row is older than the window of the last    *)
(* cleanup and a day, across restarts of the process, failures of its      *)
(* first cleanup and changes of the window.                                *)
THEOREM OldRowsLeave == Spec => RowsLeaveInTime
<1>1. Init => CleanupInv
  BY DEF Init, CleanupInv
<1>2. TypeOK /\ CleanupInv /\ [Next]_vars => CleanupInv'
  BY StepRetains
<1>3. TypeOK /\ CleanupInv /\ [Next]_vars =>
        [rows' # rows => \A t \in rows' : now - t < keptFor' + Day]_vars
  BY StepRetains DEF RowsInWindow
<1>4. QED
  BY <1>1, <1>2, <1>3, AlertTypes, PTL DEF Spec, RowsLeaveInTime
==============================================================================
