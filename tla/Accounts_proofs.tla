---------------------------- MODULE Accounts_proofs ----------------------------
(***************************************************************************)
(* Proofs about Accounts for any number of names, passwords and logins,    *)
(* and any bound on the versions.                                          *)
(***************************************************************************)
EXTENDS Accounts, TLAPS

LEMMA NewIsRow ==
  ASSUME NEW p \in Passwords, NEW rs \in RoleSets
  PROVE  New(p, rs) \in UserRow
BY AccountsAssumption DEF New, UserRow, Versions

LEMMA RowOfExisting ==
  ASSUME TypeOK, NEW n \in Names, Exists(n)
  PROVE  users[n] \in UserRow
BY DEF TypeOK, Exists

LEMMA BumpedIsRow ==
  ASSUME NEW row \in UserRow, row.version < MaxVersion
  PROVE  Bumped(row) \in UserRow /\ Bumped(row).version = row.version + 1
<1>1. row.version + 1 \in Versions
  BY AccountsAssumption DEF UserRow, Versions
<1>2. QED
  BY <1>1 DEF Bumped, UserRow

(* What a request holds at each stage. *)
LEMMA FieldsOfRequest ==
  ASSUME TypeOK, NEW h \in Handlers
  PROVE  /\ handler[h].pc \in {"act", "answer", "commit"} =>
              handler[h].as \in Cookie /\ handler[h].roles \in RoleSets
         /\ handler[h].pc = "commit" =>
              /\ handler[h].op \in Ops
              /\ handler[h].name \in Names
              /\ handler[h].row \in UserRow
BY DEF TypeOK, Handler

LEMMA ActorIsName ==
  ASSUME TypeOK, NEW h \in Handlers, handler[h].pc \in {"act", "answer", "commit"}
  PROVE  Actor(h) \in Names
BY FieldsOfRequest DEF Actor, Cookie

LEMMA PlanIsTyped ==
  ASSUME TypeOK, NEW h \in Handlers, handler[h].pc = "act", NEW op \in Ops,
         NEW n \in Names, NEW row \in UserRow, Plan(h, op, n, row)
  PROVE  TypeOK'
<1> DEFINE req == [pc |-> "commit", as |-> handler[h].as, roles |-> handler[h].roles,
                   op |-> op, name |-> n, row |-> row]
<1>1. req \in Handler
  BY FieldsOfRequest DEF Handler
<1>2. handler' = [handler EXCEPT ![h] = req]
  BY DEF Plan
<1>3. handler' \in [Handlers -> Handler]
  <2> HIDE DEF req
  <2> QED
    BY <1>1, <1>2 DEF TypeOK
<1>4. QED
  BY <1>3 DEF TypeOK, Plan

(* Each route plans one operation on one account.                          *)
LEMMA ActPlans ==
  ASSUME TypeOK, NEW h \in Handlers, Act(h)
  PROVE  /\ handler[h].pc = "act"
         /\ \E op \in Ops, n \in Names, row \in UserRow :
               /\ Plan(h, op, n, row)
               /\ op \in {"disable", "roles", "delete"} => n # Actor(h) /\ MayManage(h, n)
               /\ op = "create" /\ ~NamesReused => n \notin used
               /\ op \in Revoking => row.version = users[n].version + 1
<1>1. ASSUME NEW p \in Passwords, OwnPassword(h, p)
      PROVE  /\ handler[h].pc = "act"
             /\ \E row \in UserRow : Plan(h, "own", Actor(h), row)
                  /\ row.version = users[Actor(h)].version + 1
             /\ Actor(h) \in Names
  <2>1. handler[h].pc = "act" /\ Actor(h) \in Names
    BY <1>1, ActorIsName DEF OwnPassword
  <2>2. users[Actor(h)] \in UserRow /\ users[Actor(h)].version < MaxVersion
    BY <1>1, <2>1, RowOfExisting DEF OwnPassword, Bound
  <2> DEFINE row == [users[Actor(h)] EXCEPT !.pw = p]
  <2>3. row \in UserRow /\ row.version < MaxVersion /\ row.version = users[Actor(h)].version
    BY <2>2 DEF UserRow
  <2>4. Plan(h, "own", Actor(h), Bumped(row))
    BY <1>1 DEF OwnPassword
  <2> HIDE DEF row
  <2>5. QED
    BY <2>1, <2>3, <2>4, BumpedIsRow
<1>2. ASSUME NEW n \in Names, NEW p \in Passwords, UserReset(h, n, p)
      PROVE  handler[h].pc = "act" /\ \E row \in UserRow : Plan(h, "reset", n, row)
                  /\ row.version = users[n].version + 1
  <2>1. users[n] \in UserRow /\ users[n].version < MaxVersion
    BY <1>2, RowOfExisting DEF UserReset, Bound
  <2> DEFINE row == [users[n] EXCEPT !.pw = p]
  <2>2. row \in UserRow /\ row.version < MaxVersion /\ row.version = users[n].version
    BY <2>1 DEF UserRow
  <2>3. Plan(h, "reset", n, Bumped(row)) /\ handler[h].pc = "act"
    BY <1>2 DEF UserReset, Acting
  <2> HIDE DEF row
  <2>4. QED
    BY <2>2, <2>3, BumpedIsRow
<1>3. ASSUME NEW n \in Names, NEW p \in Passwords, NEW rs \in Selections,
             UserCreate(h, n, p, rs)
      PROVE  /\ handler[h].pc = "act"
             /\ \E row \in UserRow : Plan(h, "create", n, row)
             /\ ~NamesReused => n \notin used
  BY <1>3, NewIsRow DEF UserCreate, Acting, Selections
<1>4. ASSUME NEW n \in Names, UserDisable(h, n)
      PROVE  /\ handler[h].pc = "act" /\ \E row \in UserRow : Plan(h, "disable", n, row)
                  /\ row.version = users[n].version + 1
             /\ n # Actor(h) /\ MayManage(h, n)
  <2>1. users[n] \in UserRow /\ users[n].version < MaxVersion
    BY <1>4, RowOfExisting DEF UserDisable, Bound
  <2> DEFINE row == [users[n] EXCEPT !.disabled = TRUE]
  <2>2. row \in UserRow /\ row.version < MaxVersion /\ row.version = users[n].version
    BY <2>1 DEF UserRow
  <2>3. /\ Plan(h, "disable", n, Bumped(row)) /\ handler[h].pc = "act"
        /\ n # Actor(h) /\ MayManage(h, n)
    BY <1>4 DEF UserDisable, Acting
  <2> HIDE DEF row
  <2>4. QED
    BY <2>2, <2>3, BumpedIsRow
<1>5. ASSUME NEW n \in Names, UserEnable(h, n)
      PROVE  handler[h].pc = "act" /\ \E row \in UserRow : Plan(h, "enable", n, row)
  <2>1. users[n] \in UserRow
    BY <1>5, RowOfExisting DEF UserEnable
  <2>2. [users[n] EXCEPT !.disabled = FALSE] \in UserRow
    BY <2>1 DEF UserRow
  <2>3. QED
    BY <1>5, <2>2 DEF UserEnable, Acting
<1>6. ASSUME NEW n \in Names, UserDelete(h, n)
      PROVE  /\ handler[h].pc = "act" /\ \E row \in UserRow : Plan(h, "delete", n, row)
             /\ n # Actor(h) /\ MayManage(h, n)
  BY <1>6, RowOfExisting DEF UserDelete, Acting
<1>7. ASSUME NEW n \in Names, NEW rs \in Selections, UserRoles(h, n, rs)
      PROVE  /\ handler[h].pc = "act" /\ \E row \in UserRow : Plan(h, "roles", n, row)
                  /\ row.version = users[n].version + 1
             /\ n # Actor(h) /\ MayManage(h, n)
  <2>1. users[n] \in UserRow /\ users[n].version < MaxVersion
    BY <1>7, RowOfExisting DEF UserRoles, Bound
  <2> DEFINE row == [users[n] EXCEPT !.roles = rs]
  <2>2. row \in UserRow /\ row.version < MaxVersion /\ row.version = users[n].version
    BY <2>1 DEF UserRow, Selections
  <2>3. /\ Plan(h, "roles", n, Bumped(row)) /\ handler[h].pc = "act"
        /\ n # Actor(h) /\ MayManage(h, n)
    BY <1>7 DEF UserRoles, Acting
  <2> HIDE DEF row
  <2>4. QED
    BY <2>2, <2>3, BumpedIsRow
<1>8. QED
  <2>1. CASE \E p \in Passwords : OwnPassword(h, p)
    BY <2>1, <1>1, "own" \in Ops DEF Ops, Revoking
  <2>2. CASE \E n \in Names, p \in Passwords : UserReset(h, n, p)
    BY <2>2, <1>2 DEF Ops, Revoking
  <2>3. CASE \E n \in Names, p \in Passwords, rs \in Selections : UserCreate(h, n, p, rs)
    BY <2>3, <1>3 DEF Ops, Revoking
  <2>4. CASE \E n \in Names : UserDisable(h, n)
    BY <2>4, <1>4 DEF Ops, Revoking
  <2>5. CASE \E n \in Names : UserEnable(h, n)
    BY <2>5, <1>5 DEF Ops, Revoking
  <2>6. CASE \E n \in Names : UserDelete(h, n)
    BY <2>6, <1>6 DEF Ops, Revoking
  <2>7. CASE \E n \in Names, rs \in Selections : UserRoles(h, n, rs)
    BY <2>7, <1>7 DEF Ops, Revoking
  <2>8. QED
    BY <2>1, <2>2, <2>3, <2>4, <2>5, <2>6, <2>7 DEF Act

LEMMA ColumnsIsRow ==
  ASSUME NEW op \in Ops, NEW old \in UserRow, NEW new \in UserRow
  PROVE  Columns(op, old, new) \in {NoRow} \cup UserRow
BY DEF Columns, Ops, UserRow

LEMMA CommitIsTyped ==
  ASSUME TypeOK, NEW h \in Handlers, Commit(h)
  PROVE  TypeOK'
<1> DEFINE req == handler[h]
<1>1. /\ req.pc = "commit" /\ req.as \in Cookie /\ req.roles \in RoleSets
      /\ req.op \in Ops /\ req.name \in Names /\ req.row \in UserRow
  BY FieldsOfRequest DEF Commit
<1>2. users' \in [Names -> {NoRow} \cup UserRow] /\ used' \subseteq Names /\ ended' \subseteq Cookie
  <2>1. CASE Fits(req)
    <3>1. Columns(req.op, users[req.name], req.row) \in {NoRow} \cup UserRow
      <4>1. CASE req.op = "create"
        BY <1>1, <4>1 DEF Columns
      <4>2. CASE req.op # "create"
        <5>1. Exists(req.name)
          BY <2>1, <4>2 DEF Fits, Exists
        <5>2. users[req.name] \in UserRow
          BY <1>1, <5>1, RowOfExisting
        <5>3. QED
          BY <1>1, <5>2, ColumnsIsRow
      <4>3. QED
        BY <4>1, <4>2
    <3>2. /\ users' = [users EXCEPT ![req.name] = Columns(req.op, users[req.name], req.row)]
          /\ used' = used \cup {req.name}
          /\ ended' = IF req.op \in Revoking THEN ended \cup SessionsOf(req.name) ELSE ended
      BY <2>1 DEF Commit, Written
    <3>3. SessionsOf(req.name) \subseteq Cookie
      BY DEF TypeOK, SessionsOf
    <3> HIDE DEF req
    <3>4. QED
      BY <1>1, <3>1, <3>2, <3>3 DEF TypeOK
  <2>2. CASE ~Fits(req)
    BY <2>2 DEF Commit, Written, TypeOK
  <2>3. QED
    BY <2>1, <2>2
<1>3. handler' \in [Handlers -> Handler]
  <2> DEFINE as == IF req.op = "own" THEN [name |-> req.name, version |-> req.row.version]
                   ELSE req.as
             next == IF Fits(req)
                     THEN [pc |-> "answer", as |-> as, roles |-> req.roles]
                     ELSE Idle
  <2>1. handler' = [handler EXCEPT ![h] = next]
    BY DEF Commit
  <2>2. as \in Cookie
    BY <1>1 DEF Cookie, UserRow
  <2>3. next \in Handler
    <3> HIDE DEF as
    <3> QED
      BY <1>1, <2>2 DEF Handler, Idle
  <2> HIDE DEF next
  <2>4. QED
    BY <2>1, <2>3 DEF TypeOK
<1>4. UNCHANGED <<cookies, login>>
  BY DEF Commit
<1>5. QED
  BY <1>2, <1>3, <1>4 DEF TypeOK

LEMMA InitIsTyped == Init => TypeOK
<1> SUFFICES ASSUME Init PROVE TypeOK
  OBVIOUS
<1>1. PICK p \in Passwords :
         users = [n \in Names |-> IF n = AdminUser THEN New(p, Roles) ELSE NoRow]
  BY DEF Init
<1>2. New(p, Roles) \in UserRow
  BY NewIsRow DEF RoleSets
<1>3. users \in [Names -> {NoRow} \cup UserRow]
  BY <1>1, <1>2
<1>4. QED
  BY <1>3, AccountsAssumption DEF Init, TypeOK, Handler, Idle

(* A start adds at most the account of the environment.                    *)
LEMMA BootedIsTyped ==
  ASSUME TypeOK
  PROVE  /\ Booted \subseteq [Names -> {NoRow} \cup UserRow]
         /\ \A u \in Booted, n \in Names : Exists(n) => u[n] = users[n]
<1>1. \A p \in Passwords : New(p, Roles) \in UserRow
  BY NewIsRow DEF RoleSets
<1>2. AdminUser \in Names
  BY AccountsAssumption
<1>3. QED
  BY <1>1, <1>2 DEF Booted, TypeOK, Exists

LEMMA StepIsTyped == TypeOK /\ [Next]_vars => TypeOK'
<1> SUFFICES ASSUME TypeOK, [Next]_vars PROVE TypeOK'
  OBVIOUS
<1>1. CASE UNCHANGED vars
  BY <1>1 DEF vars, TypeOK
<1>2. ASSUME NEW b \in Logins, NEW n \in Names, NEW p \in Passwords, LoginRead(b, n, p)
      PROVE  TypeOK'
  <2>1. [name |-> n, version |-> users[n].version] \in Cookie
    BY <1>2, RowOfExisting DEF LoginRead, Enabled, UserRow, Cookie
  <2>2. login' \in [Logins -> {NoRow} \cup Cookie]
    BY <1>2, <2>1 DEF LoginRead, TypeOK
  <2>3. QED
    BY <1>2, <2>2 DEF LoginRead, TypeOK
<1>3. ASSUME NEW b \in Logins, LoginAnswer(b)
      PROVE  TypeOK'
  BY <1>3 DEF LoginAnswer, TypeOK
<1>4. ASSUME NEW h \in Handlers, NEW c \in cookies, Authenticate(h, c)
      PROVE  TypeOK'
  <2>1. c \in Cookie /\ c.name \in Names
    BY DEF TypeOK, Cookie
  <2>2. users[c.name].roles \in RoleSets
    BY <1>4, <2>1, RowOfExisting DEF Authenticate, Valid, Enabled, UserRow
  <2> DEFINE req == [pc |-> "act", as |-> c, roles |-> users[c.name].roles]
  <2>3. req \in Handler
    BY <2>1, <2>2 DEF Handler
  <2>4. handler' = [handler EXCEPT ![h] = req]
    BY <1>4 DEF Authenticate
  <2>5. handler' \in [Handlers -> Handler]
    <3> HIDE DEF req
    <3> QED
      BY <2>3, <2>4 DEF TypeOK
  <2>6. QED
    BY <1>4, <2>5 DEF Authenticate, TypeOK
<1>5. ASSUME NEW h \in Handlers, Act(h)
      PROVE  TypeOK'
  BY <1>5, ActPlans, PlanIsTyped
<1>6. ASSUME NEW h \in Handlers, Commit(h)
      PROVE  TypeOK'
  BY <1>6, CommitIsTyped
<1>7. ASSUME NEW h \in Handlers, Answer(h)
      PROVE  TypeOK'
  <2>1. handler[h].as \in Cookie
    BY <1>7, FieldsOfRequest DEF Answer
  <2>2. Idle \in Handler
    BY DEF Idle, Handler
  <2>3. QED
    BY <1>7, <2>1, <2>2 DEF Answer, TypeOK
<1>8. CASE Restart
  <2>1. users' \in [Names -> {NoRow} \cup UserRow]
    BY <1>8, BootedIsTyped DEF Restart
  <2>2. Idle \in Handler
    BY DEF Idle, Handler
  <2>3. QED
    BY <1>8, <2>1, <2>2 DEF Restart, TypeOK
<1>9. QED
  BY <1>1, <1>2, <1>3, <1>4, <1>5, <1>6, <1>7, <1>8 DEF Next

(* Rows, cookies and requests stay well formed: no bump leaves the versions *)
(* and no column is written from a row that is gone.                       *)
THEOREM AccountTypes == Spec => []TypeOK
BY InitIsTyped, StepIsTyped, PTL DEF Spec
-----------------------------------------------------------------------------
OneHandler == \A g, h \in Handlers : g = h

(* With one request at a time, what its guards have read is still so when  *)
(* it commits: whoever asked still has an enabled account, and a request   *)
(* that takes something from an administrator was made by another one.     *)
ActorsStand == \A h \in Handlers : handler[h].pc \in {"act", "commit"} => Enabled(Actor(h))
GuardsStand ==
    \A h \in Handlers :
        handler[h].pc = "commit" /\ handler[h].op \in {"disable", "roles", "delete"} =>
            handler[h].name # Actor(h) /\ MayManage(h, handler[h].name)

AdminInv == TypeOK /\ AdminRemains /\ ActorsStand /\ GuardsStand

LEMMA InitHasAdmin == Init => AdminInv
<1> SUFFICES ASSUME Init PROVE AdminInv
  OBVIOUS
<1>1. PICK p \in Passwords :
         users = [n \in Names |-> IF n = AdminUser THEN New(p, Roles) ELSE NoRow]
  BY DEF Init
<1>2. New(p, Roles) \in UserRow
  BY NewIsRow DEF RoleSets
<1>3. users[AdminUser] = New(p, Roles) /\ AdminUser \in Names
  BY <1>1, AccountsAssumption
<1>4. New(p, Roles) # NoRow
  BY <1>2, AccountsAssumption
<1>5. New(p, Roles).disabled = FALSE /\ "admin" \in New(p, Roles).roles
  BY DEF New, Roles
<1>6. AdminRemains
  BY <1>3, <1>4, <1>5 DEF AdminRemains, Enabled, IsAdmin, Exists
<1>7. \A h \in Handlers : handler[h].pc = "idle"
  BY DEF Init, Idle
<1>8. QED
  BY <1>6, <1>7, InitIsTyped DEF AdminInv, ActorsStand, GuardsStand

(* Steps that leave the rows alone. *)
LEMMA AdminInvFrame ==
  ASSUME AdminInv, UNCHANGED users, TypeOK',
         \A h \in Handlers : handler'[h] = handler[h] \/ handler'[h].pc \in {"idle", "answer"}
  PROVE  AdminInv'
<1>1. AdminRemains'
  BY DEF AdminInv, AdminRemains, Enabled, IsAdmin, Exists
<1>2. ActorsStand'
  BY DEF AdminInv, ActorsStand, Actor, Enabled, Exists
<1>3. GuardsStand'
  BY DEF AdminInv, GuardsStand, MayManage, Actor, IsAdmin, Exists
<1>4. QED
  BY <1>1, <1>2, <1>3 DEF AdminInv

(* The change that a request commits leaves an administrator.              *)
LEMMA CommitLeavesAdmin ==
  ASSUME AdminInv, NEW h \in Handlers, Commit(h)
  PROVE  AdminRemains'
<1> DEFINE req == handler[h]
<1>1. /\ req.pc = "commit" /\ req.op \in Ops /\ req.name \in Names /\ req.row \in UserRow
      /\ Actor(h) \in Names
  BY FieldsOfRequest, ActorIsName DEF Commit, AdminInv
<1>2. PICK w \in Names : Enabled(w) /\ IsAdmin(w)
  BY DEF AdminInv, AdminRemains
<1>3. users \in [Names -> {NoRow} \cup UserRow]
  BY DEF AdminInv, TypeOK
<1>4. CASE ~Fits(req)
  BY <1>2, <1>4 DEF Commit, Written, AdminRemains, Enabled, IsAdmin, Exists
<1>5. CASE Fits(req)
  <2> DEFINE new == Columns(req.op, users[req.name], req.row)
  <2>1. users' = [users EXCEPT ![req.name] = new]
    BY <1>5 DEF Commit, Written
  <2>2. \A n \in Names : n # req.name => users'[n] = users[n]
    BY <1>3, <2>1
  <2>3. users'[req.name] = new
    BY <1>1, <1>3, <2>1
  <2>4. ASSUME NEW n \in Names, n # req.name, Enabled(n), IsAdmin(n)
        PROVE  AdminRemains'
    BY <2>2, <2>4 DEF AdminRemains, Enabled, IsAdmin, Exists
  <2>5. CASE w # req.name
    BY <1>2, <2>4, <2>5
  <2>6. CASE w = req.name /\ req.op \in {"disable", "roles", "delete"}
    <3>1. Actor(h) # req.name /\ IsAdmin(Actor(h))
      BY <1>1, <1>2, <2>6 DEF AdminInv, GuardsStand, MayManage
    <3>2. Enabled(Actor(h))
      BY <1>1 DEF AdminInv, ActorsStand
    <3>3. QED
      BY <1>1, <2>4, <3>1, <3>2
  <2>7. CASE w = req.name /\ req.op \in {"own", "reset", "enable"}
    <3>1. users[w] \in UserRow /\ users[w].disabled = FALSE /\ "admin" \in users[w].roles
      BY <1>2, <1>3 DEF Enabled, IsAdmin, Exists, UserRow
    <3>2. new.disabled = FALSE /\ new.roles = users[w].roles
      BY <2>7, <3>1 DEF Columns, UserRow
    <3>3. new # NoRow
      <4>1. new = [users[w] EXCEPT !.pw = req.row.pw, !.version = req.row.version]
            \/ new = [users[w] EXCEPT !.disabled = FALSE]
        BY <2>7 DEF Columns
      <4>2. new \in UserRow
        BY <1>1, <3>1, <4>1 DEF UserRow
      <4>3. QED
        BY <4>2, AccountsAssumption
    <3> HIDE DEF new
    <3>4. QED
      BY <1>1, <2>3, <2>7, <3>1, <3>2, <3>3 DEF AdminRemains, Enabled, IsAdmin, Exists
  <2>8. CASE w = req.name /\ req.op = "create"
    BY <1>2, <1>5, <2>8 DEF Fits, Enabled, Exists
  <2>9. QED
    BY <1>1, <2>5, <2>6, <2>7, <2>8 DEF Ops
<1>6. QED
  BY <1>4, <1>5

LEMMA ActKeepsAdminInv ==
  ASSUME AdminInv, NEW h \in Handlers, Act(h)
  PROVE  AdminInv'
<1>1. TypeOK
  BY DEF AdminInv
<1>2. PICK op \in Ops, n \in Names, row \in UserRow :
         /\ handler[h].pc = "act"
         /\ Plan(h, op, n, row)
         /\ op \in {"disable", "roles", "delete"} => n # Actor(h) /\ MayManage(h, n)
  BY <1>1, ActPlans
<1> DEFINE req == [pc |-> "commit", as |-> handler[h].as, roles |-> handler[h].roles,
                   op |-> op, name |-> n, row |-> row]
<1>3. handler' = [handler EXCEPT ![h] = req] /\ UNCHANGED users
  BY <1>2 DEF Plan
<1>4. req.pc = "commit" /\ req.as = handler[h].as /\ req.op = op /\ req.name = n
  OBVIOUS
<1> HIDE DEF req
<1>5. handler'[h] = req /\ \A g \in Handlers \ {h} : handler'[g] = handler[g]
  BY <1>1, <1>3 DEF TypeOK
<1>6. TypeOK'
  BY <1>1, <1>2, PlanIsTyped
<1>7. AdminRemains'
  BY <1>3 DEF AdminInv, AdminRemains, Enabled, IsAdmin, Exists
<1>8. ActorsStand'
  BY <1>2, <1>3, <1>4, <1>5 DEF AdminInv, ActorsStand, Actor, Enabled, Exists
<1>9. GuardsStand'
  <2> SUFFICES ASSUME NEW g \in Handlers, handler'[g].pc = "commit",
                      handler'[g].op \in {"disable", "roles", "delete"}
               PROVE  handler'[g].name # Actor(g)' /\ MayManage(g, handler[g].name)'
    BY DEF GuardsStand
  <2>1. CASE g = h
    BY <1>2, <1>3, <1>4, <1>5, <2>1 DEF MayManage, Actor, IsAdmin, Exists
  <2>2. CASE g # h
    BY <1>3, <1>5, <2>2 DEF AdminInv, GuardsStand, MayManage, Actor, IsAdmin, Exists
  <2>3. QED
    BY <2>1, <2>2
<1>10. QED
  BY <1>6, <1>7, <1>8, <1>9 DEF AdminInv

LEMMA StepKeepsAdmin ==
  ASSUME OneHandler
  PROVE  AdminInv /\ [Next]_vars => AdminInv'
<1> SUFFICES ASSUME AdminInv, [Next]_vars PROVE AdminInv'
  OBVIOUS
<1>1. TypeOK /\ TypeOK'
  BY StepIsTyped DEF AdminInv
<1>2. CASE UNCHANGED vars
  BY <1>1, <1>2, AdminInvFrame DEF vars
<1>3. ASSUME NEW b \in Logins,
             (\E n \in Names, p \in Passwords : LoginRead(b, n, p)) \/ LoginAnswer(b)
      PROVE  AdminInv'
  BY <1>1, <1>3, AdminInvFrame DEF LoginRead, LoginAnswer
<1>4. ASSUME NEW h \in Handlers, NEW c \in cookies, Authenticate(h, c)
      PROVE  AdminInv'
  <2>1. UNCHANGED users /\ Enabled(c.name)
    BY <1>4 DEF Authenticate, Valid
  <2>2. /\ handler'[h].pc = "act" /\ handler'[h].as = c
        /\ \A g \in Handlers \ {h} : handler'[g] = handler[g]
    BY <1>1, <1>4 DEF Authenticate, TypeOK
  <2>3. AdminRemains'
    BY <2>1 DEF AdminInv, AdminRemains, Enabled, IsAdmin, Exists
  <2>4. ActorsStand'
    BY <2>1, <2>2 DEF AdminInv, ActorsStand, Actor, Enabled, Exists
  <2>5. GuardsStand'
    BY <2>1, <2>2 DEF AdminInv, GuardsStand, MayManage, Actor, IsAdmin, Exists
  <2>6. QED
    BY <1>1, <2>3, <2>4, <2>5 DEF AdminInv
<1>5. ASSUME NEW h \in Handlers, Act(h)
      PROVE  AdminInv'
  BY <1>5, ActKeepsAdminInv
<1>6. ASSUME NEW h \in Handlers, Commit(h)
      PROVE  AdminInv'
  <2>1. handler'[h].pc \in {"idle", "answer"}
    BY <1>1, <1>6 DEF Commit, TypeOK, Idle
  <2>2. \A g \in Handlers : g = h
    BY DEF OneHandler
  <2>3. ActorsStand' /\ GuardsStand'
    BY <2>1, <2>2 DEF ActorsStand, GuardsStand
  <2>4. QED
    BY <1>1, <1>6, <2>3, CommitLeavesAdmin DEF AdminInv
<1>7. ASSUME NEW h \in Handlers, Answer(h)
      PROVE  AdminInv'
  <2>1. \A g \in Handlers : handler'[g] = handler[g] \/ handler'[g].pc = "idle"
    BY <1>1, <1>7 DEF Answer, TypeOK, Idle
  <2>2. QED
    BY <1>1, <1>7, <2>1, AdminInvFrame DEF Answer
<1>8. CASE Restart
  <2>1. \A n \in Names : Exists(n) => users'[n] = users[n]
    BY <1>1, <1>8, BootedIsTyped DEF Restart
  <2>2. AdminRemains'
    BY <2>1 DEF AdminInv, AdminRemains, Enabled, IsAdmin, Exists
  <2>3. \A h \in Handlers : handler'[h].pc = "idle"
    BY <1>8 DEF Restart, Idle
  <2>4. QED
    BY <1>1, <2>2, <2>3 DEF AdminInv, ActorsStand, GuardsStand
<1>9. QED
  BY <1>2, <1>3, <1>4, <1>5, <1>6, <1>7, <1>8 DEF Next

(* While one account request runs at a time, however many logins and       *)
(* restarts overlap it, an enabled global administrator remains.           *)
THEOREM AdminAlwaysRemains ==
  ASSUME OneHandler
  PROVE  Spec => []AdminRemains
<1>1. AdminInv => AdminRemains
  BY DEF AdminInv
<1>2. AdminInv /\ [Next]_vars => AdminInv'
  BY StepKeepsAdmin
<1>3. QED
  BY <1>1, <1>2, InitHasAdmin, PTL DEF Spec
-----------------------------------------------------------------------------
(* A cookie that was issued is at most as new as its account, and one that *)
(* was issued before a revoking change is older.                           *)
Issued(c) == c.name \in used /\ (Exists(c.name) => c.version <= users[c.name].version)
Revoked(c) == c.name \in used /\ (Exists(c.name) => c.version < users[c.name].version)

(* What a request is about to write follows from the row as it is: the     *)
(* bump it computed is a bump, and the name it creates is a new one.       *)
WritesAreFresh ==
    \A h \in Handlers : handler[h].pc = "commit" =>
        /\ handler[h].op = "create" => handler[h].name \notin used
        /\ handler[h].op \in Revoking /\ Exists(handler[h].name) =>
              handler[h].row.version = users[handler[h].name].version + 1

SessionInv ==
    /\ TypeOK
    /\ \A n \in Names : Exists(n) => n \in used
    /\ \A c \in cookies : Issued(c)
    /\ \A b \in Logins : login[b] # NoRow => Issued(login[b])
    /\ \A h \in Handlers : handler[h].pc \in {"act", "commit", "answer"} => Issued(handler[h].as)
    /\ \A c \in ended : Revoked(c)
    /\ WritesAreFresh

LEMMA VersionIsNumber ==
  ASSUME TypeOK
  PROVE  /\ \A n \in Names : Exists(n) => users[n].version \in Nat
         /\ \A c \in Cookie : c.version \in Nat /\ c.name \in Names
<1>1. Versions \subseteq Nat
  BY AccountsAssumption DEF Versions
<1>2. \A n \in Names : Exists(n) => users[n].version \in Versions
  BY RowOfExisting DEF UserRow
<1>3. QED
  BY <1>1, <1>2 DEF Cookie

(* No account is created under a name that was used, and no version of an  *)
(* account goes back.                                                      *)
NeverBack ==
    /\ used \subseteq used'
    /\ \A n \in used : Exists(n)' => Exists(n) /\ users[n].version <= users'[n].version

LEMMA NeverBackKeeps ==
  ASSUME TypeOK, TypeOK', NeverBack, NEW c \in Cookie
  PROVE  (Issued(c) => Issued(c)') /\ (Revoked(c) => Revoked(c)')
<1>1. c.name \in Names /\ c.version \in Nat
  BY VersionIsNumber
<1>2. Exists(c.name) => users[c.name].version \in Nat
  BY <1>1, VersionIsNumber
<1>3. Exists(c.name)' => users'[c.name].version \in Nat
  <2>1. AccountsAssumption /\ Versions \subseteq Nat
    BY AccountsAssumption DEF Versions
  <2>2. users'[c.name] \in {NoRow} \cup UserRow
    BY <1>1 DEF TypeOK
  <2>3. QED
    BY <2>1, <2>2 DEF Exists, UserRow
<1>4. ASSUME c.name \in used
      PROVE  c.name \in used' /\ (Exists(c.name)' => Exists(c.name) /\ users[c.name].version <= users'[c.name].version)
  BY <1>4 DEF NeverBack
<1>5. CASE c.name \notin used
  BY <1>5 DEF Issued, Revoked
<1>6. CASE c.name \in used /\ ~Exists(c.name)'
  BY <1>4, <1>6 DEF Issued, Revoked
<1>7. CASE c.name \in used /\ Exists(c.name)'
  <2>1. Exists(c.name) /\ users[c.name].version <= users'[c.name].version
    BY <1>4, <1>7
  <2> DEFINE v == users[c.name].version
             w == users'[c.name].version
  <2>2. c.version \in Nat /\ v \in Nat /\ w \in Nat /\ v <= w
    BY <1>1, <1>2, <1>3, <1>7, <2>1
  <2>3. (Issued(c) => c.version <= v) /\ (Revoked(c) => c.version < v)
    BY <2>1 DEF Issued, Revoked
  <2>4. c.name \in used'
    BY <1>4, <1>7
  <2>5. (c.version <= w => Issued(c)') /\ (c.version < w => Revoked(c)')
    BY <2>4 DEF Issued, Revoked
  <2> HIDE DEF v, w
  <2>6. QED
    BY <2>2, <2>3, <2>5
<1>8. QED
  BY <1>5, <1>6, <1>7

LEMMA InitHasSessions == Init => SessionInv
<1> SUFFICES ASSUME Init PROVE SessionInv
  OBVIOUS
<1>1. \A n \in Names : Exists(n) => n \in used
  BY DEF Init, Exists
<1>2. \A h \in Handlers : handler[h].pc = "idle"
  BY DEF Init, Idle
<1>3. cookies = {} /\ ended = {} /\ \A b \in Logins : login[b] = NoRow
  BY DEF Init
<1>4. QED
  BY <1>1, <1>2, <1>3, InitIsTyped DEF SessionInv, WritesAreFresh

(* Steps that leave the rows alone and issue only cookies that are as old. *)
LEMMA SessionInvFrame ==
  ASSUME SessionInv, TypeOK', UNCHANGED <<users, used, ended>>,
         \A c \in cookies' : Issued(c),
         \A b \in Logins : login'[b] # NoRow => Issued(login'[b]),
         \A h \in Handlers : handler'[h].pc \in {"act", "commit", "answer"} => Issued(handler'[h].as),
         \A h \in Handlers : handler'[h] = handler[h] \/ handler'[h].pc # "commit"
  PROVE  SessionInv'
<1>1. \A c : Issued(c) = Issued(c)' /\ Revoked(c) = Revoked(c)'
  BY DEF Issued, Revoked, Exists
<1>2. \A n \in Names : Exists(n) = Exists(n)'
  BY DEF Exists
<1>3. (\A n \in Names : Exists(n) => n \in used)' /\ (\A c \in ended : Revoked(c))'
  BY <1>1, <1>2 DEF SessionInv
<1>4. WritesAreFresh'
  BY DEF SessionInv, WritesAreFresh, Exists
<1>5. /\ (\A c \in cookies : Issued(c))'
      /\ (\A b \in Logins : login[b] # NoRow => Issued(login[b]))'
      /\ (\A h \in Handlers : handler[h].pc \in {"act", "commit", "answer"} => Issued(handler[h].as))'
  BY <1>1
<1>6. QED
  BY <1>3, <1>4, <1>5 DEF SessionInv

LEMMA ActKeepsSessions ==
  ASSUME ~NamesReused, SessionInv, NEW h \in Handlers, Act(h)
  PROVE  SessionInv'
<1>1. TypeOK
  BY DEF SessionInv
<1>2. PICK op \in Ops, n \in Names, row \in UserRow :
         /\ handler[h].pc = "act"
         /\ Plan(h, op, n, row)
         /\ op = "create" => n \notin used
         /\ op \in Revoking => row.version = users[n].version + 1
  BY <1>1, ActPlans
<1>3. TypeOK'
  BY <1>1, <1>2, PlanIsTyped
<1> DEFINE req == [pc |-> "commit", as |-> handler[h].as, roles |-> handler[h].roles,
                   op |-> op, name |-> n, row |-> row]
<1>4. handler' = [handler EXCEPT ![h] = req] /\ UNCHANGED <<users, cookies, login, ended, used>>
  BY <1>2 DEF Plan
<1>5. req.as = handler[h].as /\ req.op = op /\ req.name = n /\ req.row = row
  OBVIOUS
<1> HIDE DEF req
<1>6. handler'[h] = req /\ \A g \in Handlers \ {h} : handler'[g] = handler[g]
  BY <1>1, <1>4 DEF TypeOK
<1>7. \A c : Issued(c) = Issued(c)' /\ Revoked(c) = Revoked(c)'
  BY <1>4 DEF Issued, Revoked, Exists
<1>8. WritesAreFresh'
  <2> SUFFICES ASSUME NEW g \in Handlers, handler'[g].pc = "commit"
               PROVE  /\ handler'[g].op = "create" => handler'[g].name \notin used
                      /\ handler'[g].op \in Revoking /\ Exists(handler'[g].name) =>
                            handler'[g].row.version = users[handler'[g].name].version + 1
    BY <1>4 DEF WritesAreFresh, Exists
  <2>1. CASE g = h
    BY <1>2, <1>5, <1>6, <2>1
  <2>2. CASE g # h
    BY <1>6, <2>2 DEF SessionInv, WritesAreFresh
  <2>3. QED
    BY <2>1, <2>2
<1>9. (\A g \in Handlers : handler[g].pc \in {"act", "commit", "answer"} => Issued(handler[g].as))'
  <2>1. \A g \in Handlers : handler'[g].pc \in {"act", "commit", "answer"} => Issued(handler[g].as)
    BY <1>2, <1>6 DEF SessionInv
  <2>2. \A g \in Handlers : handler'[g].as = handler[g].as
    BY <1>5, <1>6
  <2>3. QED
    BY <1>7, <2>1, <2>2
<1>10. /\ (\A m \in Names : Exists(m) => m \in used)'
       /\ (\A c \in cookies : Issued(c))' /\ (\A c \in ended : Revoked(c))'
       /\ (\A b \in Logins : login[b] # NoRow => Issued(login[b]))'
  BY <1>4, <1>7 DEF SessionInv, Exists
<1>11. QED
  BY <1>3, <1>8, <1>9, <1>10 DEF SessionInv

(* Every change of the rows is one that a cookie can only age by.          *)
LEMMA CommitNeverBack ==
  ASSUME SessionInv, NEW h \in Handlers, Commit(h), Fits(handler[h])
  PROVE  /\ NeverBack
         /\ used' = used \cup {handler[h].name}
         /\ \A n \in Names : n # handler[h].name => users'[n] = users[n]
         /\ handler[h].op \in Revoking =>
               /\ Exists(handler[h].name)
               /\ users'[handler[h].name].version = handler[h].row.version
               /\ handler[h].row.version = users[handler[h].name].version + 1
<1> DEFINE req == handler[h]
           new == Columns(req.op, users[req.name], req.row)
<1>1. TypeOK
  BY DEF SessionInv
<1>2. /\ req.pc = "commit" /\ req.op \in Ops /\ req.name \in Names /\ req.row \in UserRow
  BY <1>1, FieldsOfRequest DEF Commit
<1>3. users' = [users EXCEPT ![req.name] = new] /\ used' = used \cup {req.name}
  BY DEF Commit, Written
<1>4. users'[req.name] = new /\ \A n \in Names : n # req.name => users'[n] = users[n]
  BY <1>1, <1>2, <1>3 DEF TypeOK
<1>5. used \subseteq Names
  BY <1>1 DEF TypeOK
<1>6. \A n \in Names : Exists(n) => users[n].version \in Nat
  BY <1>1, VersionIsNumber
<1>7. CASE req.op = "create"
  <2>1. req.name \notin used
    BY <1>2, <1>7 DEF SessionInv, WritesAreFresh
  <2>2. \A n \in used : users'[n] = users[n]
    BY <1>4, <1>5, <2>1
  <2>3. NeverBack
    BY <1>3, <1>5, <1>6, <2>2 DEF NeverBack, Exists
  <2>4. req.op \notin Revoking
    BY <1>7 DEF Revoking
  <2>5. QED
    BY <1>3, <1>4, <2>3, <2>4
<1>8. CASE req.op # "create"
  <2>1. Exists(req.name)
    BY <1>8 DEF Fits, Exists
  <2>2. users[req.name] \in UserRow
    BY <1>1, <1>2, <2>1, RowOfExisting
  <2>3. req.op \in Revoking => /\ new.version = req.row.version
                               /\ req.row.version = users[req.name].version + 1
    <3>1. CASE req.op \in Revoking
      <4>1. req.row.version = users[req.name].version + 1
        BY <1>2, <2>1, <3>1 DEF SessionInv, WritesAreFresh
      <4>2. new.version = req.row.version
        BY <2>2, <3>1 DEF Columns, Revoking, UserRow
      <4>3. QED
        BY <4>1, <4>2
    <3>2. QED
      BY <3>1
  <2>4. req.op = "enable" => new.version = users[req.name].version
    BY <2>2 DEF Columns, UserRow
  <2>5. req.op = "delete" => new = NoRow
    BY DEF Columns
  <2> HIDE DEF new
  <2>6. users'[req.name] # NoRow => users[req.name].version <= users'[req.name].version
    <3>1. users[req.name].version \in Nat
      BY <1>2, <1>6, <2>1
    <3>2. CASE req.op \in Revoking
      BY <1>4, <2>3, <3>1, <3>2
    <3>3. CASE req.op = "enable"
      BY <1>4, <2>4, <3>1, <3>3
    <3>4. CASE req.op = "delete"
      BY <1>4, <2>5, <3>4
    <3>5. QED
      BY <1>2, <1>8, <3>2, <3>3, <3>4 DEF Ops, Revoking
  <2>7. NeverBack
    <3>1. \A n \in used : n # req.name /\ Exists(n)' =>
             Exists(n) /\ users[n].version <= users'[n].version
      BY <1>4, <1>5, <1>6 DEF Exists
    <3>2. QED
      BY <1>3, <2>1, <2>6, <3>1 DEF NeverBack, Exists
  <2>8. QED
    BY <1>3, <1>4, <2>1, <2>3, <2>7
<1>9. QED
  BY <1>7, <1>8

LEMMA CommitKeepsSessions ==
  ASSUME OneHandler, SessionInv, NEW h \in Handlers, Commit(h)
  PROVE  SessionInv'
<1> DEFINE req == handler[h]
           as == IF req.op = "own" THEN [name |-> req.name, version |-> req.row.version]
                 ELSE req.as
<1>1. TypeOK /\ TypeOK'
  BY CommitIsTyped DEF SessionInv
<1>2. /\ req.pc = "commit" /\ req.op \in Ops /\ req.name \in Names /\ req.as \in Cookie
      /\ req.row \in UserRow
  BY <1>1, FieldsOfRequest DEF Commit
<1>3. UNCHANGED <<cookies, login>>
  BY DEF Commit
<1>4. \A g \in Handlers : g = h
  BY DEF OneHandler
<1>5. handler'[h] = IF Fits(req) THEN [pc |-> "answer", as |-> as, roles |-> req.roles]
                    ELSE Idle
  BY <1>1 DEF Commit, TypeOK
<1>6. handler'[h].pc # "commit"
  BY <1>5 DEF Idle
<1>7. WritesAreFresh'
  BY <1>4, <1>6 DEF WritesAreFresh
<1>8. cookies \subseteq Cookie /\ ended \subseteq Cookie
      /\ \A b \in Logins : login[b] # NoRow => login[b] \in Cookie
  BY <1>1 DEF TypeOK
<1>9. CASE ~Fits(req)
  <2>1. UNCHANGED <<users, used, ended>>
    BY <1>9 DEF Commit, Written
  <2>2. handler'[h].pc = "idle"
    BY <1>5, <1>9 DEF Idle
  <2>3. QED
    BY <1>1, <1>3, <1>4, <2>1, <2>2, SessionInvFrame DEF SessionInv
<1>10. CASE Fits(req)
  <2>1. NeverBack
    BY <1>10, CommitNeverBack
  <2>2. \A c \in Cookie : (Issued(c) => Issued(c)') /\ (Revoked(c) => Revoked(c)')
    BY <1>1, <2>1, NeverBackKeeps
  <2>3. (\A c \in cookies : Issued(c))'
    BY <1>3, <1>8, <2>2 DEF SessionInv
  <2>4. (\A b \in Logins : login[b] # NoRow => Issued(login[b]))'
    BY <1>3, <1>8, <2>2 DEF SessionInv
  <2>5. (\A n \in Names : Exists(n) => n \in used)'
    <3>1. /\ used' = used \cup {req.name}
          /\ \A n \in Names : n # req.name => users'[n] = users[n]
      BY <1>10, CommitNeverBack
    <3>2. QED
      BY <3>1 DEF SessionInv, Exists
  <2>6. \A c \in SessionsOf(req.name) : req.op \in Revoking => Revoked(c)'
    <3> SUFFICES ASSUME NEW c \in SessionsOf(req.name), req.op \in Revoking
                 PROVE  Revoked(c)'
      OBVIOUS
    <3>1. c \in Cookie /\ c.name = req.name /\ Issued(c)
      BY <1>8 DEF SessionsOf, SessionInv
    <3>2. /\ Exists(req.name)
          /\ users'[req.name].version = req.row.version
          /\ req.row.version = users[req.name].version + 1
      BY <1>10, CommitNeverBack
    <3>3. c.version <= users[req.name].version /\ c.name \in used
      BY <3>1, <3>2 DEF Issued
    <3>4. c.version \in Nat /\ users[req.name].version \in Nat
      BY <1>1, <1>2, <3>1, <3>2, VersionIsNumber
    <3>5. c.version < users'[c.name].version
      BY <3>1, <3>2, <3>3, <3>4
    <3>6. c.name \in used'
      BY <2>1, <3>3 DEF NeverBack
    <3>7. QED
      BY <3>5, <3>6 DEF Revoked
  <2>7. (\A c \in ended : Revoked(c))'
    <3>1. ended' \subseteq ended \cup (IF req.op \in Revoking THEN SessionsOf(req.name) ELSE {})
      BY <1>10 DEF Commit, Written
    <3>2. \A c \in ended : Revoked(c)'
      BY <1>8, <2>2 DEF SessionInv
    <3>3. QED
      BY <2>6, <3>1, <3>2
  <2>8. PICK c \in Cookie : c = as /\ Issued(c)'
    <3>1. CASE req.op = "own"
      <4>1. PICK c \in Cookie : c = [name |-> req.name, version |-> req.row.version]
        BY <1>2 DEF Cookie, UserRow
      <4>2. c = as /\ c.name = req.name /\ c.version = req.row.version
        BY <3>1, <4>1
      <4>3. users'[c.name].version = c.version
        BY <1>10, <3>1, <4>2, CommitNeverBack DEF Revoking
      <4>4. c.name \in used'
        BY <1>10, <4>2, CommitNeverBack
      <4>5. c.version \in Nat
        BY <1>1, VersionIsNumber
      <4>6. Issued(c)'
        BY <4>3, <4>4, <4>5 DEF Issued
      <4>7. QED
        BY <4>2, <4>6
    <3>2. CASE req.op # "own"
      BY <1>2, <2>2, <3>2 DEF SessionInv
    <3>3. QED
      BY <3>1, <3>2
  <2>9. (\A g \in Handlers : handler[g].pc \in {"act", "commit", "answer"} => Issued(handler[g].as))'
    <3>1. handler'[h].as = c
      BY <1>5, <1>10, <2>8
    <3>2. QED
      BY <1>4, <2>8, <3>1
  <2>10. QED
    BY <1>1, <1>7, <2>3, <2>4, <2>5, <2>7, <2>9 DEF SessionInv
<1>11. QED
  BY <1>9, <1>10

LEMMA StepKeepsSessions ==
  ASSUME OneHandler, ~NamesReused
  PROVE  SessionInv /\ [Next]_vars => SessionInv'
<1> SUFFICES ASSUME SessionInv, [Next]_vars PROVE SessionInv'
  OBVIOUS
<1>1. TypeOK /\ TypeOK'
  BY StepIsTyped DEF SessionInv
<1>2. CASE UNCHANGED vars
  BY <1>1, <1>2, SessionInvFrame DEF vars, SessionInv
<1>3. ASSUME NEW b \in Logins, NEW n \in Names, NEW p \in Passwords, LoginRead(b, n, p)
      PROVE  SessionInv'
  <2>1. users[n].version \in Nat /\ n \in used
    BY <1>1, <1>3, VersionIsNumber DEF LoginRead, Enabled, SessionInv
  <2>2. Issued([name |-> n, version |-> users[n].version])
    BY <2>1 DEF Issued
  <2>3. \A a \in Logins : login'[a] # NoRow => Issued(login'[a])
    <3>1. /\ login'[b] = [name |-> n, version |-> users[n].version]
          /\ \A a \in Logins \ {b} : login'[a] = login[a]
      BY <1>1, <1>3 DEF LoginRead, TypeOK
    <3>2. QED
      BY <2>2, <3>1 DEF SessionInv
  <2>4. UNCHANGED <<users, cookies, handler, ended, used>>
    BY <1>3 DEF LoginRead
  <2>5. QED
    BY <1>1, <2>3, <2>4, SessionInvFrame DEF SessionInv
<1>4. ASSUME NEW b \in Logins, LoginAnswer(b)
      PROVE  SessionInv'
  <2>1. /\ UNCHANGED <<users, handler, ended, used>>
        /\ cookies' = cookies \cup {login[b]} /\ login[b] # NoRow
    BY <1>4 DEF LoginAnswer
  <2>2. \A a \in Logins : login'[a] # NoRow => login'[a] = login[a]
    BY <1>1, <1>4 DEF LoginAnswer, TypeOK
  <2>3. QED
    BY <1>1, <2>1, <2>2, SessionInvFrame DEF SessionInv
<1>5. ASSUME NEW h \in Handlers, NEW c \in cookies, Authenticate(h, c)
      PROVE  SessionInv'
  <2>1. /\ handler'[h].pc = "act" /\ handler'[h].as = c
        /\ \A g \in Handlers \ {h} : handler'[g] = handler[g]
    BY <1>1, <1>5 DEF Authenticate, TypeOK
  <2>2. UNCHANGED <<users, cookies, login, ended, used>>
    BY <1>5 DEF Authenticate
  <2>3. QED
    BY <1>1, <2>1, <2>2, SessionInvFrame DEF SessionInv
<1>6. ASSUME NEW h \in Handlers, Act(h)
      PROVE  SessionInv'
  BY <1>6, ActKeepsSessions
<1>7. ASSUME NEW h \in Handlers, Commit(h)
      PROVE  SessionInv'
  BY <1>7, CommitKeepsSessions
<1>8. ASSUME NEW h \in Handlers, Answer(h)
      PROVE  SessionInv'
  <2>1. /\ handler[h].pc \in {"act", "answer"} /\ cookies' = cookies \cup {handler[h].as}
        /\ UNCHANGED <<users, login, ended, used>>
    BY <1>8 DEF Answer
  <2>2. \A c \in cookies' : Issued(c)
    BY <2>1 DEF SessionInv
  <2>3. \A g \in Handlers : handler'[g] = handler[g] \/ handler'[g].pc = "idle"
    BY <1>1, <1>8 DEF Answer, TypeOK, Idle
  <2>4. QED
    BY <1>1, <2>1, <2>2, <2>3, SessionInvFrame DEF SessionInv
<1>9. CASE Restart
  <2>1. UNCHANGED <<users, cookies, ended, used>>
    BY <1>9 DEF Restart, Booted
  <2>2. \A h \in Handlers : handler'[h].pc = "idle"
    BY <1>9 DEF Restart, Idle
  <2>3. \A b \in Logins : login'[b] = NoRow
    BY <1>9 DEF Restart
  <2>4. QED
    BY <1>1, <2>1, <2>2, <2>3, SessionInvFrame DEF SessionInv
<1>10. QED
  BY <1>2, <1>3, <1>4, <1>5, <1>6, <1>7, <1>8, <1>9 DEF Next

(* While one account request runs at a time and no name is given again, a  *)
(* session that was issued, or is being issued by a login, before a change *)
(* of password, roles or state is never good again.                        *)
THEOREM RevokedStaysEnded ==
  ASSUME OneHandler, ~NamesReused
  PROVE  Spec => []RevokedSessionsEnd
<1>1. SessionInv => RevokedSessionsEnd
  <2> SUFFICES ASSUME SessionInv, NEW c \in ended PROVE ~Valid(c)
    BY DEF RevokedSessionsEnd
  <2>1. Revoked(c) /\ c \in Cookie /\ TypeOK
    BY DEF SessionInv, TypeOK
  <2>2. c.version \in Nat /\ (Exists(c.name) => users[c.name].version \in Nat)
    BY <2>1, VersionIsNumber
  <2>3. QED
    BY <2>1, <2>2 DEF Revoked, Valid, Enabled
<1>2. SessionInv /\ [Next]_vars => SessionInv'
  BY StepKeepsSessions
<1>3. QED
  BY <1>1, <1>2, InitHasSessions, PTL DEF Spec
-----------------------------------------------------------------------------
(* Privileges.  One request at a time, and no account from the environment *)
(* after the first start: what a request may write still follows from the  *)
(* roles of whoever made it.                                               *)

Authority(op, n, row, actor) ==
    /\ op # "create" /\ IsAdmin(n) => n = actor \/ IsAdmin(actor)
    /\ op = "create" => row.roles = {} \/ IsAdmin(actor)
    /\ op = "roles" => row.roles = users[n].roles \/ IsAdmin(actor)

WithAuthority ==
    \A h \in Handlers :
        handler[h].pc = "commit" =>
            Authority(handler[h].op, handler[h].name, handler[h].row, Actor(h))

LEMMA ActHasAuthority ==
  ASSUME TypeOK, NEW h \in Handlers, Act(h)
  PROVE  \E op, n, row : Plan(h, op, n, row) /\ Authority(op, n, row, Actor(h))
<1>1. ASSUME NEW p \in Passwords, OwnPassword(h, p)
      PROVE  \E op, n, row : Plan(h, op, n, row) /\ Authority(op, n, row, Actor(h))
  BY <1>1 DEF OwnPassword, Authority
<1>2. ASSUME NEW n \in Names, NEW op \in {"reset", "disable", "enable", "delete"}, NEW row,
             Plan(h, op, n, row), MayManage(h, n)
      PROVE  \E o, m, r : Plan(h, o, m, r) /\ Authority(o, m, r, Actor(h))
  BY <1>2 DEF MayManage, Authority
<1>3. ASSUME NEW n \in Names,
             \/ \E p \in Passwords : UserReset(h, n, p)
             \/ UserDisable(h, n) \/ UserEnable(h, n) \/ UserDelete(h, n)
      PROVE  \E op, m, row : Plan(h, op, m, row) /\ Authority(op, m, row, Actor(h))
  BY <1>2, <1>3 DEF UserReset, UserDisable, UserEnable, UserDelete
<1>4. ASSUME NEW n \in Names, NEW p \in Passwords, NEW rs \in Selections, UserCreate(h, n, p, rs)
      PROVE  \E op, m, row : Plan(h, op, m, row) /\ Authority(op, m, row, Actor(h))
  BY <1>4 DEF UserCreate, Authority, New
<1>5. ASSUME NEW n \in Names, NEW rs \in Selections, UserRoles(h, n, rs)
      PROVE  \E op, m, row : Plan(h, op, m, row) /\ Authority(op, m, row, Actor(h))
  <2> DEFINE row == Bumped([users[n] EXCEPT !.roles = rs])
  <2>1. users[n] \in UserRow
    BY <1>5, RowOfExisting DEF UserRoles
  <2>2. row.roles = rs
    BY <2>1 DEF Bumped, UserRow
  <2>3. Plan(h, "roles", n, row) /\ MayManage(h, n) /\ (IsAdmin(Actor(h)) \/ rs = users[n].roles)
    BY <1>5 DEF UserRoles
  <2> HIDE DEF row
  <2>4. QED
    BY <2>2, <2>3 DEF Authority, MayManage
<1>6. QED
  BY <1>1, <1>3, <1>4, <1>5 DEF Act

LEMMA AuthorityFrame ==
  ASSUME WithAuthority, UNCHANGED users,
         \A h \in Handlers : handler'[h] = handler[h] \/ handler'[h].pc # "commit"
  PROVE  WithAuthority'
BY DEF WithAuthority, Authority, Actor, IsAdmin, Exists

LEMMA StepKeepsAuthority ==
  ASSUME OneHandler, ~NamesReused
  PROVE  TypeOK /\ WithAuthority /\ [Next]_vars => WithAuthority'
<1> SUFFICES ASSUME TypeOK, WithAuthority, [Next]_vars PROVE WithAuthority'
  OBVIOUS
<1>1. CASE \/ UNCHANGED vars
           \/ \E b \in Logins :
                (\E n \in Names, p \in Passwords : LoginRead(b, n, p)) \/ LoginAnswer(b)
  BY <1>1, AuthorityFrame DEF vars, LoginRead, LoginAnswer
<1>2. ASSUME NEW h \in Handlers, NEW c \in cookies, Authenticate(h, c)
      PROVE  WithAuthority'
  <2>1. UNCHANGED users /\ \A g \in Handlers : handler'[g].pc # "commit"
    BY <1>2 DEF Authenticate, TypeOK, OneHandler
  <2>2. QED
    BY <2>1, AuthorityFrame
<1>3. ASSUME NEW h \in Handlers, Act(h)
      PROVE  WithAuthority'
  <2>1. PICK op, n, row : Plan(h, op, n, row) /\ Authority(op, n, row, Actor(h))
    BY <1>3, ActHasAuthority
  <2> DEFINE req == [pc |-> "commit", as |-> handler[h].as, roles |-> handler[h].roles,
                     op |-> op, name |-> n, row |-> row]
  <2>2. /\ handler' = [handler EXCEPT ![h] = req] /\ UNCHANGED users
        /\ req.as = handler[h].as /\ req.op = op /\ req.name = n /\ req.row = row
    BY <2>1 DEF Plan
  <2> HIDE DEF req
  <2>3. \A g \in Handlers : g = h /\ handler'[g] = req
    BY <2>2 DEF TypeOK, OneHandler
  <2>4. QED
    BY <2>1, <2>2, <2>3 DEF WithAuthority, Authority, Actor, IsAdmin, Exists
<1>4. ASSUME NEW h \in Handlers, Commit(h)
      PROVE  WithAuthority'
  <2>1. \A g \in Handlers : g = h /\ handler'[g].pc \in {"idle", "answer"}
    BY <1>4 DEF Commit, TypeOK, Idle, OneHandler
  <2>2. QED
    BY <2>1 DEF WithAuthority
<1>5. ASSUME NEW h \in Handlers, Answer(h)
      PROVE  WithAuthority'
  <2>1. UNCHANGED users /\ \A g \in Handlers : handler'[g] = handler[g] \/ handler'[g].pc = "idle"
    BY <1>5 DEF Answer, TypeOK, Idle
  <2>2. QED
    BY <2>1, AuthorityFrame
<1>6. CASE Restart
  BY <1>6 DEF Restart, Idle, WithAuthority
<1>7. QED
  BY <1>1, <1>2, <1>3, <1>4, <1>5, <1>6 DEF Next

(* What a commit makes of the row it writes *)
LEMMA CommitHasAuthority ==
  ASSUME TypeOK, WithAuthority, NEW h \in Handlers, Commit(h), NEW n \in Names
  PROVE  LET before == IF Exists(n) THEN users[n].roles ELSE {}
             after == IF Exists(n)' THEN users'[n].roles ELSE before
         IN  /\ IsAdmin(n) /\ users'[n] # users[n] => Actor(h) = n \/ IsAdmin(Actor(h))
             /\ before # after => IsAdmin(Actor(h))
<1> DEFINE req == handler[h]
           before == IF Exists(n) THEN users[n].roles ELSE {}
           after == IF Exists(n)' THEN users'[n].roles ELSE before
<1>1. /\ req.op \in Ops /\ req.name \in Names /\ req.row \in UserRow
      /\ Authority(req.op, req.name, req.row, Actor(h))
      /\ users \in [Names -> {NoRow} \cup UserRow]
  BY FieldsOfRequest DEF Commit, WithAuthority, TypeOK
<1>2. CASE users'[n] = users[n]
  BY <1>2 DEF Exists
<1>3. CASE users'[n] # users[n]
  <2>1. Fits(req) /\ req.name = n /\ users'[n] = Columns(req.op, users[n], req.row)
    BY <1>1, <1>3 DEF Commit, Written
  <2>2. IsAdmin(n) => Actor(h) = n \/ IsAdmin(Actor(h))
    BY <1>1, <2>1 DEF Authority, Fits, IsAdmin
  <2>3. CASE req.op = "create"
    <3>1. ~Exists(n) /\ users'[n] = req.row
      BY <2>1, <2>3 DEF Fits, Columns, Exists
    <3>2. before = {} /\ after \in {before, req.row.roles}
      BY <3>1
    <3>3. QED
      BY <1>1, <2>2, <2>3, <3>2 DEF Authority
  <2>4. CASE req.op = "delete"
    <3>1. ~Exists(n)'
      BY <2>1, <2>4 DEF Columns, Exists
    <3>2. QED
      BY <2>2, <3>1
  <2>5. CASE req.op \in {"own", "reset", "disable", "enable", "roles"}
    <3>1. Exists(n) /\ users[n] \in UserRow
      BY <1>1, <2>1, <2>5 DEF Fits, Exists
    <3>2. users'[n].roles = users[n].roles \/ (req.op = "roles" /\ users'[n].roles = req.row.roles)
      BY <1>1, <2>1, <2>5, <3>1 DEF Columns, UserRow
    <3>3. QED
      BY <1>1, <2>1, <2>2, <3>1, <3>2 DEF Authority
  <2>6. QED
    BY <1>1, <2>3, <2>4, <2>5 DEF Ops
<1>4. QED
  BY <1>2, <1>3

(* "Only a global admin can manage another global admin account", one      *)
(* account request at a time and with no name given again, whatever logins *)
(* and restarts overlap it.                                                *)
THEOREM AdminsNeedAdmins ==
  ASSUME OneHandler, ~NamesReused
  PROVE  Spec => PrivilegesNeedAdmin
<1>1. Init => WithAuthority
  BY DEF Init, Idle, WithAuthority
<1>2. TypeOK /\ WithAuthority /\ [Next]_vars => WithAuthority'
  BY StepKeepsAuthority
<1>3. TypeOK /\ WithAuthority /\ [Next]_vars =>
        [\A n \in Names :
           LET before == IF Exists(n) THEN users[n].roles ELSE {}
               after == IF Exists(n)' THEN users'[n].roles ELSE before
               Writing(h) == handler[h].pc = "commit"
           IN  /\ IsAdmin(n) /\ users'[n] # users[n] =>
                    \E h \in Handlers : Writing(h) /\ (Actor(h) = n \/ IsAdmin(Actor(h)))
               /\ before # after => \E h \in Handlers : Writing(h) /\ IsAdmin(Actor(h))]_vars
  <2> SUFFICES ASSUME TypeOK, WithAuthority, Next, NEW n \in Names
               PROVE  LET before == IF Exists(n) THEN users[n].roles ELSE {}
                          after == IF Exists(n)' THEN users'[n].roles ELSE before
                          Writing(h) == handler[h].pc = "commit"
                      IN  /\ IsAdmin(n) /\ users'[n] # users[n] =>
                               \E h \in Handlers :
                                  Writing(h) /\ (Actor(h) = n \/ IsAdmin(Actor(h)))
                          /\ before # after =>
                               \E h \in Handlers : Writing(h) /\ IsAdmin(Actor(h))
    OBVIOUS
  <2>1. ASSUME NEW h \in Handlers, Commit(h)
        PROVE  /\ handler[h].pc = "commit"
               /\ LET before == IF Exists(n) THEN users[n].roles ELSE {}
                      after == IF Exists(n)' THEN users'[n].roles ELSE before
                  IN  /\ IsAdmin(n) /\ users'[n] # users[n] =>
                           Actor(h) = n \/ IsAdmin(Actor(h))
                      /\ before # after => IsAdmin(Actor(h))
    BY <2>1, CommitHasAuthority DEF Commit
  <2>2. CASE \E h \in Handlers : Commit(h)
    BY <2>1, <2>2
  <2>3. CASE \A h \in Handlers : ~Commit(h)
    <3>1. ASSUME NEW h \in Handlers, Act(h)
          PROVE  UNCHANGED users
      BY <3>1, ActHasAuthority DEF Plan
    <3>2. UNCHANGED users
      BY <2>3, <3>1 DEF Next, LoginRead, LoginAnswer, Authenticate, Answer, Restart, Booted
    <3>3. QED
      BY <3>2 DEF Exists
  <2>4. QED
    BY <2>2, <2>3
<1>4. QED
  BY <1>1, <1>2, <1>3, InitIsTyped, StepIsTyped, PTL DEF Spec, PrivilegesNeedAdmin
=============================================================================
