------------------------------- MODULE Accounts -------------------------------
(***************************************************************************)
(* User accounts and browser sessions.  A session is a signed cookie with  *)
(* the name and the session_version of the account; it is good as long as  *)
(* the row still has that version.  Account handlers authenticate, read    *)
(* the row they change with the rows their guards need, and commit; a      *)
(* password is hashed between the two.  Logins read a row, verify the      *)
(* password, and answer with a cookie of the version they read.            *)
(*                                                                         *)
(* Roles: "admin" is global.admin and brings all the others; "update" and  *)
(* "reset" are account.update and account.reset_password; the roles that   *)
(* an account administrator may grant are left out.                        *)
(***************************************************************************)
EXTENDS Naturals, FiniteSets

CONSTANTS
    Names,       \* user names
    Handlers,    \* account requests that may be in flight together
    Logins,      \* logins that may be in flight together
    Passwords,
    MaxVersion,  \* bound on session_version
    AdminUser,   \* the name in the environment, whose account a start creates
    NamesReused, \* whether a deleted account's name may be given again
    NoRow        \* the value of a missing row

Roles == {"admin", "update", "reset"}
RoleSets == {Roles} \cup SUBSET (Roles \ {"admin"})
Versions == 0..MaxVersion

UserRow == [pw: Passwords, roles: RoleSets, disabled: BOOLEAN, version: Versions]
Cookie == [name: Names, version: Versions]

ASSUME AccountsAssumption ==
    /\ AdminUser \in Names /\ Passwords # {}
    /\ MaxVersion \in Nat
    /\ NamesReused \in BOOLEAN
    /\ NoRow \notin UserRow

VARIABLES
    users,    \* users[n]: the row of n
    cookies,  \* the cookies that browsers hold
    handler,  \* handler[h]: the request, and the row it has read
    login,    \* login[b]: the cookie that will be the answer
    ended,    \* cookies issued before a change that revokes them (never read)
    used      \* names an account was created under

vars == <<users, cookies, handler, login, ended, used>>

Ops == {"own", "create", "disable", "enable", "delete", "reset", "roles"}
Idle == [pc |-> "idle"]
Handler ==
    [pc: {"idle"}]
        \cup [pc: {"act", "answer"}, as: Cookie, roles: RoleSets]
        \cup [pc: {"commit"}, as: Cookie, roles: RoleSets, op: Ops, name: Names,
              row: UserRow]

TypeOK ==
    /\ users \in [Names -> {NoRow} \cup UserRow]
    /\ cookies \subseteq Cookie
    /\ handler \in [Handlers -> Handler]
    /\ login \in [Logins -> {NoRow} \cup Cookie]
    /\ ended \subseteq Cookie
    /\ used \subseteq Names

Exists(n) == users[n] # NoRow
Enabled(n) == Exists(n) /\ ~users[n].disabled
(* user_is_global_admin: a row that is gone has no roles. *)
IsAdmin(n) == Exists(n) /\ "admin" \in users[n].roles
(* load_current_user *)
Valid(c) == Enabled(c.name) /\ users[c.name].version = c.version

SelectionsRaw == SUBSET Roles     \* fault: what the form sends is stored

(* What normalize_selected_roles makes of any choice. *)
Selections == RoleSets

Bound == \A n \in Names : Exists(n) => users[n].version < MaxVersion

New(p, rs) == [pw |-> p, roles |-> rs, disabled |-> FALSE, version |-> 0]

(* _startup_init: ADMIN_USER gets a row if it is set and has none. *)
Booted ==
    IF NamesReused /\ ~Exists(AdminUser)
    THEN {users} \cup {[users EXCEPT ![AdminUser] = New(p, Roles)] : p \in Passwords}
    ELSE {users}

(* After the first start. *)
Init ==
    /\ \E p \in Passwords :
          users = [n \in Names |-> IF n = AdminUser THEN New(p, Roles) ELSE NoRow]
    /\ used = {AdminUser}
    /\ cookies = {}
    /\ handler = [h \in Handlers |-> Idle]
    /\ login = [b \in Logins |-> NoRow]
    /\ ended = {}
-----------------------------------------------------------------------------
(* Logins *)

(* The password is verified against the row as it was read. *)
LoginRead(b, n, p) ==
    /\ login[b] = NoRow
    /\ Enabled(n) /\ users[n].pw = p
    /\ login' = [login EXCEPT ![b] = [name |-> n, version |-> users[n].version]]
    /\ UNCHANGED <<users, cookies, handler, ended, used>>

LoginAnswer(b) ==
    /\ login[b] # NoRow
    /\ cookies' = cookies \cup {login[b]}
    /\ login' = [login EXCEPT ![b] = NoRow]
    /\ UNCHANGED <<users, handler, ended, used>>
-----------------------------------------------------------------------------
(* Account requests *)

(* require_role caches the roles of the row on the request. *)
Authenticate(h, c) ==
    /\ handler[h] = Idle
    /\ c \in cookies /\ Valid(c)
    /\ handler' = [handler EXCEPT ![h] = [pc |-> "act", as |-> c,
                                          roles |-> users[c.name].roles]]
    /\ UNCHANGED <<users, cookies, login, ended, used>>

(* What a handler will write, once it has passed its guards. *)
Plan(h, op, n, row) ==
    /\ handler' = [handler EXCEPT ![h] = [pc |-> "commit", as |-> @.as,
                                          roles |-> @.roles, op |-> op, name |-> n,
                                          row |-> row]]
    /\ UNCHANGED <<users, cookies, login, ended, used>>

Acting(h, role) == handler[h].pc = "act" /\ role \in handler[h].roles
Actor(h) == handler[h].as.name
(* global_admin_guard_message *)
MayManage(h, n) == IsAdmin(n) => IsAdmin(Actor(h))
(* bump_session_version, on the row as it was read *)
Bumped(row) == [row EXCEPT !.version = @ + 1]

(* settings_self_password_change: the current password is the guard. *)
OwnPassword(h, p) ==
    LET n == Actor(h) IN
    /\ handler[h].pc = "act"
    /\ Exists(n) /\ Bound
    /\ Plan(h, "own", n, Bumped([users[n] EXCEPT !.pw = p]))

UserCreate(h, n, p, rs) ==
    /\ Acting(h, "update")
    /\ IsAdmin(Actor(h)) \/ rs = {}     \* validate_role_assignment
    /\ ~Exists(n)
    /\ NamesReused \/ n \notin used
    /\ Plan(h, "create", n, New(p, rs))

UserDisableSelf(h, n) ==     \* fault: administrators may disable themselves
    /\ Acting(h, "update")
    /\ Exists(n) /\ MayManage(h, n) /\ Bound
    /\ Enabled(n)
    /\ Cardinality({m \in Names : Enabled(m)}) > 1
    /\ Plan(h, "disable", n, Bumped([users[n] EXCEPT !.disabled = TRUE]))

UserDisable(h, n) ==
    /\ Acting(h, "update")
    /\ Exists(n) /\ MayManage(h, n) /\ Bound
    /\ Enabled(n)
    /\ Cardinality({m \in Names : Enabled(m)}) > 1
    /\ n # Actor(h)
    /\ Plan(h, "disable", n, Bumped([users[n] EXCEPT !.disabled = TRUE]))

UserEnable(h, n) ==
    /\ Acting(h, "update")
    /\ Exists(n) /\ MayManage(h, n)
    /\ users[n].disabled
    /\ Plan(h, "enable", n, [users[n] EXCEPT !.disabled = FALSE])

UserDelete(h, n) ==
    /\ Acting(h, "update")
    /\ Exists(n) /\ MayManage(h, n)
    /\ Cardinality({m \in Names : Exists(m)}) > 1
    /\ n # Actor(h)
    /\ users[n].disabled
    /\ Plan(h, "delete", n, users[n])

UserResetUnguarded(h, n, p) ==     \* fault: global_admin_guard_message is left out
    /\ Acting(h, "reset")
    /\ Exists(n) /\ Bound
    /\ Enabled(n)
    /\ Plan(h, "reset", n, Bumped([users[n] EXCEPT !.pw = p]))

UserReset(h, n, p) ==
    /\ Acting(h, "reset")
    /\ Exists(n) /\ MayManage(h, n) /\ Bound
    /\ Enabled(n)
    /\ Plan(h, "reset", n, Bumped([users[n] EXCEPT !.pw = p]))

UserRolesUnbumped(h, n, rs) ==     \* fault: sessions survive a change of roles
    /\ Acting(h, "update")
    /\ Exists(n) /\ MayManage(h, n)
    /\ n # Actor(h)
    /\ IsAdmin(Actor(h)) \/ rs = users[n].roles
    /\ Enabled(n)
    /\ Plan(h, "roles", n, [users[n] EXCEPT !.roles = rs])

(* An account administrator may neither grant nor remove these roles. *)
UserRoles(h, n, rs) ==
    /\ Acting(h, "update")
    /\ Exists(n) /\ MayManage(h, n) /\ Bound
    /\ n # Actor(h)
    /\ IsAdmin(Actor(h)) \/ rs = users[n].roles
    /\ Enabled(n)
    /\ Plan(h, "roles", n, Bumped([users[n] EXCEPT !.roles = rs]))

Act(h) ==
    \/ \E p \in Passwords : OwnPassword(h, p)
    \/ \E n \in Names :
          \/ \E p \in Passwords : UserReset(h, n, p)
          \/ \E p \in Passwords, rs \in Selections : UserCreate(h, n, p, rs)
          \/ UserDisable(h, n) \/ UserEnable(h, n) \/ UserDelete(h, n)
          \/ \E rs \in Selections : UserRoles(h, n, rs)
-----------------------------------------------------------------------------
(* The session writes the columns that its object has changed, with the    *)
(* values that follow from the row as it was read.                         *)
Columns(op, old, new) ==
    CASE op \in {"own", "reset"} -> [old EXCEPT !.pw = new.pw, !.version = new.version]
      [] op = "disable" -> [old EXCEPT !.disabled = TRUE, !.version = new.version]
      [] op = "enable" -> [old EXCEPT !.disabled = FALSE]
      [] op = "roles" -> [old EXCEPT !.roles = new.roles, !.version = new.version]
      [] op = "create" -> new
      [] op = "delete" -> NoRow

Revoking == {"own", "reset", "disable", "roles"}
SessionsOf(n) == {c \in cookies \cup {login[b] : b \in Logins} : c # NoRow /\ c.name = n}

(* Otherwise there is no row to update, or the name is taken: 500. *)
Fits(req) == Exists(req.name) # (req.op = "create")

Written(req) ==
    IF Fits(req)
    THEN /\ users' = [users EXCEPT ![req.name] = Columns(req.op, @, req.row)]
         /\ used' = used \cup {req.name}
         /\ ended' = IF req.op \in Revoking THEN ended \cup SessionsOf(req.name) ELSE ended
    ELSE UNCHANGED <<users, used, ended>>

(* A change of the own password goes on with the new version. *)
Commit(h) ==
    LET req == handler[h]
        as == IF req.op = "own" THEN [name |-> req.name, version |-> req.row.version] ELSE req.as
    IN
    /\ req.pc = "commit"
    /\ Written(req)
    /\ handler' = [handler EXCEPT ![h] = IF Fits(req)
                                         THEN [pc |-> "answer", as |-> as, roles |-> @.roles]
                                         ELSE Idle]
    /\ UNCHANGED <<cookies, login>>

(* refresh_session_cookie: every answer below 400 renews the cookie with   *)
(* the version of the request; a guard that refuses answers 200 as well.   *)
Answer(h) ==
    /\ handler[h].pc \in {"act", "answer"}
    /\ cookies' = cookies \cup {handler[h].as}
    /\ handler' = [handler EXCEPT ![h] = Idle]
    /\ UNCHANGED <<users, login, ended, used>>

(* The process ends and starts; rows and browsers stay. *)
Restart ==
    /\ users' \in Booted
    /\ handler' = [h \in Handlers |-> Idle]
    /\ login' = [b \in Logins |-> NoRow]
    /\ UNCHANGED <<cookies, ended, used>>

Next ==
    \/ \E b \in Logins :
          (\E n \in Names, p \in Passwords : LoginRead(b, n, p)) \/ LoginAnswer(b)
    \/ \E h \in Handlers :
          \/ \E c \in cookies : Authenticate(h, c)
          \/ Act(h) \/ Commit(h) \/ Answer(h)
    \/ Restart

Spec == Init /\ [][Next]_vars
-----------------------------------------------------------------------------
(* "other sessions revoked on password change/reset, disable, and role     *)
(* changes": a cookie issued before such a change, or about to be issued   *)
(* by a login that overlaps it, is never good again.                       *)
RevokedSessionsEnd == \A c \in ended : ~Valid(c)

(* Someone can always manage every account: disabling, demoting and        *)
(* deleting leave an enabled global administrator.                         *)
AdminRemains == \E n \in Names : Enabled(n) /\ IsAdmin(n)

(* "Only a global admin can manage another global admin account": whatever *)
(* the row of one becomes, its owner or a global admin wrote it; and no    *)
(* account is given or loses a role that only a global admin can grant     *)
(* unless one wrote it.                                                    *)
PrivilegesNeedAdmin ==
    [][\A n \in Names :
         LET before == IF Exists(n) THEN users[n].roles ELSE {}
             after == IF Exists(n)' THEN users'[n].roles ELSE before
             Writing(h) == handler[h].pc = "commit"
         IN  /\ IsAdmin(n) /\ users'[n] # users[n] =>
                  \E h \in Handlers : Writing(h) /\ (Actor(h) = n \/ IsAdmin(Actor(h)))
             /\ before # after => \E h \in Handlers : Writing(h) /\ IsAdmin(Actor(h))]_vars
=============================================================================
