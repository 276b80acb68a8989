------------------------------ MODULE Sessions ------------------------------
(***************************************************************************)
(* The accounts and sessions of user-service: the rows of users and        *)
(* refresh_tokens, and the requests that register, log in, rotate a        *)
(* refresh token, log out, change a password, block and close an account.  *)
(*                                                                         *)
(* A request reads its rows without locks and writes later, by id, what it *)
(* concluded from them; req[h] is what the request in handler h has read.  *)
(* Statements of one transaction take effect at its commit.  A token that  *)
(* has expired is refused without a write, like a request not made.        *)
(***************************************************************************)
EXTENDS Integers, FiniteSets

CONSTANTS
  Users,        \* rows of users
  Email,        \* the address each row registers with
  TokenIds,     \* rows of refresh_tokens, in the order they are issued
  Handlers,     \* requests served at the same time
  MaxFailures,  \* login_max_failures
  NoUser,       \* in the place of a user
  MaxAccounts   \* bound: rows of users that are inserted

ASSUME SessionAssumption ==
  /\ TokenIds \subseteq Nat \ {0}
  /\ MaxFailures \in Nat \ {0}
  /\ NoUser \notin Users

VARIABLES
  user,       \* user[u]: the row of u
  token,      \* token[t]: the refresh token
  announced,  \* users with a user.registered row in the outbox
  req,        \* req[h]: the request in handler h, after its reads
  forked      \* families in which a token was rotated that was not ACTIVE any more

sessVars == <<user, token, announced, req, forked>>

UserStatus == {"NONE", "ACTIVE", "DISABLED", "DELETED"}
Blocked == {"DISABLED", "DELETED"}

\* closed stands for deleted_at; locked for locked_until > now; failed stops
\* counting at MaxFailures, where it only is compared any more.
UserRow == [status : UserStatus, closed : BOOLEAN, failed : 0..MaxFailures, locked : BOOLEAN]

\* Two fields are history: swept, a revocation of all sessions of the user came
\* after the token's commit, and late, one came between the reads of the request
\* that issued it and its commit.
TokenRow ==
  [status : {"NONE", "ACTIVE", "USED", "REVOKED"}, user : Users \cup {NoUser},
   family : TokenIds \cup {0}, swept : BOOLEAN, late : BOOLEAN]
NoToken == [status |-> "NONE", user |-> NoUser, family |-> 0,
            swept |-> FALSE, late |-> FALSE]

NewUser == [status |-> "ACTIVE", closed |-> FALSE, failed |-> 0, locked |-> FALSE]

Ops == {"register", "login", "loginFailed", "refreshRow", "refresh", "logout",
        "disable", "enable", "close"}
\* seen is what the request has read of the login lock, if it may write it;
\* overtaken is history, see late.
Lock == [failed : 0..MaxFailures, locked : BOOLEAN]
Request == [op : Ops, user : Users, token : TokenIds \cup {0}, seen : Lock, overtaken : BOOLEAN]
Idle == [op |-> "idle"]

SessInit ==
  /\ user = [u \in Users |-> [NewUser EXCEPT !.status = "NONE"]]
  /\ token = [t \in TokenIds |-> NoToken]
  /\ announced = {}
  /\ req = [h \in Handlers |-> Idle]
  /\ forked = {}

-----------------------------------------------------------------------------
LockOf(op, u) ==
  IF op \in {"login", "loginFailed", "enable", "close"}
  THEN [failed |-> user[u].failed, locked |-> user[u].locked]
  ELSE [failed |-> 0, locked |-> FALSE]

Begin(h, op, u, t) ==
  /\ req[h] = Idle
  /\ req' = [req EXCEPT ![h] =
       [op |-> op, user |-> u, token |-> t, seen |-> LockOf(op, u), overtaken |-> FALSE]]

End(h) == req' = [req EXCEPT ![h] = Idle]

Fresh(t) == token[t].status = "NONE" /\ \A s \in TokenIds : s < t => token[s].status # "NONE"

\* A new row for the user of request r in family f.
Issued(r, f) ==
  [status |-> "ACTIVE", user |-> r.user, family |-> f,
   swept |-> FALSE, late |-> r.overtaken]

\* revoke_refresh_tokens_by_user, as the other transactions see it.
Revoke(row) == IF row.status = "ACTIVE" THEN [row EXCEPT !.status = "REVOKED"] ELSE row

\* Variant: a token that came out of a refresh is not looked for.
SweepFirst(u) ==
  [t \in TokenIds |->
     IF token[t].user = u
     THEN [(IF token[t].family = t THEN Revoke(token[t]) ELSE token[t]) EXCEPT !.swept = TRUE]
     ELSE token[t]]

Sweep(u) ==
  [t \in TokenIds |-> IF token[t].user = u THEN [Revoke(token[t]) EXCEPT !.swept = TRUE]
                      ELSE token[t]]

\* The requests of u that are under way were overtaken by a sweep; h, if any,
\* is the one that swept and ends.
Overtaken(u, h) ==
  req' = [g \in Handlers |->
            IF g = h THEN Idle
            ELSE IF req[g] # Idle /\ req[g].user = u THEN [req[g] EXCEPT !.overtaken = TRUE]
            ELSE req[g]]

-----------------------------------------------------------------------------
(***************************************************************************)
(* register: two SELECTs find no other account with the address, then the  *)
(* row is inserted under the partial unique index on live rows, with its   *)
(* event and a first pair of tokens.                                       *)
(***************************************************************************)
HoldsEmail(v, u) == Email[v] = Email[u] /\ user[v].status # "NONE" /\ ~user[v].closed

RegisterRead(h, u) ==
  /\ user[u].status = "NONE"
  /\ \A v \in Users : ~HoldsEmail(v, u)
  /\ \A g \in Handlers : req[g] # Idle => req[g].user # u
  /\ Begin(h, "register", u, 0)
  /\ UNCHANGED <<user, token, announced, forked>>

RegisterWrite(h, t) ==
  /\ req[h] # Idle /\ req[h].op = "register"
  /\ LET u == req[h].user IN
     /\ \A v \in Users : ~HoldsEmail(v, u)
     /\ Cardinality(announced) < MaxAccounts
     /\ Fresh(t)
     /\ user' = [user EXCEPT ![u] = NewUser]
     /\ token' = [token EXCEPT ![t] = Issued(req[h], t)]
     /\ announced' = announced \cup {u}
  /\ End(h)
  /\ UNCHANGED forked

\* The index refuses the second of two registrations.
RegisterFails(h) ==
  /\ req[h] # Idle /\ req[h].op = "register"
  /\ \E v \in Users : HoldsEmail(v, req[h].user)
  /\ End(h)
  /\ UNCHANGED <<user, token, announced, forked>>

(***************************************************************************)
(* login: the user and the credential are read and the password compared.  *)
(* The session writes the columns it changed, so a reset that finds        *)
(* nothing to reset in the row it read leaves the row's columns alone.     *)
(***************************************************************************)
LoginRead(h, u) ==
  /\ user[u].status \notin Blocked \cup {"NONE"} /\ ~user[u].locked
  /\ \E op \in {"login", "loginFailed"} : Begin(h, op, u, 0)
  /\ UNCHANGED <<user, token, announced, forked>>

LoginFails(h) ==
  /\ req[h] # Idle /\ req[h].op = "loginFailed"
  /\ LET u == req[h].user
         n == IF req[h].seen.failed = MaxFailures THEN MaxFailures ELSE req[h].seen.failed + 1
     IN  user' = [user EXCEPT ![u].failed = n, ![u].locked = @ \/ n = MaxFailures]
  /\ End(h)
  /\ UNCHANGED <<token, announced, forked>>

\* Row x after a request that saw the row as seen has cleared the login lock.
Unlocked(x, seen) ==
  [x EXCEPT !.failed = IF seen.failed = 0 THEN x.failed ELSE 0,
            !.locked = x.locked /\ ~seen.locked]

LoginSucceeds(h, t) ==
  /\ req[h] # Idle /\ req[h].op = "login"
  /\ Fresh(t)
  /\ LET u == req[h].user IN
     /\ user' = [user EXCEPT ![u] = Unlocked(user[u], req[h].seen)]
     /\ token' = [token EXCEPT ![t] = Issued(req[h], t)]
  /\ End(h)
  /\ UNCHANGED <<announced, forked>>

-----------------------------------------------------------------------------
(***************************************************************************)
(* refresh: the token is read, then its user, then the token is marked     *)
(* USED by its id and a new one of the family inserted.  A token that was  *)
(* read USED ends all sessions of the user.                                *)
(***************************************************************************)
Replay(t) ==
  /\ token[t].status = "USED"
  /\ token' = Sweep(token[t].user)
  /\ Overtaken(token[t].user, "none")
  /\ UNCHANGED <<user, announced, forked>>

RefreshRow(h, t) ==
  /\ token[t].status = "ACTIVE"
  /\ Begin(h, "refreshRow", token[t].user, t)
  /\ UNCHANGED <<user, token, announced, forked>>

\* Variant: the account is not looked at.
RefreshAnyUser(h) ==
  /\ req[h] # Idle /\ req[h].op = "refreshRow"
  /\ req' = [req EXCEPT ![h].op = "refresh", ![h].overtaken = FALSE]
  /\ UNCHANGED <<user, token, announced, forked>>

RefreshUser(h) ==
  /\ req[h] # Idle /\ req[h].op = "refreshRow"
  /\ LET u == req[h].user
         f == token[req[h].token].family
     IN  IF user[u].status \in Blocked
         THEN /\ token' = [t \in TokenIds |->
                             IF token[t].family = f THEN Revoke(token[t]) ELSE token[t]]
              /\ End(h)
         ELSE /\ req' = [req EXCEPT ![h].op = "refresh", ![h].overtaken = FALSE]
              /\ UNCHANGED token
  /\ UNCHANGED <<user, announced, forked>>

\* Variant: the old token is not marked as used.
RefreshKeepsOld(h, t) ==
  /\ req[h] # Idle /\ req[h].op = "refresh"
  /\ Fresh(t)
  /\ token' = [token EXCEPT ![t] = Issued(req[h], token[req[h].token].family)]
  /\ End(h)
  /\ UNCHANGED <<user, announced, forked>>

RefreshWrite(h, t) ==
  /\ req[h] # Idle /\ req[h].op = "refresh"
  /\ Fresh(t)
  /\ LET old == req[h].token
         f   == token[old].family
     IN  /\ token' = [token EXCEPT ![old].status = "USED", ![t] = Issued(req[h], f)]
         /\ forked' = IF token[old].status = "ACTIVE" THEN forked ELSE forked \cup {f}
  /\ End(h)
  /\ UNCHANGED <<user, announced>>

LogoutRead(h, t) ==
  /\ token[t].status = "ACTIVE"
  /\ Begin(h, "logout", token[t].user, t)
  /\ UNCHANGED <<user, token, announced, forked>>

LogoutWrite(h) ==
  /\ req[h] # Idle /\ req[h].op = "logout"
  /\ token' = [token EXCEPT ![req[h].token].status = "REVOKED"]
  /\ End(h)
  /\ UNCHANGED <<user, announced, forked>>

-----------------------------------------------------------------------------
\* The gateway checks the access token only, so a blocked user gets here too.
LogoutAll(u) ==
  /\ user[u].status # "NONE"
  /\ token' = Sweep(u)
  /\ Overtaken(u, "none")
  /\ UNCHANGED <<user, announced, forked>>

\* With the right current password.  The new one is committed with the end of
\* all sessions, the one the user is in included.
ChangePassword(u) ==
  /\ user[u].status # "NONE"
  /\ token' = Sweep(u)
  /\ Overtaken(u, "none")
  /\ UNCHANGED <<user, announced, forked>>

(***************************************************************************)
(* set_status by an administrator: any status may follow any other, a      *)
(* closed account is enabled like a disabled one.                          *)
(***************************************************************************)
SetStatusRead(h, u) ==
  /\ \/ user[u].status \in {"ACTIVE", "DELETED"} /\ Begin(h, "disable", u, 0)
     \/ user[u].status \in Blocked /\ Begin(h, "enable", u, 0)
  /\ UNCHANGED <<user, token, announced, forked>>

Disable(h) ==
  /\ req[h] # Idle /\ req[h].op = "disable"
  /\ LET u == req[h].user IN
     /\ user' = [user EXCEPT ![u].status = "DISABLED"]
     /\ token' = Sweep(u)
     /\ Overtaken(u, h)
  /\ UNCHANGED <<announced, forked>>

Enable(h) ==
  /\ req[h] # Idle /\ req[h].op = "enable"
  /\ LET u == req[h].user IN
     user' = [user EXCEPT ![u] = [Unlocked(user[u], req[h].seen) EXCEPT !.status = "ACTIVE"]]
  /\ End(h)
  /\ UNCHANGED <<token, announced, forked>>

\* close_account; what it does to the addresses is in module Addresses.
CloseRead(h, u) ==
  /\ user[u].status \notin {"NONE", "DELETED"}
  /\ Begin(h, "close", u, 0)
  /\ UNCHANGED <<user, token, announced, forked>>

CloseWrite(h) ==
  /\ req[h] # Idle /\ req[h].op = "close"
  /\ LET u == req[h].user IN
     /\ user' = [user EXCEPT ![u] =
                   [Unlocked(user[u], req[h].seen) EXCEPT !.status = "DELETED", !.closed = TRUE]]
     /\ token' = Sweep(u)
     /\ Overtaken(u, h)
  /\ UNCHANGED <<announced, forked>>

-----------------------------------------------------------------------------
\* Time passes locked_until.
LockExpires(u) ==
  /\ user[u].locked
  /\ user' = [user EXCEPT ![u].locked = FALSE]
  /\ UNCHANGED <<token, announced, req, forked>>

SessNext ==
  \/ \E h \in Handlers, u \in Users :
       RegisterRead(h, u) \/ LoginRead(h, u) \/ SetStatusRead(h, u) \/ CloseRead(h, u)
  \/ \E h \in Handlers, t \in TokenIds :
       RegisterWrite(h, t) \/ LoginSucceeds(h, t) \/ RefreshRow(h, t) \/ RefreshWrite(h, t)
       \/ LogoutRead(h, t)
  \/ \E h \in Handlers :
       RegisterFails(h) \/ LoginFails(h) \/ RefreshUser(h) \/ LogoutWrite(h)
       \/ Disable(h) \/ Enable(h) \/ CloseWrite(h)
  \/ \E t \in TokenIds : Replay(t)
  \/ \E u \in Users : LogoutAll(u) \/ ChangePassword(u) \/ LockExpires(u)

SessSpec == SessInit /\ [][SessNext]_sessVars
-----------------------------------------------------------------------------
\* The rows and requests have their types.
SessTypeOK ==
  /\ user \in [Users -> UserRow]
  /\ token \in [TokenIds -> TokenRow]
  /\ announced \in SUBSET Users
  /\ req \in [Handlers -> Request \cup {Idle}]
  /\ forked \in SUBSET (TokenIds \cup {0})

(***************************************************************************)
(* Ending all sessions ends them: after a logout everywhere, a password    *)
(* change, a block, a closed account or a replayed token, no token that    *)
(* had been issued before is ACTIVE again, whatever requests were under    *)
(* way with it.                                                            *)
(***************************************************************************)
SweptStaysOut == \A t \in TokenIds : token[t].swept => token[t].status # "ACTIVE"

(***************************************************************************)
(* A disabled or closed account has a refresh token that works only if a   *)
(* login or refresh had read the account before it was blocked and         *)
(* committed afterwards.                                                   *)
(***************************************************************************)
BlockedOnlyLate ==
  \A t \in TokenIds :
    token[t].status = "ACTIVE" /\ user[token[t].user].status \in Blocked => token[t].late

(***************************************************************************)
(* Rotation keeps one token of a login that works, unless a request        *)
(* rotated a token that another had used or revoked since it was read.     *)
(***************************************************************************)
OneActivePerFamily ==
  \A s, t \in TokenIds :
    /\ token[s].status = "ACTIVE" /\ token[t].status = "ACTIVE"
    /\ token[s].family = token[t].family /\ s # t
    => token[s].family \in forked
=============================================================================
