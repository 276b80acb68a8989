------------------------- MODULE UserServiceProofs --------------------------
(***************************************************************************)
(* What holds of user-service for any users, tokens, codes, addresses and  *)
(* requests: the sessions, the codes, the addresses, what they do in one   *)
(* service, and the tab that is logged in with it.                         *)
(***************************************************************************)
EXTENDS UserService, TLAPS, FiniteSetTheorems

-----------------------------------------------------------------------------
(***************************************************************************)
(*                              The sessions                               *)
(***************************************************************************)
\* A token row belongs to a user and to a family whose first token exists.
Owned ==
  \A t \in TokenIds :
    token[t].status # "NONE" =>
      /\ token[t].user \in Users
      /\ token[t].family \in TokenIds
      /\ token[token[t].family].status # "NONE"

\* A request about a token has read a row that exists.
ReadRow ==
  \A h \in Handlers :
    req[h] # Idle /\ req[h].op \in {"refreshRow", "refresh", "logout"} =>
      /\ req[h].token \in TokenIds
      /\ token[req[h].token].status # "NONE"

\* A request that may issue a token to a blocked account read it before the block.
LateRequests ==
  \A h \in Handlers :
    /\ req[h] # Idle /\ req[h].op \in {"login", "refresh"}
    /\ user[req[h].user].status \in Blocked
    => req[h].overtaken

RowInv == Owned /\ SweptStaysOut /\ OneActivePerFamily
LateInv == LateRequests /\ BlockedOnlyLate

(***************************************************************************)
(* The types hold by themselves except for the rows that requests and      *)
(* tokens refer to; the family of a new login must be new, which needs     *)
(* Owned; and a block catches the requests under way, which is             *)
(* LateRequests.                                                           *)
(***************************************************************************)
SessInv == SessTypeOK /\ ReadRow /\ RowInv /\ LateInv

\* Tokens only got weaker: the same rows, and none is ACTIVE that was not.
Weakened ==
  \A t \in TokenIds :
    /\ token'[t].user = token[t].user /\ token'[t].family = token[t].family
    /\ token'[t].status = "NONE" <=> token[t].status = "NONE"
    /\ token'[t].status = "ACTIVE" => token'[t] = token[t]

\* One row more, of the family f.
Extended(t, f, r) ==
  /\ Fresh(t)
  /\ token' = [token EXCEPT ![t] = Issued(r, f)]

USE DEF Idle
-----------------------------------------------------------------------------
LEMMA RequestOf ==
  ASSUME SessTypeOK, NEW h \in Handlers, req[h] # Idle
  PROVE  req[h] \in Request
  BY DEF SessTypeOK

LEMMA NoTokenTyped == NoToken \in TokenRow
  BY DEF NoToken, TokenRow

LEMMA BeginTyped ==
  ASSUME SessTypeOK, NEW h \in Handlers, NEW op \in Ops, NEW u \in Users,
         NEW t \in TokenIds \cup {0}, Begin(h, op, u, t)
  PROVE  /\ req' \in [Handlers -> Request \cup {Idle}]
         /\ req' = [req EXCEPT ![h] = req'[h]]
         /\ req'[h] \in Request
         /\ req'[h].op = op /\ req'[h].user = u /\ req'[h].token = t
         /\ req'[h] # Idle
  <1> DEFINE new == [op |-> op, user |-> u, token |-> t, seen |-> LockOf(op, u), overtaken |-> FALSE]
  <1>1. LockOf(op, u) \in Lock
    <2>1. user[u].failed \in 0..MaxFailures /\ user[u].locked \in BOOLEAN /\ 0 \in 0..MaxFailures
      BY SessionAssumption DEF SessTypeOK, UserRow
    <2> QED
      BY <2>1 DEF LockOf, Lock
  <1>2. new \in Request /\ new # Idle
    BY <1>1 DEF Request, Ops
  <1>3. req' = [req EXCEPT ![h] = new]
    BY DEF Begin
  <1> HIDE DEF new
  <1>4. req \in [Handlers -> Request \cup {Idle}]
    BY DEF SessTypeOK
  <1>5. req'[h] = new
    BY <1>3, <1>4
  <1>6. new.op = op /\ new.user = u /\ new.token = t
    BY DEF new
  <1> QED
    BY <1>2, <1>3, <1>4, <1>5, <1>6

LEMMA EndTyped ==
  ASSUME SessTypeOK, NEW h \in Handlers, End(h)
  PROVE  /\ req' \in [Handlers -> Request \cup {Idle}]
         /\ \A g \in Handlers : req'[g] # Idle => g # h /\ req'[g] = req[g]
  BY DEF SessTypeOK, End

LEMMA OvertakenTyped ==
  ASSUME SessTypeOK, NEW u \in Users, NEW h, Overtaken(u, h)
  PROVE  /\ req' \in [Handlers -> Request \cup {Idle}]
         /\ \A g \in Handlers :
              req'[g] # Idle =>
                /\ req[g] # Idle /\ req'[g].op = req[g].op /\ req'[g].user = req[g].user
                /\ req'[g].token = req[g].token
                /\ req[g].overtaken => req'[g].overtaken
                /\ req[g].user = u => req'[g].overtaken
  <1>1. \A g \in Handlers : req[g] \in Request \cup {Idle}
    BY DEF SessTypeOK
  <1>2. ASSUME NEW g \in Handlers, req[g] \in Request
        PROVE  [req[g] EXCEPT !.overtaken = TRUE] \in Request
    BY <1>2 DEF Request
  <1>3. req' \in [Handlers -> Request \cup {Idle}]
    BY <1>1, <1>2 DEF Overtaken
  <1>4. ASSUME NEW g \in Handlers, req'[g] # Idle
        PROVE  /\ req[g] # Idle /\ req'[g].op = req[g].op /\ req'[g].user = req[g].user
               /\ req'[g].token = req[g].token
               /\ req[g].overtaken => req'[g].overtaken
               /\ req[g].user = u => req'[g].overtaken
    BY <1>1, <1>4 DEF Overtaken, Request
  <1> QED
    BY <1>3, <1>4

LEMMA SweepTyped ==
  ASSUME SessTypeOK, NEW u \in Users, token' = Sweep(u)
  PROVE  /\ token' \in [TokenIds -> TokenRow]
         /\ Weakened
         /\ \A t \in TokenIds : token'[t].status = "ACTIVE" => token[t].user # u
  <1>1. \A t \in TokenIds : token[t] \in TokenRow
    BY DEF SessTypeOK
  <1>2. ASSUME NEW t \in TokenIds
        PROVE  /\ token'[t] \in TokenRow
               /\ token'[t].user = token[t].user /\ token'[t].family = token[t].family
               /\ token'[t].status = "NONE" <=> token[t].status = "NONE"
               /\ token'[t].status = "ACTIVE" => token'[t] = token[t] /\ token[t].user # u
    <2>1. CASE token[t].user = u
      BY <1>1, <2>1 DEF Sweep, Revoke, TokenRow
    <2>2. CASE token[t].user # u
      BY <1>1, <2>2 DEF Sweep
    <2> QED
      BY <2>1, <2>2
  <1>3. token' = [t \in TokenIds |-> token'[t]]
    BY DEF Sweep
  <1> QED
    BY <1>2, <1>3 DEF Weakened

LEMMA IssuedTyped ==
  ASSUME NEW r \in Request, NEW f \in TokenIds
  PROVE  /\ Issued(r, f) \in TokenRow
         /\ Issued(r, f).status = "ACTIVE" /\ Issued(r, f).user = r.user
         /\ Issued(r, f).family = f /\ ~Issued(r, f).swept
         /\ Issued(r, f).late = r.overtaken
  BY DEF Issued, TokenRow, Request

\* Weaker tokens break neither rotation nor a sweep.
LEMMA WeakenedKeeps ==
  ASSUME RowInv, Weakened, forked \subseteq forked'
  PROVE  RowInv'
  <1>1. Owned'
    BY DEF RowInv, Owned, Weakened
  <1>2. SweptStaysOut'
    BY DEF RowInv, SweptStaysOut, Weakened
  <1>3. OneActivePerFamily'
    BY DEF RowInv, OneActivePerFamily, Weakened
  <1> QED
    BY <1>1, <1>2, <1>3 DEF RowInv

\* The first token of a login.
LEMMA LoginKeeps ==
  ASSUME SessTypeOK, RowInv, NEW t \in TokenIds, NEW r \in Request, Extended(t, t, r),
         UNCHANGED forked
  PROVE  /\ token' \in [TokenIds -> TokenRow]
         /\ RowInv'
  <1>1. /\ token' \in [TokenIds -> TokenRow]
        /\ \A s \in TokenIds : token'[s] = IF s = t THEN Issued(r, t) ELSE token[s]
    BY IssuedTyped DEF SessTypeOK, Extended
  <1>2. r.user \in Users
    BY DEF Request
  <1>3. token[t].status = "NONE"
    BY DEF Extended, Fresh
  <1>4. Owned'
    BY <1>1, <1>2, <1>3, IssuedTyped DEF RowInv, Owned
  <1>5. SweptStaysOut'
    BY <1>1, IssuedTyped DEF RowInv, SweptStaysOut
  <1>6. OneActivePerFamily'
    <2>1. \A s \in TokenIds : token[s].status = "ACTIVE" => token[s].family # t
      BY <1>3 DEF RowInv, Owned
    <2> QED
      BY <1>1, <2>1, IssuedTyped DEF RowInv, OneActivePerFamily
  <1> QED
    BY <1>1, <1>4, <1>5, <1>6 DEF RowInv
-----------------------------------------------------------------------------
LEMMA UnlockedRow ==
  ASSUME NEW x \in UserRow, NEW seen \in Lock
  PROVE  /\ Unlocked(x, seen) \in UserRow
         /\ Unlocked(x, seen).status = x.status
  <1> DEFINE n == IF seen.failed = 0 THEN x.failed ELSE 0
             b == x.locked /\ ~seen.locked
  <1>1. n \in 0..MaxFailures
    BY SessionAssumption DEF UserRow
  <1>2. b \in BOOLEAN
    BY DEF UserRow, Lock
  <1>3. Unlocked(x, seen) = [x EXCEPT !.failed = n, !.locked = b]
    BY DEF Unlocked
  <1> HIDE DEF n, b
  <1> QED
    BY <1>1, <1>2, <1>3 DEF UserRow

\* What the step of a handler finds: a request, about a user.
LEMMA AtWork ==
  ASSUME SessTypeOK, ReadRow, NEW h \in Handlers, req[h] # Idle
  PROVE  /\ req[h] \in Request /\ req[h].user \in Users
         /\ user[req[h].user] \in UserRow
         /\ req[h].op \in {"refreshRow", "refresh", "logout"} => req[h].token \in TokenIds
  BY RequestOf DEF Request, SessTypeOK, ReadRow

LEMMA RegisterStep ==
  ASSUME SessInv, NEW h \in Handlers, NEW t \in TokenIds, RegisterWrite(h, t)
  PROVE  SessInv'
  <1> DEFINE u == req[h].user
  <1>0. SessTypeOK /\ RowInv /\ LateInv /\ ReadRow
    BY DEF SessInv
  <1>1. /\ req[h] \in Request /\ u \in Users
        /\ Extended(t, t, req[h]) /\ UNCHANGED forked /\ End(h)
        /\ user' = [user EXCEPT ![u] = NewUser]
        /\ announced' = announced \cup {u}
    BY <1>0, AtWork DEF RegisterWrite, Extended
  <1>2. token' \in [TokenIds -> TokenRow] /\ RowInv'
    BY <1>0, <1>1, LoginKeeps
  <1>3. NewUser \in UserRow /\ NewUser.status \notin Blocked
    BY SessionAssumption DEF NewUser, UserRow, UserStatus, Blocked
  <1>4. SessTypeOK'
    BY <1>0, <1>1, <1>2, <1>3, EndTyped DEF SessTypeOK
  <1>5. /\ \A g \in Handlers : req'[g] # Idle => g # h /\ req'[g] = req[g]
        /\ \A s \in TokenIds : token'[s] = IF s = t THEN Issued(req[h], t) ELSE token[s]
        /\ \A v \in Users : user'[v] = IF v = u THEN NewUser ELSE user[v]
    BY <1>0, <1>1, EndTyped DEF SessTypeOK, Extended
  <1> HIDE DEF u
  <1>6. ReadRow'
    BY <1>0, <1>1, <1>5, IssuedTyped DEF ReadRow
  <1>7. LateRequests'
    BY <1>0, <1>3, <1>4, <1>5, RequestOf DEF LateInv, LateRequests, SessTypeOK, Request
  <1>8. BlockedOnlyLate'
    <2>1. \A s \in TokenIds : token[s].status = "ACTIVE" => token[s].user \in Users
      BY <1>0 DEF RowInv, Owned
    <2>2. Issued(req[h], t).user = u
      BY <1>1, IssuedTyped DEF u
    <2> QED
      BY <1>0, <1>1, <1>3, <1>5, <2>1, <2>2 DEF LateInv, BlockedOnlyLate
  <1> QED
    BY <1>2, <1>4, <1>6, <1>7, <1>8 DEF SessInv, LateInv

LEMMA LoginStep ==
  ASSUME SessInv, NEW h \in Handlers, NEW t \in TokenIds, LoginSucceeds(h, t)
  PROVE  SessInv'
  <1> DEFINE u == req[h].user
             row == Unlocked(user[u], req[h].seen)
  <1>0. SessTypeOK /\ RowInv /\ LateInv /\ ReadRow
    BY DEF SessInv
  <1>1. /\ req[h] \in Request /\ u \in Users /\ user[u] \in UserRow /\ req[h].op = "login"
        /\ req[h] # Idle
        /\ Extended(t, t, req[h]) /\ UNCHANGED <<forked, announced>> /\ End(h)
        /\ user' = [user EXCEPT ![u] = row]
    BY <1>0, AtWork DEF LoginSucceeds, Extended
  <1>2. token' \in [TokenIds -> TokenRow] /\ RowInv'
    BY <1>0, <1>1, LoginKeeps
  <1>3. row \in UserRow /\ row.status = user[u].status
    BY <1>1, UnlockedRow DEF Request
  <1> HIDE DEF row
  <1>4. SessTypeOK'
    BY <1>0, <1>1, <1>2, <1>3, EndTyped DEF SessTypeOK
  <1>5. /\ \A g \in Handlers : req'[g] # Idle => g # h /\ req'[g] = req[g]
        /\ \A s \in TokenIds : token'[s] = IF s = t THEN Issued(req[h], t) ELSE token[s]
        /\ \A v \in Users : user'[v].status = user[v].status
    BY <1>0, <1>1, <1>3, EndTyped DEF SessTypeOK, Extended
  <1>6. ReadRow'
    BY <1>0, <1>1, <1>5, IssuedTyped DEF ReadRow
  <1>7. LateRequests'
    BY <1>0, <1>5, RequestOf DEF LateInv, LateRequests, Request
  <1>8. BlockedOnlyLate'
    <2>1. \A s \in TokenIds : token[s].status = "ACTIVE" => token[s].user \in Users
      BY <1>0 DEF RowInv, Owned
    <2>2. user[u].status \in Blocked => req[h].overtaken
      BY <1>0, <1>1 DEF LateInv, LateRequests
    <2>3. Issued(req[h], t).user = u /\ Issued(req[h], t).late = req[h].overtaken
      BY <1>1, IssuedTyped
    <2> HIDE DEF u
    <2> QED
      BY <1>0, <1>1, <1>5, <2>1, <2>2, <2>3 DEF LateInv, BlockedOnlyLate
  <1> QED
    BY <1>2, <1>4, <1>6, <1>7, <1>8 DEF SessInv, LateInv

LEMMA RefreshStep ==
  ASSUME SessInv, NEW h \in Handlers, NEW t \in TokenIds, RefreshWrite(h, t)
  PROVE  SessInv'
  <1> DEFINE u == req[h].user
             old == req[h].token
             f == token[old].family
             row == Issued(req[h], f)
  <1>0. SessTypeOK /\ RowInv /\ LateInv /\ ReadRow
    BY DEF SessInv
  <1>1. /\ req[h] \in Request /\ u \in Users /\ req[h].op = "refresh" /\ req[h] # Idle
        /\ old \in TokenIds /\ token[old].status # "NONE"
        /\ Fresh(t) /\ UNCHANGED <<user, announced>> /\ End(h)
        /\ token' = [token EXCEPT ![old].status = "USED", ![t] = row]
        /\ forked' = IF token[old].status = "ACTIVE" THEN forked ELSE forked \cup {f}
    BY <1>0, AtWork DEF RefreshWrite, ReadRow
  <1>2. f \in TokenIds /\ token[f].status # "NONE"
    BY <1>0, <1>1 DEF RowInv, Owned
  <1>3. /\ row \in TokenRow /\ row.status = "ACTIVE" /\ row.user = u /\ row.family = f
        /\ ~row.swept /\ row.late = req[h].overtaken
    BY <1>1, <1>2, IssuedTyped
  <1>4. token[t].status = "NONE" /\ t # old /\ t # f
    BY <1>1, <1>2 DEF Fresh
  <1>5. token[old] \in TokenRow
    BY <1>0, <1>1 DEF SessTypeOK
  <1> HIDE DEF row, u
  <1>6. /\ token' \in [TokenIds -> TokenRow]
        /\ token'[t] = row /\ token'[old].status = "USED"
        /\ token'[old].user = token[old].user /\ token'[old].family = f
        /\ \A s \in TokenIds \ {t, old} : token'[s] = token[s]
    BY <1>0, <1>1, <1>3, <1>4, <1>5 DEF SessTypeOK, TokenRow
  <1>7. \A g \in Handlers : req'[g] # Idle => g # h /\ req'[g] = req[g]
    BY <1>0, <1>1, EndTyped
  <1> HIDE DEF f, old
  <1>8. SessTypeOK'
    BY <1>0, <1>1, <1>2, <1>6, EndTyped DEF SessTypeOK
  <1>9. Owned'
    BY <1>0, <1>1, <1>2, <1>3, <1>4, <1>6 DEF RowInv, Owned
  <1>10. SweptStaysOut'
    BY <1>0, <1>3, <1>6 DEF RowInv, SweptStaysOut
  <1>11. OneActivePerFamily'
    <2>1. f \in forked' \/ (token[old].status = "ACTIVE" /\ forked' = forked)
      BY <1>1
    <2>2. ASSUME NEW s \in TokenIds \ {t, old}, token[s].status = "ACTIVE", token[s].family = f
          PROVE  f \in forked'
      BY <1>0, <1>1, <2>1, <2>2 DEF RowInv, OneActivePerFamily, f
    <2>3. forked \subseteq forked'
      BY <1>1
    <2> QED
      BY <1>0, <1>3, <1>6, <2>2, <2>3 DEF RowInv, OneActivePerFamily
  <1>12. ReadRow'
    BY <1>0, <1>1, <1>3, <1>6, <1>7 DEF ReadRow
  <1>13. LateRequests'
    BY <1>0, <1>1, <1>7 DEF LateInv, LateRequests
  <1>14. BlockedOnlyLate'
    <2>1. user[u].status \in Blocked => req[h].overtaken
      BY <1>0, <1>1 DEF LateInv, LateRequests, u
    <2> QED
      BY <1>0, <1>1, <1>3, <1>6, <2>1 DEF LateInv, BlockedOnlyLate
  <1> QED
    BY <1>8, <1>9, <1>10, <1>11, <1>12, <1>13, <1>14 DEF SessInv, RowInv, LateInv
-----------------------------------------------------------------------------
(***************************************************************************)
(* The other steps only weaken tokens.  A request reads, ends or changes   *)
(* its own row: what is left for each of them to show is that the types    *)
(* hold, and that nobody is blocked whose requests and tokens go on.       *)
(***************************************************************************)
\* Nobody became blocked.
NoBlock == \A u \in Users : user'[u].status \in Blocked => user[u].status \in Blocked

LEMMA QuietStep ==
  ASSUME SessInv, SessTypeOK', Weakened, UNCHANGED forked, NoBlock,
         \A g \in Handlers : req'[g] # Idle =>
           \/ req'[g] = req[g]
           \/ /\ req'[g].op \in {"refreshRow", "refresh", "logout"} =>
                   req'[g].token \in TokenIds /\ token[req'[g].token].status # "NONE"
              /\ req'[g].op \in {"login", "refresh"} => user[req'[g].user].status \notin Blocked
              /\ req'[g] \in Request
  PROVE  SessInv'
  <1>1. RowInv'
    BY WeakenedKeeps DEF SessInv
  <1>2. ReadRow'
    BY DEF SessInv, ReadRow, Weakened
  <1>3. LateRequests'
    BY RequestOf DEF SessInv, LateInv, LateRequests, NoBlock, Request
  <1>4. BlockedOnlyLate'
    BY DEF SessInv, RowInv, Owned, LateInv, BlockedOnlyLate, Weakened, NoBlock
  <1> QED
    BY <1>1, <1>2, <1>3, <1>4 DEF SessInv, LateInv

\* Whoever ends the sessions of u may block u.
LEMMA SweepStep ==
  ASSUME SessInv, NEW u \in Users, NEW h, token' = Sweep(u), Overtaken(u, h),
         user' \in [Users -> UserRow],
         \A v \in Users \ {u} : user'[v] = user[v],
         UNCHANGED <<announced, forked>>
  PROVE  SessInv'
  <1>0. SessTypeOK /\ RowInv /\ LateInv /\ ReadRow
    BY DEF SessInv
  <1>1. /\ token' \in [TokenIds -> TokenRow] /\ Weakened
        /\ \A t \in TokenIds : token'[t].status = "ACTIVE" => token[t].user # u
    BY <1>0, SweepTyped
  <1>2. /\ req' \in [Handlers -> Request \cup {Idle}]
        /\ \A g \in Handlers :
             req'[g] # Idle =>
               /\ req[g] # Idle /\ req'[g].op = req[g].op /\ req'[g].user = req[g].user
               /\ req'[g].token = req[g].token
               /\ req[g].overtaken => req'[g].overtaken
               /\ req[g].user = u => req'[g].overtaken
    BY <1>0, OvertakenTyped
  <1>3. SessTypeOK'
    BY <1>0, <1>1, <1>2 DEF SessTypeOK
  <1>4. RowInv'
    BY <1>0, <1>1, WeakenedKeeps
  <1>5. ReadRow'
    BY <1>0, <1>1, <1>2 DEF ReadRow, Weakened
  <1>6. LateRequests'
    BY <1>0, <1>2, RequestOf DEF LateInv, LateRequests, Request
  <1>7. BlockedOnlyLate'
    BY <1>0, <1>1 DEF RowInv, Owned, LateInv, BlockedOnlyLate, Weakened
  <1> QED
    BY <1>3, <1>4, <1>5, <1>6, <1>7 DEF SessInv, LateInv
-----------------------------------------------------------------------------
\* A request that begins writes nothing.
LEMMA BeginStep ==
  ASSUME SessInv, NEW h \in Handlers, NEW op \in Ops, NEW u \in Users, NEW t \in TokenIds \cup {0},
         Begin(h, op, u, t), UNCHANGED <<user, token, announced, forked>>,
         op = "login" => user[u].status \notin Blocked,
         op # "refresh",
         op \in {"refreshRow", "logout"} => t \in TokenIds /\ token[t].status # "NONE"
  PROVE  SessInv'
  <1>0. SessTypeOK
    BY DEF SessInv
  <1>1. /\ req' \in [Handlers -> Request \cup {Idle}]
        /\ req' = [req EXCEPT ![h] = req'[h]]
        /\ req'[h] \in Request
        /\ req'[h].op = op /\ req'[h].user = u /\ req'[h].token = t
    BY <1>0, BeginTyped
  <1>2. SessTypeOK'
    BY <1>0, <1>1 DEF SessTypeOK
  <1>3. Weakened /\ NoBlock
    BY DEF Weakened, NoBlock
  <1>4. \A g \in Handlers \ {h} : req'[g] = req[g]
    BY <1>0, <1>1 DEF SessTypeOK
  <1> QED
    BY <1>1, <1>2, <1>3, <1>4, QuietStep

\* A request that ends, having changed accounts without blocking any and
\* tokens only for the weaker.
LEMMA EndStep ==
  ASSUME SessInv, NEW h \in Handlers, End(h), NoBlock, UNCHANGED <<announced, forked>>,
         user' \in [Users -> UserRow], token' \in [TokenIds -> TokenRow], Weakened
  PROVE  SessInv'
  <1>0. SessTypeOK
    BY DEF SessInv
  <1>1. SessTypeOK'
    BY <1>0, EndTyped DEF SessTypeOK
  <1> QED
    BY <1>0, <1>1, EndTyped, QuietStep

LEMMA RegisterSteps ==
  ASSUME SessInv, NEW h \in Handlers, NEW u \in Users, RegisterRead(h, u) \/ RegisterFails(h)
  PROVE  SessInv'
  <1>1. CASE RegisterRead(h, u)
    <2>1. "register" \in Ops /\ 0 \in TokenIds \cup {0}
      BY DEF Ops
    <2> QED
      BY <1>1, <2>1, BeginStep DEF RegisterRead
  <1>2. CASE RegisterFails(h)
    BY <1>2, EndStep DEF RegisterFails, NoBlock, Weakened, SessInv, SessTypeOK
  <1> QED
    BY <1>1, <1>2

LEMMA LoginSteps ==
  ASSUME SessInv, NEW h \in Handlers, NEW u \in Users, LoginRead(h, u) \/ LoginFails(h)
  PROVE  SessInv'
  <1>1. CASE LoginRead(h, u)
    <2>1. PICK op \in {"login", "loginFailed"} : Begin(h, op, u, 0)
      BY <1>1 DEF LoginRead
    <2>2. op \in Ops /\ op \notin {"refresh", "refreshRow", "logout"} /\ 0 \in TokenIds \cup {0}
      BY DEF Ops
    <2>3. user[u].status \notin Blocked /\ UNCHANGED <<user, token, announced, forked>>
      BY <1>1 DEF LoginRead
    <2> QED
      BY <2>1, <2>2, <2>3, BeginStep
  <1>2. CASE LoginFails(h)
    <2> DEFINE v == req[h].user
               n == IF req[h].seen.failed = MaxFailures THEN MaxFailures ELSE req[h].seen.failed + 1
               b == user[v].locked \/ n = MaxFailures
    <2>0. SessTypeOK /\ req[h] \in Request /\ v \in Users /\ user[v] \in UserRow
      BY <1>2, AtWork DEF LoginFails, SessInv
    <2>1. req[h].seen.failed \in 0..MaxFailures
      BY <2>0 DEF Request, Lock
    <2>2. n \in 0..MaxFailures
      BY <2>1, SessionAssumption
    <2>3. b \in BOOLEAN
      BY <2>0 DEF UserRow
    <2>4. user' = [user EXCEPT ![v] = [user[v] EXCEPT !.failed = n, !.locked = b]]
      BY <1>2, <2>0 DEF LoginFails, SessTypeOK, UserRow
    <2> HIDE DEF n, b
    <2>5. [user[v] EXCEPT !.failed = n, !.locked = b] \in UserRow
      BY <2>0, <2>2, <2>3 DEF UserRow
    <2>6. user' \in [Users -> UserRow] /\ NoBlock
      BY <2>0, <2>4, <2>5 DEF SessTypeOK, NoBlock, UserRow
    <2> QED
      BY <1>2, <2>0, <2>6, EndStep DEF LoginFails, Weakened, SessTypeOK
  <1> QED
    BY <1>1, <1>2

LEMMA TokenSteps ==
  ASSUME SessInv, NEW h \in Handlers, NEW t \in TokenIds,
         RefreshRow(h, t) \/ LogoutRead(h, t) \/ LogoutWrite(h)
  PROVE  SessInv'
  <1>0. "refreshRow" \in Ops /\ "logout" \in Ops
    BY DEF Ops
  <1>1. CASE RefreshRow(h, t)
    <2>1. token[t].user \in Users
      BY <1>1 DEF RefreshRow, SessInv, RowInv, Owned
    <2> QED
      BY <1>0, <1>1, <2>1, BeginStep DEF RefreshRow
  <1>2. CASE LogoutRead(h, t)
    <2>1. token[t].user \in Users
      BY <1>2 DEF LogoutRead, SessInv, RowInv, Owned
    <2> QED
      BY <1>0, <1>2, <2>1, BeginStep DEF LogoutRead
  <1>3. CASE LogoutWrite(h)
    <2>1. /\ SessTypeOK /\ req[h].token \in TokenIds
          /\ token[req[h].token].status # "NONE" /\ token[req[h].token] \in TokenRow
      BY <1>3 DEF LogoutWrite, SessInv, ReadRow, SessTypeOK
    <2>2. token' = [token EXCEPT ![req[h].token].status = "REVOKED"]
      BY <1>3 DEF LogoutWrite
    <2>3. token' \in [TokenIds -> TokenRow] /\ Weakened
      BY <2>1, <2>2 DEF SessTypeOK, TokenRow, Weakened
    <2> QED
      BY <1>3, <2>1, <2>3, EndStep DEF LogoutWrite, NoBlock, SessTypeOK
  <1> QED
    BY <1>1, <1>2, <1>3

LEMMA RefreshUserStep ==
  ASSUME SessInv, NEW h \in Handlers, RefreshUser(h)
  PROVE  SessInv'
  <1> DEFINE u == req[h].user
             f == token[req[h].token].family
             new == [req[h] EXCEPT !.op = "refresh", !.overtaken = FALSE]
  <1>0. /\ SessTypeOK /\ req[h] \in Request /\ u \in Users /\ req[h].op = "refreshRow"
        /\ req[h].token \in TokenIds /\ token[req[h].token].status # "NONE"
        /\ UNCHANGED <<user, announced, forked>>
    BY AtWork DEF RefreshUser, SessInv, ReadRow
  <1>1. CASE user[u].status \in Blocked
    <2>1. /\ End(h)
          /\ token' = [s \in TokenIds |-> IF token[s].family = f THEN Revoke(token[s]) ELSE token[s]]
      BY <1>1 DEF RefreshUser
    <2>2. token' \in [TokenIds -> TokenRow] /\ Weakened
      <3>1. \A s \in TokenIds : token[s] \in TokenRow
        BY <1>0 DEF SessTypeOK
      <3>2. ASSUME NEW s \in TokenIds
            PROVE  /\ Revoke(token[s]) \in TokenRow
                   /\ Revoke(token[s]).user = token[s].user
                   /\ Revoke(token[s]).family = token[s].family
                   /\ Revoke(token[s]).status = "NONE" <=> token[s].status = "NONE"
                   /\ Revoke(token[s]).status # "ACTIVE"
        BY <3>1 DEF Revoke, TokenRow
      <3> QED
        BY <2>1, <3>1, <3>2 DEF Weakened
    <2> QED
      BY <1>0, <2>1, <2>2, EndStep DEF NoBlock, SessTypeOK
  <1>2. CASE user[u].status \notin Blocked
    <2>1. req' = [req EXCEPT ![h] = new] /\ UNCHANGED token
      BY <1>0, <1>2 DEF RefreshUser, SessTypeOK
    <2>2. /\ new \in Request /\ new.op = "refresh" /\ new.user = u
          /\ new.token = req[h].token
      BY <1>0 DEF Request, Ops
    <2> HIDE DEF new
    <2>3. \A g \in Handlers : req'[g] = IF g = h THEN new ELSE req[g]
      BY <1>0, <2>1 DEF SessTypeOK
    <2>4. SessTypeOK'
      BY <1>0, <2>1, <2>2 DEF SessTypeOK
    <2>5. Weakened /\ NoBlock
      BY <1>0, <2>1 DEF Weakened, NoBlock
    <2> QED
      BY <1>0, <1>2, <2>2, <2>3, <2>4, <2>5, QuietStep
  <1> QED
    BY <1>1, <1>2
LEMMA StatusSteps ==
  ASSUME SessInv, NEW h \in Handlers, NEW u \in Users,
         SetStatusRead(h, u) \/ CloseRead(h, u) \/ Disable(h) \/ Enable(h) \/ CloseWrite(h)
  PROVE  SessInv'
  <1>0. /\ SessTypeOK /\ ReadRow
        /\ {"disable", "enable", "close"} \subseteq Ops /\ 0 \in TokenIds \cup {0}
        /\ {"ACTIVE", "DISABLED", "DELETED"} \subseteq UserStatus
    BY DEF Ops, UserStatus, SessInv
  <1> DEFINE v == req[h].user
             row == Unlocked(user[v], req[h].seen)
  <1>1. CASE SetStatusRead(h, u)
    <2>1. PICK op \in {"disable", "enable"} : Begin(h, op, u, 0)
      BY <1>1 DEF SetStatusRead
    <2> QED
      BY <1>0, <1>1, <2>1, BeginStep DEF SetStatusRead
  <1>2. CASE CloseRead(h, u)
    BY <1>0, <1>2, BeginStep DEF CloseRead
  <1>3. CASE Disable(h)
    <2>1. v \in Users /\ user[v] \in UserRow
      BY <1>0, <1>3, AtWork DEF Disable
    <2>2. /\ user' = [user EXCEPT ![v].status = "DISABLED"]
          /\ token' = Sweep(v) /\ Overtaken(v, h) /\ UNCHANGED <<announced, forked>>
      BY <1>3 DEF Disable
    <2>3. /\ user' \in [Users -> UserRow]
          /\ \A w \in Users \ {v} : user'[w] = user[w]
      BY <1>0, <2>1, <2>2 DEF SessTypeOK, UserRow
    <2> QED
      BY <2>1, <2>2, <2>3, SweepStep
  <1>4. CASE Enable(h)
    <2>1. v \in Users /\ user[v] \in UserRow /\ req[h].seen \in Lock
      BY <1>0, <1>4, AtWork DEF Enable, Request
    <2>2. row \in UserRow
      BY <2>1, UnlockedRow
    <2> DEFINE new == [row EXCEPT !.status = "ACTIVE"]
    <2>3. new \in UserRow /\ new.status \notin Blocked
      BY <1>0, <2>2 DEF UserRow, Blocked
    <2>4. /\ user' = [user EXCEPT ![v] = new]
          /\ End(h) /\ UNCHANGED <<token, announced, forked>>
      BY <1>4 DEF Enable
    <2> HIDE DEF new
    <2>5. user' \in [Users -> UserRow] /\ NoBlock
      BY <1>0, <2>1, <2>3, <2>4 DEF SessTypeOK, NoBlock
    <2> QED
      BY <1>0, <2>4, <2>5, EndStep DEF Weakened, SessTypeOK
  <1>5. CASE CloseWrite(h)
    <2>1. v \in Users /\ user[v] \in UserRow /\ req[h].seen \in Lock
      BY <1>0, <1>5, AtWork DEF CloseWrite, Request
    <2>2. row \in UserRow
      BY <2>1, UnlockedRow
    <2> DEFINE new == [row EXCEPT !.status = "DELETED", !.closed = TRUE]
    <2>3. new \in UserRow
      BY <1>0, <2>2 DEF UserRow
    <2>4. /\ user' = [user EXCEPT ![v] = new]
          /\ token' = Sweep(v) /\ Overtaken(v, h) /\ UNCHANGED <<announced, forked>>
      BY <1>5 DEF CloseWrite
    <2> HIDE DEF new
    <2>5. /\ user' \in [Users -> UserRow]
          /\ \A w \in Users \ {v} : user'[w] = user[w]
      BY <1>0, <2>1, <2>3, <2>4 DEF SessTypeOK
    <2> QED
      BY <2>1, <2>4, <2>5, SweepStep
  <1> QED
    BY <1>1, <1>2, <1>3, <1>4, <1>5

LEMMA UserSteps ==
  ASSUME SessInv, NEW u \in Users, LogoutAll(u) \/ ChangePassword(u) \/ LockExpires(u)
  PROVE  SessInv'
  <1>1. CASE LogoutAll(u) \/ ChangePassword(u)
    BY <1>1, SweepStep DEF LogoutAll, ChangePassword, SessInv, SessTypeOK
  <1>2. CASE LockExpires(u)
    <2>1. /\ user' = [user EXCEPT ![u].locked = FALSE] /\ SessTypeOK
          /\ UNCHANGED <<token, announced, req, forked>>
      BY <1>2 DEF LockExpires, SessInv
    <2>2. user' \in [Users -> UserRow] /\ NoBlock
      BY <2>1 DEF SessTypeOK, UserRow, NoBlock
    <2>3. SessTypeOK' /\ Weakened
      BY <2>1, <2>2 DEF SessTypeOK, Weakened
    <2> QED
      BY <2>1, <2>2, <2>3, QuietStep
  <1> QED
    BY <1>1, <1>2

LEMMA ReplayStep ==
  ASSUME SessInv, NEW t \in TokenIds, Replay(t)
  PROVE  SessInv'
  <1>1. token[t].user \in Users
    BY DEF Replay, SessInv, RowInv, Owned
  <1> QED
    BY <1>1, SweepStep DEF Replay, SessInv, SessTypeOK

LEMMA SessStep == ASSUME SessInv, [SessNext]_sessVars PROVE SessInv'
  <1>1. CASE UNCHANGED sessVars
    <2>1. UNCHANGED <<user, token, announced, req, forked>>
      BY <1>1 DEF sessVars
    <2>2. SessTypeOK' /\ Weakened /\ NoBlock
      BY <2>1 DEF SessInv, SessTypeOK, Weakened, NoBlock
    <2> QED
      BY <2>1, <2>2, QuietStep
  <1>2. ASSUME NEW h \in Handlers, NEW u \in Users,
               RegisterRead(h, u) \/ LoginRead(h, u) \/ SetStatusRead(h, u) \/ CloseRead(h, u)
        PROVE  SessInv'
    BY <1>2, RegisterSteps, LoginSteps, StatusSteps
  <1>3. ASSUME NEW h \in Handlers, NEW t \in TokenIds,
               \/ RegisterWrite(h, t) \/ LoginSucceeds(h, t) \/ RefreshRow(h, t)
               \/ RefreshWrite(h, t) \/ LogoutRead(h, t)
        PROVE  SessInv'
    BY <1>3, RegisterStep, LoginStep, RefreshStep, TokenSteps
  <1>4. ASSUME NEW h \in Handlers,
               \/ RegisterFails(h) \/ LoginFails(h) \/ RefreshUser(h) \/ LogoutWrite(h)
               \/ Disable(h) \/ Enable(h) \/ CloseWrite(h)
        PROVE  SessInv'
    <2>1. \E u \in Users : TRUE
      BY <1>4, AtWork DEF SessInv, RegisterFails, LoginFails, RefreshUser, LogoutWrite, Disable,
                         Enable, CloseWrite
    <2>2. LogoutWrite(h) => \E t \in TokenIds : TRUE
      BY DEF LogoutWrite, SessInv, ReadRow
    <2> QED
      BY <1>4, <2>1, <2>2, RegisterSteps, LoginSteps, RefreshUserStep, TokenSteps, StatusSteps
  <1>5. ASSUME \E t \in TokenIds : Replay(t) PROVE SessInv'
    BY <1>5, ReplayStep
  <1>6. ASSUME \E u \in Users : LogoutAll(u) \/ ChangePassword(u) \/ LockExpires(u)
        PROVE  SessInv'
    BY <1>6, UserSteps
  <1> QED
    BY <1>1, <1>2, <1>3, <1>4, <1>5, <1>6 DEF SessNext

LEMMA SessStart == ASSUME SessInit PROVE SessInv
  <1>1. /\ \A u \in Users : user[u] = [NewUser EXCEPT !.status = "NONE"]
        /\ \A t \in TokenIds : token[t] = NoToken
        /\ \A h \in Handlers : req[h] = Idle
    BY DEF SessInit
  <1>2. [NewUser EXCEPT !.status = "NONE"] \in UserRow
    <2>1. 0 \in 0..MaxFailures /\ "NONE" \in UserStatus
      BY SessionAssumption DEF UserStatus
    <2> QED
      BY <2>1 DEF NewUser, UserRow
  <1>3. SessTypeOK
    BY <1>2, NoTokenTyped DEF SessInit, SessTypeOK
  <1>4. NoToken.status = "NONE" /\ ~NoToken.swept
    BY DEF NoToken
  <1>5. RowInv
    BY <1>1, <1>4 DEF RowInv, Owned, SweptStaysOut, OneActivePerFamily
  <1>6. ReadRow /\ LateInv
    BY <1>1, <1>4 DEF ReadRow, LateInv, LateRequests, BlockedOnlyLate
  <1> QED
    BY <1>3, <1>5, <1>6 DEF SessInv

LEMMA SessInvHolds == SessSpec => []SessInv
  <1>1. SessInit => SessInv
    BY SessStart
  <1>2. SessInv /\ [SessNext]_sessVars => SessInv'
    BY SessStep
  <1> QED
    BY <1>1, <1>2, PTL DEF SessSpec

\* The rows and requests of user-service stay in their types.
THEOREM SessionsTyped == SessSpec => []SessTypeOK
  <1>1. SessInv => SessTypeOK
    BY DEF SessInv
  <1> QED
    BY <1>1, SessInvHolds, PTL

(***************************************************************************)
(* A token that existed when all sessions of its user were ended is never  *)
(* ACTIVE again, for any number of requests under way.                     *)
(***************************************************************************)
THEOREM SweptForGood == SessSpec => []SweptStaysOut
  <1>1. SessInv => SweptStaysOut
    BY DEF SessInv, RowInv
  <1> QED
    BY <1>1, SessInvHolds, PTL

(***************************************************************************)
(* Only a login or refresh that read the account before the block leaves a *)
(* blocked account a token that works.                                     *)
(***************************************************************************)
THEOREM BlockedMeansLate == SessSpec => []BlockedOnlyLate
  <1>1. SessInv => BlockedOnlyLate
    BY DEF SessInv, LateInv
  <1> QED
    BY <1>1, SessInvHolds, PTL

(***************************************************************************)
(* A login has one working refresh token, unless a token was rotated that  *)
(* had changed since it was read.                                          *)
(***************************************************************************)
THEOREM OneActive == SessSpec => []OneActivePerFamily
  <1>1. SessInv => OneActivePerFamily
    BY DEF SessInv, RowInv
  <1> QED
    BY <1>1, SessInvHolds, PTL

-----------------------------------------------------------------------------
(***************************************************************************)
(*                                 The tab                                 *)
(***************************************************************************)
\* What a step of the system may do to the tab.
TabMove ==
  \/ \E c \in Calls, route \in Routes : Send(c, route)
  \/ \E c \in Calls : Forward(c) \/ TurnAway(c) \/ DenyLogin(c)
                      \/ Finish(c) \/ Await(c)
  \/ \E n \in Pairs : AccessExpires(n)
  \/ \E c \in Calls : \E u : LogIn(c, u)
  \/ LogOut \/ Unload \/ Refreshed \/ NotRefreshed

LEMMA StepIsTabMove ==
  ASSUME [UserNext]_userVars
  PROVE  TabMove \/ UNCHANGED tabVars
  <1>1. CASE UNCHANGED userVars
    BY <1>1 DEF userVars
  <1>2. CASE OtherRequest \/ SessionStep
    BY <1>2 DEF OtherRequest, SessionStep
  <1>8. CASE SignInStep
    <2>1. ASSUME NEW c \in Calls, BeginLogin(c) PROVE TabMove
      BY <2>1 DEF BeginLogin, TabMove
    <2>2. ASSUME NEW h \in Handlers, AnswerLogin(h) PROVE TabMove \/ UNCHANGED tabVars
      BY <2>2 DEF AnswerLogin, ServesLogin, TabMove
    <2>3. ASSUME NEW h \in Handlers, AnswerRefresh(h) PROVE TabMove \/ UNCHANGED tabVars
      BY <2>3 DEF AnswerRefresh, TabMove
    <2> QED
      BY <1>8, <2>1, <2>2, <2>3 DEF SignInStep
  <1>3. CASE CloseAccount
    BY <1>3 DEF CloseAccount, tabVars
  <1>4. CASE CodeStep
    BY <1>4 DEF CodeStep
  <1>5. CASE ResetPassword
    BY <1>5 DEF ResetPassword
  <1>6. CASE TabStep
    BY <1>6 DEF TabStep, TabMove
  <1>7. CASE AddressStep
    <2>1. ASSUME NEW c \in Clerks, Forward(c) PROVE TabMove
      BY <2>1, ServiceAssumption DEF TabMove
    <2> QED
      BY <1>7, <2>1 DEF AddressStep
  <1> QED
    BY <1>1, <1>2, <1>3, <1>4, <1>5, <1>6, <1>7, <1>8 DEF UserNext, UserStep

-----------------------------------------------------------------------------
\* The pairs are a sequence of something; whose they are is of no matter here.
PairsTyped == \E S : pairs \in Seq(S)

TabTyped == TabTypeOK /\ PairsTyped

LEMMA AppendSeq ==
  ASSUME NEW S, NEW s \in Seq(S), NEW e
  PROVE  /\ Append(s, e) \in Seq(S \cup {e})
         /\ Len(Append(s, e)) = Len(s) + 1
  <1>1. s \in Seq(S \cup {e})
    OBVIOUS
  <1> QED
    BY <1>1

\* A new pair is numbered after the others.
LEMMA NewPair ==
  ASSUME TabTyped, NEW u, Len(pairs) < MaxPairs, pairs' = Append(pairs, u)
  PROVE  /\ PairsTyped'
         /\ Len(pairs)' = Len(pairs) + 1
         /\ Len(pairs)' \in 0..MaxPairs
         /\ Len(pairs) \in Nat
  <1>1. PICK S : pairs \in Seq(S)
    BY DEF TabTyped, PairsTyped
  <1>2. pairs' \in Seq(S \cup {u}) /\ Len(pairs') = Len(pairs) + 1
    BY <1>1, AppendSeq
  <1>3. Len(pairs) \in 0..MaxPairs
    BY DEF TabTyped, TabTypeOK
  <1>4. PairsTyped'
    BY <1>2 DEF PairsTyped
  <1> QED
    BY <1>2, <1>3, <1>4, BrowserAssumption

-----------------------------------------------------------------------------
(***************************************************************************)
(* What a service was given of call x: nothing before it is answered with  *)
(* 401, unless the service itself answers so, and then once more at most.  *)
(***************************************************************************)
Unserved(x) ==
  /\ x.denied => x.route = "login"
  /\ x.forwarded > 1 => x.denied /\ x.retried
  /\ x.at \in {"refused", "waiting"} /\ ~x.retried => (x.forwarded = 0 \/ x.denied)
  /\ x.at = "sent" /\ ~x.retried => x.forwarded = 0
  /\ x.at = "sent" /\ x.retried => x.forwarded <= 1 /\ (x.forwarded = 0 \/ x.denied)
  /\ x.at = "waiting" => ~x.retried

OnceInv == \A c \in Calls : Unserved(ask[c])

LEMMA OneCallMoves ==
  ASSUME TabTypeOK, OnceInv, NEW c \in Calls, NEW x \in Call, Unserved(x),
         ask' = [ask EXCEPT ![c] = x]
  PROVE  ask' \in [Calls -> Call] /\ OnceInv'
  <1>1. ask \in [Calls -> Call]
    BY DEF TabTypeOK
  <1>2. ask' \in [Calls -> Call]
    BY <1>1
  <1>3. ASSUME NEW d \in Calls PROVE Unserved(ask'[d])
    <2>1. CASE d = c
      <3>1. ask'[d] = x
        BY <1>1, <2>1
      <3> QED
        BY <3>1
    <2>2. CASE d # c
      <3>1. ask'[d] = ask[d]
        BY <1>1, <2>2
      <3>2. Unserved(ask[d])
        BY DEF OnceInv
      <3> QED
        BY <3>1, <3>2
    <2> QED
      BY <2>1, <2>2
  <1> QED
    BY <1>2, <1>3 DEF OnceInv, Unserved

LEMMA NoCallTyped == NoCall \in Call /\ Unserved(NoCall)
  <1>1. NoCall \in Call
    BY DEF NoCall, Call, Routes
  <1>2. NoCall.forwarded = 0 /\ ~NoCall.denied /\ NoCall.at = "none"
    BY DEF NoCall
  <1> QED
    BY <1>1, <1>2 DEF Unserved

LEMMA RepeatedTyped ==
  ASSUME NEW x \in Call, NEW n \in Pairs
  PROVE  /\ Repeated(x, n) \in Call
         /\ Repeated(x, n).at = "sent"
         /\ Unserved(x) /\ x.at = "waiting" => Unserved(Repeated(x, n))
  <1>1. /\ Repeated(x, n) \in Call
        /\ Repeated(x, n).at = "sent" /\ Repeated(x, n).retried
        /\ Repeated(x, n).forwarded = x.forwarded /\ Repeated(x, n).denied = x.denied
        /\ Repeated(x, n).route = x.route
    BY DEF Repeated, Call
  <1>2. x.forwarded \in 0..2
    BY DEF Call
  <1> QED
    BY <1>1, <1>2 DEF Unserved

LEMMA CallsKept ==
  ASSUME TabTyped, OnceInv, TabMove \/ UNCHANGED tabVars
  PROVE  ask' \in [Calls -> Call] /\ OnceInv'
  <1>0. /\ TabTypeOK
        /\ \A c \in Calls : ask[c] \in Call /\ Unserved(ask[c])
        /\ store \in Pairs \cup {0}
        /\ ask \in [Calls -> Call]
    <2>1. TabTypeOK
      BY DEF TabTyped
    <2>2. Len(pairs) \in 0..MaxPairs /\ store \in 0..Len(pairs) /\ ask \in [Calls -> Call]
      BY <2>1 DEF TabTypeOK
    <2>3. store \in Pairs \cup {0}
      BY <2>2, BrowserAssumption DEF Pairs
    <2>4. \A c \in Calls : ask[c] \in Call /\ Unserved(ask[c])
      BY <2>2 DEF OnceInv
    <2> QED
      BY <2>1, <2>2, <2>3, <2>4
  <1>1. CASE UNCHANGED ask
    BY <1>0, <1>1 DEF OnceInv, Unserved
  <1>2. ASSUME NEW c \in Calls, NEW route \in Routes, Send(c, route)
        PROVE  ask' \in [Calls -> Call] /\ OnceInv'
    <2> DEFINE x == [NoCall EXCEPT !.route = route, !.at = "sent", !.pair = store]
    <2>1. ask' = [ask EXCEPT ![c] = x]
      BY <1>2 DEF Send
    <2>2. x \in Call
      BY <1>0, NoCallTyped DEF Call
    <2>3. Unserved(x)
      BY DEF NoCall, Unserved
    <2> HIDE DEF x
    <2> QED
      BY <1>0, <2>1, <2>2, <2>3, OneCallMoves
  <1>3. ASSUME NEW c \in Calls, Forward(c) PROVE ask' \in [Calls -> Call] /\ OnceInv'
    <2> DEFINE x == [ask[c] EXCEPT !.at = "served", !.forwarded = @ + 1]
    <2>1. ask[c] \in Call /\ Unserved(ask[c])
      BY <1>0
    <2>2. ask' = [ask EXCEPT ![c] = x]
      BY <1>0, <1>3, <2>1 DEF Forward, Call
    <2>3. x \in Call
      <3>1. ask[c].forwarded \in 0..2 /\ ask[c].forwarded <= 1
        BY <1>3, <2>1 DEF Forward, Call, Unserved
      <3>2. ask[c].forwarded + 1 \in 0..2
        BY <3>1
      <3> QED
        BY <2>1, <3>2 DEF Call
    <2>4. Unserved(x)
      BY <1>3, <2>1 DEF Forward, Call, Unserved
    <2> HIDE DEF x
    <2> QED
      BY <1>0, <2>2, <2>3, <2>4, OneCallMoves
  <1>4. ASSUME NEW c \in Calls, TurnAway(c) PROVE ask' \in [Calls -> Call] /\ OnceInv'
    <2> DEFINE x == [ask[c] EXCEPT !.at = "refused"]
    <2>1. ask[c] \in Call /\ Unserved(ask[c])
      BY <1>0
    <2>2. ask' = [ask EXCEPT ![c] = x]
      BY <1>0, <1>4, <2>1 DEF TurnAway, Call
    <2>3. x \in Call
      BY <1>4, <2>1 DEF TurnAway, Call, Unserved
    <2>4. Unserved(x)
      BY <1>4, <2>1 DEF TurnAway, Call, Unserved
    <2> HIDE DEF x
    <2> QED
      BY <1>0, <2>2, <2>3, <2>4, OneCallMoves
  <1>10. ASSUME NEW c \in Calls, DenyLogin(c) PROVE ask' \in [Calls -> Call] /\ OnceInv'
    <2> DEFINE x == [ask[c] EXCEPT !.at = "refused", !.denied = TRUE]
    <2>1. ask[c] \in Call /\ Unserved(ask[c])
      BY <1>0
    <2>2. ask' = [ask EXCEPT ![c] = x]
      BY <1>0, <1>10, <2>1 DEF DenyLogin, Call
    <2>3. x \in Call
      BY <1>10, <2>1 DEF DenyLogin, Call, Unserved
    <2>4. Unserved(x)
      BY <1>10, <2>1 DEF DenyLogin, Call, Unserved
    <2> HIDE DEF x
    <2> QED
      BY <1>0, <2>2, <2>3, <2>4, OneCallMoves
  <1>11. ASSUME NEW c \in Calls, Await(c) PROVE ask' \in [Calls -> Call] /\ OnceInv'
    <2> DEFINE x == [ask[c] EXCEPT !.at = "waiting"]
    <2>1. ask[c] \in Call /\ Unserved(ask[c])
      BY <1>0
    <2>2. ask' = [ask EXCEPT ![c] = x]
      BY <1>0, <1>11, <2>1 DEF Await, Call
    <2>3. x \in Call
      BY <1>11, <2>1 DEF Await, Call, Unserved
    <2>4. Unserved(x)
      BY <1>11, <2>1 DEF Await, Call, Unserved
    <2> HIDE DEF x
    <2> QED
      BY <1>0, <2>2, <2>3, <2>4, OneCallMoves
  <1>5. ASSUME NEW c \in Calls, Finish(c) \/ \E u : LogIn(c, u)
        PROVE  ask' \in [Calls -> Call] /\ OnceInv'
    <2>1. ask' = [ask EXCEPT ![c] = NoCall]
      BY <1>5 DEF Finish, LogIn
    <2> QED
      BY <1>0, <2>1, NoCallTyped, OneCallMoves
  <1>6. CASE Unload
    BY <1>6, NoCallTyped DEF Unload, OnceInv, Unserved
  <1>7. CASE Refreshed
    <2> DEFINE n == Len(pairs) + 1
    <2>1. n \in Pairs
      BY <1>0, <1>7, BrowserAssumption DEF Refreshed, TabTypeOK, Pairs
    <2> HIDE DEF n
    <2>4. ASSUME NEW c \in Calls PROVE Resumed(n)[c] \in Call /\ Unserved(Resumed(n)[c])
      BY <1>0, <2>1, RepeatedTyped DEF Resumed
    <2>5. ask' = [c \in Calls |-> Resumed(n)[c]]
      BY <1>7 DEF Refreshed, Resumed, n
    <2>6. ASSUME NEW c \in Calls PROVE ask'[c] \in Call /\ Unserved(ask'[c])
      BY <2>4, <2>5
    <2> QED
      BY <2>5, <2>6 DEF OnceInv, Unserved
  <1>8. CASE NotRefreshed
    BY <1>0, <1>8, NoCallTyped DEF NotRefreshed, OnceInv
  <1> QED
    BY <1>1, <1>2, <1>3, <1>4, <1>5, <1>6, <1>7, <1>8, <1>10, <1>11
    DEF TabMove, tabVars, AccessExpires, LogOut

-----------------------------------------------------------------------------
\* The other variables of the tab keep their types.
LEMMA TabTypeKept ==
  ASSUME TabTyped, OnceInv, TabMove \/ UNCHANGED tabVars
  PROVE  TabTyped'
  <1>0. /\ Len(pairs) \in 0..MaxPairs /\ Len(pairs) \in Nat
        /\ expired \subseteq 1..Len(pairs) /\ store \in 0..Len(pairs)
        /\ refreshing \in {NotRefreshing} \cup 0..Len(pairs)
        /\ leaving \in BOOLEAN /\ signedOut \in {"no", "yes", "crossed"}
        /\ PairsTyped
    BY DEF TabTyped, TabTypeOK
  <1>1. (ask \in [Calls -> Call])'
    BY CallsKept
  <1>2. CASE UNCHANGED tabVars
    BY <1>0, <1>1, <1>2 DEF tabVars, TabTyped, TabTypeOK, PairsTyped
  <1>3. ASSUME NEW c \in Calls, NEW route \in Routes,
               Send(c, route) \/ Forward(c) \/ TurnAway(c) \/ DenyLogin(c)
               \/ Finish(c)
        PROVE  TabTyped'
    BY <1>0, <1>1, <1>3
       DEF Send, Forward, TurnAway, DenyLogin, Finish, TabTyped, TabTypeOK, PairsTyped
  <1>4. ASSUME NEW c \in Calls, Await(c) PROVE TabTyped'
    BY <1>0, <1>1, <1>4 DEF Await, TabTyped, TabTypeOK, PairsTyped
  <1>5. ASSUME NEW n \in Pairs, AccessExpires(n) PROVE TabTyped'
    BY <1>0, <1>1, <1>5 DEF AccessExpires, TabTyped, TabTypeOK, PairsTyped
  <1>6. CASE LogOut
    BY <1>0, <1>1, <1>6 DEF LogOut, TabTyped, TabTypeOK, PairsTyped
  <1>7. CASE Unload
    BY <1>0, <1>1, <1>7 DEF Unload, TabTyped, TabTypeOK, PairsTyped
  <1>8. CASE NotRefreshed
    BY <1>0, <1>1, <1>8 DEF NotRefreshed, TabTyped, TabTypeOK, PairsTyped
  <1>9. ASSUME NEW c \in Calls, NEW u, LogIn(c, u) PROVE TabTyped'
    <2>1. /\ PairsTyped' /\ Len(pairs)' = Len(pairs) + 1 /\ Len(pairs)' \in 0..MaxPairs
      BY <1>9, NewPair DEF LogIn
    <2>2. /\ store' = Len(pairs) + 1 /\ signedOut' = "no"
          /\ UNCHANGED <<expired, refreshing, leaving>>
      BY <1>9 DEF LogIn
    <2> QED
      BY <1>0, <1>1, <2>1, <2>2 DEF TabTyped, TabTypeOK
  <1>10. CASE Refreshed
    <2>1. /\ PairsTyped' /\ Len(pairs)' = Len(pairs) + 1 /\ Len(pairs)' \in 0..MaxPairs
      BY <1>10, NewPair DEF Refreshed
    <2>2. /\ store' = Len(pairs) + 1 /\ refreshing' = NotRefreshing
          /\ UNCHANGED <<expired, leaving, signedOut>>
      BY <1>10 DEF Refreshed
    <2> QED
      BY <1>0, <1>1, <2>1, <2>2 DEF TabTyped, TabTypeOK
  <1> QED
    BY <1>2, <1>3, <1>4, <1>5, <1>6, <1>7, <1>8, <1>9, <1>10 DEF TabMove, Routes

-----------------------------------------------------------------------------
LEMMA WaitsKept ==
  ASSUME TabTyped, WaitsForRefresh, TabMove \/ UNCHANGED tabVars
  PROVE  WaitsForRefresh'
  <1>0. ask \in [Calls -> Call] /\ store # NotRefreshing
    BY DEF TabTyped, TabTypeOK, NotRefreshing
  <1>1. CASE UNCHANGED <<ask, refreshing>>
    BY <1>1 DEF WaitsForRefresh
  \* A call that does not wait goes where it does not wait.
  <1>2. ASSUME NEW c \in Calls, ask[c].at # "waiting", ask'[c].at # "waiting",
               \A d \in Calls : d # c => ask'[d] = ask[d], UNCHANGED refreshing
        PROVE  WaitsForRefresh'
    BY <1>2 DEF WaitsForRefresh
  <1>3. ASSUME NEW c \in Calls, NEW route \in Routes, Send(c, route) PROVE WaitsForRefresh'
    BY <1>0, <1>2, <1>3 DEF Send, NoCall
  <1>4. ASSUME NEW c \in Calls, Forward(c) PROVE WaitsForRefresh'
    BY <1>0, <1>2, <1>4 DEF Forward, Call
  <1>5. ASSUME NEW c \in Calls, TurnAway(c) \/ DenyLogin(c)
        PROVE  WaitsForRefresh'
    BY <1>0, <1>2, <1>5 DEF TurnAway, DenyLogin, Call
  <1>6. ASSUME NEW c \in Calls, Finish(c) \/ \E u : LogIn(c, u) PROVE WaitsForRefresh'
    BY <1>0, <1>2, <1>6 DEF Finish, Over, LogIn, NoCall
  <1>7. ASSUME NEW c \in Calls, Await(c) PROVE WaitsForRefresh'
    <2>1. ask'[c].at = "waiting"
      BY <1>0, <1>7 DEF Await, Call
    <2>2. refreshing' # NotRefreshing
      BY <1>0, <1>7 DEF Await
    <2> QED
      BY <2>1, <2>2 DEF WaitsForRefresh
  <1>8. ASSUME \A c \in Calls : ask'[c].at # "waiting", refreshing' = NotRefreshing
        PROVE  WaitsForRefresh'
    BY <1>8 DEF WaitsForRefresh
  <1>9. CASE Unload
    BY <1>8, <1>9 DEF Unload, NoCall
  <1>10. CASE NotRefreshed
    BY <1>8, <1>10 DEF NotRefreshed, NoCall
  <1>11. CASE Refreshed
    <2> DEFINE n == Len(pairs) + 1
    <2>1. n \in Pairs
      BY <1>11, BrowserAssumption DEF Refreshed, TabTyped, TabTypeOK, Pairs
    <2>2. ask' = Resumed(n) /\ refreshing' = NotRefreshing
      BY <1>11 DEF Refreshed
    <2> HIDE DEF n
    <2>3. ASSUME NEW c \in Calls PROVE ask'[c].at # "waiting"
      BY <1>0, <2>1, <2>2, RepeatedTyped DEF Resumed
    <2> QED
      BY <1>8, <2>2, <2>3
  <1> QED
    BY <1>1, <1>3, <1>4, <1>5, <1>6, <1>7, <1>9, <1>10, <1>11
    DEF TabMove, tabVars, AccessExpires, LogOut

-----------------------------------------------------------------------------
\* Nothing a signed out tab waits for gives it tokens.
SignedInv == signedOut = "yes" => store = 0 /\ refreshing \in {NotRefreshing, 0}

LEMMA SignedKept ==
  ASSUME SignedInv, TabMove \/ UNCHANGED tabVars
  PROVE  SignedInv'
  <1>1. ASSUME NEW c \in Calls, NEW route \in Routes,
               Send(c, route) \/ Forward(c) \/ TurnAway(c) \/ DenyLogin(c)
               \/ Finish(c) \/ Await(c)
        PROVE  SignedInv'
    BY <1>1 DEF SignedInv, Send, Forward, TurnAway, DenyLogin, Finish, Await
  <1>2. CASE Refreshed
    BY <1>2 DEF Refreshed, SignedInv, NotRefreshing
  <1>3. CASE Unload
    BY <1>3 DEF Unload, SignedInv
  <1>4. CASE LogOut
    BY <1>4 DEF LogOut, SignedInv
  <1>5. CASE NotRefreshed
    BY <1>5 DEF NotRefreshed, SignedInv
  <1>6. ASSUME NEW c \in Calls, NEW u, LogIn(c, u) PROVE SignedInv'
    BY <1>6 DEF LogIn, SignedInv
  <1>7. ASSUME NEW n \in Pairs, AccessExpires(n) PROVE SignedInv'
    BY <1>7 DEF AccessExpires, SignedInv
  <1> QED
    BY <1>1, <1>2, <1>3, <1>4, <1>5, <1>6, <1>7 DEF TabMove, Routes, tabVars, SignedInv

-----------------------------------------------------------------------------
TabInv == TabTyped /\ OnceInv /\ WaitsForRefresh /\ SignedInv

LEMMA TabStarts ==
  ASSUME UserInit
  PROVE  TabInv
  <1>1. TabInit
    BY DEF UserInit
  <1>2. pairs \in Seq({}) /\ Len(pairs) = 0
    BY <1>1 DEF TabInit
  <1>3. PairsTyped
    BY <1>2 DEF PairsTyped
  <1>4. 0 \in 0..MaxPairs /\ 0 \in 0..0
    BY BrowserAssumption
  <1>5. TabTypeOK
    BY <1>1, <1>2, <1>4, NoCallTyped DEF TabInit, TabTypeOK
  <1>6. OnceInv
    BY <1>1, NoCallTyped DEF TabInit, OnceInv
  <1>7. WaitsForRefresh /\ SignedInv
    BY <1>1 DEF TabInit, NoCall, WaitsForRefresh, SignedInv
  <1> QED
    BY <1>3, <1>5, <1>6, <1>7 DEF TabInv, TabTyped

\* The tab and its calls keep their types and the four conditions above,
\* whatever the service answers.
THEOREM TabInvariant == UserSpec => []TabInv
  <1>1. UserInit => TabInv
    BY TabStarts
  <1>2. TabInv /\ [UserNext]_userVars => TabInv'
    <2> SUFFICES ASSUME TabInv, [UserNext]_userVars PROVE TabInv'
      OBVIOUS
    <2>1. TabMove \/ UNCHANGED tabVars
      BY StepIsTabMove
    <2> QED
      BY <2>1, CallsKept, TabTypeKept, WaitsKept, SignedKept DEF TabInv
  <1> QED
    BY <1>1, <1>2, PTL DEF UserSpec

\* The tab and its calls have their types.
THEOREM TabTypeCorrect == UserSpec => []TabTypeOK
  <1>1. TabInv => TabTypeOK
    BY DEF TabInv, TabTyped
  <1> QED
    BY <1>1, TabInvariant, PTL

\* api-client.ts, gateway-auth and the services behind it: a service is given a call
\* twice only if it is a login that failed the first time.
THEOREM CallsForwardedOnce == UserSpec => []ForwardedOnce
  <1>1. TabInv => ForwardedOnce
    BY DEF TabInv, OnceInv, Unserved, ForwardedOnce
  <1> QED
    BY <1>1, TabInvariant, PTL

\* client.ts: a refresh is under way exactly while a call waits for it.
THEOREM RefreshServesCalls == UserSpec => []WaitsForRefresh
  <1>1. TabInv => WaitsForRefresh
    BY DEF TabInv
  <1> QED
    BY <1>1, TabInvariant, PTL

\* auth store and client.ts: a tab that was signed out, with no refresh under
\* way, has no tokens until someone logs in.
THEOREM SignOutLasts == UserSpec => []SignedOutStaysOut
  <1>1. TabInv => SignedOutStaysOut
    BY DEF TabInv, SignedInv, SignedOutStaysOut
  <1> QED
    BY <1>1, TabInvariant, PTL

-----------------------------------------------------------------------------
(***************************************************************************)
(*                    The sessions of the whole service                    *)
(***************************************************************************)
\* A password reset under way is of an account that exists.
ResetsExist ==
  \A h \in Handlers :
    work[h] # Idle =>
      /\ work[h].op = "reset" => work[h].reset # NoUser
      /\ work[h].reset # NoUser =>
           work[h].reset \in Users /\ user[work[h].reset].status # "NONE"

WorkInv ==
  /\ work \in [Handlers -> Verification \cup {Idle}]
  /\ ResetsExist

\* An account that exists goes on existing.
NoneLost == \A u \in Users : user[u].status # "NONE" => user'[u].status # "NONE"

LEMMA NoneIsLost ==
  ASSUME SessTypeOK, [SessNext]_sessVars
  PROVE  NoneLost
  <1>1. \A h \in Handlers : req[h] # Idle => req[h].user \in Users
    BY RequestOf DEF Request
  <1>2. user \in [Users -> UserRow]
    BY DEF SessTypeOK
  <1>3. ASSUME NEW u \in Users, NEW row, user' = [user EXCEPT ![u] = row], row.status # "NONE"
        PROVE  NoneLost
    BY <1>2, <1>3 DEF NoneLost
  <1>4. CASE UNCHANGED user
    BY <1>4 DEF NoneLost
  <1>5. ASSUME NEW h \in Handlers, NEW t \in TokenIds, RegisterWrite(h, t)
        PROVE  NoneLost
    <2>1. user' = [user EXCEPT ![req[h].user] = NewUser] /\ req[h].user \in Users
      BY <1>1, <1>5 DEF RegisterWrite
    <2>2. NewUser.status # "NONE"
      BY DEF NewUser
    <2> QED
      BY <1>2, <2>1, <2>2 DEF NoneLost
  <1>6. ASSUME NEW h \in Handlers, NEW t \in TokenIds, LoginSucceeds(h, t)
        PROVE  NoneLost
    BY <1>1, <1>2, <1>6 DEF LoginSucceeds, Unlocked, NoneLost, UserRow
  <1>7. ASSUME NEW h \in Handlers, LoginFails(h)
        PROVE  NoneLost
    <2>1. PICK n, l : user' = [user EXCEPT ![req[h].user].failed = n, ![req[h].user].locked = l]
      BY <1>7 DEF LoginFails
    <2> QED
      BY <1>1, <1>2, <1>7, <2>1 DEF LoginFails, NoneLost, UserRow
  <1>8. ASSUME NEW h \in Handlers, Disable(h)
        PROVE  NoneLost
    BY <1>1, <1>2, <1>8 DEF Disable, NoneLost, UserRow
  <1>10. ASSUME NEW h \in Handlers, Enable(h) \/ CloseWrite(h)
         PROVE  NoneLost
    <2> DEFINE x == Unlocked(user[req[h].user], req[h].seen)
    <2>1. req[h].user \in Users /\ user[req[h].user] \in UserRow /\ req[h].seen \in Lock
      BY <1>2, <1>10, RequestOf DEF Enable, CloseWrite, Request
    <2>2. x \in UserRow
      BY <2>1, UnlockedRow
    <2>3. \/ user' = [user EXCEPT ![req[h].user] = [x EXCEPT !.status = "ACTIVE"]]
          \/ user' = [user EXCEPT ![req[h].user] = [x EXCEPT !.status = "DELETED", !.closed = TRUE]]
      BY <1>10 DEF Enable, CloseWrite
    <2> HIDE DEF x
    <2>4. PICK y : user' = [user EXCEPT ![req[h].user] = y] /\ y.status # "NONE"
      <3>1. /\ [x EXCEPT !.status = "ACTIVE"].status # "NONE"
            /\ [x EXCEPT !.status = "DELETED", !.closed = TRUE].status # "NONE"
        BY <2>2 DEF UserRow
      <3> QED
        BY <2>3, <3>1
    <2> QED
      BY <1>2, <2>1, <2>4 DEF NoneLost
  <1>9. ASSUME NEW u \in Users, LockExpires(u)
        PROVE  NoneLost
    BY <1>2, <1>9 DEF LockExpires, NoneLost, UserRow
  <1> QED
    BY <1>4, <1>5, <1>6, <1>7, <1>8, <1>9, <1>10
       DEF SessNext, sessVars, RegisterRead, LoginRead, SetStatusRead, CloseRead, RefreshRow,
           RefreshWrite, LogoutRead, RegisterFails, RefreshUser, LogoutWrite, Replay, LogoutAll,
           ChangePassword

\* A step of the service is a step of the sessions, or none.
LEMMA StepOfSessions ==
  ASSUME WorkInv, [UserNext]_userVars
  PROVE  [SessNext]_sessVars
  <1>1. CASE UNCHANGED userVars
    BY <1>1 DEF userVars
  <1>2. CASE OtherRequest
    BY <1>2 DEF OtherRequest, SessNext
  <1>8. CASE SessionStep
    BY <1>8 DEF SessionStep, SessNext
  <1>9. CASE SignInStep
    <2>1. ASSUME NEW c \in Calls, BeginLogin(c) PROVE [SessNext]_sessVars
      BY <2>1, ServiceAssumption DEF BeginLogin, SessNext
    <2>2. ASSUME NEW h \in Handlers, AnswerLogin(h) PROVE [SessNext]_sessVars
      BY <2>2 DEF AnswerLogin, SessNext
    <2>3. ASSUME NEW h \in Handlers, AnswerRefresh(h) PROVE [SessNext]_sessVars
      BY <2>3 DEF AnswerRefresh, SessNext
    <2> QED
      BY <1>9, <2>1, <2>2, <2>3 DEF SignInStep
  <1>3. CASE CloseAccount
    BY <1>3 DEF CloseAccount, SessNext
  <1>4. CASE CodeStep
    BY <1>4 DEF CodeStep
  <1>5. CASE ResetPassword
    <2>1. PICK h \in Handlers : ResetWrite(h)
      BY <1>5 DEF ResetPassword
    <2>2. CASE UNCHANGED <<token, req>>
      BY <2>1, <2>2 DEF ResetWrite, sessVars
    <2>3. CASE token' = Sweep(work[h].reset) /\ Overtaken(work[h].reset, "none")
      <3>2. work[h].reset \in Users /\ user[work[h].reset].status # "NONE"
        BY <2>1 DEF ResetWrite, WorkInv, ResetsExist
      <3>3. LogoutAll(work[h].reset)
        BY <2>1, <2>3, <3>2 DEF ResetWrite, LogoutAll
      <3> QED
        BY <3>2, <3>3 DEF SessNext
    <2> QED
      BY <2>1, <2>2, <2>3 DEF ResetWrite
  <1>6. CASE TabStep
    BY <1>6 DEF TabStep
  <1>7. CASE AddressStep
    BY <1>7 DEF AddressStep
  <1> QED
    BY <1>1, <1>2, <1>3, <1>4, <1>5, <1>6, <1>7, <1>8, <1>9 DEF UserNext, UserStep

\* Reading a code starts a reset of an account that exists only; the other
\* steps leave the verifications alone or bring them on.
LEMMA WorkKept ==
  ASSUME SessTypeOK, code \in [Codes -> CodeRow], WorkInv, [UserNext]_userVars
  PROVE  WorkInv'
  <1>1. NoneLost
    BY StepOfSessions, NoneIsLost
  <1>2. \A h \in Handlers : work[h] \in Verification \cup {Idle}
    BY DEF WorkInv
  <1>3. ASSUME NEW h \in Handlers, NEW w \in Verification \cup {Idle},
               work' = [work EXCEPT ![h] = w],
               w # Idle => /\ w.op = "reset" => w.reset # NoUser
                           /\ w.reset # NoUser =>
                                w.reset \in Users /\ user[w.reset].status # "NONE"
        PROVE  WorkInv'
    <2>1. work' \in [Handlers -> Verification \cup {Idle}]
      BY <1>3 DEF WorkInv
    <2>2. ASSUME NEW g \in Handlers, work'[g] # Idle
          PROVE  /\ work'[g].op = "reset" => work'[g].reset # NoUser
                 /\ work'[g].reset # NoUser =>
                      work'[g].reset \in Users /\ user'[work'[g].reset].status # "NONE"
      <3>1. PICK x : x = work'[g]
        OBVIOUS
      <3>2. /\ x.op = "reset" => x.reset # NoUser
            /\ x.reset # NoUser => x.reset \in Users /\ user[x.reset].status # "NONE"
        BY <1>3, <2>2, <3>1 DEF WorkInv, ResetsExist
      <3> QED
        BY <1>1, <3>1, <3>2 DEF NoneLost
    <2> QED
      BY <2>1, <2>2 DEF WorkInv, ResetsExist
  <1>4. CASE UNCHANGED work
    BY <1>1, <1>4 DEF WorkInv, ResetsExist, NoneLost
  <1>5. ASSUME NEW h \in Handlers, NEW c \in Codes, NEW u \in Users \cup {NoUser},
               VerifyRead(h, c, u)
        PROVE  WorkInv'
    <2>1. PICK right \in BOOLEAN : work' = [work EXCEPT ![h] =
            [op |-> "verify", code |-> c, seen |-> code[c], right |-> right, reset |-> u]]
      BY <1>5 DEF VerifyRead
    <2>2. [op |-> "verify", code |-> c, seen |-> code[c], right |-> right, reset |-> u]
            \in Verification
      BY DEF Verification
    <2> QED
      BY <1>3, <1>5, <2>1, <2>2 DEF VerifyRead
  <1>6. ASSUME NEW h \in Handlers, VerifyWrite(h)
        PROVE  WorkInv'
    <2>1. work[h] \in Verification /\ work[h] # Idle
      BY <1>2, <1>6 DEF VerifyWrite
    <2>2. PICK w : work' = [work EXCEPT ![h] = w] /\
              \/ w = Idle
              \/ work[h].reset # NoUser /\ w = [work[h] EXCEPT !.op = "reset"]
      BY <1>6 DEF VerifyWrite
    <2>3. w # Idle => /\ w \in Verification /\ w.reset = work[h].reset /\ w.reset # NoUser
      BY <2>1, <2>2 DEF Verification
    <2> QED
      BY <1>3, <2>1, <2>2, <2>3 DEF WorkInv, ResetsExist
  <1>7. ASSUME NEW h \in Handlers, ResetWrite(h)
        PROVE  WorkInv'
    BY <1>3, <1>7 DEF ResetWrite
  <1> QED
    BY <1>4, <1>5, <1>6, <1>7
       DEF UserNext, UserStep, userVars, codeVars, OtherRequest, SessionStep, SignInStep, CloseAccount, CodeStep,
           ResetPassword, TabStep, AddressStep, IssueCode, CodeExpires

-----------------------------------------------------------------------------
(***************************************************************************)
(* The codes.  A code is PENDING until the first request that decides it;  *)
(* while no two requests have worked on it at the same time, its attempts  *)
(* are the guesses that were compared.                                     *)
(***************************************************************************)
CodeSound(c) ==
  /\ code[c].status = "NONE" => code[c].attempts = 0
  /\ code[c].status = "PENDING" => code[c].attempts <= MaxAttempts

WorkSound(h) ==
  work[h] # Idle =>
    /\ work[h].seen.status = "PENDING" /\ work[h].seen.attempts <= MaxAttempts
    /\ code[work[h].code].status # "NONE"

Counted(c) ==
  ~tried[c].overlapped =>
    /\ tried[c].guesses <= MaxAttempts /\ tried[c].passed <= 1
    /\ code[c].status \in {"NONE", "PENDING"} =>
         tried[c].guesses = code[c].attempts /\ tried[c].passed = 0

CodeInv ==
  /\ code \in [Codes -> CodeRow]
  /\ tried \in [Codes -> [guesses : Nat, passed : Nat, overlapped : BOOLEAN]]
  /\ \A c \in Codes : CodeSound(c) /\ Counted(c)
  /\ \A h \in Handlers : WorkSound(h)

\* What a request may write.
LEMMA CheckedTyped ==
  ASSUME NEW row \in CodeRow, NEW seen \in CodeRow, NEW right \in BOOLEAN,
         row.status # "NONE", seen.status = "PENDING", seen.attempts <= MaxAttempts
  PROVE  LET new == Checked(row, seen, right) IN
         /\ new \in CodeRow
         /\ new.status # "NONE"
         /\ new.status = "PENDING" =>
              \/ /\ row.status = "PENDING" /\ ~seen.due /\ ~right
                 /\ seen.attempts < MaxAttempts /\ new.attempts = seen.attempts + 1
  <1> DEFINE n == seen.attempts + 1
             counted == [row EXCEPT !.attempts = n]
  <1>1. n \in 0..(MaxAttempts + 1) /\ MaxAttempts \in Nat /\ seen.attempts \in Nat
    BY AccountAssumption DEF CodeRow
  <1>2. counted \in CodeRow /\ counted.status = row.status /\ counted.attempts = n
    BY <1>1 DEF CodeRow
  <1>3. CASE seen.due
    BY <1>3 DEF Checked, CodeRow
  <1>4. CASE ~seen.due
    <2>1. Checked(row, seen, right) =
            IF n > MaxAttempts THEN [counted EXCEPT !.status = "LOCKED"]
            ELSE IF right THEN [counted EXCEPT !.status = "USED"]
            ELSE counted
      BY <1>4 DEF Checked
    <2> HIDE DEF counted
    <2>2. /\ [counted EXCEPT !.status = "LOCKED"] \in CodeRow
          /\ [counted EXCEPT !.status = "LOCKED"].status = "LOCKED"
          /\ [counted EXCEPT !.status = "USED"] \in CodeRow
          /\ [counted EXCEPT !.status = "USED"].status = "USED"
      BY <1>2 DEF CodeRow
    <2> QED
      BY <1>1, <1>2, <1>4, <2>1, <2>2
  <1> QED
    BY <1>3, <1>4

LEMMA CodeWritten ==
  ASSUME WorkInv, CodeInv, NEW h \in Handlers, VerifyWrite(h)
  PROVE  CodeInv'
  <1>1. work[h] \in Verification /\ work[h] # Idle
    BY DEF VerifyWrite, WorkInv
  <1>2. PICK c \in Codes, seen \in CodeRow :
          /\ c = work[h].code /\ seen = work[h].seen
          /\ work[h].right \in BOOLEAN
          /\ code[c] \in CodeRow /\ code[c].status # "NONE"
          /\ seen.status = "PENDING" /\ seen.attempts <= MaxAttempts
    BY <1>1 DEF Verification, CodeInv, WorkSound
  <1> DEFINE new == Checked(code[c], seen, work[h].right)
             compared == ~seen.due /\ seen.attempts < MaxAttempts
             passed == compared /\ work[h].right
             guesses == tried[c].guesses + (IF compared THEN 1 ELSE 0)
             passes == tried[c].passed + (IF passed THEN 1 ELSE 0)
             overlapped == \/ tried[c].overlapped
                           \/ code[c].status # "PENDING" \/ code[c].attempts # seen.attempts
             log == [guesses |-> guesses, passed |-> passes, overlapped |-> overlapped]
  <1>3. code' = [code EXCEPT ![c] = new] /\ tried' = [tried EXCEPT ![c] = log]
    BY <1>2 DEF VerifyWrite
  <1>4. /\ new \in CodeRow /\ new.status # "NONE"
        /\ new.status = "PENDING" =>
              /\ code[c].status = "PENDING" /\ compared /\ ~passed
              /\ new.attempts = seen.attempts + 1
    BY <1>2, CheckedTyped
  <1>5. /\ seen.attempts \in Nat /\ MaxAttempts \in Nat
        /\ tried[c] \in [guesses : Nat, passed : Nat, overlapped : BOOLEAN]
    BY <1>2, AccountAssumption DEF CodeInv, CodeRow
  <1>6. guesses \in Nat /\ passes \in Nat /\ overlapped \in BOOLEAN
    BY <1>5
  <1> HIDE DEF guesses, passes, overlapped
  <1>14. /\ log \in [guesses : Nat, passed : Nat, overlapped : BOOLEAN]
         /\ log.guesses = guesses /\ log.passed = passes /\ log.overlapped = overlapped
    BY <1>6
  <1> HIDE DEF log, new
  <1>7. code' \in [Codes -> CodeRow]
        /\ tried' \in [Codes -> [guesses : Nat, passed : Nat, overlapped : BOOLEAN]]
    BY <1>3, <1>4, <1>14 DEF CodeInv
  <1>8. code'[c] = new /\ tried'[c] = log
    BY <1>2, <1>3 DEF CodeInv
  <1>9. \A d \in Codes : d # c => code'[d] = code[d] /\ tried'[d] = tried[d]
    BY <1>3 DEF CodeInv
  <1>10. CodeSound(c)'
    <2>1. new.status = "PENDING" => new.attempts <= MaxAttempts
      BY <1>4, <1>5
    <2> QED
      BY <1>4, <1>8, <2>1 DEF CodeSound
  <1>11. Counted(c)'
    <2>1. CASE overlapped
      BY <1>8, <1>14, <2>1 DEF Counted
    <2>2. CASE ~overlapped
      <3>1. /\ tried[c].guesses = seen.attempts /\ tried[c].passed = 0
        BY <1>2, <2>2 DEF CodeInv, Counted, overlapped
      <3>2. guesses <= MaxAttempts /\ passes <= 1
        BY <1>2, <1>5, <3>1 DEF guesses, passes
      <3>3. new.status = "PENDING" => guesses = new.attempts /\ passes = 0
        BY <1>4, <1>5, <3>1 DEF guesses, passes
      <3> QED
        BY <1>4, <1>8, <1>14, <3>2, <3>3 DEF Counted
    <2> QED
      BY <2>1, <2>2
  <1>12. ASSUME NEW d \in Codes, d # c
         PROVE  CodeSound(d)' /\ Counted(d)'
    BY <1>9, <1>12 DEF CodeInv, CodeSound, Counted
  <1>13. ASSUME NEW g \in Handlers
         PROVE  WorkSound(g)'
    <2>1. ASSUME work'[g] # Idle
          PROVE  /\ work[g] # Idle /\ work[g] \in Verification
                 /\ work'[g].seen = work[g].seen /\ work'[g].code = work[g].code
      <3>1. CASE g = h
        <4>1. work'[h] = [work[h] EXCEPT !.op = "reset"]
          BY <2>1, <3>1 DEF VerifyWrite, WorkInv
        <4> QED
          BY <1>1, <3>1, <4>1 DEF Verification
      <3>2. CASE g # h
        BY <2>1, <3>2 DEF VerifyWrite, WorkInv
      <3> QED
        BY <3>1, <3>2
    <2>2. \A d \in Codes : code[d].status # "NONE" => code'[d].status # "NONE"
      BY <1>4, <1>8, <1>9
    <2>3. ASSUME work'[g] # Idle
          PROVE  /\ work[g].seen.status = "PENDING" /\ work[g].seen.attempts <= MaxAttempts
                 /\ code'[work[g].code].status # "NONE"
      BY <2>1, <2>2, <2>3 DEF CodeInv, WorkSound, Verification
    <2> QED
      BY <2>1, <2>3 DEF WorkSound
  <1> QED
    BY <1>7, <1>10, <1>11, <1>12, <1>13 DEF CodeInv

LEMMA CodeIssued ==
  ASSUME CodeInv, WorkInv, NEW c \in Codes, IssueCode(c) \/ CodeExpires(c)
  PROVE  CodeInv'
  <1>1. PICK row \in CodeRow : /\ code' = [code EXCEPT ![c] = row]
                               /\ row.status = "PENDING" /\ row.attempts = code[c].attempts
    <2>0. code[c] \in CodeRow
      BY DEF CodeInv
    <2>1. CASE IssueCode(c)
      <3> DEFINE row == [code[c] EXCEPT !.status = "PENDING"]
      <3>1. code' = [code EXCEPT ![c] = row]
        BY <2>1 DEF IssueCode
      <3>2. row \in CodeRow /\ row.status = "PENDING" /\ row.attempts = code[c].attempts
        BY <2>0 DEF CodeRow
      <3> QED
        BY <3>1, <3>2
    <2>2. CASE CodeExpires(c)
      <3> DEFINE row == [code[c] EXCEPT !.due = TRUE]
      <3>1. code' = [code EXCEPT ![c] = row]
        BY <2>2 DEF CodeExpires
      <3>2. row \in CodeRow /\ row.status = "PENDING" /\ row.attempts = code[c].attempts
        BY <2>0, <2>2 DEF CodeRow, CodeExpires
      <3> QED
        BY <3>1, <3>2
    <2> QED
      BY <2>1, <2>2
  <1>2. code[c].status \in {"NONE", "PENDING"} /\ UNCHANGED <<work, tried>>
    BY DEF IssueCode, CodeExpires
  <1>3. code' \in [Codes -> CodeRow]
    BY <1>1 DEF CodeInv
  <1>4. \A d \in Codes : code'[d] = IF d = c THEN row ELSE code[d]
    BY <1>1 DEF CodeInv
  <1>5. 0 <= MaxAttempts
    BY AccountAssumption
  <1>6. ASSUME NEW d \in Codes
        PROVE  CodeSound(d)' /\ Counted(d)'
    <2>1. CodeSound(d) /\ Counted(d)
      BY DEF CodeInv
    <2>2. CASE d = c
      BY <1>1, <1>2, <1>4, <1>5, <2>1, <2>2 DEF CodeSound, Counted
    <2>3. CASE d # c
      BY <1>2, <1>4, <2>1, <2>3 DEF CodeSound, Counted
    <2> QED
      BY <2>2, <2>3
  <1>7. ASSUME NEW h \in Handlers
        PROVE  WorkSound(h)'
    BY <1>1, <1>2, <1>4 DEF CodeInv, WorkInv, WorkSound, Verification
  <1> QED
    BY <1>2, <1>3, <1>6, <1>7 DEF CodeInv

LEMMA CodesKept ==
  ASSUME WorkInv, CodeInv, [UserNext]_userVars
  PROVE  CodeInv'
  <1>1. ASSUME UNCHANGED <<code, tried>>,
               \A h \in Handlers : work'[h] # Idle =>
                 \/ work'[h] = work[h]
                 \/ /\ work'[h].seen.status = "PENDING" /\ work'[h].seen.attempts <= MaxAttempts
                    /\ code[work'[h].code].status # "NONE"
        PROVE  CodeInv'
    <2>1. \A h \in Handlers : WorkSound(h)'
      BY <1>1 DEF CodeInv, WorkSound
    <2> QED
      BY <1>1, <2>1 DEF CodeInv, CodeSound, Counted
  <1>2. ASSUME NEW h \in Handlers, NEW c \in Codes, NEW u, VerifyRead(h, c, u)
        PROVE  CodeInv'
    <2>1. PICK right \in BOOLEAN : work' = [work EXCEPT ![h] =
            [op |-> "verify", code |-> c, seen |-> code[c], right |-> right, reset |-> u]]
      BY <1>2 DEF VerifyRead
    <2>2. code[c].status = "PENDING" /\ code[c].attempts <= MaxAttempts
      BY <1>2 DEF VerifyRead, CodeInv, CodeSound
    <2> QED
      BY <1>1, <1>2, <2>1, <2>2 DEF VerifyRead, WorkInv
  <1>3. ASSUME NEW h \in Handlers, ResetWrite(h)
        PROVE  CodeInv'
    BY <1>1, <1>3 DEF ResetWrite, WorkInv
  <1> QED
    BY <1>1, <1>2, <1>3, CodeIssued, CodeWritten
       DEF UserNext, UserStep, userVars, codeVars, OtherRequest, SessionStep, SignInStep, CloseAccount, CodeStep,
           ResetPassword, TabStep, AddressStep

-----------------------------------------------------------------------------
\* The sessions and the codes of the service.
ServiceInv == SessInv /\ WorkInv /\ CodeInv

LEMMA ServiceInvHolds == UserSpec => []ServiceInv
  <1>1. ASSUME UserInit PROVE ServiceInv
    <2>1. SessInit /\ CodesInit
      BY <1>1 DEF UserInit
    <2>2. SessInv
      BY <2>1, SessStart
    <2>3. WorkInv
      BY <2>1 DEF CodesInit, WorkInv, ResetsExist
    <2>4. [status |-> "NONE", attempts |-> 0, due |-> FALSE] \in CodeRow /\ 0 <= MaxAttempts
      BY AccountAssumption DEF CodeRow
    <2>5. CodeInv
      BY <2>1, <2>4 DEF CodesInit, CodeInv, CodeSound, Counted, WorkSound
    <2> QED
      BY <2>2, <2>3, <2>5 DEF ServiceInv
  <1>2. ASSUME ServiceInv, [UserNext]_userVars PROVE ServiceInv'
    <2>1. SessInv'
      BY <1>2, StepOfSessions, SessStep DEF ServiceInv
    <2>2. WorkInv'
      BY <1>2, WorkKept DEF ServiceInv, SessInv, CodeInv
    <2>3. CodeInv'
      BY <1>2, CodesKept DEF ServiceInv
    <2> QED
      BY <2>1, <2>2, <2>3 DEF ServiceInv
  <1> QED
    BY <1>1, <1>2, PTL DEF UserSpec

(***************************************************************************)
(* In the whole service the sessions behave as module Sessions says: a     *)
(* password reset ends them like a logout everywhere, and nothing else     *)
(* comes in between.  What holds of the sessions alone holds here.         *)
(***************************************************************************)
THEOREM ServiceKeepsSessions == UserSpec => SessSpec
  <1>1. UserInit => SessInit
    BY DEF UserInit
  <1>2. ServiceInv /\ [UserNext]_userVars => [SessNext]_sessVars
    BY StepOfSessions DEF ServiceInv
  <1> QED
    BY <1>1, <1>2, ServiceInvHolds, PTL DEF UserSpec, SessSpec

\* The codes and the requests about them have their types.
THEOREM CodesTyped == UserSpec => []CodesTypeOK
  <1>1. ServiceInv => CodesTypeOK
    BY DEF ServiceInv, WorkInv, CodeInv, CodesTypeOK
  <1> QED
    BY <1>1, ServiceInvHolds, PTL

(***************************************************************************)
(* verify_code: a code that no two requests worked on at the same time is  *)
(* compared with at most max_attempts guesses and passes once.             *)
(***************************************************************************)
THEOREM GuessesAreLimited == UserSpec => []GuessesLimited
  <1>1. ServiceInv => GuessesLimited
    BY DEF ServiceInv, CodeInv, Counted, GuessesLimited
  <1> QED
    BY <1>1, ServiceInvHolds, PTL

-----------------------------------------------------------------------------
(***************************************************************************)
(*                              The addresses                              *)
(***************************************************************************)
\* What a request changes or deletes was read as a row.
TaskOfRow ==
  \A h \in Clerks : task[h].op \in {"change", "delete"} => addr[task[h].address] # NoRow

\* OneDefault, pair by pair.
SameDefault ==
  \A a, b \in AddrIds :
    /\ ~addr[a].deleted /\ addr[a].default /\ ~addr[b].deleted /\ addr[b].default
    /\ addr[a].owner = addr[b].owner
    => a = b

AddrInv == AddrTypeOK /\ TaskOfRow /\ SameDefault

\* What a step of the service may do to the addresses.
AddrMove ==
  \/ \E h \in Clerks, u \in Owners : AddrRead(h, u)
  \/ \E h \in Clerks : AddrWrite(h)
  \/ \E u : DeleteAll(u) /\ UNCHANGED task

LEMMA StepIsAddrMove ==
  ASSUME [UserNext]_userVars
  PROVE  AddrMove \/ UNCHANGED addrVars
  BY DEF UserNext, UserStep, userVars, addrVars, OtherRequest, SessionStep, SignInStep, CloseAccount, CodeStep,
         ResetPassword, TabStep, AddressStep, AddrMove

LEMMA RowsDiffer == \A r \in AddrRow : r # NoRow
  BY DEF AddrRow, NoRow

LEMMA TaskTyped ==
  ASSUME NEW t \in Task
  PROVE  /\ t.op = "add" => t.owner \in Owners /\ t.default \in BOOLEAN
         /\ t.op = "change" => t.address \in AddrIds /\ t.seen \in Nat /\ t.default \in BOOLEAN
         /\ t.op = "delete" => t.address \in AddrIds
  BY DEF Task, Free

\* Reads.
LEMMA AddrReadKeeps ==
  ASSUME AddrInv, NEW h \in Clerks, NEW u \in Owners, AddrRead(h, u)
  PROVE  AddrInv' /\ UNCHANGED addr
  <1>1. addr \in [AddrIds -> AddrRow \cup {NoRow}] /\ task \in [Clerks -> Task]
    BY DEF AddrInv, AddrTypeOK
  <1>2. ASSUME NEW t \in Task, task' = [task EXCEPT ![h] = t], UNCHANGED addr,
               t.op \in {"change", "delete"} => addr[t.address] # NoRow
        PROVE  AddrInv' /\ UNCHANGED addr
    BY <1>1, <1>2 DEF AddrInv, AddrTypeOK, TaskOfRow, SameDefault
  <1>3. ASSUME NEW asked \in BOOLEAN, AddRead(h, u, asked)
        PROVE  AddrInv' /\ UNCHANGED addr
    <2> DEFINE b == asked \/ Live(u) = {}
               t == [op |-> "add", owner |-> u, default |-> b]
    <2>1. b \in BOOLEAN
      OBVIOUS
    <2> HIDE DEF b
    <2>2. t \in Task /\ t.op = "add"
      BY <2>1 DEF Task
    <2>3. task' = [task EXCEPT ![h] = t] /\ UNCHANGED addr
      BY <1>3 DEF AddRead, b
    <2> HIDE DEF t
    <2> QED
      BY <1>2, <2>2, <2>3
  <1>4. ASSUME NEW a \in Live(u), NEW default \in BOOLEAN, OpenChange(h, a, default)
        PROVE  AddrInv' /\ UNCHANGED addr
    <2> DEFINE b == default /\ ~addr[a].default
               v == addr[a].version
               t == [op |-> "change", address |-> a, seen |-> v, default |-> b]
    <2>1. a \in AddrIds /\ addr[a] \in AddrRow
      BY <1>1 DEF Live, NoRow
    <2>2. b \in BOOLEAN /\ v \in Nat
      BY <2>1 DEF AddrRow
    <2>3. task' = [task EXCEPT ![h] = t] /\ UNCHANGED addr
      BY <1>4 DEF OpenChange
    <2> HIDE DEF b, v
    <2>4. t \in Task /\ t.address = a
      BY <2>1, <2>2 DEF Task
    <2> HIDE DEF t
    <2> QED
      BY <1>2, <2>1, <2>3, <2>4, RowsDiffer
  <1>5. ASSUME NEW a \in Live(u), DeleteRead(h, a)
        PROVE  AddrInv' /\ UNCHANGED addr
    <2> DEFINE t == [op |-> "delete", address |-> a]
    <2>1. a \in AddrIds /\ addr[a] \in AddrRow
      BY <1>1 DEF Live, NoRow
    <2>2. t \in Task /\ t.address = a
      BY <2>1 DEF Task
    <2>3. task' = [task EXCEPT ![h] = t] /\ UNCHANGED addr
      BY <1>5 DEF DeleteRead
    <2> HIDE DEF t
    <2> QED
      BY <1>2, <2>1, <2>2, <2>3, RowsDiffer
  <1> QED
    BY <1>3, <1>4, <1>5 DEF AddrRead, SetDefaultRead, UpdateRead

(***************************************************************************)
(* A write of one address: rows of other owners and deleted rows stay, the *)
(* other live rows of its owner stay or lose their flag.                   *)
(***************************************************************************)
Written(a, row, cleared) ==
  addr' = [(IF cleared THEN Cleared(row.owner) ELSE addr) EXCEPT ![a] = row]

LEMMA ClearedTyped ==
  ASSUME AddrTypeOK, NEW u
  PROVE  /\ Cleared(u) \in [AddrIds -> AddrRow \cup {NoRow}]
         /\ \A a \in AddrIds :
              /\ a \notin Live(u) => Cleared(u)[a] = addr[a]
              /\ a \in Live(u) => /\ Cleared(u)[a] = [addr[a] EXCEPT !.default = FALSE]
                                  /\ Cleared(u)[a] \in AddrRow
                                  /\ ~Cleared(u)[a].default /\ ~Cleared(u)[a].deleted
                                  /\ Cleared(u)[a].owner = u
  <1>1. ASSUME NEW a \in AddrIds
        PROVE  /\ a \notin Live(u) => Cleared(u)[a] = addr[a]
               /\ a \in Live(u) => /\ Cleared(u)[a] = [addr[a] EXCEPT !.default = FALSE]
                                   /\ Cleared(u)[a] \in AddrRow
                                   /\ ~Cleared(u)[a].default /\ ~Cleared(u)[a].deleted
                                   /\ Cleared(u)[a].owner = u
    <2>1. CASE a \notin Live(u)
      BY <2>1 DEF Cleared
    <2>2. CASE a \in Live(u)
      <3>1. addr[a] \in AddrRow /\ ~addr[a].deleted /\ addr[a].owner = u
        BY <2>2 DEF AddrTypeOK, Live, NoRow
      <3>2. Cleared(u)[a] = [addr[a] EXCEPT !.default = FALSE]
        BY <2>2 DEF Cleared
      <3> QED
        BY <2>2, <3>1, <3>2 DEF AddrRow
    <2> QED
      BY <2>1, <2>2
  <1>2. \A a \in AddrIds : Cleared(u)[a] \in AddrRow \cup {NoRow}
    BY <1>1 DEF AddrTypeOK
  <1>3. Cleared(u) = [a \in AddrIds |-> Cleared(u)[a]]
    BY DEF Cleared
  <1> QED
    BY <1>1, <1>2, <1>3

\* What DefaultMoves says of the step.
FlagMoves ==
  \A a \in AddrIds :
    ~addr[a].deleted /\ addr[a].default /\ ~addr'[a].deleted /\ ~addr'[a].default
    => \E b \in AddrIds : b # a /\ addr'[b] # NoRow /\ addr'[b].owner = addr[a].owner
                          /\ addr'[b].default /\ (addr'[b].deleted => addr[b].deleted)

LEMMA WrittenKeeps ==
  ASSUME AddrInv, NEW h \in Clerks, task' = [task EXCEPT ![h] = Free],
         NEW a \in AddrIds, NEW row \in AddrRow, NEW cleared \in BOOLEAN, Written(a, row, cleared),
         cleared => row.default /\ (row.deleted => addr[a].deleted),
         ~addr[a].deleted /\ addr[a].default => row.default,
         ~row.deleted /\ row.default /\ ~cleared =>
           ~addr[a].deleted /\ addr[a].default /\ addr[a].owner = row.owner
  PROVE  AddrInv' /\ FlagMoves
  <1> DEFINE u == row.owner
             base == IF cleared THEN Cleared(u) ELSE addr
  <1>0. addr \in [AddrIds -> AddrRow \cup {NoRow}] /\ task \in [Clerks -> Task] /\ AddrTypeOK
    BY DEF AddrInv, AddrTypeOK
  <1>1. base \in [AddrIds -> AddrRow \cup {NoRow}]
    BY <1>0, ClearedTyped
  <1>2. addr' \in [AddrIds -> AddrRow \cup {NoRow}] /\ addr'[a] = row
        /\ \A b \in AddrIds : b # a => addr'[b] = base[b]
    BY <1>1 DEF Written
  <1>3. ASSUME NEW b \in AddrIds, b # a
        PROVE  \/ addr'[b] = addr[b] /\ (cleared => b \notin Live(u))
               \/ /\ cleared /\ b \in Live(u) /\ addr'[b] \in AddrRow
                  /\ ~addr'[b].default /\ addr'[b].owner = u
    <2>1. addr'[b] = IF cleared THEN Cleared(u)[b] ELSE addr[b]
      BY <1>2, <1>3
    <2> HIDE DEF u, base
    <2>5. /\ b \notin Live(u) => Cleared(u)[b] = addr[b]
          /\ b \in Live(u) => /\ Cleared(u)[b] \in AddrRow
                              /\ ~Cleared(u)[b].default /\ Cleared(u)[b].owner = u
      BY <1>0, ClearedTyped
    <2>2. CASE cleared /\ b \in Live(u)
      BY <2>1, <2>2, <2>5
    <2>3. CASE cleared /\ b \notin Live(u)
      BY <2>1, <2>3, <2>5
    <2>4. CASE ~cleared
      BY <2>1, <2>4
    <2> QED
      BY <2>2, <2>3, <2>4
  <1>4. row # NoRow
    BY RowsDiffer
  <1>5. \A b \in AddrIds : addr[b] # NoRow => addr'[b] # NoRow
    BY <1>2, <1>3, <1>4, RowsDiffer
  <1> HIDE DEF u, base
  <1>6. AddrTypeOK'
    <2>1. Free \in Task
      BY DEF Task
    <2> QED
      BY <1>0, <1>2, <2>1 DEF AddrTypeOK
  <1>7. TaskOfRow'
    <2>1. \A g \in Clerks : task'[g] = task[g] \/ task'[g] = Free
      BY <1>0
    <2>2. \A g \in Clerks : task[g] \in Task
      BY <1>0
    <2> QED
      BY <1>5, <2>1, <2>2, TaskTyped DEF AddrInv, TaskOfRow, Free
  <1>8. SameDefault'
    <2>1. ASSUME NEW b \in AddrIds, b # a,
                 ~addr'[b].deleted, addr'[b].default, addr'[b].owner = row.owner,
                 ~row.deleted, row.default
          PROVE  FALSE
      <3>1. addr'[b] = addr[b] /\ (cleared => b \notin Live(u))
        BY <1>3, <2>1
      <3>2. ~cleared
        BY <2>1, <3>1 DEF Live, u
      <3> QED
        BY <2>1, <3>1, <3>2 DEF AddrInv, SameDefault
    <2>2. ASSUME NEW b \in AddrIds, NEW c \in AddrIds, b # a, c # a,
                 ~addr'[b].deleted, addr'[b].default, ~addr'[c].deleted, addr'[c].default,
                 addr'[b].owner = addr'[c].owner
          PROVE  b = c
      BY <1>3, <2>2 DEF AddrInv, SameDefault
    <2> QED
      BY <1>2, <2>1, <2>2 DEF SameDefault
  <1>9. FlagMoves
    <2> SUFFICES ASSUME NEW b \in AddrIds, ~addr[b].deleted, addr[b].default,
                        ~addr'[b].deleted, ~addr'[b].default
                 PROVE  \E c \in AddrIds :
                          c # b /\ addr'[c] # NoRow /\ addr'[c].owner = addr[b].owner
                          /\ addr'[c].default /\ (addr'[c].deleted => addr[c].deleted)
      BY DEF FlagMoves
    <2>1. b # a
      BY <1>2
    <2>2. cleared /\ b \in Live(u)
      BY <1>3, <2>1
    <2>3. addr[b].owner = row.owner
      BY <2>2 DEF Live, u
    <2> QED
      BY <1>2, <1>4, <2>1, <2>2, <2>3
  <1> QED
    BY <1>6, <1>7, <1>8, <1>9 DEF AddrInv

LEMMA AddrWriteKeeps ==
  ASSUME AddrInv, NEW h \in Clerks, AddrWrite(h)
  PROVE  AddrInv' /\ FlagMoves
  <1>0. addr \in [AddrIds -> AddrRow \cup {NoRow}] /\ task[h] \in Task
    BY DEF AddrInv, AddrTypeOK
  <1>1. ASSUME NEW a \in AddrIds, AddWrite(h, a)
        PROVE  AddrInv' /\ FlagMoves
    <2> DEFINE u == task[h].owner
               d == task[h].default
               row == [owner |-> u, default |-> d, deleted |-> FALSE, version |-> 1]
    <2>1. u \in Owners /\ d \in BOOLEAN
      BY <1>0, <1>1, TaskTyped DEF AddWrite
    <2>2. row \in AddrRow /\ row.owner = u /\ row.default = d /\ ~row.deleted
      BY <2>1 DEF AddrRow
    <2>3. /\ addr' = [(IF d THEN Cleared(row.owner) ELSE addr) EXCEPT ![a] = row]
          /\ task' = [task EXCEPT ![h] = Free]
      BY <1>1 DEF AddWrite
    <2>4. addr[a].deleted
      BY <1>1 DEF AddWrite, NoRow
    <2> HIDE DEF d, row
    <2> QED
      BY <2>1, <2>2, <2>3, <2>4, WrittenKeeps DEF Written
  <1>2. CASE ChangeWrite(h)
    <2>1. PICK a \in AddrIds : a = task[h].address
      BY <1>0, <1>2, TaskTyped DEF ChangeWrite
    <2>2. addr[a] \in AddrRow /\ task[h].seen \in Nat /\ task[h].default \in BOOLEAN
      BY <1>0, <1>2, <2>1, TaskTyped DEF ChangeWrite, AddrInv, TaskOfRow
    <2>3. task[h].seen + 1 \in Nat
      BY <2>2
    <2>4. CASE task[h].default
      <3> DEFINE row == [addr[a] EXCEPT !.version = task[h].seen + 1, !.default = TRUE]
                 base == Cleared(addr[a].owner)
      <3>1. row \in AddrRow /\ row.owner = addr[a].owner /\ row.default
            /\ row.deleted = addr[a].deleted
        BY <2>2, <2>3 DEF AddrRow
      <3>2. addr' = [base EXCEPT ![a].version = task[h].seen + 1, ![a].default = TRUE]
            /\ task' = [task EXCEPT ![h] = Free]
        BY <1>2, <2>1, <2>4 DEF ChangeWrite
      <3>3. base \in [AddrIds -> AddrRow \cup {NoRow}]
            /\ (base[a] = addr[a] \/ base[a] = [addr[a] EXCEPT !.default = FALSE])
        BY ClearedTyped DEF AddrInv
      <3>4. [base[a] EXCEPT !.version = task[h].seen + 1, !.default = TRUE] = row
        BY <2>2, <3>3 DEF AddrRow
      <3>5. addr' = [base EXCEPT ![a] = [base[a] EXCEPT !.version = task[h].seen + 1, !.default = TRUE]]
        BY <3>2, <3>3
      <3> HIDE DEF row
      <3>6. Written(a, row, TRUE)
        BY <3>1, <3>4, <3>5 DEF Written
      <3> QED
        BY <2>4, <3>1, <3>2, <3>6, WrittenKeeps
    <2>5. CASE ~task[h].default
      <3> DEFINE row == [addr[a] EXCEPT !.version = task[h].seen + 1]
      <3>1. row \in AddrRow /\ row.owner = addr[a].owner /\ row.default = addr[a].default
            /\ row.deleted = addr[a].deleted
        BY <2>2, <2>3 DEF AddrRow
      <3>2. addr' = [addr EXCEPT ![a] = row] /\ task' = [task EXCEPT ![h] = Free]
        BY <1>2, <2>1, <2>5 DEF ChangeWrite
      <3> HIDE DEF row
      <3>3. Written(a, row, FALSE)
        BY <3>2 DEF Written
      <3> QED
        BY <3>1, <3>2, <3>3, WrittenKeeps
    <2> QED
      BY <2>4, <2>5
  <1>3. CASE DeleteWrite(h)
    <2>1. PICK a \in AddrIds : a = task[h].address
      BY <1>0, <1>3, TaskTyped DEF DeleteWrite
    <2>2. addr[a] \in AddrRow
      BY <1>0, <1>3, <2>1 DEF DeleteWrite, AddrInv, TaskOfRow
    <2> DEFINE row == [addr[a] EXCEPT !.deleted = TRUE]
    <2>3. row \in AddrRow /\ row.default = addr[a].default /\ row.deleted
      BY <2>2 DEF AddrRow
    <2>4. addr' = [addr EXCEPT ![a] = row] /\ task' = [task EXCEPT ![h] = Free]
      BY <1>3, <2>1 DEF DeleteWrite
    <2> HIDE DEF row
    <2>5. Written(a, row, FALSE)
      BY <2>4 DEF Written
    <2> QED
      BY <2>3, <2>4, <2>5, WrittenKeeps
  <1> QED
    BY <1>1, <1>2, <1>3 DEF AddrWrite

LEMMA DeleteAllKeeps ==
  ASSUME AddrInv, NEW u, DeleteAll(u), UNCHANGED task
  PROVE  AddrInv' /\ FlagMoves
  <1>1. ASSUME NEW a \in AddrIds
        PROVE  \/ addr'[a] = addr[a]
               \/ addr'[a] \in AddrRow /\ addr'[a].deleted
    <2>1. CASE a \in Live(u)
      <3>1. addr[a] \in AddrRow
        BY <2>1 DEF AddrInv, AddrTypeOK, Live, NoRow
      <3>2. addr'[a] = [addr[a] EXCEPT !.deleted = TRUE]
        BY <2>1 DEF DeleteAll
      <3> QED
        BY <3>1, <3>2 DEF AddrRow
    <2>2. CASE a \notin Live(u)
      BY <2>2 DEF DeleteAll
    <2> QED
      BY <2>1, <2>2
  <1>2. addr' = [a \in AddrIds |-> addr'[a]]
    BY DEF DeleteAll
  <1>3. AddrTypeOK'
    <2>1. \A a \in AddrIds : addr'[a] \in AddrRow \cup {NoRow}
      BY <1>1 DEF AddrInv, AddrTypeOK
    <2> QED
      BY <1>2, <2>1 DEF AddrInv, AddrTypeOK
  <1>4. TaskOfRow'
    BY <1>1, RowsDiffer, TaskTyped DEF AddrInv, AddrTypeOK, TaskOfRow
  <1>5. SameDefault' /\ FlagMoves
    BY <1>1 DEF AddrInv, SameDefault, FlagMoves
  <1> QED
    BY <1>3, <1>4, <1>5 DEF AddrInv

LEMMA AddrStep ==
  ASSUME AddrInv, [UserNext]_userVars
  PROVE  AddrInv' /\ FlagMoves
  <1>1. CASE UNCHANGED addrVars
    BY <1>1 DEF addrVars, AddrInv, AddrTypeOK, TaskOfRow, SameDefault, FlagMoves
  <1>2. ASSUME NEW h \in Clerks, NEW u \in Owners, AddrRead(h, u)
        PROVE  AddrInv' /\ FlagMoves
    BY <1>2, AddrReadKeeps DEF FlagMoves
  <1>3. ASSUME NEW h \in Clerks, AddrWrite(h)
        PROVE  AddrInv' /\ FlagMoves
    BY <1>3, AddrWriteKeeps
  <1> QED
    BY <1>1, <1>2, <1>3, StepIsAddrMove, DeleteAllKeeps DEF AddrMove

LEMMA AddrInvHolds == UserSpec => []AddrInv
  <1>1. ASSUME UserInit PROVE AddrInv
    <2>1. AddrInit
      BY <1>1 DEF UserInit
    <2> QED
      BY <2>1 DEF AddrInit, AddrInv, AddrTypeOK, TaskOfRow, SameDefault, Task, Free, NoRow
  <1>2. AddrInv /\ [UserNext]_userVars => AddrInv'
    BY AddrStep
  <1> QED
    BY <1>1, <1>2, PTL DEF UserSpec

\* The addresses and the requests about them have their types.
THEOREM AddressesTyped == UserSpec => []AddrTypeOK
  <1>1. AddrInv => AddrTypeOK
    BY DEF AddrInv
  <1> QED
    BY <1>1, AddrInvHolds, PTL

\* add_address, update_address, set_default, delete_address, close_account:
\* however they interleave, a user has at most one default address.
THEOREM AtMostOneDefault == UserSpec => []OneDefault
  <1>1. AddrInv => OneDefault
    <2> SUFFICES ASSUME AddrInv, NEW u \in Owners
                 PROVE  Cardinality({a \in Live(u) : addr[a].default}) <= 1
      BY DEF OneDefault
    <2> DEFINE D == {a \in Live(u) : addr[a].default}
    <2>1. \A a, b \in D : a = b
      BY DEF AddrInv, SameDefault, Live
    <2> HIDE DEF D
    <2>2. D = {} => Cardinality(D) <= 1
      BY FS_EmptySet
    <2>3. ASSUME NEW a \in D
          PROVE  Cardinality(D) <= 1
      <3>1. D = {a}
        BY <2>1
      <3>2. Cardinality({a}) = 1
        BY FS_Singleton
      <3> QED
        BY <3>1, <3>2
    <2>4. Cardinality(D) <= 1
      BY <2>2, <2>3
    <2> QED
      BY <2>4 DEF D
  <1> QED
    BY <1>1, AddrInvHolds, PTL

\* clear_defaults comes with the write of another default: the flag is moved,
\* never dropped, unless its new place was deleted since it was read.
THEOREM DefaultIsMoved == UserSpec => DefaultMoves
  <1>1. AddrInv /\ [UserNext]_userVars => FlagMoves
    BY AddrStep
  <1> QED
    BY <1>1, AddrInvHolds, PTL DEF UserSpec, DefaultMoves, FlagMoves

-----------------------------------------------------------------------------
(***************************************************************************)
(*                          A blocked account                              *)
(*                                                                         *)
(* What is left of the account of u when it is Gone, and remains so while  *)
(* it is blocked: requests for it may begin, but none that is answered     *)
(* with tokens, and no call of the tab is let through with a token of u.   *)
(***************************************************************************)
\* A call was sent with a pair the tab had been given.
AskPairs == \A c \in Calls : ask[c].pair \in 0..Len(pairs)

GoneInv == AskPairs /\ gone \subseteq Owners /\ \A u \in gone : Gone(u)

SignIns == {"register", "login", "refresh"}

LEMMA RequestLeft ==
  ASSUME SessInv, NEW u \in Users, user[u].status \in Blocked, NoSignIn(u),
         [SessNext]_sessVars
  PROVE  NoSignIn(u)'
  <1>0. SessTypeOK /\ \A h \in Handlers : req[h] \in Request \cup {Idle}
    BY DEF SessInv, SessTypeOK
  <1>1. CASE UNCHANGED req
    BY <1>1 DEF NoSignIn
  <1>2. ASSUME NEW h \in Handlers, NEW op \in Ops, NEW v \in Users,
               NEW t \in TokenIds \cup {0}, Begin(h, op, v, t),
               op \in SignIns => v # u
        PROVE  NoSignIn(u)'
    <2>1. req' = [req EXCEPT ![h] = req'[h]] /\ req'[h].user = v /\ req'[h].op = op
      BY <1>0, <1>2, BeginTyped
    <2>2. \A g \in Handlers : g # h => req'[g] = req[g]
      BY <1>0, <2>1 DEF SessTypeOK
    <2> QED
      BY <1>2, <2>1, <2>2 DEF NoSignIn, SignIns
  <1>3. ASSUME NEW h \in Handlers, End(h) PROVE NoSignIn(u)'
    BY <1>0, <1>3, EndTyped DEF NoSignIn
  <1>4. ASSUME NEW h, NEW v \in Users, Overtaken(v, h) PROVE NoSignIn(u)'
    BY <1>0, <1>4, OvertakenTyped DEF NoSignIn
  <1>5. ASSUME NEW h \in Handlers, NEW v \in Users,
               RegisterRead(h, v) \/ LoginRead(h, v) \/ SetStatusRead(h, v) \/ CloseRead(h, v)
        PROVE  NoSignIn(u)'
    <2>1. \E op \in Ops : Begin(h, op, v, 0) /\ (op \in SignIns => v # u)
      BY <1>5 DEF RegisterRead, LoginRead, SetStatusRead, CloseRead, Blocked, Ops, SignIns
    <2> QED
      BY <1>2, <2>1
  <1>6. ASSUME NEW h \in Handlers, NEW t \in TokenIds, RefreshRow(h, t) \/ LogoutRead(h, t)
        PROVE  NoSignIn(u)'
    <2>1. token[t].user \in Users
      BY <1>6 DEF RefreshRow, LogoutRead, SessInv, RowInv, Owned
    <2>2. \E op \in Ops : Begin(h, op, token[t].user, t) /\ op \notin SignIns
      BY <1>6 DEF RefreshRow, LogoutRead, Ops, SignIns
    <2> QED
      BY <1>2, <2>1, <2>2
  <1>7. ASSUME NEW h \in Handlers, NEW t \in TokenIds,
               RegisterWrite(h, t) \/ LoginSucceeds(h, t) \/ RefreshWrite(h, t)
        PROVE  NoSignIn(u)'
    BY <1>3, <1>7 DEF RegisterWrite, LoginSucceeds, RefreshWrite
  <1>8. ASSUME NEW h \in Handlers,
               RegisterFails(h) \/ LoginFails(h) \/ LogoutWrite(h) \/ Enable(h)
        PROVE  NoSignIn(u)'
    BY <1>3, <1>8 DEF RegisterFails, LoginFails, LogoutWrite, Enable
  <1>9. ASSUME NEW h \in Handlers, Disable(h) \/ CloseWrite(h)
        PROVE  NoSignIn(u)'
    <2>1. req[h].user \in Users /\ Overtaken(req[h].user, h)
      BY <1>0, <1>9, RequestOf DEF Disable, CloseWrite, Request
    <2> QED
      BY <1>4, <2>1
  <1>10. ASSUME NEW h \in Handlers, RefreshUser(h)
         PROVE  NoSignIn(u)'
    <2>1. req[h] \in Request
      BY <1>0, <1>10, RequestOf DEF RefreshUser
    <2>2. CASE user[req[h].user].status \in Blocked
      BY <1>3, <1>10, <2>2 DEF RefreshUser
    <2>3. CASE user[req[h].user].status \notin Blocked
      <3> DEFINE new == [req[h] EXCEPT !.op = "refresh", !.overtaken = FALSE]
      <3>1. req' = [req EXCEPT ![h] = new]
        BY <1>10, <2>3 DEF RefreshUser
      <3>2. new.user = req[h].user /\ req[h].user # u
        BY <2>1, <2>3 DEF Request
      <3> HIDE DEF new
      <3>3. \A g \in Handlers : req'[g] = IF g = h THEN new ELSE req[g]
        BY <1>0, <3>1 DEF SessTypeOK
      <3> QED
        BY <3>2, <3>3 DEF NoSignIn
    <2> QED
      BY <2>2, <2>3
  <1>11. ASSUME NEW t \in TokenIds, Replay(t) PROVE NoSignIn(u)'
    <2>1. token[t].user \in Users
      BY <1>11 DEF Replay, SessInv, RowInv, Owned
    <2> QED
      BY <1>4, <1>11, <2>1 DEF Replay
  <1>12. ASSUME NEW v \in Users, LogoutAll(v) \/ ChangePassword(v) PROVE NoSignIn(u)'
    BY <1>4, <1>12 DEF LogoutAll, ChangePassword
  <1>13. ASSUME NEW v \in Users, LockExpires(v) PROVE NoSignIn(u)'
    BY <1>1, <1>13 DEF LockExpires
  <1> QED
    BY <1>1, <1>5, <1>6, <1>7, <1>8, <1>9, <1>10, <1>11, <1>12, <1>13 DEF SessNext, sessVars

LEMMA PairLeft ==
  ASSUME TabInv, NEW v, pairs' = Append(pairs, v), UNCHANGED expired,
         NEW u, v # u, NoAccess(u)
  PROVE  NoAccess(u)'
  <1>1. PICK S : pairs \in Seq(S)
    BY DEF TabInv, TabTyped, PairsTyped
  <1>2. Len(pairs') = Len(pairs) + 1 /\ Len(pairs) \in Nat
    BY <1>1
  <1>3. \A n \in 1..Len(pairs) : pairs'[n] = pairs[n]
    BY <1>1
  <1>4. pairs'[Len(pairs) + 1] = v
    BY <1>1
  <1> QED
    BY <1>2, <1>3, <1>4 DEF NoAccess

\* The tab is given no pair of an account of which nothing is left.
LEMMA AccessLeft ==
  ASSUME TabInv, NEW u \in Users, Gone(u), UserStep
  PROVE  NoAccess(u)'
  <1>1. ASSUME UNCHANGED pairs, expired \subseteq expired'
        PROVE  NoAccess(u)'
    BY <1>1 DEF Gone, NoAccess
  <1>2. ASSUME NEW h \in Handlers, AnswerLogin(h)
        PROVE  NoAccess(u)'
    <2>1. ASSUME NEW t \in TokenIds, LoginSucceeds(h, t), LogIn(h, req[h].user)
          PROVE  NoAccess(u)'
      <3>1. req[h].user # u
        BY <2>1 DEF LoginSucceeds, Gone, NoSignIn
      <3> QED
        BY <2>1, <3>1, PairLeft DEF LogIn, Gone
    <2> QED
      BY <1>1, <1>2, <2>1 DEF AnswerLogin, DenyLogin, tabVars
  <1>3. ASSUME NEW h \in Handlers, AnswerRefresh(h)
        PROVE  NoAccess(u)'
    <2>1. PICK t \in TokenIds : RefreshWrite(h, t)
      BY <1>3 DEF AnswerRefresh
    <2>2. CASE pairs[refreshing] = req[h].user /\ Refreshed
      <3>1. pairs[refreshing] # u
        BY <2>1, <2>2 DEF RefreshWrite, Gone, NoSignIn
      <3> QED
        BY <2>2, <3>1, PairLeft DEF Refreshed, Gone
    <2> QED
      BY <1>1, <1>3, <2>2 DEF AnswerRefresh, tabVars
  <1>4. CASE SignInStep
    BY <1>1, <1>2, <1>3, <1>4 DEF SignInStep, BeginLogin, Forward
  <1>5. CASE TabStep
    BY <1>1, <1>5
       DEF TabStep, Send, Forward, TurnAway, Finish, Await, AccessExpires, LogOut,
           Unload, NotRefreshed
  <1>6. CASE AddressStep
    BY <1>1, <1>6 DEF AddressStep, Forward, tabVars
  <1> QED
    BY <1>1, <1>4, <1>5, <1>6
       DEF UserStep, OtherRequest, SessionStep, CloseAccount, CodeStep, ResetPassword, tabVars

LEMMA AskPairsKept ==
  ASSUME TabInv, AskPairs, TabMove \/ UNCHANGED tabVars
  PROVE  AskPairs'
  <1>0. /\ ask \in [Calls -> Call] /\ Len(pairs) \in Nat /\ store \in 0..Len(pairs)
        /\ \A c \in Calls : ask[c] \in Call
    BY DEF TabInv, TabTyped, TabTypeOK
  <1>1. ASSUME UNCHANGED pairs,
               \A c \in Calls : ask'[c].pair \in {ask[c].pair, 0, store}
        PROVE  AskPairs'
    BY <1>0, <1>1 DEF AskPairs
  <1>2. ASSUME NEW c \in Calls, NEW route \in Routes,
               Send(c, route) \/ Forward(c) \/ TurnAway(c) \/ DenyLogin(c)
               \/ Finish(c) \/ Await(c)
        PROVE  AskPairs'
    <2>1. ASSUME NEW d \in Calls
          PROVE  ask'[d].pair \in {ask[d].pair, 0, store}
      <3>1. CASE Send(c, route)
        BY <1>0, <3>1 DEF Send, NoCall
      <3>2. CASE Forward(c)
        BY <1>0, <3>2 DEF Forward, Call
      <3>3. CASE TurnAway(c) \/ DenyLogin(c) \/ Await(c)
        BY <1>0, <3>3 DEF TurnAway, DenyLogin, Await, Call
      <3>4. CASE Finish(c)
        BY <1>0, <3>4 DEF Finish, NoCall
      <3> QED
        BY <1>2, <3>1, <3>2, <3>3, <3>4
    <2>2. UNCHANGED pairs
      BY <1>2 DEF Send, Forward, TurnAway, DenyLogin, Finish, Await
    <2> QED
      BY <1>1, <2>1, <2>2
  <1>3. CASE Unload \/ NotRefreshed
    <2>1. ASSUME NEW c \in Calls
          PROVE  ask'[c] = ask[c] \/ ask'[c] = NoCall
      BY <1>3 DEF Unload, NotRefreshed
    <2>2. NoCall.pair = 0 /\ UNCHANGED pairs
      BY <1>3 DEF Unload, NotRefreshed, NoCall
    <2>3. ASSUME NEW c \in Calls
          PROVE  ask'[c].pair \in {ask[c].pair, 0, store}
      BY <2>1, <2>2
    <2> QED
      BY <1>1, <2>2, <2>3
  <1>4. CASE Refreshed
    <2>1. Len(pairs)' = Len(pairs) + 1
      BY <1>4, NewPair DEF Refreshed, TabInv
    <2>3. ASSUME NEW x \in Call, NEW n PROVE Repeated(x, n).pair = n
      BY DEF Repeated, Call
    <2>4. ask' = Resumed(Len(pairs) + 1)
      BY <1>4 DEF Refreshed
    <2>2. ASSUME NEW c \in Calls
          PROVE  ask'[c].pair \in {ask[c].pair, Len(pairs) + 1}
      BY <1>0, <2>3, <2>4 DEF Resumed
    <2> QED
      BY <1>0, <2>1, <2>2 DEF AskPairs
  <1>5. ASSUME NEW c \in Calls, NEW v, LogIn(c, v)
        PROVE  AskPairs'
    <2>1. Len(pairs)' = Len(pairs) + 1 /\ ask' = [ask EXCEPT ![c] = NoCall] /\ NoCall.pair = 0
      BY <1>5, NewPair DEF LogIn, TabInv, NoCall
    <2>2. \A d \in Calls : ask'[d].pair \in {ask[d].pair, 0}
      BY <1>0, <2>1
    <2> QED
      BY <1>0, <2>1, <2>2 DEF AskPairs
  <1> QED
    BY <1>1, <1>2, <1>3, <1>4, <1>5 DEF TabMove, Routes, tabVars, AccessExpires, LogOut

\* No address is given to an owner nobody adds one for.
LEMMA LiveShrinks ==
  ASSUME AddrInv, NEW u, NoAdd(u), AddrMove \/ UNCHANGED addrVars
  PROVE  Live(u)' \subseteq Live(u)
  <1>0. addr \in [AddrIds -> AddrRow \cup {NoRow}] /\ task \in [Clerks -> Task] /\ AddrTypeOK
    BY DEF AddrInv, AddrTypeOK
  <1>1. ASSUME NEW v, NEW a \in AddrIds
        PROVE  /\ Cleared(v)[a].deleted = addr[a].deleted
               /\ ~addr[a].deleted => Cleared(v)[a].owner = addr[a].owner
    <2>3. /\ a \notin Live(v) => Cleared(v)[a] = addr[a]
          /\ a \in Live(v) => /\ Cleared(v)[a] = [addr[a] EXCEPT !.default = FALSE]
                              /\ Cleared(v)[a] \in AddrRow
      BY <1>0, ClearedTyped
    <2>1. CASE a \in Live(v)
      <3>1. addr[a] \in AddrRow
        BY <1>0, <2>1 DEF Live, NoRow
      <3> QED
        BY <2>1, <2>3, <3>1 DEF AddrRow
    <2>2. CASE a \notin Live(v)
      BY <2>2, <2>3
    <2> QED
      BY <2>1, <2>2
  <1>2. ASSUME NEW a \in AddrIds, ~addr'[a].deleted, addr'[a].owner = u,
               NEW base, base = addr \/ \E v : base = Cleared(v),
               addr'[a].deleted = base[a].deleted, addr'[a].owner = base[a].owner
        PROVE  a \in Live(u)
    BY <1>1, <1>2 DEF Live
  <1>3. CASE UNCHANGED addr
    BY <1>3 DEF Live
  <1>4. ASSUME NEW h \in Clerks, AddrWrite(h)
        PROVE  Live(u)' \subseteq Live(u)
    <2> SUFFICES ASSUME NEW x \in AddrIds, ~addr'[x].deleted, addr'[x].owner = u
                 PROVE  x \in Live(u)
      BY DEF Live
    <2>0. task[h] \in Task
      BY <1>0
    <2>1. ASSUME NEW a \in AddrIds, AddWrite(h, a)
          PROVE  x \in Live(u)
      <3> DEFINE v == task[h].owner
                 base == IF task[h].default THEN Cleared(v) ELSE addr
      <3>1. v # u
        BY <2>1 DEF AddWrite, NoAdd
      <3>2. base \in [AddrIds -> AddrRow \cup {NoRow}]
        BY <1>0, ClearedTyped
      <3>3. addr' = [base EXCEPT ![a] = [owner |-> v, default |-> task[h].default,
                                         deleted |-> FALSE, version |-> 1]]
        BY <2>1 DEF AddWrite
      <3>4. x # a
        BY <3>1, <3>2, <3>3
      <3>5. addr'[x] = base[x]
        BY <3>2, <3>3, <3>4
      <3> QED
        BY <1>2, <3>5
    <2>2. CASE ChangeWrite(h)
      <3>1. PICK a \in AddrIds : a = task[h].address
        BY <2>0, <2>2, TaskTyped DEF ChangeWrite
      <3>2. addr[a] \in AddrRow
        BY <1>0, <2>2, <3>1 DEF ChangeWrite, AddrInv, TaskOfRow
      <3> DEFINE base == IF task[h].default THEN Cleared(addr[a].owner) ELSE addr
      <3>3. base \in [AddrIds -> AddrRow \cup {NoRow}] /\ base[a] \in AddrRow
        <4>1. Cleared(addr[a].owner)[a] \in AddrRow
          BY <1>0, <3>2, ClearedTyped
        <4> QED
          BY <1>0, <3>2, <4>1, ClearedTyped
      <3>4. \/ addr' = [base EXCEPT ![a].version = task[h].seen + 1, ![a].default = TRUE]
            \/ addr' = [base EXCEPT ![a].version = task[h].seen + 1]
        BY <2>2, <3>1 DEF ChangeWrite
      <3> HIDE DEF base
      <3>5. addr'[x].deleted = base[x].deleted /\ addr'[x].owner = base[x].owner
        BY <3>3, <3>4 DEF AddrRow
      <3> QED
        BY <1>2, <3>5 DEF base
    <2>3. CASE DeleteWrite(h)
      <3>1. PICK a \in AddrIds : a = task[h].address
        BY <2>0, <2>3, TaskTyped DEF DeleteWrite
      <3>2. addr[a] \in AddrRow
        BY <1>0, <2>3, <3>1 DEF DeleteWrite, AddrInv, TaskOfRow
      <3>3. addr' = [addr EXCEPT ![a].deleted = TRUE]
        BY <2>3, <3>1 DEF DeleteWrite
      <3>4. x # a
        BY <1>0, <3>2, <3>3 DEF AddrRow
      <3> QED
        BY <1>0, <3>3, <3>4 DEF Live
    <2> QED
      BY <1>4, <2>1, <2>2, <2>3 DEF AddrWrite
  <1>5. ASSUME NEW v, DeleteAll(v)
        PROVE  Live(u)' \subseteq Live(u)
    <2> SUFFICES ASSUME NEW x \in AddrIds, ~addr'[x].deleted, addr'[x].owner = u
                 PROVE  x \in Live(u)
      BY DEF Live
    <2>1. CASE x \in Live(v)
      <3>1. addr[x] \in AddrRow
        BY <1>0, <2>1 DEF Live, NoRow
      <3>2. addr'[x] = [addr[x] EXCEPT !.deleted = TRUE]
        BY <1>5, <2>1 DEF DeleteAll
      <3> QED
        BY <3>1, <3>2 DEF AddrRow
    <2>2. CASE x \notin Live(v)
      BY <1>5, <2>2 DEF DeleteAll, Live
    <2> QED
      BY <2>1, <2>2
  <1> QED
    BY <1>3, <1>4, <1>5, AddrReadKeeps DEF AddrMove, addrVars

LEMMA GoneStep ==
  ASSUME ServiceInv, AddrInv, TabInv, GoneInv, [UserNext]_userVars
  PROVE  GoneInv' /\ \A u \in gone : Live(u)' \subseteq Live(u)
  <1>1. \A u \in gone : u \in Owners /\ u \in Users /\ Gone(u)
    BY ServiceAssumption DEF GoneInv
  <1>2. ASSUME NEW u \in gone
        PROVE  Live(u)' \subseteq Live(u)
    <2>1. NoAdd(u)
      BY <1>1 DEF Gone
    <2> QED
      BY <2>1, StepIsAddrMove, LiveShrinks
  <1>3. AskPairs'
    BY StepIsTabMove, AskPairsKept DEF GoneInv
  <1>4. CASE UNCHANGED userVars
    <2>1. \A u \in gone : Gone(u)'
      BY <1>1, <1>4
         DEF userVars, sessVars, tabVars, addrVars, Gone, NoSignIn, NoAccess, NoAdd
    <2> QED
      BY <1>1, <1>2, <1>3, <1>4, <2>1 DEF GoneInv, userVars
  <1>5. CASE UserNext
    <2>1. /\ UserStep
          /\ gone' = {u \in gone : user'[u].status \in Blocked} \cup {u \in Owners : Gone(u)'}
      BY <1>5 DEF UserNext
    <2>2. ASSUME NEW u \in gone, user'[u].status \in Blocked
          PROVE  Gone(u)'
      <3>1. u \in Users /\ Gone(u)
        BY <1>1
      <3>2. NoSignIn(u)'
        BY <3>1, StepOfSessions, RequestLeft DEF Gone, ServiceInv
      <3>3. NoAccess(u)'
        BY <2>1, <3>1, AccessLeft
      <3>4. NoAdd(u)'
        <4>1. task \in [Clerks -> Task]
          BY DEF AddrInv, AddrTypeOK
        <4>2. CASE UNCHANGED task
          BY <3>1, <4>2 DEF Gone, NoAdd
        <4>3. ASSUME NEW c \in Clerks, AddrWrite(c)
              PROVE  NoAdd(u)'
          BY <3>1, <4>1, <4>3
             DEF Gone, NoAdd, AddrWrite, AddWrite, ChangeWrite, DeleteWrite, Free
        <4>4. ASSUME NEW c \in Clerks, ask[c].route = "protected", Forward(c),
                     AddrRead(c, Identity(c))
              PROVE  NoAdd(u)'
          <5>1. ask[c].pair \in 1..Len(pairs) /\ ask[c].pair \notin expired
            <6>1. c \in Calls /\ ask[c].pair \in 0..Len(pairs)
              BY ServiceAssumption DEF GoneInv, AskPairs
            <6>2. Len(pairs) \in Nat
              BY DEF TabInv, TabTyped, TabTypeOK
            <6> QED
              BY <4>4, <6>1, <6>2 DEF Forward, Verified
          <5>2. Identity(c) # u
            BY <3>1, <5>1 DEF Gone, NoAccess, Identity
          <5>3. PICK v : v = Identity(c)
            OBVIOUS
          <5>4. \A d \in Clerks : d # c => task'[d] = task[d]
            BY <4>1, <4>4, <5>3
               DEF AddrRead, AddRead, SetDefaultRead, UpdateRead, OpenChange, DeleteRead
          <5>5. task'[c].op = "add" => task'[c].owner = v
            BY <4>1, <4>4, <5>3
               DEF AddrRead, AddRead, SetDefaultRead, UpdateRead, OpenChange, DeleteRead
          <5> QED
            BY <3>1, <5>2, <5>3, <5>4, <5>5 DEF Gone, NoAdd
        <4>5. CASE AddressStep
          BY <4>2, <4>3, <4>4, <4>5 DEF AddressStep, addrVars
        <4> QED
          BY <2>1, <4>2, <4>5
             DEF UserStep, OtherRequest, SessionStep, SignInStep, CloseAccount, CodeStep, ResetPassword, TabStep, addrVars
      <3> QED
        BY <2>2, <3>2, <3>3, <3>4 DEF Gone
    <2> QED
      BY <1>1, <1>2, <1>3, <2>1, <2>2 DEF GoneInv
  <1> QED
    BY <1>4, <1>5

LEMMA GoneInvHolds == UserSpec => []GoneInv
  <1>1. ASSUME UserInit PROVE GoneInv
    <2>1. gone = {} /\ TabInit
      BY <1>1 DEF UserInit
    <2>2. AskPairs
      BY <2>1 DEF TabInit, AskPairs, NoCall
    <2> QED
      BY <2>1, <2>2 DEF GoneInv
  <1>2. ServiceInv /\ AddrInv /\ TabInv /\ GoneInv /\ [UserNext]_userVars => GoneInv'
    BY GoneStep
  <1> QED
    BY <1>1, <1>2, ServiceInvHolds, AddrInvHolds, TabInvariant, PTL DEF UserSpec

(***************************************************************************)
(* close_account, set_status: once the access tokens of a closed or        *)
(* disabled account have expired and the requests are over, it gets no     *)
(* address until an administrator enables it.                              *)
(***************************************************************************)
THEOREM GoneForGood == UserSpec => GoneGetsNothing
  <1>1. /\ ServiceInv /\ AddrInv /\ TabInv /\ GoneInv /\ [UserNext]_userVars
        => \A u \in gone : Live(u)' \subseteq Live(u)
    BY GoneStep
  <1> QED
    BY <1>1, ServiceInvHolds, AddrInvHolds, TabInvariant, GoneInvHolds, PTL
       DEF UserSpec, GoneGetsNothing
=============================================================================
