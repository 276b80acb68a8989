---------------------------- MODULE UserService -----------------------------
(***************************************************************************)
(* The requests of user-service that reach over the parts modelled one by  *)
(* one: a reset password ends sessions, a closed account loses its         *)
(* addresses, and a tab logs in, refreshes its tokens and calls the        *)
(* address routes with them, next to any other request of Sessions.        *)
(***************************************************************************)
EXTENDS Accounts, Addresses, Browser

ASSUME ServiceAssumption ==
  Calls = Clerks /\ Calls \subseteq Handlers /\ Owners \subseteq Users

CONSTANT MaxRequests  \* bound: requests that are begun

VARIABLES
  begun,
  gone   \* history: accounts of which nothing was left once, blocked since then

userVars == <<sessVars, codeVars, addrVars, tabVars, begun, gone>>

UserInit == SessInit /\ CodesInit /\ AddrInit /\ TabInit /\ begun = 0 /\ gone = {}

Another == begun < MaxRequests /\ begun' = begun + 1

\* Handler h serves a login of the tab: it has read the account, or refused it.
ServesLogin(h) == h \in Calls /\ ask[h].at = "served" /\ ask[h].route = "login"

\* What another device or an administrator asks for.
OtherRequest ==
  /\ \/ \E h \in Handlers, u \in Users :
          /\ ~ServesLogin(h)
          /\ RegisterRead(h, u) \/ LoginRead(h, u) \/ SetStatusRead(h, u) \/ CloseRead(h, u)
     \/ \E h \in Handlers, t \in TokenIds :
          ~ServesLogin(h) /\ (RefreshRow(h, t) \/ LogoutRead(h, t))
     \/ \E t \in TokenIds : Replay(t)
     \/ \E u \in Users : LogoutAll(u) \/ ChangePassword(u)
  /\ Another
  /\ UNCHANGED <<codeVars, addrVars, tabVars>>

SessionStep ==
  /\ \/ \E h \in Handlers, t \in TokenIds : RegisterWrite(h, t)
     \/ \E h \in Handlers :
          RegisterFails(h) \/ RefreshUser(h) \/ LogoutWrite(h) \/ Disable(h) \/ Enable(h)
     \/ \E u \in Users : LockExpires(u)
  /\ UNCHANGED <<codeVars, addrVars, tabVars, begun>>

(***************************************************************************)
(* A login of the tab.  An account that is unknown, blocked or locked is   *)
(* refused without a write.  The answer finds the call gone if it timed    *)
(* out or the page was unloaded.                                           *)
(***************************************************************************)
BeginLogin(c) ==
  /\ ask[c].route = "login" /\ Forward(c)
  /\ req[c] = Idle
  /\ (\E u \in Users : LoginRead(c, u)) \/ UNCHANGED sessVars

AnswerLogin(h) ==
  \/ \E t \in TokenIds :
       /\ LoginSucceeds(h, t)
       /\ IF ServesLogin(h) THEN LogIn(h, req[h].user) ELSE UNCHANGED tabVars
  \/ /\ LoginFails(h)
     /\ IF ServesLogin(h) THEN DenyLogin(h) ELSE UNCHANGED tabVars
  \/ ServesLogin(h) /\ req[h] = Idle /\ DenyLogin(h) /\ UNCHANGED sessVars

\* The tokens of a refresh are the tab's, or another device's, or lost.
AnswerRefresh(h) ==
  /\ \E t \in TokenIds : RefreshWrite(h, t)
  /\ \/ refreshing > 0 /\ pairs[refreshing] = req[h].user /\ Refreshed
     \/ UNCHANGED tabVars

SignInStep ==
  /\ (\E c \in Calls : BeginLogin(c)) \/ (\E h \in Handlers : AnswerLogin(h) \/ AnswerRefresh(h))
  /\ UNCHANGED <<codeVars, addrVars, begun>>

\* close_account with its addresses.
CloseAccount ==
  /\ \E h \in Handlers : CloseWrite(h) /\ DeleteAll(req[h].user)
  /\ UNCHANGED <<codeVars, task, tabVars, begun>>

CodeStep ==
  /\ \/ \E c \in Codes : IssueCode(c) /\ Another
     \/ \E c \in Codes : CodeExpires(c) /\ UNCHANGED begun
     \/ \E h \in Handlers, c \in Codes, u \in Users \cup {NoUser} : VerifyRead(h, c, u) /\ Another
     \/ \E h \in Handlers : VerifyWrite(h) /\ UNCHANGED begun
  /\ UNCHANGED <<sessVars, addrVars, tabVars>>

ResetPassword ==
  /\ \E h \in Handlers : ResetWrite(h)
  /\ UNCHANGED <<addrVars, tabVars, begun>>

\* The tab, and the calls that change nothing in the service.
TabStep ==
  /\ \/ \E c \in Calls, route \in Routes : Send(c, route) /\ Another
     \/ /\ \/ \E c \in Calls : TurnAway(c) \/ Finish(c) \/ Await(c)
           \/ \E n \in Pairs : AccessExpires(n)
           \/ LogOut \/ Unload \/ NotRefreshed
        /\ UNCHANGED begun
  /\ UNCHANGED <<sessVars, codeVars, addrVars>>

\* The address routes take the identity of the gateway, whatever became of the
\* account; a call that only reads changes nothing.
AddressStep ==
  /\ \E c \in Clerks :
       \/ /\ ask[c].route = "protected" /\ Forward(c)
          /\ Identity(c) \in Owners
          /\ AddrRead(c, Identity(c)) \/ UNCHANGED addrVars
       \/ AddrWrite(c) /\ UNCHANGED tabVars
  /\ UNCHANGED <<sessVars, codeVars, begun>>

UserStep ==
  \/ OtherRequest \/ SessionStep \/ SignInStep \/ CloseAccount
  \/ CodeStep \/ ResetPassword \/ TabStep \/ AddressStep

(***************************************************************************)
(* Nothing is left of the account of u while it is blocked: no access      *)
(* token that is verified, no request that will be answered with one, and  *)
(* no address about to be added.                                           *)
(***************************************************************************)
NoAccess(u) == \A n \in 1..Len(pairs) : pairs[n] = u => n \in expired
NoSignIn(u) ==
  \A h \in Handlers :
    req[h] # Idle /\ req[h].user = u => req[h].op \notin {"register", "login", "refresh"}
NoAdd(u) == \A c \in Clerks : task[c].op = "add" => task[c].owner # u

Gone(u) == user[u].status \in Blocked /\ NoAccess(u) /\ NoSignIn(u) /\ NoAdd(u)

UserNext ==
  /\ UserStep
  /\ gone' = {u \in gone : user'[u].status \in Blocked} \cup {u \in Owners : Gone(u)'}

UserSpec == UserInit /\ [][UserNext]_userVars
-----------------------------------------------------------------------------
(***************************************************************************)
(* Closing an account takes its addresses, but the gateway, which does not *)
(* ask user-service, lets its calls through while an access token lasts,   *)
(* and they may add some.  Once the tokens have expired and the requests   *)
(* are over, an account that is closed or disabled gets no address until   *)
(* an administrator enables it, which set_status allows for a closed one.  *)
(***************************************************************************)
GoneGetsNothing == [][\A u \in gone : Live(u)' \subseteq Live(u)]_userVars
=============================================================================
