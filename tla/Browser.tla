------------------------------- MODULE Browser -------------------------------
(***************************************************************************)
(* A tab of the storefront or the admin app, with the HTTP client they     *)
(* share, and gateway-auth in front of the services.  A call answered with *)
(* 401, by the gateway or by a service, waits for one refresh of the tab's *)
(* tokens and is made once more with the new ones.                         *)
(*                                                                         *)
(* An access token is verified without a look at the session it came from. *)
(***************************************************************************)
EXTENDS Integers, Sequences

CONSTANTS
  Calls,            \* calls the tab makes at the same time
  RefreshOutcomes,  \* whether the refresh may be answered with tokens
  MaxPairs          \* bound: pairs of tokens the tab is given

ASSUME BrowserAssumption == RefreshOutcomes \subseteq BOOLEAN /\ MaxPairs \in Nat

VARIABLES
  pairs,       \* the users of the pairs of tokens the tab was given, in order
  expired,     \* pairs whose access token has expired
  store,       \* the pair in the auth store, 0 for none
  ask,         \* ask[c]: the call
  refreshing,  \* refreshInFlight: the pair it was begun with, or NotRefreshing
  leaving,     \* window.location was assigned: the page will be unloaded
  signedOut    \* history: "yes" after the session was cleared, "crossed" when it
               \* was while a refresh was under way, "no" after a login

tabVars == <<pairs, expired, store, ask, refreshing, leaving, signedOut>>

Pairs == 1..MaxPairs
NotRefreshing == -1

\* Protected routes need a token; the login page calls a route the gateway does not
\* look at.  The other routes without it are never refused with 401, so a call of
\* one takes no part in what follows.
Routes == {"protected", "login"}

\* Two fields are history: the times a service was given the call, and whether one
\* answered it with 401.
NoCall == [route |-> "protected", at |-> "none", pair |-> 0, retried |-> FALSE,
           forwarded |-> 0, denied |-> FALSE]
Call == [route : Routes, at : {"none", "sent", "served", "refused", "waiting"},
         pair : Pairs \cup {0}, retried : BOOLEAN, forwarded : 0..2, denied : BOOLEAN]

TabInit ==
  /\ pairs = <<>> /\ expired = {}
  /\ store = 0
  /\ ask = [c \in Calls |-> NoCall]
  /\ refreshing = NotRefreshing
  /\ leaving = FALSE
  /\ signedOut = "no"

\* The button clears the store and leaves for the login page; no service is told.
LogOut ==
  /\ store # 0
  /\ store' = 0
  /\ leaving' = TRUE
  /\ signedOut' = IF refreshing = NotRefreshing THEN "yes" ELSE "crossed"
  /\ UNCHANGED <<pairs, expired, ask, refreshing>>

\* What the page was waiting for is lost with it, the store is not.
Unload ==
  /\ leaving
  /\ leaving' = FALSE
  /\ ask' = [c \in Calls |-> NoCall]
  /\ refreshing' = NotRefreshing
  /\ UNCHANGED <<pairs, expired, store, signedOut>>

AccessExpires(n) ==
  /\ n \in 1..Len(pairs) /\ n \notin expired
  /\ expired' = expired \cup {n}
  /\ UNCHANGED <<pairs, store, ask, refreshing, leaving, signedOut>>

-----------------------------------------------------------------------------
\* The request interceptor takes the token the store holds at that time, if any,
\* for a login too: its page can be opened by who is logged in.
Send(c, route) ==
  /\ ask[c].at = "none"
  /\ ask' = [ask EXCEPT ![c] = [NoCall EXCEPT !.route = route, !.at = "sent", !.pair = store]]
  /\ UNCHANGED <<pairs, expired, store, refreshing, leaving, signedOut>>

\* Variant: the time the token expires at is not verified.
SignatureOk(n) == n # 0

\* _verify: there is a token, and it has not expired.
Verified(n) == n # 0 /\ n \notin expired

\* The user whose id goes to the service in X-User-Id.
Identity(c) == pairs[ask[c].pair]

Forward(c) ==
  /\ ask[c].at = "sent"
  /\ ask[c].route = "login" \/ Verified(ask[c].pair)
  /\ ask' = [ask EXCEPT ![c].at = "served", ![c].forwarded = @ + 1]
  /\ UNCHANGED <<pairs, expired, store, refreshing, leaving, signedOut>>

TurnAway(c) ==
  /\ ask[c].at = "sent" /\ ask[c].route = "protected" /\ ~Verified(ask[c].pair)
  /\ ask' = [ask EXCEPT ![c].at = "refused"]
  /\ UNCHANGED <<pairs, expired, store, refreshing, leaving, signedOut>>

\* user-service answers a failed login with 401, and the client does not ask for
\* an exemption from the refresh.
DenyLogin(c) ==
  /\ ask[c].at = "served" /\ ask[c].route = "login"
  /\ ask' = [ask EXCEPT ![c].at = "refused", ![c].denied = TRUE]
  /\ UNCHANGED <<pairs, expired, store, refreshing, leaving, signedOut>>

\* The login page puts the tokens it is answered with into the store.
LogIn(c, u) ==
  /\ ask[c].at = "served" /\ ask[c].route = "login"
  /\ Len(pairs) < MaxPairs
  /\ pairs' = Append(pairs, u)
  /\ store' = Len(pairs) + 1
  /\ ask' = [ask EXCEPT ![c] = NoCall]
  /\ signedOut' = "no"
  /\ UNCHANGED <<expired, refreshing, leaving>>

\* The call is answered, times out before or after it was, or is refused again.
Over(c) ==
  \/ ask[c].at \in {"sent", "served"}
  \/ ask[c].at = "refused" /\ ask[c].retried

\* Variant: a call that timed out is made once more.
FinishOrRepeat(c) ==
  /\ Over(c)
  /\ ask' = IF ask[c].at = "served" /\ ~ask[c].retried
            THEN [ask EXCEPT ![c].at = "sent", ![c].retried = TRUE]
            ELSE [ask EXCEPT ![c] = NoCall]
  /\ UNCHANGED <<pairs, expired, store, refreshing, leaving, signedOut>>

Finish(c) ==
  /\ Over(c)
  /\ ask' = [ask EXCEPT ![c] = NoCall]
  /\ UNCHANGED <<pairs, expired, store, refreshing, leaving, signedOut>>

-----------------------------------------------------------------------------
(***************************************************************************)
(* The response interceptor: the first call refused starts a refresh       *)
(* with the refresh token the store holds by then; later ones join it.     *)
(***************************************************************************)
\* Variant: the refresh token that was issued with the call's access token.
AwaitOwn(c) ==
  /\ ask[c].at = "refused" /\ ~ask[c].retried
  /\ ask' = [ask EXCEPT ![c].at = "waiting"]
  /\ refreshing' = IF refreshing = NotRefreshing THEN ask[c].pair ELSE refreshing
  /\ UNCHANGED <<pairs, expired, store, leaving, signedOut>>

Await(c) ==
  /\ ask[c].at = "refused" /\ ~ask[c].retried
  /\ ask' = [ask EXCEPT ![c].at = "waiting"]
  /\ refreshing' = IF refreshing = NotRefreshing THEN store ELSE refreshing
  /\ UNCHANGED <<pairs, expired, store, leaving, signedOut>>

\* All calls that wait are made once more, with the token in the store.
Repeated(x, n) == [x EXCEPT !.at = "sent", !.pair = n, !.retried = TRUE]
Resumed(n) ==
  [c \in Calls |-> IF ask[c].at = "waiting" THEN Repeated(ask[c], n) ELSE ask[c]]

\* Variant: the settled promise is kept.
RefreshedOnce ==
  /\ TRUE \in RefreshOutcomes /\ refreshing > 0 /\ Len(pairs) < MaxPairs
  /\ pairs' = Append(pairs, pairs[refreshing])
  /\ store' = Len(pairs) + 1
  /\ ask' = Resumed(Len(pairs) + 1)
  /\ UNCHANGED <<expired, refreshing, leaving, signedOut>>

Refreshed ==
  /\ TRUE \in RefreshOutcomes /\ refreshing > 0 /\ Len(pairs) < MaxPairs
  /\ pairs' = Append(pairs, pairs[refreshing])
  /\ store' = Len(pairs) + 1
  /\ ask' = Resumed(Len(pairs) + 1)
  /\ refreshing' = NotRefreshing
  /\ UNCHANGED <<expired, leaving, signedOut>>

\* No refresh token, no answer or no tokens in it: the tab goes to the login page.
NotRefreshed ==
  /\ refreshing # NotRefreshing
  /\ refreshing > 0 => FALSE \in RefreshOutcomes
  /\ store' = 0
  /\ ask' = [c \in Calls |-> IF ask[c].at = "waiting" THEN NoCall ELSE ask[c]]
  /\ refreshing' = NotRefreshing
  /\ leaving' = TRUE
  /\ signedOut' = "yes"
  /\ UNCHANGED <<pairs, expired>>
-----------------------------------------------------------------------------
\* The tab and its calls have their types.
TabTypeOK ==
  /\ Len(pairs) \in 0..MaxPairs /\ expired \subseteq 1..Len(pairs)
  /\ store \in 0..Len(pairs)
  /\ ask \in [Calls -> Call]
  /\ refreshing \in {NotRefreshing} \cup 0..Len(pairs)
  /\ leaving \in BOOLEAN /\ signedOut \in {"no", "yes", "crossed"}

(***************************************************************************)
(* A refresh is under way exactly while a call waits for it, however calls *)
(* that are refused, the refresh and the end of the page follow each       *)
(* other: no call waits for ever for one that is over, and none starts     *)
(* while there is one.                                                     *)
(***************************************************************************)
WaitsForRefresh == refreshing # NotRefreshing <=> \E c \in Calls : ask[c].at = "waiting"

(***************************************************************************)
(* A service is given a call twice only if it is a login and failed the    *)
(* first time: the refresh follows any 401, so the password is compared,   *)
(* and counted, again.  No call of a protected route is given twice,       *)
(* whatever expires, times out or is refreshed meanwhile.                  *)
(***************************************************************************)
ForwardedOnce ==
  \A c \in Calls :
    ask[c].forwarded > 1 => ask[c].denied /\ ask[c].retried /\ ask[c].route = "login"

(***************************************************************************)
(* A tab that was signed out has no tokens until someone logs in, although *)
(* calls made before still come back; unless a refresh was under way at    *)
(* the time, which puts its tokens into the store if it ends before the    *)
(* page.                                                                   *)
(***************************************************************************)
SignedOutStaysOut == signedOut = "yes" => store = 0
=============================================================================
