-------------------------- MODULE TerminalSession --------------------------
(***************************************************************************)
(* The session of one tab of the web terminal and the sockets it feeds     *)
(* (frontend/src: app/App.tsx, providers/session-renewal.ts,               *)
(* unauthorized-policy.ts, services.ts, account-switch.ts, gateway/auth,   *)
(* stores/session-store.ts, SignInScreen.tsx).                             *)
(*                                                                         *)
(* A gateway token is got by an exchange of the CRM token, for five        *)
(* reasons: to sign in, because the token is about to lapse, because a     *)
(* periodic check or a request found it refused, and at a switch of        *)
(* account.  Exchanges of different reasons run at the same time.  Setting *)
(* or clearing the token sweeps the pool at once (TokenStore.set).         *)
(***************************************************************************)
EXTENDS SubscriptionPool

VARIABLES
  status,      \* of the session store
  exchanges,   \* the reasons of the exchanges that are out
  renewedInto, \* the token the last silent renewal got; NoToken once the session holds another
  requests,    \* the tokens that requests on their way carry
  lapsed,      \* external: the lifetime of the token is over
  sound,       \* external: the gateway accepts the tokens it gives out
  cookie,      \* external: the gateway remembers the session across reloads
  active,      \* an account is active
  remembered   \* the browser's storage holds the number of an account

sessionVars == <<status, exchanges, renewedInto, requests, lapsed, sound, cookie, active, remembered>>
vars == <<poolVars, sessionVars>>
outer == <<valid, online>>

Reasons == {"sign-in", "lapse", "check", "refusal", "switch"}

----------------------------------------------------------------------------
\* The token store and the status.

SetToken(t) == token' = t /\ reconnectAll

\* The effects of the signed-in state are undone: its two exchanges are aborted, and the
\* terminal with its consumers is gone.
Leave(s, r) == status' = s /\ exchanges' = exchanges \ {"lapse", "check", r}

\* signOut() and reset(); the gateway forgets the session if the call reaches it.
SignOut(s) ==
  /\ token' = NoToken
  /\ channel' = [c \in Channels |-> Unmounted(Swept(channel[c]))]
  /\ Leave(s, "none")
  /\ active' = FALSE /\ remembered' = FALSE
  /\ cookie' \in {FALSE, cookie}
  /\ renewedInto' = NoToken
  /\ UNCHANGED <<accepted, outer, faults, requests, lapsed, sound>>

Expire(r) ==
  /\ Leave("expired", r)
  /\ channel' = [c \in Channels |-> Unmounted(channel[c])]

----------------------------------------------------------------------------
\* Exchanges.

\* Without a CRM token, which is held with the gateway's, there is no exchange.
StartExchange(r) ==
  /\ r \notin exchanges /\ Fault
  /\ exchanges' = exchanges \cup {r}
  /\ UNCHANGED <<world, channel, status, renewedInto, requests, lapsed, sound, cookie, active, remembered>>

RenewalDue == status = "signed-in" /\ token # NoToken /\ StartExchange("lapse")
CheckRefused == status = "signed-in" /\ token \notin accepted \cup {NoToken} /\ StartExchange("check")
SwitchAccount == status = "signed-in" /\ active /\ token # NoToken /\ StartExchange("switch")

SubmitSignIn ==
  /\ status = "signed-out"
  /\ status' = "signing-in"
  /\ "sign-in" \notin exchanges /\ exchanges' = exchanges \cup {"sign-in"}
  /\ UNCHANGED <<poolVars, renewedInto, requests, lapsed, sound, cookie, active, remembered>>

\* The store gets a token that no one holds.
Held == requests \cup {token}
Mint ==
  LET t == CHOOSE t \in Tokens \ Held : TRUE IN
  /\ SetToken(t)
  /\ accepted' = (accepted \cap Held) \cup (IF sound THEN {t} ELSE {})
  /\ lapsed' = FALSE

ExchangeSucceeds(r) ==
  /\ r \in exchanges
  /\ Mint
  /\ renewedInto' = IF r = "refusal" THEN token' ELSE NoToken
  /\ cookie' = TRUE
  /\ exchanges' = exchanges \ {r}
  /\ status' = IF r = "sign-in" THEN "signed-in" ELSE status
  \* A switch goes on if the new token's claim names the account.
  /\ IF r = "switch" THEN \/ active' = TRUE /\ remembered' = TRUE
                          \/ UNCHANGED <<active, remembered>>
     ELSE UNCHANGED <<active, remembered>>
  /\ UNCHANGED <<outer, faults, requests, sound>>

ExchangeFails(r) ==
  /\ r \in exchanges /\ Fault
  /\ CASE r = "sign-in" -> Leave("signed-out", r) /\ UNCHANGED channel
       [] r \in {"refusal", "check"} \/ (r = "lapse" /\ lapsed) -> Expire(r)
       [] OTHER -> exchanges' = exchanges \ {r} /\ UNCHANGED <<status, channel>>
  /\ UNCHANGED <<world, active, remembered, renewedInto, requests, lapsed, sound, cookie>>

----------------------------------------------------------------------------
\* Requests and what a refusal means (createUnauthorizedHandler).

SendRequest ==
  /\ status = "signed-in" /\ token # NoToken /\ requests = {}
  /\ requests' = requests \cup {token}
  /\ UNCHANGED <<poolVars, status, exchanges, renewedInto, lapsed, sound, cookie, active, remembered>>

RequestServed(t) ==
  /\ t \in requests \cap accepted
  /\ requests' = requests \ {t}
  /\ UNCHANGED <<poolVars, status, exchanges, renewedInto, lapsed, sound, cookie, active, remembered>>

\* mutant: every refusal is answered by a renewal
RefusedRenews(t) ==
  /\ t \in requests \ accepted
  /\ requests' = requests \ {t}
  /\ exchanges' = IF t # token THEN exchanges ELSE exchanges \cup {"refusal"}
  /\ UNCHANGED <<poolVars, status, active, remembered, renewedInto, lapsed, sound, cookie>>

\* A credential the session holds no more says nothing; one that a renewal has just got ends the
\* session; otherwise one renewal serves every refusal.
RequestRefused(t) ==
  /\ t \in requests \ accepted
  /\ requests' = requests \ {t}
  /\ IF t # token THEN UNCHANGED <<status, exchanges, channel>>
     ELSE IF t = renewedInto THEN Expire("none")
     ELSE exchanges' = exchanges \cup {"refusal"} /\ UNCHANGED <<status, channel>>
  /\ UNCHANGED <<world, faults, active, remembered, renewedInto, lapsed, sound, cookie>>

----------------------------------------------------------------------------
\* The screens.

ListAccounts ==
  /\ status = "signed-in" /\ active' = TRUE /\ remembered' = TRUE
  /\ UNCHANGED <<poolVars, status, exchanges, renewedInto, requests, lapsed, sound, cookie>>

\* The user leaves, or the CRM refuses its own token.
LeaveTerminal == status \in {"signed-in", "expired"} /\ SignOut("signed-out")

IdleTooLong == status = "signed-in" /\ SignOut("expired")

Mount(c) == status = "signed-in" /\ active /\ Subscribe(c) /\ UNCHANGED sessionVars
Unmount(c) == Release(c) /\ UNCHANGED sessionVars

\* A new document: only the cookie and the storage are left of the session.
Reload ==
  /\ Fault
  /\ status' = "initialising" /\ active' = FALSE
  /\ token' = NoToken /\ channel' = [c \in Channels |-> Idle]
  /\ exchanges' = {} /\ requests' = {} /\ renewedInto' = NoToken
  /\ UNCHANGED <<accepted, outer, lapsed, sound, cookie, remembered>>

Restore ==
  /\ status = "initialising"
  /\ IF cookie
     THEN /\ status' = "signed-in"
          /\ Mint /\ renewedInto' = NoToken
     ELSE status' = "signed-out" /\ UNCHANGED <<token, channel, accepted, lapsed, renewedInto>>
  /\ UNCHANGED <<outer, faults, exchanges, requests, sound, cookie, active, remembered>>

----------------------------------------------------------------------------
\* The gateway.

Lapse ==
  /\ token \in accepted /\ Fault
  /\ accepted' = accepted \ {token} /\ lapsed' = TRUE
  /\ UNCHANGED <<token, outer, channel, status, exchanges, renewedInto, requests, sound, cookie, active, remembered>>

Revoke ==
  /\ token \in accepted /\ Fault
  /\ accepted' = {}
  /\ UNCHANGED <<token, outer, channel, sessionVars>>

----------------------------------------------------------------------------

Init ==
  /\ PoolInit
  /\ status = "initialising" /\ exchanges = {} /\ renewedInto = NoToken /\ requests = {}
  /\ lapsed = FALSE /\ sound \in BOOLEAN
  /\ cookie \in BOOLEAN
  /\ active = FALSE /\ remembered = FALSE

Pool == PoolNext /\ UNCHANGED sessionVars
Requests == SendRequest \/ \E t \in Tokens : RequestServed(t) \/ RequestRefused(t)
Exchanges ==
  \/ RenewalDue \/ CheckRefused \/ SwitchAccount \/ SubmitSignIn
  \/ \E r \in Reasons : ExchangeSucceeds(r) \/ ExchangeFails(r)
Screens == ListAccounts \/ LeaveTerminal \/ IdleTooLong \/ \E c \in Channels : Mount(c) \/ Unmount(c)

Next == Pool \/ Requests \/ Exchanges \/ Screens \/ Reload \/ Restore \/ Lapse \/ Revoke

\* Screens poll, the gateway answers, timers fire.
Fairness ==
  /\ \A c \in Channels :
       /\ WF_vars(LingerFires(c) /\ UNCHANGED sessionVars) /\ WF_vars(ReconnectFires(c) /\ UNCHANGED sessionVars)
       /\ WF_vars(ProbationFires(c) /\ UNCHANGED sessionVars)
       /\ WF_vars((HandshakeAccepted(c) \/ Closed(c, "policy")) /\ UNCHANGED sessionVars)
  /\ WF_vars(GoOnline /\ UNCHANGED sessionVars)
  /\ WF_vars(SendRequest) /\ WF_vars(\E t \in Tokens : RequestServed(t) \/ RequestRefused(t))
  /\ \A r \in Reasons : WF_vars(ExchangeSucceeds(r))

Spec == Init /\ [][Next]_vars /\ Fairness

----------------------------------------------------------------------------
\* Properties.

\* Whatever was lost, refused, revoked or swept, a consumer gets its socket, or is gone with its
\* screen: no channel is forgotten in a state that no timer and no renewal leaves.
Recovers ==
  sound /\ valid => \A c \in Channels : channel[c].consumers > 0 ~> channel[c].socket.up \/ channel[c].consumers = 0

\* A session whose tokens the gateway never accepts does not renew for ever: it ends.
DeadSessionEnds == ~sound => []<>(status # "signed-in")

=============================================================================
