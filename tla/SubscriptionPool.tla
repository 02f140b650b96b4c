-------------------------- MODULE SubscriptionPool --------------------------
(***************************************************************************)
(* The WebSocket pool of the web terminal (frontend/src/integrations/      *)
(* gateway/websocket/subscription-pool.ts): a channel per subscription,    *)
(* shared by its consumers, opened again after a failure and after every   *)
(* change of the token.                                                    *)
(*                                                                         *)
(* Timers are names in a set: one that is there may fire at any time.  The *)
(* handshake timer runs while a socket connects and the staleness timer    *)
(* while one is up, so those are not written down.                         *)
(***************************************************************************)
EXTENDS Integers, FiniteSets

CONSTANTS
  Channels, Tokens, NoToken,
  MaxConsumers,  \* bound: consumers of a channel
  MaxAttempts,   \* options.maxAttempts
  MaxFaults      \* bound: failures of the network, revocations and reloads

ASSUME PoolAssumption == NoToken \notin Tokens /\ MaxConsumers \in Nat /\ MaxAttempts \in Nat /\ MaxFaults \in Nat

VARIABLES
  token,     \* the gateway token of the token store
  accepted,  \* external: the tokens the gateway accepts
  valid,     \* external: the gateway knows the parameters of the subscriptions
  online,    \* external: the browser has a network
  faults,    \* failures so far
  channel    \* key -> [consumers, state, attempts, socket, timers, leaked]

poolVars == <<token, accepted, valid, online, faults, channel>>
world == <<token, accepted, valid, online>>

NoSocket == [token |-> NoToken, up |-> FALSE]
\* No channel: a closed channel leaves the map.
Idle == [consumers |-> 0, state |-> "idle", attempts |-> 0, socket |-> NoSocket, timers |-> {}, leaked |-> FALSE]

----------------------------------------------------------------------------

teardownSocket(ch) == [ch EXCEPT !.socket = NoSocket, !.timers = @ \ {"stable"}]

\* Beyond the limit the count makes no difference.
AttemptsAfter(ch) == IF ch.attempts > MaxAttempts THEN ch.attempts ELSE ch.attempts + 1

\* mutant: a channel that gave up is not tried again
GivesUp(ch) ==
  LET n == AttemptsAfter(ch)
  IN  IF n > MaxAttempts
      THEN [ch EXCEPT !.attempts = n, !.state = "failed"]
      ELSE [ch EXCEPT !.attempts = n, !.state = "reconnecting", !.timers = @ \cup {"reconnect"}]

scheduleReconnect(ch) ==
  LET n == AttemptsAfter(ch)
  IN  IF n > MaxAttempts
      THEN [ch EXCEPT !.attempts = n, !.state = "failed", !.timers = @ \cup {"probation"}]
      ELSE [ch EXCEPT !.attempts = n, !.state = "reconnecting", !.timers = @ \cup {"reconnect"}]

Dropped(ch) == scheduleReconnect(teardownSocket(ch))

\* open(), with the token of that moment.  A socket it replaces would stay open, unheard.
Opened(ch, t) ==
  IF ch.consumers = 0 THEN ch
  ELSE IF t = NoToken THEN [ch EXCEPT !.timers = @ \ {"reconnect"}, !.state = "auth-expired"]
  ELSE [ch EXCEPT !.timers = @ \ {"reconnect"}, !.leaked = @ \/ ch.socket # NoSocket,
                  !.socket = [token |-> t, up |-> FALSE],
                  !.state = IF ch.attempts = 0 THEN "connecting" ELSE "reconnecting"]

\* mutant: a channel in its handshake is left alone
SweptIfUp(ch) ==
  IF ~ch.socket.up THEN ch
  ELSE [teardownSocket(ch) EXCEPT !.attempts = 0, !.timers = @ \cup {"reconnect"}]

\* reconnectAll(), the staggered timers of which read the token when they fire.
Swept(ch) ==
  IF ch = Idle THEN ch
  ELSE [teardownSocket(ch) EXCEPT
          !.attempts = IF ch.state \in {"connecting", "reconnecting"} THEN @ ELSE 0,
          !.timers = @ \cup {"reconnect"}]
reconnectAll == channel' = [c \in Channels |-> Swept(channel[c])]

\* The consumers are gone.
Unmounted(ch) == [ch EXCEPT !.consumers = 0, !.timers = IF ch.consumers > 0 THEN @ \cup {"linger"} ELSE @]

Becomes(c, ch) == channel' = [channel EXCEPT ![c] = ch]
Fault == faults < MaxFaults /\ faults' = faults + 1

----------------------------------------------------------------------------
\* Consumers.

\* mutant: a subscriber always opens a socket
SubscribeOpens(c) ==
  LET ch == [channel[c] EXCEPT !.consumers = @ + 1, !.timers = @ \ {"linger"}] IN
  /\ channel[c].consumers < MaxConsumers
  /\ Becomes(c, IF "reconnect" \notin ch.timers THEN Opened(ch, token) ELSE ch)
  /\ UNCHANGED <<world, faults>>

Subscribe(c) ==
  LET ch == [channel[c] EXCEPT !.consumers = @ + 1, !.timers = @ \ {"linger"}] IN
  /\ channel[c].consumers < MaxConsumers
  /\ Becomes(c, IF ch.socket = NoSocket /\ "reconnect" \notin ch.timers THEN Opened(ch, token) ELSE ch)
  /\ UNCHANGED <<world, faults>>

Release(c) ==
  /\ channel[c].consumers > 0
  /\ Becomes(c, [channel[c] EXCEPT !.consumers = @ - 1,
                                  !.timers = IF channel[c].consumers = 1 THEN @ \cup {"linger"} ELSE @])
  /\ UNCHANGED <<world, faults>>

LingerFires(c) ==
  /\ "linger" \in channel[c].timers
  /\ Becomes(c, IF channel[c].consumers = 0 THEN [Idle EXCEPT !.leaked = channel[c].leaked]
                ELSE [channel[c] EXCEPT !.timers = @ \ {"linger"}])
  /\ UNCHANGED <<world, faults>>

----------------------------------------------------------------------------
\* Timers.

ReconnectFires(c) ==
  /\ "reconnect" \in channel[c].timers
  /\ Becomes(c, Opened([channel[c] EXCEPT !.timers = @ \ {"reconnect"}], token))
  /\ UNCHANGED <<world, faults>>

ProbationFires(c) ==
  LET ch == [channel[c] EXCEPT !.timers = @ \ {"probation"}] IN
  /\ "probation" \in channel[c].timers
  /\ Becomes(c, IF ch.state = "failed" /\ ch.consumers > 0 THEN Opened([ch EXCEPT !.attempts = 0], token) ELSE ch)
  /\ UNCHANGED <<world, faults>>

StableFires(c) ==
  /\ "stable" \in channel[c].timers
  /\ Becomes(c, [channel[c] EXCEPT !.timers = @ \ {"stable"}, !.attempts = 0])
  /\ UNCHANGED <<world, faults>>

\* No frame for a while.
StaleFires(c) ==
  /\ channel[c].socket.up /\ channel[c].state = "connected" /\ Fault
  /\ Becomes(c, Dropped(channel[c]))
  /\ UNCHANGED world

HandshakeTimesOut(c) ==
  /\ channel[c].socket # NoSocket /\ ~channel[c].socket.up
  /\ IF online THEN Fault ELSE UNCHANGED faults
  /\ Becomes(c, Dropped(channel[c]))
  /\ UNCHANGED world

----------------------------------------------------------------------------
\* The gateway and the network.

HandshakeAccepted(c) ==
  /\ online /\ channel[c].socket # NoSocket /\ ~channel[c].socket.up /\ channel[c].socket.token \in accepted
  /\ Becomes(c, [channel[c] EXCEPT !.socket.up = TRUE, !.state = "connected", !.timers = @ \cup {"stable"}])
  /\ UNCHANGED <<world, faults>>

Frame(c) ==
  /\ online /\ valid /\ channel[c].socket.up
  /\ Becomes(c, [channel[c] EXCEPT !.attempts = 0, !.state = "connected"])
  /\ UNCHANGED <<world, faults>>

\* "Invalid TP value".
ParametersRefused(c) ==
  /\ online /\ ~valid /\ channel[c].socket.up
  /\ Becomes(c, [teardownSocket(channel[c]) EXCEPT !.state = "failed"])
  /\ UNCHANGED <<world, faults>>

UnreadableFrame(c) ==
  /\ channel[c].socket.up /\ Fault
  /\ Becomes(c, Dropped(channel[c]))
  /\ UNCHANGED world

Closed(c, code) ==
  LET ch == teardownSocket(channel[c]) IN
  /\ channel[c].socket # NoSocket
  /\ IF code = "policy" THEN online /\ ~channel[c].socket.up /\ channel[c].socket.token \notin accepted /\ UNCHANGED faults
     ELSE Fault
  /\ Becomes(c, IF ch.consumers = 0 THEN [ch EXCEPT !.state = "disconnected"]
                ELSE IF code = "policy" THEN [ch EXCEPT !.state = "auth-expired"]
                ELSE scheduleReconnect(ch))
  /\ UNCHANGED world

GoOffline ==
  /\ online /\ online' = FALSE /\ Fault
  /\ channel' = [c \in Channels |->
       IF channel[c] = Idle THEN Idle
       ELSE [teardownSocket(channel[c]) EXCEPT !.timers = @ \ {"reconnect"}, !.state = "disconnected"]]
  /\ UNCHANGED <<token, accepted, valid>>

GoOnline ==
  /\ ~online /\ online' = TRUE
  /\ channel' = [c \in Channels |->
       IF channel[c] = Idle THEN Idle
       ELSE Opened([teardownSocket(channel[c]) EXCEPT !.attempts = 0, !.timers = @ \ {"reconnect", "probation"}], token)]
  /\ UNCHANGED <<token, accepted, valid, faults>>

----------------------------------------------------------------------------

PoolInit ==
  /\ token = NoToken /\ accepted = {}
  /\ valid \in BOOLEAN
  /\ online = TRUE /\ faults = 0
  /\ channel = [c \in Channels |-> Idle]

\* Everything but the consumers, which the screens are.
PoolNext ==
  \/ \E c \in Channels :
       \/ LingerFires(c) \/ ReconnectFires(c) \/ ProbationFires(c) \/ StableFires(c) \/ StaleFires(c)
       \/ HandshakeTimesOut(c) \/ HandshakeAccepted(c) \/ Frame(c) \/ ParametersRefused(c) \/ UnreadableFrame(c)
       \/ \E code \in {"policy", "other"} : Closed(c, code)
  \/ GoOffline \/ GoOnline

----------------------------------------------------------------------------
\* Properties.

\* A socket carries the token that the session holds: a change of the token, and its removal,
\* replaces every socket at once (reconnectAll, the listener of createServices).
SocketsCarryTheToken == \A c \in Channels : channel[c].socket.token \in {token, NoToken}

\* No socket is left open and unheard: a channel has one at a time, whatever timers, consumers
\* and events meet.
NoSocketLeaks == \A c \in Channels : ~channel[c].leaked

=============================================================================
