------------------------- MODULE TerminalSessionProofs -------------------------
(***************************************************************************)
(* The sockets and the reads of the web terminal, for any channels,        *)
(* consumers, callers, and addresses.                                      *)
(*                                                                         *)
(* A second socket would be opened over the first by a timer or by a state *)
(* that opens one: a channel that has either has no socket (OneSocket),    *)
(* and its socket carries the token of the session.                        *)
(*                                                                         *)
(* A request counts the callers that have not left it, is aborted once     *)
(* there are none, and is listed under its URL while there are some        *)
(* (RequestsOK).  For that the numbers of requests must be given in order. *)
(***************************************************************************)
EXTENDS TerminalSession, HttpReads, FiniteSetTheorems, TLAPS

----------------------------------------------------------------------------
\* The sockets.

States == {"idle", "connecting", "reconnecting", "connected", "failed", "auth-expired", "disconnected"}
Timers == {"linger", "reconnect", "probation", "stable"}

\* A channel of a session that holds token t: its one socket, if it has one, carries t.
Channel(t) ==
  [consumers : Int, state : States, attempts : Int, socket : [token : {t, NoToken}, up : BOOLEAN],
   timers : SUBSET Timers, leaked : {FALSE}]

\* What would let a second socket be opened over the first: a timer, or a state, that opens one.
OneSocket(ch) ==
  /\ ch.socket.token = NoToken => ch.socket = NoSocket
  /\ "reconnect" \in ch.timers \/ ch.state = "failed" => ch.socket = NoSocket

Sound(ch, t) == ch \in Channel(t) /\ OneSocket(ch)

SocketsInv == channel \in [Channels -> Channel(token)] /\ \A c \in Channels : OneSocket(channel[c])

USE PoolAssumption

----------------------------------------------------------------------------
\* The operators of the pool.

\* A channel without a socket is sound whatever the token.
LEMMA SocketlessIsSound ==
  ASSUME NEW t, NEW u, NEW ch, Sound(ch, t), ch.socket = NoSocket
  PROVE  Sound(ch, u)
<1>1. ch.socket \in [token : {u, NoToken}, up : BOOLEAN]
  BY DEF NoSocket
<1>2. ch \in Channel(u)
  BY <1>1 DEF Sound, Channel
<1>. QED  BY <1>2 DEF Sound

LEMMA IdleIsSound == ASSUME NEW t PROVE Sound(Idle, t) /\ Idle.socket = NoSocket
BY DEF Sound, Channel, Idle, NoSocket, OneSocket, States, Timers

LEMMA TeardownIsSound ==
  ASSUME NEW t, NEW ch, Sound(ch, t)
  PROVE  /\ Sound(teardownSocket(ch), t) /\ teardownSocket(ch).socket = NoSocket
         /\ teardownSocket(ch).consumers = ch.consumers
BY DEF Sound, Channel, teardownSocket, NoSocket, OneSocket

\* Fields other than the socket may change freely, but for the timer and the state that open one.
LEMMA AttemptsChanged ==
  ASSUME NEW t, NEW ch, Sound(ch, t), NEW n \in Int
  PROVE  Sound([ch EXCEPT !.attempts = n], t) /\ [ch EXCEPT !.attempts = n].socket = ch.socket
BY DEF Sound, Channel, OneSocket

LEMMA ConsumersChanged ==
  ASSUME NEW t, NEW ch, Sound(ch, t), NEW n \in Int
  PROVE  LET y == [ch EXCEPT !.consumers = n]
         IN  Sound(y, t) /\ y.socket = ch.socket /\ y.timers = ch.timers
BY DEF Sound, Channel, OneSocket

LEMMA StateChanged ==
  ASSUME NEW t, NEW ch, Sound(ch, t), NEW s \in States, ch.socket = NoSocket \/ s # "failed"
  PROVE  Sound([ch EXCEPT !.state = s], t)
BY DEF Sound, Channel, OneSocket

LEMMA TimersChanged ==
  ASSUME NEW t, NEW ch, Sound(ch, t), NEW ts, ts \subseteq ch.timers \cup {"linger", "stable", "probation"}
  PROVE  LET y == [ch EXCEPT !.timers = ts] IN Sound(y, t) /\ y.socket = ch.socket /\ y.state = ch.state
BY DEF Sound, Channel, OneSocket, Timers

LEMMA ConsumersAndTimersChanged ==
  ASSUME NEW t, NEW ch, Sound(ch, t), NEW n \in Int, NEW ts,
         ts \subseteq ch.timers \cup {"linger", "stable", "probation"}
  PROVE  LET y == [ch EXCEPT !.consumers = n, !.timers = ts] IN Sound(y, t) /\ y.socket = ch.socket
<1>. DEFINE x == [ch EXCEPT !.consumers = n]
<1>1. Sound(x, t) /\ x.socket = ch.socket /\ x.timers = ch.timers
  BY ConsumersChanged
<1>2. [ch EXCEPT !.consumers = n, !.timers = ts] = [x EXCEPT !.timers = ts]
  OBVIOUS
<1>. HIDE DEF x
<1>. QED  BY <1>1, <1>2, TimersChanged

LEMMA TimersAndAttemptsChanged ==
  ASSUME NEW t, NEW ch, Sound(ch, t), NEW n \in Int, NEW ts,
         ts \subseteq ch.timers \cup {"linger", "stable", "probation"}
  PROVE  Sound([ch EXCEPT !.timers = ts, !.attempts = n], t)
<1>. DEFINE x == [ch EXCEPT !.timers = ts]
<1>1. Sound(x, t)
  BY TimersChanged
<1>2. [ch EXCEPT !.timers = ts, !.attempts = n] = [x EXCEPT !.attempts = n]
  OBVIOUS
<1>. HIDE DEF x
<1>. QED  BY <1>1, <1>2, AttemptsChanged

LEMMA AttemptsAndStateChanged ==
  ASSUME NEW t, NEW ch, Sound(ch, t), NEW n \in Int, NEW s \in States, s # "failed"
  PROVE  Sound([ch EXCEPT !.attempts = n, !.state = s], t)
<1>. DEFINE x == [ch EXCEPT !.attempts = n]
<1>1. Sound(x, t)
  BY AttemptsChanged
<1>2. [ch EXCEPT !.attempts = n, !.state = s] = [x EXCEPT !.state = s]
  OBVIOUS
<1>. HIDE DEF x
<1>. QED  BY <1>1, <1>2, StateChanged

\* A failure leaves a channel with a timer, or with none, and without a socket (scheduleReconnect).
LEMMA DroppedIsSound ==
  ASSUME NEW t, NEW ch, Sound(ch, t)
  PROVE  /\ ch.socket = NoSocket => Sound(scheduleReconnect(ch), t)
         /\ Sound(Dropped(ch), t)
<1>1. ASSUME NEW x, Sound(x, t), x.socket = NoSocket PROVE Sound(scheduleReconnect(x), t)
  <2>1. AttemptsAfter(x) \in Int
    BY <1>1 DEF AttemptsAfter, Sound, Channel
  <2>. DEFINE n == AttemptsAfter(x)
  <2>. HIDE DEF n
  <2>2. Sound([x EXCEPT !.attempts = n, !.state = "failed", !.timers = @ \cup {"probation"}], t)
    BY <1>1, <2>1 DEF n, Sound, Channel, OneSocket, States, Timers
  <2>3. Sound([x EXCEPT !.attempts = n, !.state = "reconnecting", !.timers = @ \cup {"reconnect"}], t)
    BY <1>1, <2>1 DEF n, Sound, Channel, OneSocket, States, Timers
  <2>. QED  BY <2>2, <2>3 DEF scheduleReconnect, n
<1>. QED  BY <1>1, TeardownIsSound DEF Dropped

\* A socket is opened with the token of that moment, and over no other (open).
LEMMA OpenedIsSound ==
  ASSUME NEW t, NEW ch, Sound(ch, t), ch.socket = NoSocket
  PROVE  Sound(Opened(ch, t), t)
<1>1. Sound([ch EXCEPT !.timers = @ \ {"reconnect"}, !.state = "auth-expired"], t)
  BY DEF Sound, Channel, OneSocket, States, Timers
<1>2. ASSUME t # NoToken, NEW s \in {"connecting", "reconnecting"}
      PROVE  Sound([ch EXCEPT !.timers = @ \ {"reconnect"}, !.leaked = @ \/ ch.socket # NoSocket,
                              !.socket = [token |-> t, up |-> FALSE], !.state = s], t)
  <2>1. ch.leaked = FALSE /\ [token |-> t, up |-> FALSE] \in [token : {t, NoToken}, up : BOOLEAN]
    BY DEF Sound, Channel
  <2>. DEFINE y == [ch EXCEPT !.timers = @ \ {"reconnect"}, !.leaked = @ \/ ch.socket # NoSocket,
                              !.socket = [token |-> t, up |-> FALSE], !.state = s]
  <2>2. y \in Channel(t) /\ y.timers = ch.timers \ {"reconnect"} /\ y.state = s
        /\ y.socket = [token |-> t, up |-> FALSE]
    BY <1>2, <2>1 DEF Sound, Channel, States, Timers
  <2>. HIDE DEF y
  <2>3. OneSocket(y)
    BY <1>2, <2>2 DEF OneSocket
  <2>. QED  BY <2>2, <2>3 DEF Sound, y
<1>. QED  BY <1>1, <1>2 DEF Opened

\* A change of the token leaves no socket, with the token or without (reconnectAll).
LEMMA SweptIsSound ==
  ASSUME NEW t, NEW u, NEW ch, Sound(ch, t)
  PROVE  Sound(Swept(ch), u) /\ Swept(ch).socket = NoSocket
<1>1. CASE ch = Idle
  BY <1>1, IdleIsSound DEF Swept
<1>2. CASE ch # Idle
  <2>. DEFINE x == teardownSocket(ch)
              n == IF ch.state \in {"connecting", "reconnecting"} THEN x.attempts ELSE 0
  <2>1. Sound(x, t) /\ x.socket = NoSocket
    BY TeardownIsSound
  <2>2. Swept(ch) = [x EXCEPT !.attempts = n, !.timers = @ \cup {"reconnect"}]
    BY <1>2 DEF Swept
  <2>3. n \in Int
    BY <2>1 DEF Sound, Channel
  <2>. HIDE DEF x, n
  <2>4. Sound([x EXCEPT !.attempts = n, !.timers = @ \cup {"reconnect"}], t)
    BY <2>1, <2>3 DEF Sound, Channel, OneSocket, Timers
  <2>5. [x EXCEPT !.attempts = n, !.timers = @ \cup {"reconnect"}].socket = NoSocket
    BY <2>1 DEF Sound, Channel
  <2>. QED  BY <2>2, <2>4, <2>5, SocketlessIsSound
<1>. QED  BY <1>1, <1>2

\* A screen that goes leaves its channel to linger.
LEMMA UnmountedIsSound ==
  ASSUME NEW t, NEW ch, Sound(ch, t)
  PROVE  Sound(Unmounted(ch), t) /\ Unmounted(ch).socket = ch.socket
<1>. DEFINE ts == IF ch.consumers > 0 THEN ch.timers \cup {"linger"} ELSE ch.timers
<1>1. Unmounted(ch) = [ch EXCEPT !.consumers = 0, !.timers = ts] /\ ts \subseteq ch.timers \cup {"linger"}
  BY DEF Unmounted
<1>. HIDE DEF ts
<1>2. 0 \in Int /\ ts \subseteq ch.timers \cup {"linger", "stable", "probation"}
  BY <1>1
<1>3. LET y == [ch EXCEPT !.consumers = 0, !.timers = ts] IN Sound(y, t) /\ y.socket = ch.socket
  BY <1>2, ConsumersAndTimersChanged, ZenonT(60)
<1>. QED  BY <1>1, <1>3

----------------------------------------------------------------------------
\* The steps.

LEMMA SoundChannels == SocketsInv <=> (channel \in [Channels -> Channel(token)] /\ \A c \in Channels : Sound(channel[c], token))
BY DEF SocketsInv, Sound

\* A step of one channel, and one of all of them.
LEMMA OneKept ==
  ASSUME SocketsInv, NEW c \in Channels, NEW ch, Sound(ch, token), Becomes(c, ch), token' = token
  PROVE  SocketsInv'
BY DEF SocketsInv, Sound, Becomes

LEMMA AllKept ==
  ASSUME channel' = [c \in Channels |-> channel'[c]], \A c \in Channels : Sound(channel'[c], token')
  PROVE  SocketsInv'
BY DEF SocketsInv, Sound

LEMMA SubscribeKeeps == ASSUME SocketsInv, NEW c \in Channels, Subscribe(c) PROVE SocketsInv'
<1>. DEFINE ch == [channel[c] EXCEPT !.consumers = @ + 1, !.timers = @ \ {"linger"}]
<1>1. Sound(ch, token)
  <2>1. Sound(channel[c], token) /\ channel[c].consumers + 1 \in Int
    <3>1. channel[c] \in Channel(token) /\ OneSocket(channel[c])
      BY DEF SocketsInv
    <3>2. channel[c].consumers \in Int
      BY <3>1 DEF Channel
    <3>. QED  BY <3>1, <3>2 DEF Sound
  <2>. QED  BY <2>1, ConsumersAndTimersChanged
<1>2. /\ Becomes(c, IF ch.socket = NoSocket /\ "reconnect" \notin ch.timers THEN Opened(ch, token) ELSE ch)
      /\ token' = token
  BY DEF Subscribe, world
<1>. HIDE DEF ch
<1>. QED  BY <1>1, <1>2, OpenedIsSound, OneKept

LEMMA TimerKeeps ==
  ASSUME SocketsInv, NEW c \in Channels,
         LingerFires(c) \/ ReconnectFires(c) \/ ProbationFires(c) \/ StableFires(c) \/ StaleFires(c) \/ HandshakeTimesOut(c)
  PROVE  SocketsInv'
<1>. DEFINE ch == channel[c]
<1>1. Sound(ch, token) /\ token' = token
  BY DEF SocketsInv, Sound, LingerFires, ReconnectFires, ProbationFires, StableFires, StaleFires, HandshakeTimesOut, world
<1>2. CASE LingerFires(c)
  <2>1. Sound([ch EXCEPT !.timers = @ \ {"linger"}], token)
    BY <1>1 DEF Sound, Channel, OneSocket
  <2>2. Sound([Idle EXCEPT !.leaked = ch.leaked], token)
    <3>1. ch.leaked = FALSE
      BY <1>1 DEF Sound, Channel
    <3>. QED  BY <3>1, IdleIsSound DEF Sound, Channel, OneSocket
  <2>. QED  BY <1>1, <1>2, <2>1, <2>2, IdleIsSound, OneKept DEF LingerFires
<1>3. CASE ReconnectFires(c)
  <2>. DEFINE x == [ch EXCEPT !.timers = @ \ {"reconnect"}]
  <2>1. Sound(x, token) /\ x.socket = NoSocket
    BY <1>1, <1>3 DEF Sound, Channel, OneSocket, ReconnectFires
  <2>2. Becomes(c, Opened(x, token))
    BY <1>3 DEF ReconnectFires
  <2>. HIDE DEF x
  <2>. QED  BY <1>1, <2>1, <2>2, OpenedIsSound, OneKept
<1>4. CASE ProbationFires(c)
  <2>. DEFINE x == [ch EXCEPT !.timers = @ \ {"probation"}]
              y == [x EXCEPT !.attempts = 0]
  <2>1. Sound(x, token) /\ Sound(y, token) /\ (x.state = "failed" => y.socket = NoSocket)
    <3>1. Sound(x, token) /\ x.state = ch.state
      BY <1>1, TimersChanged
    <3>2. x.state = "failed" => x.socket = NoSocket
      BY <3>1 DEF Sound, OneSocket
    <3>. HIDE DEF x
    <3>. QED  BY <3>1, <3>2, AttemptsChanged
  <2>2. Becomes(c, IF x.state = "failed" /\ x.consumers > 0 THEN Opened(y, token) ELSE x)
    BY <1>4 DEF ProbationFires
  <2>. HIDE DEF x, y
  <2>. QED  BY <1>1, <2>1, <2>2, OpenedIsSound, OneKept
<1>5. CASE StableFires(c)
  <2>1. Sound([ch EXCEPT !.timers = @ \ {"stable"}, !.attempts = 0], token)
    <3>1. 0 \in Int /\ ch.timers \ {"stable"} \subseteq ch.timers \cup {"linger", "stable", "probation"}
      OBVIOUS
    <3>. QED  BY <1>1, <3>1, TimersAndAttemptsChanged, Zenon
  <2>. QED  BY <1>1, <1>5, <2>1, OneKept DEF StableFires
<1>6. CASE StaleFires(c) \/ HandshakeTimesOut(c)
  <2>1. Becomes(c, Dropped(ch))
    BY <1>6 DEF StaleFires, HandshakeTimesOut
  <2>. QED  BY <1>1, <2>1, DroppedIsSound, OneKept
<1>. QED  BY <1>2, <1>3, <1>4, <1>5, <1>6

LEMMA NetworkKeeps ==
  ASSUME SocketsInv, NEW c \in Channels,
         \/ HandshakeAccepted(c) \/ Frame(c) \/ ParametersRefused(c) \/ UnreadableFrame(c)
         \/ \E code \in {"policy", "other"} : Closed(c, code)
  PROVE  SocketsInv'
<1>. DEFINE ch == channel[c]
<1>1. Sound(ch, token) /\ token' = token
  BY DEF SocketsInv, Sound, HandshakeAccepted, Frame, ParametersRefused, UnreadableFrame, Closed, world
<1>2. CASE HandshakeAccepted(c)
  <2>. DEFINE y == [ch EXCEPT !.socket.up = TRUE, !.state = "connected", !.timers = @ \cup {"stable"}]
  <2>1. ch.socket # NoSocket /\ Becomes(c, y)
    BY <1>2 DEF HandshakeAccepted
  <2>2. /\ y \in Channel(token) /\ y.socket.token = ch.socket.token /\ y.timers = ch.timers \cup {"stable"}
        /\ y.state = "connected"
    BY <1>1 DEF Sound, Channel, States, Timers
  <2>. HIDE DEF y
  <2>3. OneSocket(y)
    BY <1>1, <2>1, <2>2 DEF Sound, OneSocket
  <2>. QED  BY <1>1, <2>1, <2>2, <2>3, OneKept DEF Sound
<1>3. CASE Frame(c)
  <2>2. Sound([ch EXCEPT !.attempts = 0, !.state = "connected"], token)
    <3>1. 0 \in Int /\ "connected" \in States /\ "connected" # "failed"
      BY DEF States
    <3>. QED  BY <1>1, <3>1, AttemptsAndStateChanged, Zenon
  <2>. QED  BY <1>1, <1>3, <2>2, OneKept DEF Frame
<1>4. CASE ParametersRefused(c)
  <2>. DEFINE x == teardownSocket(ch)
  <2>1. Sound(x, token) /\ x.socket = NoSocket /\ Becomes(c, [x EXCEPT !.state = "failed"])
    BY <1>1, <1>4, TeardownIsSound DEF ParametersRefused
  <2>. HIDE DEF x
  <2>2. Sound([x EXCEPT !.state = "failed"], token)
    BY <2>1 DEF Sound, Channel, OneSocket, States
  <2>. QED  BY <1>1, <2>1, <2>2, OneKept
<1>5. CASE UnreadableFrame(c)
  BY <1>1, <1>5, DroppedIsSound, OneKept DEF UnreadableFrame
<1>6. ASSUME NEW code \in {"policy", "other"}, Closed(c, code) PROVE SocketsInv'
  <2>. DEFINE x == teardownSocket(ch)
  <2>1. /\ Sound(x, token) /\ x.socket = NoSocket
        /\ Becomes(c, IF x.consumers = 0 THEN [x EXCEPT !.state = "disconnected"]
                      ELSE IF code = "policy" THEN [x EXCEPT !.state = "auth-expired"]
                      ELSE scheduleReconnect(x))
    BY <1>1, <1>6, TeardownIsSound DEF Closed
  <2>. HIDE DEF x
  <2>2. Sound([x EXCEPT !.state = "disconnected"], token) /\ Sound([x EXCEPT !.state = "auth-expired"], token)
    BY <2>1 DEF Sound, Channel, OneSocket, States
  <2>. QED  BY <1>1, <2>1, <2>2, DroppedIsSound, OneKept
<1>. QED  BY <1>2, <1>3, <1>4, <1>5, <1>6

\* A network that comes or goes takes every socket down (the listeners of online and offline).
LEMMA NetworkComesKeeps == ASSUME SocketsInv, GoOffline \/ GoOnline PROVE SocketsInv'
<1>1. \A c \in Channels : Sound(channel[c], token)
  BY SoundChannels
<1>2. token' = token
  BY DEF GoOffline, GoOnline
<1>3. CASE GoOffline
  <2>1. channel' = [c \in Channels |->
           IF channel[c] = Idle THEN Idle
           ELSE [teardownSocket(channel[c]) EXCEPT !.timers = @ \ {"reconnect"}, !.state = "disconnected"]]
    BY <1>3 DEF GoOffline
  <2>2. ASSUME NEW c \in Channels PROVE Sound(channel'[c], token')
    <3>. DEFINE x == teardownSocket(channel[c])
    <3>1. Sound(x, token) /\ x.socket = NoSocket
      BY <1>1, TeardownIsSound
    <3>2. channel'[c] = IF channel[c] = Idle THEN Idle ELSE [x EXCEPT !.timers = @ \ {"reconnect"}, !.state = "disconnected"]
      BY <2>1
    <3>. HIDE DEF x
    <3>3. Sound([x EXCEPT !.timers = @ \ {"reconnect"}, !.state = "disconnected"], token)
      BY <3>1 DEF Sound, Channel, OneSocket, States
    <3>. QED  BY <1>2, <3>2, <3>3, IdleIsSound
  <2>. QED  BY <2>1, <2>2, AllKept
<1>4. CASE GoOnline
  <2>1. channel' = [c \in Channels |->
           IF channel[c] = Idle THEN Idle
           ELSE Opened([teardownSocket(channel[c]) EXCEPT !.attempts = 0, !.timers = @ \ {"reconnect", "probation"}], token)]
    BY <1>4 DEF GoOnline
  <2>2. ASSUME NEW c \in Channels PROVE Sound(channel'[c], token')
    <3>. DEFINE x == teardownSocket(channel[c])
                y == [x EXCEPT !.attempts = 0, !.timers = @ \ {"reconnect", "probation"}]
    <3>1. Sound(x, token) /\ x.socket = NoSocket
      BY <1>1, TeardownIsSound
    <3>2. channel'[c] = IF channel[c] = Idle THEN Idle ELSE Opened(y, token)
      BY <2>1
    <3>. HIDE DEF x
    <3>3. Sound(y, token) /\ y.socket = NoSocket
      <4>. DEFINE m == [x EXCEPT !.attempts = 0]
      <4>1. Sound(m, token) /\ m.socket = NoSocket
        BY <3>1, AttemptsChanged
      <4>2. y = [m EXCEPT !.timers = x.timers \ {"reconnect", "probation"}] /\ m.timers = x.timers
        BY <3>1 DEF Sound, Channel
      <4>. HIDE DEF m, y
      <4>. QED  BY <4>1, <4>2, TimersChanged
    <3>. HIDE DEF y
    <3>. QED  BY <1>2, <3>2, <3>3, IdleIsSound, OpenedIsSound
  <2>. QED  BY <2>1, <2>2, AllKept
<1>. QED  BY <1>3, <1>4

\* A token that is set or removed sweeps the pool in the same step (TokenStore.set).
LEMMA SweepKeeps ==
  ASSUME SocketsInv, reconnectAll \/ channel' = [c \in Channels |-> Unmounted(Swept(channel[c]))]
  PROVE  SocketsInv'
<1>1. \A c \in Channels : Sound(channel[c], token)
  BY SoundChannels
<1>2. \A c \in Channels : Sound(Swept(channel[c]), token')
  BY <1>1, SweptIsSound
<1>3. \A c \in Channels : Sound(Unmounted(Swept(channel[c])), token')
  BY <1>2, UnmountedIsSound
<1>. QED  BY <1>2, <1>3, AllKept DEF reconnectAll

\* A session that expires keeps its token; its screens go.
LEMMA ExpireKeeps ==
  ASSUME SocketsInv, token' = token, channel' = [c \in Channels |-> Unmounted(channel[c])]
  PROVE  SocketsInv'
<1>1. \A c \in Channels : Sound(Unmounted(channel[c]), token')
  BY SoundChannels, UnmountedIsSound
<1>. QED  BY <1>1, AllKept

LEMMA ScreensKeep == ASSUME SocketsInv, Screens PROVE SocketsInv'
<1>1. CASE ListAccounts
  BY <1>1 DEF ListAccounts, poolVars, SocketsInv
<1>2. CASE LeaveTerminal \/ IdleTooLong
  BY <1>2, SweepKeeps DEF LeaveTerminal, IdleTooLong, SignOut
<1>3. ASSUME NEW c \in Channels, Mount(c) PROVE SocketsInv'
  BY <1>3, SubscribeKeeps DEF Mount
<1>4. ASSUME NEW c \in Channels, Unmount(c) PROVE SocketsInv'
  <2>. DEFINE ch == channel[c]
              ts == IF ch.consumers = 1 THEN ch.timers \cup {"linger"} ELSE ch.timers
  <2>1. /\ Becomes(c, [ch EXCEPT !.consumers = ch.consumers - 1, !.timers = ts])
        /\ token' = token
    BY <1>4 DEF Unmount, Release, world
  <2>2. Sound(ch, token)
    BY SoundChannels
  <2>3. ch.consumers - 1 \in Int /\ ts \subseteq ch.timers \cup {"linger", "stable", "probation"}
    <3>1. ch.consumers \in Int
      BY <2>2 DEF Sound, Channel
    <3>. QED  BY <3>1
  <2>. HIDE DEF ts
  <2>4. Sound([ch EXCEPT !.consumers = ch.consumers - 1, !.timers = ts], token)
    BY <2>2, <2>3, ConsumersAndTimersChanged
  <2>. QED  BY <2>1, <2>4, OneKept
<1>. QED  BY <1>1, <1>2, <1>3, <1>4 DEF Screens

LEMMA ExchangesKeep == ASSUME SocketsInv, Exchanges PROVE SocketsInv'
<1>1. CASE RenewalDue \/ CheckRefused \/ SwitchAccount \/ SubmitSignIn
  BY <1>1 DEF RenewalDue, CheckRefused, SwitchAccount, SubmitSignIn, StartExchange, world, poolVars, SocketsInv
<1>2. ASSUME NEW r \in Reasons, ExchangeSucceeds(r) PROVE SocketsInv'
  BY <1>2, SweepKeeps DEF ExchangeSucceeds, Mint, SetToken
<1>3. ASSUME NEW r \in Reasons, ExchangeFails(r) PROVE SocketsInv'
  <2>1. token' = token /\ (channel' = channel \/ channel' = [c \in Channels |-> Unmounted(channel[c])])
    BY <1>3 DEF ExchangeFails, Expire, world
  <2>. QED  BY <2>1, ExpireKeeps DEF SocketsInv
<1>. QED  BY <1>1, <1>2, <1>3 DEF Exchanges

LEMMA SocketsInvKept == ASSUME SocketsInv, [Next]_vars PROVE SocketsInv'
<1>1. CASE Pool
  BY <1>1, TimerKeeps, NetworkKeeps, NetworkComesKeeps DEF Pool, PoolNext
<1>2. CASE Requests
  <2>1. token' = token /\ (channel' = channel \/ channel' = [c \in Channels |-> Unmounted(channel[c])])
    BY <1>2 DEF Requests, SendRequest, RequestServed, RequestRefused, Expire, world, poolVars
  <2>. QED  BY <2>1, ExpireKeeps DEF SocketsInv
<1>3. CASE Reload
  <2>1. channel' = [c \in Channels |-> Idle]
    BY <1>3 DEF Reload
  <2>. QED  BY <2>1, IdleIsSound, AllKept
<1>4. CASE Restore
  BY <1>4, SweepKeeps DEF Restore, Mint, SetToken, SocketsInv
<1>5. CASE Lapse \/ Revoke \/ UNCHANGED vars
  BY <1>5 DEF Lapse, Revoke, vars, poolVars, SocketsInv
<1>. QED  BY <1>1, <1>2, <1>3, <1>4, <1>5, ScreensKeep, ExchangesKeep DEF Next

LEMMA SocketsInvHolds == Init => SocketsInv
BY IdleIsSound DEF Init, PoolInit, SocketsInv, Sound

\* A socket carries the token that the session holds, for any channels, tokens and limits
\* (reconnectAll, the listener of createServices).
THEOREM SocketsFollowTheToken == Spec => []SocketsCarryTheToken
<1>1. SocketsInv => SocketsCarryTheToken
  BY DEF SocketsInv, Channel, SocketsCarryTheToken
<1>. QED  BY SocketsInvHolds, SocketsInvKept, <1>1, PTL DEF Spec

\* No socket is left open and unheard, whatever timers, consumers and events meet.
THEOREM NoSocketIsForgotten == Spec => []NoSocketLeaks
<1>1. SocketsInv => NoSocketLeaks
  BY DEF SocketsInv, Channel, NoSocketLeaks
<1>. QED  BY SocketsInvHolds, SocketsInvKept, <1>1, PTL DEF Spec

----------------------------------------------------------------------------
\* The reads.

\* A request that its callbacks have not run for.
Out == {"fetching", "body", "backoff", "settled"}
Phases == Out \cup {"unmade", "over"}
RequestsMade ==
  [url : Urls \cup {"none"}, waiters : Int, aborted : BOOLEAN, phase : Phases, attempt : Int,
   answer : {"none", "canceled", "failed", "answered"}]
CallsMade ==
  [phase : {"idle", "waiting", "done"}, on : Numbers \cup {NoRequest}, aborted : BOOLEAN,
   told : {"none", "canceled", "failed", "answered"}]

ReadTypes ==
  /\ shared \in [Numbers -> RequestsMade]
  /\ inflight \in [Urls -> Numbers \cup {NoRequest}]
  /\ calls \in [Callers -> CallsMade]

\* Who still waits for request n.
Staying(n) == {c \in Callers : calls[c].phase = "waiting" /\ calls[c].on = n /\ ~calls[c].aborted}

\* Requests are made one after the other.
MadeInOrder == \E k \in 0..MaxRequests : \A n \in Numbers : shared[n].phase # "unmade" <=> n <= k

RequestsOK ==
  \A n \in Numbers : shared[n].phase \in Out =>
    /\ shared[n].url \in Urls
    /\ shared[n].waiters = Cardinality(Staying(n))
    /\ shared[n].aborted <=> Staying(n) = {}
    /\ shared[n].answer = "canceled" => shared[n].aborted
    /\ ~shared[n].aborted => inflight[shared[n].url] = n

ListOK ==
  \A u \in Urls : inflight[u] # NoRequest =>
    shared[inflight[u]].phase \in Out /\ shared[inflight[u]].url = u

CallsOK ==
  \A c \in Callers :
    /\ calls[c].phase = "waiting" => calls[c].on \in Numbers /\ shared[calls[c].on].phase \in Out
    /\ calls[c].told = "canceled" => calls[c].aborted

ReadInv == ReadTypes /\ MadeInOrder /\ RequestsOK /\ ListOK /\ CallsOK

USE ReadAssumption

----------------------------------------------------------------------------

LEMMA StayingIsFinite == ASSUME NEW n PROVE IsFiniteSet(Staying(n)) /\ Cardinality(Staying(n)) \in Nat
<1>1. Staying(n) \in SUBSET Callers
  BY DEF Staying
<1>2. IsFiniteSet(Staying(n))
  BY <1>1, FS_Subset
<1>. QED  BY <1>2, FS_CardinalityType

\* The next number is free, and the first that is.
LEMMA NextIsFree ==
  ASSUME ReadInv, NextNumber \in Numbers
  PROVE  /\ shared[NextNumber].phase = "unmade"
         /\ \A n \in Numbers : shared[n].phase # "unmade" <=> n < NextNumber
<1>1. PICK k \in 0..MaxRequests : \A n \in Numbers : shared[n].phase # "unmade" <=> n <= k
  BY DEF ReadInv, MadeInOrder
<1>2. {n \in Numbers : shared[n].phase # "unmade"} = 1..k
  BY <1>1 DEF Numbers
<1>3. Cardinality(1..k) = k
  BY <1>1, FS_Interval
<1>4. NextNumber = k + 1
  BY <1>2, <1>3 DEF NextNumber
<1>. QED  BY <1>1, <1>4 DEF Numbers

\* A request that goes on: an answer, a failure or a retry moves no caller.
LEMMA GoesOn ==
  ASSUME ReadInv, NEW n \in Numbers, NEW r \in RequestsMade, shared[n].phase \in Out, r.phase \in Out,
         r.url = shared[n].url, r.waiters = shared[n].waiters, r.aborted = shared[n].aborted,
         r.answer = "canceled" => r.aborted,
         shared' = [shared EXCEPT ![n] = r], UNCHANGED <<inflight, calls>>
  PROVE  ReadInv'
<1>. USE DEF ReadInv
<1>1. /\ shared' \in [Numbers -> RequestsMade] /\ shared'[n] = r
      /\ \A m \in Numbers \ {n} : shared'[m] = shared[m]
  BY DEF ReadTypes
<1>2. ReadTypes'
  BY <1>1 DEF ReadTypes
<1>3. \A m \in Numbers : shared'[m].phase # "unmade" <=> shared[m].phase # "unmade"
  BY <1>1 DEF Out
<1>4. MadeInOrder'
  BY <1>3 DEF MadeInOrder
<1>5. \A m : Staying(m)' = Staying(m)
  BY DEF Staying
<1>6. RequestsOK'
  BY <1>1, <1>5 DEF RequestsOK
<1>7. ListOK' /\ CallsOK'
  BY <1>1 DEF ListOK, CallsOK, ReadTypes
<1>. QED  BY <1>2, <1>4, <1>6, <1>7

LEMMA ProgressKeeps ==
  ASSUME ReadInv, NEW n \in Numbers,
         FetchFails(n) \/ ResponseComes(n) \/ BodyComes(n) \/ ServerErrs(n) \/ BackoffEnds(n)
  PROVE  ReadInv'
<1>. DEFINE q == shared[n]
<1>1. /\ q \in RequestsMade /\ q.phase \in {"fetching", "body", "backoff"}
      /\ shared \in [Numbers -> RequestsMade] /\ UNCHANGED <<inflight, calls>>
  BY DEF ReadInv, ReadTypes, FetchFails, ResponseComes, BodyComes, ServerErrs, BackoffEnds
<1>2. q.answer = "canceled" => q.aborted
  BY <1>1 DEF ReadInv, RequestsOK, Out
<1>3. q.attempt + 1 \in Int
  BY <1>1 DEF RequestsMade
<1>. DEFINE moved(r) == \/ r = [q EXCEPT !.phase = "settled", !.answer = "failed"]
                        \/ r = [q EXCEPT !.phase = "settled", !.answer = "canceled"] /\ q.aborted
                        \/ r = [q EXCEPT !.phase = "backoff"]
                        \/ r = [q EXCEPT !.phase = "body"]
                        \/ r = [q EXCEPT !.phase = "settled", !.answer = "answered"]
                        \/ r = [q EXCEPT !.phase = "fetching", !.attempt = q.attempt + 1]
<1>4. ASSUME RetryOr(n, "failed")
      PROVE  \E r : shared' = [shared EXCEPT ![n] = r] /\ moved(r)
  <2>1. CASE q.attempt = MaxTries
    BY <1>4, <2>1 DEF RetryOr
  <2>2. CASE q.attempt # MaxTries /\ q.aborted
    BY <1>4, <2>2 DEF RetryOr
  <2>3. CASE q.attempt # MaxTries /\ ~q.aborted
    BY <1>4, <2>3 DEF RetryOr
  <2>. QED  BY <2>1, <2>2, <2>3
<1>5. ASSUME ResponseComes(n) \/ BodyComes(n) \/ BackoffEnds(n)
      PROVE  \E r : shared' = [shared EXCEPT ![n] = r] /\ moved(r)
  BY <1>1, <1>5 DEF ResponseComes, BodyComes, BackoffEnds
<1>6. PICK r : shared' = [shared EXCEPT ![n] = r] /\ moved(r)
  BY <1>4, <1>5 DEF FetchFails, ServerErrs
<1>7. /\ r \in RequestsMade /\ r.phase \in Out /\ r.url = q.url /\ r.waiters = q.waiters /\ r.aborted = q.aborted
      /\ r.answer = "canceled" => r.aborted
  <2>. HIDE DEF q
  <2>1. ASSUME NEW p \in Phases, NEW a \in {"none", "canceled", "failed", "answered"}
        PROVE  /\ [q EXCEPT !.phase = p, !.answer = a] \in RequestsMade
               /\ [q EXCEPT !.phase = p, !.attempt = q.attempt + 1] \in RequestsMade
               /\ [q EXCEPT !.phase = p] \in RequestsMade
    BY <1>1, <1>3 DEF RequestsMade
  <2>2. r \in RequestsMade
    BY <1>6, <2>1 DEF Phases, Out
  <2>. DEFINE kept(x) == x.url = q.url /\ x.waiters = q.waiters /\ x.aborted = q.aborted
  <2>3. ASSUME NEW p \in Phases, NEW a \in {"none", "canceled", "failed", "answered"}
        PROVE  LET x == [q EXCEPT !.phase = p, !.answer = a]
               IN  kept(x) /\ x.phase = p /\ x.answer = a
    BY <1>1 DEF RequestsMade
  <2>4. ASSUME NEW p \in Phases
        PROVE  LET x == [q EXCEPT !.phase = p, !.attempt = q.attempt + 1]
               IN  kept(x) /\ x.phase = p /\ x.answer = q.answer
    BY <1>1 DEF RequestsMade
  <2>5. ASSUME NEW p \in Phases
        PROVE  LET x == [q EXCEPT !.phase = p] IN kept(x) /\ x.phase = p /\ x.answer = q.answer
    BY <1>1 DEF RequestsMade
  <2>6. kept(r) /\ r.phase \in Out /\ (r.answer = "canceled" => q.aborted)
    <3>. HIDE DEF kept
    <3>1. CASE r = [q EXCEPT !.phase = "settled", !.answer = "failed"]
      BY <2>3, <3>1 DEF Phases, Out
    <3>2. CASE r = [q EXCEPT !.phase = "settled", !.answer = "canceled"] /\ q.aborted
      BY <2>3, <3>2 DEF Phases, Out
    <3>3. CASE r = [q EXCEPT !.phase = "settled", !.answer = "answered"]
      BY <2>3, <3>3 DEF Phases, Out
    <3>4. CASE r = [q EXCEPT !.phase = "backoff"] \/ r = [q EXCEPT !.phase = "body"]
      BY <1>2, <2>5, <3>4 DEF Phases, Out
    <3>5. CASE r = [q EXCEPT !.phase = "fetching", !.attempt = q.attempt + 1]
      BY <1>2, <2>4, <3>5 DEF Phases, Out
    <3>. QED  BY <1>6, <3>1, <3>2, <3>3, <3>4, <3>5
  <2>. QED  BY <2>2, <2>6
<1>. QED  BY <1>1, <1>6, <1>7, GoesOn DEF Out

LEMMA WaitsOn ==
  ASSUME NEW n \in Numbers, NEW k, k = [Quiet EXCEPT !.phase = "waiting", !.on = n]
  PROVE  k \in CallsMade /\ k.phase = "waiting" /\ k.on = n /\ ~k.aborted /\ k.told = "none"
<1>1. /\ k \in [phase : {"waiting"}, on : {n}, aborted : {FALSE}, told : {"none"}]
      /\ k.phase = "waiting" /\ k.on = n /\ ~k.aborted /\ k.told = "none"
  BY DEF Quiet
<1>. QED  BY <1>1 DEF CallsMade

\* A caller that begins to wait is one more of its request's.
LEMMA WaitsBegin ==
  ASSUME NEW c \in Callers, NEW n \in Numbers, calls[c].phase = "idle",
         calls'[c].phase = "waiting", calls'[c].on = n, ~calls'[c].aborted,
         \A d \in Callers \ {c} : calls'[d] = calls[d]
  PROVE  /\ Staying(n)' = Staying(n) \cup {c} /\ c \notin Staying(n)
         /\ \A m \in Numbers \ {n} : Staying(m)' = Staying(m)
<1>. DEFINE w(d, m) == calls[d].phase = "waiting" /\ calls[d].on = m /\ ~calls[d].aborted
<1>1. \A d \in Callers \ {c}, m \in Numbers : w(d, m)' <=> w(d, m)
  OBVIOUS
<1>2. \A m \in Numbers : ~w(c, m) /\ (w(c, m)' <=> m = n)
  OBVIOUS
<1>3. \A m : Staying(m) = {d \in Callers : w(d, m)} /\ Staying(m)' = {d \in Callers : w(d, m)'}
  BY DEF Staying
<1>. HIDE DEF w
<1>. QED  BY <1>1, <1>2, <1>3

\* A read that finds its URL in flight waits for the same request.
LEMMA AskJoins ==
  ASSUME ReadInv, NEW c \in Callers, NEW u \in Urls, Ask(c, u), Joinable(u)
  PROVE  ReadInv'
<1>. USE DEF ReadInv
<1>0. PICK n \in Numbers : n = inflight[u]
  BY DEF Joinable, ReadTypes
<1>. DEFINE r == [shared[n] EXCEPT !.waiters = @ + 1]
            k == [Quiet EXCEPT !.phase = "waiting", !.on = n]
<1>1. /\ n \in Numbers /\ n # NoRequest /\ shared[n].phase \in Out /\ shared[n].url = u /\ ~shared[n].aborted
      /\ calls[c].phase = "idle"
  BY <1>0 DEF Ask, Joinable, ListOK, ReadTypes
<1>2. k \in CallsMade /\ k.phase = "waiting" /\ k.on = n /\ ~k.aborted /\ k.told = "none"
  BY <1>1, WaitsOn
<1>3. calls' = [calls EXCEPT ![c] = k] /\ shared' = [shared EXCEPT ![n] = r] /\ inflight' = inflight
  BY <1>0 DEF Ask
<1>4. k \in CallsMade
  BY <1>2
<1>5. shared[n] \in RequestsMade /\ shared[n].waiters + 1 \in Int
  BY <1>1 DEF ReadTypes, RequestsMade
<1>6. /\ r \in RequestsMade /\ r.phase = shared[n].phase /\ r.url = u /\ r.aborted = shared[n].aborted
      /\ r.answer = shared[n].answer /\ r.waiters = shared[n].waiters + 1
  BY <1>1, <1>5 DEF RequestsMade
<1>. HIDE DEF r, k
<1>7. /\ shared' \in [Numbers -> RequestsMade] /\ shared'[n] = r
      /\ \A m \in Numbers \ {n} : shared'[m] = shared[m]
  BY <1>1, <1>3, <1>6 DEF ReadTypes
<1>8. /\ calls' \in [Callers -> CallsMade] /\ calls'[c] = k
      /\ \A d \in Callers \ {c} : calls'[d] = calls[d]
  BY <1>3, <1>4 DEF ReadTypes
<1>9. ReadTypes'
  BY <1>3, <1>7, <1>8 DEF ReadTypes
<1>10. MadeInOrder'
  <2>1. \A m \in Numbers : shared'[m].phase # "unmade" <=> shared[m].phase # "unmade"
    BY <1>6, <1>7
  <2>. QED  BY <2>1 DEF MadeInOrder
<1>11. /\ Staying(n)' = Staying(n) \cup {c} /\ c \notin Staying(n)
       /\ \A m \in Numbers \ {n} : Staying(m)' = Staying(m)
  BY <1>1, <1>2, <1>8, WaitsBegin
<1>12. Cardinality(Staying(n)') = Cardinality(Staying(n)) + 1
  BY <1>11, StayingIsFinite, FS_AddElement
<1>13. RequestsOK'
  <2>1. /\ shared'[n].waiters = Cardinality(Staying(n)') /\ Staying(n) # {} /\ Staying(n)' # {}
        /\ inflight[u] = n
    BY <1>0, <1>1, <1>6, <1>7, <1>11, <1>12 DEF RequestsOK
  <2>2. \A m \in Numbers \ {n} : shared'[m] = shared[m] /\ Staying(m)' = Staying(m)
    BY <1>7, <1>11
  <2>3. ASSUME NEW m \in Numbers, shared'[m].phase \in Out
        PROVE  /\ shared'[m].url \in Urls
               /\ shared'[m].waiters = Cardinality(Staying(m)')
               /\ shared'[m].aborted <=> Staying(m)' = {}
               /\ shared'[m].answer = "canceled" => shared'[m].aborted
               /\ ~shared'[m].aborted => inflight'[shared'[m].url] = m
    <3>1. CASE m = n
      <4>1. shared[n].answer = "canceled" => shared[n].aborted
        BY <1>1 DEF RequestsOK
      <4>. QED  BY <1>1, <1>3, <1>6, <1>7, <2>1, <3>1, <4>1
    <3>2. CASE m # n
      BY <1>3, <2>2, <2>3, <3>2 DEF RequestsOK
    <3>. QED  BY <3>1, <3>2
  <2>. QED  BY <2>3 DEF RequestsOK
<1>14. ListOK'
  BY <1>1, <1>3, <1>6, <1>7 DEF ListOK, ReadTypes
<1>15. CallsOK'
  BY <1>1, <1>2, <1>6, <1>7, <1>8 DEF CallsOK
<1>. QED  BY <1>9, <1>10, <1>13, <1>14, <1>15

\* A read that finds none makes a request of its own.
LEMMA AskMakes ==
  ASSUME ReadInv, NEW c \in Callers, NEW u \in Urls, Ask(c, u), ~Joinable(u)
  PROVE  ReadInv'
<1>. USE DEF ReadInv
<1>0. PICK n \in Numbers : n = NextNumber
  BY DEF Ask
<1>. DEFINE r == [url |-> u, waiters |-> 1, aborted |-> FALSE, phase |-> "fetching", attempt |-> 1, answer |-> "none"]
            k == [Quiet EXCEPT !.phase = "waiting", !.on = n]
<1>1. n \in Numbers /\ calls[c].phase = "idle" /\ (inflight[u] = NoRequest \/ shared[inflight[u]].aborted)
  BY DEF Ask, Joinable
<1>2. shared[n].phase = "unmade" /\ \A m \in Numbers : shared[m].phase # "unmade" <=> m < n
  BY <1>0, NextIsFree
<1>3. k \in CallsMade /\ k.phase = "waiting" /\ k.on = n /\ ~k.aborted /\ k.told = "none"
  BY <1>1, WaitsOn
<1>4. calls' = [calls EXCEPT ![c] = k] /\ shared' = [shared EXCEPT ![n] = r] /\ inflight' = [inflight EXCEPT ![u] = n]
  BY <1>0 DEF Ask
<1>5. k \in CallsMade /\ r \in RequestsMade /\ n \in Int
  BY <1>1, <1>3 DEF RequestsMade, Phases, Out, Numbers
<1>. HIDE DEF r, k
<1>6. /\ shared' \in [Numbers -> RequestsMade] /\ shared'[n] = r
      /\ \A m \in Numbers \ {n} : shared'[m] = shared[m]
  BY <1>1, <1>4, <1>5 DEF ReadTypes
<1>7. /\ calls' \in [Callers -> CallsMade] /\ calls'[c] = k
      /\ \A d \in Callers \ {c} : calls'[d] = calls[d]
  BY <1>4, <1>5 DEF ReadTypes
<1>8. /\ inflight' \in [Urls -> Numbers \cup {NoRequest}] /\ inflight'[u] = n
      /\ \A v \in Urls \ {u} : inflight'[v] = inflight[v]
  BY <1>1, <1>4 DEF ReadTypes
<1>9. ReadTypes'
  BY <1>6, <1>7, <1>8 DEF ReadTypes
<1>10. MadeInOrder'
  <2>1. \A m \in Numbers : shared'[m].phase # "unmade" <=> m <= n
    BY <1>2, <1>5, <1>6 DEF r, Numbers
  <2>2. n \in 0..MaxRequests
    BY <1>1 DEF Numbers
  <2>. QED  BY <2>1, <2>2 DEF MadeInOrder
<1>11. Staying(n) = {} /\ \A d \in Callers : calls[d].phase = "waiting" => calls[d].on # n
  BY <1>2 DEF Staying, CallsOK, Out
<1>12. Staying(n)' = {c} /\ \A m \in Numbers \ {n} : Staying(m)' = Staying(m)
  BY <1>1, <1>3, <1>7, <1>11, WaitsBegin
<1>13. Cardinality(Staying(n)') = 1
  BY <1>12, FS_Singleton
<1>14. RequestsOK'
  <2>1. ASSUME NEW m \in Numbers, shared'[m].phase \in Out
        PROVE  /\ shared'[m].url \in Urls
               /\ shared'[m].waiters = Cardinality(Staying(m)')
               /\ shared'[m].aborted <=> Staying(m)' = {}
               /\ shared'[m].answer = "canceled" => shared'[m].aborted
               /\ ~shared'[m].aborted => inflight'[shared'[m].url] = m
    <3>1. CASE m = n
      <4>1. /\ r.url = u /\ r.waiters = 1 /\ ~r.aborted /\ r.answer = "none"
        BY DEF r
      <4>2. shared'[m] = r /\ Staying(m)' = {c} /\ Cardinality(Staying(m)') = 1
        BY <1>6, <1>12, <1>13, <3>1
      <4>. QED  BY <1>8, <3>1, <4>1, <4>2
    <3>2. CASE m # n
      <4>1. shared'[m] = shared[m] /\ Staying(m)' = Staying(m)
        BY <1>6, <1>12, <3>2
      <4>2. ~shared[m].aborted => shared[m].url # u
        BY <1>1, <2>1, <3>2, <4>1 DEF RequestsOK, Numbers, NoRequest
      <4>. QED  BY <1>8, <2>1, <4>1, <4>2 DEF RequestsOK
    <3>. QED  BY <3>1, <3>2
  <2>. QED  BY <2>1 DEF RequestsOK
<1>15. ListOK'
  <2>1. r.phase \in Out /\ r.url = u
    BY DEF r, Out
  <2>2. \A v \in Urls \ {u} : inflight[v] # NoRequest => inflight[v] \in Numbers \ {n}
    BY <1>2 DEF ListOK, ReadTypes, Out
  <2>. QED  BY <1>6, <1>8, <2>1, <2>2 DEF ListOK
<1>16. CallsOK'
  <2>1. r.phase \in Out
    BY DEF r, Out
  <2>. QED  BY <1>1, <1>3, <1>6, <1>7, <1>11, <2>1 DEF CallsOK
<1>. QED  BY <1>9, <1>10, <1>14, <1>15, <1>16

\* A caller that leaves is one fewer; the last to leave takes the request along.
LEMMA AbortKeeps ==
  ASSUME ReadInv, NEW c \in Callers, AbortCall(c)
  PROVE  ReadInv'
<1>. USE DEF ReadInv
<1>0. PICK n \in Numbers : n = calls[c].on
  BY DEF AbortCall, CallsOK
<1>1. /\ calls[c].phase = "waiting" /\ ~calls[c].aborted /\ shared[n].phase \in Out
      /\ shared[n] \in RequestsMade /\ calls[c] \in CallsMade
  BY <1>0 DEF AbortCall, CallsOK, ReadTypes
<1>. DEFINE staying == shared[n].waiters - 1
            dies == staying = 0 /\ shared[n].phase \in {"fetching", "backoff"}
            k == [calls[c] EXCEPT !.aborted = TRUE]
<1>2. staying \in Int
  BY <1>1 DEF RequestsMade
<1>3. /\ k \in CallsMade /\ k.phase = "waiting" /\ k.on = n /\ k.aborted /\ k.told = calls[c].told
      /\ calls' \in [Callers -> CallsMade] /\ calls'[c] = k
      /\ \A d \in Callers \ {c} : calls'[d] = calls[d]
      /\ inflight' = inflight
  BY <1>0, <1>1 DEF AbortCall, CallsMade, ReadTypes
<1>4. PICK r : /\ shared' = [shared EXCEPT ![n] = r]
               /\ r \in RequestsMade /\ r.url = shared[n].url /\ r.waiters = staying
               /\ r.aborted <=> shared[n].aborted \/ staying = 0
               /\ r.phase = IF dies THEN "settled" ELSE shared[n].phase
               /\ r.answer = IF dies THEN "canceled" ELSE shared[n].answer
  <2>. DEFINE q == shared[n]
              left == [q EXCEPT !.waiters = q.waiters - 1, !.aborted = q.aborted \/ q.waiters = 1]
              r == IF dies THEN [left EXCEPT !.phase = "settled", !.answer = "canceled"] ELSE left
  <2>1. shared' = [shared EXCEPT ![n] = r]
    BY <1>0, <1>1 DEF AbortCall, RequestsMade
  <2>2. /\ left \in RequestsMade /\ left.url = q.url /\ left.waiters = staying /\ left.phase = q.phase
        /\ left.answer = q.answer /\ (left.aborted <=> q.aborted \/ staying = 0)
    <3>1. ASSUME NEW w \in Int, NEW b \in BOOLEAN
          PROVE  /\ [q EXCEPT !.waiters = w, !.aborted = b] \in RequestsMade
                 /\ [q EXCEPT !.waiters = w, !.aborted = b].url = q.url
                 /\ [q EXCEPT !.waiters = w, !.aborted = b].waiters = w
                 /\ [q EXCEPT !.waiters = w, !.aborted = b].phase = q.phase
                 /\ [q EXCEPT !.waiters = w, !.aborted = b].answer = q.answer
                 /\ [q EXCEPT !.waiters = w, !.aborted = b].aborted = b
      BY <1>1 DEF RequestsMade
    <3>2. (q.aborted \/ q.waiters = 1) \in BOOLEAN /\ (q.waiters = 1 <=> staying = 0)
      BY <1>1 DEF RequestsMade
    <3>. QED  BY <1>2, <3>1, <3>2
  <2>. HIDE DEF left
  <2>3. /\ r \in RequestsMade /\ r.url = left.url /\ r.waiters = left.waiters /\ r.aborted = left.aborted
        /\ r.phase = IF dies THEN "settled" ELSE left.phase
        /\ r.answer = IF dies THEN "canceled" ELSE left.answer
    BY <2>2 DEF RequestsMade, Phases, Out
  <2>. HIDE DEF r
  <2>. QED  BY <2>1, <2>2, <2>3
<1>. HIDE DEF k, staying
<1>5. /\ shared' \in [Numbers -> RequestsMade] /\ shared'[n] = r
      /\ \A m \in Numbers \ {n} : shared'[m] = shared[m]
  BY <1>4 DEF ReadTypes
<1>6. r.phase \in Out
  BY <1>1, <1>4 DEF Out
<1>7. ReadTypes'
  BY <1>3, <1>5 DEF ReadTypes
<1>8. MadeInOrder'
  <2>1. \A m \in Numbers : shared'[m].phase # "unmade" <=> shared[m].phase # "unmade"
    BY <1>1, <1>5, <1>6 DEF Out
  <2>. QED  BY <2>1 DEF MadeInOrder
<1>9. /\ c \in Staying(n) /\ Staying(n)' = Staying(n) \ {c}
      /\ \A m \in Numbers \ {n} : Staying(m)' = Staying(m)
  <2>. DEFINE w(d, m) == calls[d].phase = "waiting" /\ calls[d].on = m /\ ~calls[d].aborted
  <2>1. \A d \in Callers \ {c}, m \in Numbers : w(d, m)' <=> w(d, m)
    BY <1>3
  <2>2. \A m \in Numbers : ~w(c, m)' /\ (w(c, m) <=> m = n)
    BY <1>0, <1>1, <1>3
  <2>3. \A m : Staying(m) = {d \in Callers : w(d, m)} /\ Staying(m)' = {d \in Callers : w(d, m)'}
    BY DEF Staying
  <2>. HIDE DEF w
  <2>. QED  BY <2>1, <2>2, <2>3
<1>10. /\ Cardinality(Staying(n)') = staying /\ ~shared[n].aborted
       /\ staying = 0 <=> Staying(n)' = {}
  <2>1. shared[n].waiters = Cardinality(Staying(n)) /\ ~shared[n].aborted
    BY <1>1, <1>9 DEF RequestsOK
  <2>2. Cardinality(Staying(n)') = Cardinality(Staying(n)) - 1
    BY <1>9, StayingIsFinite, FS_RemoveElement
  <2>3. IsFiniteSet(Staying(n)')
    BY <1>9, StayingIsFinite, FS_RemoveElement
  <2>4. Cardinality(Staying(n)') = 0 <=> Staying(n)' = {}
    BY <2>3, FS_EmptySet
  <2>. QED  BY <2>1, <2>2, <2>4 DEF staying
<1>11. RequestsOK'
  <2>1. ASSUME NEW m \in Numbers, shared'[m].phase \in Out
        PROVE  /\ shared'[m].url \in Urls
               /\ shared'[m].waiters = Cardinality(Staying(m)')
               /\ shared'[m].aborted <=> Staying(m)' = {}
               /\ shared'[m].answer = "canceled" => shared'[m].aborted
               /\ ~shared'[m].aborted => inflight'[shared'[m].url] = m
    <3>1. CASE m = n
      <4>1. /\ shared[n].url \in Urls /\ shared[n].answer # "canceled" /\ inflight[shared[n].url] = n
        BY <1>1, <1>10 DEF RequestsOK
      <4>2. r.answer = "canceled" => r.aborted
        BY <1>4, <4>1
      <4>. QED  BY <1>3, <1>4, <1>5, <1>10, <3>1, <4>1, <4>2
    <3>2. CASE m # n
      BY <1>3, <1>5, <1>9, <2>1, <3>2 DEF RequestsOK
    <3>. QED  BY <3>1, <3>2
  <2>. QED  BY <2>1 DEF RequestsOK
<1>12. ListOK' /\ CallsOK'
  BY <1>1, <1>3, <1>4, <1>5, <1>6 DEF ListOK, CallsOK, ReadTypes
<1>. QED  BY <1>7, <1>8, <1>11, <1>12

\* The callbacks of a request that is over run for everyone that waits on it.
LEMMA DeliverKeeps ==
  ASSUME ReadInv, NEW n \in Numbers, Deliver(n)
  PROVE  ReadInv'
<1>. USE DEF ReadInv
<1>. DEFINE r == [shared[n] EXCEPT !.phase = "over"]
            u == shared[n].url
<1>1. shared[n] \in RequestsMade /\ shared[n].phase = "settled" /\ u \in Urls
  BY DEF Deliver, ReadTypes, RequestsOK, Out
<1>2. r \in RequestsMade /\ r.phase = "over"
  BY <1>1 DEF RequestsMade, Phases
<1>. HIDE DEF r
<1>3. /\ shared' \in [Numbers -> RequestsMade] /\ shared'[n] = r
      /\ \A m \in Numbers \ {n} : shared'[m] = shared[m]
  BY <1>2 DEF Deliver, ReadTypes, r
<1>4. /\ inflight' \in [Urls -> Numbers \cup {NoRequest}]
      /\ inflight'[u] = IF inflight[u] = n THEN NoRequest ELSE inflight[u]
      /\ \A v \in Urls \ {u} : inflight'[v] = inflight[v]
  BY <1>1 DEF Deliver, ReadTypes
<1>5. \A c \in Callers : calls'[c] = IF calls[c].phase = "waiting" /\ calls[c].on = n
                                     THEN [calls[c] EXCEPT !.phase = "done", !.told = shared[n].answer] ELSE calls[c]
  BY DEF Deliver
<1>6. ASSUME NEW c \in Callers, calls[c].phase = "waiting", calls[c].on = n
      PROVE  /\ calls'[c] \in CallsMade /\ calls'[c].phase = "done" /\ calls'[c].told = shared[n].answer
             /\ calls'[c].aborted = calls[c].aborted
  BY <1>1, <1>5, <1>6 DEF ReadTypes, CallsMade, RequestsMade
<1>7. \A c \in Callers : calls[c].phase # "waiting" \/ calls[c].on # n => calls'[c] = calls[c]
  BY <1>5
<1>8. calls' \in [Callers -> CallsMade]
  <2>1. \A c \in Callers : calls'[c] \in CallsMade
    BY <1>6, <1>7 DEF ReadTypes
  <2>2. calls' = [c \in Callers |-> calls'[c]]
    BY DEF Deliver
  <2>. QED  BY <2>1, <2>2
<1>9. ReadTypes'
  BY <1>3, <1>4, <1>8 DEF ReadTypes
<1>10. MadeInOrder'
  <2>1. \A m \in Numbers : shared'[m].phase # "unmade" <=> shared[m].phase # "unmade"
    BY <1>1, <1>2, <1>3
  <2>. QED  BY <2>1 DEF MadeInOrder
<1>11. \A m \in Numbers \ {n} : Staying(m)' = Staying(m)
  <2>. DEFINE w(d, m) == calls[d].phase = "waiting" /\ calls[d].on = m /\ ~calls[d].aborted
  <2>1. \A d \in Callers, m \in Numbers \ {n} : w(d, m)' <=> w(d, m)
    BY <1>6, <1>7
  <2>2. \A m : Staying(m) = {d \in Callers : w(d, m)} /\ Staying(m)' = {d \in Callers : w(d, m)'}
    BY DEF Staying
  <2>. HIDE DEF w
  <2>. QED  BY <2>1, <2>2
<1>12. RequestsOK'
  <2>1. ASSUME NEW m \in Numbers, shared'[m].phase \in Out
        PROVE  m # n /\ shared'[m] = shared[m] /\ Staying(m)' = Staying(m)
    BY <1>2, <1>3, <1>11, <2>1 DEF Out
  <2>2. ASSUME NEW m \in Numbers, shared[m].phase \in Out, ~shared[m].aborted, m # n
        PROVE  inflight'[shared[m].url] = m
    BY <1>1, <1>4, <2>2 DEF RequestsOK
  <2>. QED  BY <2>1, <2>2 DEF RequestsOK
<1>13. ListOK'
  <2>1. ASSUME NEW v \in Urls, inflight'[v] # NoRequest
        PROVE  inflight'[v] = inflight[v] /\ inflight[v] \in Numbers \ {n}
    BY <1>1, <1>4, <2>1 DEF ListOK, ReadTypes
  <2>. QED  BY <1>3, <2>1 DEF ListOK
<1>14. CallsOK'
  <2>1. ASSUME NEW c \in Callers, calls[c].phase = "waiting", calls[c].on = n, calls'[c].told = "canceled"
        PROVE  calls'[c].aborted
    <3>1. shared[n].answer = "canceled"
      BY <1>6, <2>1
    <3>2. Staying(n) = {}
      BY <1>1, <3>1 DEF RequestsOK, Out
    <3>. QED  BY <1>6, <2>1, <3>2 DEF Staying
  <2>2. ASSUME NEW c \in Callers, calls'[c].phase = "waiting"
        PROVE  calls'[c] = calls[c] /\ calls[c].on # n
    BY <1>6, <1>7, <2>2
  <2>. QED  BY <1>3, <1>6, <1>7, <2>1, <2>2 DEF CallsOK
<1>. QED  BY <1>9, <1>10, <1>12, <1>13, <1>14

LEMMA AskAnewKeeps ==
  ASSUME ReadInv, NEW c \in Callers, AskAnew(c)
  PROVE  ReadInv'
<1>. USE DEF ReadInv
<1>1. /\ calls[c].phase = "done" /\ Quiet \in CallsMade /\ Quiet.phase = "idle" /\ Quiet.told = "none"
      /\ calls' = [calls EXCEPT ![c] = Quiet] /\ shared' = shared /\ inflight' = inflight
  BY DEF AskAnew, Quiet, CallsMade
<1>2. /\ calls' \in [Callers -> CallsMade] /\ calls'[c] = Quiet
      /\ \A d \in Callers \ {c} : calls'[d] = calls[d]
  BY <1>1 DEF ReadTypes
<1>3. \A m : Staying(m)' = Staying(m)
  BY <1>1, <1>2 DEF Staying
<1>. QED  BY <1>1, <1>2, <1>3 DEF ReadTypes, MadeInOrder, RequestsOK, ListOK, CallsOK

LEMMA ReadInvHolds == ReadInit => ReadInv
<1>. SUFFICES ASSUME ReadInit PROVE ReadInv
  OBVIOUS
<1>1. Unmade \in RequestsMade /\ Unmade.phase = "unmade" /\ Quiet \in CallsMade /\ Quiet.phase = "idle" /\ Quiet.told = "none"
  BY DEF Unmade, RequestsMade, Phases, Out, Quiet, CallsMade
<1>2. ReadTypes
  BY <1>1 DEF ReadInit, ReadTypes
<1>3. MadeInOrder
  <2>1. 0 \in 0..MaxRequests /\ \A n \in Numbers : ~(n <= 0)
    BY DEF Numbers
  <2>2. \A n \in Numbers : shared[n].phase = "unmade"
    BY <1>1 DEF ReadInit
  <2>. QED  BY <2>1, <2>2 DEF MadeInOrder
<1>4. RequestsOK /\ ListOK /\ CallsOK
  BY <1>1 DEF ReadInit, RequestsOK, ListOK, CallsOK, Out
<1>. QED  BY <1>2, <1>3, <1>4 DEF ReadInv

LEMMA ReadInvKept == ReadInv /\ [ReadNext]_readVars => ReadInv'
<1>. SUFFICES ASSUME ReadInv, [ReadNext]_readVars PROVE ReadInv'
  OBVIOUS
<1>1. CASE UNCHANGED readVars
  <2>1. UNCHANGED <<shared, inflight, calls>>
    BY <1>1 DEF readVars
  <2>2. \A m : Staying(m)' = Staying(m)
    BY <2>1 DEF Staying
  <2>3. RequestsOK'
    BY <2>1, <2>2 DEF ReadInv, RequestsOK
  <2>. QED  BY <2>1, <2>3 DEF ReadInv, ReadTypes, MadeInOrder, ListOK, CallsOK
<1>2. ASSUME NEW c \in Callers, AbortCall(c) \/ AskAnew(c) PROVE ReadInv'
  BY <1>2, AbortKeeps, AskAnewKeeps
<1>3. ASSUME NEW c \in Callers, NEW u \in Urls, Ask(c, u) PROVE ReadInv'
  BY <1>3, AskJoins, AskMakes
<1>4. ASSUME NEW n \in Numbers, Progress(n) PROVE ReadInv'
  BY <1>4, ProgressKeeps, DeliverKeeps DEF Progress
<1>. QED  BY <1>1, <1>2, <1>3, <1>4 DEF ReadNext

\* Nobody is told that its read was canceled because others left it, and at most one request that
\* is still wanted is out for a URL: the count of those who wait is that of the callers who have
\* not left, and a request that is wanted is the one that is listed (http-client.ts:131).
THEOREM NobodyCancelsForOthers == ReadSpec => []OthersDoNotCancel
<1>1. ReadInv => OthersDoNotCancel
  <2>. SUFFICES ASSUME ReadInv PROVE OthersDoNotCancel
    OBVIOUS
  <2>1. ASSUME NEW m \in Numbers, NEW n \in Numbers, m # n, shared[m].url = shared[n].url,
               {shared[m].phase, shared[n].phase} \subseteq {"fetching", "body", "backoff"},
               ~shared[m].aborted, ~shared[n].aborted
        PROVE  FALSE
    BY <2>1 DEF ReadInv, RequestsOK, Out
  <2>2. \A c \in Callers : calls[c].told = "canceled" => calls[c].aborted
    BY DEF ReadInv, CallsOK
  <2>. QED  BY <2>1, <2>2 DEF OthersDoNotCancel
<1>. QED  BY <1>1, ReadInvHolds, ReadInvKept, PTL DEF ReadSpec

================================================================================
