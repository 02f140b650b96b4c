-------------------------------- MODULE Hub --------------------------------
(***************************************************************************)
(* The fan-out of one gateway process, a pod, to its WebSocket clients     *)
(* (backend/internal/realtime/hub.go, ws.go).                              *)
(*                                                                         *)
(* Clients of one subscription key share a topic; its goroutine broadcasts *)
(* what it polls itself, or what the bus brings.  Two locks matter: h.mu   *)
(* of the pod, held while a client joins or leaves, and t.mu of the topic, *)
(* held through a broadcast, which interleaves with the clients' writers   *)
(* at every channel operation.  Joining and leaving take h.mu, then t.mu.  *)
(*                                                                         *)
(* A topic is named by a generation of its key, so that a client of a      *)
(* topic no longer listed is told from one of its successor.  What the     *)
(* goroutine of an unlisted topic still does reaches nobody.  A frame is   *)
(* the version of the upstream data it carries; Null is what a failed      *)
(* dispatch broadcasts, a frame without data.                              *)
(***************************************************************************)
EXTENDS Integers, Sequences

CONSTANTS
  Pods,
  BusPods,         \* those whose hub has a bus; the others poll MT5 themselves
  Keys,            \* subscription keys
  Clients,         \* connections, each made once
  NoClient,        \* a lock is free
  PodOf, KeyOf,    \* client -> where it connects, what it asks for
  SendBuf,         \* capacity of a subscriber's channel
  SubscribeFails   \* bus.Subscribe may return an error

ASSUME HubAssumption ==
  /\ BusPods \subseteq Pods
  /\ NoClient \notin Clients
  /\ PodOf \in [Clients -> Pods] /\ KeyOf \in [Clients -> Keys]
  /\ SendBuf \in Nat \ {0}
  /\ SubscribeFails \in BOOLEAN

VARIABLES
  client,    \* client -> "out", "joining", "in", "leaving" or "gone"
  at,        \* client -> the generation it was attached to
  queue,     \* client -> its channel
  shown,     \* client -> the data last written to it, NoFrame for none
  hubLock,   \* pod -> who holds h.mu
  topic,     \* pod -> key -> [gen, feed, last], feed "none" when not listed
  inbox,     \* pod -> key -> frames the topic has to broadcast
  sending,   \* pod -> key -> clients the broadcast has still to serve
  stage      \* client -> where deliver is with it

hubVars == <<client, at, queue, shown, hubLock, topic, inbox, sending, stage>>

NoFrame == -1
Null == 0

Topic(c) == topic[PodOf[c]][KeyOf[c]]
Sending(c) == sending[PodOf[c]][KeyOf[c]]
Listed(p, k) == topic[p][k].feed # "none"

\* t.subs of the topic listed for a key.
Attached(c) == client[c] \in {"in", "leaving"} /\ at[c] = Topic(c).gen /\ Topic(c).feed # "none"
Subs(p, k) == {c \in Clients : PodOf[c] = p /\ KeyOf[c] = k /\ Attached(c)}

SetTopic(p, k, t) == topic' = [topic EXCEPT ![p][k] = t]
Move(c, where) == client' = [client EXCEPT ![c] = where]

-----------------------------------------------------------------------------
(* subscribe *)

NewTopic(p, k) ==
  [gen |-> topic[p][k].gen + 1, last |-> NoFrame,
   feed |-> IF p \in BusPods THEN "starting" ELSE "live"]

LookUp(c) ==
  LET p == PodOf[c]  k == KeyOf[c]
      t == IF Listed(p, k) THEN topic[p][k] ELSE NewTopic(p, k)
  IN  /\ client[c] = "out"
      /\ hubLock[p] = NoClient
      /\ Move(c, "joining")
      /\ SetTopic(p, k, t)
      /\ at' = [at EXCEPT ![c] = t.gen]
      /\ UNCHANGED <<queue, shown, inbox, sending, stage>>

\* The topic is found or made, and h.mu kept.
Join(c) == LookUp(c) /\ hubLock' = [hubLock EXCEPT ![PodOf[c]] = c]

\* The client is in the topic, with the latest frame in its channel.
Attach(c) ==
  /\ client[c] = "joining"
  /\ Sending(c) = {}
  /\ Move(c, "in")
  /\ queue' = [queue EXCEPT ![c] = IF Topic(c).last = NoFrame THEN @
                                    ELSE Append(@, Topic(c).last)]
  /\ hubLock' = [hubLock EXCEPT ![PodOf[c]] = NoClient]
  /\ UNCHANGED <<at, shown, topic, inbox, sending, stage>>

-----------------------------------------------------------------------------
(* release, on disconnect, a failed write or shutdown *)

Disconnect(c) ==
  /\ client[c] = "in"
  /\ hubLock[PodOf[c]] = NoClient
  /\ Move(c, "leaving")
  /\ hubLock' = [hubLock EXCEPT ![PodOf[c]] = c]
  /\ UNCHANGED <<at, queue, shown, topic, inbox, sending, stage>>

\* The last one out takes the topic off the list and cancels its goroutine; the
\* channel is closed.
Detach(c) ==
  LET p == PodOf[c]  k == KeyOf[c]
      last == Subs(p, k) \subseteq {c} /\ at[c] = topic[p][k].gen
  IN  /\ client[c] = "leaving"
      /\ Move(c, "gone")
      /\ queue' = [queue EXCEPT ![c] = <<>>]
      /\ hubLock' = [hubLock EXCEPT ![p] = NoClient]
      /\ IF last
         THEN SetTopic(p, k, [topic[p][k] EXCEPT !.feed = "none", !.last = NoFrame])
         ELSE UNCHANGED topic
      /\ inbox' = IF last THEN [inbox EXCEPT ![p][k] = <<>>] ELSE inbox
      /\ UNCHANGED <<at, shown, sending, stage>>

Release(c) == Sending(c) = {} /\ Detach(c)

-----------------------------------------------------------------------------
(* The topic's goroutine *)

\* A pod without a bus: dispatch, then broadcast, then wait for the next tick.
Poll(p, k, frame) ==
  /\ p \notin BusPods /\ Listed(p, k)
  /\ inbox[p][k] = <<>> /\ sending[p][k] = {}
  /\ inbox' = [inbox EXCEPT ![p][k] = <<frame>>]
  /\ UNCHANGED <<client, at, queue, shown, hubLock, topic, sending, stage>>

\* runTopicDistributed: subscribe, or return.
SubscribeBus(p, k) ==
  /\ topic[p][k].feed = "starting"
  /\ \/ SetTopic(p, k, [topic[p][k] EXCEPT !.feed = "live"])
     \/ SubscribeFails /\ SetTopic(p, k, [topic[p][k] EXCEPT !.feed = "dead"])
  /\ UNCHANGED <<client, at, queue, shown, hubLock, inbox, sending, stage>>

\* The broadcast begins: t.mu is taken and t.last set.
Broadcast(p, k) ==
  /\ inbox[p][k] # <<>> /\ sending[p][k] = {}
  /\ SetTopic(p, k, [topic[p][k] EXCEPT !.last = Head(inbox[p][k])])
  /\ inbox' = [inbox EXCEPT ![p][k] = Tail(@)]
  /\ sending' = [sending EXCEPT ![p][k] = Subs(p, k)]
  /\ UNCHANGED <<client, at, queue, shown, hubLock, stage>>

\* deliver: one subscriber after another.
Turn(c) == c \in Sending(c) /\ \A d \in Sending(c) \ {c} : stage[d] = "send"
Full(c) == Len(queue[c]) = SendBuf

Served(c) ==
  /\ sending' = [sending EXCEPT ![PodOf[c]][KeyOf[c]] = @ \ {c}]
  /\ stage' = [stage EXCEPT ![c] = "send"]
Enqueued(c) == queue' = [queue EXCEPT ![c] = Append(@, Topic(c).last)]

Send(c) ==
  /\ Turn(c) /\ stage[c] = "send"
  /\ IF Full(c)
     THEN stage' = [stage EXCEPT ![c] = "evict"] /\ UNCHANGED <<queue, sending>>
     ELSE Enqueued(c) /\ Served(c)
  /\ UNCHANGED <<client, at, shown, hubLock, topic, inbox>>

\* The oldest frame makes room, unless the writer has emptied the channel.
Evict(c) ==
  /\ Turn(c) /\ stage[c] = "evict"
  /\ stage' = [stage EXCEPT ![c] = "resend"]
  /\ queue' = [queue EXCEPT ![c] = IF @ = <<>> THEN @ ELSE Tail(@)]
  /\ UNCHANGED <<client, at, shown, hubLock, topic, inbox, sending>>

Resend(c) ==
  /\ Turn(c) /\ stage[c] = "resend"
  /\ IF Full(c) THEN UNCHANGED queue ELSE Enqueued(c)
  /\ Served(c)
  /\ UNCHANGED <<client, at, shown, hubLock, topic, inbox>>

-----------------------------------------------------------------------------
(* The connection's writer *)

Showing(c, frame) == shown' = [shown EXCEPT ![c] = IF frame = Null THEN @ ELSE frame]

WriteNewest(c) ==
  /\ client[c] = "in" /\ queue[c] # <<>>
  /\ Showing(c, queue[c][Len(queue[c])])
  /\ queue' = [queue EXCEPT ![c] = SubSeq(@, 1, Len(@) - 1)]
  /\ UNCHANGED <<client, at, hubLock, topic, inbox, sending, stage>>

Write(c) ==
  /\ client[c] = "in" /\ queue[c] # <<>>
  /\ Showing(c, Head(queue[c]))
  /\ queue' = [queue EXCEPT ![c] = Tail(@)]
  /\ UNCHANGED <<client, at, hubLock, topic, inbox, sending, stage>>

-----------------------------------------------------------------------------
HubInit ==
  /\ client = [c \in Clients |-> "out"]
  /\ at = [c \in Clients |-> 0]
  /\ queue = [c \in Clients |-> <<>>]
  /\ shown = [c \in Clients |-> NoFrame]
  /\ hubLock = [p \in Pods |-> NoClient]
  /\ topic = [p \in Pods |-> [k \in Keys |-> [gen |-> 0, feed |-> "none", last |-> NoFrame]]]
  /\ inbox = [p \in Pods |-> [k \in Keys |-> <<>>]]
  /\ sending = [p \in Pods |-> [k \in Keys |-> {}]]
  /\ stage = [c \in Clients |-> "send"]

Deliver(c) == Send(c) \/ Evict(c) \/ Resend(c)

Connection(c) ==
  Join(c) \/ Attach(c) \/ Disconnect(c) \/ Release(c) \/ Deliver(c) \/ Write(c)

Fanout(p, k) == SubscribeBus(p, k) \/ Broadcast(p, k)
=============================================================================
