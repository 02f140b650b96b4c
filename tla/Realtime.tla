------------------------------ MODULE Realtime ------------------------------
(***************************************************************************)
(* The WebSocket fan-out as deployed: hubs that poll MT5 themselves, or    *)
(* hubs and pollers over a NATS bus (cmd/gateway/main.go wires them).      *)
(*                                                                         *)
(* The upstream data of all keys is one version number that only grows.    *)
(* The bus keeps one publisher's order and loses a frame or a heartbeat    *)
(* when a connection breaks.                                               *)
(***************************************************************************)
EXTENDS Hub, Poller

CONSTANTS
  MaxVersion,   \* bound on the upstream versions
  MaxFaults,    \* bound on failed dispatches, lost messages, crashes and shutdowns
  MaxInbox      \* bound on frames the bus holds for a topic

ASSUME RealtimeAssumption ==
  MaxVersion \in Nat \ {0} /\ MaxFaults \in Nat /\ MaxInbox \in Nat \ {0}

VARIABLES
  upstream,   \* the version MT5 serves
  faults      \* faults so far

vars == <<hubVars, pollerVars, upstream, faults>>

Fault == faults < MaxFaults /\ faults' = faults + 1

\* The pods whose goroutine of a key is subscribed to the bus.
Listeners(k) == {p \in BusPods : topic[p][k].feed = "live"}

-----------------------------------------------------------------------------
Update ==
  /\ upstream < MaxVersion
  /\ upstream' = upstream + 1
  /\ UNCHANGED <<hubVars, pollerVars, faults>>

PollLocally(p, k) == Poll(p, k, upstream) /\ UNCHANGED <<pollerVars, upstream, faults>>
LocalPollFails(p, k) == Poll(p, k, Null) /\ Fault /\ UNCHANGED <<pollerVars, upstream>>

\* A heartbeat of some pod arrives.
Heartbeat(q, k) ==
  /\ Listeners(k) # {}
  /\ HearDemand(q, k)
  /\ UNCHANGED <<hubVars, upstream, faults>>

\* Nobody wants the key any more, or the heartbeats were lost.
Fade(q, k) ==
  /\ GoStale(q, k)
  /\ IF Listeners(k) = {} THEN UNCHANGED faults ELSE Fault
  /\ UNCHANGED <<hubVars, upstream>>

PollForAll(q, k) == Dispatch(q, k, upstream) /\ UNCHANGED <<hubVars, upstream, faults>>

\* A dispatch fails; all may once the process is told to stop, ctx being done.
PollForAllFails(q, k) ==
  /\ Dispatch(q, k, Null)
  /\ IF q \in retiring THEN UNCHANGED faults ELSE Fault
  /\ UNCHANGED <<hubVars, upstream>>

\* The frame reaches the topics of some pods: all of them, unless the bus loses it.
Carry(q, m, reached) ==
  /\ Published(q, m)
  /\ \A p \in reached : Len(inbox[p][m.key]) < MaxInbox
  /\ inbox' = [p \in Pods |-> [k \in Keys |->
                 IF p \in reached /\ k = m.key
                 THEN Append(inbox[p][k], m.frame) ELSE inbox[p][k]]]
  /\ UNCHANGED <<client, at, queue, shown, hubLock, topic, sending, stage, upstream>>

Publish(q) ==
  \E m \in outgoing[q] : Carry(q, m, Listeners(m.key)) /\ UNCHANGED faults
PublishLost(q) ==
  \E m \in outgoing[q] : \E p \in Listeners(m.key) :
    Carry(q, m, Listeners(m.key) \ {p}) /\ Fault

\* A poller's own steps.
Operate(q) ==
  /\ Start(q) \/ Lead(q) \/ Snapshot(q)
  /\ UNCHANGED <<hubVars, upstream, faults>>

Die(q) == (Crash(q) \/ Retire(q)) /\ Fault /\ UNCHANGED <<hubVars, upstream>>
Exit(q) == End(q) /\ UNCHANGED <<hubVars, upstream, faults>>
LoseLock(q) == DropLock(q) /\ UNCHANGED <<hubVars, upstream, faults>>

Serve(c) == Connection(c) /\ UNCHANGED <<pollerVars, upstream, faults>>
Fan(p, k) == Fanout(p, k) /\ UNCHANGED <<pollerVars, upstream, faults>>

-----------------------------------------------------------------------------
Init == HubInit /\ PollerInit /\ upstream = 1 /\ faults = 0

PodStep ==
  \/ \E c \in Clients : Serve(c)
  \/ \E p \in Pods, k \in Keys : Fan(p, k) \/ PollLocally(p, k) \/ LocalPollFails(p, k)

PollerStep ==
  \/ \E q \in Pollers :
       \/ Operate(q) \/ Die(q) \/ Exit(q) \/ LoseLock(q) \/ Publish(q) \/ PublishLost(q)
       \/ \E k \in Keys :
            Heartbeat(q, k) \/ Fade(q, k) \/ PollForAll(q, k) \/ PollForAllFails(q, k)

Next == Update \/ PodStep \/ PollerStep

Spec == Init /\ [][Next]_vars

Do(A) == A /\ UNCHANGED <<pollerVars, upstream, faults>>

\* t.mu and the channels are handed on in turn, so a client that waits for one
\* gets it although others keep taking it; the loops and the writer keep running.
Fairness ==
  /\ \A c \in Clients :
       /\ SF_vars(Do(Attach(c))) /\ SF_vars(Do(Release(c))) /\ SF_vars(Do(Write(c)))
       /\ WF_vars(Do(Send(c) \/ Evict(c) \/ Resend(c)))
  /\ \A p \in Pods, k \in Keys : WF_vars(Fan(p, k)) /\ WF_vars(PollLocally(p, k))
  /\ \A q \in Pollers :
       /\ WF_vars(Operate(q)) /\ WF_vars(Publish(q)) /\ WF_vars(Exit(q))
       /\ \A k \in Keys :
            WF_vars(Heartbeat(q, k)) /\ WF_vars(PollForAll(q, k)) /\ WF_vars(Fade(q, k))

FairSpec == Spec /\ Fairness

-----------------------------------------------------------------------------
Frames == {Null} \cup (1..MaxVersion)

\* What the variables of hub, bus and upstream hold.
FanoutTypes ==
  /\ client \in [Clients -> {"out", "joining", "in", "leaving", "gone"}]
  /\ at \in [Clients -> Nat]
  /\ queue \in [Clients -> Seq(Frames)]
  /\ shown \in [Clients -> {NoFrame} \cup Frames]
  /\ stage \in [Clients -> {"send", "evict", "resend"}]
  /\ hubLock \in [Pods -> Clients \cup {NoClient}]
  /\ topic \in [Pods -> [Keys ->
       [gen : Nat, feed : {"none", "starting", "live", "dead"}, last : {NoFrame} \cup Frames]]]
  /\ inbox \in [Pods -> [Keys -> Seq(Frames)]]
  /\ sending \in [Pods -> [Keys -> SUBSET Clients]]
  /\ upstream \in 1..MaxVersion
  /\ outgoing \in [Pollers -> SUBSET [key : Keys, frame : Frames]]

\* Who is between the two locks holds the first.
LocksHeld ==
  \A c \in Clients : client[c] \in {"joining", "leaving"} <=> hubLock[PodOf[c]] = c

\* A client that has a place is in the topic its pod lists for the key, so there is
\* a goroutine to feed it: it is never left in a topic whose last client just went
\* (the h.mu -> t.mu order of subscribe and release).
NoOrphans ==
  \A c \in Clients :
    client[c] \in {"joining", "in", "leaving"} =>
      at[c] = Topic(c).gen /\ Topic(c).feed # "none"

\* Whom a broadcast has still to serve is in the topic, with an open channel:
\* nothing is sent on a channel that release has closed, which would panic
\* (deliver's comment).
SendsAreOpen ==
  \A p \in Pods, k \in Keys :
    sending[p][k] # {} => sending[p][k] \subseteq Subs(p, k) /\ topic[p][k].last # NoFrame

\* A channel holds no more than it can, and nothing before its client is attached.
ChannelsOK ==
  \A c \in Clients : /\ Len(queue[c]) <= SendBuf
                     /\ client[c] \in {"out", "joining"} => queue[c] = <<>>

\* Types of the fan-out, and what the locks of a pod guarantee, together inductive.
HubInv == FanoutTypes /\ LocksHeld /\ NoOrphans /\ SendsAreOpen /\ ChannelsOK

\* A client of a pod that polls for itself is never shown older data after newer, in any
\* deployment: through evictions, failed polls, the replay to a late joiner and the end and return
\* of its topic, with the poller that went with it (poll, deliver, subscribe).  It is not claimed
\* of a pod on the bus, whose frames may come from two pollers (poller.go:12-13).
Local == {c \in Clients : PodOf[c] \notin BusPods}
InOrder == [][\A c \in Local : shown'[c] >= shown[c]]_vars

\* A connected client comes to see every version of the data, or a newer one, unless
\* it leaves or its topic could not subscribe to the bus (poll, runTopicDistributed,
\* loop, maintainLeadership).
FreshEventually ==
  \A c \in Clients, v \in 1..MaxVersion :
    (client[c] = "in" /\ upstream >= v) ~>
      (client[c] # "in" \/ shown[c] >= v \/ Topic(c).feed = "dead")
=============================================================================
