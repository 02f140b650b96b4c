--------------------------- MODULE RealtimeProofs ---------------------------
(***************************************************************************)
(* No client is left in a topic without a feed, nothing is sent on a       *)
(* closed channel, the election makes no second leader, and a pod that     *)
(* polls for itself shows nobody older data after newer, for any number of *)
(* pods, keys, clients and pollers.                                        *)
(***************************************************************************)
EXTENDS Realtime, FiniteSetTheorems, TLAPS

USE HubAssumption, PollerAssumption, RealtimeAssumption DEF NoFrame, Null

LEMMA InitInv == Init => HubInv
BY DEF Init, HubInit, PollerInit, HubInv, FanoutTypes, LocksHeld, NoOrphans, SendsAreOpen,
       ChannelsOK, Frames, Subs

\* A frame the bus or a poll has brought.
LEMMA FramesAreFrames == Null \in Frames /\ NoFrame \notin Frames /\ 1..MaxVersion \subseteq Frames
BY DEF Frames

Topics == [gen : Nat, feed : {"none", "starting", "live", "dead"}, last : {NoFrame} \cup Frames]

\* SetTopic replaces one entry of the table.
LEMMA TopicSet ==
  ASSUME NEW f \in [Pods -> [Keys -> Topics]], NEW p \in Pods, NEW k \in Keys, NEW t \in Topics
  PROVE  /\ [f EXCEPT ![p][k] = t] \in [Pods -> [Keys -> Topics]]
         /\ \A x \in Pods, y \in Keys :
              [f EXCEPT ![p][k] = t][x][y] = IF x = p /\ y = k THEN t ELSE f[x][y]
OBVIOUS

LEMMA TopicFields ==
  ASSUME NEW t \in Topics, NEW feed \in {"none", "starting", "live", "dead"},
         NEW last \in {NoFrame} \cup Frames
  PROVE  /\ [t EXCEPT !.feed = feed] \in Topics
         /\ [t EXCEPT !.last = last] \in Topics
         /\ [t EXCEPT !.feed = feed, !.last = last] \in Topics
BY DEF Topics

\* SendsAreOpen client by client.
OpenSends ==
  \A p \in Pods, k \in Keys : \A d \in sending[p][k] :
    /\ PodOf[d] = p /\ KeyOf[d] = k
    /\ client[d] \in {"in", "leaving"} /\ at[d] = topic[p][k].gen
    /\ topic[p][k].feed # "none" /\ topic[p][k].last # NoFrame

LEMMA SendsOpen == FanoutTypes /\ SendsAreOpen => OpenSends
BY DEF FanoutTypes, SendsAreOpen, OpenSends, Subs, Attached, Topic

LEMMA OpenAfter == FanoutTypes' /\ OpenSends' => SendsAreOpen'
<1> SUFFICES ASSUME FanoutTypes', OpenSends', NEW p \in Pods, NEW k \in Keys,
                    sending'[p][k] # {}
             PROVE  sending'[p][k] \subseteq Subs(p, k)' /\ topic'[p][k].last # NoFrame
  BY DEF SendsAreOpen
<1>1. sending'[p][k] \subseteq Clients
  BY DEF FanoutTypes
<1>2. QED
  BY <1>1 DEF OpenSends, Subs, Attached, Topic

-----------------------------------------------------------------------------
(* Joining and leaving *)

LEMMA JoinKeeps ==
  ASSUME HubInv, NEW c \in Clients, Join(c), UNCHANGED <<upstream, outgoing>>
  PROVE  HubInv'
<1> DEFINE p == PodOf[c]
           k == KeyOf[c]
<1> USE DEF HubInv, Join, LookUp, NewTopic, Listed, SetTopic, Move
<1>0. p \in Pods /\ k \in Keys
  OBVIOUS
<1>1. FanoutTypes'
  BY DEF FanoutTypes
<1>2. \A d \in Clients : PodOf[d] = p => client[d] \notin {"joining", "leaving"}
  BY DEF LocksHeld
<1>3. LocksHeld'
  BY <1>0, <1>2 DEF LocksHeld, FanoutTypes
<1>4. NoOrphans'
  BY <1>0 DEF NoOrphans, FanoutTypes, Topic
<1>5. SendsAreOpen'
  <2>1. OpenSends
    BY SendsOpen
  <2>2. OpenSends'
    BY <1>0, <2>1 DEF OpenSends, FanoutTypes
  <2>3. QED
    BY <1>1, <2>2, OpenAfter
<1>6. ChannelsOK'
  BY DEF ChannelsOK, FanoutTypes
<1>7. QED
  BY <1>1, <1>3, <1>4, <1>5, <1>6

LEMMA AttachKeeps ==
  ASSUME HubInv, NEW c \in Clients, Attach(c), UNCHANGED <<upstream, outgoing>>
  PROVE  HubInv'
<1> USE DEF HubInv, Attach, Move
<1>1. FanoutTypes'
  BY SMTT(30) DEF FanoutTypes, Topic
<1>2. LocksHeld'
  BY DEF LocksHeld, FanoutTypes
<1>3. NoOrphans'
  BY DEF NoOrphans, FanoutTypes, Topic
<1>4. SendsAreOpen'
  <2>1. OpenSends
    BY SendsOpen
  <2>2. OpenSends'
    BY <2>1 DEF OpenSends, FanoutTypes
  <2>3. QED
    BY <1>1, <2>2, OpenAfter
<1>5. ChannelsOK'
  BY DEF ChannelsOK, FanoutTypes, Topic
<1>6. QED
  BY <1>1, <1>2, <1>3, <1>4, <1>5

LEMMA DisconnectKeeps ==
  ASSUME HubInv, NEW c \in Clients, Disconnect(c), UNCHANGED <<upstream, outgoing>>
  PROVE  HubInv'
<1> USE DEF HubInv, Disconnect, Move
<1>1. FanoutTypes'
  BY DEF FanoutTypes
<1>2. LocksHeld'
  BY DEF LocksHeld, FanoutTypes
<1>3. NoOrphans'
  BY DEF NoOrphans, FanoutTypes, Topic
<1>4. SendsAreOpen'
  <2>1. OpenSends
    BY SendsOpen
  <2>2. OpenSends'
    BY <2>1 DEF OpenSends, FanoutTypes
  <2>3. QED
    BY <1>1, <2>2, OpenAfter
<1>5. ChannelsOK'
  BY DEF ChannelsOK, FanoutTypes
<1>6. QED
  BY <1>1, <1>2, <1>3, <1>4, <1>5

\* The topic goes only when nobody else is in it or, holding h.mu, on the way in.
LEMMA ReleaseKeeps ==
  ASSUME HubInv, NEW c \in Clients, Release(c), UNCHANGED <<upstream, outgoing>>
  PROVE  HubInv'
<1>0. PICK p \in Pods, k \in Keys : p = PodOf[c] /\ k = KeyOf[c]
  OBVIOUS
<1>a. PICK last \in BOOLEAN : last <=> Subs(p, k) \subseteq {c} /\ at[c] = topic[p][k].gen
  OBVIOUS
<1> DEFINE t == [topic[p][k] EXCEPT !.feed = "none", !.last = NoFrame]
<1>1. /\ client' = [client EXCEPT ![c] = "gone"] /\ queue' = [queue EXCEPT ![c] = <<>>]
      /\ hubLock' = [hubLock EXCEPT ![p] = NoClient] /\ client[c] = "leaving"
      /\ UNCHANGED <<at, shown, sending, stage>>
  BY <1>0 DEF Release, Detach, Move
<1>2. /\ last => topic' = [topic EXCEPT ![p][k] = t] /\ inbox' = [inbox EXCEPT ![p][k] = <<>>]
      /\ ~last => UNCHANGED <<topic, inbox>>
  BY <1>0, <1>a DEF Release, Detach, SetTopic
<1>3. topic \in [Pods -> [Keys -> Topics]] /\ inbox \in [Pods -> [Keys -> Seq(Frames)]]
  BY DEF HubInv, FanoutTypes, Topics
<1>4. \A d \in Clients \ {c} :
        PodOf[d] = p /\ KeyOf[d] = k /\ client[d] \in {"joining", "in", "leaving"} => ~last
  BY <1>0, <1>1, <1>a DEF HubInv, LocksHeld, NoOrphans, Subs, Attached, Topic
<1>5. t \in Topics
  <2>1. topic[p][k] \in Topics
    BY <1>3
  <2>2. QED
    BY <2>1, TopicFields
<1> HIDE DEF t
<1>6. /\ topic' \in [Pods -> [Keys -> Topics]]
      /\ \A x \in Pods, y \in Keys : x # p \/ y # k \/ ~last => topic'[x][y] = topic[x][y]
  <2>1. CASE last
    <3>1. topic' = [topic EXCEPT ![p][k] = t]
      BY <1>2, <2>1
    <3>2. topic' \in [Pods -> [Keys -> Topics]]
      BY <1>3, <1>5, <3>1, TopicSet
    <3>3. \A x \in Pods, y \in Keys : topic'[x][y] = IF x = p /\ y = k THEN t ELSE topic[x][y]
      BY <1>3, <1>5, <3>1, TopicSet
    <3>4. QED
      BY <2>1, <3>2, <3>3
  <2>2. CASE ~last
    BY <1>2, <1>3, <2>2
  <2>3. QED
    BY <2>1, <2>2
<1>7. FanoutTypes'
  <2>1. inbox' \in [Pods -> [Keys -> Seq(Frames)]]
    <3>1. CASE last
      <4>1. inbox' = [inbox EXCEPT ![p][k] = <<>>] /\ <<>> \in Seq(Frames)
        BY <1>2, <3>1
      <4>2. QED
        BY <1>3, <4>1
    <3>2. CASE ~last
      BY <1>2, <1>3, <3>2
    <3>3. QED
      BY <3>1, <3>2
  <2>2. /\ client' \in [Clients -> {"out", "joining", "in", "leaving", "gone"}]
        /\ queue' \in [Clients -> Seq(Frames)]
        /\ hubLock' \in [Pods -> Clients \cup {NoClient}]
    BY <1>1 DEF HubInv, FanoutTypes
  <2>3. QED
    BY <1>1, <1>6, <2>1, <2>2 DEF HubInv, FanoutTypes, Topics
<1>8. LocksHeld'
  BY <1>0, <1>1 DEF HubInv, LocksHeld, FanoutTypes
<1>9. NoOrphans'
  <2>1. \A d \in Clients : client'[d] = IF d = c THEN "gone" ELSE client[d]
    BY <1>1 DEF HubInv, FanoutTypes
  <2>2. \A d \in Clients \ {c} :
          client[d] \in {"joining", "in", "leaving"} => Topic(d)' = Topic(d)
    BY <1>0, <1>4, <1>6 DEF Topic
  <2>3. QED
    BY <1>1, <2>1, <2>2 DEF HubInv, NoOrphans
<1>10. SendsAreOpen'
  <2>1. OpenSends /\ sending[p][k] = {}
    BY <1>0, SendsOpen DEF HubInv, Release, Sending
  <2>2. OpenSends'
    <3>1. \A x \in Pods, y \in Keys : \A d \in sending[x][y] :
            d # c /\ topic'[x][y] = topic[x][y] /\ client'[d] = client[d]
      BY <1>0, <1>1, <1>6, <2>1 DEF OpenSends, HubInv, FanoutTypes
    <3>2. QED
      BY <1>1, <2>1, <3>1 DEF OpenSends
  <2>3. QED
    BY <1>7, <2>2, OpenAfter
<1>11. ChannelsOK'
  BY <1>1 DEF HubInv, ChannelsOK, FanoutTypes
<1>12. QED
  BY <1>7, <1>8, <1>9, <1>10, <1>11 DEF HubInv

-----------------------------------------------------------------------------
(* The goroutine of a topic, and the writers *)

LEMMA PollKeeps ==
  ASSUME HubInv, NEW p \in Pods, NEW k \in Keys, NEW frame \in Frames, Poll(p, k, frame),
         UNCHANGED <<upstream, outgoing>>
  PROVE  HubInv'
<1> USE DEF HubInv, Poll
<1>1. FanoutTypes'
  BY DEF FanoutTypes
<1>2. LocksHeld' /\ NoOrphans' /\ SendsAreOpen' /\ ChannelsOK'
  BY DEF LocksHeld, NoOrphans, SendsAreOpen, ChannelsOK, Subs, Attached, Topic
<1>3. QED
  BY <1>1, <1>2

LEMMA FanoutKeeps ==
  ASSUME HubInv, NEW p \in Pods, NEW k \in Keys, Fanout(p, k), UNCHANGED <<upstream, outgoing>>
  PROVE  HubInv'
<1>1. CASE SubscribeBus(p, k)
  <2>1. PICK feed \in {"live", "dead"} : SetTopic(p, k, [topic[p][k] EXCEPT !.feed = feed])
    BY <1>1 DEF SubscribeBus
  <2>2. [topic[p][k] EXCEPT !.feed = feed] \in Topics
    <3>1. topic[p][k] \in Topics
      BY DEF HubInv, FanoutTypes, Topics
    <3>2. QED
      BY <3>1, TopicFields
  <2>3. FanoutTypes'
    BY <1>1, <2>1, <2>2, TopicSet, SMTT(30) DEF HubInv, FanoutTypes, SubscribeBus, SetTopic, Topics
  <2>4. \A x \in Pods, y \in Keys :
          /\ topic'[x][y].gen = topic[x][y].gen /\ topic'[x][y].last = topic[x][y].last
          /\ topic[x][y].feed # "none" => topic'[x][y].feed # "none"
    BY <2>1, <2>2, TopicSet, SMTT(30) DEF HubInv, FanoutTypes, SetTopic, Topics
  <2>5. LocksHeld' /\ ChannelsOK'
    BY <1>1 DEF HubInv, SubscribeBus, LocksHeld, ChannelsOK
  <2>6. NoOrphans'
    BY <1>1, <2>4 DEF HubInv, SubscribeBus, NoOrphans, Topic
  <2>7. SendsAreOpen'
    <3>1. OpenSends
      BY SendsOpen DEF HubInv
    <3>2. OpenSends'
      BY <1>1, <2>4, <3>1 DEF OpenSends, SubscribeBus
    <3>3. QED
      BY <2>3, <3>2, OpenAfter
  <2>8. QED
    BY <2>3, <2>5, <2>6, <2>7 DEF HubInv
<1>2. CASE Broadcast(p, k)
  <2>1. Head(inbox[p][k]) \in Frames /\ Tail(inbox[p][k]) \in Seq(Frames)
    BY <1>2 DEF HubInv, FanoutTypes, Broadcast
  <2>2. [topic[p][k] EXCEPT !.last = Head(inbox[p][k])] \in Topics
    <3>1. topic[p][k] \in Topics
      BY DEF HubInv, FanoutTypes, Topics
    <3>2. QED
      BY <2>1, <3>1, TopicFields
  <2>3. Subs(p, k) \in SUBSET Clients
    BY DEF Subs
  <2>4. FanoutTypes'
    <3> DEFINE t == [topic[p][k] EXCEPT !.last = Head(inbox[p][k])]
    <3>1. topic' \in [Pods -> [Keys -> Topics]]
      <4>1. t \in Topics /\ topic \in [Pods -> [Keys -> Topics]] /\ topic' = [topic EXCEPT ![p][k] = t]
        BY <1>2, <2>2 DEF HubInv, FanoutTypes, Broadcast, SetTopic, Topics
      <4> HIDE DEF t
      <4> QED
        BY <4>1, TopicSet
    <3>2. inbox' \in [Pods -> [Keys -> Seq(Frames)]] /\ sending' \in [Pods -> [Keys -> SUBSET Clients]]
      BY <1>2, <2>1, <2>3 DEF HubInv, FanoutTypes, Broadcast
    <3> QED
      BY <1>2, <3>1, <3>2 DEF HubInv, FanoutTypes, Broadcast, Topics
  <2>5. \A x \in Pods, y \in Keys :
          /\ topic'[x][y].gen = topic[x][y].gen /\ topic'[x][y].feed = topic[x][y].feed
          /\ topic'[x][y].last = IF x = p /\ y = k THEN Head(inbox[p][k]) ELSE topic[x][y].last
    <3> DEFINE t == [topic[p][k] EXCEPT !.last = Head(inbox[p][k])]
    <3>1. topic' = [topic EXCEPT ![p][k] = t]
      BY <1>2 DEF Broadcast, SetTopic
    <3>2. topic \in [Pods -> [Keys -> Topics]] /\ topic[p][k] \in Topics
      BY DEF HubInv, FanoutTypes, Topics
    <3>3. /\ t.gen = topic[p][k].gen /\ t.feed = topic[p][k].feed
          /\ t.last = Head(inbox[p][k])
      BY <3>2 DEF Topics
    <3> HIDE DEF t
    <3>4. \A x \in Pods, y \in Keys : topic'[x][y] = IF x = p /\ y = k THEN t ELSE topic[x][y]
      BY <2>2, <3>1, <3>2, TopicSet DEF t
    <3>5. QED
      BY <3>3, <3>4
  <2>6. LocksHeld' /\ ChannelsOK'
    BY <1>2 DEF HubInv, Broadcast, LocksHeld, ChannelsOK
  <2>7. NoOrphans'
    BY <1>2, <2>5 DEF HubInv, Broadcast, NoOrphans, Topic
  <2>8. SendsAreOpen'
    <3>1. OpenSends
      BY SendsOpen DEF HubInv
    <3>2. \A d \in Subs(p, k) : /\ PodOf[d] = p /\ KeyOf[d] = k /\ client[d] \in {"in", "leaving"}
                                /\ at[d] = topic[p][k].gen /\ topic[p][k].feed # "none"
      BY DEF Subs, Attached, Topic
    <3>3. \A x \in Pods, y \in Keys :
            sending'[x][y] = IF x = p /\ y = k THEN Subs(p, k) ELSE sending[x][y]
      BY <1>2 DEF Broadcast, HubInv, FanoutTypes
    <3>4. OpenSends'
      <4> SUFFICES ASSUME NEW x \in Pods, NEW y \in Keys, NEW d \in sending'[x][y]
                   PROVE  /\ PodOf[d] = x /\ KeyOf[d] = y
                          /\ client[d] \in {"in", "leaving"} /\ at[d] = topic'[x][y].gen
                          /\ topic'[x][y].feed # "none" /\ topic'[x][y].last # NoFrame
        BY <1>2 DEF OpenSends, Broadcast
      <4>1. CASE x = p /\ y = k
        BY <2>1, <2>5, <3>2, <3>3, <4>1, FramesAreFrames
      <4>2. CASE ~(x = p /\ y = k)
        BY <2>5, <3>1, <3>3, <4>2 DEF OpenSends
      <4>3. QED
        BY <4>1, <4>2
    <3>5. QED
      BY <2>4, <3>4, OpenAfter
  <2>9. QED
    BY <2>4, <2>6, <2>7, <2>8 DEF HubInv
<1>3. QED
  BY <1>1, <1>2 DEF Fanout

\* A step of a broadcast or of a writer: nobody joins or leaves, channels stay
\* within bounds, and only who is in a topic has something in one.
LEMMA ChannelStep ==
  ASSUME HubInv, NEW c \in Clients,
         UNCHANGED <<client, at, hubLock, topic, inbox, upstream, outgoing>>,
         shown' \in [Clients -> {NoFrame} \cup Frames],
         stage' \in [Clients -> {"send", "evict", "resend"}],
         NEW s \in Seq(Frames), queue' = [queue EXCEPT ![c] = s], Len(s) <= SendBuf,
         client[c] \in {"in", "leaving"} \/ s = <<>>,
         sending' \in [Pods -> [Keys -> SUBSET Clients]],
         \A p \in Pods, k \in Keys : sending'[p][k] \subseteq sending[p][k]
  PROVE  HubInv'
<1>1. FanoutTypes'
  BY DEF HubInv, FanoutTypes
<1>2. LocksHeld' /\ NoOrphans'
  BY DEF HubInv, LocksHeld, NoOrphans, Topic
<1>3. SendsAreOpen'
  <2>1. OpenSends
    BY SendsOpen DEF HubInv
  <2>2. OpenSends'
    BY <2>1 DEF OpenSends
  <2>3. QED
    BY <1>1, <2>2, OpenAfter
<1>4. ChannelsOK'
  BY DEF HubInv, ChannelsOK, FanoutTypes
<1>5. QED
  BY <1>1, <1>2, <1>3, <1>4 DEF HubInv

LEMMA DeliverKeeps ==
  ASSUME HubInv, NEW c \in Clients, Deliver(c), UNCHANGED <<upstream, outgoing>>
  PROVE  HubInv'
<1>0. /\ PodOf[c] \in Pods /\ KeyOf[c] \in Keys /\ queue[c] \in Seq(Frames)
      /\ Len(queue[c]) \in Nat /\ Len(queue[c]) <= SendBuf
  BY DEF HubInv, FanoutTypes, ChannelsOK
<1>1. client[c] \in {"in", "leaving"} /\ Topic(c).last \in Frames
  BY <1>0 DEF Deliver, Send, Evict, Resend, Turn, Sending, HubInv, SendsAreOpen, Subs, Attached,
              Topic, FanoutTypes
<1>2. /\ Append(queue[c], Topic(c).last) \in Seq(Frames)
      /\ Len(Append(queue[c], Topic(c).last)) = Len(queue[c]) + 1
  BY <1>0, <1>1
<1>3. ASSUME Served(c)
      PROVE  /\ stage' \in [Clients -> {"send", "evict", "resend"}]
             /\ sending' \in [Pods -> [Keys -> SUBSET Clients]]
             /\ \A p \in Pods, k \in Keys : sending'[p][k] \subseteq sending[p][k]
  BY <1>0, <1>3 DEF Served, HubInv, FanoutTypes
<1>4. ASSUME NEW where \in {"evict", "resend"}, stage' = [stage EXCEPT ![c] = where],
             UNCHANGED sending
      PROVE  /\ stage' \in [Clients -> {"send", "evict", "resend"}]
             /\ sending' \in [Pods -> [Keys -> SUBSET Clients]]
             /\ \A p \in Pods, k \in Keys : sending'[p][k] \subseteq sending[p][k]
  BY <1>4 DEF HubInv, FanoutTypes
<1>5. shown \in [Clients -> {NoFrame} \cup Frames] /\ queue = [queue EXCEPT ![c] = queue[c]]
  BY DEF HubInv, FanoutTypes
<1>6. CASE Send(c)
  <2>1. CASE Full(c)
    BY <1>0, <1>1, <1>4, <1>5, <1>6, <2>1, ChannelStep DEF Send
  <2>2. CASE ~Full(c)
    <3> DEFINE s == Append(queue[c], Topic(c).last)
    <3>1. s \in Seq(Frames) /\ Len(s) <= SendBuf
      BY <1>0, <1>2, <2>2 DEF Full
    <3>2. queue' = [queue EXCEPT ![c] = s]
      BY <1>6, <2>2 DEF Send, Enqueued
    <3> HIDE DEF s
    <3>3. QED
      BY <1>1, <1>3, <1>5, <1>6, <2>2, <3>1, <3>2, ChannelStep DEF Send
  <2>3. QED
    BY <2>1, <2>2
<1>7. CASE Evict(c)
  <2>1. CASE queue[c] = <<>>
    BY <1>0, <1>1, <1>4, <1>5, <1>7, <2>1, ChannelStep DEF Evict
  <2>2. CASE queue[c] # <<>>
    <3> DEFINE s == Tail(queue[c])
    <3>1. s \in Seq(Frames) /\ Len(s) <= SendBuf
      BY <1>0, <2>2
    <3>2. queue' = [queue EXCEPT ![c] = s]
      BY <1>7, <2>2 DEF Evict
    <3> HIDE DEF s
    <3>3. QED
      BY <1>1, <1>4, <1>5, <1>7, <3>1, <3>2, ChannelStep DEF Evict
  <2>3. QED
    BY <2>1, <2>2
<1>8. CASE Resend(c)
  <2>1. CASE Full(c)
    BY <1>0, <1>1, <1>3, <1>5, <1>8, <2>1, ChannelStep DEF Resend
  <2>2. CASE ~Full(c)
    <3> DEFINE s == Append(queue[c], Topic(c).last)
    <3>1. s \in Seq(Frames) /\ Len(s) <= SendBuf
      BY <1>0, <1>2, <2>2 DEF Full
    <3>2. queue' = [queue EXCEPT ![c] = s]
      BY <1>8, <2>2 DEF Resend, Enqueued
    <3> HIDE DEF s
    <3>3. QED
      BY <1>1, <1>3, <1>5, <1>8, <2>2, <3>1, <3>2, ChannelStep DEF Resend
  <2>3. QED
    BY <2>1, <2>2
<1>9. QED
  BY <1>6, <1>7, <1>8 DEF Deliver

LEMMA WriteKeeps ==
  ASSUME HubInv, NEW c \in Clients, Write(c), UNCHANGED <<upstream, outgoing>>
  PROVE  HubInv'
<1>1. /\ queue[c] \in Seq(Frames) /\ queue[c] # <<>> /\ Len(queue[c]) <= SendBuf
      /\ sending \in [Pods -> [Keys -> SUBSET Clients]]
      /\ stage \in [Clients -> {"send", "evict", "resend"}]
  BY DEF Write, HubInv, FanoutTypes, ChannelsOK
<1>2. /\ Head(queue[c]) \in Frames /\ Tail(queue[c]) \in Seq(Frames)
      /\ Len(Tail(queue[c])) = Len(queue[c]) - 1 /\ Len(queue[c]) \in Nat
  BY <1>1
<1>3. shown' \in [Clients -> {NoFrame} \cup Frames]
  BY <1>2 DEF Write, Showing, HubInv, FanoutTypes
<1> DEFINE s == Tail(queue[c])
<1>4. s \in Seq(Frames) /\ Len(s) <= SendBuf
  BY <1>1, <1>2
<1>5. queue' = [queue EXCEPT ![c] = s]
  BY DEF Write
<1> HIDE DEF s
<1>6. \A p \in Pods, k \in Keys : sending'[p][k] \subseteq sending[p][k]
  BY DEF Write
<1>7. client[c] \in {"in", "leaving"}
  BY DEF Write
<1>8. QED
  BY <1>1, <1>3, <1>4, <1>5, <1>6, <1>7, ChannelStep DEF Write

-----------------------------------------------------------------------------
(* The pollers, the bus and upstream *)

\* A step that leaves the pods alone.
LEMMA PodsUntouched ==
  ASSUME HubInv, UNCHANGED <<client, at, queue, shown, hubLock, topic, sending, stage>>,
         inbox' \in [Pods -> [Keys -> Seq(Frames)]],
         upstream' \in 1..MaxVersion,
         outgoing' \in [Pollers -> SUBSET [key : Keys, frame : Frames]]
  PROVE  HubInv'
BY DEF HubInv, FanoutTypes, LocksHeld, NoOrphans, SendsAreOpen, ChannelsOK, Subs, Attached, Topic

LEMMA CarryKeeps ==
  ASSUME HubInv, NEW q \in Pollers, NEW m \in outgoing[q], NEW reached \in SUBSET Pods,
         Carry(q, m, reached)
  PROVE  HubInv'
<1>1. m \in [key : Keys, frame : Frames] /\ upstream \in 1..MaxVersion
  BY DEF HubInv, FanoutTypes
<1>2. inbox' \in [Pods -> [Keys -> Seq(Frames)]]
  BY <1>1 DEF Carry, HubInv, FanoutTypes
<1>3. outgoing' \in [Pollers -> SUBSET [key : Keys, frame : Frames]]
  BY DEF Carry, Published, HubInv, FanoutTypes
<1>4. QED
  BY <1>1, <1>2, <1>3, PodsUntouched DEF Carry

LEMMA PollerStepKeeps ==
  ASSUME HubInv, PollerStep
  PROVE  HubInv'
<1>0. /\ inbox \in [Pods -> [Keys -> Seq(Frames)]] /\ upstream \in 1..MaxVersion
      /\ outgoing \in [Pollers -> SUBSET [key : Keys, frame : Frames]]
      /\ upstream \in Frames /\ Null \in Frames
  BY FramesAreFrames DEF HubInv, FanoutTypes
<1>1. ASSUME NEW q \in Pollers, Operate(q) \/ Die(q) \/ Exit(q) PROVE HubInv'
  BY <1>0, <1>1, PodsUntouched DEF Operate, Die, Exit, Start, Lead, Snapshot, Crash, Retire, End,
     Gone, hubVars
<1>2. ASSUME NEW q \in Pollers, Publish(q) PROVE HubInv'
  <2>1. \A k : Listeners(k) \in SUBSET Pods
    BY DEF Listeners
  <2>2. QED
    BY <1>2, <2>1, CarryKeeps DEF Publish
<1>3. ASSUME NEW q \in Pollers, PublishLost(q) PROVE HubInv'
  <2>1. \A k, x : Listeners(k) \ {x} \in SUBSET Pods
    BY DEF Listeners
  <2>2. QED
    BY <1>3, <2>1, CarryKeeps DEF PublishLost
<1>4. ASSUME NEW q \in Pollers, NEW k \in Keys, Heartbeat(q, k) \/ Fade(q, k) PROVE HubInv'
  BY <1>0, <1>4, PodsUntouched DEF Heartbeat, Fade, HearDemand, GoStale, hubVars
<1>5. ASSUME NEW q \in Pollers, NEW k \in Keys, PollForAll(q, k) \/ PollForAllFails(q, k)
      PROVE  HubInv'
  <2>1. PICK frame \in Frames : Dispatch(q, k, frame) /\ UNCHANGED <<hubVars, upstream>>
    BY <1>0, <1>5 DEF PollForAll, PollForAllFails
  <2>2. outgoing' \in [Pollers -> SUBSET [key : Keys, frame : Frames]]
    BY <1>0, <2>1 DEF Dispatch
  <2>3. QED
    BY <1>0, <2>1, <2>2, PodsUntouched DEF Dispatch, hubVars
<1>6. ASSUME NEW q \in Pollers, LoseLock(q) PROVE HubInv'
  BY <1>0, <1>6, PodsUntouched DEF LoseLock, DropLock, hubVars
<1>7. QED
  BY <1>1, <1>2, <1>3, <1>4, <1>5, <1>6 DEF PollerStep

LEMMA PodStepKeeps ==
  ASSUME HubInv, PodStep
  PROVE  HubInv'
<1>1. ASSUME NEW c \in Clients, Serve(c) PROVE HubInv'
  BY <1>1, JoinKeeps, AttachKeeps, DisconnectKeeps, ReleaseKeeps, DeliverKeeps, WriteKeeps
     DEF Serve, Connection, pollerVars
<1>2. ASSUME NEW p \in Pods, NEW k \in Keys, Fan(p, k) PROVE HubInv'
  BY <1>2, FanoutKeeps DEF Fan, pollerVars
<1>3. ASSUME NEW p \in Pods, NEW k \in Keys, PollLocally(p, k) \/ LocalPollFails(p, k)
      PROVE  HubInv'
  <2>1. upstream \in Frames /\ Null \in Frames
    BY FramesAreFrames DEF HubInv, FanoutTypes
  <2>2. QED
    BY <1>3, <2>1, PollKeeps DEF PollLocally, LocalPollFails, pollerVars
<1>4. QED
  BY <1>1, <1>2, <1>3 DEF PodStep

LEMMA Inductive == HubInv /\ [Next]_vars => HubInv'
<1> SUFFICES ASSUME HubInv, [Next]_vars PROVE HubInv'
  OBVIOUS
<1>0. /\ inbox \in [Pods -> [Keys -> Seq(Frames)]] /\ upstream \in 1..MaxVersion
      /\ outgoing \in [Pollers -> SUBSET [key : Keys, frame : Frames]]
  BY DEF HubInv, FanoutTypes
<1>1. CASE Update
  <2>1. upstream' \in 1..MaxVersion
    BY <1>0, <1>1 DEF Update
  <2>2. QED
    BY <1>0, <1>1, <2>1, PodsUntouched DEF Update, hubVars, pollerVars
<1>2. CASE UNCHANGED vars
  BY <1>0, <1>2, PodsUntouched DEF vars, hubVars, pollerVars
<1>3. QED
  BY <1>1, <1>2, PodStepKeeps, PollerStepKeeps DEF Next

\* No client is ever in a topic that its pod no longer feeds, and no broadcast sends
\* on a closed channel, whoever joins, leaves and lags (subscribe, release, deliver).
THEOREM Attachment == Spec => []HubInv
BY InitInv, Inductive, PTL DEF Spec

-----------------------------------------------------------------------------
(* The election *)

\* Who leads is the holder of the lock, but for one process for each session that was ended under
\* its holder.
Unlocked == (active \ retiring) \ {lock}
LeadersInv ==
  /\ running \subseteq Pollers /\ retiring \subseteq running /\ active \subseteq running
  /\ lock \in (active \ retiring) \cup {NoPoller}
  /\ drops \in Nat
  /\ IsFiniteSet(Unlocked) /\ Cardinality(Unlocked) <= drops

LEMMA FewerLead ==
  ASSUME LeadersInv, Unlocked' \subseteq Unlocked, drops' = drops
  PROVE  IsFiniteSet(Unlocked') /\ Cardinality(Unlocked') <= drops'
<1>1. IsFiniteSet(Unlocked') /\ Cardinality(Unlocked') <= Cardinality(Unlocked)
  BY FS_Subset DEF LeadersInv
<1>2. Cardinality(Unlocked') \in Nat /\ Cardinality(Unlocked) \in Nat
  BY <1>1, FS_CardinalityType DEF LeadersInv
<1>. QED  BY <1>1, <1>2 DEF LeadersInv

LEMMA OperateElects ==
  ASSUME LeadersInv, NEW q \in Pollers, Operate(q)
  PROVE  LeadersInv'
<1>1. CASE Start(q) \/ Snapshot(q)
  <2>1. Unlocked' \subseteq Unlocked /\ drops' = drops
    BY <1>1 DEF Start, Snapshot, Unlocked
  <2>. QED  BY <1>1, <2>1, FewerLead DEF Start, Snapshot, LeadersInv
<1>2. CASE Lead(q)
  <2>1. Unlocked' \subseteq Unlocked /\ drops' = drops
    BY <1>2 DEF Lead, Unlocked, LeadersInv
  <2>. QED  BY <1>2, <2>1, FewerLead DEF Lead, LeadersInv
<1>. QED  BY <1>1, <1>2 DEF Operate

LEMMA EndingElects ==
  ASSUME LeadersInv, NEW q \in Pollers, Die(q) \/ Exit(q)
  PROVE  LeadersInv'
<1>1. CASE Retire(q)
  <2>1. Unlocked' \subseteq Unlocked /\ drops' = drops
    BY <1>1 DEF Retire, Unlocked, LeadersInv, Freed
  <2>. QED  BY <1>1, <2>1, FewerLead DEF Retire, LeadersInv, Freed
<1>2. ASSUME Crash(q) \/ End(q) PROVE LeadersInv'
  <2>1. /\ running' = running \ {q} /\ retiring' = retiring \ {q} /\ active' = active \ {q}
        /\ lock' = Freed(q) /\ drops' = drops
    BY <1>2 DEF Crash, End, Gone, Freed, LeadersInv
  <2>2. Unlocked' \subseteq Unlocked
    BY <2>1 DEF Unlocked, Freed
  <2>. QED  BY <2>1, <2>2, FewerLead DEF LeadersInv, Freed
<1>. QED  BY <1>1, <1>2 DEF Die, Exit

\* A holder whose session is ended goes on without the lock.
LEMMA LoseLockElects ==
  ASSUME LeadersInv, NEW q \in Pollers, LoseLock(q)
  PROVE  LeadersInv'
<1>1. /\ q = lock /\ lock' = NoPoller /\ drops' = drops + 1
      /\ UNCHANGED <<running, retiring, active>>
  BY DEF LoseLock, DropLock
<1>2. Unlocked' = Unlocked \cup {q} /\ q \notin Unlocked
  BY <1>1 DEF Unlocked, LeadersInv
<1>3. IsFiniteSet(Unlocked') /\ Cardinality(Unlocked') = Cardinality(Unlocked) + 1
  BY <1>2, FS_AddElement DEF LeadersInv
<1>4. Cardinality(Unlocked) \in Nat
  BY FS_CardinalityType DEF LeadersInv
<1>. QED  BY <1>1, <1>3, <1>4 DEF LeadersInv

LEMMA LeadersInvHolds == Init => LeadersInv
<1>. SUFFICES ASSUME Init PROVE LeadersInv
  OBVIOUS
<1>1. Unlocked = {}
  BY DEF Init, PollerInit, Unlocked
<1>. QED  BY <1>1, FS_EmptySet DEF Init, PollerInit, LeadersInv

LEMMA LeadersInvKept == LeadersInv /\ [Next]_vars => LeadersInv'
<1>. SUFFICES ASSUME LeadersInv, [Next]_vars PROVE LeadersInv'
  OBVIOUS
<1>1. CASE UNCHANGED <<running, retiring, active, lock, drops>>
  <2>1. Unlocked' = Unlocked
    BY <1>1 DEF Unlocked
  <2>. QED  BY <1>1, <2>1 DEF LeadersInv
<1>2. CASE UNCHANGED vars \/ Update \/ PodStep
  BY <1>1, <1>2 DEF vars, pollerVars, Update, PodStep, Serve, Fan, PollLocally, LocalPollFails
<1>3. ASSUME NEW q \in Pollers, Operate(q) \/ Die(q) \/ Exit(q) \/ LoseLock(q) PROVE LeadersInv'
  BY <1>3, OperateElects, EndingElects, LoseLockElects
<1>4. ASSUME NEW q \in Pollers, Publish(q) \/ PublishLost(q) PROVE LeadersInv'
  BY <1>1, <1>4 DEF Publish, PublishLost, Carry, Published
<1>5. ASSUME NEW q \in Pollers, NEW k \in Keys,
             Heartbeat(q, k) \/ Fade(q, k) \/ PollForAll(q, k) \/ PollForAllFails(q, k)
      PROVE  LeadersInv'
  BY <1>1, <1>5 DEF Heartbeat, HearDemand, Fade, GoStale, PollForAll, PollForAllFails, Dispatch
<1>. QED  BY <1>2, <1>3, <1>4, <1>5 DEF Next, PollerStep

\* Two processes poll only after the database ended a session under its holder, for any number of
\* processes that start, crash and retire: each further leader is one ended session
\* (TryLock, maintainLeadership).
THEOREM OneLeaderPerSession == Spec => []OnePollerPerSession
<1>1. LeadersInv => OnePollerPerSession
  <2>. SUFFICES ASSUME LeadersInv PROVE OnePollerPerSession
    OBVIOUS
  <2>1. Cardinality(Unlocked) \in Nat /\ IsFiniteSet(Unlocked)
    BY FS_CardinalityType DEF LeadersInv
  <2>2. CASE lock = NoPoller
    <3>1. active \ retiring = Unlocked
      BY <2>2 DEF LeadersInv, Unlocked
    <3>. QED  BY <2>1, <3>1 DEF LeadersInv, OnePollerPerSession
  <2>3. CASE lock # NoPoller
    <3>1. active \ retiring = Unlocked \cup {lock} /\ lock \notin Unlocked
      BY <2>3 DEF LeadersInv, Unlocked
    <3>2. Cardinality(active \ retiring) = Cardinality(Unlocked) + 1
      BY <2>1, <3>1, FS_AddElement
    <3>. QED  BY <2>1, <3>2 DEF LeadersInv, OnePollerPerSession
  <2>. QED  BY <2>2, <2>3
<1>. QED  BY <1>1, LeadersInvHolds, LeadersInvKept, PTL DEF Spec

-----------------------------------------------------------------------------
(* The order in which a pod that polls for itself shows the data *)

Latest(c) == Topic(c).last
Inbox(c) == inbox[PodOf[c]][KeyOf[c]]

\* Of the frames with data in a channel, a later one is not older.
Ordered(q) == \A i, j \in 1..Len(q) : i < j /\ q[j] # Null => q[i] <= q[j]
UpTo(q, n) == \A i \in 1..Len(q) : q[i] <= n
StartsAt(q, n) == \A i \in 1..Len(q) : q[i] # Null => n <= q[i]

\* What a client was shown and what waits for it is not newer than n.
Behind(c, n) == shown[c] <= n /\ UpTo(queue[c], n)

\* Data goes from upstream over the poll, the broadcast and the channel to the client, and what is
\* further on the way is not newer.
InTime(c) ==
  /\ Ordered(queue[c]) /\ StartsAt(queue[c], shown[c]) /\ Behind(c, upstream)
  /\ Latest(c) <= upstream /\ (Latest(c) > Null => Behind(c, Latest(c)))
  /\ Len(Inbox(c)) <= 1
  /\ \A i \in 1..Len(Inbox(c)) :
       /\ Inbox(c)[i] <= upstream
       /\ Inbox(c)[i] # Null => Behind(c, Inbox(c)[i]) /\ Latest(c) <= Inbox(c)[i]

OrderInv == HubInv /\ \A c \in Local : InTime(c)

LEMMA Appended ==
  ASSUME NEW q \in Seq(Frames), NEW f \in Frames, Ordered(q), f # Null => UpTo(q, f)
  PROVE  /\ Ordered(Append(q, f))
         /\ \A n \in Int : UpTo(q, n) /\ f <= n => UpTo(Append(q, f), n)
         /\ \A n \in Int : StartsAt(q, n) /\ (f # Null => n <= f) => StartsAt(Append(q, f), n)
<1>1. /\ Len(Append(q, f)) = Len(q) + 1 /\ Len(q) \in Nat
      /\ \A i \in 1..Len(q) : Append(q, f)[i] = q[i]
      /\ Append(q, f)[Len(q) + 1] = f
  OBVIOUS
<1>2. Frames \subseteq Int
  BY DEF Frames
<1> DEFINE a == Append(q, f)
<1> HIDE DEF a
<1>3. \A i \in 1..Len(a) : (i \in 1..Len(q) /\ a[i] = q[i]) \/ (i = Len(q) + 1 /\ a[i] = f)
  BY <1>1 DEF a
<1>4. Ordered(a)
  <2> SUFFICES ASSUME NEW i \in 1..Len(a), NEW j \in 1..Len(a), i < j, a[j] # Null
               PROVE  a[i] <= a[j]
    BY DEF Ordered
  <2>1. i \in 1..Len(q) /\ a[i] = q[i]
    BY <1>1, <1>3 DEF a
  <2>2. CASE j \in 1..Len(q)
    BY <1>3, <1>1, <2>1, <2>2 DEF Ordered
  <2>3. CASE j = Len(q) + 1
    BY <1>1, <2>1, <2>3 DEF UpTo, a
  <2> QED
    BY <1>3, <2>2, <2>3
<1>5. \A n \in Int : UpTo(q, n) /\ f <= n => UpTo(a, n)
  BY <1>3 DEF UpTo
<1>6. \A n \in Int : StartsAt(q, n) /\ (f # Null => n <= f) => StartsAt(a, n)
  BY <1>3 DEF StartsAt
<1> QED
  BY <1>4, <1>5, <1>6 DEF a

LEMMA Shortened ==
  ASSUME NEW q \in Seq(Frames), q # <<>>, Ordered(q)
  PROVE  /\ Ordered(Tail(q)) /\ Head(q) \in Frames
         /\ \A n \in Int : UpTo(q, n) => UpTo(Tail(q), n) /\ Head(q) <= n
         /\ \A n \in Int : StartsAt(q, n) => StartsAt(Tail(q), n) /\ (Head(q) # Null => n <= Head(q))
         /\ StartsAt(Tail(q), Head(q))
<1>1. /\ Len(Tail(q)) = Len(q) - 1 /\ Len(q) \in Nat \ {0} /\ Head(q) = q[1] /\ q[1] \in Frames
      /\ \A i \in 1..(Len(q) - 1) : Tail(q)[i] = q[i + 1]
  OBVIOUS
<1> DEFINE t == Tail(q)
<1> HIDE DEF t
<1>2. \A i \in 1..Len(t) : i + 1 \in 1..Len(q) /\ t[i] = q[i + 1]
  BY <1>1 DEF t
<1>3. Ordered(t)
  <2> SUFFICES ASSUME NEW i \in 1..Len(t), NEW j \in 1..Len(t), i < j, t[j] # Null
               PROVE  t[i] <= t[j]
    BY DEF Ordered
  <2>1. i + 1 < j + 1
    OBVIOUS
  <2> QED
    BY <1>2, <2>1 DEF Ordered
<1>4. \A n \in Int : UpTo(q, n) => UpTo(t, n) /\ q[1] <= n
  BY <1>1, <1>2 DEF UpTo
<1>5. \A n \in Int : StartsAt(q, n) => StartsAt(t, n) /\ (q[1] # Null => n <= q[1])
  BY <1>1, <1>2 DEF StartsAt
<1>6. StartsAt(t, q[1])
  <2> SUFFICES ASSUME NEW i \in 1..Len(t), t[i] # Null PROVE q[1] <= t[i]
    BY DEF StartsAt
  <2>1. 1 \in 1..Len(q) /\ 1 < i + 1
    BY <1>1
  <2> QED
    BY <1>2, <2>1 DEF Ordered
<1> QED
  BY <1>1, <1>3, <1>4, <1>5, <1>6 DEF t

LEMMA OneFrame ==
  ASSUME NEW q \in Seq(Frames), q # <<>>, Len(q) <= 1
  PROVE  Len(Tail(q)) = 0 /\ Head(q) = q[1] /\ 1 \in 1..Len(q)
<1>1. Len(q) \in Nat \ {0} /\ Len(Tail(q)) = Len(q) - 1 /\ Head(q) = q[1]
  OBVIOUS
<1>2. Len(q) = 1
  BY <1>1
<1> QED
  BY <1>1, <1>2

\* The values a client's order depends on.
LEMMA Values ==
  ASSUME HubInv, NEW c \in Clients
  PROVE  /\ PodOf[c] \in Pods /\ KeyOf[c] \in Keys
         /\ queue[c] \in Seq(Frames) /\ Inbox(c) \in Seq(Frames)
         /\ shown[c] \in {NoFrame} \cup Frames /\ Latest(c) \in {NoFrame} \cup Frames
         /\ shown[c] \in Int /\ Latest(c) \in Int /\ upstream \in Frames /\ upstream > Null
         /\ Topic(c) \in Topics
BY DEF HubInv, FanoutTypes, Frames, Latest, Inbox, Topic, Topics

LEMMA Unmoved ==
  ASSUME NEW c \in Clients, InTime(c), queue'[c] = queue[c], shown'[c] = shown[c],
         Latest(c)' = Latest(c), Inbox(c)' = Inbox(c), upstream' = upstream
  PROVE  InTime(c)'
BY DEF InTime, Behind

\* A frame taken or put in one channel.
LEMMA OthersUnmoved ==
  ASSUME OrderInv, NEW c \in Clients, UNCHANGED <<topic, inbox, upstream>>,
         NEW s, queue' = [queue EXCEPT ![c] = s],
         \A d \in Clients \ {c} : shown'[d] = shown[d]
  PROVE  /\ \A d \in Local \ {c} : InTime(d)'
         /\ Latest(c)' = Latest(c) /\ Inbox(c)' = Inbox(c) /\ queue'[c] = s
<1>1. \A d \in Clients : queue'[d] = IF d = c THEN s ELSE queue[d]
  BY DEF OrderInv, HubInv, FanoutTypes
<1>2. \A d \in Clients : Latest(d)' = Latest(d) /\ Inbox(d)' = Inbox(d)
  BY DEF Latest, Inbox, Topic
<1> QED
  BY <1>1, <1>2, Unmoved DEF OrderInv, Local

LEMMA WriteInTime ==
  ASSUME OrderInv, NEW c \in Clients, Write(c), UNCHANGED upstream
  PROVE  \A d \in Local : InTime(d)'
<1>1. queue' = [queue EXCEPT ![c] = Tail(queue[c])] /\ UNCHANGED <<topic, inbox>>
  BY DEF Write
<1>2. \A d \in Clients :
        shown'[d] = IF d = c /\ Head(queue[c]) # Null THEN Head(queue[c]) ELSE shown[d]
  BY DEF Write, Showing, OrderInv, HubInv, FanoutTypes
<1>3. /\ \A d \in Local \ {c} : InTime(d)'
      /\ Latest(c)' = Latest(c) /\ Inbox(c)' = Inbox(c) /\ queue'[c] = Tail(queue[c])
  BY <1>1, <1>2, OthersUnmoved
<1>4. ASSUME c \in Local PROVE InTime(c)'
  <2>1. /\ InTime(c) /\ queue[c] \in Seq(Frames) /\ queue[c] # <<>>
        /\ shown[c] \in Int /\ upstream \in Int /\ Latest(c) \in Int
        /\ \A i \in 1..Len(Inbox(c)) : Inbox(c)[i] \in Int
        /\ Head(queue[c]) \in Int
    BY <1>4, Values DEF OrderInv, Write, Frames
  <2>2. /\ Ordered(Tail(queue[c]))
        /\ \A n \in Int : UpTo(queue[c], n) => UpTo(Tail(queue[c]), n) /\ Head(queue[c]) <= n
        /\ \A n \in Int : StartsAt(queue[c], n) => StartsAt(Tail(queue[c]), n)
        /\ StartsAt(Tail(queue[c]), Head(queue[c]))
    BY <2>1, Shortened DEF InTime
  <2>3. \A n \in Int : Behind(c, n) => Behind(c, n)'
    BY <1>2, <1>3, <2>2 DEF Behind
  <2>4. StartsAt(queue[c], shown[c])'
    BY <1>2, <1>3, <2>1, <2>2 DEF InTime
  <2> QED
    BY <1>3, <2>1, <2>2, <2>3, <2>4 DEF InTime
<1> QED
  BY <1>3, <1>4

\* The latest frame goes into a channel, or the oldest makes room.
LEMMA ChannelInTime ==
  ASSUME OrderInv, NEW c \in Clients, UNCHANGED <<shown, topic, inbox, upstream>>,
         \/ Latest(c) \in Frames /\ queue' = [queue EXCEPT ![c] = Append(@, Latest(c))]
         \/ queue[c] # <<>> /\ queue' = [queue EXCEPT ![c] = Tail(@)]
         \/ UNCHANGED queue
  PROVE  \A d \in Local : InTime(d)'
<1>1. PICK s : /\ queue' = [queue EXCEPT ![c] = s]
               /\ \/ Latest(c) \in Frames /\ s = Append(queue[c], Latest(c))
                  \/ queue[c] # <<>> /\ s = Tail(queue[c])
                  \/ s = queue[c]
  BY DEF OrderInv, HubInv, FanoutTypes
<1>2. /\ \A d \in Local \ {c} : InTime(d)'
      /\ Latest(c)' = Latest(c) /\ Inbox(c)' = Inbox(c) /\ queue'[c] = s
  BY <1>1, OthersUnmoved
<1>3. ASSUME c \in Local PROVE InTime(c)'
  <2>1. /\ InTime(c) /\ queue[c] \in Seq(Frames)
        /\ shown[c] \in Int /\ upstream \in Int /\ Latest(c) \in Int
        /\ \A i \in 1..Len(Inbox(c)) : Inbox(c)[i] \in Int
    BY <1>3, Values DEF OrderInv, Frames
  <2>2. /\ Ordered(s) /\ StartsAt(s, shown[c])
        /\ \A n \in Int : UpTo(queue[c], n) /\ Latest(c) <= n => UpTo(s, n)
    <3>1. CASE Latest(c) \in Frames /\ s = Append(queue[c], Latest(c))
      <4>1. Latest(c) # Null => Latest(c) > Null
        BY <3>1 DEF Frames
      <4>2. Latest(c) # Null => UpTo(queue[c], Latest(c)) /\ shown[c] <= Latest(c)
        BY <2>1, <4>1 DEF InTime, Behind
      <4> QED
        BY <2>1, <3>1, <4>2, Appended DEF InTime
    <3>2. CASE queue[c] # <<>> /\ s = Tail(queue[c])
      BY <2>1, <3>2, Shortened DEF InTime
    <3>3. CASE s = queue[c]
      BY <2>1, <3>3 DEF InTime
    <3> QED
      BY <1>1, <3>1, <3>2, <3>3
  <2>3. \A n \in Int : Behind(c, n) /\ Latest(c) <= n => Behind(c, n)'
    BY <1>2, <2>2 DEF Behind
  <2> QED
    BY <1>2, <2>1, <2>2, <2>3 DEF InTime
<1> QED
  BY <1>2, <1>3

LEMMA DeliverInTime ==
  ASSUME OrderInv, NEW c \in Clients, Deliver(c), UNCHANGED upstream
  PROVE  \A d \in Local : InTime(d)'
<1>1. Latest(c) \in Frames
  <2>1. sending[PodOf[c]][KeyOf[c]] # {} /\ PodOf[c] \in Pods /\ KeyOf[c] \in Keys
    BY DEF Deliver, Send, Evict, Resend, Turn, Sending
  <2>2. Latest(c) # NoFrame
    BY <2>1 DEF OrderInv, HubInv, SendsAreOpen, Latest, Topic
  <2> QED
    BY <2>2, Values DEF OrderInv
<1>2. \/ queue' = [queue EXCEPT ![c] = Append(@, Latest(c))]
      \/ queue[c] # <<>> /\ queue' = [queue EXCEPT ![c] = Tail(@)]
      \/ UNCHANGED queue
  <2>1. Evict(c) => \/ queue[c] # <<>> /\ queue' = [queue EXCEPT ![c] = Tail(@)]
                    \/ UNCHANGED queue
    BY DEF Evict, OrderInv, HubInv, FanoutTypes
  <2> QED
    BY <2>1 DEF Deliver, Send, Resend, Enqueued, Latest
<1>3. UNCHANGED <<shown, topic, inbox>>
  BY DEF Deliver, Send, Evict, Resend
<1> QED
  BY <1>1, <1>2, <1>3, ChannelInTime

LEMMA AttachInTime ==
  ASSUME OrderInv, NEW c \in Clients, Attach(c), UNCHANGED upstream
  PROVE  \A d \in Local : InTime(d)'
<1>1. \/ Latest(c) \in Frames /\ queue' = [queue EXCEPT ![c] = Append(@, Latest(c))]
      \/ UNCHANGED queue
  <2>1. CASE Latest(c) = NoFrame
    BY <2>1 DEF Attach, Latest, OrderInv, HubInv, FanoutTypes
  <2>2. CASE Latest(c) # NoFrame
    <3>1. Latest(c) \in Frames
      BY <2>2, Values DEF OrderInv
    <3> QED
      BY <2>2, <3>1 DEF Attach, Latest
  <2> QED
    BY <2>1, <2>2
<1>2. UNCHANGED <<shown, topic, inbox>>
  BY DEF Attach
<1> QED
  BY <1>1, <1>2, ChannelInTime

\* A client whose channel, topic or inbox is left alone or emptied.
LEMMA EmptiedInTime ==
  ASSUME OrderInv, NEW c \in Local, queue'[c] \in {queue[c], <<>>}, shown'[c] = shown[c],
         Latest(c)' \in {Latest(c), NoFrame}, Inbox(c)' \in {Inbox(c), <<>>},
         upstream' \in Int, upstream' >= upstream
  PROVE  InTime(c)'
<1>1. /\ InTime(c) /\ c \in Clients /\ queue[c] \in Seq(Frames) /\ Inbox(c) \in Seq(Frames)
      /\ shown[c] \in Int /\ upstream \in Int /\ upstream > Null /\ Latest(c) \in Int
      /\ \A i \in 1..Len(queue[c]) : queue[c][i] \in Int
      /\ \A i \in 1..Len(Inbox(c)) : Inbox(c)[i] \in Int
  BY Values DEF OrderInv, Local, Frames
<1>2. \A n, m \in Int : Behind(c, n) /\ n <= m => Behind(c, m)'
  BY <1>1 DEF Behind, UpTo
<1>3. Ordered(queue'[c]) /\ StartsAt(queue'[c], shown'[c])
  BY <1>1, SMTT(30) DEF InTime, Ordered, StartsAt
<1>4. Behind(c, upstream)'
  BY <1>1, <1>2 DEF InTime
<1>5. Latest(c)' <= upstream' /\ (Latest(c)' > Null => Behind(c, Latest(c))')
  <2>1. CASE Latest(c)' = Latest(c)
    <3>1. Latest(c) <= upstream' /\ (Latest(c) > Null => Behind(c, Latest(c)))
      BY <1>1 DEF InTime
    <3> QED
      BY <1>1, <1>2, <2>1, <3>1
  <2>2. CASE Latest(c)' = NoFrame
    BY <1>1, <2>2
  <2> QED
    BY <2>1, <2>2
<1>6. /\ Len(Inbox(c)') <= 1
      /\ \A i \in 1..Len(Inbox(c)') :
           /\ Inbox(c)'[i] <= upstream'
           /\ Inbox(c)'[i] # Null => Behind(c, Inbox(c)[i])' /\ Latest(c)' <= Inbox(c)'[i]
  <2>1. CASE Inbox(c)' = Inbox(c)
    <3>1. ASSUME NEW i \in 1..Len(Inbox(c))
          PROVE  /\ Inbox(c)[i] <= upstream' /\ Inbox(c)[i] >= Null
                 /\ Inbox(c)[i] # Null => Behind(c, Inbox(c)[i]) /\ Latest(c) <= Inbox(c)[i]
      <4>1. Inbox(c)[i] \in Frames /\ Inbox(c)[i] \in Int
        BY <1>1
      <4> QED
        BY <1>1, <4>1 DEF InTime, Frames
    <3>2. ASSUME NEW i \in 1..Len(Inbox(c)), Inbox(c)[i] # Null
          PROVE  Behind(c, Inbox(c)[i])' /\ Latest(c)' <= Inbox(c)[i]
      <4>1. Inbox(c)[i] \in Int
        BY <1>1
      <4>2. \A n \in Int : Inbox(c)' [i] = n /\ Behind(c, n) => Behind(c, Inbox(c)[i])'
        BY <1>2, <2>1
      <4> QED
        BY <1>1, <2>1, <3>1, <3>2, <4>1, <4>2
    <3> QED
      BY <1>1, <2>1, <3>1, <3>2 DEF InTime
  <2>2. CASE Inbox(c)' = <<>>
    BY <2>2
  <2> QED
    BY <2>1, <2>2
<1> QED
  BY <1>3, <1>4, <1>5, <1>6 DEF InTime

LEMMA JoinInTime ==
  ASSUME OrderInv, NEW c \in Clients, Join(c), UNCHANGED upstream
  PROVE  \A d \in Local : InTime(d)'
<1> DEFINE t == IF Listed(PodOf[c], KeyOf[c]) THEN Topic(c) ELSE NewTopic(PodOf[c], KeyOf[c])
<1>1. /\ UNCHANGED <<queue, shown, inbox>> /\ topic' = [topic EXCEPT ![PodOf[c]][KeyOf[c]] = t]
      /\ upstream \in Int /\ topic \in [Pods -> [Keys -> Topics]]
      /\ PodOf[c] \in Pods /\ KeyOf[c] \in Keys /\ Topic(c) \in Topics
  BY Values DEF Join, LookUp, SetTopic, Topic, OrderInv, HubInv, FanoutTypes, Topics, Frames
<1>2. t \in Topics /\ t.last \in {Latest(c), NoFrame}
  BY <1>1 DEF NewTopic, Topics, Latest, Topic
<1> HIDE DEF t
<1>3. ASSUME NEW d \in Local PROVE Latest(d)' \in {Latest(d), NoFrame} /\ Inbox(d)' = Inbox(d)
  <2>1. topic'[PodOf[d]][KeyOf[d]] =
          IF PodOf[d] = PodOf[c] /\ KeyOf[d] = KeyOf[c] THEN t ELSE topic[PodOf[d]][KeyOf[d]]
    BY <1>1, <1>2, <1>3, TopicSet DEF Local
  <2> QED
    BY <1>1, <1>2, <2>1 DEF Latest, Topic, Inbox
<1> QED
  BY <1>1, <1>3, EmptiedInTime

LEMMA ReleaseInTime ==
  ASSUME OrderInv, NEW c \in Clients, Release(c), UNCHANGED upstream
  PROVE  \A d \in Local : InTime(d)'
<1> DEFINE t == [topic[PodOf[c]][KeyOf[c]] EXCEPT !.feed = "none", !.last = NoFrame]
<1>1. /\ UNCHANGED shown /\ queue' = [queue EXCEPT ![c] = <<>>]
      /\ \/ /\ topic' = [topic EXCEPT ![PodOf[c]][KeyOf[c]] = t]
            /\ inbox' = [inbox EXCEPT ![PodOf[c]][KeyOf[c]] = <<>>]
         \/ UNCHANGED <<topic, inbox>>
  BY DEF Release, Detach, SetTopic
<1>2. /\ upstream \in Int /\ topic \in [Pods -> [Keys -> Topics]]
      /\ PodOf[c] \in Pods /\ KeyOf[c] \in Keys /\ Topic(c) \in Topics
      /\ inbox \in [Pods -> [Keys -> Seq(Frames)]] /\ queue \in [Clients -> Seq(Frames)]
  BY Values, SMTT(30) DEF OrderInv, HubInv, FanoutTypes, Topics, Frames
<1>3. t \in Topics /\ t.last = NoFrame
  <2>1. Topic(c).gen \in Nat
    BY <1>2 DEF Topics
  <2> QED
    BY <1>2, TopicFields DEF Topic, Topics
<1> HIDE DEF t
<1>4. ASSUME NEW d \in Local
      PROVE  /\ Latest(d)' \in {Latest(d), NoFrame} /\ Inbox(d)' \in {Inbox(d), <<>>}
             /\ queue'[d] \in {queue[d], <<>>}
  <2>1. d \in Clients /\ PodOf[d] \in Pods /\ KeyOf[d] \in Keys
    BY <1>4 DEF Local
  <2>2. queue'[d] \in {queue[d], <<>>}
    BY <1>1, <1>2, <2>1
  <2>3. CASE UNCHANGED <<topic, inbox>>
    BY <2>2, <2>3 DEF Latest, Topic, Inbox
  <2>4. CASE /\ topic' = [topic EXCEPT ![PodOf[c]][KeyOf[c]] = t]
             /\ inbox' = [inbox EXCEPT ![PodOf[c]][KeyOf[c]] = <<>>]
    <3>1. topic'[PodOf[d]][KeyOf[d]] =
            IF PodOf[d] = PodOf[c] /\ KeyOf[d] = KeyOf[c] THEN t ELSE topic[PodOf[d]][KeyOf[d]]
      BY <1>2, <1>3, <2>1, <2>4, TopicSet
    <3>2. inbox'[PodOf[d]][KeyOf[d]] \in {inbox[PodOf[d]][KeyOf[d]], <<>>}
      BY <1>2, <2>1, <2>4
    <3> QED
      BY <1>3, <2>2, <3>1, <3>2 DEF Latest, Topic, Inbox
  <2> QED
    BY <1>1, <2>3, <2>4
<1> QED
  BY <1>1, <1>2, <1>4, EmptiedInTime

LEMMA PollInTime ==
  ASSUME OrderInv, NEW p \in Pods, NEW k \in Keys, NEW f \in {upstream, Null}, Poll(p, k, f),
         UNCHANGED upstream
  PROVE  \A d \in Local : InTime(d)'
<1>1. /\ UNCHANGED <<queue, shown, topic>>
      /\ \A d \in Clients : Inbox(d)' = IF PodOf[d] = p /\ KeyOf[d] = k THEN <<f>> ELSE Inbox(d)
  BY DEF Poll, Inbox, OrderInv, HubInv, FanoutTypes
<1>2. \A d \in Clients : Latest(d)' = Latest(d)
  BY <1>1 DEF Latest, Topic
<1>3. ASSUME NEW d \in Local PROVE InTime(d)'
  <2>1. d \in Clients /\ InTime(d) /\ upstream \in Int /\ upstream > Null
    BY <1>3, Values DEF OrderInv, Local, Frames
  <2>2. CASE Inbox(d)' = <<f>>
    <3>1. \A n : Behind(d, n)' <=> Behind(d, n)
      BY <1>1 DEF Behind
    <3>2. Len(<<f>>) = 1 /\ \A i \in 1..Len(<<f>>) : <<f>>[i] = f
      OBVIOUS
    <3> QED
      BY <1>1, <1>2, <2>1, <2>2, <3>1, <3>2 DEF InTime
  <2>3. CASE Inbox(d)' = Inbox(d)
    BY <1>1, <1>2, <2>1, <2>3, Unmoved
  <2> QED
    BY <1>1, <2>1, <2>2, <2>3
<1> QED
  BY <1>3

LEMMA FanoutInTime ==
  ASSUME OrderInv, NEW p \in Pods, NEW k \in Keys, Fanout(p, k), UNCHANGED upstream
  PROVE  \A d \in Local : InTime(d)'
<1>0. /\ topic \in [Pods -> [Keys -> Topics]] /\ topic[p][k] \in Topics
      /\ inbox \in [Pods -> [Keys -> Seq(Frames)]] /\ upstream \in Int
  BY DEF OrderInv, HubInv, FanoutTypes, Topics, Frames
<1>1. CASE SubscribeBus(p, k)
  <2>1. PICK feed \in {"live", "dead"} : SetTopic(p, k, [topic[p][k] EXCEPT !.feed = feed])
    BY <1>1 DEF SubscribeBus
  <2>2. \A d \in Clients : Latest(d)' = Latest(d) /\ Inbox(d)' = Inbox(d)
    BY <1>0, <1>1, <2>1 DEF SubscribeBus, SetTopic, Latest, Topic, Inbox, Topics
  <2> QED
    BY <1>0, <1>1, <2>2, EmptiedInTime DEF SubscribeBus, Local
<1>2. CASE Broadcast(p, k)
  <2> DEFINE f == Head(inbox[p][k])
             t == [topic[p][k] EXCEPT !.last = f]
  <2>1. /\ UNCHANGED <<queue, shown>> /\ topic' = [topic EXCEPT ![p][k] = t]
        /\ inbox' = [inbox EXCEPT ![p][k] = Tail(inbox[p][k])] /\ inbox[p][k] # <<>>
    BY <1>2 DEF Broadcast, SetTopic
  <2>2. f \in Frames
    BY <1>0, <2>1
  <2>3. t \in Topics /\ t.last = f
    BY <1>0, <2>2, TopicFields DEF Topics
  <2> HIDE DEF t
  <2>4. ASSUME NEW d \in Local PROVE InTime(d)'
    <3>1. d \in Clients /\ InTime(d) /\ PodOf[d] \in Pods /\ KeyOf[d] \in Keys
      BY <2>4 DEF OrderInv, Local
    <3>2. CASE PodOf[d] = p /\ KeyOf[d] = k
      <4>1. Inbox(d) = inbox[p][k] /\ Inbox(d)' = Tail(inbox[p][k]) /\ Latest(d)' = f
        BY <1>0, <2>1, <2>3, <3>2, TopicSet DEF Inbox, Latest, Topic
      <4>2. Len(Inbox(d)') = 0 /\ f = Inbox(d)[1] /\ 1 \in 1..Len(Inbox(d))
        <5>1. Inbox(d) \in Seq(Frames) /\ Inbox(d) # <<>> /\ Len(Inbox(d)) <= 1
          BY <1>0, <2>1, <3>1, <4>1 DEF InTime
        <5> QED
          BY <4>1, <5>1, OneFrame
      <4>3. f <= upstream /\ (f # Null => Behind(d, f))
        BY <3>1, <4>2 DEF InTime
      <4> HIDE DEF f
      <4>4. \A n : Behind(d, n)' <=> Behind(d, n)
        BY <2>1 DEF Behind
      <4>5. Behind(d, upstream) /\ Ordered(queue[d])' /\ StartsAt(queue[d], shown[d])'
        BY <2>1, <3>1 DEF InTime
      <4>6. upstream' = upstream /\ f \in Int /\ f >= Null
        BY <2>2, <4>2 DEF Frames
      <4>7. Behind(d, upstream)' /\ (Latest(d)' > Null => Behind(d, Latest(d))')
        BY <1>0, <4>1, <4>3, <4>4, <4>5, <4>6
      <4> QED
        <5>1. /\ Latest(d)' <= upstream' /\ Len(Inbox(d)') <= 1
              /\ \A i \in 1..Len(Inbox(d)') : FALSE
          BY <1>0, <4>1, <4>2, <4>3, <4>6
        <5> QED
          BY <4>5, <4>7, <5>1 DEF InTime
    <3>3. CASE ~(PodOf[d] = p /\ KeyOf[d] = k)
      <4>1. topic'[PodOf[d]][KeyOf[d]] = topic[PodOf[d]][KeyOf[d]]
        BY <1>0, <2>1, <2>3, <3>1, <3>3, TopicSet
      <4>2. Inbox(d)' = Inbox(d)
        BY <1>0, <2>1, <3>1, <3>3 DEF Inbox
      <4> QED
        BY <2>1, <3>1, <4>1, <4>2, Unmoved DEF Latest, Topic
    <3> QED
      BY <3>2, <3>3
  <2> QED
    BY <2>4
<1> QED
  BY <1>1, <1>2 DEF Fanout

LEMMA PodStepInTime ==
  ASSUME OrderInv, PodStep
  PROVE  \A d \in Local : InTime(d)'
<1>1. ASSUME NEW c \in Clients, Serve(c) PROVE \A d \in Local : InTime(d)'
  <2>1. UNCHANGED upstream /\ upstream \in Int
    BY <1>1 DEF Serve, OrderInv, HubInv, FanoutTypes
  <2>2. CASE Disconnect(c)
    BY <2>1, <2>2, EmptiedInTime DEF Disconnect, Latest, Topic, Inbox
  <2> QED
    BY <1>1, <2>1, <2>2, JoinInTime, AttachInTime, ReleaseInTime, DeliverInTime, WriteInTime
       DEF Serve, Connection
<1>2. ASSUME NEW p \in Pods, NEW k \in Keys, Fan(p, k) PROVE \A d \in Local : InTime(d)'
  BY <1>2, FanoutInTime DEF Fan
<1>3. ASSUME NEW p \in Pods, NEW k \in Keys, PollLocally(p, k) \/ LocalPollFails(p, k)
      PROVE  \A d \in Local : InTime(d)'
  BY <1>3, PollInTime DEF PollLocally, LocalPollFails
<1> QED
  BY <1>1, <1>2, <1>3 DEF PodStep

\* The pollers of the bus reach no pod without one.
LEMMA BusInTime ==
  ASSUME OrderInv, Update \/ PollerStep \/ UNCHANGED vars
  PROVE  \A d \in Local : InTime(d)'
<1>0. upstream \in Int
  BY DEF OrderInv, HubInv, FanoutTypes
<1>1. CASE UNCHANGED <<queue, shown, topic, inbox>> /\ upstream' \in {upstream, upstream + 1}
  BY <1>0, <1>1, EmptiedInTime DEF Latest, Topic, Inbox
<1>2. ASSUME NEW q \in Pollers, NEW m \in outgoing[q], NEW reached \in SUBSET BusPods,
             Carry(q, m, reached)
      PROVE  \A d \in Local : InTime(d)'
  <2>1. UNCHANGED <<queue, shown, topic, upstream>>
    BY <1>2 DEF Carry
  <2>2. \A d \in Local : Inbox(d)' = Inbox(d)
    BY <1>2 DEF Carry, Local, Inbox
  <2> QED
    BY <1>0, <2>1, <2>2, EmptiedInTime DEF Latest, Topic
<1>3. \A k, x : Listeners(k) \in SUBSET BusPods /\ Listeners(k) \ {x} \in SUBSET BusPods
  BY DEF Listeners
<1>4. ASSUME NEW q \in Pollers, Publish(q) \/ PublishLost(q) PROVE \A d \in Local : InTime(d)'
  BY <1>2, <1>3, <1>4 DEF Publish, PublishLost
<1>5. ASSUME NEW q \in Pollers, Operate(q) \/ Die(q) \/ Exit(q) \/ LoseLock(q)
      PROVE  \A d \in Local : InTime(d)'
  BY <1>1, <1>5 DEF Operate, Die, Exit, LoseLock, hubVars
<1>6. ASSUME NEW q \in Pollers, NEW k \in Keys,
             Heartbeat(q, k) \/ Fade(q, k) \/ PollForAll(q, k) \/ PollForAllFails(q, k)
      PROVE  \A d \in Local : InTime(d)'
  BY <1>1, <1>6 DEF Heartbeat, Fade, PollForAll, PollForAllFails, hubVars
<1>7. CASE Update \/ UNCHANGED vars
  BY <1>1, <1>7 DEF Update, vars, hubVars
<1> QED
  BY <1>4, <1>5, <1>6, <1>7 DEF PollerStep

LEMMA OrderKept == OrderInv /\ [Next]_vars => OrderInv'
<1> SUFFICES ASSUME OrderInv, [Next]_vars PROVE OrderInv'
  OBVIOUS
<1>1. HubInv'
  BY Inductive DEF OrderInv
<1>2. \A d \in Local : InTime(d)'
  BY PodStepInTime, BusInTime DEF Next
<1> QED
  BY <1>1, <1>2 DEF OrderInv, Local

LEMMA OrderHolds == Init => OrderInv
<1> SUFFICES ASSUME Init PROVE OrderInv
  OBVIOUS
<1>1. \A c \in Clients : /\ queue[c] = <<>> /\ shown[c] = NoFrame /\ Latest(c) = NoFrame
                         /\ Inbox(c) = <<>> /\ upstream = 1
  BY DEF Init, HubInit, Latest, Topic, Inbox
<1>2. \A c \in Clients : InTime(c)
  BY <1>1 DEF InTime, Behind, Ordered, StartsAt, UpTo
<1> QED
  BY <1>2, InitInv DEF OrderInv, Local

\* A client of a pod that polls for itself is never shown older data after newer, in any deployment:
\* through evictions, failed polls, the replay to a late joiner and the end and return of its topic
\* (poll, deliver, subscribe).
THEOREM LocalClientsAdvance == Spec => InOrder
<1>1. ASSUME OrderInv, [Next]_vars PROVE [\A c \in Local : shown'[c] >= shown[c]]_vars
  <2>1. ASSUME NEW c \in Local PROVE shown'[c] >= shown[c]
    <3>1. c \in Clients /\ InTime(c) /\ shown[c] \in Int /\ queue[c] \in Seq(Frames)
      BY <1>1, <2>1, Values DEF OrderInv, Local
    <3>2. CASE UNCHANGED shown
      BY <3>1, <3>2
    <3>3. ASSUME NEW d \in Clients, Write(d) PROVE shown'[c] >= shown[c]
      <4>1. CASE shown'[c] = shown[c]
        BY <3>1, <4>1
      <4>2. CASE c = d /\ Head(queue[c]) # Null /\ shown'[c] = Head(queue[c])
        <5>1. queue[c] # <<>>
          BY <3>3, <4>2 DEF Write
        <5>2. Head(queue[c]) \in Frames /\ shown[c] <= Head(queue[c])
          BY <3>1, <4>2, <5>1, Shortened DEF InTime
        <5> QED
          BY <3>1, <4>2, <5>2 DEF Frames
      <4> QED
        BY <1>1, <3>1, <3>3, <4>1, <4>2 DEF Write, Showing, OrderInv, HubInv, FanoutTypes
    <3>4. CASE UNCHANGED vars \/ Update \/ PollerStep
      BY <3>2, <3>4 DEF vars, hubVars, Update, PollerStep, Operate, Die, Exit, LoseLock, Publish,
         PublishLost, Carry, Heartbeat, Fade, PollForAll, PollForAllFails
    <3>5. CASE PodStep
      BY <3>2, <3>3, <3>5 DEF PodStep, Serve, Connection, Join, LookUp, Attach, Disconnect, Release,
         Detach, Deliver, Send, Evict, Resend, Fan, Fanout, SubscribeBus, Broadcast, PollLocally,
         LocalPollFails, Poll
    <3> QED
      BY <1>1, <3>4, <3>5 DEF Next
  <2> QED
    BY <2>1
<1> QED
  BY <1>1, OrderHolds, OrderKept, PTL DEF Spec, InOrder

=============================================================================
