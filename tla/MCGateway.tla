----------------------------- MODULE MCGateway ------------------------------
(***************************************************************************)
(* Small instances of what the replicas of the gateway share: the Redis    *)
(* that remembers submissions, and the bus that carries the frames of the  *)
(* pollers, which replace each other.  Orders and frames meet nowhere, so  *)
(* one of the two moves in a behaviour.                                    *)
(***************************************************************************)
EXTENDS TradeSubmissionProperties, Poller, TLC

CONSTANTS r1, r2, redis, pod, viewer, quotes

VARIABLES
  trading,
  client, at, queue, shown, hubLock, topic, inbox, sending, stage, upstream, faults

frames ==
  <<client, at, queue, shown, hubLock, topic, inbox, sending, stage, pollerVars, upstream, faults>>

OneRedis == (r1 :> redis) @@ (r2 :> redis)

MaxVersion == 1

Bus == INSTANCE Realtime WITH
  Pods <- {pod}, BusPods <- {pod}, Keys <- {quotes}, Clients <- {viewer}, NoClient <- NoKey,
  PodOf <- [c \in {viewer} |-> pod], KeyOf <- [c \in {viewer} |-> quotes],
  SendBuf <- 1, SubscribeFails <- TRUE, MaxFaults <- 1, MaxInbox <- 1

MCInit ==
  /\ trading \in BOOLEAN /\ Init /\ Bus!Init
  /\ trading \/ replica = [c \in Calls |-> r1]

MCNext ==
  /\ UNCHANGED trading
  /\ IF trading THEN Next /\ UNCHANGED frames ELSE Bus!Next /\ UNCHANGED vars

MCSpec ==
  /\ MCInit /\ [][MCNext]_<<trading, vars, frames>>
  /\ \A c \in Calls : WF_vars(Handle(c))
  /\ trading \/ Bus!Fairness

\* A connected client comes to see every version of the data, or a newer one, though pollers
\* crash and frames are lost, unless it leaves or its topic could not subscribe to the bus.
FreshEventually == Bus!FreshEventually
=============================================================================
