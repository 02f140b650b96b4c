------------------------------- MODULE Poller -------------------------------
(***************************************************************************)
(* The processes that poll MT5 for every pod on the bus                    *)
(* (backend/internal/realtime/poller.go) and the Postgres session lock     *)
(* that elects the one that does (timescale/store.go TryLock).             *)
(*                                                                         *)
(* A pod's demand heartbeat refreshes an entry; an entry not refreshed for *)
(* the demand's time to live is stale.  A frame is a version of the        *)
(* upstream data, Null when the dispatch failed.                           *)
(***************************************************************************)
EXTENDS Integers, FiniteSets

CONSTANTS
  Pollers,
  NoPoller,       \* the lock is free
  MaxDrops        \* bound on lock sessions the database ends under their holder

ASSUME PollerAssumption == NoPoller \notin Pollers /\ MaxDrops \in Nat

VARIABLES
  running,    \* processes that have started and not ended
  retiring,   \* those asked to shut down: their ctx is done
  active,     \* those whose p.active is set
  lock,       \* whose session holds PollerLockKey
  drops,      \* sessions the database ended under their holder (history)
  demand,     \* poller -> keys in p.demand
  stale,      \* poller -> those of them past the time to live
  todo,       \* poller -> keys of this round still to dispatch
  outgoing    \* poller -> the dispatched frame to publish: {} or {[key, frame]}

pollerVars == <<running, retiring, active, lock, drops, demand, stale, todo, outgoing>>

\* Start: a process begins with no demand and no leadership.
Start(q) ==
  /\ q \notin running
  /\ running' = running \cup {q}
  /\ UNCHANGED <<retiring, active, lock, drops, demand, stale, todo, outgoing>>

LeadSilently(q) ==
  /\ q \in running \ (retiring \cup active)
  /\ lock = NoPoller
  /\ lock' = q
  /\ UNCHANGED <<running, retiring, active, drops, demand, stale, todo, outgoing>>

LeadUnchecked(q) ==
  /\ q \in running \ (retiring \cup active)
  /\ lock' = q
  /\ active' = active \cup {q}
  /\ UNCHANGED <<running, retiring, drops, demand, stale, todo, outgoing>>

\* maintainLeadership: TryLock succeeds.  The leader never asks again.
Lead(q) ==
  /\ q \in running \ (retiring \cup active)
  /\ lock = NoPoller
  /\ lock' = q
  /\ active' = active \cup {q}
  /\ UNCHANGED <<running, retiring, drops, demand, stale, todo, outgoing>>

\* onDemand.
HearDemand(q, k) ==
  /\ q \in running
  /\ k \notin demand[q] \/ k \in stale[q]
  /\ demand' = [demand EXCEPT ![q] = @ \cup {k}]
  /\ stale' = [stale EXCEPT ![q] = @ \ {k}]
  /\ UNCHANGED <<running, retiring, active, lock, drops, todo, outgoing>>

\* The time to live passes without a heartbeat.
GoStale(q, k) ==
  /\ q \in running /\ k \in demand[q] \ stale[q]
  /\ stale' = [stale EXCEPT ![q] = @ \cup {k}]
  /\ UNCHANGED <<running, retiring, active, lock, drops, demand, todo, outgoing>>

\* A tick of the loop, between two rounds.
Tick(q) ==
  /\ q \in running \cap active
  /\ todo[q] = {} /\ outgoing[q] = {}

\* snapshot: what is stale goes, the rest is this round.
Snapshot(q) ==
  /\ Tick(q)
  /\ demand[q] # {}
  /\ todo' = [todo EXCEPT ![q] = demand[q] \ stale[q]]
  /\ demand' = [demand EXCEPT ![q] = @ \ stale[q]]
  /\ stale' = [stale EXCEPT ![q] = {}]
  /\ UNCHANGED <<running, retiring, active, lock, drops, outgoing>>

Dispatch(q, k, frame) ==
  /\ q \in running /\ k \in todo[q] /\ outgoing[q] = {}
  /\ todo' = [todo EXCEPT ![q] = @ \ {k}]
  /\ outgoing' = [outgoing EXCEPT ![q] = {[key |-> k, frame |-> frame]}]
  /\ UNCHANGED <<running, retiring, active, lock, drops, demand, stale>>

\* bus.Publish returns, whether or not the frame arrives anywhere.
Published(q, m) ==
  /\ q \in running /\ m \in outgoing[q]
  /\ outgoing' = [outgoing EXCEPT ![q] = {}]
  /\ UNCHANGED <<running, retiring, active, lock, drops, demand, stale, todo>>

\* The holder's lock is let go.
Freed(q) == IF lock = q THEN NoPoller ELSE lock

\* The process is gone with everything it knew.
Gone(q) ==
  /\ q \in running
  /\ UNCHANGED drops
  /\ running' = running \ {q} /\ retiring' = retiring \ {q}
  /\ active' = active \ {q}
  /\ demand' = [demand EXCEPT ![q] = {}]
  /\ stale' = [stale EXCEPT ![q] = {}]
  /\ todo' = [todo EXCEPT ![q] = {}]
  /\ outgoing' = [outgoing EXCEPT ![q] = {}]

\* The lock is released at once; the loop may still be in a round, and may see
\* another tick before it sees that it is to stop.
Retire(q) ==
  /\ q \in running \ retiring
  /\ retiring' = retiring \cup {q}
  /\ lock' = Freed(q)
  /\ UNCHANGED <<running, active, drops, demand, stale, todo, outgoing>>

End(q) == q \in retiring /\ Gone(q) /\ UNCHANGED lock

\* Its database session ends with it.
Crash(q) == Gone(q) /\ lock' = Freed(q)

\* The server ends the session of a holder that runs on: a failover, a severed
\* connection.
DropLock(q) ==
  /\ lock = q /\ drops < MaxDrops
  /\ lock' = NoPoller
  /\ drops' = drops + 1
  /\ UNCHANGED <<running, retiring, active, demand, stale, todo, outgoing>>

PollerInit ==
  /\ running = {} /\ retiring = {} /\ active = {} /\ lock = NoPoller /\ drops = 0
  /\ demand = [q \in Pollers |-> {}]
  /\ stale = [q \in Pollers |-> {}]
  /\ todo = [q \in Pollers |-> {}]
  /\ outgoing = [q \in Pollers |-> {}]

\* Each further active poller answers for a lock session that the database ended:
\* no crash, shutdown or election makes two (TryLock, maintainLeadership).
OnePollerPerSession == Cardinality(active \ retiring) <= 1 + drops
=============================================================================
