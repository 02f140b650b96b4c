-------------------------- MODULE TradeSubmission --------------------------
(***************************************************************************)
(* A trade submission on its way through the gateway                       *)
(* (backend/internal/domain/trade.go, SendRequestWithKey), with the store  *)
(* that remembers submissions by the client's key                          *)
(* (domain/idempotency.go, cache/idempotency.go).                          *)
(*                                                                         *)
(* A call is one HTTP request.  A client that lost patience repeats its    *)
(* submission in another call with the same key, perhaps on another        *)
(* replica; the calls of a key interleave between any two store accesses.  *)
(* The dealer behind MT5 is the environment: it takes a POST and settles   *)
(* it in its own time.                                                     *)
(*                                                                         *)
(* A key's window is the time its entry is remembered (IdempotencyTTL);    *)
(* windows are numbered so that a submission is compared only with those   *)
(* of its own window.                                                      *)
(***************************************************************************)
EXTENDS Integers

CONSTANTS
  Calls,        \* HTTP requests, each made once
  Keys,         \* client keys, scoped to one account (scopedIdempotencyKey)
  NoKey,        \* a call without a key
  Replicas,     \* gateway processes
  Stores,       \* idempotency stores
  StoreOf,      \* replica -> the store it uses
  Remote,       \* stores that are Redis; the others live in their replica
  Flaky,        \* a remote store may fail
  Restartable,  \* replicas that restart
  MaxWindow     \* bound: windows of a key

ASSUME SubmissionAssumption ==
  /\ NoKey \notin Keys
  /\ StoreOf \in [Replicas -> Stores]
  /\ Remote \subseteq Stores
  /\ \A r, t \in Replicas : StoreOf[r] = StoreOf[t] /\ StoreOf[r] \notin Remote => r = t
  /\ Flaky \in BOOLEAN
  /\ Restartable \subseteq Replicas
  /\ MaxWindow \in Nat

VARIABLES
  pc,        \* call -> where its handler is
  key,       \* call -> its key
  replica,   \* call -> the replica handling it
  during,    \* call -> the window of its key it was made in
  gone,      \* call -> its client has hung up (the request context is cancelled)
  answer,    \* call -> outcome of the response
  replayed,  \* call -> the response came from the store
  dealer,    \* call -> what the dealer has made of its POST
  entry,     \* store -> key -> what the store remembers
  window     \* store -> key -> the window running

callVars == <<pc, key, replica, during, gone, answer, replayed>>
vars == <<callVars, dealer, entry, window>>

\* Outcomes submit() can answer: "failed" is toEnvelope's failure, which states none.
Results == {"accepted", "rejected", "unknown", "failed"}
Answers == Results \cup {"none", "not_submitted", "dropped"}
Verdicts == {"accepted", "rejected"}

Store(c) == StoreOf[replica[c]]
Entry(c) == entry[Store(c)][key[c]]
Remember(c, what) == entry' = [entry EXCEPT ![Store(c)][key[c]] = what]

\* A store call fails in an outage, or because the request it serves is gone; the
\* store in the replica's memory never does.
MayFail(c) == Store(c) \in Remote /\ (Flaky \/ gone[c])
MustFail(c) == Store(c) \in Remote /\ gone[c]

Goto(c, where) == pc' = [pc EXCEPT ![c] = where]
Answer(c, what) == Goto(c, "done") /\ answer' = [answer EXCEPT ![c] = what]

-----------------------------------------------------------------------------
(* The handler of a call, from one store or network access to the next *)

\* The request arrives; without a key it is submitted straight away.
Arrive(c, k, r) ==
  /\ pc[c] = "idle"
  /\ Goto(c, IF k = NoKey THEN "post" ELSE "load")
  /\ key' = [key EXCEPT ![c] = k]
  /\ replica' = [replica EXCEPT ![c] = r]
  /\ during' = [during EXCEPT ![c] = IF k = NoKey THEN 0 ELSE window[StoreOf[r]][k]]
  /\ UNCHANGED <<gone, answer, replayed, dealer, entry, window>>

\* Load: a result is replayed; no result, a claim in flight and an error all lead
\* on to the claim.
Replay(c) ==
  /\ Entry(c) \in Results /\ ~MustFail(c)
  /\ Answer(c, Entry(c))
  /\ replayed' = [replayed EXCEPT ![c] = TRUE]
  /\ UNCHANGED <<key, replica, during, gone, dealer, entry, window>>

LoadHit(c) == pc[c] = "load" /\ Replay(c)

LoadMiss(c) ==
  /\ pc[c] = "load"
  /\ Entry(c) \notin Results \/ MayFail(c)
  /\ Goto(c, "claim")
  /\ UNCHANGED <<key, replica, during, gone, answer, replayed, dealer, entry, window>>

ClaimWonUnchecked(c) ==
  /\ pc[c] = "claim" /\ ~MustFail(c)
  /\ Entry(c) \notin Results
  /\ Goto(c, "post")
  /\ Remember(c, "inflight")
  /\ UNCHANGED <<key, replica, during, gone, answer, replayed, dealer, window>>

\* Claim: SET NX.
ClaimWon(c) ==
  /\ pc[c] = "claim" /\ ~MustFail(c)
  /\ Entry(c) = "none"
  /\ Goto(c, "post")
  /\ Remember(c, "inflight")
  /\ UNCHANGED <<key, replica, during, gone, answer, replayed, dealer, window>>

ClaimTaken(c) ==
  /\ pc[c] = "claim" /\ ~MustFail(c)
  /\ Entry(c) # "none"
  /\ Goto(c, "wait")
  /\ UNCHANGED <<key, replica, during, gone, answer, replayed, dealer, entry, window>>

\* The store is unavailable: refuse.  A SET NX whose answer was lost has claimed
\* the key all the same.
ClaimErrs(c) ==
  /\ pc[c] = "claim" /\ MayFail(c)
  /\ Answer(c, "not_submitted")
  /\ \/ UNCHANGED entry
     \/ Entry(c) = "none" /\ Remember(c, "inflight")
  /\ UNCHANGED <<key, replica, during, gone, replayed, dealer, window>>

\* awaitResult.
AwaitHit(c) == pc[c] = "wait" /\ ~gone[c] /\ Replay(c)

AwaitOverUnclaimed(c) ==
  /\ pc[c] = "wait" /\ Entry(c) # "inflight"
  /\ Answer(c, "unknown")
  /\ UNCHANGED <<key, replica, during, gone, replayed, dealer, entry, window>>

\* The wait is bounded, whatever became of the submission that holds the claim.
AwaitOver(c) ==
  /\ pc[c] = "wait"
  /\ Answer(c, "unknown")
  /\ UNCHANGED <<key, replica, during, gone, replayed, dealer, entry, window>>

-----------------------------------------------------------------------------
(* submit *)

\* submit answers; a call with a key stores the result first.
Submitted(c, result) ==
  /\ answer' = [answer EXCEPT ![c] = result]
  /\ Goto(c, IF key[c] = NoKey THEN "done" ELSE "store")

\* fetchPost fails and nothing reached MT5: the breaker is open, the handshake or
\* the connection failed, the request context is cancelled.
PostRefused(c) ==
  /\ pc[c] = "post"
  /\ Submitted(c, "failed")
  /\ UNCHANGED <<key, replica, during, gone, replayed, dealer, entry, window>>

\* The POST reaches the dealer ...
Sent(c, state) ==
  /\ pc[c] = "post" /\ ~gone[c]
  /\ dealer' = [dealer EXCEPT ![c] = state]
  /\ UNCHANGED <<key, replica, during, gone, replayed, entry, window>>

\* ... and its response is lost, is an error status, or is empty (conn.do).
SentLost(c) == Sent(c, "pending") /\ Submitted(c, "failed")

\* ... and its response cannot be parsed or carries no request id.
SentUnread(c) == Sent(c, "pending") /\ Submitted(c, "unknown")

\* ... and is refused on the spot: a retcode and no request id.
SentRejected(c) == Sent(c, "rejected") /\ Submitted(c, "rejected")

\* ... and is answered with a request id to poll.
SentPolled(c) == Sent(c, "pending") /\ Goto(c, "poll") /\ UNCHANGED answer

\* getRequestResult: the dealer's verdict is there to read.
PollReady(c) ==
  /\ pc[c] = "poll" /\ ~gone[c]
  /\ dealer[c] \in Verdicts
  /\ Submitted(c, dealer[c])
  /\ UNCHANGED <<key, replica, during, gone, replayed, dealer, entry, window>>

PollOverRejected(c) ==
  /\ pc[c] = "poll"
  /\ Submitted(c, "rejected")
  /\ UNCHANGED <<key, replica, during, gone, replayed, dealer, entry, window>>

\* The poll budget is spent, the answer has no recognised shape, or the caller is
\* gone.
PollOver(c) ==
  /\ pc[c] = "poll"
  /\ Submitted(c, "unknown")
  /\ UNCHANGED <<key, replica, during, gone, replayed, dealer, entry, window>>

StoreResultAsUnknown(c) ==
  /\ pc[c] = "store"
  /\ Goto(c, "done")
  /\ \/ ~MustFail(c) /\ Remember(c, "unknown")
     \/ MayFail(c) /\ UNCHANGED entry
  /\ UNCHANGED <<key, replica, during, gone, answer, replayed, dealer, window>>

\* Store; its error is ignored and the claim stays until the window ends.
StoreResult(c) ==
  /\ pc[c] = "store"
  /\ Goto(c, "done")
  /\ \/ ~MustFail(c) /\ Remember(c, answer[c])
     \/ MayFail(c) /\ UNCHANGED entry
  /\ UNCHANGED <<key, replica, during, gone, answer, replayed, dealer, window>>

-----------------------------------------------------------------------------
(* The environment *)

Running(c) == pc[c] \notin {"idle", "done"}

\* The client times out or disconnects.
ClientLeaves(c) ==
  /\ Running(c) /\ ~gone[c]
  /\ gone' = [gone EXCEPT ![c] = TRUE]
  /\ UNCHANGED <<pc, key, replica, during, answer, replayed, dealer, entry, window>>

\* The dealer settles a request; nobody owes it an answer.
DealerSettles(c) ==
  /\ dealer[c] = "pending"
  /\ \E v \in Verdicts : dealer' = [dealer EXCEPT ![c] = v]
  /\ UNCHANGED <<callVars, entry, window>>

\* The entry's time is up.  A submission ends long before (an HTTP timeout and a
\* poll budget of seconds against a window of minutes).
Expire(s, k) ==
  /\ entry[s][k] # "none"
  /\ \A c \in Calls : Running(c) /\ key[c] = k => Store(c) # s
  /\ window[s][k] < MaxWindow
  /\ entry' = [entry EXCEPT ![s][k] = "none"]
  /\ window' = [window EXCEPT ![s][k] = @ + 1]
  /\ UNCHANGED <<callVars, dealer>>

\* A replica restarts: its calls break off, and the store in its memory is empty.
Restart(r) ==
  /\ LET s == StoreOf[r]
         lost(c) == Running(c) /\ replica[c] = r
     IN  /\ s \notin Remote => \A k \in Keys : window[s][k] < MaxWindow
         /\ pc' = [c \in Calls |-> IF lost(c) THEN "done" ELSE pc[c]]
         /\ answer' = [c \in Calls |-> IF lost(c) THEN "dropped" ELSE answer[c]]
         /\ IF s \in Remote THEN UNCHANGED <<entry, window>>
            ELSE /\ entry' = [entry EXCEPT ![s] = [k \in Keys |-> "none"]]
                 /\ window' = [window EXCEPT ![s] = [k \in Keys |-> @[k] + 1]]
  /\ UNCHANGED <<key, replica, during, gone, replayed, dealer>>

-----------------------------------------------------------------------------
Init ==
  /\ pc = [c \in Calls |-> "idle"]
  /\ key = [c \in Calls |-> NoKey]
  /\ replica \in [Calls -> Replicas]
  /\ during = [c \in Calls |-> 0]
  /\ gone = [c \in Calls |-> FALSE]
  /\ answer = [c \in Calls |-> "none"]
  /\ replayed = [c \in Calls |-> FALSE]
  /\ dealer = [c \in Calls |-> "none"]
  /\ entry = [s \in Stores |-> [k \in Keys |-> "none"]]
  /\ window = [s \in Stores |-> [k \in Keys |-> 1]]

Submit(c) ==
  \/ PostRefused(c) \/ SentLost(c) \/ SentUnread(c) \/ SentRejected(c)
  \/ SentPolled(c) \/ PollReady(c) \/ PollOver(c)

Handle(c) ==
  \/ LoadHit(c) \/ LoadMiss(c)
  \/ ClaimWon(c) \/ ClaimTaken(c) \/ ClaimErrs(c)
  \/ AwaitHit(c) \/ AwaitOver(c)
  \/ Submit(c) \/ StoreResult(c)

Environment ==
  \/ \E c \in Calls : ClientLeaves(c) \/ DealerSettles(c)
  \/ \E s \in Stores, k \in Keys : Expire(s, k)
  \/ \E r \in Restartable : Restart(r)

Next ==
  \/ \E c \in Calls : \E k \in Keys \cup {NoKey}, r \in Replicas : Arrive(c, k, r)
  \/ \E c \in Calls : Handle(c)
  \/ Environment

Spec == Init /\ [][Next]_vars

\* A handler always moves on: its network calls time out and its waits are bounded.
FairSpec == Spec /\ \A c \in Calls : WF_vars(Handle(c))
=============================================================================
