------------------------------ MODULE HttpReads ------------------------------
(***************************************************************************)
(* The reads of the web terminal's HTTP client: identical GETs share one   *)
(* request, which is retried, times out, and is aborted when everyone who  *)
(* waits for it has gone.                                                  *)
(* (frontend/src/integrations/gateway/api/http-client.ts.)                 *)
(*                                                                         *)
(* What the gateway answers, and the session that a refusal ends, are in   *)
(* TerminalSession.                                                        *)
(***************************************************************************)
EXTENDS Naturals, FiniteSets

CONSTANTS
  Callers, Urls,
  MaxTries,   \* attempts of one request, retries included
  MaxRequests    \* bound: requests made

ASSUME ReadAssumption == IsFiniteSet(Callers) /\ MaxTries \in Nat /\ MaxRequests \in Nat

VARIABLES
  shared,  \* sequence number -> [url, waiters, aborted, phase, attempt, answer]
  inflight,  \* url -> the number of the request that can be joined, or None
  calls      \* caller -> [phase, on, aborted, told]

readVars == <<shared, inflight, calls>>

NoRequest == 0
Numbers == 1..MaxRequests
Unmade == [url |-> "none", waiters |-> 0, aborted |-> FALSE, phase |-> "unmade", attempt |-> 0, answer |-> "none"]
Quiet == [phase |-> "idle", on |-> NoRequest, aborted |-> FALSE, told |-> "none"]

NextNumber == Cardinality({n \in Numbers : shared[n].phase # "unmade"}) + 1

----------------------------------------------------------------------------

\* mutant: a request that everyone has left can still be joined
JoinableWhileListed(u) == inflight[u] # NoRequest

\* A request that is aborted stays listed until its callbacks have run.
Joinable(u) == inflight[u] # NoRequest /\ ~shared[inflight[u]].aborted

Ask(c, u) ==
  /\ calls[c].phase = "idle"
  /\ IF Joinable(u)
     THEN /\ calls' = [calls EXCEPT ![c] = [Quiet EXCEPT !.phase = "waiting", !.on = inflight[u]]]
          /\ shared' = [shared EXCEPT ![inflight[u]].waiters = @ + 1]
          /\ UNCHANGED inflight
     ELSE /\ NextNumber \in Numbers
          /\ calls' = [calls EXCEPT ![c] = [Quiet EXCEPT !.phase = "waiting", !.on = NextNumber]]
          /\ shared' = [shared EXCEPT ![NextNumber] =
               [url |-> u, waiters |-> 1, aborted |-> FALSE, phase |-> "fetching", attempt |-> 1, answer |-> "none"]]
          /\ inflight' = [inflight EXCEPT ![u] = NextNumber]

\* onAbort: the caller still waits for the shared promise.  Once the response has come the
\* signal no longer reaches it.
AbortCall(c) ==
  LET n == calls[c].on IN
  /\ calls[c].phase = "waiting" /\ ~calls[c].aborted
  /\ calls' = [calls EXCEPT ![c].aborted = TRUE]
  /\ LET r == shared[n]
         left == [r EXCEPT !.waiters = @ - 1, !.aborted = @ \/ r.waiters = 1]
         dies == r.waiters = 1 /\ r.phase \in {"fetching", "backoff"} IN
     shared' = [shared EXCEPT ![n] =
       IF dies THEN [left EXCEPT !.phase = "settled", !.answer = "canceled"] ELSE left]
  /\ UNCHANGED inflight

\* Not for an answer that will stay the same; a backoff of a request that was left ends at once.
RetryOr(n, failure) ==
  LET r == shared[n] IN
  shared' = [shared EXCEPT ![n] =
    CASE r.attempt = MaxTries -> [r EXCEPT !.phase = "settled", !.answer = failure]
      [] r.attempt # MaxTries /\ r.aborted -> [r EXCEPT !.phase = "settled", !.answer = "canceled"]
      [] OTHER -> [r EXCEPT !.phase = "backoff"]]

\* A fetch that has no response in time or meets no network.
FetchFails(n) ==
  /\ shared[n].phase = "fetching"
  /\ RetryOr(n, "failed")
  /\ UNCHANGED <<inflight, calls>>

\* The timeout and the signal are let go before the body is read: nothing at the client ends a
\* body that stalls.
ResponseComes(n) ==
  /\ shared[n].phase = "fetching"
  /\ shared' = [shared EXCEPT ![n].phase = "body"]
  /\ UNCHANGED <<inflight, calls>>

\* An answer, or a refusal that is not retried.
BodyComes(n) ==
  /\ shared[n].phase = "body"
  /\ shared' = [shared EXCEPT ![n].phase = "settled", ![n].answer = "answered"]
  /\ UNCHANGED <<inflight, calls>>

\* A gateway that is unavailable.
ServerErrs(n) ==
  /\ shared[n].phase = "body"
  /\ RetryOr(n, "failed")
  /\ UNCHANGED <<inflight, calls>>

\* mutant: the attempts are not counted
BackoffEndsUncounted(n) ==
  /\ shared[n].phase = "backoff"
  /\ shared' = [shared EXCEPT ![n].phase = "fetching"]
  /\ UNCHANGED <<inflight, calls>>

BackoffEnds(n) ==
  /\ shared[n].phase = "backoff"
  /\ shared' = [shared EXCEPT ![n].phase = "fetching", ![n].attempt = @ + 1]
  /\ UNCHANGED <<inflight, calls>>

\* The callbacks of the promise: the entry is taken off the list if it is still its own.
Deliver(n) ==
  LET r == shared[n] IN
  /\ r.phase = "settled"
  /\ shared' = [shared EXCEPT ![n].phase = "over"]
  /\ inflight' = [inflight EXCEPT ![r.url] = IF @ = n THEN NoRequest ELSE @]
  /\ calls' = [c \in Callers |-> IF calls[c].phase = "waiting" /\ calls[c].on = n
                                 THEN [calls[c] EXCEPT !.phase = "done", !.told = r.answer] ELSE calls[c]]

\* A component that is mounted again asks again.
AskAnew(c) ==
  /\ calls[c].phase = "done"
  /\ calls' = [calls EXCEPT ![c] = Quiet]
  /\ UNCHANGED <<shared, inflight>>

----------------------------------------------------------------------------

ReadInit ==
  /\ shared = [n \in Numbers |-> Unmade]
  /\ inflight = [u \in Urls |-> NoRequest]
  /\ calls = [c \in Callers |-> Quiet]

Progress(n) == FetchFails(n) \/ ResponseComes(n) \/ BodyComes(n) \/ ServerErrs(n) \/ BackoffEnds(n) \/ Deliver(n)

ReadNext ==
  \/ \E c \in Callers : AbortCall(c) \/ AskAnew(c) \/ \E u \in Urls : Ask(c, u)
  \/ \E n \in Numbers : Progress(n)

\* What the client ends by itself: the timeout a fetch, a timer the backoff, and callbacks run.
\* Nothing is assumed of a body that began to come.
ReadFairness == \A n \in Numbers :
  /\ WF_readVars(FetchFails(n) \/ ResponseComes(n))
  /\ WF_readVars(BackoffEnds(n))
  /\ WF_readVars(Deliver(n))

ReadSpec == ReadInit /\ [][ReadNext]_readVars /\ ReadFairness

----------------------------------------------------------------------------
\* Properties.

\* A caller is told that its read was canceled only if it left it itself, whoever else waited
\* for the same request and left, however late its callbacks run; and at most one request that
\* somebody waits for is out for a URL (http-client.ts:131).
OthersDoNotCancel ==
  /\ \A c \in Callers : calls[c].told = "canceled" => calls[c].aborted
  /\ \A m, n \in Numbers :
       /\ m # n /\ shared[m].url = shared[n].url
       /\ {shared[m].phase, shared[n].phase} \subseteq {"fetching", "body", "backoff"}
       => shared[m].aborted \/ shared[n].aborted

\* Every read ends, through retries, timeouts and the departures of others, unless it waits for
\* ever on a response whose body has stalled (http-client.ts:257-262), as does whoever joins it.
Stalled(c) == calls[c].phase = "waiting" /\ shared[calls[c].on].phase = "body"
ReadsEnd == \A c \in Callers :
  calls[c].phase = "waiting" ~> (calls[c].phase = "done" \/ []Stalled(c))

=============================================================================
