--------------------- MODULE TradeSubmissionProperties ---------------------
(***************************************************************************)
(* What a client that repeats its submissions may rely on.                 *)
(***************************************************************************)
EXTENDS TradeSubmission

\* Types of the calls, the dealer and the stores (TradeService, IdempotencyStore).
TypeOK ==
  /\ pc \in [Calls -> {"idle", "load", "claim", "wait", "post", "poll", "store", "done"}]
  /\ key \in [Calls -> Keys \cup {NoKey}]
  /\ replica \in [Calls -> Replicas]
  /\ during \in [Calls -> Nat]
  /\ gone \in [Calls -> BOOLEAN]
  /\ answer \in [Calls -> Answers]
  /\ replayed \in [Calls -> BOOLEAN]
  /\ dealer \in [Calls -> {"none", "pending"} \cup Verdicts]
  /\ entry \in [Stores -> [Keys -> {"none", "inflight"} \cup Results]]
  /\ window \in [Stores -> [Keys -> Nat]]

\* Two calls of one submission: the same key at the same store in the same window.
Same(c, d) == /\ key[c] # NoKey /\ key[c] = key[d]
              /\ Store(c) = Store(d) /\ during[c] = during[d]

AtDealer(c) == dealer[c] # "none"

\* However a submission is repeated, interleaved, abandoned or cut off by an
\* outage or a restart, the dealer gets it at most once in a window
\* (SendRequestWithKey, "never reaches the dealer again").
OnceAtDealer ==
  \A c, d \in Calls : Same(c, d) /\ AtDealer(c) /\ AtDealer(d) => c = d

\* A call may submit, or has.
Owner(c) == /\ key[c] # NoKey
            /\ pc[c] \in {"post", "poll", "store"} \/ AtDealer(c)

Current(c) == key[c] # NoKey /\ during[c] = window[Store(c)][key[c]]

\* A call never outlives the window it was made in.
WindowsOK ==
  \A c \in Calls :
    key[c] # NoKey => /\ during[c] <= window[Store(c)][key[c]]
                      /\ Running(c) => Current(c)

\* What a handler has done is where its pc says.
PhasesOK ==
  \A c \in Calls :
    /\ pc[c] = "idle" => key[c] = NoKey
    /\ pc[c] \in {"idle", "load", "claim", "wait", "post"} => ~AtDealer(c)
    /\ pc[c] \in {"load", "claim", "wait", "store"} => key[c] # NoKey
    /\ pc[c] = "store" => answer[c] \in Results

\* Whoever may submit holds the claim of its window ...
ClaimHeld == \A c \in Calls : Owner(c) /\ Current(c) => Entry(c) # "none"

\* ... and is the only one.
OneOwner == \A c, d \in Calls : Same(c, d) /\ Owner(c) /\ Owner(d) => c = d

\* OnceAtDealer made inductive.
ClaimInv == TypeOK /\ WindowsOK /\ PhasesOK /\ ClaimHeld /\ OneOwner

\* A verdict is the dealer's own, on this very submission, whichever call of it is
\* answered (submit, decodeStoredEnvelope).
VerdictsAreTheDealers ==
  \A c \in Calls :
    answer[c] \in Verdicts =>
      \E d \in Calls : /\ d = c \/ Same(c, d)
                       /\ dealer[d] = answer[c]

\* A replay repeats what the submission itself was answered, to the word
\* (decodeStoredEnvelope, "replayed verbatim").
ReplaysAreOriginal ==
  \A c \in Calls :
    replayed[c] => \E d \in Calls : Same(c, d) /\ ~replayed[d] /\ answer[d] = answer[c]

\* Every call is answered, also one that waits for a submission that never stores
\* its result (awaitResult's bound).
EveryCallAnswered == \A c \in Calls : Running(c) ~> pc[c] = "done"
=============================================================================
