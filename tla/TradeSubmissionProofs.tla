----------------------- MODULE TradeSubmissionProofs -----------------------
(***************************************************************************)
(* No submission reaches the dealer twice in a window, and a client that   *)
(* repeats one is told what its first call was, for any number of calls,   *)
(* keys, replicas and stores.                                              *)
(***************************************************************************)
EXTENDS TradeSubmissionProperties, TLAPS

USE SubmissionAssumption

LEMMA InitInv == Init => ClaimInv
BY DEF Init, ClaimInv, TypeOK, WindowsOK, PhasesOK, ClaimHeld, OneOwner, Same,
       Owner, Running, AtDealer, Current, Store, Entry, Answers, Results, Verdicts

\* A handler's step touches its own call and, at most, its own entry.
Touches(c) ==
  /\ \A d \in Calls \ {c} : /\ pc'[d] = pc[d] /\ answer'[d] = answer[d]
                            /\ dealer'[d] = dealer[d] /\ replayed'[d] = replayed[d]
  /\ UNCHANGED <<key, replica, during, gone, window>>

\* What a handler's step may do as far as the claim goes: take a free one, drop
\* nothing, and submit only from where it held it.
Disciplined(c) ==
  /\ Touches(c)
  /\ Running(c)
  /\ \A s \in Stores, k \in Keys :
       \/ entry'[s][k] = entry[s][k]
       \/ s = Store(c) /\ k = key[c] /\ entry'[s][k] # "none"
  /\ Owner(c)' => Owner(c) \/ key[c] = NoKey \/ (Entry(c) = "none" /\ Entry(c)' # "none")

LEMMA HandleDisciplined ==
  ASSUME ClaimInv, NEW c \in Calls, Handle(c)
  PROVE  TypeOK' /\ PhasesOK' /\ Disciplined(c)
<1> USE DEF ClaimInv, TypeOK, PhasesOK, Disciplined, Touches, Owner, AtDealer, Running,
            Store, Entry, Remember, Goto, Answer, Answers, Results, Verdicts
<1>1. CASE LoadHit(c)
  BY <1>1 DEF LoadHit, Replay
<1>2. CASE LoadMiss(c)
  BY <1>2 DEF LoadMiss
<1>3. CASE ClaimWon(c)
  BY <1>3 DEF ClaimWon
<1>4. CASE ClaimTaken(c)
  BY <1>4 DEF ClaimTaken
<1>5. CASE ClaimErrs(c)
  <2>1. CASE UNCHANGED entry
    BY <1>5, <2>1 DEF ClaimErrs
  <2>2. CASE Remember(c, "inflight")
    BY <1>5, <2>2 DEF ClaimErrs
  <2>3. QED
    BY <1>5, <2>1, <2>2 DEF ClaimErrs
<1>6. CASE AwaitHit(c)
  BY <1>6 DEF AwaitHit, Replay
<1>7. CASE AwaitOver(c)
  BY <1>7 DEF AwaitOver
<1>8. CASE PostRefused(c) \/ PollReady(c) \/ PollOver(c)
  <2>1. CASE PostRefused(c)
    BY <2>1 DEF PostRefused, Submitted
  <2>2. CASE PollReady(c) \/ PollOver(c)
    BY <2>2, ZenonT(40) DEF PollReady, PollOver, Submitted
  <2>3. QED
    BY <1>8, <2>1, <2>2
<1>9. CASE SentLost(c) \/ SentUnread(c) \/ SentRejected(c) \/ SentPolled(c)
  <2>1. CASE SentLost(c) \/ SentUnread(c)
    BY <2>1, ZenonT(40) DEF SentLost, SentUnread, Sent, Submitted
  <2>2. CASE SentRejected(c) \/ SentPolled(c)
    BY <2>2, ZenonT(40) DEF SentRejected, SentPolled, Sent, Submitted
  <2>3. QED
    BY <1>9, <2>1, <2>2
<1>10. CASE StoreResult(c)
  <2>1. CASE UNCHANGED entry
    BY <1>10, <2>1 DEF StoreResult
  <2>2. CASE Remember(c, answer[c])
    BY <1>10, <2>2 DEF StoreResult
  <2>3. QED
    BY <1>10, <2>1, <2>2 DEF StoreResult
<1>11. QED
  BY ONLY Handle(c), <1>1, <1>2, <1>3, <1>4, <1>5, <1>6, <1>7, <1>8, <1>9, <1>10
     DEF Handle, Submit

\* Steps that keep a call's key, store, window and ownership keep the rest.
LEMMA HandleKeeps ==
  ASSUME ClaimInv, NEW c \in Calls, TypeOK', PhasesOK', Disciplined(c)
  PROVE  ClaimInv'
<1> USE DEF Disciplined, Touches
<1>0. TypeOK /\ WindowsOK /\ PhasesOK /\ ClaimHeld /\ OneOwner
  BY DEF ClaimInv
<1>1. \A d \in Calls : /\ key'[d] = key[d] /\ Store(d)' = Store(d)
                       /\ during'[d] = during[d] /\ Current(d)' = Current(d)
                       /\ Running(d)' => Running(d)
  BY <1>0 DEF TypeOK, Store, Current, Running
<1>2. WindowsOK'
  BY <1>0, <1>1 DEF WindowsOK, TypeOK, Store
<1>3. \A d \in Calls \ {c} : Owner(d)' = Owner(d)
  BY <1>0, <1>1 DEF Owner, AtDealer
<1>4. \A d \in Calls : Store(d) \in Stores /\ (key[d] # NoKey => key[d] \in Keys)
  BY <1>0 DEF TypeOK, Store
<1>5. \A d \in Calls : key[d] # NoKey /\ Entry(d) # "none" => Entry(d)' # "none"
  BY <1>1, <1>4 DEF Entry
<1>6. key[c] # NoKey => Current(c)
  BY <1>0 DEF WindowsOK
<1>7. Owner(c)' => Owner(c) \/ (Entry(c) = "none" /\ Entry(c)' # "none")
  BY <1>1 DEF Owner
<1>8. ClaimHeld'
  <2> SUFFICES ASSUME NEW d \in Calls, Owner(d)', Current(d)' PROVE Entry(d)' # "none"
    BY DEF ClaimHeld
  <2>1. CASE Owner(d)
    BY <2>1, <1>0, <1>1, <1>5 DEF ClaimHeld, Owner
  <2>2. CASE ~Owner(d)
    BY <2>2, <1>3, <1>7
  <2>3. QED
    BY <2>1, <2>2
<1>9. OneOwner'
  <2> SUFFICES ASSUME NEW d \in Calls, NEW e \in Calls, Same(d, e)', Owner(d)', Owner(e)'
               PROVE  d = e
    BY DEF OneOwner
  <2>1. Same(d, e) /\ Same(e, d)
    BY <1>1 DEF Same
  <2>2. CASE Owner(d) /\ Owner(e)
    BY <2>1, <2>2, <1>0 DEF OneOwner
  <2>3. ASSUME NEW a \in {d, e}, NEW b \in {d, e}, Owner(a), ~Owner(b), Owner(b)' PROVE FALSE
    <3>1. b = c /\ Entry(c) = "none"
      BY <2>3, <1>3, <1>7
    <3>2. Same(a, c) \/ a = c
      BY <3>1, <2>1
    <3>3. key[c] # NoKey /\ Current(c)
      BY <3>1, <2>3, <1>6, <1>1 DEF Owner
    <3>4. Current(a) /\ Entry(a) = Entry(c)
      BY <3>2, <3>3 DEF Same, Current, Entry
    <3>5. QED
      BY <3>1, <3>4, <2>3, <1>0 DEF ClaimHeld
  <2>4. CASE ~Owner(d) /\ ~Owner(e)
    BY <2>4, <1>3
  <2>5. QED
    BY <2>2, <2>3, <2>4
<1>10. QED
  BY <1>2, <1>8, <1>9 DEF ClaimInv

LEMMA ArriveKeeps ==
  ASSUME ClaimInv, NEW c \in Calls, NEW k \in Keys \cup {NoKey}, NEW r \in Replicas,
         Arrive(c, k, r)
  PROVE  ClaimInv'
<1>0. TypeOK /\ WindowsOK /\ PhasesOK /\ ClaimHeld /\ OneOwner
  BY DEF ClaimInv
<1>1. TypeOK'
  BY <1>0 DEF Arrive, TypeOK, Goto
<1>2. \A d \in Calls \ {c} :
        /\ key'[d] = key[d] /\ replica'[d] = replica[d] /\ during'[d] = during[d]
        /\ pc'[d] = pc[d] /\ answer'[d] = answer[d]
  BY <1>0 DEF Arrive, TypeOK, Goto
<1>3. UNCHANGED <<dealer, entry, window>>
  BY DEF Arrive
<1>4. /\ ~Owner(c)' /\ ~AtDealer(c)'
      /\ key'[c] = k /\ pc'[c] = IF k = NoKey THEN "post" ELSE "load"
      /\ k # NoKey => Current(c)' /\ during'[c] <= window'[Store(c)'][k]
  BY <1>0 DEF Arrive, TypeOK, PhasesOK, Owner, AtDealer, Current, Store, Goto
<1>5. PhasesOK'
  BY <1>0, <1>2, <1>3, <1>4 DEF PhasesOK, AtDealer
<1>6. WindowsOK'
  BY <1>0, <1>2, <1>3, <1>4 DEF WindowsOK, Current, Store, Running
<1>7. ClaimHeld'
  BY <1>0, <1>2, <1>3, <1>4 DEF ClaimHeld, Current, Store, Owner, AtDealer, Entry
<1>8. OneOwner'
  BY <1>0, <1>2, <1>3, <1>4 DEF OneOwner, Same, Store, Owner, AtDealer
<1>9. QED
  BY <1>1, <1>5, <1>6, <1>7, <1>8 DEF ClaimInv

LEMMA OthersKeep ==
  ASSUME ClaimInv, NEW c \in Calls, ClientLeaves(c) \/ DealerSettles(c) \/ UNCHANGED vars
  PROVE  ClaimInv'
<1> USE DEF ClaimInv, TypeOK, WindowsOK, PhasesOK, ClaimHeld, OneOwner, Same, Owner,
            AtDealer, Running, Current, Store, Entry, Verdicts
<1>1. CASE ClientLeaves(c)
  BY <1>1 DEF ClientLeaves
<1>2. CASE DealerSettles(c)
  <2>1. \A d \in Calls : dealer'[d] # "none" <=> dealer[d] # "none"
    BY <1>2 DEF DealerSettles
  <2>2. UNCHANGED <<callVars, entry, window>>
    BY <1>2 DEF DealerSettles
  <2>3. TypeOK'
    BY <1>2 DEF DealerSettles, callVars
  <2>4. PhasesOK' /\ WindowsOK'
    BY <2>1, <2>2 DEF callVars
  <2>5. ClaimHeld' /\ OneOwner'
    BY <2>1, <2>2 DEF callVars
  <2>6. QED
    BY <2>3, <2>4, <2>5
<1>3. CASE UNCHANGED vars
  BY <1>3 DEF vars, callVars
<1>4. QED
  BY <1>1, <1>2, <1>3

\* A window ends: its owner, if any, is no longer current.
LEMMA ExpireKeeps ==
  ASSUME ClaimInv, NEW s \in Stores, NEW k \in Keys, Expire(s, k)
  PROVE  ClaimInv'
<1>0. TypeOK /\ WindowsOK /\ PhasesOK /\ ClaimHeld /\ OneOwner
  BY DEF ClaimInv
<1>1. UNCHANGED <<callVars, dealer>> /\ TypeOK'
  BY <1>0 DEF Expire, TypeOK, callVars
<1>2. PhasesOK' /\ OneOwner'
  BY <1>0, <1>1 DEF PhasesOK, OneOwner, Same, Owner, AtDealer, Store, callVars
<1>3. \A d \in Calls : Store(d) \in Stores /\ (key[d] # NoKey => key[d] \in Keys)
  BY <1>0 DEF TypeOK, Store
<1>4. WindowsOK'
  <2> SUFFICES ASSUME NEW d \in Calls, key[d] # NoKey
               PROVE  /\ during[d] <= window'[Store(d)][key[d]]
                      /\ Running(d) => during[d] = window'[Store(d)][key[d]]
    BY <1>1 DEF WindowsOK, Current, Running, Store, callVars
  <2>1. CASE Store(d) = s /\ key[d] = k
    <3>1. ~Running(d)
      BY <2>1 DEF Expire
    <3>2. window'[s][k] = window[s][k] + 1 /\ window[s][k] \in Nat /\ during[d] \in Nat
      BY <1>0 DEF Expire, TypeOK
    <3>3. QED
      BY <2>1, <3>1, <3>2, <1>0 DEF WindowsOK
  <2>2. CASE ~(Store(d) = s /\ key[d] = k)
    BY <2>2, <1>0, <1>3 DEF Expire, WindowsOK, TypeOK, Current
  <2>3. QED
    BY <2>1, <2>2
<1>5. ClaimHeld'
  <2> SUFFICES ASSUME NEW d \in Calls, Owner(d), Current(d)' PROVE Entry(d)' # "none"
    BY <1>1 DEF ClaimHeld, Owner, AtDealer, callVars
  <2>1. key[d] # NoKey
    BY DEF Owner
  <2>2. CASE Store(d) = s /\ key[d] = k
    <3>1. window'[s][k] = window[s][k] + 1 /\ window[s][k] \in Nat /\ during[d] \in Nat
      BY <1>0 DEF Expire, TypeOK
    <3>2. during[d] <= window[s][k] /\ during[d] = window'[s][k]
      BY <2>1, <2>2, <1>0, <1>1 DEF WindowsOK, Current, Store, callVars
    <3>3. QED
      BY <3>1, <3>2
  <2>3. CASE ~(Store(d) = s /\ key[d] = k)
    <3>1. Current(d) /\ Entry(d)' = Entry(d)
      BY <2>1, <2>3, <1>0, <1>1, <1>3 DEF Expire, Current, Entry, Store, TypeOK, callVars
    <3>2. QED
      BY <3>1, <1>0 DEF ClaimHeld
  <2>4. QED
    BY <2>2, <2>3
<1>6. QED
  BY <1>1, <1>2, <1>4, <1>5 DEF ClaimInv

\* A restart ends its calls, and with a store of its own every window of that.
LEMMA RestartKeeps ==
  ASSUME ClaimInv, NEW r \in Replicas, Restart(r)
  PROVE  ClaimInv'
<1> DEFINE s == StoreOf[r]
<1>0. TypeOK /\ WindowsOK /\ PhasesOK /\ ClaimHeld /\ OneOwner
  BY DEF ClaimInv
<1>1. UNCHANGED <<key, replica, during, dealer>> /\ s \in Stores
  BY DEF Restart
<1>2. /\ \A d \in Calls : \/ pc'[d] = pc[d] /\ answer'[d] = answer[d]
                          \/ pc'[d] = "done" /\ answer'[d] = "dropped"
      /\ \A d \in Calls : Running(d)' => Running(d) /\ replica[d] # r
  BY <1>0 DEF Restart, Running, TypeOK
<1>3. CASE UNCHANGED <<entry, window>>
  <2>1. TypeOK'
    BY <1>0, <1>1, <1>2, <1>3 DEF Restart, TypeOK, Answers
  <2>2. PhasesOK' /\ WindowsOK'
    BY <1>0, <1>1, <1>2, <1>3 DEF PhasesOK, WindowsOK, AtDealer, Current, Store, Running
  <2>3. \A d \in Calls : Owner(d)' => Owner(d)
    BY <1>1, <1>2 DEF Owner, AtDealer
  <2>4. ClaimHeld' /\ OneOwner'
    BY <1>0, <1>1, <1>3, <2>3 DEF ClaimHeld, OneOwner, Same, Current, Store, Entry
  <2>5. QED
    BY <2>1, <2>2, <2>4 DEF ClaimInv
<1>4. ASSUME s \notin Remote,
             entry' = [entry EXCEPT ![s] = [k \in Keys |-> "none"]],
             window' = [window EXCEPT ![s] = [k \in Keys |-> @[k] + 1]]
      PROVE  ClaimInv'
  <2>1. TypeOK'
    BY <1>0, <1>1, <1>2, <1>4 DEF Restart, TypeOK, Answers
  <2>2. PhasesOK'
    BY <1>0, <1>1, <1>2 DEF PhasesOK, AtDealer
  <2>3. \A d \in Calls : Owner(d)' => Owner(d)
    BY <1>1, <1>2 DEF Owner, AtDealer
  <2>4. OneOwner'
    BY <1>0, <1>1, <2>3 DEF OneOwner, Same, Store
  <2>5. \A d \in Calls : Store(d)' = Store(d) /\ Store(d) \in Stores
                         /\ (key[d] # NoKey => key[d] \in Keys)
    BY <1>0, <1>1 DEF TypeOK, Store
  <2>6. \A d \in Calls : Running(d)' => Store(d) # s
    BY <1>0, <1>2, <1>4 DEF Store, TypeOK
  <2>7. \A k \in Keys : window'[s][k] = window[s][k] + 1 /\ window[s][k] \in Nat
    BY <1>0, <1>4 DEF TypeOK
  <2>8. \A t \in Stores \ {s} : window'[t] = window[t] /\ entry'[t] = entry[t]
    BY <1>0, <1>4 DEF TypeOK
  <2>9. \A d \in Calls : during[d] \in Nat
    BY <1>0 DEF TypeOK
  <2>10. WindowsOK'
    <3> SUFFICES ASSUME NEW d \in Calls, key[d] # NoKey
                 PROVE  /\ during[d] <= window'[Store(d)][key[d]]
                        /\ Running(d)' => during[d] = window'[Store(d)][key[d]]
      BY <1>1, <2>5 DEF WindowsOK, Current
    <3>1. CASE Store(d) = s
      BY <3>1, <2>5, <2>6, <2>7, <2>9, <1>0 DEF WindowsOK
    <3>2. CASE Store(d) # s
      BY <3>2, <2>5, <2>8, <1>0, <1>2 DEF WindowsOK, Current
    <3>3. QED
      BY <3>1, <3>2
  <2>11. ClaimHeld'
    <3> SUFFICES ASSUME NEW d \in Calls, Owner(d), during[d] = window'[Store(d)][key[d]]
                 PROVE  entry'[Store(d)][key[d]] # "none"
      BY <1>1, <2>3, <2>5 DEF ClaimHeld, Current, Entry
    <3>1. CASE Store(d) = s
      BY <3>1, <2>5, <2>7, <2>9, <1>0 DEF WindowsOK, Owner
    <3>2. CASE Store(d) # s
      BY <3>2, <2>5, <2>8, <1>0 DEF ClaimHeld, Current, Entry, Owner
    <3>3. QED
      BY <3>1, <3>2
  <2>12. QED
    BY <2>1, <2>2, <2>4, <2>10, <2>11 DEF ClaimInv
<1>5. QED
  BY <1>3, <1>4 DEF Restart

LEMMA Inductive == ClaimInv /\ [Next]_vars => ClaimInv'
<1> SUFFICES ASSUME ClaimInv, [Next]_vars PROVE ClaimInv'
  OBVIOUS
<1>1. ASSUME NEW c \in Calls, Handle(c) PROVE ClaimInv'
  BY <1>1, HandleDisciplined, HandleKeeps
<1>2. CASE UNCHANGED vars
  <2>1. CASE Calls = {}
    BY <1>2, <2>1 DEF vars, callVars, ClaimInv, TypeOK, WindowsOK, PhasesOK, ClaimHeld, OneOwner
  <2>2. CASE Calls # {}
    BY <1>2, <2>2, OthersKeep
  <2>3. QED
    BY <2>1, <2>2
<1>3. ASSUME Environment PROVE ClaimInv'
  <2>1. ASSUME NEW c \in Calls, ClientLeaves(c) \/ DealerSettles(c) PROVE ClaimInv'
    BY <2>1, OthersKeep
  <2>2. ASSUME NEW s \in Stores, NEW k \in Keys, Expire(s, k) PROVE ClaimInv'
    BY <2>2, ExpireKeeps
  <2>3. ASSUME NEW r \in Restartable, Restart(r) PROVE ClaimInv'
    BY <2>3, RestartKeeps
  <2>4. QED
    BY <1>3, <2>1, <2>2, <2>3 DEF Environment
<1>4. QED
  BY <1>1, <1>2, <1>3, ArriveKeeps DEF Next

\* However a submission is repeated, abandoned or cut off, the dealer gets it at
\* most once in a window (SendRequestWithKey, Claim).
THEOREM SubmittedOnce == Spec => []OnceAtDealer
<1>1. ClaimInv => OnceAtDealer
  BY DEF ClaimInv, OneOwner, OnceAtDealer, Owner, Same, AtDealer
<1>2. QED
  BY InitInv, Inductive, <1>1, PTL DEF Spec

-----------------------------------------------------------------------------
(* What a client that repeats a submission is told: the words of the call   *)
(* that submitted, and no verdict but the dealer's.  Neither property is     *)
(* inductive: a replay copies what the store says, and that is an answer     *)
(* only because a result is stored by the call that was given it, in the     *)
(* window that is still running.                                             *)

\* A call that was answered by its own submission, and not from the store.
Original(d) == pc[d] = "done" /\ ~replayed[d]

\* What a store remembers is what a call of the running window was answered.
EntriesAreAnswers ==
  \A s \in Stores, k \in Keys :
    entry[s][k] \in Results =>
      \E d \in Calls : /\ Original(d) /\ answer[d] = entry[s][k]
                       /\ key[d] = k /\ Store(d) = s /\ during[d] = window[s][k]

ReplaysAreSettled ==
  \A c \in Calls :
    replayed[c] => /\ pc[c] = "done"
                   /\ \E d \in Calls : Original(d) /\ Same(c, d) /\ answer[d] = answer[c]

\* A verdict that was not replayed was read from the dealer.
OwnVerdicts ==
  \A c \in Calls : ~replayed[c] /\ answer[c] \in Verdicts => dealer[c] = answer[c]

ReplayInv == EntriesAreAnswers /\ ReplaysAreSettled /\ OwnVerdicts

----------------------------------------------------------------------------
\* What steps do.

\* A handler that has answered is left alone: a call is made once (SendRequestWithKey returns).
LEMMA DoneStays ==
  ASSUME TypeOK, [Next]_vars, NEW d \in Calls, pc[d] = "done"
  PROVE  /\ pc'[d] = "done" /\ key'[d] = key[d] /\ replica'[d] = replica[d] /\ during'[d] = during[d]
         /\ answer'[d] = answer[d] /\ replayed'[d] = replayed[d]
<1>1. ASSUME NEW c \in Calls, NEW k \in Keys \cup {NoKey}, NEW r \in Replicas, Arrive(c, k, r)
      PROVE  /\ pc'[d] = "done" /\ UNCHANGED <<key[d], replica[d], during[d], answer[d], replayed[d]>>
  BY <1>1 DEF Arrive, Goto, TypeOK
<1>2. ASSUME NEW c \in Calls, Handle(c)
      PROVE  /\ pc'[d] = "done" /\ UNCHANGED <<key[d], replica[d], during[d], answer[d], replayed[d]>>
  <2>. USE DEF TypeOK, Goto, Answer
  <2>1. CASE LoadHit(c) \/ AwaitHit(c)
    BY <2>1 DEF LoadHit, AwaitHit, Replay
  <2>2. CASE LoadMiss(c) \/ ClaimWon(c) \/ ClaimTaken(c) \/ ClaimErrs(c)
    BY <2>2 DEF LoadMiss, ClaimWon, ClaimTaken, ClaimErrs
  <2>3. CASE AwaitOver(c) \/ StoreResult(c)
    BY <2>3 DEF AwaitOver, StoreResult
  <2>4. CASE Submit(c)
    BY <2>4 DEF Submit, PostRefused, SentLost, SentUnread, SentRejected, SentPolled, PollReady, PollOver,
                Sent, Submitted
  <2>. QED  BY <1>2, <2>1, <2>2, <2>3, <2>4 DEF Handle
<1>3. CASE Environment
  <2>1. ASSUME NEW r \in Restartable, Restart(r)
        PROVE  /\ pc'[d] = "done" /\ UNCHANGED <<key[d], replica[d], during[d], answer[d], replayed[d]>>
    BY <2>1 DEF Restart, Running, TypeOK
  <2>. QED
    BY <1>3, <2>1 DEF Environment, ClientLeaves, DealerSettles, Expire, callVars
<1>4. CASE UNCHANGED vars
  BY <1>4 DEF vars, callVars
<1>. QED  BY <1>1, <1>2, <1>3, <1>4 DEF Next

\* A result that a store has after a step was there before, in the same window, or has just been
\* stored by the call it is the answer of (Store).
LEMMA ResultsAreStored ==
  ASSUME TypeOK, [Next]_vars, NEW s \in Stores, NEW k \in Keys, entry'[s][k] \in Results
  PROVE  \/ entry'[s][k] = entry[s][k] /\ window'[s][k] = window[s][k]
         \/ \E c \in Calls : /\ pc[c] = "store" /\ StoreResult(c) /\ Store(c) = s /\ key[c] = k
                             /\ entry'[s][k] = answer[c]
<1>. USE DEF TypeOK, Results, Remember
<1>1. ASSUME NEW c \in Calls, NEW q \in Keys \cup {NoKey}, NEW r \in Replicas, Arrive(c, q, r)
      PROVE  entry'[s][k] = entry[s][k] /\ window'[s][k] = window[s][k]
  BY <1>1 DEF Arrive
<1>2. ASSUME NEW c \in Calls, Handle(c), ~StoreResult(c)
      PROVE  entry'[s][k] = entry[s][k] /\ window'[s][k] = window[s][k]
  <2>1. CASE LoadHit(c) \/ AwaitHit(c)
    BY <2>1 DEF LoadHit, AwaitHit, Replay
  <2>2. CASE LoadMiss(c) \/ ClaimTaken(c) \/ AwaitOver(c)
    BY <2>2 DEF LoadMiss, ClaimTaken, AwaitOver
  <2>3. CASE ClaimWon(c) \/ ClaimErrs(c)
    <3>1. window' = window /\ (entry' = entry \/ Remember(c, "inflight"))
      BY <2>3 DEF ClaimWon, ClaimErrs
    <3>2. CASE entry' = entry
      BY <3>1, <3>2
    <3>3. CASE entry' = [entry EXCEPT ![Store(c)][key[c]] = "inflight"]
      BY <3>1, <3>3
    <3>. QED  BY <3>1, <3>2, <3>3
  <2>4. CASE Submit(c)
    BY <2>4 DEF Submit, PostRefused, SentLost, SentUnread, SentRejected, SentPolled, PollReady, PollOver, Sent
  <2>. QED  BY <1>2, <2>1, <2>2, <2>3, <2>4 DEF Handle
<1>3. ASSUME NEW c \in Calls, StoreResult(c)
      PROVE  \/ entry'[s][k] = entry[s][k] /\ window'[s][k] = window[s][k]
             \/ pc[c] = "store" /\ Store(c) = s /\ key[c] = k /\ entry'[s][k] = answer[c]
  <2>1. UNCHANGED window /\ pc[c] = "store"
    BY <1>3 DEF StoreResult
  <2>2. CASE UNCHANGED entry
    BY <2>1, <2>2
  <2>3. CASE entry' = [entry EXCEPT ![Store(c)][key[c]] = answer[c]]
    BY <2>1, <2>3
  <2>. QED  BY <1>3, <2>2, <2>3 DEF StoreResult
<1>4. CASE Environment
  <2>1. ASSUME NEW t \in Stores, NEW q \in Keys, Expire(t, q)
        PROVE  entry'[s][k] = entry[s][k] /\ window'[s][k] = window[s][k]
    BY <2>1 DEF Expire
  <2>2. ASSUME NEW r \in Restartable, Restart(r)
        PROVE  entry'[s][k] = entry[s][k] /\ window'[s][k] = window[s][k]
    <3>. DEFINE t == StoreOf[r]
    <3>1. CASE t \in Remote
      BY <2>2, <3>1 DEF Restart
    <3>2. CASE t \notin Remote
      <4>1. /\ entry' = [entry EXCEPT ![t] = [q \in Keys |-> "none"]]
            /\ window' = [window EXCEPT ![t] = [q \in Keys |-> @[q] + 1]]
        BY <2>2, <3>2 DEF Restart
      <4>2. s # t
        BY <4>1
      <4>. QED  BY <4>1, <4>2
    <3>. QED  BY <3>1, <3>2
  <2>. QED
    BY <1>4, <2>1, <2>2 DEF Environment, ClientLeaves, DealerSettles
<1>5. CASE UNCHANGED vars
  BY <1>5 DEF vars
<1>. QED  BY <1>1, <1>2, <1>3, <1>4, <1>5 DEF Next

\* Only a result of the store is replayed, and only to a call that is still running
\* (decodeStoredEnvelope).
LEMMA ReplaysAreOfTheStore ==
  ASSUME TypeOK, [Next]_vars, NEW c \in Calls, replayed'[c], ~replayed[c]
  PROVE  /\ pc[c] \in {"load", "wait"} /\ Entry(c) \in Results
         /\ pc'[c] = "done" /\ answer'[c] = Entry(c) /\ UNCHANGED <<key, replica, during>>
<1>. USE DEF TypeOK
<1>1. PICK e \in Calls : LoadHit(e) \/ AwaitHit(e)
  <2>1. ASSUME NEW e \in Calls, NEW k \in Keys \cup {NoKey}, NEW r \in Replicas, Arrive(e, k, r)
        PROVE  UNCHANGED replayed
    BY <2>1 DEF Arrive
  <2>2. ASSUME NEW e \in Calls, Handle(e), ~(LoadHit(e) \/ AwaitHit(e))
        PROVE  UNCHANGED replayed
    BY <2>2 DEF Handle, LoadMiss, ClaimWon, ClaimTaken, ClaimErrs, AwaitOver, StoreResult, Submit, PostRefused,
                SentLost, SentUnread, SentRejected, SentPolled, PollReady, PollOver, Sent
  <2>3. Environment \/ UNCHANGED vars => UNCHANGED replayed
    BY DEF Environment, ClientLeaves, DealerSettles, Expire, Restart, vars, callVars
  <2>. QED  BY <2>1, <2>2, <2>3 DEF Next
<1>. QED  BY <1>1 DEF LoadHit, AwaitHit, Replay, Answer, Goto

\* A verdict is answered by the dealer, from the store, or not at all (getRequestResult).
LEMMA VerdictsAreRead ==
  ASSUME TypeOK, PhasesOK, [Next]_vars, NEW c \in Calls, OwnVerdicts, ~replayed[c], ~replayed'[c], answer'[c] \in Verdicts
  PROVE  dealer'[c] = answer'[c]
<1>. USE DEF TypeOK, OwnVerdicts
<1>1. ASSUME NEW e \in Calls, NEW k \in Keys \cup {NoKey}, NEW r \in Replicas, Arrive(e, k, r)
      PROVE  dealer'[c] = answer'[c]
  BY <1>1 DEF Arrive
<1>2. ASSUME NEW e \in Calls, Handle(e)
      PROVE  dealer'[c] = answer'[c]
  <2>. USE DEF Answer, Verdicts
  <2>1. CASE LoadHit(e) \/ AwaitHit(e)
    BY <2>1 DEF LoadHit, AwaitHit, Replay
  <2>2. CASE LoadMiss(e) \/ ClaimWon(e) \/ ClaimTaken(e) \/ ClaimErrs(e)
    BY <2>2 DEF LoadMiss, ClaimWon, ClaimTaken, ClaimErrs
  <2>3. CASE AwaitOver(e) \/ StoreResult(e)
    BY <2>3 DEF AwaitOver, StoreResult
  <2>4. CASE Submit(e) /\ ~SentRejected(e) /\ ~PollReady(e)
    <3>1. CASE PostRefused(e) \/ PollOver(e)
      BY <3>1 DEF PostRefused, PollOver, Submitted
    <3>2. CASE SentLost(e) \/ SentUnread(e)
      <4>1. e # c /\ dealer' = [dealer EXCEPT ![e] = "pending"]
        BY <3>2 DEF SentLost, SentUnread, Sent, Submitted
      <4>. QED  BY <3>2, <4>1 DEF SentLost, SentUnread, Submitted
    <3>3. CASE SentPolled(e)
      <4>1. pc[e] = "post" /\ answer' = answer /\ dealer' = [dealer EXCEPT ![e] = "pending"]
        BY <3>3 DEF SentPolled, Sent
      <4>2. e # c
        BY <4>1 DEF PhasesOK, AtDealer
      <4>. QED  BY <4>1, <4>2
    <3>. QED  BY <2>4, <3>1, <3>2, <3>3 DEF Submit
  <2>5. CASE SentRejected(e) \/ PollReady(e)
    BY <2>5 DEF SentRejected, PollReady, Sent, Submitted
  <2>. QED  BY <1>2, <2>1, <2>2, <2>3, <2>4, <2>5 DEF Handle, Submit
<1>3. ASSUME NEW e \in Calls, DealerSettles(e)
      PROVE  dealer'[c] = answer'[c]
  BY <1>3 DEF DealerSettles, callVars, Verdicts
<1>4. ASSUME NEW r \in Restartable, Restart(r)
      PROVE  dealer'[c] = answer'[c]
  BY <1>4 DEF Restart, Verdicts
<1>5. CASE UNCHANGED vars
  BY <1>5 DEF vars, callVars
<1>6. CASE Environment
  BY <1>3, <1>4, <1>6 DEF Environment, ClientLeaves, Expire, callVars
<1>. QED  BY <1>1, <1>2, <1>5, <1>6 DEF Next

----------------------------------------------------------------------------
\* The invariant.

\* An original that answers for a call goes on answering for it.
LEMMA OriginalsStay ==
  ASSUME TypeOK, [Next]_vars, NEW d \in Calls, Original(d)
  PROVE  /\ Original(d)' /\ answer'[d] = answer[d]
         /\ key'[d] = key[d] /\ Store(d)' = Store(d) /\ during'[d] = during[d]
BY DoneStays DEF Original, Store

\* What a store remembers stays an answer, however results, windows and restarts interleave.
LEMMA EntriesKeep ==
  ASSUME ClaimInv, ReplayInv, [Next]_vars PROVE EntriesAreAnswers'
<1>0. TypeOK /\ WindowsOK /\ PhasesOK
  BY DEF ClaimInv
<1>. SUFFICES ASSUME NEW s \in Stores, NEW k \in Keys, entry'[s][k] \in Results
              PROVE  \E d \in Calls : /\ Original(d)' /\ answer'[d] = entry'[s][k]
                                      /\ key'[d] = k /\ Store(d)' = s /\ during'[d] = window'[s][k]
  BY DEF EntriesAreAnswers
<1>1. CASE entry'[s][k] = entry[s][k] /\ window'[s][k] = window[s][k]
  <2>1. PICK d \in Calls : /\ Original(d) /\ answer[d] = entry[s][k]
                           /\ key[d] = k /\ Store(d) = s /\ during[d] = window[s][k]
    BY <1>1 DEF ReplayInv, EntriesAreAnswers
  <2>. QED  BY <1>0, <1>1, <2>1, OriginalsStay
<1>2. ASSUME NEW c \in Calls, pc[c] = "store", StoreResult(c), Store(c) = s, key[c] = k,
             entry'[s][k] = answer[c]
      PROVE  \E d \in Calls : /\ Original(d)' /\ answer'[d] = entry'[s][k]
                              /\ key'[d] = k /\ Store(d)' = s /\ during'[d] = window'[s][k]
  <2>1. ~replayed[c]
    BY <1>2 DEF ReplayInv, ReplaysAreSettled
  <2>2. during[c] = window[s][k]
    BY <1>0, <1>2 DEF WindowsOK, PhasesOK, Current, Running
  <2>3. pc'[c] = "done" /\ UNCHANGED <<key, replica, during, answer, replayed, window>>
    BY <1>0, <1>2 DEF StoreResult, Goto, TypeOK
  <2>4. Original(c)' /\ answer'[c] = entry'[s][k]
    BY <1>2, <2>1, <2>3 DEF Original
  <2>5. key'[c] = k /\ Store(c)' = s /\ during'[c] = window'[s][k]
    BY <1>2, <2>2, <2>3 DEF Store
  <2>. QED  BY <2>4, <2>5
<1>. QED  BY <1>0, <1>1, <1>2, ResultsAreStored

\* A replay has its original when it is made, and keeps it.
LEMMA ReplaysKeep ==
  ASSUME ClaimInv, ReplayInv, [Next]_vars PROVE ReplaysAreSettled'
<1>0. TypeOK /\ WindowsOK /\ PhasesOK
  BY DEF ClaimInv
<1>. SUFFICES ASSUME NEW c \in Calls, replayed'[c]
              PROVE  /\ pc'[c] = "done"
                     /\ \E d \in Calls : Original(d)' /\ Same(c, d)' /\ answer'[d] = answer'[c]
  BY DEF ReplaysAreSettled
<1>1. CASE replayed[c]
  <2>1. pc[c] = "done"
    BY <1>1 DEF ReplayInv, ReplaysAreSettled
  <2>2. PICK d \in Calls : Original(d) /\ Same(c, d) /\ answer[d] = answer[c]
    BY <1>1 DEF ReplayInv, ReplaysAreSettled
  <2>3. /\ pc'[c] = "done" /\ answer'[c] = answer[c]
        /\ key'[c] = key[c] /\ Store(c)' = Store(c) /\ during'[c] = during[c]
    BY <1>0, <2>1, DoneStays DEF Store
  <2>4. /\ Original(d)' /\ answer'[d] = answer[d]
        /\ key'[d] = key[d] /\ Store(d)' = Store(d) /\ during'[d] = during[d]
    BY <1>0, <2>2, OriginalsStay
  <2>. QED  BY <2>2, <2>3, <2>4 DEF Same
<1>2. CASE ~replayed[c]
  <2>1. /\ pc[c] \in {"load", "wait"} /\ Entry(c) \in Results
        /\ pc'[c] = "done" /\ answer'[c] = Entry(c) /\ UNCHANGED <<key, replica, during>>
    BY <1>0, <1>2, ReplaysAreOfTheStore
  <2>2. key[c] \in Keys /\ Store(c) \in Stores /\ during[c] = window[Store(c)][key[c]]
    <3>1. key[c] # NoKey /\ Running(c)
      BY <1>0, <2>1 DEF PhasesOK, Running
    <3>2. key[c] \in Keys /\ Store(c) \in Stores
      BY <1>0, <3>1 DEF TypeOK, Store
    <3>. QED  BY <1>0, <3>1, <3>2 DEF WindowsOK, Current
  <2>3. PICK d \in Calls : /\ Original(d) /\ answer[d] = Entry(c)
                           /\ key[d] = key[c] /\ Store(d) = Store(c) /\ during[d] = during[c]
    BY <2>1, <2>2 DEF ReplayInv, EntriesAreAnswers, Entry
  <2>4. /\ Original(d)' /\ answer'[d] = answer[d]
        /\ key'[d] = key[d] /\ Store(d)' = Store(d) /\ during'[d] = during[d]
    BY <1>0, <2>3, OriginalsStay
  <2>5. key[c] # NoKey /\ key'[c] = key[c] /\ during'[c] = during[c] /\ Store(c)' = Store(c)
    BY <2>1, <2>2 DEF Store
  <2>. QED  BY <2>1, <2>3, <2>4, <2>5 DEF Same
<1>. QED  BY <1>1, <1>2

\* A verdict that was not replayed stays the dealer's, which settles a request once.
LEMMA OwnVerdictsKeep ==
  ASSUME ClaimInv, ReplayInv, [Next]_vars PROVE OwnVerdicts'
<1>. TypeOK /\ PhasesOK
  BY DEF ClaimInv
<1>. SUFFICES ASSUME NEW c \in Calls, ~replayed'[c], answer'[c] \in Verdicts
              PROVE  dealer'[c] = answer'[c]
  BY DEF OwnVerdicts
<1>1. ~replayed[c]
  BY DoneStays DEF ReplayInv, ReplaysAreSettled
<1>. QED  BY <1>1, VerdictsAreRead DEF ReplayInv

\* Nothing is remembered, replayed or answered before the first call.
LEMMA InitReplays == Init => ReplayInv
BY DEF Init, ReplayInv, EntriesAreAnswers, ReplaysAreSettled, OwnVerdicts, Results, Verdicts

LEMMA ReplaysInductive == ClaimInv /\ ReplayInv /\ [Next]_vars => ReplayInv'
BY EntriesKeep, ReplaysKeep, OwnVerdictsKeep DEF ReplayInv

\* A replay repeats, to the word, what a call of the same submission was answered, for any calls,
\* keys, replicas and stores (decodeStoredEnvelope).
THEOREM ReplaysAreVerbatim == Spec => []ReplaysAreOriginal
<1>1. ReplayInv => ReplaysAreOriginal
  BY DEF ReplayInv, ReplaysAreSettled, ReplaysAreOriginal, Original
<1>. QED  BY InitInv, Inductive, InitReplays, ReplaysInductive, <1>1, PTL DEF Spec

\* No client is told a verdict that the dealer did not give on its own submission, replayed or
\* not (submit, decodeStoredEnvelope).
THEOREM VerdictsAreGenuine == Spec => []VerdictsAreTheDealers
<1>1. ReplayInv => VerdictsAreTheDealers
  <2>. SUFFICES ASSUME ReplayInv, NEW c \in Calls, answer[c] \in Verdicts
                PROVE  \E d \in Calls : (d = c \/ Same(c, d)) /\ dealer[d] = answer[c]
    BY DEF VerdictsAreTheDealers
  <2>1. CASE replayed[c]
    BY <2>1 DEF ReplayInv, ReplaysAreSettled, OwnVerdicts, Original
  <2>2. CASE ~replayed[c]
    BY <2>2 DEF ReplayInv, OwnVerdicts
  <2>. QED  BY <2>1, <2>2
<1>. QED  BY InitInv, Inductive, InitReplays, ReplaysInductive, <1>1, PTL DEF Spec

=============================================================================
