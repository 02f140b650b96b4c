# TLA+ specifications of TradePlatformDemo

TradePlatformDemo is a trading platform in three programs: a **demo trading
server** that stands in for MetaTrader 5 (`backend/cmd/demomarket`), a
**gateway** that serves web clients over HTTP and WebSocket and talks to the
trading server (`backend/cmd/gateway`, `backend/internal`), and a **web
terminal** (`frontend`).  This directory holds TLA+ models of the parts whose
correctness depends on order, concurrency and failure, the configurations that
check them with TLC, and proofs that the TLA+ proof system checks.

Paths below are relative to the repository root; `broker.go` and `store.go` are
in `backend/cmd/demomarket`, `trade.go` and `idempotency.go` in
`backend/internal/domain`, `hub.go`, `poller.go`, `ws.go` and `natsbus.go` in
`backend/internal/realtime`.

1. [Components](#1-components)
2. [Modules](#2-modules)
3. [Runs](#3-runs)
4. [Fairness](#4-fairness)
5. [Theorems](#5-theorems)
6. [Where the code and its documents part](#6-where-the-code-and-its-documents-part)
7. [What is not modelled](#7-what-is-not-modelled)
8. [Plan](#8-plan)

To check a run or the proofs of a module:

    tlc -workers 2 -config MCDemoBroker_market.cfg MCDemoBroker
    tlapm DemoBrokerProofs.tla

## 1. Components

### Demo trading server

**Execution engine** (`broker.go`).  State: per account the settled balance,
the leverage, open positions, working orders, final orders and deals; one
ticket counter and one request counter; the results of dealer requests.
Operations: `Submit` (market orders, partial and whole closes, pending orders,
modifications, cancellations), `Balance`, `SetLeverage`, `Reset`, and a pass
every 250 ms (`evaluate`) that looks at the stops, the pending orders and the
stop-out level of every account.  One mutex, `b.mu`, serialises requests and
passes; the quotes are *not* under it, so one operation can read two different
prices of an instrument.
*Hard:* an order that triggers, converts, fills or expires in a pass between a
modify and a cancel; prices moving inside a request; a position that loses its
quote; a stop-out cut off by its bound.
*Correct when:* tickets are unique; every position, order and deal explains the
others; nothing fills twice or worse than its limit; volume and money are
conserved; what the market makes due is served, for every account.

**Persistence** (`broker.go` `save`, `load`, `restore`; `store.go`).  State: a
`dirty` mark, the snapshot being written, and a store, which is a JSON file
replaced by rename or five PostgreSQL tables.  The database store writes only
the rows that history and deals gained since the last save it knows of.
*Hard:* operations during a write, writes that fail, commits whose answer is
lost, crashes at any point, a load that fails, a reset between two saves.
*Correct when:* an unmarked book is the stored one; the tables always decode to
one snapshot the engine took; a change reaches the store some day.

**Market data providers** (`binance.go`, `yahoo.go`, `synthetic.go`,
`instruments.go`).  A feed per symbol that moves at any time, may go stale
(Binance), and sessions that open and close (FX, metals).  They are the
environment of the engine.

**Users, payments, verification** (`users.go`, `clientarea.go`).  Users and
accounts in PostgreSQL or a file; deposits, withdrawals and transfers as balance
operations of the engine followed by a recorded transaction; an identity review
that verifies the user by a timer.
*Hard:* two stores and no transaction over both; a limit checked before it is
used up; the timer against an administrator's decision and against a restart.
*Correct when:* engine and records agree after every completed request, no
transfer loses money, deposits stay within the verification level.

### Gateway

**Trade submission** (`trade.go` `SendRequestWithKey`, `submit`, `awaitResult`;
`idempotency.go`; `cache/idempotency.go`).  State: per client key a claim or a
stored result, in Redis or in the replica's memory, for a window of time.  A
call loads, claims, posts to the dealer, polls for the verdict and stores it; a
repeated call replays or waits.
*Hard:* repeats on other replicas between any two steps, an unreachable Redis, a
claim whose answer is lost, a response lost after the POST, clients that hang
up, restarts.
*Correct when:* the dealer gets a submission at most once in a window, verdicts
and replays are true, and every call is answered.

**Realtime fan-out** (`internal/realtime`).  State: per pod a topic for every
subscription key, with its subscribers' channels and the last frame; with NATS,
per poller the demand it has heard, and a database lock that elects the one
that polls.
*Hard:* the last client leaving while another joins; eviction from a full
channel against the client's writer and against `release` closing it; a leader
that dies, retires or loses its lock; lost heartbeats and frames.
*Correct when:* nobody is attached to a topic without a feed, the newest data
is never what is dropped, nobody is shown old data after new, data becomes
fresh again after a fault, one poller polls, and only while somebody wants the
data.

**MT5 connection** (`internal/mt5`).  A pool of sessions that expire, a replay
of reads over a fresh handshake, back-off, pings, a circuit breaker, and reads
that share a flight.
*Correct when:* no mutation is replayed, an open breaker lets a probe through, a
session in back-off is retried.

**Jobs and alerts** (`internal/jobs`, `domain/alert.go`).  An evaluator under a
database lock fires price alerts that handlers create, edit and delete.
*Correct when:* an alert fires at most once, on a price the market had.

**Limits, authentication, stores, read services** (`httpapi/middleware`,
`auth`, `store`, `transform`, the rest of `domain`).  Token buckets and a
failed-login lockout keep state; the others translate requests and answers.

### Terminal

**Accounts and streams** (`use-account-sync.ts`, `trading-store.ts`,
`session-generation.ts`, `LeverageField.tsx`).  State: the active account and its
*generation*, the slices of the trading store, a gate per stream, the loads under
way, a leverage that was confirmed and is held over the frames.
*Hard:* frames, snapshots and probes of the account that was left; frames that
arrive during a load; two loads answered in the other order; a change of leverage
answered after a switch.
*Correct when:* only the active account is shown (a leverage that is answered late
breaks this, section 6), a snapshot never undoes a newer frame, and what is shown
comes to agree with the broker.

**Sockets, sessions, reads** (`subscription-pool.ts`; `App.tsx`,
`crm-session.ts`, `session-renewal.ts`, `unauthorized-policy.ts`;
`http-client.ts`).  State: a channel per subscription with its timers; tokens, the
exchanges under way, the renewal's due time; the requests that identical reads
share.
*Hard:* a token that changes under handshakes, back-off and staggered sweeps;
exchanges of several reasons at once; a caller that leaves a shared read as
another joins.
*Correct when:* sockets carry the session's token, a watched channel comes back, a
session nobody accepts ends, and a read ends for everyone who still waits (but for
one whose body stalls, section 6).

**Order entry and management** (`trading-service.ts`, `trading-api.ts`, the
ticket, the dialogs and tables).  State: the call each component has under way,
what the user was told, the rows and dialogs as they were seen.
*Hard:* answers that are lost while the order is executed; a resize that is a
cancel and a placement; brackets that are two calls; bulk actions over a list
that changes; an account that changes meanwhile.
*Correct when:* what is said of an order is what became of it.

**The ticket** (`order-draft-store.ts`, the calculator, the ladder;
`validation.ts`, `risk.ts`, `ladder.ts`).  State: the draft of one instrument,
with volumes remembered per instrument.  *Correct when:* numbers stay with the
instrument they were typed for, and the ticket agrees with the server on what may
be sent.

**History** (`useHistory.ts`, `entry-backfill.ts`, `to-domain.ts`).  A window of
deals, walked in pages, with the entries before it fetched apart; exits are paired
with entries and charged with their part of the entry's cost.  *Correct when:* the
rows add up to what the balance did.

**Charts** (`use-chart-series.ts`, `bars.ts`).  Pages, bar frames and quotes over
two copies of the candles.  **Docks** (`workspace-store.ts`).  Regions of tab
groups.  **Address** (`url-state.ts`).  The link, the layout and the browser's
history.  **Trading hours** (`session.ts`).

**Workspace persistence and journal** (`synced-store.ts`, `storage.ts`,
`journal-store.ts`).  State: the document on the screen and the one waiting 600 ms
for its save, the browser's storage, the push waiting 2 s or under way, the bundle
at the gateway, the account it was pulled for.
*Hard:* pulls that answer after a switch, edits made before the first pull, hidden
and reloaded pages, a second device.
*Correct when:* a push knows what it overwrites, an arranged layout is not
replaced by a default, and the last edit is kept.

The client area renders what it is given; alerts, messages and watch lists keep no
state that outlives a request.

### How they interact

Terminal calls reach the gateway over HTTP; a submission goes through
`SendRequestWithKey` to the MT5 connection and so to the engine's `Submit`,
whose result is polled by request id.  Engine and provider share the quotes
without a lock.  The engine and its store meet only in `save` and `load`.  The
hub and the poller share nothing but the bus; pollers meet in a database lock;
replicas of the gateway meet in Redis and in the database.

## 2. Modules

| Module | Models | Extends / composes |
|---|---|---|
| `TradingBook` | what a trading server's book promises, whatever market moves it | abstract specification |
| `DemoBroker` | the execution engine with its feed | |
| `DemoBrokerProperties` | invariants, action and liveness properties of the engine | `DemoBroker`, instance of `TradingBook` |
| `BookMemory` | the book as the save loop sees it | |
| `BookFile` | the file store; also the promise of any store | `BookMemory`, abstract specification |
| `BookTables` | the PostgreSQL store | `BookFile`, which it implements |
| `TradeSubmission` | calls, stores, replicas and the dealer | |
| `TradeSubmissionProperties` | what a client that repeats may rely on | `TradeSubmission` |
| `Hub` | topics, subscribers, channels and locks of a pod | |
| `Poller` | pollers, their demand and their lock | |
| `Realtime` | hubs, pollers, bus and upstream together, and their properties | `Hub`, `Poller` |
| `AccountSync` | one tab following one account: streams, snapshots, leverage | |
| `SubscriptionPool` | the channels of the socket pool | |
| `TerminalSession` | tokens, exchanges, refusals, screens | `SubscriptionPool` |
| `HttpReads` | reads that share a request, with retries | |
| `OrderDesk` | what the desk sends, what becomes of it, what the user is told | |
| `OrderDraft` | the numbers of the ticket and whose they are | |
| `OrderRules` | the ticket's rules and the server's | |
| `TradeHistory` | the closed positions of a window of deals | |
| `Lists` | places in lists: filters, and sets listed in order | |
| `ChartSeries` | the candles of a pane | `Lists` |
| `WorkspaceLayout` | the docks | `Lists` |
| `DeepLink` | symbol and tab of link, layout and browser history | |
| `MarketHours` | sessions, state of the market, announced opening | |
| `WorkspaceSync` | layouts and notes: screen, storage, gateway | |
| `DemoBrokerProofs`, `BookProofs`, `TradeSubmissionProofs`, `RealtimeProofs`, `AccountSyncProofs`, `WorkspaceSyncProofs` | theorems | the module they are named after, with its properties |
| `TerminalSessionProofs` | theorems | `SubscriptionPool` with `TerminalSession`, `HttpReads` |
| `TerminalToolsProofs` | theorems | `OrderDesk`, `OrderDraft`, `OrderRules`, `WorkspaceLayout`, `ChartSeries`, `DeepLink` |
| `MCBooks` | the file and the tables, of which one is the store | `BookTables` |
| `MCGateway` | submissions and the bus | `TradeSubmissionProperties`, instance of `Realtime` |
| `MCTerminalSession` | session with sockets, and reads | `TerminalSession`, `HttpReads` |
| `MCTerminalTools` | desk, draft, rules, history, docks, address, hours, chart | those modules |
| other `MC...` | constants of the runs | the module they are named after |

`MCGateway`, `MCTerminalSession` and `MCTerminalTools` put side by side what shares
no state; one of the parts moves in a behaviour, so a run takes the sum of their
states and not the product.  `MCBooks` does share: the tables are held to the file
store's specification.

### `DemoBroker`

A request runs whole under `b.mu` and is one action: `OpenPosition`,
`ClosePosition`, `PlacePending`, `ModifyPosition`, `ModifyOrder`, `RemoveOrder`,
`Balance`, `SetLeverage`, `Reset`, each with the guards of the function of that
name in the order that matters.  A refused request changes nothing, so it is no
step.  Where the code reads a quote twice (the fill price from `market()`, the
margin from `summarize()`), the action takes the second reading as a parameter
`q` and leaves the feed there: a feed may move in the middle of a request.

The pass holds the same mutex but is long, so it is one action per position
(`CheckStop`), per pending order (`CheckOrder`) and per stop-out round
(`StopOut`), with `phase` in the place of the lock: requests wait for `"idle"`
while prices, sessions and days go on changing.  `checkPending` reads the clock
once per pass, hence `now` beside `day`.  `evaluate` walks a Go map, so accounts
come in any order; positions and orders come in ticket order, from the list
taken when the scan starts (`todo`).

`quote[s] = 0` is a provider without a price; such a position counts in neither
equity nor margin, as in `summarize`.  Money, prices and volumes are integers:
one unit of price times one unit of volume is one unit of the account currency,
so rounding and currency conversion are exact and margin rounds down.  The
request counter and the results table are left out; their role for clients is
the `dealer` variable of `TradeSubmission`.

`funded` records the balance an account last started from: the balance must be
that plus the profits of its deals.

### `TradingBook`

The abstract engine: `issued`, `resting`, `open`, `cash`.  A position is entered
at a fresh ticket or under the ticket of a resting order and then only shrinks;
cash moves only in the account an entry, a close or a reset is for.
`DemoBrokerProperties` maps the engine's records to it (`RestingBook`,
`OpenBook`) and `KeepsTheBook` states that every step of the engine, pass
included, is a step of it or leaves it alone.

### `BookMemory`, `BookFile`, `BookTables`

`BookMemory` reduces an account to four collections of tickets and has the
engine's operations by what they do to them.  Each ticket carries the *era*, the
process start that issued it, so that two things with one number are told apart.
`Change` is any operation; `SaveBegin` takes the snapshot and clears `dirty`
under the mutex, and the write itself ends in a later step (`SaveReturns`,
`SaveErrs`).  The pass runs in the save loop's goroutine, so it does not fill
orders while a save is writing, whereas requests go on.  `Stop` is a crash and
also a shutdown: the context of `Run` is never cancelled (`main.go:223`).

`BookFile` stores a snapshot whole; `Crash` leaves a write in progress in place
or not; `RestartEmpty` is `load` giving up and starting empty.  `SaveUnheard` is
a commit whose answer is lost; a file cannot do that, but the specification is
also what the database is held to.

`BookTables` has the rows of the tables, the counts the store believes it has
written (`persisted`), the statements of one transaction (`Written`: deletes,
upserts with `ON CONFLICT`, and appended ranges) and the queries of `Load`
(`Loaded`).  `disk` is there what a load would read after every step, and
`StoresSnapshots` states that the tables then implement `BookFile`: `GrowInMemory`,
`BeginCommit`, `Commit`, `Rollback`, `CommitUnheard`, `Die` and `Reopen` are the
store's steps under names of their own, and so are `ResetInMemory` and `ReopenEmpty`.

In two cases the tables stop being a snapshot: an engine that could not read them
starts empty and writes over them (`ReopenEmpty`, `broker.go:207-209`), and the lists
of an account that was reset have grown past what is stored of them before a save sees
them short (`Overtaken`).  `tie` records the first commit of either kind: it is
`"sound"`, `"unread"` after such a start, and `"broken"` from that commit on, which the
model follows no further.  `StoresSnapshots` holds up to it: through starts on an
empty book, saves that fail or are cut off afterwards, and every reset that a save sees
(`emptied`, `emptying` tell which those are).  A save by an engine that could not load
may also fail for good: a ticket given out again can be the key of another account's
stored position (the first conjunct of `Written`), which `EventuallyDurable` excepts.

### `TradeSubmission`

A call is a program counter (`load`, `claim`, `wait`, `post`, `poll`, `store`)
whose steps end at each store or network access.  `StoreOf` and `Remote` say
which replicas share a Redis and which have a store in memory.  A store access
fails in an outage or because the request it serves is gone, a `SET NX` may
claim and still report an error, and a POST may be lost on the way there or on
the way back.  The dealer settles a request whenever it likes.  An entry's time
to live is a numbered `window`; it does not end under a running call, because a
call lasts seconds and the window minutes.

### `Hub`, `Poller`, `Realtime`

A topic is a generation of its key, so that a client left behind in a topic that
is no longer listed can be told from a client of its successor.  `Join` (look
up or make the topic, keeping `h.mu`) and `Attach` (insert under `t.mu`, replay
the last frame) are two steps, as are `Disconnect` and `Release`; a broadcast
holds `t.mu` while it serves one subscriber after another (`sending`), and
`deliver` is three steps (`Send`, `Evict`, `Resend`) between which the client's
writer (`Write`) runs.

A poller hears heartbeats, leads once it has the lock, takes a snapshot of the
demand without what is stale, and dispatches and publishes key after key.  It
may crash, which frees the lock with its database session, or retire, which
frees the lock at once while its loop is still in a round; and the database may
end the session of a leader that lives on (`DropLock`), which the leader never
learns.

`Realtime` adds the version of the upstream data, the bus and the faults.  A
frame is a version; `Null` is the frame of a failed dispatch.  The bus loses a
frame for a pod, or the heartbeats of a key; it keeps the order of one
publisher.

### `AccountSync`

JavaScript runs to completion, so an action is a callback: a frame, an answer, a
timer, a click.  A slice of the store is a version of the broker's data tagged
with its account.  `Resync` is the effect of a new generation: the store is
emptied (`ResetStore`), the old streams with their frames are left, the gates
close and a load starts; loads under way stay `out` and no longer count
(`Superseded`).  `after` is what `shouldApplyRestSnapshot` compares: the slices
that were applied since a load started.  The notifier runs inside each change of
the store (`Noticed`), as React's effect does.  The broker tells the leverage it
has recorded only later (`Propagate`), which is what `held` is for.  `whose` says
which account the leverage on the screen belongs to: the answer to a change is
written where the user is by then (`LeverageAnswered`), and `late` marks the one case
in which that is another account.

### `SubscriptionPool`, `TerminalSession`, `HttpReads`

A timer is a name in a set and may fire whenever it is there; only the order of
their effects matters, not how long they are.  `Opened` reads the token when the
socket is opened, as `open()` does.  Exchanges of the five reasons run at the same
time (`exchanges`), and each success sets the token and sweeps the pool at once.
`sound` says whether the gateway accepts what the CRM hands out, `cookie` whether it
remembers the session across a reload.  In `HttpReads` a request is numbered: what a late
callback does to the entry it was made for can be told from what it does to a
successor under the same URL.  The timeout covers a request until its response begins
and not its body, which may stall for ever (`Stalled`).

### `OrderDesk`

A component has at most one call under way, `late` are calls whose answer was
given up and that may reach the dealer all the same.  `using` fixes which
components a behaviour uses: the ticket; resizing and modifying; closing; the two
bracket rows; the bulk dialog.  Rows and dialogs hold the item as they saw it
(`item`), so a stale row sends what it shows.  An error is one of two things.  A call
that was stopped before the dealer saw it was refused.  A connection that breaks after
the call was sent, a lost body, a status of 500 or more and the gateway's own failed
call to the dealer (`Failures`) reach the handlers as the same exception, and the order
may have been executed or may still be: the model reports these as `"failed"`, so that
they can be told from a verdict, and lets the handlers treat both alike (`NotDone`).

### `OrderDraft`, `OrderRules`

A number of the draft is the instrument it was meant for and the panel it comes
from.  `OrderRules` computes the order a form means (`Order`), in prices, pips,
percent or money, with the rounding of the code, then the ticket's rules and the
server's, with a quote that may move between them.

### `TradeHistory`

A walk fetches page after page while the server adds deals; `Backfill` looks
through ranges before the window for entries that are missing; `Paired` pairs by
position and `chargeEntry` shares out what the entry cost.  Quotients round as the
code's decimals do not: costs are one per lot, so that shares are whole.

### `WorkspaceLayout`, `DeepLink`, `MarketHours`, `ChartSeries`

The docks are regions of groups of tabs, with the code's own removal and insertion;
groups have no ids.  In `DeepLink` the effect that writes the address is part of
the action that causes it.  `MarketHours` computes the state and the announced
wait for every session of up to two segments over a short week, minute by minute.
`ChartSeries` keeps the two copies of the code, the reference the callbacks use and
the state React draws.  A series is a symbol of the account's group, and all have the
buckets of one interval: section 6 says what a change of the interval would add.

### `WorkspaceSync`

A document is a version number, with `real` for one that somebody arranged; the
storage keeps documents by id with the time of saving.  `Attach` is the effect of a
new account, a pull may answer after the next switch, and a push under way holds
what it sends.  `Garbled` is a bundle that cannot be read.  `kept` is the last
change made on the screen.

## 3. Runs

| Run | Question | Distinct states |
|---|---|---|
| `broker_market` | Do market orders, partial closes, brackets, stop-outs, balance operations and resets keep the book consistent and its ledger exact, and implement `TradingBook`? | 575,712 |
| `broker_pending` | Are the six pending types, modified, cancelled, triggered and expired around a pass, entered once and never worse than their limit? | 243,924 |
| `broker_live` | Is what the market makes due served, whatever another account holds? | 101,628 |
| `books` | Does an unmarked book equal the stored one through failed saves, failed loads and crashes; do the tables store snapshots, resets and failed loads included; is a change stored some day? | 484,705 |
| `gateway_shared` | Repeats over a shared, failing Redis; pollers replacing each other over a lossy bus | 116,421 |
| `fanout_pod` | Clients joining, leaving and lagging at a pod that polls for itself | 59,518 |
| `account_follow` | Does a tab show the active account only, and in the end what the broker has? | 89,291 |
| `session_recover` | Do sockets, sessions and reads come back or end, whatever fails? | 240,801 |
| `workspace_sync` | Are edits kept, and does a push know what it overwrites? | 5,552,185 |
| `terminal_tools` | Desk, draft, rules, history, docks, address, hours and chart, each against its hazards | 1,396,508 |
| `workspace_blank` | Can a default replace an arranged layout? (Yes: violation) | |
| `history_reversal` | Do the rows of a reversed position add up to what the balance did? (No: violation) | |

What the properties say is written above each definition.  The bounds:

- **`broker_market`**: one account, one instrument, bids 8 and 11, spread 1,
  requested volumes 0, 1 and 2 with a largest volume of 2, leverage 1 or 2,
  funds of 11, no client request past ticket 5.  Volume 2 makes a partial close
  possible, and a move from 11 to 8 under full leverage makes a stop-out
  possible while a smaller position survives it; five tickets are two round
  trips, or an entry, a partial close and a close.  Two accounts share only the
  ticket counter and the pass: the theorems of section 5 are for any number,
  and `broker_live` has two.  In all three runs of the engine the provider may
  stop quoting at any moment and come back.
- **`broker_pending`**: all six types, entries on both sides of the market, one
  of them with a trigger of its own; lifetimes of a day, of a given time, and
  for good, over two days; two tickets, so one order and what becomes of it, or
  two orders.
- **`broker_live`**: two accounts, bids 5 and 11 and funds of 12, so that a
  position opened at the top loses more than half its margin; one stop-out
  round per visit, so a second due position has to wait for another pass.
- **`books`**: tickets up to 3 and two process starts; one account in the file, two in
  the tables, of which one may be reset.  A ticket bound of 3 lets an order be placed,
  filled and its position closed across saves, and lets an account that was reset
  grow past what is stored of it; a second process start is one that cannot load.
  Once the second account is in use the next ticket is at most 3 (`MaxShared`): enough
  for the accounts to hold a ticket each, and for the one to clash with the other's
  stored row after a failed load.
- **`gateway_shared`**: two calls of one key or of none, two replicas of which one
  restarts, two windows.  A third call adds nothing to the races of a claim:
  there is one winner and losers do not interact.  A store in a replica's own
  memory is the easier case (it never fails, and a restart empties it); the
  theorem covers it, this instance does not have one.  For the bus: one pod, one
  client, two pollers, one new version, one crash, shutdown, loss or failed
  dispatch, and one lost lock.  Pods do not interact; the order of frames
  is claimed, checked (`fanout_pod`) and proved of pods that poll for themselves only.
- **`fanout_pod`**: two clients, a channel of two frames, two versions, two
  failed dispatches.  The channel is full when a third frame comes (a version, a
  null frame and a version); two clients are enough for one to leave as the
  other joins.
- **`account_follow`**: two accounts with a ticket each, two generations, two
  loads in flight, two leverages, one change at the broker, any slice watched.  Two
  generations are a switch with everything of the first still on its way; two
  loads can answer in either order.
- **`session_recover`**: one channel with two consumers, one attempt before
  probation, two faults, two requests; three callers of one URL, two tries.
  Channels do not interact beyond the sweep.  Three callers are one that starts,
  one that joins and one that comes when the others have left.
- **`workspace_sync`**: two accounts, two layout ids, three edits, one fault, a clock
  of three; layouts of the past saved before and after the browser's.  Accounts
  are symmetric.
- **`terminal_tools`**: two operations of the desk; two instruments, one of them with
  a larger smallest volume; two bids on a price step of two, typed values on, off
  and beyond every border; five deals over the seconds 0 to 2, in pages of one of which a
  list has at most three, so that a window and a list of earlier deals are cut at
  their last page; three widgets and regions; a week of three days of three minutes; a series with a
  weekend and one without.
- **`history_reversal`**: four deals in pages of two, at most two pages.

`CHECK_DEADLOCK` is off because every model stops legitimately: tickets, days,
windows, process starts, edits and faults are bounded, and users make no request
they do not want.

## 4. Fairness

- `DemoBroker!FairSpec`: weak fairness of the pass.  `Run`'s ticker returns
  every 250 ms and Go's mutex hands itself to a starving waiter.  No request,
  price or session is owed by anybody, so the properties speak of what stays
  due while the market stays where it is.
- `MCBooks!MCSpec` (as `BookFile!FairSpec`): weak fairness of beginning a save (the
  one-second ticker) and strong fairness of a successful one: a store that is asked
  for ever accepts some day.  Nothing is assumed of restarts, hence "while the
  process runs".
- `MCGateway!MCSpec`: weak fairness of each call's handler; its network calls have
  timeouts and its waits are bounded.  The dealer owes no verdict.  For the bus,
  `Realtime!Fairness`: loops, heartbeats, restarts and publishing are weakly
  fair.  `Attach`, `Release` and `Write` are strongly fair: they wait for `t.mu`
  or for a channel that others keep taking and giving back, and Go serves such
  waiters in turn.  Clients need not leave, the data need not change, and faults
  need not happen; they are finitely many (`MaxFaults`, `MaxDrops`), so what is
  shown is recovery once they cease.
- `AccountSync!Fairness`: streams reconnect, frames and answers arrive again and
  again (strongly fair, since switches and new loads may intervene), timers fire,
  the broker comes to tell what it has recorded.  The user need not do anything.
- `TerminalSession!Fairness`: timers fire, a browser that is offline comes back, a
  handshake with an accepted token is answered, requests are sent (the terminal
  polls) and answered, exchanges are answered.  `Recovers` is claimed of a gateway
  that accepts its tokens, `DeadSessionEnds` of one that never does.
- `HttpReads!ReadFairness`: a fetch fails or its response begins (the client's own
  timeout sees to it), back-off timers fire, callbacks run.  Nothing is assumed of a
  body that began: `ReadsEnd` excepts a caller that waits on one for ever.

## 5. Theorems

The proofs hold for any accounts, instruments, prices, calls, keys, replicas,
stores, pollers, channels, callers, layouts and so on that satisfy the `ASSUME` of
the module (which TLC evaluates in every run); none of the bounds matters.  The
safety properties of the passing runs are theorems, but for those listed at the end
of this section.

| Property | Theorem | By the inductive invariant |
|---|---|---|
| `BookInv`, `EnteredOnce`, `LimitsHonoured` | `Consistency`, `EntersOnce`, `HonoursLimits` | `TypeOK /\ BookInv` |
| `BalanceIsLedger`, `VolumeConserved` | `BalanceAddsUp`, `ConservesVolume` | `LedgerInv` |
| `KeepsTheBook` | `Implements` | `BookInv` |
| `CleanIsDurable` (as `ChangesKept` of the file store) | `NothingForgotten` | `SaveInv` |
| `StoresSnapshots` | `TablesStoreSnapshots` | `TablesInv` |
| `OnceAtDealer` | `SubmittedOnce` | `ClaimInv` |
| `ReplaysAreOriginal`, `VerdictsAreTheDealers` | `ReplaysAreVerbatim`, `VerdictsAreGenuine` | `ClaimInv`, `EntriesAreAnswers` |
| `HubInv` | `Attachment` | itself |
| `InOrder` | `LocalClientsAdvance` | `OrderInv` |
| `OnePollerPerSession` | `OneLeaderPerSession` | `LeadersInv` |
| `ShownIsOfTheActiveAccount` | `ShowsTheActiveAccount` | `SyncInv` |
| `SnapshotsNeverRegress` | `SnapshotsOnlyAdvance` | `VersionInv` |
| `SocketsCarryTheToken`, `NoSocketLeaks` | `SocketsFollowTheToken`, `NoSocketIsForgotten` | `SocketsInv` |
| `OthersDoNotCancel` | `NobodyCancelsForOthers` | `ReadInv` |
| `TruthfulReports` | `ReportsAreTrue` | `ReportInv` |
| `ResizeKeepsOne`, `NothingLostSilently` | `OneOrderPerIntent`, `NoOrderIsLost` | `DeskInv`, `NamedInv` |
| `TypedNumbersStayWithTheirInstrument` | `NumbersStay` | `DraftInv` |
| `LinkWins` | `LinkStays` | `LinkInv` |
| `TicketAgreesWithTheServer` | `RulesAgree` | `RulesInv` |
| `LayoutCanBeDrawn` | `DocksStayDrawable` | `DocksInv` |
| `CandlesInOrder` | `HistoryAscends` | `ChartInv` |
| `PushesKnowTheServer`, `LatestEditIsKept` | `PushesAreInformed`, `EditsAreKept` | `MirrorInv` |

**The engine's book** (`DemoBrokerProofs`).  `Typing` and `Consistency` prove
`TypeOK` and `BookInv`; `EntersOnce` and `HonoursLimits` are its consequences.
`BookInv` is inductive together with `TypeOK`.  What makes it inductive is that
each fact needs the others: that an order is filled once rests on no deal
referring to a working order (`DealsSettled`), which rests on tickets being
unique over positions, orders, history and deals (`TicketsUnique`), because a
fill reuses the order's ticket as the position's.  That a position is backed
survives a reset because entries leave the book account by account.  There is
one lemma per bookkeeping operation (`SettleKeepsBook`, `OpenKeepsBook`,
`FillKeepsBook`, ...), and `RequestInv`, `EngineInv` and `FeedInv` take the
actions one by one.

**The engine's ledger** (same module).  `BalanceAddsUp` and `ConservesVolume` are
about sums over sets of deals that grow without bound.  A sum is a recursive
function on the subsets of a set, whose value the prover knows only once such a
function is shown to exist: `SubsetInduction` is induction over finite sets by
their minimal counterexample, `SumsExist` and `SumsAreUnique` use it, and
`SumsInAnyOrder` lets a sum be taken apart at any element.  All the rest follows from
`TotalAdds`, what a deal adds to a sum it is not in.  `LedgerInv` adds to the two
properties that the sets are finite and that one account owns a position with all
its deals (`OneOwner`): otherwise the reset of one account could take away half of
a position's entries and exits.

**Refinement** (same module).  `Implements` proves `Spec => KeepsTheBook` from
`BookInv`: a close reduces (`SettleReduces` needs volumes between 1 and the
position's), a fill turns a resting order into a position, modifying and triggering
leave the abstract book alone, and the feed never touches it.

**Persistence** (`BookProofs`).  `NothingForgotten` proves `ChangesKept` of the file
store, and `CleanIsDurable` of the tables, where it follows by the refinement below.
`ChangesKept` is not inductive: while a save is writing, nothing says what it writes.
`SaveInv` adds that the snapshot is the book unless the book changed since, in
which case it is marked.

**The tables** (same module).  `TablesStoreSnapshots` proves `TablesSpec =>
StoresSnapshots`: the relational store implements the store of whole snapshots,
for any accounts, whatever commits, is rolled back, goes unheard or is cut off, with
resets and failed loads, up to the commit that breaks the tables (section 2).
`TablesInv` says that until then the rows are those of one book (`RowsHold`), that
tickets are given out once within a book (`Numbered`), that what is stored, on its way
and in memory are three ages of one book of which histories and deals only grow, those
of accounts reset in between apart (`AgesOK`, `Grown`), and that the store never
believes it wrote more than it did, unless it has not heard of a reset (`CountsOK`).
After an unheard commit it believes less, and writes the same rows again.  `AgesOK` is
claimed only while `tie` is `"sound"`: an empty book over full tables is no later age of
them, which is why the next commit ends the claim.

Three facts carry it.  Such a book's rows are read back as the book (`LoadedIs`, over
`ListedInOrder`: sorting by `seq` gives a list its order back).  A save whose lists
continue the stored ones, or are seen to be shorter (`Continues`), leaves exactly the
snapshot's rows (`SaveWrites`): the upsert meets no ticket but the row's own, so it
cannot take another row away (`OrdersWritten`, `DealsWritten`).  And a commit that does
not break the tables is such a save (`SaveContinues`): a list that was not emptied grew
(`OperateGrows`), one that was is either seen short or makes the account `Overtaken`
(`ListFollows`).  Then each step of the tables is the store's step of the same kind.

**Submission** (`TradeSubmissionProofs`).  `SubmittedOnce` proves `OnceAtDealer`
for any number of calls, keys, replicas and stores.  `ClaimInv` strengthens it:
a call that may still submit or has submitted (`Owner`) holds the claim of its
window (`ClaimHeld`) and is the only owner (`OneOwner`); a call does not outlive
its window (`WindowsOK`); and a handler before its POST has not reached the
dealer (`PhasesOK`).  The claim is what carries the argument across outages: a
lost answer of `SET NX` leaves an entry without an owner, never two owners.

**What a repeat is told** (same module).  `ReplaysAreVerbatim` proves
`ReplaysAreOriginal` and `VerdictsAreGenuine` proves `VerdictsAreTheDealers`, over
`ClaimInv`.  A replay copies what the store says, so the argument is about the store:
what it remembers is what a call of the running window was answered
(`EntriesAreAnswers`), because a call stores its own answer, in the window it was made
in (`WindowsOK`), and is left alone afterwards (`DoneStays`).

**Fan-out** (`RealtimeProofs`).  `Attachment` proves `HubInv` for any pods, keys,
clients, pollers and channel capacity: a client that has a place is in the topic
its pod feeds, and nothing is sent on a closed channel.  The locks carry the
argument (`LocksHeld`): between its two locks a client holds `h.mu`, so the last
one out cannot unlist a topic while another is on its way in (`NoOrphans`, in
`ReleaseKeeps`), and a release waits for `t.mu`, so a broadcast never meets a
client that has gone (`SendsAreOpen`).  `ChannelStep` stands for every step of a
broadcast or a writer, `PodsUntouched` for those of bus, pollers and upstream.

**The order of frames** (same module).  The property compares what a client was
shown with the next frame; what makes it hold is the state of the whole way there.
`InTime` says of a client that its channel is in order and starts no earlier than what
it was shown (`Ordered`, `StartsAt`), that neither is newer than the topic's last
frame, which is no newer than what waits in the inbox, which is no newer than
upstream (`Behind`).  An eviction takes the oldest frame out of such a channel and
leaves it ordered (`Shortened`), a late joiner is given the last frame, which bounds all
others.  `LocalClientsAdvance` proves `InOrder`, which speaks of the clients of pods that
poll for themselves, in any deployment, beside pods on a bus too.  On the bus the order
is false when two publishers compete (section 6).

**The election** (same module).  `OneLeaderPerSession` proves
`OnePollerPerSession`.  `LeadersInv` says that whoever leads without the lock
(`Unlocked`) answers for a session that was ended under its holder; a crash, a
shutdown or an election never adds to them (`FewerLead`), and only `DropLock` does,
which is counted (`LoseLockElects`).

**What the terminal shows** (`AccountSyncProofs`).  `ShowsTheActiveAccount` proves
`ShownIsOfTheActiveAccount` and `TypesKept` the types, for any accounts, slices,
loads, tickets and leverages.  The property is not inductive: it rests on what is on
its way to the store.  It says of every slice, and of the leverage on its own, that it is
of the active account; the one exception is a leverage marked `late`, and nothing
but the answer to a change that was made on the account before can set that mark.  It
goes when the account's own leverage is applied, which has to be shown of every frame and
load (`AppliedIsWhose`, `Shows`).  `SyncInv` adds that frames, what the gates buffer and what a
load that counts has read are of the active account too (`FramesAreOfTheAccount`,
`GatesAreOfTheAccount`, `LoadsAreOfTheAccount`), and that streams, timers and loads
exist only once an account is active (`ActiveFirst`).  A new generation makes all of
them true at once (`ResyncInv`): it drops the frames, closes the gates and no longer
counts the loads.  The remaining steps keep them because they apply only values of
which that is known (`AppliedShows`, `GatesShow`).

**Snapshots and versions** (same module).  `SnapshotsOnlyAdvance` proves the action
property `SnapshotsNeverRegress`.  `VersionInv` adds to `SyncInv` that nothing on
its way is newer than the broker's books (`NothingAhead`) and that what a counting
load has read is at least as new as what is shown, except for the slices that were
applied since it started (`LoadsAreFresh`): those are what `shouldApplyRestSnapshot`
leaves out.  A read is as new as the books when it happens, and so as everything
shown then; a slice that overtakes it later leaves `Fresh` (`StaysFresh`).

**Sockets** (`TerminalSessionProofs`).  `SocketsFollowTheToken` and
`NoSocketIsForgotten` prove that a socket has the session's token and that none is
left open without its channel knowing.  The pool opens sockets from a timer, from
`offline`/`online`, from a token sweep and from a new subscriber; `OneSocket` says that
whatever would let one of these open a socket, a due timer or a failed state, exists
only while there is none.  Each operator of the pool is shown to keep `Channel(t)` and
`OneSocket` (`TeardownIsSound`, `OpenedIsSound`, `SweptIsSound`, ...), so a step of the
session needs only to be read as operators applied to some channels (`AllKept`).

**Shared reads** (same module).  `NobodyCancelsForOthers` proves that no caller is
told of a cancellation it did not make.  A request counts its waiters, so
`RequestsOK` ties the number to the set of callers that still wait for it
(`Staying`): it is aborted exactly when that set is empty, and a request that is not
aborted is the one listed under its URL.  A caller that joins therefore never joins an
aborted one.  Requests are numbered in the order made (`MadeInOrder`), which is
what makes the next number free (`NextIsFree`).

**The desk's reports** (`TerminalToolsProofs`).  `ReportsAreTrue` proves
`TruthfulReports`, whichever components are in use and however many calls they make.
`ReportInv` adds the serials (`SerialsOK`): a call has one of its own, waits in one
place until it is executed, and one that was reported as refused is not under way any
more.  Of a call that `"failed"` nothing is claimed: it may be executed later, and the
invariant lets it stay among the calls that are `late`.

**A resize is one order** (same module).  `OneOrderPerIntent` proves
`ResizeKeepsOne`: what was one order is never two.  `OneToken` is the argument: an
intent is in the book, or on its way there as a placement, or cancelled for certain and
not yet placed, one of the three and once.  It rests on numbers naming one thing
(`IdentitiesOK`, over all rows, dialogs and the book, however stale) and on what a
resize has under way in each of its steps (`ResizeSteps`).  `NoOrderIsLost` proves
`NothingLostSilently` with the serial of the cancellation on top (`CancelNamed`): an
order that was taken off while the user is told that the resize was accepted or
refused has been replaced by the call that is reported, and one the user is warned to
have lost was taken off.  A cancellation that `"failed"` or is unknown promises nothing,
since the order may be gone (section 6).  The property speaks of that
call and not of the order being in the book: another component may have cancelled
the replacement before its answer arrived, which is then no loss.

**The draft of an order** (same module).  `NumbersStay` proves
`TypedNumbersStayWithTheirInstrument` for any instruments.  The property speaks of a
mounted ticket; `DraftInv` adds what holds while it is away: the numbers typed in it
are of the draft's own symbol, and a remembered volume is of the instrument it is
remembered under.  The draft may then be adopted (`AdoptIsOfItsSymbol`) whatever
was selected meanwhile.  The calculator and the ladder write numbers of their own
(`ApplyKeeps`, `LadderKeeps`), of which nothing is claimed: see section 6.

**The address** (same module).  `LinkStays` proves `LinkWins`.  `LinkInv` says that
while nobody but the link has chosen a symbol, the store shows it and holds it as an
intent, by which a copy of the layout that comes later is overruled.  The rest are the
trader's choices, of which each either leaves the symbol alone or ends `followed`; for a
step through the browser's history that takes an argument of its own (`LinkInvKept`).

**The rules** (same module).  `RulesAgree` proves that what the ticket lets through the
server takes, for any prices, volumes and funds, unless the quote moved or the order
rests exactly at the market.  The proof needs
that the smallest volume is a whole number of steps (`RulesAssumption`): the ticket
counts steps from the smallest volume and the server from zero, which is the same
for every instrument of the server (`broker.go:33`) and would not be otherwise.

**The docks** (same module).  `DocksStayDrawable` proves `LayoutCanBeDrawn`, which with
the types is inductive as it stands (`DocksInv`); the work is in the operators.  A filter
keeps the places of a list in their order, and `RanksCount` shows that these are
counted off from one without a gap or a repetition, so that a list without some of its
elements (`FilteredIs`) shows nothing twice and loses nothing else.  From that a widget
that is taken out leaves every other in its one place, with a tab to show in every group
that stays (`RemovedIs`), and the group it is dropped into is still there unless the
widget was alone in it (`MovedIn`).  The default layout is assumed to be drawable, and
each widget to open where it may be (`DocksAssumption`); the registry checks the second
(`registry/types.ts:56`).

**The chart** (same module).  `HistoryAscends` proves `CandlesInOrder`: both copies of the
candles and what React draws ascend, over pages, frames, quotes, failures and changes of
series in any order.  A page that is out may still land in front of another series, so
`EarlierOK` says of it that its candles are before all that the pane holds, whichever
series that is.  It stays so when the pane begins anew because of `OldestOK`: what is
older than the oldest candle was there before every first page that is out, and before
the window of the stream.  That uses that a frame is no longer than a page and a page at
least two buckets (`ChartAssumption`; in the code a page has 500, and a frame at most five), so that neither a first
page nor a frame or a late quote reaches back that far.  A frame is
merged bar by bar; the function that does it is shown to exist, and each of its steps to
continue the candles, by the smallest step at which it would fail (`CountingUp`,
`MergedExists`).

**The workspace** (`WorkspaceSyncProofs`).  `PushesAreInformed` and `EditsAreKept`
prove that a bundle that this tab cannot read is never overwritten, and that the latest
edit is in the storage or on its way there.  `MirrorInv` has `ReadFirst`, which says of the account
that was pulled, and of a push wherever it is, that its bundle can be read, and
`EditInv`: the last edit is what waits for the timer, or nothing waits and the storage
has it.  In particular nothing older can be waiting.

Model-checked only:

- liveness (the properties of section 4), which is beyond the prover;
- `RowsAreTheLedger`: its operators fold over sequences (the pairing of deals with their
  entries), and what these return for every input needs induction over the sequence;
- `RealLayoutsSurvive` and `NetIsTheBalance`, which the code violates.

## 6. Where the code and its documents part

Two disagreements have a run that shows them:

1. **A default over an arranged layout** (`workspace_blank`).  `synced-store.ts:16-21`
   promises that a browser that starts on the default layout does not destroy the
   real one, since nothing is pushed before a pull.  A change made before the pull
   has answered outlives it: the pending save keeps the whole default document
   (`workspace-store.ts:133-144`), the re-read replaces what is shown and not what is
   pending (`workspace-store.ts:216-246`), and the next flush writes the default over
   the layout just taken and pushes it.  The same follows when the default was saved
   later than the server's copy (`synced-store.ts:186-190`).
2. **A reversal is charged twice** (`history_reversal`).  `net-result.ts:5-12` says the
   result is net of everything the balance is moved by; the row of a reversal carries
   the reversal's whole cost (`to-domain.ts:683-684`) and registers it again for the
   leg it opens (`to-domain.ts:690`), whose exit is charged with it.

Others were met while modelling.  They are in the models as the code has them,
and the properties are worded around them.

Trading server and gateway:

- When an account is reset and trades until its history is as long as before within
  one save interval, the save sees nothing to append (`store.go:346` compares
  lengths) and the tables keep the old rows, although `store.go:181-184` relies on
  history only growing, "a reset empties them".  `StoresSnapshots` ends at that commit.
- An engine that cannot read its state logs it and starts empty (`broker.go:207-209`).
  Its next save replaces the file; over the tables it replaces counters, positions and
  working orders and adds its own rows to the old history, or can never be committed
  when a position has the ticket of another account's stored one.  `StoresSnapshots`
  and `EventuallyDurable` end there.
- `README.md:83` promises that nothing is reissued after a restart; the counters are
  written once a second, so a ticket issued since then is issued again.
- `trade.go:371-372` calls every failure past the POST an unknown outcome; a failed
  `fetchPost` is returned as an ordinary failure (`trade.go:378-381`), also when only
  the response was lost.
- `poller.go:12-13` has the lock elect "the single active poller"; the leader never
  looks at the lock again, so a database session that ends leaves two.
- A repeat that meets a failing store is answered `not_submitted`
  (`trade.go:305-312`) although the first call of that key may have its order at
  the dealer; `API.md:318` says that this outcome means nothing was sent.
- A submission refused before it was sent is stored and replayed like a verdict
  (`trade.go:323-325`), where `idempotency.go:28-29` speaks of completed
  submissions: the same key cannot be tried again within the window.
- The result is stored under the request's context (`trade.go:325`): a client
  that hangs up leaves its claim without a result, and repeats are told
  `unknown` until the window ends (`API.md:354`).
- A position whose symbol has no quote counts in neither equity nor margin
  (`broker.go:386-392`), so its margin can be withdrawn meanwhile, while
  `README.md:126` says withdrawals respect margin.
- A stop-out does not look at the session (`broker.go:1020-1047`), unlike every
  other close.
- Stops of a market order are validated against the fill price
  (`broker.go:592`), though it is valued at the other side of the spread: a stop
  inside the spread is accepted and hit by the next pass.
- A topic whose bus subscription failed stays listed without a goroutine
  (`hub.go:169-172`); later clients join it and see nothing until all have left.
  `FreshEventually` makes an exception for it.
- Only the leader evicts stale demand (`poller.go:99-101`); a standby keeps every
  subscription it ever heard of.
- A leader that retires finishes its round on a cancelled context, so it may
  publish null frames, or an older version after its successor's.  `InOrder` is
  therefore claimed of pods that poll for themselves.

Terminal, accounts and sessions:

- `use-trade-notifications.ts:12-16` says nothing is announced until the server's own
  snapshot confirms it; the notifier is seeded by whatever store it meets, and a
  switch announces the positions of the account that was left as closed.
- An exchange that is out at sign-out puts token and account back when it succeeds
  (`crm-session.ts:455`; `session-store.ts:169-172` clears them for MED-01).
- `trading-store.ts:199` says that a confirmed write belongs to the account being
  left.  The answer to a leverage change is applied without asking for which account
  it was made (`LeverageField.tsx:117-131`, `trading-store.ts:156-164`): after a switch
  it is written into the new account's slice and held over its frames for up to 30 s.
- `http-client.ts:257-262` clears timeout and abort before the body is read: a body that
  stalls is never given up, and every later read of that URL joins it.  The key
  of a shared read has no token; a caller that joined and leaves is told only when
  the shared request ends; an abort during back-off escapes as a `DOMException`.

Desk and ticket:

- `sendRequest` reports a timeout as unknown because "Saying 'failed' would be a lie"
  (`trading-api.ts:594`).  A connection that breaks after the POST was sent
  (`http-client.ts:249-256`), a body that is lost (`http-client.ts:262`), a status of
  500 or more (`http-client.ts:288-296`) and the gateway's own failed POST
  (`trade.go:378-381`) are thrown as failures all the same, although the order may be at
  the dealer.  The ticket then shows an error and follows nothing; a resize whose
  cancellation failed this way may have cost the order with only an error told, the
  outcome a trader "must never discover for themselves"
  (`trading-service.ts:397-403`); and the warning that there is no order is false when
  the replacement that failed is executed after all.  `TruthfulReports` and
  `NothingLostSilently` claim nothing of such reports.
- `validation.ts:14-16` says nothing may be allowed that the gateway would reject; an
  order resting exactly at the market is (`validation.ts:201-209` against
  `broker.go:688-700`).  A bracket that cannot be converted has no price, and the
  order goes without it (`OrderTicketWidget.tsx:237-247, 701-702`); ladder rows are on
  the grid of the digits, not of the tick size; a pending order is blocked for margin
  the server would not ask for; `calculateRisk` ignores the volume limits.
- `OrderTicketWidget.tsx:171` takes any new position for the confirmation of an order;
  moving to break-even sends the take-profit as it was last seen; a resize whose
  account is switched places its replacement on the other account
  (`trading-service.ts:383`); a confirmation stays open across a change of symbol;
  the bulk dialog works through the list it was opened with
  (`BulkActionDialog.tsx:11-17`).
- Applying a calculation does not record its instrument
  (`order-draft-store.ts:158-161, 210`), the calculator keeps its stop and target
  across symbols, values the ladder puts there while the ticket is closed appear
  later, and the volume of the symbol left is dropped.

History and charts:

- A deal in the first second of a window is in both the window and what is fetched
  before it (`entry-backfill.ts:64`); the one-day window of a broker whose offset is
  lost moves back while what was fetched is cached under a key without its start
  (`useHistory.ts:109`).  Such deals are paired twice.  A cut list of earlier deals is
  not looked at again.
- An answer to a page before the first, asked of a series that was left, is put in
  front of the next one's (`use-chart-series.ts:210-228`, although `:64-65` speaks of
  one series).  Within one interval the order survives that, as `CandlesInOrder` shows;
  when the next series has a longer interval, whose first page reaches further back, the
  page in front is newer than what follows, and the candles are no longer "oldest first"
  (`:31`).  A page that falls into a weekend ends the history, a first load at a
  weekend is "No history", and a page that failed is not asked for again.

Workspace and address:

- A push requested while one is in flight is dropped (`synced-store.ts:263`), a failed
  one waits for the next change, and `reset` does not reach one that is in flight.
  The browser's layouts are shared by its accounts.  Documents of a bundle that
  cannot be read are dropped by the next push.  Loading or saving a layout within
  600 ms of an edit loses the edit, and a note that was removed has no tombstone, so
  another device brings it back.
- Dropping the only tab of a group on its own group loses the widget
  (`workspace-store.ts:374-416`).
- A link to the symbol the layout remembers is not adopted (`url-state.ts:154`), so a
  layout that comes later replaces it; the first render pushes an entry into the
  browser's history.

## 7. What is not modelled

- **Client area and users of the demo server** (`clientarea.go`, `users.go`): two
  stores without a transaction over both, limits checked before they are used up, a
  review by timer.  First in the plan.
- **MT5 connection** (`internal/mt5`), **jobs and alerts** (`internal/jobs`,
  `domain/alert.go`), **limits and lockout** (`httpapi/middleware`): in the plan.
- The engine's read side (positions, history, calculators), its request results
  and their table, and the one-time import of an old state file.
- How providers compute prices, candles and sessions: the feed is any sequence of
  prices and gaps.
- Currency conversion, rounding to cents, price digits, swaps.
- Contents of frames and of stored envelopes beyond what tells results apart.
- The gateway's dispatching, transformation and authentication of what keeps no
  state; configuration, metrics.
- The remount of a chart whose `appliedBarsRef` is still null
  (`ChartPane.tsx:532-535`).
- In the terminal: the client area's forms, alerts, messages and watch lists, the order
  history and totals by day, drawings and indicators, sizes of docks, renaming and
  deleting layouts, the variants of a host that embeds the terminal, rendering and
  formatting.

## 8. Plan

The order was by what goes wrong worst: the engine that owns the money, the
store that must not lose it, the submission that must not double it, the data that
traders look at, then the terminal they act in.  What is left, in this order:

1. **`ClientArea`**, composed with a reduced engine (balance and free margin per
   account) and the transaction records.  Actions: one per engine call and per record
   of `money()`, the review timer, an administrator, a restart.  Properties: engine
   and records agree up to requests in progress; money in two accounts of a transfer
   is conserved; an administrator's decision is not overridden.  Abstract
   specification: a wallet with atomic operations.
2. **`Mt5Connection`**: the session pool, re-authentication with back-off, replay of
   safe reads, the breaker's half-open probe.  Properties: a mutation is sent at most
   once; a session comes back; an open breaker is probed.
3. **`Alerts`**: evaluator replicas under a lock, handlers, the delivery cursor.
   Properties: fires once, delivered once per cursor.
4. **Limits**: the token bucket in memory and in Redis, the login lockout.

Theorems worth proving next: the order of frames on a bus with one publisher, and of
`RowsAreTheLedger` what a single step of the pairing keeps.
