SPECIFICATION MCSpec
CONSTANTS
  r1 = r1
  r2 = r2
  redis = redis
  Calls = {c1, c2}
  Keys = {k1}
  NoKey = NoKey
  Replicas = {r1, r2}
  Stores = {redis}
  StoreOf <- OneRedis
  Remote = {redis}
  Flaky = TRUE
  Restartable = {r1}
  MaxWindow = 2
  pod = pod
  viewer = viewer
  quotes = quotes
  Pollers = {q1, q2}
  NoPoller = nobody
  MaxDrops = 1
INVARIANTS
  OnceAtDealer VerdictsAreTheDealers ReplaysAreOriginal OnePollerPerSession
PROPERTIES
  EveryCallAnswered FreshEventually
CHECK_DEADLOCK FALSE
