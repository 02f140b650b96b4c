SPECIFICATION Spec
CONSTANTS
  p1 = p1
  k1 = k1
  Pods = {p1}
  BusPods = {}
  Keys = {k1}
  Clients = {c1, c2}
  NoClient = none
  PodOf <- AllOnOnePod
  KeyOf <- OneKey
  SendBuf = 2
  SubscribeFails = FALSE
  Pollers = {}
  NoPoller = nobody
  MaxDrops = 0
  MaxVersion = 2
  MaxFaults = 2
  MaxInbox = 1
INVARIANTS
  HubInv
PROPERTIES
  InOrder
CHECK_DEADLOCK FALSE
