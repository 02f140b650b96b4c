SPECIFICATION Spec
CONSTANTS
  Logins = {l1}
  NoLogin = none
  Symbols = {s1}
  Streamed = {s1}
  Weekly = {}
  Bids = {8, 11}
  Spread = 1
  Volumes = {0, 1}
  VolMax = 2
  Entries <- RestingEntries
  Brackets <- OneBracket
  Lifetimes <- Lifespans
  PendingTypes = {"buyLimit", "sellLimit", "buyStop", "sellStop", "buyStopLimit", "sellStopLimit"}
  Leverages = {}
  DefaultLeverage = 2
  Amounts = {}
  Funding = {11}
  StopOutRounds = 2
  MaxTicket = 2
  MaxDay = 1
INVARIANTS
  EnteredOnce LimitsHonoured
CHECK_DEADLOCK FALSE
