SPECIFICATION Spec
CONSTANTS
  Logins = {l1}
  NoLogin = none
  Symbols = {s1}
  Streamed = {s1}
  Weekly = {s1}
  Bids = {8, 11}
  Spread = 1
  Volumes = {0, 1, 2}
  VolMax = 2
  Entries = {}
  Brackets <- MarketBrackets
  Lifetimes = {}
  PendingTypes = {}
  Leverages = {1, 2}
  DefaultLeverage = 2
  Amounts <- MarketAmounts
  Funding = {11}
  StopOutRounds = 2
  MaxTicket = 5
  MaxDay = 0
INVARIANTS
  BookInv VolumeConserved BalanceIsLedger
PROPERTY KeepsTheBook
CHECK_DEADLOCK FALSE
