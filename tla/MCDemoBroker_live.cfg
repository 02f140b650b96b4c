SPECIFICATION FairSpec
CONSTANTS
  Logins = {l1, l2}
  NoLogin = none
  Symbols = {s1}
  Streamed = {s1}
  Weekly = {s1}
  Bids = {5, 11}
  Spread = 1
  Volumes = {1}
  VolMax = 2
  Entries <- OneEntry
  Brackets <- TightBracket
  Lifetimes <- OneLifespan
  PendingTypes = {"buyLimit", "sellStop"}
  Leverages = {}
  DefaultLeverage = 1
  Amounts = {}
  Funding = {12}
  StopOutRounds = 1
  MaxTicket = 2
  MaxDay = 1
PROPERTIES
  StopsServed StopOutServed
CHECK_DEADLOCK FALSE
