SPECIFICATION ReversalSpec
CONSTANTS
  eurusd = eurusd
  btcusd = btcusd
  orderTicket = orderTicket
  positions = positions
  deals = deals
  left = left
  right = right
  bottom = bottom
  Logins = {a1, a2}
  Uses <- SomeUses
  Levels = {1}
  Symbols = {eurusd, btcusd}
  MaxOps = 2
  Instruments = {eurusd, btcusd}
  NoInstrument = NoInstrument
  LargeMinimum = {btcusd}
  Empty = Empty
  Bids = {4, 6}
  Spread = 2
  TypedPrices <- SomePrices
  TypedVolumes = {0, 1, 2, 3, 9}
  TypedStops <- SomeStops
  TypedTargets <- SomeTargets
  TickSize = 2
  TickValue = 1
  PipPoints = 2
  Depth = 2
  VolumeMin = 2
  VolumeMax = 8
  VolumeStep = 2
  MarginFree = 14
  Positions = {p1}
  NoPosition = NoPosition
  Gain = 5
  MaxVolume = 2
  PageSize = 2
  MaxPages = 2
  HistoryRange = 1
  Lookbacks <- SomeLookbacks
  WindowSlips = {0, 1}
  MaxDeals = 4
  MaxSeconds = 3
  Widgets = {orderTicket, positions, deals}
  Regions = {left, right, bottom}
  Allowed <- SomeAllowed
  DefaultRegion <- SomeDefaults
  DefaultDocks <- SomeDocks
  Watched = {eurusd, btcusd}
  TabNames = {positions, deals}
  Unnamed = Unnamed
  PaneCounts = {1, 2}
  MaxEntries = 3
  MinutesPerDay = 3
  Days = 3
  Unreadable = Unreadable
  Always = Always
  Series = {eurusd, btcusd}
  Trades <- WeekendGap
  Page = 2
  Window = 2
  MaxClock = 5
  MaxShows = 3
INVARIANT NetIsTheBalance
CHECK_DEADLOCK FALSE
