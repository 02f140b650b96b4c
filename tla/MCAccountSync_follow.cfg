SPECIFICATION Spec
CONSTANTS
  a1 = a1
  a2 = a2
  Logins = {a1, a2}
  NoLogin = NoLogin
  Slices = {"account", "positions", "orders"}
  LiveSlices = {"account", "positions"}
  Tickets <- MCTickets
  StartOpen = {"p1"}
  Leverages = {x1, x2}
  ReadOnlyLogins = {}
  Disabled = {}
  MaxChanges = 1
  MaxSyncs = 2
  Loads = {1, 2}
  LoadsFail = TRUE
INVARIANT ShownIsOfTheActiveAccount
PROPERTIES SnapshotsNeverRegress Settles
CHECK_DEADLOCK FALSE
