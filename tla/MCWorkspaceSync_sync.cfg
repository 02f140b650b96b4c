\* Two accounts, two layouts, one note.
SPECIFICATION Spec
CONSTANTS
  Logins = {L1, L2}
  NoLogin = NoLogin
  Ids = {"default", "saved"}
  Default = "default"
  Past = {1, 4}
  MaxEdits = 3
  MaxTime = 3
  MaxFaults = 1
INVARIANT LatestEditIsKept
PROPERTY PushesKnowTheServer
CHECK_DEADLOCK FALSE
SYMMETRY Symmetric
