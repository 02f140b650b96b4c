SPECIFICATION MCSpec
CONSTANTS
  Logins = {l1, l2}
  Resettable = {l1}
  AnswersLost = TRUE
  MaxTicket = 3
  MaxEra = 2
  MaxShared = 3
  LoadMayFail = TRUE
INVARIANT CleanIsDurable
PROPERTIES StoresSnapshots EventuallyDurable
CHECK_DEADLOCK FALSE
