\* A browser that starts on the terminal's own layout.
SPECIFICATION Spec
CONSTANTS
  Logins = {L1}
  NoLogin = NoLogin
  Ids = {"default", "saved"}
  Default = "default"
  Past = {}
  MaxEdits = 3
  MaxTime = 6
  MaxFaults = 1
PROPERTY RealLayoutsSurvive
CHECK_DEADLOCK FALSE
