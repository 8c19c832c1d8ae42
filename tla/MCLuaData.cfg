CONSTANTS
  Aob = {p, q}
  MaxAddr = 2
  None = None
  Scalar = Scalar
  MaxPatches = 1
  MaxRestarts = 1
  Callback = {c1, c2}
  Userdata = userdata
  Extension = {e1, e2}
  Version = {v1, v2}
  Default = v0
  Nothing = Nothing
  Torn = Torn
  Handle = {h1, h2}
  MaxStarts = 2
  Target <- Targets
  Address <- Addresses
  NoAddress = NoAddress
SPECIFICATION MCSpec
INVARIANTS AnswerMatches CapturesTheirBytes CallbacksFindUserData NoOlderVersion
PROPERTY EarlyCallbacksFire
CHECK_DEADLOCK FALSE
