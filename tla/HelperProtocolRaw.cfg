\* The raw profile as the code sends and checks it, ample room in the channel.
CONSTANTS
  Kinds = {"raw"}
  Size = 4
  GuardSize = 1
  FinalVerification = TRUE
  Capacity = 12
SPECIFICATION ProtocolSpec
INVARIANT EveryProgressIsAccepted
CHECK_DEADLOCK FALSE
