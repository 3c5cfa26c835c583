\* Three bytes, at most four calls or interruptions, the three delays of the code
\* in another scale and a deadline that may end them.
CONSTANTS
  Length = 3
  MaxSyscalls = 4
  Delays <- ScaledDelays
  Deadline = 6
SPECIFICATION RetrySpec
INVARIANT CallsAreCapped
CHECK_DEADLOCK FALSE
