\* Files of two blocks; the eleven components, one at a time.
CONSTANTS
  Size = 2
  Kinds = {"download", "freedos", "drive", "virtual", "optical", "container", "staging", "wim", "snapshot", "image", "bundle"}
SPECIFICATION FairSpec
INVARIANTS
  ReportIsTrue
  NothingLeaks
PROPERTIES
  ImplementsPublication
  CancelEnds
CHECK_DEADLOCK FALSE
