\* Two front sectors, two body sectors, a larger target, one weak sector.
CONSTANTS
  Guard = 2
  SourceTail = 4
  TargetTail = 5
  MaxWeak = 1
SPECIFICATION FairSpec
INVARIANTS
  CrashSafe
  ReportIsTrue
  ReplacementIsSpared
PROPERTIES
  ImplementsActivation
  Terminates
CHECK_DEADLOCK FALSE
