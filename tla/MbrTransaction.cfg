\* Two roots, two bulk sectors, the backup header; one weak sector.
CONSTANTS
  TargetTail = 4
  MaxWeak = 1
SPECIFICATION Spec
INVARIANTS
  CrashSafe
  ReportIsTrue
  ReplacementIsSpared
PROPERTY ImplementsActivation
CHECK_DEADLOCK FALSE
