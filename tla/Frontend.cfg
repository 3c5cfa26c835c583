\* The window: two jobs at a time, two images, and the user starts nothing while two jobs
\* or inspections are there.  The three runners, and a channel that fills up.  A closed
\* window, an aborted program and a conversation that is over stop.
SPECIFICATION FrontendSpec
CONSTANTS
  MaxJobs = 2
  MaxImages = 2
  MaxThreads = 2
  Kinds = {"raw", "syslinux", "grub"}
  Size = 3
  GuardSize = 1
  FinalVerification = TRUE
  Capacity = 3
INVARIANTS
  OneOperation
  NothingLeaks
  ResultsAreCurrent
  ReportIsTrue
  ProgressIsAccepted
PROPERTIES
  CancelIsHeard
  CancelEnds
  DecisionIsFinal
  ImplementsActivation
  ConversationEnds
CHECK_DEADLOCK FALSE
