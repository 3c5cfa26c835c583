\* Two drives, one after the other; each receipt once, and one of them twice.  A transfer
\* of three bytes, at most three calls or interruptions, the three delays of the code in
\* another scale and a deadline that may end them.  The five workflows, the threads of which
\* interleave in every way.  The seven executors, with three kinds of test.  All of them
\* may stop.
CONSTANTS
  MaxGeneration = 2
  MaxReceipts = 4
  Length = 3
  MaxSyscalls = 3
  Delays <- ScaledDelays
  Deadline = 6
SPECIFICATION SideSpec
INVARIANTS
  LaunchIsBound
  WriteIsBound
  NamesDecide
  TransferIsTrue
  ReplacementIsSpared
  WorkflowLeaksNothing
  CommitIsNotHidden
  ExecutorReportIsTrue
  OnlyTheTarget
  ExecutorLeaksNothing
PROPERTIES
  TransferEnds
  WorkflowCancelIsHeard
  WorkflowCallsEnd
  ExecutorCancelEnds
CHECK_DEADLOCK FALSE
