\* An optical reader that runs as root.
CONSTANTS
  Size = 2
  Kinds = {"optical"}
SPECIFICATION Spec
INVARIANT ReaderIsNotOrphaned
CHECK_DEADLOCK FALSE
