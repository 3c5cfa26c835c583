\* A virtual backup whose raw capture is published, but not durably.
CONSTANTS
  Size = 2
  Kinds = {"virtual"}
SPECIFICATION Spec
INVARIANT PublishedIsNamed
CHECK_DEADLOCK FALSE
