\* cancel() against execute() of the raw workflow: what the documentation promises.
CONSTANTS
  Kinds = {"raw"}
SPECIFICATION Spec
PROPERTIES
  CancelIsEffective
CHECK_DEADLOCK FALSE
