\* The seven executors, three kinds of test among them, one at a time.
SPECIFICATION Spec
INVARIANT PowerOffIsRevalidated
CHECK_DEADLOCK FALSE
