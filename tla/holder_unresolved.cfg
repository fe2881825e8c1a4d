SPECIFICATION Spec
INVARIANT KeepsReconciling
CHECK_DEADLOCK FALSE
