SPECIFICATION Spec
INVARIANTS TypeOK NothingLeftBehind SendsNeverBlock
PROPERTIES ShutdownEnds ListenersClose
CHECK_DEADLOCK FALSE
