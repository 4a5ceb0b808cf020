SPECIFICATION Spec
CONSTANTS
  Stream = {s1, s2}
  NoStream = NoStream
INVARIANT TornDownOnLeave
CHECK_DEADLOCK FALSE
