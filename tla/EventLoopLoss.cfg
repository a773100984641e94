\* Does the event loop end when the connection is lost?
SPECIFICATION Spec
PROPERTIES
  LossEndsLoop
CHECK_DEADLOCK FALSE
