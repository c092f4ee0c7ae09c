\* A job the provider never finishes.
SPECIFICATION Spec
CONSTANTS
  c1 = c1
  c2 = c2
  Calls = {c1}
PROPERTIES
  PollBailsOut
CHECK_DEADLOCK FALSE
