SPECIFICATION Spec
CONSTANTS
  h1 = h1  h2 = h2
  Handler = {h1}
  Kind = {"prompt"}
  QueueSize = 2
  MaxMessages = 2
  MaxRequests = 2
  MaxCrashes = 0
INVARIANTS ParkedNotActive
CHECK_DEADLOCK FALSE
