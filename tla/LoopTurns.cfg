SPECIFICATION Spec
CONSTANTS
  h1 = h1  h2 = h2
  Handler = {h1, h2}
  Kind = {"prompt", "blank", "init", "summary"}
  QueueSize = 1
  MaxMessages = 3
  MaxRequests = 2
  MaxCrashes = 1
INVARIANTS ExecutedOnce WaitingIsAsked
PROPERTIES TurnSettles
CHECK_DEADLOCK FALSE
