SPECIFICATION FairSpec
CONSTANTS
  w1 = w1  w2 = w2  h1 = h1
  Worker = {w1, h1}
  Loop = {w1}
  Rows = 2
  BatchLimit = 2
  MaxRetries = 1
INVARIANTS AttemptsAuthorized NoAutomaticReplay
PROPERTIES ImplementsDelivery Settles
CHECK_DEADLOCK FALSE
