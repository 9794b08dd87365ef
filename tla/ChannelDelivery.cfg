SPECIFICATION FairSpec
CONSTANTS
  w1 = w1  h1 = h1
  Worker = {w1, h1}
  Loop = {w1}
  Channels = 2
  Rows = 1
  BatchLimit = 2
  MaxFaults = 2
INVARIANTS LeaseIsExclusive DoneIsAccounted
PROPERTIES ImplementsPublication EventuallyHandled
CHECK_DEADLOCK FALSE
