SPECIFICATION HSpec
CONSTANTS
  a1 = a1
  yes = yes  no = no  other = other
  h1 = h1  h2 = h2  h3 = h3
  s1 = s1  s2 = s2  t1 = t1  u1 = u1  u2 = u2
  shell = shell  edit = edit  ls = ls  rm = rm
  NoKey = NoKey  NoAsk = NoAsk  NoResolution = NoResolution  Nobody = Nobody
  Missing = Missing  NoEvent = NoEvent
  Actor = {a1}
  Decision = {yes, no, other}
  Approving = {yes}
  Rejecting = {no}
  Source <- Sources
  Key <- AllKeys
  Ask <- Asks
  MaxRequests = 2
  Hook = {h1, h2}
  Event <- GuardedEvents
SYMMETRY Symmetry
INVARIANTS UnidentifiedStaysApart ReleasedByItsDecision ReplacedWithinItsTurn
CHECK_DEADLOCK FALSE
