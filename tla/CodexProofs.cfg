SPECIFICATION PSpec
CONSTANTS
  a1 = a1
  yes = yes  no = no
  h1 = h1  h2 = h2  h3 = h3
  s1 = s1  t1 = t1  t2 = t2  u1 = u1  u2 = u2  u3 = u3
  shell = shell  edit = edit  ls = ls  rm = rm
  NoKey = NoKey  NoAsk = NoAsk  NoResolution = NoResolution  Nobody = Nobody
  Missing = Missing  NoEvent = NoEvent
  Actor = {a1}
  Decision = {yes, no}
  Approving = {yes}
  Rejecting = {no}
  Source <- Sources
  Key <- AllKeys
  Ask <- Asks
  MaxRequests = 2
  Hook = {h1, h2}
  Event <- OneSession
SYMMETRY Symmetry
INVARIANTS ReceiptIsSound
CHECK_DEADLOCK FALSE
