SPECIFICATION Spec
CONSTANTS
  a1 = a1  a2 = a2  a3 = a3
  yes = yes  no = no
  codex = codex  cursor = cursor  k1 = k1
  NoKey = NoKey  NoAsk = NoAsk  NoResolution = NoResolution  Nobody = Nobody
  Actor = {a1, a2}
  Decision = {yes}
  Source = {codex, cursor}
  Key = {k1}
  Ask <- WorldlineAsk
  MaxRequests = 3
INVARIANTS ActiveIsNewest OneRequestPerKey IntentsMatchRequests OneTerminalEvent
PROPERTIES ImplementsBoundary
