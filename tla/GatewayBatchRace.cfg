SPECIFICATION GSpec
CONSTANTS
  a1 = a1  a2 = a2
  yes = yes  no = no
  codex = codex  k1 = k1
  h1 = h1  h2 = h2  h3 = h3  h4 = h4
  NoKey = NoKey  NoAsk = NoAsk  NoResolution = NoResolution  Nobody = Nobody
  Actor = {a1, a2}
  Decision = {yes, no}
  Source = {codex}
  Key = {k1}
  Ask <- SharedAsk
  BatchAsk <- SharedAsk
  Call <- BatchCalls
  MaxRequests = 1
  Handler = {h1, h2, h3}
SYMMETRY Symmetry
INVARIANTS ResumedByOneCall
CHECK_DEADLOCK FALSE
