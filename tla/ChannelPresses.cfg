SPECIFICATION CSpec
CONSTANTS
  a1 = a1  a2 = a2
  yes = yes  no = no
  codex = codex
  h1 = h1  h2 = h2  h3 = h3  h4 = h4
  NoKey = NoKey  NoAsk = NoAsk  NoResolution = NoResolution  Nobody = Nobody
  Actor = {a1, a2}
  Decision = {yes, no}
  Source = {codex}
  Key = {}
  Ask <- CardAsk
  BatchAsk = {}
  Call <- CardCalls
  Press <- Presses
  MaxPresses = 2
  Channel = {"telegram", "slack"}
  MaxRequests = 1
  Handler = {h1, h2, h3, h4}
SYMMETRY Symmetry
INVARIANTS NoPressSkipped ButtonsGoneMeansVoted
CHECK_DEADLOCK FALSE
