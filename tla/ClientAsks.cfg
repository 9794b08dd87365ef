SPECIFICATION FairCSpec
CONSTANTS
  a1 = a1
  yes = yes  no = no
  codex = codex
  k1 = k1  f1 = f1  f2 = f2
  c1 = c1  c2 = c2
  NoKey = NoKey  NoAsk = NoAsk  NoResolution = NoResolution  Nobody = Nobody
  Actor = {a1}
  Decision = {yes, no}
  Source = {codex}
  Key = {k1, f1, f2}
  Ask <- SentAsk
  MaxRequests = 2
  Client = {c1, c2}
  Wants <- Asked
  Fresh <- Generated
  Attempts = 2
INVARIANTS OneObligation AnswerIsCanonical
PROPERTIES AskConcludes
CHECK_DEADLOCK FALSE
