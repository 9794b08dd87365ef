SPECIFICATION BSpec
CONSTANTS
  a1 = a1  a2 = a2  a3 = a3
  yes = yes  no = no
  codex = codex  cursor = cursor  k1 = k1
  NoKey = NoKey  NoAsk = NoAsk  NoResolution = NoResolution  Nobody = Nobody
  Actor = {a1, a2, a3}
  Decision = {yes, no}
  Source = {codex, cursor}
  Key = {k1}
  Ask <- QuorumAsk
  MaxRequests = 3
  ops = ops  Never = Never
  Group = {ops}
  Policy <- Policies
  Default <- Defaults
  Traits <- TraitsOf
  MaxClock = 2
CONSTRAINT Bound
INVARIANTS InterruptsWithinBudget TypeOK NoQuorumLeftWaiting ResolutionBacked ClaimedMeansOwnedOrVoted
