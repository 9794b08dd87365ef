SPECIFICATION TSpec
CONSTANTS
  p1 = p1  p2 = p2  p3 = p3
  c1 = c1  c2 = c2
  r1 = r1  r2 = r2
  f1 = f1  f2 = f2
  Absent = Absent  Empty = Empty  Torn = Torn
  NoCommand = NoCommand  NoHash = NoHash
  Process = {p1, p2, p3}
  Channel = {c1, c2}
  Runtime = {r1, r2}
  Foreign = {f1}
  Command <- Commands
SYMMETRY Symmetry
INVARIANTS ConfigIsSequential ForeignHandlersSurvive BackupRecovers TrustFitsRuntime
CHECK_DEADLOCK FALSE
