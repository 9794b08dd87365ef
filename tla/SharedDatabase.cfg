SPECIFICATION MCSpec
CONSTANTS
  b1 = b1  b2 = b2
  NoFile = NoFile
  Backup = {b1, b2}
  MaxTurn = 2
  MaxEvents = 4
  BackupEvents = 1
SYMMETRY Symmetry
CONSTRAINT Bound
INVARIANTS ContextOfItsTurn PresenceIsNewestReport BackupsFitTheirLog
PROPERTIES KeepsWhatWasThere
CHECK_DEADLOCK FALSE
