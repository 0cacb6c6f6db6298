CONSTANTS
  SourceNames = {"a.c", "b.h", "l.h"}
  Dashed = {"-o", "-i", "-l", "-h", "-x"}
  NoDir = NoDir
  Unreadable = Unreadable
  MaxPieces = 5
SPECIFICATION MCSpec
INVARIANTS ArgsUnderstood SourcesRight OutputsMirror TokensHoldText RenamingHolds FunctionsApart
PROPERTY ScanEnds
CHECK_DEADLOCK FALSE
