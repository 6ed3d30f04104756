SPECIFICATION MCSpec
CONSTANTS
  Procs = {p1, p2}
  Jars = {"j1", "j2"}
  Games = {"g1", "g2"}
  Loaders = {"l1"}
  SizeOf <- MCSizeOf
  DirOf <- MCDirOf
  Limit = 1
  Width = 32
  MaxClock = 2
  MaxCommands = 2
  Tasks = {t1, t2}
  Urls = {"a", "b"}
  Names = {"x", "y"}
  Hashes <- MCHashes
  MaxAge = 0
  MaxEntries = 1
  MaxRetries = 1
  MaxVersion = 2
  MaxTime = 2
  MaxCalls = 3
  MaxFaults = 1
  p1 = p1
  p2 = p2
  t1 = t1
  t2 = t2
SYMMETRY MCSymmetry
INVARIANT AnswerFresh
INVARIANT CapHolds
INVARIANT CleanReachesLimit
PROPERTY EvictionJustified
CHECK_DEADLOCK FALSE
