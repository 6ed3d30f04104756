CONSTANTS
  main = main
  t1 = t1
  Users <- MCUsers
  Main = main
  Evictors <- MCEvictors
  MaxVersion = 3
  MaxCalls = 2
  Writers = {"w1"}
  Inodes = {"i1", "i2", "i3"}
  MaxWrites = 3
  Size <- MCSize
  FsyncParent = TRUE
SPECIFICATION MCSpec
INVARIANT NothingForgotten
INVARIANT SyncMeansSaved
INVARIANT CleanExitSaved
INVARIANT ResultHonest
PROPERTY SavedNeverGoesBack
PROPERTY FlushHappens
PROPERTY DropReturns
PROPERTY ImplementsAtomicFile
