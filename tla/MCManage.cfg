CONSTANTS
  a = a
  b = b
  a1 = a1
  a2 = a2
  cfA = cfA
  mrA = mrA
  cfB = cfB
  mrB = mrB
  b1 = b1
  b2 = b2
  x = x
  y = y
  NoItem = NoItem
  NoUpdate = NoUpdate
  NoOp = NoOp
  Items <- MCItems
  Sources <- MCSources
  IdOf <- MCIdOf
  SlugOf <- MCSlugOf
  Finds <- MCFinds
  Start <- MCStart
  VersionsOf <- MCVersionsOf
  Values <- MCValues
  Editable <- MCAll
  Provided <- MCSome
  Default = x
  MaxEdits = 1
  MaxTasks = 2
  MaxFaults = 1
SPECIFICATION Spec
INVARIANT VersionsBelong
INVARIANT ShownIsSaved
PROPERTY VersionOnlyByChoice
PROPERTY DepsNeverReturn
PROPERTY ProgressEnds
CHECK_DEADLOCK FALSE
