SPECIFICATION MCSpec
CONSTANTS
  Users = {u1, u2}
  Rels = {"a", "b"}
  FirstFiles <- MCFirstFiles
  MaxVersion = 3
  MaxRuns = 2
  MaxKills = 1
  Exporters = {p1}
  Items = {i1, i2, i3}
  PathIn <- MCPathIn
  Configs = {c1}
  MaxExports = 2
  MaxEdits = 3
  MaxDeaths = 1
  Procs = {q1, q2}
  Dirs = {"pack", "inner"}
  Above <- MCAbove
  NoDir = NoDir
  Games <- MCGames
  Published <- MCPublished
  MaxCommands = 2
  MaxHand = 1
  MaxStops = 1
  Numbers <- MCNumbers
  MaxReleases = 2
  MaxQuestions = 1
  q1 = q1
  q2 = q2
  u1 = u1
  u2 = u2
  p1 = p1
  i1 = i1
  i2 = i2
  i3 = i3
  c1 = c1
INVARIANT NoVersionLost
 
INVARIANT ArchiveExact
INVARIANT NeverLockedOut
INVARIANT LastWord
INVARIANT RightVersion
SYMMETRY MCSymmetry
CHECK_DEADLOCK FALSE
