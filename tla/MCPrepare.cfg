SPECIFICATION PrepareSpec
CONSTANTS
  Procs = {p, q}
  Files = {"loaderlib", "installer", "profilelib", "versionlib", "output"}
  Class <- MCClass
  Modpacks <- MCModpacks
  MaxStarts = 2
  MaxKills = 1
  p = p
  q = q
INVARIANT LaunchSound
PROPERTY JdkSound
PROPERTY PrepareEnds
CHECK_DEADLOCK FALSE
