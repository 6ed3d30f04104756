CONSTANTS
  a = a
  b = b
  c = c
  d = d
  h1 = h1
  h2 = h2
  none = none
  Mods <- MCMods
  Hashes <- MCHashes
  NoHash = none
  HashOf <- MCHashOf
  MaxConcurrent = 2
  MaxRetries = 1
  MaxKills = 1
SPECIFICATION Spec
INVARIANT JarsVerified
INVARIANT SummaryHonest
PROPERTY Termination
