CONSTANTS
  r = r
  a = a
  b = b
  B = B
  Keys = {r, a, b, B}
  Root = r
  Canon <- MCCanon
  SelfNames <- MCSelfNames
  Catalogs <- MCCatalogs
  Clients = {p, q}
  MaxTokens = 3
  MaxAttempts = 3
  Lifetime = 3
  MaxInterval = 2
  MaxLogins = 3
  MaxAuthKills = 1
  p = p
  q = q
SPECIFICATION MCSpec
INVARIANT KindsExact
INVARIANT TokenKept
PROPERTY Termination
PROPERTY ImplementsClosure
PROPERTY LoginEnds
CHECK_DEADLOCK FALSE
