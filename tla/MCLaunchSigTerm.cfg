SPECIFICATION Spec
CONSTANTS
  Mods = {a, b}
  Slugs = {"s"}
  Slug <- MCSlug
  MaxVersion = 2
  Configured = {a}
  None = None
  Own = Own
  a = a
  b = b
  MaxLaunches = 2
  MaxEdits = 1
  MaxSignals = 2
PROPERTY SigTermForwarded
CHECK_DEADLOCK FALSE
