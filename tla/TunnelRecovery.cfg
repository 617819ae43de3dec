SPECIFICATION FairSpec
CONSTANTS
  a = a
  b = b
  Nodes = {a, b}
  Relay = Relay
  None = None
  Talkers = {a}
  Reachable = {}
  Advertise = FALSE
  Duplicates = FALSE
  Timely = TRUE
  Warm = TRUE
  Restarters = {a, b}
  MaxEph = 6
  MaxData = 2
  MaxRestart = 1
  MaxFaults = 1
INVARIANTS
  SameKeys
PROPERTIES
  NoSpuriousTeardown
  Recovers
