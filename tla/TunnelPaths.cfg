SPECIFICATION Spec
CONSTANTS
  a = a
  b = b
  Nodes = {a, b}
  Relay = Relay
  None = None
  Talkers = {a}
  Reachable <- Everyone
  Advertise = TRUE
  Duplicates = TRUE
  Timely = FALSE
  Warm = FALSE
  Restarters = {b}
  MaxEph = 1
  MaxData = 1
  MaxRestart = 1
  MaxFaults = 1
INVARIANTS
  PathsLeadToPeer
