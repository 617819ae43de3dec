SPECIFICATION FairSpec
CONSTANTS
  a = a
  b = b
  Nodes = {a, b}
  Relay = Relay
  None = None
  Talkers = {a}
  Reachable <- Everyone
  Advertise = FALSE
  Duplicates = FALSE
  Timely = TRUE
  Warm = TRUE
  Restarters = {b}
  MaxEph = 8
  MaxData = 3
  MaxRestart = 1
  MaxFaults = 0
PROPERTIES
  Recovers
