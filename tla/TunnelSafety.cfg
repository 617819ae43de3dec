SPECIFICATION Spec
CONSTANTS
  a = a
  b = b
  Nodes = {a, b}
  Relay = Relay
  None = None
  Talkers = {a, b}
  Reachable = {}
  Advertise = FALSE
  Duplicates = TRUE
  Timely = FALSE
  Warm = FALSE
  Restarters = {}
  MaxEph = 2
  MaxData = 1
  MaxRestart = 0
  MaxFaults = 0
INVARIANTS
  NonceUnique
  HandedAtMostOnce
PROPERTIES
  YoungHandshakeKept
