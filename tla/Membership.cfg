SPECIFICATION FairSpec
CONSTANTS
  k1 = k1
  k2 = k2
  k3 = k3
  None = None
  MaxIndex = 4
  Keys = {k1, k2, k3}
  Saved <- Given
  Hidden = {k1}
  Interval = 1
  Slack = 1
  TTL = 4
  Misses = 1
  InitialEndpoints <- Two
  InitialFile <- Seeded
  MaxEvents = 3
INVARIANTS
  EntriesNameOwner
  StaysOnline
PROPERTIES
  Converges
CHECK_DEADLOCK FALSE
