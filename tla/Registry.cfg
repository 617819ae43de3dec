SPECIFICATION Spec
CONSTANTS
  k1 = k1
  k2 = k2
  None = None
  MaxIndex = 3
  Keys = {k1, k2}
  Owners = {owner}
  NoTenant = NoTenant
  Names = {Plain}
  Plain = Plain
  Opening = Opening
  InitialDisks <- Disks
  Supplied <- Requested
  MaxEndpoints = 3
  MaxCalls = 1
  MaxTokens = 4
  MaxRestarts = 2
  MaxMisreads = 1
INVARIANTS
  AddressesDisjoint
  OneActivePerKey
  LiveHeartbeats
  ConfirmedIsFinal
  AddressNamesOneNode
PROPERTIES
  NoRecordVanishes
