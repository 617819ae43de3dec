SPECIFICATION Spec
CONSTANTS
  None = None
  Width <- Bits
  Net <- Overlay
  NetPrefix <- Prefixes
  Names = {"", "gw", "GW", "box"}
  Lower <- Folded
  Blank = ""
  Tags = {"*", "old", "net", "lab", "pc"}
  Star = "*"
  Users = {"ann", "bob"}
  Lan <- Here
  Exits <- Either
  Acls <- Lists
  Lines <- File
  Maps <- Sent
INVARIANTS
  OverlayFirst
  ViaGateway
  OneRuleAllows
  NotCaptured
  NameReachesBearer
