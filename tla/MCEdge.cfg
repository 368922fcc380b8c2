SPECIFICATION Spec
CONSTANTS
  RoleName = {"dev", "ops"}
  MaxPort = 4
  MaxRange = 2
  DefaultLifetime = 30
  DefaultIdle = 14
  None = None
  Key <- Keys
  PerMinute <- Rate
  Minute = 2
  MaxClock = 3
  Client = {c1}
  Address <- Addresses
  Person <- People
  Env <- Envs
  URL <- URLs
  ReturnTo <- Asked
  Inbound <- Inbounds
  Secret = "s"
  MaxRestarts = 1
INVARIANTS  ServesAsConfigured ComesBack OnlyTrustedHeaders BurstBounded
 
CHECK_DEADLOCK FALSE
