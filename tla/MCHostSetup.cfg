SPECIFICATION MCSpec
CONSTANTS
  p1 = p1
  p2 = p2
  k1 = k1
  k2 = k2
  k3 = k3
  o1 = o1
  Nil = Nil
  Pid = {p1, p2}
  Shell = {o1}
  Key = {k1, k2, k3}
  KeyFile <- MCKeyFile
INVARIANTS
  HostInv
  ServedKeyIsOnDisk
  ServiceHasItsHost
PROPERTIES
  KeysAreForever
  
  NoHalfService
  ServiceComesUp
CHECK_DEADLOCK FALSE
