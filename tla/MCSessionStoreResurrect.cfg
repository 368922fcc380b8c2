CONSTANTS
  Sid = {s1}
  User = {u1}
  Caller = {c1, c2}
  Res = 2
  IdleTimeout = 5
  Lifetime = 8
  TouchThrottle = 2
  MaxClock = 7
  None = None
SPECIFICATION Spec
PROPERTIES NeverResurrects
