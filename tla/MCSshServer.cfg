SPECIFICATION FairSpec
CONSTANTS
  Port = {p1}
  Conn = {c1, c2}
  User = {u1, u2}
  None = None
INVARIANTS OnlyNamedAreForced CleanMeansQuiet
PROPERTIES SignalEnds ForcedEnds
CHECK_DEADLOCK FALSE
