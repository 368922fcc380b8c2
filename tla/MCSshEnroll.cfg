SPECIFICATION Spec
CONSTANTS
  c1 = c1
  c2 = c2
  k1 = k1
  k2 = k2
  Key <- MCKey
  User = {u1, u2}
  Token = {t1, t2}
  Conn <- MCConn
  Holds <- MCHolds
  Browser = {b1, b2}
  None = None
  Unknown = Unknown
SYMMETRY Interchange
INVARIANTS RightIdentity
PROPERTIES OnlyUnknownEnrolled OneOwner
CHECK_DEADLOCK FALSE
