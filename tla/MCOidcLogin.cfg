SPECIFICATION Spec
CONSTANTS
  Browser = {b1, b2}
  Attempt = {a1, a2}
  Request = {r1, r2, r3}
  Account = {m, g}
  Member = {m}
  Place = {app, away}
  Valid = {app}
  Landing = home
  MaxRestarts = 1
  None = None
SYMMETRY Symmetry
INVARIANTS OwnConsent  LandsWhereAsked
CHECK_DEADLOCK FALSE
