SPECIFICATION Spec
CONSTANTS
  Browser = {b1}
  Attempt = {a1}
  Request = {r1}
  Account = {m, g}
  Member = {m}
  Place = {app, away}
  Valid = {app}
  Landing = home
  MaxRestarts = 0
  None = None
PROPERTY ActiveStaysSignedIn
CHECK_DEADLOCK FALSE
