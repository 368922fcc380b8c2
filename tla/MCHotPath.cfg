SPECIFICATION Spec
CONSTANTS
  Slack = {anna, bob}
  Email = {x, y}
  gated = gated
  open = open
  r1 = r1
  Role <- MCRole
  Host <- MCHost
  Required <- MCRequired
  Sid = {s1}
  Req = {q1}
  Login = {l1}
  Admin = {a1}
  None = None
INVARIANTS FreshDecision RightPerson RevokedStaysOut GrantsKept
