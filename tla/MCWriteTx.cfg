SPECIFICATION FairSpec
CONSTANTS
  c1 = c1
  c2 = c2
  c3 = c3
  server = server
  admin = admin
  Process = {server, admin}
  Call = {c1, c2, c3}
  Caller <- CallerOf
  None = None
PROPERTIES ImplementsPromise CallsReturn
CHECK_DEADLOCK FALSE
