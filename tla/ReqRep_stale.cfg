CONSTANTS
  Clients = {c1}
  Servers = {s1}
  MaxReq = 2
SPECIFICATION Spec
INVARIANT ReplyIsCurrent
