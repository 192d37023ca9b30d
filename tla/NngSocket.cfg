CONSTANTS
  Sockets = {s1, s2, s3}
  Parts = {p1, p2}
  MaxRefs = 2
  MaxFailed = 1
SPECIFICATION Spec
SYMMETRY SocketSymmetry
INVARIANTS LiveSocketUsable NoStrayPart
CHECK_DEADLOCK FALSE
