CONSTANTS
  Messages = {m1, m2}
  MaxBytes = 2
  MaxHeader = 1
  MaxCap = 3
  Headroom = 1
  Grow = 2
  UsizeMax = 127
  PowersOfTwo = {1, 2, 4, 8, 16, 32, 64}
  Pointers = {p1, p2}
  Null = Null
  Holders = {h1, h2, h3}
  MaxLen = 1
  MaxQueue = 2
  Parts = {"anng", "nng"}
SPECIFICATION Spec
INVARIANT OneHolder
PROPERTY KeepsPlace
