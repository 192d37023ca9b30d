CONSTANTS
  Messages = {m1}
  MaxBytes = 3
  MaxHeader = 1
  MaxCap = 8
  Headroom = 0
  Grow = 2
  UsizeMax = 127
  PowersOfTwo = {1, 2, 4, 8, 16, 32, 64}
  Pointers = {}
  Null = Null
  Holders = {}
  MaxLen = 0
  MaxQueue = 0
  Parts = {"anng"}
SPECIFICATION Spec
INVARIANT SliceInBuffer
