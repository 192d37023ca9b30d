CONSTANTS
  Topics <- MCTopics
  Contents <- MCContents
  MaxPub = 3
  Capacity = 2
  Others = {2, 3}
  MaxSent = 2
  Room = 1
SPECIFICATION Spec
INVARIANTS ArrivalOrder DeliveredInOrder NoWorkLost
CHECK_DEADLOCK FALSE
