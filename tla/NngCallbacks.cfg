CONSTANTS
  Threads = {t1, t2}
  Slots = {c1, c2}
  Msgs = {m1, m2}
  MaxOps = 3
  NULL = NULL
  Callers = {t1, t2}
  Pipes = {p1, p2}
  MaxGen = 3
SPECIFICATION CallbackSpec
INVARIANTS CallbackFindsOperation NoUseAfterFree ClosureAlive NoEventMissed
PROPERTIES CallbackPromise DropCompletes ResultDelivered RegisterReturns
CHECK_DEADLOCK FALSE
