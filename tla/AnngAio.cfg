CONSTANTS
  Out = {m1, m2, m3}
  MaxIn = 3
  NULL = NULL
SPECIFICATION FairSpec
INVARIANTS NoPanic InOrder OneOwner JoinIsShort CleanWhenIdle NoLeak
PROPERTIES CancelCompletes CompletionReturns CancellationSafe
CHECK_DEADLOCK FALSE
