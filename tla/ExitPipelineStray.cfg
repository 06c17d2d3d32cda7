\* A pass about the first attempt resolves the second.
SPECIFICATION Spec
CONSTANTS
  worker = worker
  sweep = sweep
  Reconcilers = {worker, sweep}
  Worker = worker
  MaxAttempts = 2
  Qty = 1
  MaxCrashes = 0
  FlushMayFail = FALSE
INVARIANT RetryOnlyWhenDead
CHECK_DEADLOCK FALSE
