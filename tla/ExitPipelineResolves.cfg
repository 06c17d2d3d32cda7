\* The same with one lot: every unresolved attempt is resolved in the end.
SPECIFICATION FairSpec
CONSTANTS
  worker = worker
  sweep = sweep
  Reconcilers = {worker, sweep}
  Worker = worker
  MaxAttempts = 2
  Qty = 1
  MaxCrashes = 1
  FlushMayFail = FALSE
PROPERTY UnresolvedResolves
CHECK_DEADLOCK FALSE
