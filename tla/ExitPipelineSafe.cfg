\* Worker and sweep overlap freely, over two attempts, two lots and a crash.
SPECIFICATION Spec
CONSTANTS
  worker = worker
  sweep = sweep
  Reconcilers = {worker, sweep}
  Worker = worker
  MaxAttempts = 2
  Qty = 2
  MaxCrashes = 1
  FlushMayFail = FALSE
INVARIANTS
  TypeOK
  AtMostOneLive
  ReleasedIsDead
  
  IdentityBeforeWire
PROPERTIES
  ImplementsAuthority
  ClosedStaysClosed
CHECK_DEADLOCK FALSE
