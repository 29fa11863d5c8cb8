\* One job, two workers and the recovery scheduler; one screen and others on one or two orders.
CONSTANTS
  j1 = j1
  w1 = w1
  w2 = w2
  s1 = s1
  key = key
  None = None
  Jobs = {j1}
  Workers = {w1, w2}
  Schedulers = {s1}
  Key <- OneKey
  Rank <- OneRank
  MaxAttempts <- OneTwo
  Lease = 1
  HandlerLease <- OneLease
  TxTimeout = 1
  MaxDelay = 1
  Batch = 1
  AgeCap = 3
  AttemptLimit = 2
  Nobody = Nobody
  Orders = {1, 2}
  ByCourier = {2}
  Starts <- SomeStarts
  OthersBound = 2
  FaultBound = 1
SPECIFICATION AllSpec
CHECK_DEADLOCK FALSE
INVARIANTS AttemptLedger LeaseSafe KitchenSafe
PROPERTIES LeaseHolds ImplementsQueue BoardCatchesUp
