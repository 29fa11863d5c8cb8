\* Two requests for one key, one worker and the scheduler, under Fairness.
CONSTANTS
  j1 = j1
  j2 = j2
  w1 = w1
  s1 = s1
  key = key
  None = None
  Jobs = {j1, j2}
  Workers = {w1}
  Schedulers = {s1}
  Key <- SameKey
  Rank <- RankHighLow
  MaxAttempts <- TwoAttempts
  Lease = 1
  HandlerLease <- Leases
  TxTimeout = 1
  MaxDelay = 0
  Batch = 1
  AgeCap = 3
  AttemptLimit = 2
SPECIFICATION FairSpec
CHECK_DEADLOCK FALSE
INVARIANTS OneActivePerKey
PROPERTIES TerminalIsFinal EveryJobEnds
