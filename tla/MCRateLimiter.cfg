SPECIFICATION Spec
CONSTANTS
  Threads = {t1, t2}
  Rpm = 2
  Tpm = 3
  Rpd = 3
  Tpd = 5
  ReserveTokens = 1
  MaxWait = 2
  Minute = 2
  DayLength = 3
  Estimates <- MCEstimates
  Actuals <- MCActuals
  RetryAfters <- MCRetryAfters
  RemainingTokens <- MCRemaining
  UsedRequests <- MCUsed
  Horizon = 4
  None = None
SYMMETRY Symmetry
INVARIANT DebtBounded
PROPERTY QueueFairly
INVARIANT DayRequestsKept
INVARIANT DayTokensKept
PROPERTY BlockHonoured
