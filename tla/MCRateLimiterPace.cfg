SPECIFICATION Spec
CONSTANTS
  Threads = {t1, t2, t3}
  Rpm = 2
  Tpm = 9
  Rpd = 20
  Tpd = 20
  ReserveTokens = 0
  MaxWait = 2
  Minute = 3
  DayLength = 9
  Estimates = {1}
  Actuals = {1}
  RetryAfters = {2}
  RemainingTokens = {None}
  UsedRequests = {None}
  Horizon = 5
  None = None
SYMMETRY Symmetry
INVARIANT RequestsPaced
