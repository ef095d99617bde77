SPECIFICATION Spec
CONSTANTS
  MaxAttempts = 3
  MaxWait = 2
  MaxBackoff = 1
  RetryAfters <- MCRetryAfters
  None = None
INVARIANT WorkBounded
INVARIANT GivesUpForAReason
INVARIANT RetryAfterHonoured
