SPECIFICATION Spec
CONSTANTS
  Requests = {r1, r2, r3, r4}
  Sessions = {s1, s2, s3}
  MaxSessions = 2
  MaxTurns = 2
  MaxRestarts = 1
  None = None
SYMMETRY Symmetry
INVARIANT NoTurnLost
INVARIANT ContextIsOwn
PROPERTY FollowUpHasContext
PROPERTY EvictsOldest
