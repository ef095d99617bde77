SPECIFICATION PSpec
CONSTANTS
  Requests = {r1, r2, r3}
  Sessions = {s1, s2, s3}
  MaxSessions = 1
  MaxTurns = 1
  MaxRestarts = 1
  None = None
  Pages = {p1}
  Reloads = 1
INVARIANT ConversationIsContext
PROPERTY InputComesBack
