SPECIFICATION Spec
CONSTANTS
  Keys <- MCKeys
  Runs <- MCRuns
  JudgedRuns <- MCJudgedRuns
  PerTier = 1
  Labels <- MCLabels
  Scores = {2, 4}
  WithinOneMin = 60
  PassMatchMin = 60
  MaxStarts = 4
  None = None
INVARIANT SelectionIsTheRule
PROPERTY ImplementsLedger
PROPERTY TrustIsKept
