SPECIFICATION SelSpec
CONSTANTS
  Runs <- MCRuns
  Entries <- MCEntries
  Boards <- MCBoards
  Limits <- MCLimits
  LastDay = 2
  Margin = 2400
  Unit = 1200
  Unset = Unset
INVARIANT FactorsInRange
INVARIANT RankIsTheRule
PROPERTY ReportIsReproducible
