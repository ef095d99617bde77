SPECIFICATION Spec
CONSTANTS
  Repeats <- MCRepeats
  Items <- MCItems
  Turns <- MCTurns
  Models = {m1, m2}
  MaxStarts = 3
  None = None
SYMMETRY Symmetry
INVARIANT AnswersAreOwn
INVARIANT StoredIsNotAskedAgain
INVARIANT NothingSkipped
PROPERTY ImplementsLedger
