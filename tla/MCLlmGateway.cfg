SPECIFICATION Spec
CONSTANTS
  Calls = {c1, c2, c3}
  Questions = {q1, q2}
  MaxRestarts = 1
  None = None
SYMMETRY Symmetry
INVARIANT ResultsAreGenuine
INVARIANT RecordsMatchOutcomes
PROPERTY StoredIsReused
