SPECIFICATION Spec
CONSTANTS
  MaxRows = 2
  Replies <- MCReplies
  Matching <- MCMatching
  RepairSettings <- MCRepairSettings
  RecursionLimit = 25
  None = None
  Raised = Raised
INVARIANT PresentedSqlRan
INVARIANT OneOutcome
INVARIANT PartialRowsFlagged
INVARIANT AnswersDisclose
INVARIANT BoundedWork
PROPERTY Terminates
PROPERTY ImplementsContract
