SPECIFICATION GSpec
CONSTANTS
  AnsweredItems <- MCAnsweredItems
  Values <- MCValues
  Null = Null
  NaN = NaN
INVARIANT VerdictIsAPairing
INVARIANT SearchIsSound
