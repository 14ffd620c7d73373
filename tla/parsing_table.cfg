SPECIFICATION Spec
CONSTANTS
  Terminals <- BarzTerminals
  NonTerminals <- BarzNonTerminals
  Actions <- BarzActions
  Start = "START"
  End = "$"
  Table <- BarzTable
  Rows <- BarzRows
  Columns <- BarzColumns
INVARIANTS FollowIsSound TableIsLL1 EndsAtFixpoint
PROPERTY Terminates
CHECK_DEADLOCK FALSE
