SPECIFICATION BuildSpec
CONSTANTS
  Terminals <- BarzTerminals
  NonTerminals <- BarzNonTerminals
  Actions <- MCActions
  Start = "START"
  End = "$"
  Table <- MCTable
  FirstSets <- MCFirst
  FollowSets <- MCFollow
  EpsilonFirst <- NoEpsilon
  TokenTypes <- BarzTokenTypes
  SkippedTypes = {}
  InputStreams <- EmptyBodies
  AccessLength = 8
  ExpressionLength = 10
  ControlLength = 7
  DeclarationLength = 15
  DamagedLength = 5
INVARIANT StatementsJoinTheBlock
CHECK_DEADLOCK FALSE
