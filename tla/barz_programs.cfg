SPECIFICATION BuildSpec
CONSTANTS
  Terminals <- BarzTerminals
  NonTerminals <- BarzNonTerminals
  Actions <- MCActions
  Start = "START"
  End = "$"
  Table <- MCTable
  FirstSets <- MCFirst
  FollowSets <- MCFollow
  EpsilonFirst <- NoEpsilon
  TokenTypes <- BarzTokenTypes
  SkippedTypes = {}
  InputStreams <- BuiltAndDamaged
  AccessLength = 8
  ExpressionLength = 10
  ControlLength = 12
  DeclarationLength = 15
  DamagedLength = 5
INVARIANTS
  StaysDefined
  LeavesOneTree
  SpellsProgram
  KeepsPrecedence
CHECK_DEADLOCK FALSE
