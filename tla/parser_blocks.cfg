SPECIFICATION FairSpec
CONSTANTS
  Terminals <- BlockTerminals
  NonTerminals <- BlockNonTerminals
  Actions <- BlockActions
  Start = "START"
  End = "$"
  Table <- BlockTable
  FirstSets <- BlockFirst
  FollowSets <- BlockFollow
  EpsilonFirst <- NoEpsilon
  TokenTypes <- BlockTokens
  SkippedTypes = {"inlinecmt"}
  InputStreams <- Inputs
  MaxTokens = 4
INVARIANTS
  TypeOK
  BottomMarker
  TokensAccounted
  AcceptMeansMatched
  AcceptsSentences
PROPERTIES
  DerivesLeftmost
  Terminates
CHECK_DEADLOCK FALSE
