SPECIFICATION FairSpec
CONSTANTS
  Programs <- AllPrograms
  Nodes <- AllNodes
  Trees <- AllTrees
  Tables <- AllTables
  BaseTypes <- Texts
  DimLists <- Sizes
  LowerCase <- Lower
INVARIANTS
  MistakesAreFound
  ReportsAreJust
  OwnContext
  CyclesAreFound
PROPERTY SearchEnds
CHECK_DEADLOCK FALSE
