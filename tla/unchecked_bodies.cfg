SPECIFICATION Spec
CONSTANTS
  Programs <- AllPrograms
  Nodes <- AllNodes
  Trees <- AllTrees
  Tables <- AllTables
  BaseTypes <- Texts
  DimLists <- Sizes
  LowerCase <- Lower
INVARIANT EveryBodyIsChecked
CHECK_DEADLOCK FALSE
