SPECIFICATION Spec
CONSTANTS
  ClassNames = {"A", "B"}
  ParentLists <- BothClasses
  FunctionNames = {"f"}
  VariableNames = {"f", "p"}
  Types = {"int"}
  Visibilities = {"public"}
  ParamLists <- NoneOrTwice
  DimLists <- FlatOrOdd
  MaxInt = 8
  MaxSeen = 5
INVARIANT EveryFunctionIsDemanded
CHECK_DEADLOCK FALSE
