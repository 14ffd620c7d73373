CONSTANTS
  Layouts <- RightLayouts
  MaxHeight = 7
  Meanings <- RightMeanings
  Code <- LinesOfCode
  Inputs <- RightInputs
SPECIFICATION Spec
INVARIANTS
  WritesTheMeaning
  ReturnsToItsCall
  CallsKeepTheFrames
  RegistersAreFreed
PROPERTIES
  Halts
