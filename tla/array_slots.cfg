CONSTANTS
  Layouts <- ArrayLayouts
  MaxHeight = 7
  Meanings <- ArrayMeanings
  Code <- LinesOfCode
  Inputs <- ArrayInputs
SPECIFICATION Spec
INVARIANT
  ElementsAreInArrays
