SPECIFICATION BinarySpec
CONSTANTS
  Functions <- MCFunctions
  Entry = "f"
  Programs <- MCIndirectPrograms
  Names <- MCNames
  FlameInputs <- MCNoInputs
INVARIANT IndirectIsExplicit
CHECK_DEADLOCK FALSE
