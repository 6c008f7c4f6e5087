SPECIFICATION BinarySpec
CONSTANTS
  Functions <- MCFunctions
  Entry = "f"
  Programs <- MCPrograms
  Names <- MCNames
  FlameInputs <- MCFlameInputs
INVARIANTS
  ReachedExactly
  LoopsAndDepthExact
  FlameIsComplete
  ToolsAgree
CHECK_DEADLOCK FALSE
