CONSTANTS
  Ast <- MCAst
  Builtins <- MCBuiltins
  Programs <- MCControl
  MAX_RECURSION_DEPTH = 3
  IntBits = 4
SPECIFICATION PipelineSpec
INVARIANTS
  ReturnsOnlyInCalls
