CONSTANTS
  Statement <- OneEditStatement
  Policy <- OnePolicy
SPECIFICATION Spec
INVARIANTS
  EitherRailRecomputes
