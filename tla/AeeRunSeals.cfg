CONSTANTS
  Run <- TwoRuns
  Attack <- TwoAttacks
  Value = {"v1"}
  Statement <- MCStatement
  Policy <- MCPolicy
  SubstrateKey <- ObservationKey
  MaxDrops = 2
  DropBound <- MCDropBound
  Skeleton <- MCSkeleton
CHECK_DEADLOCK FALSE
SPECIFICATION Spec
INVARIANT
  DemonstratedIsSealed
CONSTRAINT
  OneAnyOrTwoPlain
