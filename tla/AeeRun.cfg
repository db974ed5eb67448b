CONSTANTS
  Run <- TwoRuns
  Attack <- TwoAttacks
  Value = {"v1"}
  Statement <- MCStatement
  Policy <- MCPolicy
  SubstrateKey <- ObservationKey
  MaxDrops = 2
  DropBound <- MCDropBound
  Skeleton <- MCSkeleton
CHECK_DEADLOCK FALSE
SPECIFICATION Spec
INVARIANTS
  PassMeansQuietRun
  CleanRowCarriesTheRun
  CleanRowWasArmedFor
  HonestRunIsAccepted
  DemonstratedMeansCaught
PROPERTY
  ImplementsContract
CONSTRAINT
  OneAnyOrTwoPlain
