\* The attestor stops when it has signed.
CONSTANTS
  Statement <- EditedStatement
  Policy <- MCPolicy
  Path <- MCPath
  Before <- MCBefore
  Content <- MCContent
  Directory <- MCDirectory
  Configuration <- MCConfiguration
  MaxChanges = 1
SPECIFICATION CallersSpec
INVARIANTS
  DefensiveBranchesUnreached
  CarriedInterceptionForcesFail
  EveryAttackIsAccounted
  PassIsWitnessed
  QACheckPredictsAdmission
  RailsReachOneVerdict
  SignedIsAdmitted
CHECK_DEADLOCK FALSE
