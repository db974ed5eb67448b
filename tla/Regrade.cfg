CONSTANTS
  CollectedFile <- FixtureCollected
  AgentFile <- FixtureAgentFile
  Size <- FixtureSize
  Trajectory <- FixtureTrajectory
  TextReward <- FixtureText
  JsonReward <- FixtureJson
  Start <- Case
  Verifier = {"strict", "changed", "meddler", "none"}
  Edited <- FixtureEdited
  MaxJobs = 2
  MaxEdits = 1
SPECIFICATION Spec
INVARIANTS
  VerifiedGradeIsReal
  LineageIsOneArchive
  UndisturbedRegradeHasLineage
  AbsenceIsNotFailure
  VerifiersAgree
  CorpusIsWhatItSays
CHECK_DEADLOCK FALSE
