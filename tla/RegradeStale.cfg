CONSTANTS
  CollectedFile <- FixtureCollected
  AgentFile <- FixtureAgentFile
  Size <- FixtureSize
  Trajectory <- FixtureTrajectory
  TextReward <- FixtureText
  JsonReward <- FixtureJson
  Start <- Case
  Verifier = {"strict", "silent"}
  Edited <- FixtureEdited
  MaxJobs = 2
  MaxEdits = 0
SPECIFICATION Spec
INVARIANT
  RewardIsOfTheVerifier
CHECK_DEADLOCK FALSE
