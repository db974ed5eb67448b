\* Two gates over a corpus that is edited once, and three processes at the lock.
SPECIFICATION GatesSpec
CONSTANTS
  Gate = {g1, g2}
  Corpora = {"old", "new"}
  Rails = {"old"}
  Site <- GoneSite
  Truth <- GoneTruth
  SitesOf <- MCSitesOf
  FirstTree <- Old
  FirstBaseline <- GoneBaselines
  Edits <- CorpusForward
  Annotators = {"s2"}
  Mode <- MCMode
  Workers = 2
  Process = {p1, p2, p3}
  Nobody = Nobody
INVARIANTS
  OkMeansForced
  RecordIsTrue
  NoStaleLock
PROPERTIES
  NoSilentLoss
  CampaignEnds
  ImplementsSingleInstance
