CONSTANTS
  AcceptOrder <- MCAcceptOrder
  RejectOrder <- MCRejectOrder
  IndOrder <- MCIndOrder
  Short <- MCShort
  Bodies <- MCBodies
  Valid <- MCValid
  Result <- MCResult
  Mutations <- MCMutations
  Unsound <- MCUnsound
  Sources <- MCSources
  HandPlaced <- MCHandPlaced
  FirstSource <- Sound
  MaxMishaps = 2
  Vectors    = {v1, v2}
  Developers = {d1, d2}
  Copies     = {r1}
  First      = {v1}
  Recorded   = {}
  NoStamp    = NoStamp
  MaxEdits   = 3
SPECIFICATION CorpusSpec
CHECK_DEADLOCK FALSE
INVARIANT OneStatementOneRow
