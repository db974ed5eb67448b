SPECIFICATION MCSpec
CONSTANTS
  Suites <- AllSuites
  Rails <- MCRails
  Capable <- MCCapable
  AnswersOf <- MCAnswersOf
  Observed <- ObservedByReference
  SecondFaults <- SecondFaultAbsence
INVARIANTS
  GeneratorsWroteTheCorpus
  EveryVectorConforms
  OneReadingExplainsFamily
  ExitZeroIsEarned
PROPERTIES
  SilenceNeverPasses
  EveryRunEnds
CHECK_DEADLOCK FALSE
