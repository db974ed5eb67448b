SPECIFICATION MCSpec
CONSTANTS
  Suites <- RetiredSuite
  Rails <- MCRails
  Capable <- MCCapable
  AnswersOf <- MCAnswersOf
  Observed <- ObservedByReference
  SecondFaults <- SecondFaultAbsence
INVARIANT FilesAndRowsNameEachOther
CHECK_DEADLOCK FALSE
