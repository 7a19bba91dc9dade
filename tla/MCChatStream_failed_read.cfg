\* The read of the conversation may fail.
CONSTANTS
  MaxPublished = 1
  Lossy = FALSE
  ReadFails = TRUE
SPECIFICATION Spec
CHECK_DEADLOCK FALSE
INVARIANTS
  FailedReadSurvives
