\* A vGPU that does not say its host's driver.
SPECIFICATION Spec
CONSTANTS
  N = 1
  Images <- OtherOnly
INVARIANT MissingRecordIsError
CHECK_DEADLOCK FALSE
