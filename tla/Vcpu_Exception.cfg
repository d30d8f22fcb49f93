\* One guest, whose kernel may take an exception.
SPECIFICATION FairSpec
CONSTANTS
  NoThread = NoThread
  NGuests = 1
  Iterations = 2
  Threshold = 5
  Failures = {"el1_exception"}
PROPERTY
  FailureEndsInError
