\* One guest, in whose name seL4 may deliver a fault.
SPECIFICATION FairSpec
CONSTANTS
  NoThread = NoThread
  NGuests = 1
  Iterations = 2
  Threshold = 5
  Failures = {"sel4_fault"}
PROPERTY
  FailureEndsInError
