CONSTANTS
  FileCount = 2
  Large = {2}
  PartCount = 3
  Concurrency = 3
  Attempts = 2

SPECIFICATION FairSpec

INVARIANTS
  FinalizeIsComplete
  NothingLeftBehind

PROPERTIES
  KeepsClientContract
  EventuallyReturns

CHECK_DEADLOCK FALSE
