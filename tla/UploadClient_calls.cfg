CONSTANTS
  s1 = s1
  s2 = s2
  s3 = s3
  s4 = s4
  s5 = s5
  c1 = c1
  c2 = c2
  NoSession = NoSession
  FileCount = 2
  Large = {2}
  Parts = {1, 2, 3}
  Concurrency = 2
  Sessions = {s1, s2, s3, s4, s5}
  Calls = {c1, c2}
  FreshFor = 1
  UploadExpiry = 2
  MaxFaults = 2

SPECIFICATION FairSpec

INVARIANTS
  ClientInv
  CountedPartsAreStored
  FinalizeIsComplete

PROPERTIES
  KeepsClientContract
  EventuallyUploaded

CHECK_DEADLOCK FALSE
