CONSTANTS
  s1 = s1
  s2 = s2
  s3 = s3
  s4 = s4
  s5 = s5
  c1 = c1
  c2 = c2
  NoSession = NoSession
  FileCount = 1
  Large = {1}
  Parts = {1, 2}
  Concurrency = 2
  Sessions = {s1, s2, s3}
  Calls = {c1, c2}
  FreshFor = 2
  UploadExpiry = 2
  MaxFaults = 2

SPECIFICATION Spec

PROPERTIES
  ProgressKept

CHECK_DEADLOCK FALSE
