CONSTANTS
  m = m
  n = n
  p = p
  r1 = r1
  r2 = r2
  c1 = c1
  k1 = k1
  NoSession = NoSession
  Sessions = {m}
  Requests = {r1}
  Multipart = {m}
  Temporary = {m}
  Parts = {1}
  UploadExpiry = 1
  Retention = 4
  HandlerTime = 1
  Horizon = 4
  Cleaners = {c1}
  Reconcilers = {k1}
  MultipartSafety = 3
  ReconcileSafety = 3
  DayLength = 2
  MaxFaults = 1
  Undated = {}

SYMMETRY RequestSymmetry
SPECIFICATION SystemSpec

INVARIANTS
  SystemInv
  RecordedSurvives

PROPERTIES
  KeepsContract
  LiveUploadKept

CHECK_DEADLOCK FALSE
