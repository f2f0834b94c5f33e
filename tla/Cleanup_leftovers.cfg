CONSTANTS
  m = m
  n = n
  p = p
  r1 = r1
  r2 = r2
  c1 = c1
  k1 = k1
  NoSession = NoSession
  Sessions = {p}
  Requests = {r1}
  Multipart = {}
  Temporary = {p}
  Parts = {1}
  UploadExpiry = 1
  Retention = 2
  HandlerTime = 1
  Horizon = 2
  Cleaners = {c1}
  Reconcilers = {k1}
  MultipartSafety = 1
  ReconcileSafety = 1
  DayLength = 2
  MaxFaults = 1
  Undated = {}

SPECIFICATION FairSpec

PROPERTIES
  ExpiredObjectsDeleted
  OrphansDeleted

CHECK_DEADLOCK FALSE
