CONSTANTS
  m = m
  n = n
  p = p
  r1 = r1
  r2 = r2
  c1 = c1
  k1 = k1
  NoSession = NoSession
  Sessions = {m, n}
  Requests = {r1}
  Multipart = {m, n}
  Temporary = {}
  Parts = {1}
  UploadExpiry = 1
  Retention = 1
  HandlerTime = 1
  Horizon = 1
  Cleaners = {c1}
  Reconcilers = {}
  MultipartSafety = 1
  ReconcileSafety = 1
  DayLength = 2
  MaxFaults = 1
  Undated = {n}

SPECIFICATION FairSpec

PROPERTIES
  AbandonedUploadsClosed

CHECK_DEADLOCK FALSE
