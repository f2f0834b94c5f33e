CONSTANTS
  m = m
  p = p
  r1 = r1
  r2 = r2
  r3 = r3
  NoSession = NoSession
  Sessions = {m, p}
  Requests = {r1, r2}
  Multipart = {m}
  Temporary = {p}
  Parts = {1}
  UploadExpiry = 1
  Retention = 2
  HandlerTime = 1
  Horizon = 3

SYMMETRY RequestSymmetry
SPECIFICATION Spec

INVARIANTS
  TrackedIsStored
  AbortedIsClosed

PROPERTIES
  ObjectsSettle
  TrackedInTime
  KeepsContract

CHECK_DEADLOCK FALSE
