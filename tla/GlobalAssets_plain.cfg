CONSTANTS
  a1 = a1
  a2 = a2
  f1 = f1
  f2 = f2
  p1 = p1
  p2 = p2
  m1 = m1
  t1 = t1
  t2 = t2
  NoFile = NoFile
  ContentTypes = {t1, t2}
  Declared <- OneEach
  BucketCount = 2
  Aliases = {a1, a2}
  Files = {f1, f2}
  Publishers = {p1}
  Mirrors = {m1}
  ListsPlain = TRUE
  MaxRuns = 3
  Foreign = {}

SYMMETRY AssetSymmetry
SPECIFICATION Spec

PROPERTIES
  RefusedOnlyOnConflict

CHECK_DEADLOCK FALSE
