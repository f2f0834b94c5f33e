CONSTANTS
  a = a
  x = x
  y = y
  t = t
  r1 = r1
  r2 = r2
  NoKey = NoKey
  Aliases = {a}
  Assets = {x, y}
  Temps = {t}
  Requests = {r1, r2}
  Second = 2
  AliasMaxAge = 1
  AliasStale = 0
  HandlerTime = 1
  MaxPublishes = 2
  Expiries = {3}
  Horizon = 4

SYMMETRY GatewaySymmetry
SPECIFICATION Spec

INVARIANTS
  GatewayInv
  ServedInTime
  AliasIsBounded
  AliasIsServed

CHECK_DEADLOCK FALSE
