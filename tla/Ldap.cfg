SPECIFICATION FairSpec
CONSTANTS
  l1 = l1  l2 = l2  l3 = l3  u1 = u1  u2 = u2  p1 = p1  p2 = p2
  Logins = {l1, l2}
  Users = {u1}
  DNs = {p1}
  NoEntry = NoEntry
  PoolMax = 1
  TTL = 1
  Interval = 1
  MaxCall = 1
  MaxTime = 5
INVARIANTS
  RefusedOnlyIfStale
  TypeOK
  PoolExact
  SomeLoginGoesOn
PROPERTIES
  EveryLoginAnswered
CHECK_DEADLOCK FALSE
