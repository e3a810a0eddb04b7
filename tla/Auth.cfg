SPECIFICATION Spec
CONSTANTS
  r1 = r1  r2 = r2  r3 = r3  u1 = u1  u2 = u2  prod = prod  dev = dev
  k1 = k1  k2 = k2  t1 = t1  t2 = t2
  Requests = {r1, r2}
  Threads = {t1, t2}
  Users = {u1}
  Domains = {prod, dev}
  NoDomain = NoDomain
  Keys = {k1, k2}
  ForeignKey = ForeignKey
  NoToken = NoToken
  Nobody = Nobody
  ExpiresIn = 1
  MaxTime = 2
SYMMETRY Symmetric
INVARIANTS
  AdmissionRestsOnLogin
  ClosedAccountsRunOut
  HandedTokensAudited
  TypeOK
  NoIdentityLeak
  MgmtIsolation
  DomainsSeparated
PROPERTIES
  ServesBySession
CHECK_DEADLOCK FALSE
