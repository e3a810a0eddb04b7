SPECIFICATION Spec
CONSTANTS
  r1 = r1  r2 = r2  r3 = r3  a1 = a1  a2 = a2  g1 = g1  g2 = g2  asm1 = asm1
  n1 = n1  u1 = u1  u2 = u2  foreign = foreign  c1 = c1  C1 = C1
  Requests = {r1, r2, r3}
  Users = {u1}
  Admins = {}
  Assemblies = {asm1}
  Apps = {a1}
  BadApp = BadApp
  Names = {n1}
  Foreign = {}
  Groups = {g1}
  Clients = {c1}
  Seed = Seed
  NoVersion = NoVersion
  Ops = {"create", "update", "delete", "deleteAll", "content"}
  Bodies = {"valid"}
  MaxFaults = 1
  Editable = {}
  GroupOf <- MCAliases
  AssemblyOf <- MCAssemblyOf
  SecretNames <- MCSecretNames
  Versions <- MCVersions
  Fold <- MCFold
SYMMETRY Symmetric
INVARIANTS
  OneCreateWins
  AcknowledgedCreateIsVisible
  DeletedStaysGone
  FreshContent
CHECK_DEADLOCK FALSE
