SPECIFICATION Spec
CONSTANTS
  Chars <- MCChars
  Lower <- MCLower
  Types <- MCTypes
  AppNames <- MCApps
  SecretNames <- MCSecrets
  MaxStored = 2
INVARIANTS
  NamesReadBack
  TakenByItself
PROPERTIES
  DeleteAllIsExact
  ServesAsTable
