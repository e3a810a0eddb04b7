SPECIFICATION Spec
CONSTANTS
  Chars <- MCChars
  Lower <- MCLower
  Types <- OneType
  AppNames <- MCApps
  SecretNames <- MCSecrets
  MaxStored = 2
PROPERTIES
  DeletesTheGiven
