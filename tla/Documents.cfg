SPECIFICATION Spec
CONSTANTS
  Manifests <- MCManifests
  Lists <- MCLists
  Interfaces <- MCInterfaces
  Operators <- MCOperators
  WindowTypes <- MCWindowTypes
  MAX_EQUATION_DEPTH = 3
  MaxManifests = 1
  MaxLists = 1
CHECK_DEADLOCK FALSE
PROPERTIES ConditionsKept DictionaryServes
