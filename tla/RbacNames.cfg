SPECIFICATION Spec
CONSTANTS
  Resources <- MCResources
  Verbs <- MCVerbs
  Names <- MCNames
  ModuleRoles <- ScopedRoles
  OperandRoles <- ScopedRoles
  ChartRoles <- FreeRoles
INVARIANTS
  OkMeansCovered
