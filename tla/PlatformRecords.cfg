SPECIFICATION Spec
CONSTANTS
  MaxVersion = 3
  Forms = {"strict"}
  MayWithdraw = TRUE
  MaxFaults = 2
INVARIANTS
  TypeOK
  RecordedAtRest
PROPERTIES
  VersionSettles
