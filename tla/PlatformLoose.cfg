SPECIFICATION Spec
CONSTANTS
  MaxVersion = 3
  Forms = {"strict", "loose"}
  MayWithdraw = FALSE
  MaxFaults = 0
PROPERTIES
  VersionSettles
