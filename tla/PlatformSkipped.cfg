SPECIFICATION Spec
CONSTANTS
  MaxVersion = 3
  Forms = {"strict"}
  MayWithdraw = FALSE
  MaxFaults = 0
PROPERTIES
  UpgradeRunsOnAdvance
