SPECIFICATION Spec
CONSTANTS
  Unset = Unset
  Specs <- TwoSpecs
  EnvCaps <- EnvEnables
  Timeout = 1
  MaxFaults = 0
  Lagging = {"deployment"}
  EagerRelease = TRUE
PROPERTIES
  MigrationSparesCurrentDeployment
