SPECIFICATION Spec
CONSTANTS
  Unset = Unset
  Specs <- EnvSpecs
  EnvCaps <- EnvEnables
  Timeout = 2
  MaxFaults = 2
  Lagging = {}
  EagerRelease = TRUE
INVARIANTS
  TypeOK
  InductiveInvariant
  GaveUpAfterTimeout
  UninstallLeavesIntent
  TeardownAnnounced
  TeardownRolledOut
  UninstallUnadvertises
  UninstallRemovesClusterRoles
PROPERTIES
  OperatorServedUntilRelease
  TeardownIsFinal
  MigrationSparesCurrentDeployment
  UninstallCompletes
  ConfigMapComesBack
  ConfigurationArrives
  LabelArrives
  ImplementsContract
