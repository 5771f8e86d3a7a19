SPECIFICATION Spec
CONSTANTS
  Inputs <- ThreeReplicas
  OldCharts <- MCOldCharts
  Versions <- MCVersions
  Lower <- MCLower
  Installs <- MCInstalls
  Releases <- MCReleases
  MaxRuns = 1
CHECK_DEADLOCK FALSE
INVARIANT
  ReplicasExtracted
