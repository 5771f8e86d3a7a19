SPECIFICATION Spec
CONSTANTS
  Inputs <- MCInputs
  OldCharts <- MCOldCharts
  Versions <- MCVersions
  Lower <- MCLower
  Installs <- MCInstalls
  Releases <- MCReleases
  MaxRuns = 2
CHECK_DEADLOCK FALSE
INVARIANTS
  ChartIsComplete
  Renderable
  OneNamespace
  AccountsAgree
  
  InstallHonoured
