SPECIFICATION Spec
CONSTANTS
  Keys <- MCKeys
  BoolKeys <- MCBoolKeys
  Default <- MCDefault
  Entries <- MCEntries
  MaxEntries = 2
INVARIANTS
  LoadedIsStrongest
  FailsOnlyWhenBad
