\* Two runs of two chapters, three uses of the manifest.
CONSTANTS
  NumChapters = 2
  Length <- Lengths
  Budget <- Budgets
  NoManifest = NoManifest
  MaxOps = 3
  MaxRuns = 2
  MaxFaults = 1
SPECIFICATION Spec
INVARIANTS
  ActiveChaptersAreTraced
  OneStableGeneration
CHECK_DEADLOCK FALSE
