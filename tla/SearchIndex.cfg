\* Two builders and three builds of three documents, of which one is in a file of its own.
CONSTANTS
  chapter = chapter  entry1 = entry1  entry2 = entry2  ledger = ledger
  b1 = b1  b2 = b2
  Order <- IndexOrder
  FileOf <- Files
  Length <- Lengths
  SnippetLength = 2
  Builders = {b1, b2}
  TopK = 2
  FusionK = 60
  Budgets <- Plans
  MaxBuilds = 3
  MaxChanges = 1
  MaxFaults = 1
SPECIFICATION Spec
INVARIANTS
  UndisturbedBuildIsRight
  SelectionIsBest
SYMMETRY Symmetry
CHECK_DEADLOCK FALSE
