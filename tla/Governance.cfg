\* Two arcs, one of them with baselines; the governance projection and another one.
CONSTANTS
  a1 = a1  a2 = a2
  governance = governance  index = index
  Arcs = {a1, a2}
  MaxChapter = 1
  Names = {governance, index}
  GovernanceName = governance
  HasBaselines = {a1}
  NoCommit = NoCommit
  MaxApplies = 3
  MaxChanges = 3
  MaxFaults = 2
SPECIFICATION Spec
INVARIANTS
  TearsLoseAtMostTwo
  SuccessIsOnDisk
CHECK_DEADLOCK FALSE
