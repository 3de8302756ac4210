SPECIFICATION Spec
CONSTANTS
  a1 = a1  a2 = a2
  d1 = d1  d2 = d2  d3 = d3
  o1 = o1  o2 = o2  o3 = o3  o4 = o4
  ch1 = ch1  ch2 = ch2  k1 = k1  e1 = e1
  NoDiff = NoDiff  NoCaller = NoCaller  NoOp = NoOp  NoEvent = NoEvent
  Chapter = {ch1, ch2}
  Character = {k1}
  EventId = {e1}
  Arc = {a1, a2}
  Diff = {d1, d3}
  Op = {o1, o2, o4}
  Caller = {c1, c2}
  Manager = {m1}
  OpInfo <- MCOpInfo
  DiffInfo <- MCDiffInfo
  Gate <- MCGate
  Seeded = {"timeline"}
  MaxCalls = 2
  MaxFaults = 0
INVARIANTS
  AppliedPersists
CHECK_DEADLOCK FALSE
