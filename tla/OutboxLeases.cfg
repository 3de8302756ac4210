SPECIFICATION FairSpec
CONSTANTS
  k1 = k1  summary = summary  other = other
  NoJob = NoJob  NoRequest = NoRequest  NoKey = NoKey  NoOwner = NoOwner
  NoWorker = NoWorker
  JobId = {j1}
  Producer = {p1}
  Worker = {w1, w2}
  Owner = {"worker-default"}
  OwnerOf <- DefaultOwner
  JobType = {summary, other}
  Accepts <- AcceptAll
  Handles <- HandleSummary
  Request <- WorkRequests
  LeaseSeconds = 1
  Backoff <- ShortBackoff
  MaxCrashes = 1
  MaxRequeues = 1
  MaxBeats = 1
  MaxClaims = 5
INVARIANTS
  TypeOK
  DeadIsExhausted
PROPERTIES
  CompletedIsFinal
  JobsSettle
CHECK_DEADLOCK FALSE
