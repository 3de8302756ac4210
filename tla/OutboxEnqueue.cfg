SPECIFICATION Spec
CONSTANTS
  k1 = k1  summary = summary  other = other
  NoJob = NoJob  NoRequest = NoRequest  NoKey = NoKey  NoOwner = NoOwner
  NoWorker = NoWorker
  JobId = {j1, j2}
  Producer = {p1, p2}
  Worker = {w1, w2}
  Owner = {"worker-default"}
  OwnerOf <- DefaultOwner
  JobType = {summary, other}
  Accepts <- AcceptAll
  Handles <- HandleSummary
  Request <- KeyedRequests
  LeaseSeconds = 1
  Backoff <- ShortBackoff
  MaxCrashes = 1
  MaxRequeues = 1
  MaxBeats = 1
  MaxClaims = 2
INVARIANTS
  EnqueueIdempotent
  RunningIsRecoverable
SYMMETRY Symmetry
CHECK_DEADLOCK FALSE
