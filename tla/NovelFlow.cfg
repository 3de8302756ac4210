\* Two runs of up to two chapters, one fault.
CONSTANTS
    LastChapter = 2
    Proposals <- AllProposals
    NoProposal = NoProposal
    NoEvent = 0
    Gates <- AllGates
    NoGate = NoGate
    NoRequest = NoRequest
    Requests <- AllRequests
    EventsList = TRUE
    MaxRuns = 2
    MaxFaults = 1
SPECIFICATION FairSpec
CHECK_DEADLOCK FALSE
INVARIANTS
    TypeOK
    WorkingStateAgrees
    ProgressIsTrue
    PromotedIsReviewed
    ActiveIsSummarised
    FactsFitManuscript
    FactsAreGated
PROPERTIES
    RunsEnd
