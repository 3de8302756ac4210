\* Two callers and every fault, all interleavings.
CONSTANTS
    r1 = r1
    r2 = r2
    c1 = c1
    c2 = c2
    Callers <- TwoCallers
    Chapters <- OneChapter
    NoChapter = NoChapter
    NoManifest = NoManifest
    Requests <- TwoRequests
    HasBaselines = FALSE
    MaxCalls = 2
    MaxFaults = 1
SPECIFICATION Spec
SYMMETRY CallerSymmetry
CHECK_DEADLOCK FALSE
INVARIANTS
    TypeOK
    OneRebuild
    NoLockLeftBehind
    IndexRegisteredAfterWritten
    SuccessIsComplete
PROPERTIES
    RegistrationsKept
