SPECIFICATION MCSpec
CONSTANTS
    PipeWidth = 2
    ChanDepth = 1
    MaxFlaps = 2
    MaxOpenErrors = 1
    MaxRenewals = 1
    MaxWrites = 3
    MaxBytes = 3
CHECK_DEADLOCK FALSE
INVARIANT LimitsKept
PROPERTIES UploadIsByteStream   EndOfStreamLosesNothing AcceptedIsForwarded CloseReleasesEveryone
