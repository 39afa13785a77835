SPECIFICATION PSpec
CONSTANTS
    MaxWrites = 2
    MaxBytes = 3
INVARIANT DownloadInOrder
CHECK_DEADLOCK FALSE
