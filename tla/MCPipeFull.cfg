SPECIFICATION GuestSpec
CONSTANTS
    PipeCapacity = 2
    OutputLimit = 3
    MaxOutput = 4
    Budget = 2
    MaxRequests = 2
PROPERTY FullPipeIsDrained
CHECK_DEADLOCK FALSE
