SPECIFICATION GuestSpec
CONSTANTS
    PipeCapacity = 2
    OutputLimit = 3
    MaxOutput = 4
    Budget = 2
    MaxRequests = 2
PROPERTY StageEnds
CHECK_DEADLOCK FALSE
