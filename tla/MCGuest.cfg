SPECIFICATION GuestSpec
CONSTANTS
    PipeCapacity = 2
    OutputLimit = 3
    MaxOutput = 4
    Budget = 2
    MaxRequests = 2
INVARIANTS AnswersInOrder OneCommandAtATime
PROPERTY StageEndsUnlessHeld
CHECK_DEADLOCK FALSE
