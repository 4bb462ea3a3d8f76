SPECIFICATION StreamsSpec
CONSTANTS
    Questions <- MCQuestions
    Prefix = 2
    MaxFrame = 8
    MaxInline = 2
    MaxKind = 1
    MaxDiagnostic = 2
    LongestLine = 3
    ReadTimeout = 1
    MaxFrames = 3
    Responses <- MCResponses
    Undeclared = Undeclared
    Requests = 2
    MaxApiBody = 4
    MaxHead = 2
    ApiTimeout = 2
INVARIANTS StreamsTypeOK FramesAligned FramesDecode AcceptedInFull
PROPERTIES ImplementsSession NobodyLeftWaiting
CHECK_DEADLOCK FALSE
