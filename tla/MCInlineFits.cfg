SPECIFICATION StreamsSpec
CONSTANTS
    Questions <- MCQuestions
    Prefix = 2
    MaxFrame = 8
    MaxInline = 2
    MaxKind = 1
    MaxDiagnostic = 2
    LongestLine = 3
    ReadTimeout = 2
    MaxFrames = 1
    Responses <- MCResponses
    Undeclared = Undeclared
    Requests = 1
    MaxApiBody = 4
    MaxHead = 2
    ApiTimeout = 2
INVARIANT InlineFits
CHECK_DEADLOCK FALSE
