SPECIFICATION CanonicalSpec
CONSTANTS
    MaxUsage = 2
    MaxScore = 1
    MaxToken = 3
    MaxCapabilities = 2
    MaxNumber = 2
    MaxPolicy = 2
    MaxDocument = 1
    RequestDocuments <- MCRequests
    ResultDocuments <- MCResults
    Executors <- MCExecutors
INVARIANT CapabilitiesAreStorable
CHECK_DEADLOCK FALSE
