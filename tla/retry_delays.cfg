SPECIFICATION Spec
CONSTANTS
    c1 = c1
    c2 = c2
    data = data
    Calls <- MCCalls
    Checks <- MCChecks
    Queries <- MCQueries
    Data <- MCData
    TokenConfigured = TRUE
    MaxKeys = 2
INVARIANTS
    PausesAsDocumented
