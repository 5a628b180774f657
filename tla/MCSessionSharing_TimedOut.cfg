SPECIFICATION Spec
CONSTANTS
    w1 = w1
    w2 = w2
    t1 = t1
    t2 = t2
    b1 = b1
    None = None
    Workers <- OneWorker
    Tokens <- OneToken
    BasicTokens <- OneBasic
    Requests <- TokenRequests
    Methods <- NoSessionToken
    FirstFiles <- EmptyFiles
    Second = 2
    Timeout = 2
    MaxTime = 5
    MaxRestarts = 0
PROPERTY TimedOutRejected

