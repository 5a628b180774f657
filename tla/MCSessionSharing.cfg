SPECIFICATION Spec
CONSTANTS
    w1 = w1
    w2 = w2
    t1 = t1
    t2 = t2
    b1 = b1
    None = None
    Workers <- TwoWorkers
    Tokens <- OneToken
    BasicTokens <- OneBasic
    Requests <- SharedRequests
    Methods <- NoSessionToken
    FirstFiles <- FirstBootOrLogin
    Second = 2
    Timeout = 2
    MaxTime = 4
    MaxRestarts = 1
INVARIANT FilesHoldLogins
INVARIANT LoginsInv
INVARIANT SessionTypeOK
INVARIANT AcceptedIsFresh
