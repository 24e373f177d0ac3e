SPECIFICATION ClientSpec
CHECK_DEADLOCK FALSE
CONSTANTS
    Requests <- MCRequests
    Locations <- MCLocations
    Lists <- MCLists
    Proxies = {"p", "q"}
    NoProxy = "direct"
    EnvProxies = {"q"}
    Bypassed = {"a"}
    IpHosts = {"ip"}
    MaxRedirects = 1
    BodyLen = 2
    Timeouts = {1}
    MaxNow = 1
    MaxRuns = 2
INVARIANT SentRight
INVARIANT AnswerMeans
INVARIANT StreamFaithful
INVARIANT ProxyChoice
PROPERTY AnsweredOnce
