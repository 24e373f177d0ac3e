SPECIFICATION FairSpec
CONSTANTS
    Clients = {k1, k2}
    Conns = {c1, c2, c3}
    Origins = {web, tls}
    TlsOrigins = {tls}
    NoConn = NoConn
    NoOrigin = NoOrigin
    MaxIdlePerOrigin = 1
    MaxTotalIdle = 1
    KeepAlive = 1
    ReapEnabled = TRUE
PROPERTIES
    AcquireAnswered
    IdleEnds
    Drains
