SPECIFICATION Spec
CONSTANTS
    Clients = {k1, k2, k3}
    Conns = {c1, c2, c3, c4, c5, c6}
    Origins = {web, tls}
    TlsOrigins = {tls}
    NoConn = NoConn
    NoOrigin = NoOrigin
    MaxIdlePerOrigin = 2
    MaxTotalIdle = 3
    KeepAlive = 1
    ReapEnabled = TRUE
SYMMETRY Symmetry
INVARIANTS
    ExclusiveLease
    IdleReady
    NoOrphan
    PoolShape
PROPERTY ClosedForCause
