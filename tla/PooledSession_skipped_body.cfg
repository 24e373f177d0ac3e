SPECIFICATION SessionSpec
CONSTANTS
    Clients = {k1, k2}
    Conns = {c1, c2, c3}
    web = web
    tls = tls
    bank = bank
    proxy = proxy
    Origins = {web, tls, proxy}
    HttpsOrigins = {tls}
    TlsOrigins = {tls}
    SslCtx = TRUE
    Requests <- SkipRequests
    Framings = {"length"}
    NoConn = NoConn
    NoOrigin = NoOrigin
    NoReq = NoReq
    NoPeer = NoPeer
    MaxIdlePerOrigin = 1
    MaxTotalIdle = 1
    KeepAlive = 0
    ReapEnabled = TRUE
INVARIANT CleanStart
