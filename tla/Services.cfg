SPECIFICATION ServicesSpec
CONSTANTS
    Procs = {p1, p2}
    MAX_FILES = 2
    VFSE_MAX_FDS = 3
    FirstFd = 1
    MaxFiles = 3
    MaxEnds = 3
    MaxPipes = 1
    MAX_TCP_CONNS = 2
    TCP_RX_BUF_SIZE = 2
    SeqSpan = 8
    PortStep = 1
    PortRand = 2
    SynTries = 2
    PeerIss = {7}
    Stream = 3
    MaxRead = 1
    MaxConnects = 2
    MaxStrays = 1
    Gateway = gw
    Hosts = {h1, h2}
    Macs = {m1, m2}
    ARP_CACHE_SIZE = 2
    ArpAttempts = 2
    HostNames = {n1, n2}
    DnsAttempts = 2
    TxidSpan = 3
    MaxLookups = 3
    Names = {a, b}
    MAX_MODULES = 3
    MAX_MOD_DEPS = 2
    MaxImports = 1
    MaxFailures = 1
    Threads = {t1, t2, t3, t4}
INVARIANTS
    OneOwner
    RefCounts
    HintSound
    StreamExact
    OpenIsOwned
    CacheFollowsHosts
    DnsAnswerOwn
    CountsCoverUses
    MutualExclusion
    
