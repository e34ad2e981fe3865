SPECIFICATION Spec
CONSTANTS
    web = web
    svc = svc
    svc2 = svc2
    m1 = m1
    m2 = m2
    d1 = d1
    d2 = d2
    r1 = r1
    r2 = r2
    u1 = u1
    None = None
    App <- MCApps
    Module <- MCModules
    Db <- MCDbs
    Redis <- MCRediss
    Ustm <- MCUstms
    Confs <- MCConfs
INVARIANTS
    TypeOK
    DbBinding
    SessionRedisReady
    HoldersFilled
    ConfigReady
    MountsFollow
