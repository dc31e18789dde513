CONSTANTS
    ClientID = {c1, c2}
    PID = {p1}
    Bundle = {b1}
    NoBundle = NoBundle
    Volume = {unity, quiet}
    DefaultVolume = unity
    Gains = {flat, boosted}
    DefaultGains = flat
    NoClient = NoClient
    NoOp = NoOp
    Pending = Pending
    Ok = Ok
    Failed = Failed
    Thread = {t1, t2}
    IOThread = {r1}
    Free = Free
    RTWorker = RTWorker
SPECIFICATION FairSpec
INVARIANTS
    MapsIdenticalWhenUnlocked
    ListedClientsLive
PROPERTIES
    ImplementsRegistry
    CallsReturn
