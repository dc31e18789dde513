CONSTANTS
    SyncCaller = {s1}
    AsyncCaller = {a1,a2}
    Destructor = {d}
    Preallocated = {k1}
    Heap = {h1}
    MaxSignals = 2
    None = None
    StackItem = {i1,i2,i3}
    StackThread = {p,q}
    MutexThread = {m,n,o}
    MaxDepth = 3
SPECIFICATION MCSpec
CHECK_DEADLOCK FALSE
INVARIANTS
    TasksInOnePlace
PROPERTIES
    ImplementsOrder
    TasksComplete
    StackImplements
    MutexExcludes
