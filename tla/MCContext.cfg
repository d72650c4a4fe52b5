\* Two threads, two wrappers; the owner outlives the calls made on its values.
SPECIFICATION FairSpec
CONSTANTS
    Threads = {t1, t2}
    NoOne = NoOne
    MaxId = 2
    OwnerDropsMidCall = FALSE
INVARIANT TypeOK
INVARIANT OneThreadInside
INVARIANT IsolateOutlivesCalls
INVARIANT HandlesMatchWrappers
PROPERTY KeepsPromise
PROPERTY CallsReturn
