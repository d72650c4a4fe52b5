\* Two threads load the same page.
SPECIFICATION Spec
CONSTANTS
    Threads = {t1, t2}
    NoOne = NoOne
    Loaders = {t1, t2}
    Docs <- MCDocs
    HostScripts = 1
    MaxLoads = 2
INVARIANT OwnScriptsInOrder
CHECK_DEADLOCK FALSE
