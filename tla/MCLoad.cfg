\* One thread loads, another evaluates and disposes.
SPECIFICATION FairSpec
CONSTANTS
    Threads = {t1, t2}
    NoOne = NoOne
    Loaders = {t1}
    Docs <- MCDocs
    HostScripts = 1
    MaxLoads = 2
INVARIANT TypeOK
INVARIANT OwnScriptsInOrder
INVARIANT LifecycleAfterScripts
INVARIANT ScriptsSeeTheirLoad
PROPERTY ReadyStateForward
PROPERTY LoadsEnd
\* The loads are used up or the page is disposed.
CHECK_DEADLOCK FALSE
