\* One thread uses the page, it and another own the endpoint, two connections are served.
\* A disposed page whose bounded messages are used up has nothing left to do.
CONSTANTS
    t1 = t1  t2 = t2  c1 = c1  c2 = c2
    Callers = {t1, t2}
    Owners = {t1, t2}
    Users = {t1}
    Clients = {c1, c2}
    NoOne = NoOne
    Names = {script}
    Unattributed = Unattributed
    Paths = {path}
    MaxServers = 2
    MaxGenerations = 2
    MaxHits = 2
    MaxMessages = 2
SPECIFICATION Spec
INVARIANTS InspectorCurrent RepliesReachSender HitLog UrlServed
SYMMETRY Symmetric
CHECK_DEADLOCK FALSE
