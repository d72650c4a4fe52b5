\* The owner may be collected while a call on one of its values is under way.
SPECIFICATION Spec
CONSTANTS
    Threads = {t1, t2}
    NoOne = NoOne
    MaxId = 1
    OwnerDropsMidCall = TRUE
INVARIANT IsolateOutlivesCalls
