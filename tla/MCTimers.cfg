SPECIFICATION FairSpec
CONSTANTS
    MaxId = 3
    Delays <- MCDelays
    Half = 4
INVARIANT TypeOK
INVARIANT FiresInOrder
INVARIANT NoneForgotten
PROPERTY NoStaleFire
PROPERTY PumpEnds
\* A disposed context takes no further step.
CHECK_DEADLOCK FALSE
