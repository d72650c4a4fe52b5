\* A top-level element can be moved but never leaves roots_.
CHECK_DEADLOCK FALSE
SPECIFICATION FormSpec
CONSTANT MaxNodes = 4
CONSTANT MaxPieces = 0
CONSTANT Pages <- MCPages
CONSTANT UpperCase <- MCUpperCase
CONSTANT Created = {"form"}
CONSTANT Values <- MCValues
CONSTANT Submission = {}
INVARIANT QueriedIsConnected
