\* A page that runs no script stops once it is read.
CHECK_DEADLOCK FALSE
SPECIFICATION FormSpec
CONSTANT MaxNodes = 4
CONSTANT MaxPieces = 3
CONSTANT Pages <- MCPages
CONSTANT UpperCase <- MCUpperCase
CONSTANT Created = {"form", "select"}
CONSTANT Values <- MCValues
CONSTANT Submission = {"method"}
INVARIANT TypeOK
INVARIANT TreeLinks
INVARIANT Acyclic
INVARIANT ConnectedIsQueried
INVARIANT RangeIsSubtree
INVARIANT OwnersAgree
INVARIANT ResetRestores
INVARIANT SelectShowsAssigned
PROPERTY MovesKeepOrder
