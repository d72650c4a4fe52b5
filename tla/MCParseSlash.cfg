\* An attribute value with a slash in it, not quoted.
CHECK_DEADLOCK FALSE
SPECIFICATION FormSpec
CONSTANT MaxNodes = 2
CONSTANT MaxPieces = 0
CONSTANT Pages <- SlashPages
CONSTANT UpperCase <- MCUpperCase
CONSTANT Created = {}
CONSTANT Values = {}
CONSTANT Submission = {}
PROPERTY SourceIsRead
