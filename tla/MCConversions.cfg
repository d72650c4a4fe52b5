\* A conversion is one call; a script is over when it has made its calls.
CHECK_DEADLOCK FALSE
SPECIFICATION ConversionsSpec
CONSTANT o1 = o1
CONSTANT o2 = o2
CONSTANT o3 = o3
CONSTANT Objects = {o1, o2, o3}
CONSTANT Arrays = {o1, o3}
CONSTANT Root = o1
CONSTANT Heaps <- MCHeaps
CONSTANT Edits <- MCEdits
CONSTANT Answers <- MCAnswers
CONSTANT MaxDepth = 2
CONSTANT Border = 4
CONSTANT MaxRuns = 2
CONSTANT p1 = p1
CONSTANT p2 = p2
CONSTANT SearchParams = {p1, p2}
CONSTANT Calls = 3
CONSTANT Binaries <- MCBinaries
CONSTANT Texts <- MCTexts
CONSTANT Symbols <- MCSymbols
CONSTANT SchemeWords = {"http", "ws", "a", "b", "c", "f", "g", "h", "q"}
CONSTANT Inputs <- MCInputs
CONSTANT Bases <- MCBases
CONSTANT Names <- MCNames
CONSTANT Values <- MCValues
CONSTANT Queries <- MCQueries
INVARIANT RecursionBounded
INVARIANT ConvertsFaithfully
INVARIANT RoundTrip
INVARIANT ResolvesWithinOrigin
PROPERTY ParamsKeepList
