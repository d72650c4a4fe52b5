\* Whole numbers at both ends of std::int64_t and just beyond.
CHECK_DEADLOCK FALSE
SPECIFICATION Spec
CONSTANT o1 = o1
CONSTANT o2 = o2
CONSTANT o3 = o3
CONSTANT Objects = {o1, o2, o3}
CONSTANT Arrays = {o1, o3}
CONSTANT Root = o1
CONSTANT Heaps <- MCHeaps
CONSTANT Edits <- MCEdits
CONSTANT Answers <- MCAnswers
CONSTANT MaxDepth = 2
CONSTANT Border = 4
CONSTANT MaxRuns = 2
INVARIANT IntegralsAreInts
