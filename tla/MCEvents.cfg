SPECIFICATION Spec
CONSTANTS
    MaxNodes = 3
    Document = Document
    Window = Window
    f = f
    g = g
    Callbacks = {f, g}
    NoCallback = NoCallback
    Events = {e1, e2}
    Bubbling = {e1}
    Registered <- MCRegistered
    MaxDepth = 2
    MaxActs = 4
INVARIANT TypeOK
INVARIANT HopServesSnapshot
INVARIANT TargetsStay
PROPERTY StopHolds
PROPERTY BubblesAlongPath
\* JavaScript has used up its MaxActs acts and every dispatch is over.
CHECK_DEADLOCK FALSE
