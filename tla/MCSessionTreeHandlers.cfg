\* One session that registers a handler after it has stopped itself.
CONSTANTS
    a = a
    Sessions = {a}
    Kernel = kernel
    Posters = {}
    None = None
    MaxRequests = 1
    MaxDepth = 4
CHECK_DEADLOCK FALSE
SPECIFICATION Spec
INVARIANTS
    NoHandlerLeft
