\* Two sessions, and what the kernel promises about them.
CONSTANTS
    a = a
    b = b
    Sessions = {a, b}
    Kernel = kernel
    Posters = {p}
    None = None
    MaxRequests = 2
    MaxDepth = 5
CHECK_DEADLOCK FALSE
SPECIFICATION LiveSpec
PROPERTIES
    StoppedIsDeleted
    ImplementsLifecycle
