\* Three sessions below the kernel's own, one poster.
CONSTANTS
    a = a
    b = b
    c = c
    Sessions = {a, b, c}
    Kernel = kernel
    Posters = {p}
    None = None
    MaxRequests = 2
    MaxDepth = 5
\* Once all sessions are deleted or nobody posts, the loop waits.
CHECK_DEADLOCK FALSE
SYMMETRY Symmetry
SPECIFICATION Spec
INVARIANTS
    NoDanglingEvent
    DeletedOnceByStopper
    ParentOutlivesChild
    Connected
    StoppedOnceBeforeDeleted
PROPERTIES
    ChildrenFirst
