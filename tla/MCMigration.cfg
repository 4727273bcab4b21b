\* Two kernels, the main thread and another one, posters on any; either thread may
\* leave its loop, with predicates that answer either way.  Four moves are one more
\* than it takes to ask again after a cancelled request, or to move a kernel to a
\* thread that had one, gave it back and leaves its loop meanwhile.
CONSTANTS
    Kernels = {k1, k2}
    Main = main
    Spawned = {t1}
    WithPred = {main, t1}
    Answers = {TRUE, FALSE}
    None = None
    MaxMsgs = 3
    MaxMoves = 4
\* Once every message is handled and nobody posts, all threads wait.
CHECK_DEADLOCK FALSE
SPECIFICATION Spec
INVARIANTS
    TypeOK
    OneHome
    RunsAtHome
    NothingLost
    PostOrderKept
PROPERTIES
    LeavingGetsNoKernel
    EveryPostDispatched
