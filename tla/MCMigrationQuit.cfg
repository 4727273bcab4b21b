\* One kernel that moves to a spawned thread which is about to quit.
CONSTANTS
    Kernels = {k1}
    Main = main
    Spawned = {t1}
    WithPred = {t1}
    Answers = {TRUE, FALSE}
    None = None
    MaxMsgs = 2
    MaxMoves = 3
CHECK_DEADLOCK FALSE
SPECIFICATION Spec
INVARIANT
    DisabledOnlyWhenNothingPending
