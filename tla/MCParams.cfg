SPECIFICATION Spec
CONSTANTS
    Sessions = {s1, s2}
    Root = s1
    ValParams = {a1, a2}
    TypeInfos <- Infos
    TypeOf <- OneType
    HandlerTypes <- Kinds
    IO_Ctx = "io"
    Alarms = {al}
    Callbacks = {c1, c2}
    Postbacks = {pb}
    Impls = {i1, i2}
    None = None
    MaxThings = 2
    MaxDepth = 3
    MaxTotal = 4
CHECK_DEADLOCK FALSE
SYMMETRY Interchangeable
INVARIANTS OwnedOnce LocksExact ArgumentsGood RefcntExact NothingBroken
