CONSTANTS
    NoState = NoState
    R = R
    A = A
    A1 = A1
    A2 = A2
    B = B
    E = E
    E1 = E1
    E2 = E2
    F = F
    F1 = F1
    F2 = F2
    G = G
    H = H
    Root = R
    States <- TheStates
    Parent <- TheParent
    Above <- TheAbove
    Kids <- TheKids
    Type <- TheType
    TopDown <- TheOrder
    Declared <- TheHistory
    Asking <- NoOne
    MaxAsks = 1
    Calls <- ExTransits
    HistoryCalls <- NoHistories
SPECIFICATION Spec
CHECK_DEADLOCK FALSE
INVARIANT NoFailure
