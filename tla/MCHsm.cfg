CONSTANTS
    NoState = NoState
    R = R
    A = A
    A1 = A1
    A2 = A2
    B = B
    E = E
    E1 = E1
    E2 = E2
    F = F
    F1 = F1
    F2 = F2
    G = G
    H = H
    Root = R
    States <- TheStates
    Parent <- TheParent
    Above <- TheAbove
    Kids <- TheKids
    Type <- TheType
    TopDown <- TheOrder
    Declared <- TheHistory
    Asking <- AskingBoth
    MaxAsks = 1
    Calls <- SomeTransits
    HistoryCalls <- Histories
SPECIFICATION FairSpec
CHECK_DEADLOCK FALSE
INVARIANTS
    CountsExact
    StableMeansSettled
    LastRequestWins
    StartedWhileIn
    RestoredSame
PROPERTIES
    ActionsNest
    Settles
