CONSTANTS
    LastValue = 7
    MaxLive = 4
SPECIFICATION PredicateSpec
PROPERTY
    NewIdUnused
