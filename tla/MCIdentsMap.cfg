CONSTANTS
    LastValue = 7
    MaxLive = 4
SPECIFICATION MapSpec
PROPERTY
    NewIdUnused
