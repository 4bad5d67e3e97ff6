SPECIFICATION MCSpec
CONSTANTS
    None = None
    Slot = 2
    Headroom = 48
    Danger = 4
    MaxAnchorAge = 3
    Between = 1
    MaxWall = 52
    DeployTime = 49
    Focus = {"deploy", "clock", "tests"}
    Delay = 24
    MaxRuns = 2
    MaxNets = 2
    MaxCredit = 1
INVARIANTS
    ServicesAgree
    HeadroomSuffices
    DriftDoesNotAccumulate
    PassedMeansCredited
PROPERTIES
    CompleteIsUsable
CHECK_DEADLOCK FALSE
