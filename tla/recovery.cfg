CONSTANTS
    Registry = {circuits}
    r1 = r1
    r2 = r2
    r3 = r3
    Root = {r1, r2, r3}
    FirstRoot = r1
    Authorization <- TwoAttempts
    MaxAge = 2
    ValidityWindow = 2
    Mode = {"latest_only", "latest_and_previous", "valid_at_timestamp", "valid_within_window"}
    Window = {2, 9}
    Lag = 1
    Lead = 1
    Governance = TRUE
    Start = 3
    PortalTime = 6
    MaxTime = 8
    MaxProofs = 2
    Lifetime = 3
    TxLife = 2
    Focus = {"portal", "flow"}
SPECIFICATION MCSpec
\* A bounded instance stops when its times and bounds run out.
CHECK_DEADLOCK FALSE
INVARIANTS
    ProofsSurviveRotation
    RecordsAreTrue
    OnlyRecoveryIsResumable
PROPERTY
    RetiredRootsAgeOut
