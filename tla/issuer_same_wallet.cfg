\* A passport root recovered to the wallet that still holds the old notes.
SPECIFICATION MCSpec
CONSTANTS
    Focus = {"deployed"}
    LegacySecrets = 0
    Wallet = {w1}
    Ghost = {g}
    Root = {r}
    PassportV1 = {}
    PassportV2 = {p}
    Instagram = {}
    OtherClaims = {}
    Expiry <- CommittedExpiry
    ValidUntil <- LastExpiry
    RevocationAnchor = 1
    OrchestratorCalls <- ServiceCalls
    NoClaims = NoClaims
    MaxTime = 4
    MaxSecret = 8
    MaxInbox = 1
    MaxVerifies = 0
\* A bounded instance stops when time and secrets run out.
CHECK_DEADLOCK FALSE
INVARIANT
    OldPassportLineageUnusable
