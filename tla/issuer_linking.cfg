\* Instagram linked to a root that its holder revokes and its ghost recovers
\* inside the 300-second window; notes of the V1 entrypoints.
SPECIFICATION MCSpec
CONSTANTS
    Focus = {"deployed", "legacy"}
    LegacySecrets = 4
    Wallet = {w1}
    Ghost = {g}
    Root = {r}
    PassportV1 = {v}
    PassportV2 = {p}
    Instagram = {i}
    OtherClaims = {o}
    Expiry <- CommittedExpiry
    ValidUntil <- LastExpiry
    RevocationAnchor = 2
    OrchestratorCalls <- ServiceCalls
    NoClaims = NoClaims
    MaxTime = 4
    MaxSecret = 8
    MaxInbox = 1
    MaxVerifies = 1
\* A bounded instance stops when time and secrets run out.
CHECK_DEADLOCK FALSE
INVARIANTS
    LinkedInstagramDiesWithItsRootVersion
    BoundedRevocationLag
    LinkingRetiresStandalone
