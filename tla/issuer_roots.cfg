\* Two recoveries of one root between two wallets, and renewals of its authority.
SPECIFICATION MCSpec
CONSTANTS
    Focus = {"deployed"}
    LegacySecrets = 0
    Wallet = {w1, w2}
    Ghost = {g}
    Root = {r}
    PassportV1 = {}
    PassportV2 = {p}
    Instagram = {}
    OtherClaims = {}
    Expiry <- CommittedExpiry
    ValidUntil <- LastExpiry
    RevocationAnchor = 2
    OrchestratorCalls <- RenewalCalls
    NoClaims = NoClaims
    MaxTime = 4
    MaxSecret = 10
    MaxInbox = 2
    MaxVerifies = 0
\* A bounded instance stops when time and secrets run out.
CHECK_DEADLOCK FALSE
SYMMETRY WalletSymmetry
INVARIANTS
    RootAlwaysRecoverable
    OneLiveRootVersion
    OneAuthorityPerRootVersion
    RenewalsAreApproved
PROPERTIES
    ImplementsRootLineage
