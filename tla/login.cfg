\* Two logins of one page, a management tab that is navigated and closed, two slots.
CONSTANTS
    first = first
    second = second
    passport = passport
    popup = popup
    Request = {first, second}
    NoRequest = none
    Popup = {popup}
    PopupOf <- SharedPopup
    Wallet = {w1, w2}
    OpenWallet = w1
    NoWallet = nowallet
    Credential = {passport}
    Requirements <- TwoAndOne
    Slot = {0, 1}
    MaxBroker = 2
SPECIFICATION Spec
\* Logins end.
CHECK_DEADLOCK FALSE
INVARIANTS
    OnlyThePickedWallet
    PreflightCovers
PROPERTIES
    ImplementsPromise
    LoginsEnd
    WalletIsFreed
