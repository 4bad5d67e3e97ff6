\* A passport, a renewal and an Instagram credential of one person, two wallets.
CONSTANTS
    passport = passport
    again = again
    renewal = renewal
    instagram = instagram
    Attempt = {passport, renewal, instagram}
    NoAttempt = none
    KindOf <- Kinds
    Wallet = {w1, w2}
    NoWallet = nowallet
    MaxOpen = 2
SPECIFICATION Spec
\* Attempts end.
CHECK_DEADLOCK FALSE
INVARIANTS
    WitnessesFollowNotes
    OnlyLossLosesWitness
    LoginServesHolder
PROPERTIES
    RequestsEnd
