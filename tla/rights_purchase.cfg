CONSTANTS
    c1 = c1
    c2 = c2
    Company = {c1, c2}
    payer = payer
    Payer = {payer}
    L2Contract = {registry, misconfigured}
    Registry = registry
    PurchaseL2 = purchase
    Adapter = {purchase, operator}
    Treasury = {treasury}
    Amount = {1, 2}
    Package = {package}
    PricePerVerifyL1 = 1
    PricePerVerifyL2 = 2
    Funds = 6
    MaxU128 = 3
    MaxPurchases = 2
    Zero = zero
    operators = operators
    others = others
    Page = {operators, others}
    L1Buyer = payer
    WalletOf <- Wallets
    None = None
    MaxClaims = 2
    MaxBlock = 2
SPECIFICATION MCSpec
SYMMETRY CompanySymmetry
CHECK_DEADLOCK FALSE
INVARIANTS
    EveryRightWasPaidFor
    TopUpsAreShown
PROPERTY
    ImplementsLedger
