CONSTANTS
    Agents = {a1}
    User = a1
    NoAgent = NoAgent
    TokenAccounts = {t1, t2}
    Ata = t1
    Wallet = Wallet
    Wallets = {w1}
    StrategyKeys = {}
    RiskModes = {3}
    Amounts = {0, 6}
    Supply = 12
    MaxU64 = 200
    MIN_EPOCH_DURATION = 2
    MaxInflow = 12
    MaxTrades = 0
    MaxNow = 5
SPECIFICATION Spec
INVARIANTS
    FeeWithinInflow
    BalanceBacked
