CONSTANTS
    Agents = {a1}
    User = a1
    NoAgent = NoAgent
    TokenAccounts = {t1, t2}
    Ata = t1
    Wallet = Wallet
    Wallets = {w1}
    StrategyKeys = {}
    RiskModes = {3}
    Amounts = {0, 4, 7}
    Supply = 20
    MaxU64 = 250
    MIN_EPOCH_DURATION = 2
    MaxInflow = 18
    MaxTrades = 0
    MaxNow = 5
SPECIFICATION Spec
INVARIANTS
    DepositsNotProfit
