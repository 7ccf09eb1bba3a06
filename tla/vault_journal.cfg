CONSTANTS
    Agents = {a1, a2}
    User = u
    NoAgent = NoAgent
    TokenAccounts = {t1}
    Ata = t1
    Wallet = Wallet
    Wallets = {w1, w2}
    StrategyKeys = {k1}
    RiskModes = {2, 3}
    Amounts = {1}
    Supply = 2
    MaxU64 = 20
    MIN_EPOCH_DURATION = 1
    MaxInflow = 2
    MaxTrades = 3
    MaxNow = 1
SPECIFICATION Spec
SYMMETRY KeySymmetry
INVARIANTS
    ActiveTradesExact
    OpenTradesCloseable
PROPERTIES
    AgentFixedWhileTrading
