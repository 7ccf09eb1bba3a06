---------------------------- MODULE Vault_proofs ----------------------------
(***************************************************************************)
(* Theorems about the vault program, for every set of agents, wallets and  *)
(* amounts, every token supply and every bound.                            *)
(***************************************************************************)
EXTENDS Vault, FiniteSetTheorems, TLAPS

\* The fee of a settlement is at most a fifth of its profit.
LEMMA FeeBounds ==
    ASSUME NEW profit \in Nat
    PROVE  /\ PlatformFee(profit) \in Nat
           /\ 5 * PlatformFee(profit) <= profit
           /\ PlatformFee(profit) <= profit
  BY SMT DEF PlatformFee

-----------------------------------------------------------------------------
\* No instruction takes a field out of its type: balances stay u64 and below
\* the mint's supply, counters stay ordered, the clock bounds the last settlement.
LEMMA TypeInit == Init => TypeOK
  <1> SUFFICES ASSUME Init PROVE TypeOK
    OBVIOUS
  <1> USE VaultAssumption DEF VaultAssumption, Init
  <1>1. /\ records \in [TradeIds -> {"none", "open", "closed"}]
        /\ opened_by \in [TradeIds -> Agents \cup {NoAgent}]
    OBVIOUS
  <1>2. /\ strategies \subseteq StrategyKeys /\ made \subseteq TokenAccounts
        /\ live \in BOOLEAN /\ aside \in BOOLEAN
    OBVIOUS
  <1>3. outside \in Nat /\ platform_tokens \in Nat
    OBVIOUS
  <1>4. vault_tokens \in [TokenAccounts -> 0 .. MaxU64]
    <2>1. 0 \in 0 .. MaxU64 /\ vault_tokens = [t \in TokenAccounts |-> 0]
      OBVIOUS
    <2> QED
      BY ONLY <2>1
  <1>5. delegate \in [TokenAccounts -> Agents \cup {NoAgent}]
    <2>1. delegate = [t \in TokenAccounts |-> NoAgent]
      OBVIOUS
    <2> QED
      BY ONLY <2>1
  <1>6. delegated_amount \in [TokenAccounts -> Nat]
    OBVIOUS
  <1>7. /\ balance \in 0 .. MaxU64 /\ opening_balance \in 0 .. MaxU64
        /\ epoch_profit \in 0 .. MaxU64 /\ last_settle_ts \in 0 .. now
        /\ now \in 1 .. MaxNow + 1
    OBVIOUS
  <1>8. /\ agent_pubkey \in Agents \cup {NoAgent} /\ platform_wallet \in Wallets
        /\ risk_mode \in 0 .. 2
    OBVIOUS
  <1>9. trade_count \in 0 .. MaxTrades /\ active_trades \in 0 .. trade_count
    OBVIOUS
  <1>10. inflow \in 0 .. MaxInflow /\ deposited \in 0 .. inflow /\ drawn \in Nat
    OBVIOUS
  <1> QED
    BY ONLY <1>1, <1>2, <1>3, <1>4, <1>5, <1>6, <1>7, <1>8, <1>9, <1>10 DEF TypeOK

\* A transfer between token accounts of the vault, and its delegation, stay typed.
LEMMA MoveTyped ==
    ASSUME TypeOK, NEW s \in TokenAccounts, NEW t \in TokenAccounts, NEW x \in Nat,
           Move(s, t, x)
    PROVE  vault_tokens' \in [TokenAccounts -> 0 .. MaxU64]
  BY VaultAssumption DEF VaultAssumption, TypeOK, Move

LEMMA SpendTyped ==
    ASSUME TypeOK, NEW s \in TokenAccounts, NEW x \in Nat, x <= delegated_amount[s],
           Spend(s, x)
    PROVE  /\ delegate' \in [TokenAccounts -> Agents \cup {NoAgent}]
           /\ delegated_amount' \in [TokenAccounts -> Nat]
  BY DEF TypeOK, Spend

LEMMA TypeStep == TypeOK /\ [Next]_vars => TypeOK'
  <1> SUFFICES ASSUME TypeOK, [Next]_vars PROVE TypeOK'
    OBVIOUS
  <1> USE VaultAssumption
      DEF VaultAssumption, TypeOK, account, roles, journal, approvals, token, history
  <1>1. ASSUME NEW w \in Wallets, CreateVault(w) PROVE TypeOK'
    BY <1>1 DEF CreateVault
  <1>2. ASSUME NEW t \in TokenAccounts, NEW x \in Amounts, Deposit(t, x) PROVE TypeOK'
    BY <1>2 DEF Deposit, Named, Receive
  <1>3. ASSUME NEW s \in TokenAccounts, NEW t \in TokenAccounts, NEW x \in Amounts,
               DepositOwn(s, t, x)
        PROVE  TypeOK'
    <2>1. vault_tokens' \in [TokenAccounts -> 0 .. MaxU64]
      BY <1>3, MoveTyped DEF DepositOwn
    <2>2. /\ delegate' \in [TokenAccounts -> Agents \cup {NoAgent}]
          /\ delegated_amount' \in [TokenAccounts -> Nat]
      <3>1. CASE s = t
        BY <1>3, <3>1 DEF DepositOwn
      <3>2. CASE s # t
        BY <1>3, <3>2, SpendTyped DEF DepositOwn
      <3> QED
        BY <3>1, <3>2
    <2> QED
      BY <1>3, <2>1, <2>2 DEF DepositOwn
  <1>4. ASSUME NEW a \in Agents, NEW t \in TokenAccounts, NEW x \in Amounts,
               DelegateToProtocol(a, t, x)
        PROVE  TypeOK'
    BY <1>4 DEF DelegateToProtocol, Named, Delegable
  <1>5. ASSUME NEW t \in TokenAccounts, NEW to \in TokenAccounts \cup {Wallet},
               NEW x \in Amounts, Withdraw(t, to, x)
        PROVE  TypeOK'
    <2>1. /\ vault_tokens' \in [TokenAccounts -> 0 .. MaxU64]
          /\ outside' \in Nat
      <3>1. CASE to = Wallet
        BY <1>5, <3>1 DEF Withdraw
      <3>2. CASE to # Wallet
        BY <1>5, <3>2, MoveTyped DEF Withdraw
      <3> QED
        BY <3>1, <3>2
    <2>2. balance' \in 0 .. MaxU64 /\ aside' \in BOOLEAN
      BY <1>5 DEF Withdraw, Named
    <2>3. UNCHANGED <<live, opening_balance, epoch_profit, last_settle_ts, roles, journal,
                      strategies, made, approvals, platform_tokens, now, inflow, deposited,
                      drawn>>
      BY <1>5 DEF Withdraw
    <2> QED
      BY <2>1, <2>2, <2>3
  <1>6. ASSUME NEW m \in RiskModes, SetRiskMode(m) PROVE TypeOK'
    BY <1>6 DEF SetRiskMode, ValidRiskMode
  <1>7. ASSUME NEW t \in TokenAccounts, CloseVault(t) PROVE TypeOK'
    BY <1>7 DEF CloseVault, Named, CloseableEmpty
  <1>8. ASSUME NEW a \in Agents, NEW t \in TokenAccounts, SettleFlat(a, t) PROVE TypeOK'
    BY <1>8 DEF SettleFlat, SettleAllowed, Named, Rebase
  <1>81. ASSUME NEW a \in Agents, NEW t \in TokenAccounts, SettleProfit(a, t) PROVE TypeOK'
    <2> DEFINE profit == vault_tokens[t] - opening_balance
               fee == PlatformFee(profit)
    <2>1. profit \in Nat /\ profit <= vault_tokens[t] /\ profit <= MaxU64
      BY <1>81 DEF SettleProfit
    <2>2. fee \in Nat /\ fee <= profit
      BY <2>1, FeeBounds
    <2>3. /\ vault_tokens' = [vault_tokens EXCEPT ![t] = @ - fee]
          /\ platform_tokens' = platform_tokens + fee
          /\ balance' = vault_tokens[t] - fee
          /\ opening_balance' = vault_tokens[t] - fee
          /\ epoch_profit' = profit
          /\ last_settle_ts' = now
          /\ drawn' = 0
          /\ aside' \in BOOLEAN
          /\ UNCHANGED <<live, roles, journal, strategies, made, approvals, outside, now,
                         inflow, deposited>>
      BY <1>81 DEF SettleProfit, SettleAllowed, Named, Rebase
    <2> HIDE DEF profit, fee
    <2>4. vault_tokens' \in [TokenAccounts -> 0 .. MaxU64]
      BY <2>1, <2>2, <2>3
    <2>5. /\ balance' \in 0 .. MaxU64 /\ opening_balance' \in 0 .. MaxU64
          /\ epoch_profit' \in 0 .. MaxU64 /\ platform_tokens' \in Nat
      BY <2>1, <2>2, <2>3
    <2> QED
      BY <2>3, <2>4, <2>5
  <1>9. ASSUME NEW a \in Agents, NEW i \in TradeIds, RecordTrade(a, i) PROVE TypeOK'
    BY <1>9 DEF RecordTrade, TradeIds
  <1>10. ASSUME NEW a \in Agents, NEW i \in TradeIds, CloseTrade(a, i) PROVE TypeOK'
    BY <1>10 DEF CloseTrade, ActiveAfterClose
  <1>11. ASSUME NEW a \in Agents, NEW i \in TradeIds, CloseTradeRecord(a, i) PROVE TypeOK'
    BY <1>11 DEF CloseTradeRecord
  <1>12. ASSUME NEW s \in Wallets, NEW w \in Wallets, UpdatePlatformWallet(s, w) PROVE TypeOK'
    BY <1>12 DEF UpdatePlatformWallet
  <1>13. ASSUME NEW k \in StrategyKeys, RegisterStrategy(k) PROVE TypeOK'
    BY <1>13 DEF RegisterStrategy
  <1>14. ASSUME NEW t \in TokenAccounts, CreateTokenAccount(t) PROVE TypeOK'
    BY <1>14 DEF CreateTokenAccount
  <1>15. ASSUME NEW a \in Agents, NEW t \in TokenAccounts, NEW x \in Amounts,
                AgentDraw(a, t, x)
         PROVE  TypeOK'
    <2>1. /\ delegate' \in [TokenAccounts -> Agents \cup {NoAgent}]
          /\ delegated_amount' \in [TokenAccounts -> Nat]
      BY <1>15, SpendTyped DEF AgentDraw
    <2>2. /\ vault_tokens' \in [TokenAccounts -> 0 .. MaxU64]
          /\ outside' \in Nat /\ drawn' \in Nat
      BY <1>15 DEF AgentDraw
    <2>3. UNCHANGED <<live, account, roles, journal, strategies, made, platform_tokens, now,
                      inflow, deposited, aside>>
      BY <1>15 DEF AgentDraw
    <2> QED
      BY <2>1, <2>2, <2>3
  <1>16. ASSUME NEW t \in TokenAccounts, NEW x \in Amounts, TradingReturn(t, x) PROVE TypeOK'
    BY <1>16 DEF TradingReturn, Receive
  <1>17. CASE Tick
    BY <1>17 DEF Tick
  <1>18. CASE UNCHANGED vars
    BY <1>18 DEF vars
  <1> QED
    BY <1>1, <1>2, <1>3, <1>4, <1>5, <1>6, <1>7, <1>8, <1>81, <1>9, <1>10, <1>11, <1>12, <1>13,
       <1>14, <1>15, <1>16, <1>17, <1>18 DEF Next, UserNext, AgentNext, OtherNext

\* Type correctness of the vault: every field stays in its type in every
\* behaviour of the program.
THEOREM TypeCorrect == Spec => []TypeOK
  BY TypeInit, TypeStep, PTL DEF Spec

-----------------------------------------------------------------------------
(* The journal: what is inductive is the conjunction of the counter's      *)
(* exactness and the ownership of open records.  Neither stands alone:     *)
(* re-delegation and close_vault test the counter, and keep the records    *)
(* owned only because the counter is exact.                                *)

JournalInv == ActiveTradesExact /\ OpenTradesCloseable

LEMMA OpenRecordsFinite == TypeOK => IsFiniteSet(OpenRecords)
  <1> SUFFICES ASSUME TypeOK PROVE IsFiniteSet(OpenRecords)
    OBVIOUS
  <1>1. IsFiniteSet(TradeIds)
    BY VaultAssumption, FS_Interval, 0 \in Int, MaxTrades - 1 \in Int DEF VaultAssumption, TradeIds
  <1> QED
    BY <1>1, FS_Subset DEF OpenRecords

\* A zero counter means that no trade record is open.
LEMMA NoneOpen ==
    ASSUME TypeOK, JournalInv, live, active_trades = 0
    PROVE  OpenRecords = {}
  BY OpenRecordsFinite, FS_EmptySet DEF JournalInv, ActiveTradesExact

LEMMA JournalInit == Init => JournalInv
  BY FS_EmptySet DEF Init, JournalInv, ActiveTradesExact, OpenTradesCloseable, OpenRecords

LEMMA JournalStep == TypeOK /\ JournalInv /\ [Next]_vars => JournalInv'
  <1> SUFFICES ASSUME TypeOK, JournalInv, [Next]_vars PROVE JournalInv'
    OBVIOUS
  <1> USE DEF JournalInv, account, roles, journal, token, history
  <1>1. CASE UNCHANGED <<live, agent_pubkey, journal>>
    BY <1>1 DEF ActiveTradesExact, OpenTradesCloseable, OpenRecords
  <1>2. ASSUME NEW w \in Wallets, CreateVault(w) PROVE JournalInv'
    <2>1. OpenRecords = {}
      BY <1>2 DEF CreateVault, OpenTradesCloseable
    <2>2. OpenRecords' = {}
      BY <1>2, <2>1 DEF CreateVault, OpenRecords
    <2> QED
      BY <1>2, <2>2, FS_EmptySet DEF CreateVault, ActiveTradesExact, OpenTradesCloseable
  <1>3. ASSUME NEW a \in Agents, NEW t \in TokenAccounts, NEW x \in Amounts,
               DelegateToProtocol(a, t, x)
        PROVE  JournalInv'
    <2>1. OpenRecords = {}
      BY <1>3, NoneOpen DEF DelegateToProtocol, Named, Delegable
    <2>2. OpenRecords' = {}
      BY <1>3, <2>1 DEF DelegateToProtocol, OpenRecords
    <2> QED
      BY <1>3, <2>2, FS_EmptySet
         DEF DelegateToProtocol, Delegable, ActiveTradesExact, OpenTradesCloseable
  <1>4. ASSUME NEW t \in TokenAccounts, CloseVault(t) PROVE JournalInv'
    <2>1. OpenRecords = {}
      BY <1>4, NoneOpen DEF CloseVault, Named, CloseableEmpty
    <2>2. OpenRecords' = {}
      BY <1>4, <2>1 DEF CloseVault, OpenRecords
    <2> QED
      BY <1>4, <2>2 DEF CloseVault, ActiveTradesExact, OpenTradesCloseable
  <1>5. ASSUME NEW a \in Agents, NEW i \in TradeIds, RecordTrade(a, i) PROVE JournalInv'
    <2>1. /\ OpenRecords' = OpenRecords \cup {i}
          /\ i \notin OpenRecords
      BY <1>5 DEF RecordTrade, OpenRecords, TypeOK
    <2>2. Cardinality(OpenRecords') = Cardinality(OpenRecords) + 1
      BY <2>1, OpenRecordsFinite, FS_AddElement
    <2>3. ActiveTradesExact'
      BY <1>5, <2>2 DEF RecordTrade, ActiveTradesExact
    <2>4. OpenTradesCloseable'
      BY <1>5, <2>1 DEF RecordTrade, OpenTradesCloseable, TypeOK, TradeIds, OpenRecords
    <2> QED
      BY <2>3, <2>4
  <1>6. ASSUME NEW a \in Agents, NEW i \in TradeIds, CloseTrade(a, i) PROVE JournalInv'
    <2>1. /\ OpenRecords' = OpenRecords \ {i}
          /\ i \in OpenRecords
      BY <1>6 DEF CloseTrade, OpenRecords, TypeOK
    <2>2. Cardinality(OpenRecords') = Cardinality(OpenRecords) - 1
      BY <2>1, OpenRecordsFinite, FS_RemoveElement
    <2>3. active_trades # 0
      BY <1>6, <2>1, NoneOpen DEF CloseTrade
    <2>4. ActiveTradesExact'
      BY <1>6, <2>2, <2>3 DEF CloseTrade, ActiveAfterClose, ActiveTradesExact
    <2>5. OpenTradesCloseable'
      BY <1>6, <2>1 DEF CloseTrade, OpenTradesCloseable
    <2> QED
      BY <2>4, <2>5
  <1>7. ASSUME NEW a \in Agents, NEW i \in TradeIds, CloseTradeRecord(a, i) PROVE JournalInv'
    <2>1. OpenRecords' = OpenRecords
      BY <1>7 DEF CloseTradeRecord, OpenRecords, TypeOK
    <2> QED
      BY <1>7, <2>1 DEF CloseTradeRecord, ActiveTradesExact, OpenTradesCloseable
  <1>8. \/ UNCHANGED <<live, agent_pubkey, journal>>
        \/ \E w \in Wallets : CreateVault(w)
        \/ \E a \in Agents, t \in TokenAccounts, x \in Amounts : DelegateToProtocol(a, t, x)
        \/ \E t \in TokenAccounts : CloseVault(t)
        \/ \E a \in Agents, i \in TradeIds :
              RecordTrade(a, i) \/ CloseTrade(a, i) \/ CloseTradeRecord(a, i)
    BY DEF Next, UserNext, AgentNext, OtherNext, Deposit, DepositOwn, Withdraw, SetRiskMode,
           SettleFlat, SettleProfit, UpdatePlatformWallet, RegisterStrategy,
           CreateTokenAccount, AgentDraw, TradingReturn, Tick, vars
  <1> QED
    BY <1>1, <1>2, <1>3, <1>4, <1>5, <1>6, <1>7, <1>8

LEMMA JournalAlways == Spec => []JournalInv
  BY TypeCorrect, JournalInit, JournalStep, PTL DEF Spec

\* The counter that guards re-delegation and close_vault is always the number
\* of open trade records.
THEOREM ActiveTradesIsExact == Spec => []ActiveTradesExact
  BY JournalAlways, PTL DEF JournalInv

\* The current agent can close every open record of the vault.
THEOREM OpenTradesStayCloseable == Spec => []OpenTradesCloseable
  BY JournalAlways, PTL DEF JournalInv

\* No step replaces the agent of a vault with open trades.
THEOREM AgentStaysWhileTrading == Spec => AgentFixedWhileTrading
  <1>1. TypeOK /\ JournalInv /\ [Next]_vars
          => [OpenRecords # {} => agent_pubkey' = agent_pubkey]_vars
    <2> SUFFICES ASSUME TypeOK, JournalInv, [Next]_vars, OpenRecords # {}
                 PROVE  agent_pubkey' = agent_pubkey
      OBVIOUS
    <2> USE DEF account, roles, journal, token, history
    <2>1. live
      BY DEF JournalInv, OpenTradesCloseable
    <2>2. active_trades # 0
      BY <2>1, NoneOpen
    <2> QED
      BY <2>1, <2>2 DEF Next, UserNext, AgentNext, OtherNext, CreateVault, Deposit,
         DepositOwn, DelegateToProtocol, Delegable, Withdraw, SetRiskMode, CloseVault, CloseableEmpty, SettleFlat, SettleProfit,
         RecordTrade, CloseTrade, CloseTradeRecord, UpdatePlatformWallet, RegisterStrategy,
         CreateTokenAccount, AgentDraw, TradingReturn, Tick, vars
  <1> QED
    BY <1>1, TypeCorrect, JournalAlways, PTL DEF Spec, AgentFixedWhileTrading

-----------------------------------------------------------------------------
(* The money.  Fees stay within a fifth of the inflow because the tokens   *)
(* above opening_balance are inflow that was not charged yet: a settlement *)
(* charges a fifth of them and moves opening_balance up to what is left.   *)
(* An account created again starts from opening_balance = 0, which is safe *)
(* because close_vault finds the token account empty.  All of it is about  *)
(* the one token account the instructions name, and ends with the first    *)
(* that names another.                                                     *)

Uncharged == IF live THEN vault_tokens[Ata] - opening_balance ELSE vault_tokens[Ata]

MoneyInv ==
    ~aside => /\ 5 * platform_tokens <= inflow
              /\ 5 * platform_tokens + Uncharged <= inflow
              /\ live => balance <= vault_tokens[Ata] + drawn

LEMMA MoneyInit == Init => MoneyInv
  BY VaultAssumption DEF VaultAssumption, Init, MoneyInv, Uncharged

\* An instruction after which nothing was named aside names the client's account.
LEMMA NamedAta ==
    ASSUME NEW t, Named(t), ~aside'
    PROVE  t = Ata /\ ~aside /\ live
  BY DEF Named

LEMMA MoneyStep == TypeOK /\ MoneyInv /\ [Next]_vars => MoneyInv'
  <1> SUFFICES ASSUME TypeOK, MoneyInv, [Next]_vars, ~aside' PROVE MoneyInv'
    BY DEF MoneyInv
  <1> USE VaultAssumption
      DEF VaultAssumption, TypeOK, MoneyInv, Uncharged, account, roles, journal, approvals,
          token, history
  <1>1. CASE UNCHANGED <<live, account, vault_tokens, platform_tokens, history>>
    BY <1>1
  <1>2. ASSUME NEW w \in Wallets, CreateVault(w) PROVE MoneyInv'
    BY <1>2 DEF CreateVault
  <1>3. ASSUME NEW t \in TokenAccounts, NEW x \in Amounts, Deposit(t, x) PROVE MoneyInv'
    BY <1>3, NamedAta DEF Deposit, Receive
  <1>4. ASSUME NEW t \in TokenAccounts, NEW to \in TokenAccounts \cup {Wallet},
               NEW x \in Amounts, Withdraw(t, to, x)
        PROVE  MoneyInv'
    <2>1. /\ t = Ata /\ ~aside /\ live /\ balance >= x /\ balance' = balance - x
          /\ UNCHANGED <<live, opening_balance, platform_tokens, inflow, drawn>>
      BY <1>4, NamedAta DEF Withdraw
    <2>2. vault_tokens'[Ata] <= vault_tokens[Ata] /\ vault_tokens'[Ata] >= vault_tokens[Ata] - x
      <3>1. CASE to = Wallet
        BY <1>4, <2>1, <3>1 DEF Withdraw
      <3>2. CASE to = Ata
        BY <1>4, <2>1, <3>2 DEF Withdraw, Move
      <3>3. CASE to \in TokenAccounts \ {Ata}
        BY <1>4, <2>1, <3>3 DEF Withdraw, Move
      <3> QED
        BY <3>1, <3>2, <3>3
    <2>3. vault_tokens'[Ata] \in Int
      <3>1. CASE to = Wallet
        BY <1>4, <2>1, <3>1 DEF Withdraw
      <3>2. CASE to \in TokenAccounts
        BY <1>4, <2>1, <3>2, MoveTyped DEF Withdraw
      <3> QED
        BY <3>1, <3>2
    <2> QED
      BY <2>1, <2>2, <2>3
  <1>5. ASSUME NEW t \in TokenAccounts, CloseVault(t) PROVE MoneyInv'
    BY <1>5, NamedAta DEF CloseVault, CloseableEmpty
  <1>6. ASSUME NEW a \in Agents, NEW t \in TokenAccounts, SettleFlat(a, t) PROVE MoneyInv'
    BY <1>6, NamedAta DEF SettleFlat, SettleAllowed, Rebase
  <1>7. ASSUME NEW a \in Agents, NEW t \in TokenAccounts, SettleProfit(a, t) PROVE MoneyInv'
    <2> DEFINE profit == vault_tokens[Ata] - opening_balance
               fee == PlatformFee(profit)
    <2>1. t = Ata /\ live /\ ~aside /\ profit \in Nat
      BY <1>7, NamedAta DEF SettleProfit, SettleAllowed
    <2>2. fee \in Nat /\ 5 * fee <= profit
      BY <2>1, FeeBounds
    <2>3. /\ platform_tokens' = platform_tokens + fee
          /\ vault_tokens'[Ata] = vault_tokens[Ata] - fee
          /\ balance' = vault_tokens[Ata] - fee
          /\ opening_balance' = vault_tokens[Ata] - fee
          /\ drawn' = 0
          /\ UNCHANGED <<live, inflow>>
      BY <1>7, <2>1 DEF SettleProfit, Rebase
    <2>4. 5 * platform_tokens + profit <= inflow
      BY <2>1
    <2> HIDE DEF fee
    <2>5. 5 * platform_tokens' <= inflow'
      BY <2>1, <2>2, <2>3, <2>4
    <2>6. Uncharged' = 0
      BY <2>1, <2>2, <2>3
    <2> QED
      BY <2>1, <2>2, <2>3, <2>5, <2>6
  <1>8. ASSUME NEW a \in Agents, NEW t \in TokenAccounts, NEW x \in Amounts, AgentDraw(a, t, x)
        PROVE  MoneyInv'
    BY <1>8 DEF AgentDraw
  <1>9. ASSUME NEW t \in TokenAccounts, NEW x \in Amounts, TradingReturn(t, x) PROVE MoneyInv'
    BY <1>9 DEF TradingReturn, Receive
  <1>10. ASSUME NEW s \in TokenAccounts, NEW t \in TokenAccounts, NEW x \in Amounts,
                DepositOwn(s, t, x)
         PROVE  MoneyInv'
    BY <1>10 DEF DepositOwn
  <1>11. ASSUME NEW a \in Agents, NEW t \in TokenAccounts, NEW x \in Amounts,
                DelegateToProtocol(a, t, x)
         PROVE  MoneyInv'
    BY <1>11, NamedAta DEF DelegateToProtocol
  <1>12. \/ UNCHANGED <<live, account, vault_tokens, platform_tokens, history>>
         \/ \E w \in Wallets : CreateVault(w)
         \/ \E t \in TokenAccounts, x \in Amounts : Deposit(t, x) \/ TradingReturn(t, x)
         \/ \E t \in TokenAccounts, to \in TokenAccounts \cup {Wallet}, x \in Amounts :
               Withdraw(t, to, x)
         \/ \E s, t \in TokenAccounts, x \in Amounts : DepositOwn(s, t, x)
         \/ \E t \in TokenAccounts : CloseVault(t)
         \/ \E a \in Agents, t \in TokenAccounts : SettleFlat(a, t) \/ SettleProfit(a, t)
         \/ \E a \in Agents, t \in TokenAccounts, x \in Amounts :
               AgentDraw(a, t, x) \/ DelegateToProtocol(a, t, x)
    BY DEF Next, UserNext, AgentNext, OtherNext, SetRiskMode, RecordTrade, CloseTrade,
           CloseTradeRecord, UpdatePlatformWallet, RegisterStrategy, CreateTokenAccount, Tick, vars
  <1> QED
    BY <1>1, <1>2, <1>3, <1>4, <1>5, <1>6, <1>7, <1>8, <1>9, <1>10, <1>11, <1>12

LEMMA MoneyAlways == Spec => []MoneyInv
  BY TypeCorrect, MoneyInit, MoneyStep, PTL DEF Spec

\* As long as every instruction names the token accounts the client names, no
\* settlement, in any epoch of any account of the PDA, charges a token that an
\* earlier one charged: fees are at most a fifth of the inflow.
THEOREM FeesWithinInflow == Spec => []FeeWithinInflow
  <1>1. MoneyInv => FeeWithinInflow
    BY DEF MoneyInv, FeeWithinInflow
  <1> QED
    BY <1>1, MoneyAlways, PTL

\* Under the same condition, what the user may withdraw is in that token account
\* or with the delegate.
THEOREM BalanceStaysBacked == Spec => []BalanceBacked
  <1>1. MoneyInv => BalanceBacked
    BY DEF MoneyInv, BalanceBacked
  <1> QED
    BY <1>1, MoneyAlways, PTL
=============================================================================
