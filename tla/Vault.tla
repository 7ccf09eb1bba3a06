------------------------------- MODULE Vault -------------------------------
(***************************************************************************)
(* The on-chain vault program, one (user x strategy) vault PDA: its        *)
(* account, the trade records keyed by it, its token accounts and the SPL  *)
(* delegations the user grants the agent.  One action per instruction; an  *)
(* instruction whose require! or account constraint fails aborts its whole *)
(* transaction and is therefore a disabled action.                         *)
(*                                                                         *)
(* Every instruction about tokens takes any token account whose owner is   *)
(* the PDA and whose mint is the vault's, and there can be several.  The   *)
(* client names one, the associated token account.                         *)
(*                                                                         *)
(* Data left out: symbols, prices, timestamps and outcomes stored in a     *)
(* trade record (no instruction reads them), rent, events and logs.        *)
(* Outside the program: the SPL token accounts (approve, transfer by the   *)
(* delegate, close) and whoever sends tokens to them.                      *)
(***************************************************************************)
EXTENDS Integers, FiniteSets

CONSTANTS
    Agents,         \* keypairs the user may delegate to
    User,           \* the user's own, which may be one of them
    NoAgent,        \* Pubkey::default(), a key nobody signs with
    Wallets,        \* keys that can be the platform wallet
    TokenAccounts,  \* token accounts of the PDA with the vault's mint
    Ata,            \* the associated one
    Wallet,         \* the user's own token account
    StrategyKeys,   \* (trader, strategy_id) pairs that may be registered
    RiskModes,      \* values the user may pass to set_risk_mode
    Amounts,        \* u64 amounts a caller may pass or transfer
    Supply,         \* supply of the vault's mint
    MaxU64,         \* largest u64
    MIN_EPOCH_DURATION,
    MaxInflow,      \* bound: tokens that ever enter the vault
    MaxTrades,      \* bound: trade ids
    MaxNow          \* bound: the cluster clock

ASSUME VaultAssumption ==
    /\ NoAgent \notin Agents
    /\ Wallets # {}
    /\ User # NoAgent
    /\ Ata \in TokenAccounts /\ Wallet \notin TokenAccounts
    /\ Amounts \subseteq Nat
    /\ RiskModes \subseteq Nat
    /\ Supply \in Nat /\ MaxU64 \in Nat /\ MIN_EPOCH_DURATION \in Nat
    /\ MaxInflow \in Nat /\ MaxTrades \in Nat /\ MaxNow \in Nat

VARIABLES
    live,             \* the vault account exists
    balance, opening_balance, epoch_profit, last_settle_ts,
    agent_pubkey, platform_wallet, risk_mode,
    trade_count, active_trades,
    records,          \* trade id -> "none" (no account), "open" or "closed"
    strategies,       \* strategy records registered so far
    made,             \* the token accounts that exist
    vault_tokens,     \* token account -> its amount
    delegate, delegated_amount,  \* token account -> its SPL delegation
    outside,          \* tokens of the user, the agents, the market
    platform_tokens,  \* tokens paid as fees, over all platform wallets
    now,              \* Clock::unix_timestamp
    \* History, read by no instruction:
    inflow,           \* tokens that ever entered the token accounts from outside
    deposited,        \* the part of inflow the user deposited
    drawn,            \* tokens the delegate moved out since the last settlement
    aside,            \* an instruction named other accounts than the client does
    opened_by         \* trade id -> agent that recorded it

account == <<balance, opening_balance, epoch_profit, last_settle_ts>>
roles   == <<agent_pubkey, platform_wallet, risk_mode>>
journal == <<trade_count, active_trades, records, opened_by>>
approvals == <<delegate, delegated_amount>>
token   == <<made, vault_tokens, approvals, outside, platform_tokens>>
history == <<inflow, deposited, drawn, aside>>
vars    == <<live, account, roles, journal, strategies, token, now, history>>

TradeIds    == 0 .. MaxTrades - 1
OpenRecords == {i \in TradeIds : records[i] = "open"}

TypeOK ==
    /\ live \in BOOLEAN
    /\ balance \in 0 .. MaxU64
    /\ opening_balance \in 0 .. MaxU64
    /\ epoch_profit \in 0 .. MaxU64
    /\ last_settle_ts \in 0 .. now
    /\ agent_pubkey \in Agents \cup {NoAgent}
    /\ platform_wallet \in Wallets
    /\ risk_mode \in 0 .. 2
    /\ trade_count \in 0 .. MaxTrades
    /\ active_trades \in 0 .. trade_count
    /\ records \in [TradeIds -> {"none", "open", "closed"}]
    /\ strategies \subseteq StrategyKeys
    /\ made \subseteq TokenAccounts
    /\ vault_tokens \in [TokenAccounts -> 0 .. MaxU64]
    /\ outside \in Nat /\ platform_tokens \in Nat
    /\ delegate \in [TokenAccounts -> Agents \cup {NoAgent}]
    /\ delegated_amount \in [TokenAccounts -> Nat]
    /\ now \in 1 .. MaxNow + 1
    /\ inflow \in 0 .. MaxInflow
    /\ deposited \in 0 .. inflow
    /\ drawn \in Nat /\ aside \in BOOLEAN
    /\ opened_by \in [TradeIds -> Agents \cup {NoAgent}]

Init ==
    /\ live = FALSE
    /\ balance = 0 /\ opening_balance = 0 /\ epoch_profit = 0 /\ last_settle_ts = 0
    /\ agent_pubkey = NoAgent
    /\ platform_wallet \in Wallets
    /\ risk_mode = 1
    /\ trade_count = 0 /\ active_trades = 0
    /\ records = [i \in TradeIds |-> "none"]
    /\ opened_by = [i \in TradeIds |-> NoAgent]
    /\ strategies = {}
    /\ made = {}
    /\ vault_tokens = [t \in TokenAccounts |-> 0]
    /\ delegate = [t \in TokenAccounts |-> NoAgent]
    /\ delegated_amount = [t \in TokenAccounts |-> 0]
    /\ outside = Supply /\ platform_tokens = 0
    /\ now = 1
    /\ inflow = 0 /\ deposited = 0 /\ drawn = 0 /\ aside = FALSE

-----------------------------------------------------------------------------
(* Instructions signed by the user.                                        *)

\* `init` on the PDA: fails while the account exists, succeeds again after
\* close_vault.  Records of the earlier account keep their own PDAs.
CreateVault(wallet) ==
    /\ ~live
    /\ live' = TRUE
    /\ balance' = 0 /\ opening_balance' = 0 /\ epoch_profit' = 0
    /\ platform_wallet' = wallet
    /\ agent_pubkey' = NoAgent
    /\ risk_mode' = 1
    /\ trade_count' = 0
    /\ last_settle_ts' = 0
    /\ active_trades' = 0
    /\ UNCHANGED <<records, opened_by, strategies, token, now, history>>

\* C2 and H7: owned by the PDA, with the vault's mint.
Named(t) ==
    /\ live /\ t \in made
    /\ aside' = (aside \/ t # Ata)

\* Tokens entering a token account from outside.
Receive(t, amount) ==
    /\ amount <= outside
    /\ inflow + amount <= MaxInflow
    /\ vault_tokens[t] + amount <= MaxU64
    /\ vault_tokens' = [vault_tokens EXCEPT ![t] = @ + amount]
    /\ outside' = outside - amount
    /\ inflow' = inflow + amount

\* An SPL transfer between two token accounts of the vault; one to itself
\* moves nothing.
Move(s, t, amount) ==
    /\ amount <= vault_tokens[s]
    /\ IF s = t
       THEN vault_tokens' = vault_tokens
       ELSE /\ vault_tokens[t] + amount <= MaxU64
            /\ vault_tokens' = [vault_tokens EXCEPT ![s] = @ - amount, ![t] = @ + amount]

\* The SPL program consumes the delegated amount and drops the delegate when
\* it is spent.
Spend(s, amount) ==
    /\ delegated_amount' = [delegated_amount EXCEPT ![s] = @ - amount]
    /\ delegate' = [delegate EXCEPT ![s] = IF delegated_amount[s] = amount THEN NoAgent ELSE @]

Deposit(t, amount) ==
    /\ Named(t)
    /\ amount > 0
    /\ Receive(t, amount)
    /\ balance + amount <= MaxU64
    /\ balance' = balance + amount
    /\ deposited' = deposited + amount
    /\ UNCHANGED <<live, opening_balance, epoch_profit, last_settle_ts, roles, journal,
                   strategies, made, approvals, platform_tokens, now, drawn>>

\* The same instruction with, as user_token_account, one of the vault's own:
\* its mint fits, and a user who is its delegate may sign for it.
DepositOwn(s, t, amount) ==
    /\ live /\ s \in made /\ t \in made
    /\ delegate[s] = User /\ amount <= delegated_amount[s]
    /\ amount > 0
    /\ Move(s, t, amount)
    /\ IF s = t THEN UNCHANGED approvals ELSE Spend(s, amount)
    /\ balance + amount <= MaxU64
    /\ balance' = balance + amount
    /\ aside' = TRUE
    /\ UNCHANGED <<live, opening_balance, epoch_profit, last_settle_ts, roles, journal,
                   strategies, made, outside, platform_tokens, now, inflow, deposited, drawn>>

\* Fault: the instruction before H8.
DelegableAlways == TRUE
\* H8: no re-delegation while trades are active.
Delegable == active_trades = 0

DelegateToProtocol(agent, t, amount) ==
    /\ Named(t)
    /\ amount > 0
    /\ Delegable
    /\ agent_pubkey' = agent
    /\ delegate' = [delegate EXCEPT ![t] = agent]
    /\ delegated_amount' = [delegated_amount EXCEPT ![t] = amount]
    /\ UNCHANGED <<live, account, platform_wallet, risk_mode, journal, strategies, made,
                   vault_tokens, outside, platform_tokens, now, inflow, deposited, drawn>>

\* user_token_account has the vault's mint, and may be one of the vault's own.
Withdraw(t, to, amount) ==
    /\ Named(t)
    /\ amount > 0
    /\ balance >= amount
    /\ balance' = balance - amount
    /\ \/ /\ to = Wallet
          /\ vault_tokens[t] >= amount
          /\ vault_tokens' = [vault_tokens EXCEPT ![t] = @ - amount]
          /\ outside' = outside + amount
       \/ /\ to \in made
          /\ Move(t, to, amount)
          /\ UNCHANGED outside
    /\ UNCHANGED <<live, opening_balance, epoch_profit, last_settle_ts, roles, journal,
                   strategies, made, approvals, platform_tokens, now, inflow, deposited, drawn>>

\* Fault: the instruction before H10.
AnyRiskMode(mode) == TRUE
\* H10: Conservative, Medium or Aggressive.
ValidRiskMode(mode) == mode <= 2

SetRiskMode(mode) ==
    /\ live
    /\ ValidRiskMode(mode)
    /\ risk_mode' = mode
    /\ UNCHANGED <<live, account, agent_pubkey, platform_wallet, journal, strategies,
                   token, now, history>>

\* Fault: only the balance is required to be zero.
CloseableWithTrades == balance = 0
CloseableEmpty == balance = 0 /\ active_trades = 0

\* The SPL token program refuses to close a token account that holds tokens.
\* Only the one named is closed.
CloseVault(t) ==
    /\ Named(t)
    /\ CloseableEmpty
    /\ vault_tokens[t] = 0
    /\ live' = FALSE
    /\ made' = made \ {t}
    /\ delegate' = [delegate EXCEPT ![t] = NoAgent]
    /\ delegated_amount' = [delegated_amount EXCEPT ![t] = 0]
    /\ UNCHANGED <<account, roles, journal, strategies, vault_tokens, outside,
                   platform_tokens, now, inflow, deposited, drawn>>

-----------------------------------------------------------------------------
(* Instructions signed by the agent.                                       *)

SettleAllowed(agent, t) ==
    /\ Named(t)
    /\ agent = agent_pubkey
    /\ last_settle_ts > 0 => now - last_settle_ts >= MIN_EPOCH_DURATION

\* Rounded down; the multiplication is a checked u64 one.
PlatformFee(profit) == (profit * 20) \div 100

\* Fault: the opening balance is not rolled forward.
RebaseBalanceOnly(tokens) ==
    /\ balance' = tokens /\ opening_balance' = opening_balance
    /\ last_settle_ts' = now /\ drawn' = 0
\* Fault: the user's balance does not follow the token account.
RebaseOpeningOnly(tokens) ==
    /\ balance' = balance /\ opening_balance' = tokens
    /\ last_settle_ts' = now /\ drawn' = 0
\* Both balances restart from what the token account holds.
Rebase(tokens) ==
    /\ balance' = tokens /\ opening_balance' = tokens
    /\ last_settle_ts' = now /\ drawn' = 0

SettleFlat(agent, t) ==
    /\ SettleAllowed(agent, t)
    /\ vault_tokens[t] <= opening_balance
    /\ epoch_profit' = 0
    /\ Rebase(vault_tokens[t])
    /\ UNCHANGED <<live, roles, journal, strategies, token, now, inflow, deposited>>

SettleProfit(agent, t) ==
    /\ SettleAllowed(agent, t)
    /\ vault_tokens[t] > opening_balance
    /\ LET profit == vault_tokens[t] - opening_balance
           fee    == PlatformFee(profit)
       IN  /\ profit * 20 <= MaxU64
           /\ vault_tokens' = [vault_tokens EXCEPT ![t] = @ - fee]
           /\ platform_tokens' = platform_tokens + fee
           /\ epoch_profit' = profit
           /\ Rebase(vault_tokens[t] - fee)
    /\ UNCHANGED <<live, roles, journal, strategies, made, approvals, outside, now, inflow,
                   deposited>>

\* `init` on the record's PDA: fails while a record with this id exists, also
\* one that an earlier account of the same (user x strategy) left behind.
RecordTrade(agent, trade_id) ==
    /\ live
    /\ agent = agent_pubkey
    /\ trade_id = trade_count
    /\ records[trade_id] = "none"
    /\ trade_count + 1 <= MaxU64
    /\ active_trades + 1 <= MaxU64
    /\ records' = [records EXCEPT ![trade_id] = "open"]
    /\ opened_by' = [opened_by EXCEPT ![trade_id] = agent]
    /\ trade_count' = trade_count + 1
    /\ active_trades' = active_trades + 1
    /\ UNCHANGED <<live, account, roles, strategies, token, now, history>>

\* Fault: the counter is not decremented.
ActiveKept == active_trades
\* saturating_sub(1)
ActiveAfterClose == IF active_trades = 0 THEN 0 ELSE active_trades - 1

CloseTrade(agent, trade_id) ==
    /\ live
    /\ agent = agent_pubkey
    /\ records[trade_id] = "open"
    /\ records' = [records EXCEPT ![trade_id] = "closed"]
    /\ active_trades' = ActiveAfterClose
    /\ UNCHANGED <<live, account, roles, trade_count, opened_by, strategies, token, now, history>>

CloseTradeRecord(agent, trade_id) ==
    /\ live
    /\ agent = agent_pubkey
    /\ records[trade_id] = "closed"
    /\ records' = [records EXCEPT ![trade_id] = "none"]
    /\ UNCHANGED <<live, account, roles, trade_count, active_trades, opened_by, strategies,
                   token, now, history>>

-----------------------------------------------------------------------------
(* Instructions of other signers.                                          *)

UpdatePlatformWallet(signer, wallet) ==
    /\ live
    /\ signer = platform_wallet
    /\ platform_wallet' = wallet
    /\ UNCHANGED <<live, account, agent_pubkey, risk_mode, journal, strategies, token, now, history>>

RegisterStrategy(key) ==
    /\ key \notin strategies
    /\ strategies' = strategies \cup {key}
    /\ UNCHANGED <<live, account, roles, journal, token, now, history>>

-----------------------------------------------------------------------------
(* The environment: the SPL token program, the market and the clock.       *)

\* Anyone may pay for a token account of the PDA.
CreateTokenAccount(t) ==
    /\ t \notin made
    /\ made' = made \cup {t}
    /\ UNCHANGED <<live, account, roles, journal, strategies, vault_tokens, approvals,
                   outside, platform_tokens, now, history>>

\* The delegate moves tokens out, to margin or to trade.
AgentDraw(agent, t, amount) ==
    /\ t \in made
    /\ agent = delegate[t]
    /\ amount > 0
    /\ amount <= delegated_amount[t]
    /\ amount <= vault_tokens[t]
    /\ vault_tokens' = [vault_tokens EXCEPT ![t] = @ - amount]
    /\ outside' = outside + amount
    /\ Spend(t, amount)
    /\ drawn' = drawn + amount
    /\ UNCHANGED <<live, account, roles, journal, strategies, made, platform_tokens, now,
                   inflow, deposited, aside>>

\* Principal or profit comes back: a plain transfer, no instruction of the program.
TradingReturn(t, amount) ==
    /\ t \in made
    /\ amount > 0
    /\ Receive(t, amount)
    /\ UNCHANGED <<live, account, roles, journal, strategies, made, approvals,
                   platform_tokens, now, deposited, drawn, aside>>

Tick ==
    /\ now <= MaxNow
    /\ now' = now + 1
    /\ UNCHANGED <<live, account, roles, journal, strategies, token, history>>

UserNext ==
    \/ \E w \in Wallets : CreateVault(w)
    \/ \E t \in TokenAccounts, x \in Amounts : Deposit(t, x)
    \/ \E s, t \in TokenAccounts, x \in Amounts : DepositOwn(s, t, x)
    \/ \E a \in Agents, t \in TokenAccounts, x \in Amounts : DelegateToProtocol(a, t, x)
    \/ \E t \in TokenAccounts, to \in TokenAccounts \cup {Wallet}, x \in Amounts :
          Withdraw(t, to, x)
    \/ \E m \in RiskModes : SetRiskMode(m)
    \/ \E t \in TokenAccounts : CloseVault(t)

AgentNext ==
    \/ \E a \in Agents, t \in TokenAccounts : SettleFlat(a, t)
    \/ \E a \in Agents, t \in TokenAccounts : SettleProfit(a, t)
    \/ \E a \in Agents, i \in TradeIds : RecordTrade(a, i)
    \/ \E a \in Agents, i \in TradeIds : CloseTrade(a, i)
    \/ \E a \in Agents, i \in TradeIds : CloseTradeRecord(a, i)

OtherNext ==
    \/ \E s, w \in Wallets : UpdatePlatformWallet(s, w)
    \/ \E k \in StrategyKeys : RegisterStrategy(k)
    \/ \E t \in TokenAccounts : CreateTokenAccount(t)
    \/ \E a \in Agents, t \in TokenAccounts, x \in Amounts : AgentDraw(a, t, x)
    \/ \E t \in TokenAccounts, x \in Amounts : TradingReturn(t, x)
    \/ Tick

Next == UserNext \/ AgentNext \/ OtherNext

Spec == Init /\ [][Next]_vars

-----------------------------------------------------------------------------
(* Properties.                                                             *)

\* The active_trades counter that guards re-delegation (H8) and close_vault
\* is the number of open trade records, whatever accounts were closed and
\* created again meanwhile; its saturating_sub never hides a mismatch.
ActiveTradesExact == live => active_trades = Cardinality(OpenRecords)

\* Every open trade record can still be closed: its vault account exists, its
\* id was issued by this account and the agent that recorded it is the one
\* the vault accepts.
OpenTradesCloseable ==
    \A i \in OpenRecords :
        /\ live
        /\ i < trade_count
        /\ opened_by[i] = agent_pubkey

\* Over all epochs and all accounts of this PDA, fees are at most 20% of what
\* ever entered its token accounts: no token is charged in two settlements,
\* as long as every instruction names the token accounts the client names
\* (settle_epoch, close_vault; _vault_token_account and _user_token_account
\* of anchor_vault_client.py).
FeeWithinInflow == aside \/ 5 * platform_tokens <= inflow

\* What the user may withdraw is in the token account the client names or was
\* moved out by the delegate since the last settlement, under the same
\* condition: no other step loses user funds.
BalanceBacked == live /\ ~aside => balance <= vault_tokens[Ata] + drawn

\* The agent cannot be replaced while the vault has open trades, neither by
\* delegate_to_protocol nor by closing and creating the account again.
AgentFixedWhileTrading ==
    [][OpenRecords # {} => agent_pubkey' = agent_pubkey]_vars

-----------------------------------------------------------------------------
(* What comments of the program say of it.                                 *)

\* "This ensures trading P&L is captured and deposits are not counted as
\* profit": the fees are at most 20% of what did not come from deposits.
DepositsNotProfit == 5 * platform_tokens <= inflow - deposited

\* "20% to platform, rounded down (user always gets at least 80%)", whichever
\* token accounts of the vault the settlements name.
UserKeepsFourFifths == 5 * platform_tokens <= inflow
=============================================================================
