------------------------------- MODULE Money --------------------------------
(***************************************************************************)
(* Money and vault of the web dashboard (DashboardPage, DepositModal,      *)
(* WithdrawModal, services/api and services/solana): a deposit or a        *)
(* withdrawal is built by the backend, signed by the wallet, submitted and *)
(* confirmed on chain, and then told to the backend with its amount.  A    *)
(* modal can be closed meanwhile, its operation goes on.                   *)
(***************************************************************************)
EXTENDS Integers, Sequences

CONSTANTS
    None,
    Amounts,    \* amounts typed
    Balances,   \* balances of the vault as the backend gives them
    MaxOps      \* operations and loads, a bound

MoneyAssumption == Amounts \subseteq Int /\ Balances \subseteq Int

Kinds == {"deposit", "withdraw"}

VARIABLES
    balance,    \* the vault's balance on the page
    loads,      \* loads of the dashboard's data on their way
    modal,      \* open modals: kind |-> [raw, step, id], or None
    ops,        \* operations started: [kind, amount, id, stage]
    chain,      \* what the chain took, operation |-> the amount it moved
    told        \* confirmations sent to the backend: [op, amount]

vars == <<balance, loads, modal, ops, chain, told>>

Closed == None
Sign(k) == IF k = "deposit" THEN 1 ELSE -1

\* The modal operation i was started from is still there.
Mounted(i) == modal[ops[i].kind] # Closed /\ modal[ops[i].kind].id = ops[i].id
SetStep(i, s) == IF Mounted(i) THEN [modal EXCEPT ![ops[i].kind].step = s] ELSE modal

-----------------------------------------------------------------------------
\* The dashboard asks for its data when it opens and when the user changes.
LoadDashboardData ==
    /\ loads + Len(ops) < MaxOps
    /\ loads' = loads + 1
    /\ UNCHANGED <<balance, modal, ops, chain, told>>

\* The answer replaces what is shown, a failure leaves it.
Loaded ==
    /\ loads > 0
    /\ loads' = loads - 1
    /\ balance' \in Balances \cup {balance}
    /\ UNCHANGED <<modal, ops, chain, told>>

OpenModal(k) ==
    /\ modal[k] = Closed
    /\ \A other \in Kinds : modal[other] = Closed
    /\ modal' = [modal EXCEPT ![k] = [raw |-> 0, step |-> "idle", id |-> Len(ops)]]
    /\ UNCHANGED <<balance, loads, ops, chain, told>>

\* Escape, the backdrop and the close button, at any step.
CloseModal(k) ==
    /\ modal[k] # Closed
    /\ modal' = [modal EXCEPT ![k] = Closed]
    /\ UNCHANGED <<balance, loads, ops, chain, told>>

\* The amount can be typed over while an operation runs.
TypeAmount(k, a) ==
    /\ modal[k] # Closed
    /\ modal' = [modal EXCEPT ![k].raw = a]
    /\ UNCHANGED <<balance, loads, ops, chain, told>>

\* The input and the chips of each modal; a withdrawal has a chip for all.
TypeDeposit(a) == TypeAmount("deposit", a)
TypeWithdrawal(a) == TypeAmount("withdraw", a)

CanConfirm(k) == modal[k] # Closed /\ modal[k].step = "idle" /\ modal[k].raw > 0
MaxAmount(k) == k = "withdraw" => modal[k].raw <= balance

HandleConfirm(k) ==
    /\ CanConfirm(k) /\ MaxAmount(k)
    /\ loads + Len(ops) < MaxOps
    /\ ops' = Append(ops, [kind |-> k, amount |-> modal[k].raw, id |-> modal[k].id,
                           stage |-> "building"])
    /\ modal' = [modal EXCEPT ![k].step = "building"]
    /\ UNCHANGED <<balance, loads, chain, told>>

\* buildDepositTx, buildWithdrawTx: the backend made the transaction.
Built(i) ==
    /\ ops[i].stage = "building"
    /\ ops' = [ops EXCEPT ![i].stage = "signing"]
    /\ modal' = SetStep(i, "signing")
    /\ UNCHANGED <<balance, loads, chain, told>>

AmountShown(i) == IF Mounted(i) THEN modal[ops[i].kind].raw ELSE ops[i].amount
\* The amount told with a confirmation, the one of the press.
AmountTold(i) == ops[i].amount

\* signAndSubmitTx: signed by the wallet, taken by the chain, where it may still
\* fail and move nothing, and confirmed there, or the confirmation does not come
\* in time.  What a confirmation says of the transaction is not looked at.
Submitted(i) ==
    /\ ops[i].stage = "signing"
    /\ i \notin DOMAIN chain
    /\ \E moved \in {ops[i].amount, 0} :
          chain' = [j \in DOMAIN chain \cup {i} |-> IF j = i THEN moved ELSE chain[j]]
    /\ UNCHANGED <<balance, loads, modal, ops, told>>
Confirmed(i) ==
    /\ ops[i].stage = "signing" /\ i \in DOMAIN chain
    /\ ops' = [ops EXCEPT ![i].stage = "confirming"]
    /\ modal' = SetStep(i, "confirming")
    /\ told' = told \cup {[op |-> i, amount |-> AmountTold(i)]}
    /\ UNCHANGED <<balance, loads, chain>>

\* onSuccess and onClose close the modal of this kind that is open now, the
\* step of the modal that started it becomes idle.
Done(i) ==
    /\ ops[i].stage = "confirming"
    /\ ops' = [ops EXCEPT ![i].stage = "done"]
    /\ modal' = [modal EXCEPT ![ops[i].kind] = Closed]
    /\ balance' = balance + Sign(ops[i].kind) * ops[i].amount
    /\ UNCHANGED <<loads, chain, told>>

\* A step fails, at the backend, in the wallet or on the chain.
Failed(i) ==
    /\ ops[i].stage \notin {"done", "failed"}
    /\ ops' = [ops EXCEPT ![i].stage = "failed"]
    /\ modal' = SetStep(i, "idle")
    /\ UNCHANGED <<balance, loads, chain, told>>

-----------------------------------------------------------------------------
Init ==
    /\ balance \in Balances
    /\ loads = 1
    /\ modal = [k \in Kinds |-> Closed]
    /\ ops = <<>> /\ chain = <<>> /\ told = {}

Next ==
    \/ LoadDashboardData \/ Loaded
    \/ \E k \in Kinds : OpenModal(k) \/ CloseModal(k) \/ HandleConfirm(k)
    \/ \E a \in Amounts : TypeDeposit(a)
    \/ \E a \in Amounts \cup {balance} : TypeWithdrawal(a)
    \/ \E i \in DOMAIN ops : Built(i) \/ Submitted(i) \/ Confirmed(i) \/ Done(i) \/ Failed(i)

Spec == Init /\ [][Next]_vars

-----------------------------------------------------------------------------
\* The backend is told of a transaction once it is on the chain, and with the
\* amount that moved there unless it failed there, whatever is typed, closed and
\* opened meanwhile (handleConfirm of DepositModal and WithdrawModal).
ToldWhatMoved == \A t \in told : t.op \in DOMAIN chain /\ chain[t.op] \in {t.amount, 0}
=============================================================================
