------------------------------ MODULE Settings ------------------------------
(***************************************************************************)
(* The pages where something is set: texts with a label that says they     *)
(* were saved, the dashboard's risk mode, the submission of a further      *)
(* strategy in three steps, and the pages that connect a wallet, an        *)
(* exchange or Telegram. Only the risk mode reaches the backend.           *)
(***************************************************************************)
EXTENDS Integers, Sequences, FiniteSetsExt, SequencesExt

CONSTANTS
    Labels,      \* texts with a label of their own: description, risk modes, link
    Drafts,      \* what may be typed
    Modes,       \* risk modes
    Counts, Enough,  \* numbers of trades, and how many are required (50)
    Exchanges, Blank, Empty, None,
    MaxPresses   \* bound: presses, typing and loads

VARIABLES
    screen,    \* the page
    draft,     \* text of each label
    saved,     \* labels that say so
    timers,    \* timers of each label that run
    kept,      \* text of each label when it was pressed last (history)
    confirming, \* the question before de-listing is open
    mode, saving,  \* risk mode shown; the cards are dimmed
    writes,    \* requests that set it, oldest first: [mode, at]
    reads,     \* requests that ask for it, oldest first: what was answered or None
    stored,    \* the backend's
    excused,   \* a request was refused, or an answer older than a write came last (history)
    step, filled, count, done,  \* the submission: page, fields filled, trades, thanks
    connected, box,  \* wallet or Telegram; the text of its input
    tab, exchange, key,  \* tab, exchange and key of the page that connects
    presses

labelVars   == <<draft, saved, timers, kept, confirming>>
riskVars    == <<mode, saving, writes, reads, stored, excused>>
wizardVars  == <<step, filled, count, done>>
connectVars == <<connected, box, tab, exchange, key>>
vars == <<screen, labelVars, riskVars, wizardVars, connectVars, presses>>

Press(s) == screen = s /\ presses < MaxPresses /\ presses' = presses + 1 /\ UNCHANGED screen
Later(s) == screen = s /\ UNCHANGED <<screen, presses>>

-----------------------------------------------------------------------------
(* Labels that say "Saved" or "Copied": TraderStrategyPage, ReferralPage.  *)

\* The textarea, handleRiskChange; the link is not typed.
Type(l, t) ==
    /\ Press("labels")
    /\ l # "link"
    /\ draft' = [draft EXCEPT ![l] = t] /\ saved' = [saved EXCEPT ![l] = FALSE]
    /\ UNCHANGED <<timers, kept, confirming, riskVars, wizardVars, connectVars>>

\* handleDescSave, handleRiskSave, handleCopy: a timer more, the others run on.
Save(l) ==
    /\ Press("labels")
    /\ saved' = [saved EXCEPT ![l] = TRUE] /\ timers' = [timers EXCEPT ![l] = @ + 1]
    /\ kept' = [kept EXCEPT ![l] = draft[l]]
    /\ UNCHANGED <<draft, confirming, riskVars, wizardVars, connectVars>>

SavedOver(l) ==
    /\ Later("labels")
    /\ timers[l] > 0
    /\ saved' = [saved EXCEPT ![l] = FALSE] /\ timers' = [timers EXCEPT ![l] = @ - 1]
    /\ UNCHANGED <<draft, kept, confirming, riskVars, wizardVars, connectVars>>

\* De-listing: asked, then confirmed or cancelled; confirming only says so.
Delist ==
    /\ Press("labels")
    /\ confirming' = ~confirming
    /\ UNCHANGED <<draft, saved, timers, kept, riskVars, wizardVars, connectVars>>

-----------------------------------------------------------------------------
(* The dashboard's risk mode: RiskModeSelector, handleRiskModeChange.      *)

\* Seeded mutation: the cards take a press while a request is on its way.
CardsAlwaysAnswer == screen = "risk"
CardsAnswer == screen = "risk" /\ ~saving

ChooseMode(m) ==
    /\ CardsAnswer
    /\ Press("risk")
    /\ saving' = TRUE /\ writes' = Append(writes, [mode |-> m, at |-> "sent"])
    /\ UNCHANGED <<mode, reads, stored, excused, labelVars, wizardVars, connectVars>>

\* The backend stores it or not; the request then succeeds or fails.
StoreMode(i) ==
    /\ Later("risk")
    /\ writes[i].at = "sent"
    /\ \E ok \in BOOLEAN :
          /\ writes' = [writes EXCEPT ![i].at = IF ok THEN "kept" ELSE "refused"]
          /\ stored' = IF ok THEN writes[i].mode ELSE stored
    /\ UNCHANGED <<mode, saving, reads, excused, labelVars, wizardVars, connectVars>>

\* The mode is shown whether or not it was stored.
ModeAnswered(i) ==
    /\ Later("risk")
    /\ writes[i].at # "sent"
    /\ mode' = writes[i].mode /\ saving' = FALSE
    /\ writes' = RemoveAt(writes, i)
    /\ excused' = (writes[i].at = "refused" /\ mode' # stored)
    /\ UNCHANGED <<reads, stored, labelVars, wizardVars, connectVars>>

\* loadDashboardData asks again whenever the user of the session changes.
AskMode ==
    /\ Press("risk")
    /\ reads' = Append(reads, None)
    /\ UNCHANGED <<mode, saving, writes, stored, excused, labelVars, wizardVars, connectVars>>
TellMode(i) ==
    /\ Later("risk")
    /\ reads[i] = None
    /\ reads' = [reads EXCEPT ![i] = stored]
    /\ UNCHANGED <<mode, saving, writes, stored, excused, labelVars, wizardVars, connectVars>>
ModeLoaded(i) ==
    /\ Later("risk")
    /\ reads' = RemoveAt(reads, i)
    /\ \/ reads[i] # None /\ mode' = reads[i] /\ excused' = (mode' # stored)
       \/ UNCHANGED <<mode, excused>>      \* failed: only logged
    /\ UNCHANGED <<saving, writes, stored, labelVars, wizardVars, connectVars>>

-----------------------------------------------------------------------------
(* A further strategy in three steps: TraderSubmitStrategyPage.            *)

Steps == 1..3

Entered(fields) == /\ filled' = fields
                   /\ UNCHANGED <<step, done, labelVars, riskVars, connectVars>>

\* toggleCoin, name, description, entry method.
Step1 == /\ step = 1
         /\ \E f \in {"coins", "name"} : Entered(SymDiff(filled, {f}))
         /\ UNCHANGED count

\* updateRisk: three modes of three numbers, filled from the start.
Step2 == step = 2 /\ Entered(SymDiff(filled, {"risk"})) /\ UNCHANGED count

\* The file, once there, is only replaced; the trades are a number.
Step3 == /\ step = 3
         /\ \/ Entered(filled \cup {"file"}) /\ UNCHANGED count
            \/ \E f \in {"url", "rules"} : Entered(SymDiff(filled, {f})) /\ UNCHANGED count
            \/ \E n \in Counts : count' = n /\ Entered(filled)

SubmitPage == Press("wizard") /\ ~done /\ (Step1 \/ Step2 \/ Step3)

TradeCountOk == count >= Enough
CanSubmit == TradeCountOk /\ {"file", "url", "rules"} \subseteq filled

\* The buttons below; "Next" asks for nothing.
NextStep ==
    /\ Press("wizard")
    /\ ~done
    /\ IF step = 3 THEN CanSubmit /\ done' = TRUE /\ step' = step
       ELSE step' = step + 1 /\ done' = FALSE
    /\ UNCHANGED <<filled, count, labelVars, riskVars, connectVars>>
Back ==
    /\ Press("wizard")
    /\ ~done /\ step > 1
    /\ step' = step - 1
    /\ UNCHANGED <<filled, count, done, labelVars, riskVars, connectVars>>

\* "Submit Another Strategy": the fields stay as they were.
Another ==
    /\ Press("wizard")
    /\ done
    /\ done' = FALSE /\ step' = 1
    /\ UNCHANGED <<filled, count, labelVars, riskVars, connectVars>>

-----------------------------------------------------------------------------
(* ConnectPage and NotificationSettingsPage.                               *)

ConnectWallet ==
    /\ Press("wallet")
    /\ tab = "solana" /\ ~connected
    /\ connected' = TRUE
    /\ UNCHANGED <<box, tab, exchange, key, labelVars, riskVars, wizardVars>>

\* The amount of the deposit is typed once the wallet is connected.
TypeAmount(t) ==
    /\ Press("wallet")
    /\ tab = "solana" /\ connected
    /\ box' = t
    /\ UNCHANGED <<connected, tab, exchange, key, labelVars, riskVars, wizardVars>>

OpenTab ==
    /\ Press("wallet")
    /\ tab' = IF tab = "solana" THEN "cex" ELSE "solana"
    /\ UNCHANGED <<connected, box, exchange, key, labelVars, riskVars, wizardVars>>

\* One key for all exchanges: another exchange shows the key typed for the last.
TypeKey ==
    /\ Press("wallet")
    /\ tab = "cex"
    /\ \/ exchange' \in Exchanges /\ key' = key
       \/ exchange' = exchange /\ key' \in Drafts
    /\ UNCHANGED <<connected, box, tab, labelVars, riskVars, wizardVars>>

TypeChat(t) ==
    /\ Press("alerts")
    /\ ~connected
    /\ box' = t
    /\ UNCHANGED <<connected, tab, exchange, key, labelVars, riskVars, wizardVars>>

\* handleConnect, handleDisconnect
HandleConnect ==
    /\ Press("alerts")
    /\ ~connected
    /\ IF box \in {Empty, Blank} THEN UNCHANGED <<connected, box>>
       ELSE connected' = TRUE /\ box' = Empty
    /\ UNCHANGED <<tab, exchange, key, labelVars, riskVars, wizardVars>>
HandleDisconnect ==
    /\ Press("alerts")
    /\ connected
    /\ connected' = FALSE
    /\ UNCHANGED <<box, tab, exchange, key, labelVars, riskVars, wizardVars>>

-----------------------------------------------------------------------------
Init ==
    /\ screen \in {"labels", "risk", "wizard", "wallet", "alerts"}
    /\ draft = [l \in Labels |-> Empty] /\ kept = [l \in Labels |-> Empty]
    /\ saved = [l \in Labels |-> FALSE] /\ timers = [l \in Labels |-> 0]
    /\ confirming = FALSE
    /\ mode = "medium" /\ saving = FALSE /\ writes = <<>> /\ reads = <<None>>
    /\ stored \in IF screen = "risk" THEN Modes ELSE {"medium"}
    /\ excused = TRUE      \* until the first answer the page shows its own
    /\ step = 1 /\ filled = {"risk"} /\ count = 0 /\ done = FALSE
    /\ connected = (screen = "alerts") /\ box = Empty
    /\ tab = "solana" /\ exchange \in Exchanges /\ key = Empty
    /\ presses = 0

Next ==
    \/ \E l \in Labels : Save(l) \/ SavedOver(l) \/ \E t \in Drafts : Type(l, t)
    \/ Delist
    \/ \E m \in Modes : ChooseMode(m)
    \/ \E i \in DOMAIN writes : StoreMode(i) \/ ModeAnswered(i)
    \/ AskMode
    \/ \E i \in DOMAIN reads : TellMode(i) \/ ModeLoaded(i)
    \/ SubmitPage
    \/ NextStep \/ Back \/ Another
    \/ ConnectWallet \/ OpenTab \/ TypeKey
    \/ \E t \in Drafts : TypeAmount(t) \/ TypeChat(t)
    \/ HandleConnect \/ HandleDisconnect

Spec == Init /\ [][Next]_vars

-----------------------------------------------------------------------------
\* A label says "Saved" only for the text that was there when it was pressed,
\* and a timer of its own will take it back.
LabelsTrue == \A l \in Labels : saved[l] => draft[l] = kept[l] /\ timers[l] > 0

\* Once every request is answered the risk mode shown is the stored one, unless
\* a request was refused or an older answer came last; the cards are dimmed
\* exactly while a choice is on its way.
ModeShown ==
    /\ saving <=> writes # <<>>
    /\ writes = <<>> /\ ~excused => mode = stored

\* Thanks are given for a complete submission.
StepsComplete == step \in Steps /\ (done => CanSubmit /\ step = 3)

\* Inputs follow their connection: no amount without a wallet, no left-over chat.
InputsFollow ==
    /\ screen = "wallet" /\ box # Empty => connected
    /\ screen = "alerts" /\ connected => box = Empty

SettingsTrue == LabelsTrue /\ ModeShown /\ StepsComplete /\ InputsFollow
=============================================================================
