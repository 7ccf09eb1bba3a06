------------------------------- MODULE MCSite -------------------------------
(***************************************************************************)
(* The web front end, five parts that share no variable checked in one     *)
(* run: the addresses and the session, the forms, the dashboard's money,   *)
(* the pages that list and the pages that set things.  `part` says which   *)
(* one a behaviour is about, the variables of the others stay None.        *)
(***************************************************************************)
EXTENDS Integers, Sequences

CONSTANTS None, Accounts, MaxAsked, Names, Short, MaxSent, Amounts, Balances, MaxOps,
    ListOf, Answers, Filters, Words, Picks, Texts, PageSize, All, MaxEvents,
    Labels, Drafts, Modes, Counts, Enough, Exchanges, Blank, Empty, MaxPresses

VARIABLES
    part,
    path, tab, busy, user, loading, cookie, asked, verified, secured,
    form, answered, name, status, timer, checks, submitting, failed, submitted,
    entered, sent, stored, count,
    balance, loads, modal, ops, chain, told,
    page, rows, chosen, search, sort, shown, expanded, cards, spinning, refreshes,
    given, opened, events,
    screen, draft, saved, timers, kept, confirming, mode, saving, writes, reads, stored_,
    excused, step, filled, tradeCount, done, connected, box, linkTab, exchange, key, presses

Pages == INSTANCE Site
Form  == INSTANCE Forms
Cash  == INSTANCE Money
List  == INSTANCE Lists
Set   == INSTANCE Settings WITH stored <- stored_, count <- tradeCount, tab <- linkTab

ASSUME ConstantsAssumption == Cash!MoneyAssumption /\ List!ListsAssumption

siteVars == <<path, tab, busy, user, loading, cookie, asked, verified, secured>>
formVars == <<form, answered, name, status, timer, checks, submitting, failed,
              submitted, entered, sent, stored, count>>
cashVars == <<balance, loads, modal, ops, chain, told>>
listVars == <<page, rows, chosen, search, sort, shown, expanded, cards, spinning, refreshes,
              given, opened, events>>
setVars == <<screen, draft, saved, timers, kept, confirming, mode, saving, writes, reads,
             stored_, excused, step, filled, tradeCount, done, connected, box, linkTab,
             exchange, key, presses>>
vars == <<part, siteVars, formVars, cashVars, listVars, setVars>>

NoSite ==
    /\ path = None /\ tab = None /\ busy = None /\ user = None /\ loading = None
    /\ cookie = None /\ asked = None /\ verified = None /\ secured = None
NoForm ==
    /\ form = None /\ answered = None /\ name = None /\ status = None
    /\ timer = None /\ checks = None /\ submitting = None /\ failed = None
    /\ submitted = None /\ entered = None /\ sent = None /\ stored = None /\ count = None
NoCash ==
    /\ balance = None /\ loads = None /\ modal = None /\ ops = None /\ chain = None
    /\ told = None
NoList ==
    /\ page = None /\ rows = None /\ chosen = None /\ search = None /\ sort = None
    /\ shown = None /\ expanded = None /\ cards = None /\ spinning = None
    /\ refreshes = None /\ given = None /\ opened = None /\ events = None
NoSet ==
    /\ screen = None /\ draft = None /\ saved = None /\ timers = None /\ kept = None
    /\ confirming = None /\ mode = None /\ saving = None /\ writes = None /\ reads = None
    /\ stored_ = None /\ excused = None /\ step = None /\ filled = None
    /\ tradeCount = None /\ done = None /\ connected = None /\ box = None
    /\ linkTab = None /\ exchange = None /\ key = None /\ presses = None

Init ==
    \/ part = "site" /\ Pages!Init /\ NoForm /\ NoCash /\ NoList /\ NoSet
    \/ part = "form" /\ NoSite /\ Form!Init /\ NoCash /\ NoList /\ NoSet
    \/ part = "cash" /\ NoSite /\ NoForm /\ Cash!Init /\ NoList /\ NoSet
    \/ part = "list" /\ NoSite /\ NoForm /\ NoCash /\ List!Init /\ NoSet
    \/ part = "set" /\ NoSite /\ NoForm /\ NoCash /\ NoList /\ Set!Init

InSite(A) == part = "site" /\ A /\ UNCHANGED <<part, formVars, cashVars, listVars, setVars>>
InForm(A) == part = "form" /\ A /\ UNCHANGED <<part, siteVars, cashVars, listVars, setVars>>
InCash(A) == part = "cash" /\ A /\ UNCHANGED <<part, siteVars, formVars, listVars, setVars>>
InList(A) == part = "list" /\ A /\ UNCHANGED <<part, siteVars, formVars, cashVars, setVars>>
InSet(A) == part = "set" /\ A /\ UNCHANGED <<part, siteVars, formVars, cashVars, listVars>>

Next == \/ InSite(Pages!Next) \/ InForm(Form!Next) \/ InCash(Cash!Next)
        \/ InList(List!Next) \/ InSet(Set!Next)

Spec == Init /\ [][Next]_vars

-----------------------------------------------------------------------------
\* Every address the application comes to has a page, and a late answer about
\* the session takes nobody's place (Site).
SiteSound == part = "site" => Pages!SiteSound
\* A form thanks for what was stored (Forms).
ThanksMeansStored == part = "form" => Form!ThanksMeansStored
\* The backend is told of what moved on the chain (Money).
ToldWhatMoved == part = "cash" => Cash!ToldWhatMoved
\* A row keeps what the reader gave it (Lists).
RowsKeepTheirOwn == part = "list" => List!RowsKeepTheirOwn
\* What is said to be set is set (Settings).
SettingsTrue == part = "set" => Set!SettingsTrue

-----------------------------------------------------------------------------
\* Rows that tie, that lose and that make nothing.
MCRow(id, cat, coin, dir, pnl, aum, words) ==
    [id |-> id, cat |-> cat, coin |-> coin, dir |-> dir, pnl |-> pnl, aum |-> aum, words |-> words]
MCRows == <<MCRow("r1", "a", "SOL", "LONG", 2, 3, {"ab"}),
            MCRow("r2", "b", "BTC", "SHORT", -1, 3, {"ab", "c"}),
            MCRow("r3", "a", "SOL", "SHORT", 0, 1, {"c"})>>
MCPages == {"history", "open", "active", "log", "trades", "users", "queue", "subscribers", "market"}
MCFilters == [p \in MCPages |->
    CASE p = "trades" -> [coin |-> {All, "SOL"}, dir |-> {All, "LONG"},
                          result |-> {All, "wins", "losses"}]
      [] p = "users" -> [role |-> {All, "a"}]
      [] p = "log" -> [status |-> {All, "a", "b"}]
      [] p = "market" -> [tier |-> {All, "a"}]
      [] OTHER -> <<>>]
MCListOf == [p \in MCPages |-> MCRows]
MCAnswers == {<<>>, <<MCRows[3], MCRows[1]>>, MCRows}
=============================================================================
