------------------------------- MODULE Lists -------------------------------
(***************************************************************************)
(* The pages that list things: trades, positions, users, strategies to     *)
(* review, subscribers, the marketplace. What is listed is filtered,       *)
(* sorted, paged, closed or loaded anew; a row may hold something the      *)
(* reader gave it (a role picked, a tier, notes, an open detail), which    *)
(* React keeps for the key of the row as long as the key is listed.        *)
(***************************************************************************)
EXTENDS Integers, Sequences, FiniteSetsExt, SequencesExt

CONSTANTS
    ListOf,      \* by page, the rows it begins with: sequence of records
                 \* [id, cat, coin, dir, pnl, aum, words]
    Answers,     \* lists the backend may answer with
    Filters,     \* by page and dimension, the values of its filters
    Words,       \* texts searched for
    Picks, Texts,  \* values of a row's select or radio, texts of its notes
    PageSize, None, All,
    MaxEvents    \* bound: events

VARIABLES
    page,      \* the page that is open
    rows,      \* what it lists, before filters
    chosen,    \* filter of each dimension
    search,    \* text searched for, or None
    sort,      \* [key, dir]
    shown,     \* rows to show at most
    expanded,  \* key of the row whose detail is open, or None
    cards,     \* by key, what a listed row holds: [open, pick, note]
    spinning, refreshes,  \* the refresh icon turns; its timers that run
    given,     \* by row, what the reader gave it since it is listed (history)
    opened,    \* row whose detail the reader opened last, or None (history)
    events

vars == <<page, rows, chosen, search, sort, shown, expanded, cards, spinning, refreshes,
          given, opened, events>>

Pages == {"history", "open", "active", "log", "trades", "users", "queue", "subscribers",
          "market"}

\* Rows are told apart by their id, as the keys of their table take for granted.
IsList(l) ==
    /\ l \in Seq(ToSet(l))
    /\ \A k \in DOMAIN l : {l[k].pnl, l[k].aum} \subseteq Int
    /\ \A j, k \in DOMAIN l : l[j].id = l[k].id => j = k

ListsAssumption ==
    /\ PageSize \in Nat
    /\ All \notin {"wins", "losses"}
    /\ \A p \in Pages : IsList(ListOf[p])
    /\ \A answer \in Answers : IsList(answer)
    /\ DOMAIN Filters["trades"] = {"coin", "dir", "result"}
    /\ DOMAIN Filters["users"] = {"role"}
    /\ DOMAIN Filters["log"] = {"status"}
    /\ DOMAIN Filters["market"] = {"tier"}

-----------------------------------------------------------------------------
(* What a page lists.                                                      *)

Chosen(dim, value) == chosen[dim] \in {All, value}

\* `rows.filter(...)`: the rows of s that are in keep, in their order.
Filtered(s, keep) ==
    FoldLeft(LAMBDA kept, r : IF r \in keep THEN Append(kept, r) ELSE kept, <<>>, s)
Passing(Passes(_)) == Filtered(rows, {r \in ToSet(rows) : Passes(r)})

\* `filtered` of each page. The marketplace reads no search, the trades no dates.
TradePasses(r) == /\ Chosen("coin", r.coin) /\ Chosen("dir", r.dir)
                  /\ chosen.result = "wins" => r.pnl >= 0
                  /\ chosen.result = "losses" => r.pnl < 0
UserPasses(r) == Chosen("role", r.cat) /\ (search = None \/ search \in r.words)
LogPasses(r) == Chosen("status", r.cat)
MarketPasses(r) == Chosen("tier", r.cat)

\* `sorted`, stable as the language has it: ties stay in the order of the rows.
Before(s, i, j) ==
    LET a == s[i][sort.key]
        b == s[j][sort.key]
    IN  IF a = b THEN i < j ELSE IF sort.dir = "asc" THEN a < b ELSE a > b
Place(s, i) == Cardinality({j \in DOMAIN s : Before(s, j, i)}) + 1
Sorted(s) == [k \in DOMAIN s |-> s[CHOOSE i \in DOMAIN s : Place(s, i) = k]]

\* `trades.slice(0, shown)`, and whether "Show more" is there.
FirstRows == SubSeq(rows, 1, Min({shown, Len(rows)}))
HasMore == Len(rows) > shown

\* The rows of each page's table or cards.
SubscriberRows == Sorted(rows)
TradeRows == Passing(TradePasses)
UserRows == Passing(UserPasses)
LogRows == Passing(LogPasses)
MarketCards == Passing(MarketPasses)
OpenRows == rows
ActiveCards == rows
QueueCards == rows

Listed ==
    CASE page = "history" -> FirstRows
      [] page = "subscribers" -> SubscriberRows
      [] page = "trades" -> TradeRows
      [] page = "users" -> UserRows
      [] page = "log" -> LogRows
      [] page = "market" -> MarketCards
      [] page = "open" -> OpenRows
      [] page = "active" -> ActiveCards
      [] page = "queue" -> QueueCards

\* Chips of the trades: how many, won, lost, and what they made.
Won == {r \in ToSet(Listed) : r.pnl >= 0}
Lost == {r \in ToSet(Listed) : r.pnl < 0}
Total(s) == FoldLeft(LAMBDA sum, r : sum + r.pnl, 0, s)
Summary ==
    [count |-> Len(Listed),
     wins |-> Len(Filtered(Listed, Won)),
     losses |-> Len(Filtered(Listed, Lost)),
     pnl |-> Total(Listed)]

-----------------------------------------------------------------------------
(* What a row holds.                                                       *)

\* `key={u.id}` and the like. Seeded mutation: `key={i}`.
KeyByPlace(r, k) == k
Key(r, k) == r.id

\* A row listed anew: the select shows the role, the card is closed and proposes
\* its tier.
Fresh(r) == [open |-> FALSE, pick |-> r.cat, note |-> None]

Keys == {Key(Listed[k], k) : k \in DOMAIN Listed}
RowOf(key) == Listed[CHOOSE k \in DOMAIN Listed : Key(Listed[k], k) = key]
Ids == {Listed[k].id : k \in DOMAIN Listed}

\* Rendering: keys still listed keep what they hold, the others lose it.
Render ==
    /\ cards' = [key \in Keys' |-> IF key \in DOMAIN cards THEN cards[key] ELSE Fresh(RowOf(key)')]
    /\ given' = [id \in Ids' |-> IF id \in DOMAIN given THEN given[id]
                                 ELSE Fresh(Listed[CHOOSE k \in DOMAIN Listed : Listed[k].id = id])']
Event == events < MaxEvents /\ events' = events + 1

\* The select of a user's row; the tier and the notes of an open card.
Give(k, held) ==
    /\ cards' = [cards EXCEPT ![Key(Listed[k], k)] = held]
    /\ given' = [given EXCEPT ![Listed[k].id] = held]
    /\ UNCHANGED <<page, rows, chosen, search, sort, shown, expanded, spinning, refreshes, opened>>

PickRole(k) ==
    /\ Event
    /\ page = "users"
    /\ \E p \in Picks : Give(k, [cards[Key(Listed[k], k)] EXCEPT !.pick = p])

PendingCard(k) ==
    LET held == cards[Key(Listed[k], k)]
    IN  /\ Event
        /\ page = "queue"
        /\ \/ Give(k, [held EXCEPT !.open = ~@])
           \/ held.open /\ \E p \in Picks : Give(k, [held EXCEPT !.pick = p])
           \/ held.open /\ \E t \in Texts : Give(k, [held EXCEPT !.note = t])

\* The detail of one trade at a time; it stays chosen when filters hide it.
Expand(k) ==
    LET key == Key(Listed[k], k)
    IN  /\ Event
        /\ page = "log"
        /\ expanded' = IF expanded = key THEN None ELSE key
        /\ opened' = IF opened = Listed[k].id THEN None ELSE Listed[k].id
        /\ UNCHANGED <<page, rows, chosen, search, sort, shown, cards, spinning, refreshes, given>>

-----------------------------------------------------------------------------
(* What changes the list.                                                  *)

Filter(dim, value) ==
    /\ Event
    /\ chosen' = [chosen EXCEPT ![dim] = value]
    /\ UNCHANGED <<page, rows, search, sort, shown, expanded, spinning, refreshes, opened>>
    /\ Render

Search(word) ==
    /\ Event
    /\ page \in {"users", "market"}
    /\ search' = word
    /\ UNCHANGED <<page, rows, chosen, sort, shown, expanded, spinning, refreshes, opened>>
    /\ Render

\* handleSort
Sort(key) ==
    /\ Event
    /\ page = "subscribers"
    /\ sort' = [key |-> key, dir |-> IF sort = [key |-> key, dir |-> "desc"] THEN "asc" ELSE "desc"]
    /\ UNCHANGED <<page, rows, chosen, search, shown, expanded, spinning, refreshes, opened>>
    /\ Render

ShowMore ==
    /\ Event
    /\ page = "history" /\ HasMore
    /\ shown' = shown + PageSize
    /\ UNCHANGED <<page, rows, chosen, search, sort, expanded, spinning, refreshes, opened>>
    /\ Render

\* handleClose, handleClosePosition: here only, the agent is not told.
Close(k) ==
    /\ Event
    /\ page \in {"open", "active"}
    /\ rows' = Filtered(rows, {r \in ToSet(rows) : r.id # Listed[k].id})
    /\ UNCHANGED <<page, chosen, search, sort, shown, expanded, spinning, refreshes, opened>>
    /\ Render

\* loadDashboardData: without trades the sample is shown; no positions change nothing.
Load(answer) ==
    /\ Event
    /\ page \in {"history", "open"}
    /\ rows' = IF answer # <<>> THEN answer ELSE IF page = "history" THEN ListOf[page] ELSE rows
    /\ UNCHANGED <<page, chosen, search, sort, shown, expanded, spinning, refreshes, opened>>
    /\ Render

\* handleRefresh: the icon turns for a while, nothing is asked for.
Refresh ==
    /\ Event
    /\ page = "active"
    /\ spinning' = TRUE /\ refreshes' = refreshes + 1
    /\ UNCHANGED <<page, rows, chosen, search, sort, shown, expanded, cards, given, opened>>
RefreshDone ==
    /\ refreshes > 0
    /\ spinning' = FALSE /\ refreshes' = refreshes - 1
    /\ UNCHANGED <<page, rows, chosen, search, sort, shown, expanded, cards, given, opened, events>>

-----------------------------------------------------------------------------
Init ==
    /\ page \in Pages
    /\ rows = ListOf[page]
    /\ chosen = [dim \in DOMAIN Filters[page] |-> All]
    /\ search = None
    /\ sort = [key |-> "aum", dir |-> "desc"]
    /\ shown = PageSize
    /\ expanded = None /\ opened = None
    /\ cards = [key \in Keys |-> Fresh(RowOf(key))]
    /\ given = [id \in Ids |-> Fresh(Listed[CHOOSE k \in DOMAIN Listed : Listed[k].id = id])]
    /\ spinning = FALSE /\ refreshes = 0
    /\ events = 0

Next ==
    \/ \E k \in DOMAIN Listed : PickRole(k) \/ PendingCard(k) \/ Expand(k) \/ Close(k)
    \/ \E dim \in DOMAIN chosen : \E value \in Filters[page][dim] : Filter(dim, value)
    \/ \E word \in Words \cup {None} : Search(word)
    \/ \E key \in {"aum", "pnl"} : Sort(key)
    \/ \E answer \in Answers : Load(answer)
    \/ ShowMore \/ Refresh \/ RefreshDone

Spec == Init /\ [][Next]_vars

-----------------------------------------------------------------------------
\* Whatever is filtered, searched, sorted, closed or loaded, a row that stays
\* listed holds what the reader gave it, and no other row does (cards, selects
\* and the expanded trade are kept by id).
HoldsItsOwn ==
    \A k \in DOMAIN Listed :
        /\ cards[Key(Listed[k], k)] = given[Listed[k].id]
        /\ Key(Listed[k], k) = expanded <=> Listed[k].id = opened

\* Every row the page has can be reached, once: by a filter of each dimension
\* set to all, or by showing more while there is more.
NothingLeftOut ==
    /\ \A j, k \in DOMAIN Listed : Listed[j].id = Listed[k].id => j = k
    /\ (\A dim \in DOMAIN chosen : chosen[dim] = All) /\ (page = "users" => search = None)
           /\ (page = "history" => ~HasMore)
           => Ids = {rows[k].id : k \in DOMAIN rows}

\* Won and lost make up the trades listed, what they made is what the winning
\* and the losing made together (chips of TradeHistoryPage).
SummaryAdds ==
    page = "trades" => /\ Summary.wins + Summary.losses = Summary.count
                       /\ chosen.result = "wins" => Summary.pnl >= 0
                       /\ chosen.result = "losses" => Summary.losses = 0 \/ Summary.pnl < 0

\* The refresh icon stops.
SpinningStops == spinning => refreshes > 0

RowsKeepTheirOwn == HoldsItsOwn /\ NothingLeftOut /\ SummaryAdds /\ SpinningStops
=============================================================================
