# Verification of tradelikeme

TLA+ specifications of the parts of the repository that keep state and can go wrong in
it: the Solana vault program, the sentinel that watches prices, the loop that trades
on its events, the price feed and the two exchanges below them, the dashboard's live
connections, the chart engine and the chart built on it, and the web front end. TLC
checks each on small instances, and TLAPS proves every invariant the passing runs
check, their action properties and both refinements for every value of the constants.
Liveness is left to TLC.

Paths below are relative to `src/`; `sd_zones/` stands for
`trading_agent/strategies/sd_zones/`, `solana/` for `trading_agent/exchanges/solana/`,
`chart/` for `infra/klinechart/src/` and `pro/` for `infra/klinechart-pro/src/`.

## 1. Inventory

| part | state | operations | interacts with |
|---|---|---|---|
| Vault program, `solana/anchor_vault/programs/vault/src/lib.rs` | per (user, strategy) a vault account, its token accounts, trade records; strategy records | 12 instructions signed by the user, the agent or the platform wallet | SPL token program, clock |
| Sentinel, `sd_zones/sentinel.py` | one watch per symbol and kind, event queue, subscribed symbols | `start`, `stop`, `add_watch`, `remove_watch`, tick callback, 30-minute check, `get_event` | price feed (callback), loop (queue) |
| Loop, `sd_zones/loop.py` | zones, cached balance, background tasks | startup, zone scan every 4 h, balance refresh every 72 h, event handlers, shutdown | sentinel, trade agent, exchange |
| Trade agent, `sd_zones/trade_agent.py` | open trades by symbol | `enter_trade`, `on_tp1_hit`, `on_body_close_sl`; `on_tp2_hit`, `on_sl_hit` (no caller) | exchange, journal, notifier |
| Price feed, `solana/pyth_ws.py` | connection, subscriptions, callbacks, cached prices | `connect`, `subscribe`, listen loop with reconnection, `disconnect` | Hermes WebSocket |
| Router and exchange clients, `solana/solana_router.py`, `zeta_client.py`, `jupiter_client.py` | which exchange is up; positions and trigger orders on chain | market orders, stops, take-profits, closing, balance, with failover | two exchanges |
| Live connections, `backend/routes/ws.py` | tickets, sockets listed by user | make and present a ticket, connect, disconnect, push | dashboard |
| Chart engine, data and painting, `chart/Store.ts`, `Chart.ts`, `common/TaskScheduler.ts` | symbol, period, bars, loading flag, streams; indicators and their results; layout requests; panes | loader answers, changes of indicators, layouts, pane drags | the loader's callbacks, promises, microtasks |
| Chart engine, view, `chart/Store.ts`, `component/`, `view/` | bar width, offset, visible range, crosshair; axis ranges and ticks; legends and lit icon | scroll, zoom, resize, axis drags, painting | the two above |
| Chart engine, indicators, `chart/extension/indicator/` | none | calculation of each built-in indicator | bars |
| Chart engine, hand, `chart/common/EventHandler.ts`, `Event.ts`, `component/Overlay.ts`, `extension/overlay/`, `pro/extension/` | what the mouse and the fingers do; drawings, the one in progress, hovered, pressed | browser events, timers, animation frames | browser, drawings |
| Toolbar chart, `pro/` | symbol and period signals, loading flag, indicators, socket | choose, page, add and remove indicators, drawing bar | chart engine, data provider |
| Web front end, `frontend/src/` | address, session, forms, dashboard money, lists, settings | navigation, sign-up and sign-in, submissions, deposits and withdrawals, filters, labels | auth server, PocketBase, backend, wallet, chain |
| Journal and vault clients, `solana/trade_journal_client.py`, `anchor_vault_client.py` | none of their own | build and submit vault instructions | vault program |
| Zone scanner, `sd_zones/zones.py` | none | candles to zones, gates, TP and SL levels | model API, candles |
| Other backend routes, `backend/` | database | REST routes | database, vault client |
| Wallet sign-in, `auth/src/providers/phantom.ts` | nonces, users, sessions | nonce, verify | database |
| Chart tool server, voice service, mobile app, scripts | - | wrappers, configuration, static screens, offline batches | - |

What is hard about them, and what makes them correct:

* **Vault.** Instructions of three signers come in any order, and the token account
  changes under the recorded balance: the delegate draws from it and profit returns by
  plain transfers. An account can be closed and created again while trade records at
  the same addresses survive. Correct: no token is charged twice, user funds leave
  only in known ways, the counter that guards re-delegation and closing is exact, no
  open record is orphaned.
* **Sentinel.** Ticks, the half-hour check, registrations and removals interleave, and
  a registration suspends in the middle. Correct: an event comes from a watch and
  consumes it, a watch works from no old price, a wick never triggers the body-close
  stop, a body beyond it does.
* **Loop.** Three asyncio tasks share state across awaits; each exchange call may fail
  with or without effect; events wait in a queue while a handler is busy; the process
  may end anywhere. Correct: slots are respected, a position is tracked and protected
  by a stop, a body-close event closes it.
* **Feed.** Connections end during listening, reconnecting and re-subscribing, while
  other tasks subscribe, and messages may be malformed. Correct: what was subscribed
  flows, a lost connection is replaced.
* **Router.** A call repeated on the second exchange may have taken effect on the
  first; the balance refresh moves the choice between two orders of one entry; trigger
  orders of several trades ask for one account. Correct: a trade's orders stay
  together.
* **Live connections.** A push awaits each send while sockets come, go and die.
  Correct: who is served is listed, a ticket opens one socket.
* **Chart data and painting.** Answers come late, in any order and for a symbol that
  is no longer shown; calculations overlap; layouts are merged. Correct: bars of one
  market in order, one stream, the last change painted, panes that fill the chart.
* **Chart view and indicators.** Offset, range and crosshair are adjusted at different
  places; axes are dragged while their pane changes; indicators carry sums from bar to
  bar. Correct: what is in view is drawn, values are where the axes say, sums are the
  sums of their windows.
* **Hand.** Timers of clicks and taps run against further presses, second fingers and
  flings. Correct: a press is one gesture, a fling ends, a drawing is kept in one
  place and hit where it was put.
* **Toolbar chart.** One flag serves two kinds of request, and an effect depends on
  what its last run read. Correct: what is shown is what was chosen last.
* **Front end.** Answers are late, refused or lost; guards read a session that is
  still being asked for; an operation outlives its dialog; rows are filtered and
  replaced under what the reader gave them. Correct: no link without a page, no thanks
  without a record, the backend told of what moved, no row with another's state.

`PROJECT.json` lists every component with its status and every hazard at its line.

## 2. Modules

| module | models |
|---|---|
| `Vault`, `Vault_proofs` | the vault program |
| `Watches` | what the sentinel promises its consumer (abstract specification) |
| `Sentinel`, `Sentinel_proofs` | `sentinel.py` with the callbacks and price cache of the feed; implements `Watches` |
| `AgentLoop`, `AgentLoop_proofs` | `loop.py` and `trade_agent.py` over an abstract exchange, with the sentinel's watches without prices; implements `Watches` |
| `PythFeed` | the connection half of `pyth_ws.py` |
| `Venues` | `solana_router.py`, `zeta_client.py`, `jupiter_client.py`: the exchange of `AgentLoop` in detail |
| `Live` | `backend/routes/ws.py` |
| `ChartData` | the Store's requests, streams, pages and resets |
| `ChartTasks` | from a change to the screen: calculations, layouts, painting |
| `Panes` | the heights of the panes |
| `TimeScale` | which bars are where |
| `Timeline` | times and indexes of bars |
| `Indicators` | the built-in indicators |
| `Axes` | ranges, ticks and drags of the axes |
| `Tooltips` | legends, icons and the rectangle at the pointer |
| `Gestures` | mouse and touch events to gestures |
| `Drawing` | drawings made, moved and removed, with the drawing bar |
| `Shapes` | the shapes of drawings and their hit tests |
| `ChartPro` | the toolbar chart |
| `Site` | addresses, guards, session |
| `Forms` | the three forms that store a record |
| `Money` | deposits and withdrawals in the dashboard |
| `Lists` | the pages that list |
| `Settings` | the pages that set |
| `MCVault`, `MCSentinel`, `MCAgentLoop` | instances of one module for TLC |
| `MCServices`, `MCChartStore`, `MCChartHand`, `MCSite` | instances of several modules for TLC |
| `Services_proofs`, `ChartStore_proofs`, `ChartHand_proofs`, `Site_proofs` | theorems about the specifications of `MCServices`, `MCChartStore`, `MCChartHand`, `MCSite` |
| `Induction` | facts of proofs: induction over the places of a list and over intervals, folds, ranks |

`Watches` is the seam between `Sentinel` and `AgentLoop`. Both are shown to implement
it, so the loop meets no event in its model that the sentinel could not send under
some prices, and it registers and consumes watches in the way the sentinel's model is
driven.

Each of the last four MC modules checks parts that share no variable in one run: `part`
says which part a behaviour is about, and the variables of the others stay `None`. Its
state space is the sum of the parts', and each of its properties is the part's own
under `part = ...`.

### Vault

One vault address. `live` says whether the account exists, `made` which of the token
accounts the address owns do; `records` are the trade-record accounts by id, which
outlive the vault account. Each instruction is one action. A failing `require!`,
account constraint or checked operation aborts the transaction, so it disables the
action. `settle_epoch` is `SettleFlat` and `SettleProfit`, its two paths. The program
asks of `vault_token_account` that the vault's address owns it and that its mint fits
(`Named`), and of `user_token_account` only the mint: every instruction takes any token
account of the vault, closing closes the one it names, and a deposit or a withdrawal
may be between two of them or from one to itself (`DepositOwn`, for a user who is the
delegate, and `Withdraw`). The client names the associated account (`Ata`) and the
user's own for every transaction it builds (`anchor_vault_client.py:102-107`). The
external actions are `CreateTokenAccount` (anybody), `AgentDraw` (SPL transfer by the
delegate), `TradingReturn` (plain transfer in) and `Tick`. `inflow`, `deposited`,
`drawn`, `aside` (an instruction named other accounts than the client does) and
`opened_by` are history: no instruction reads them. Left out: a vault created again for
another mint, a platform wallet that is the vault's own address, events, logs, rent,
and the fields of trade and strategy records that nothing reads.

### Sentinel

`lifecycle` (started, stopping while the tasks are cancelled, off; ticks still arrive
while it stops, the watches outlive it), the three dictionaries of watches, the queue,
`_subscribed_symbols`, and of the feed the cached price and the number of callbacks
per symbol. Everything runs on one asyncio loop, so an action is the code between two
suspensions: `_fire` does not suspend because the queue is unbounded, `add_watch` does
inside `pyth.subscribe` (`Subscribe`, then `SubscribeReturns`). `Tick` is the whole
callback: both watches and the candle. A second callback for the same tick finds
`prev_price` equal to the price and changes nothing, which is why `Tick` runs it once
for any number of callbacks. Left out: the constructor's watchlist and
`subscribe_events`, which nothing in the repository uses.

### AgentLoop

`phase` follows startup and shutdown; `scanner` is the position of the zone scan,
`handler` the await at which the event loop is suspended. An action is what the code
does from one await to the next; the exchange answers, or raises with or without
effect (`Raises`). `position` and `stop` are the exchange's state for a symbol;
`ExchangeExit` is a stop or both take-profits executing. `entries` numbers the market
orders so that watches, events and trades can be told apart. `mishap` is history: set
for a symbol when a call for it fails or the process ends over its position, cleared
when the next entry completes or the position is gone. The code has no recovery for
these cases, so `PositionsTracked` and `TrackedProtected` exempt them, and only them.
Prices, sizes, the journal and notification texts are left out; an event keeps what
its price identifies, the zone or the entry.

### PythFeed

`listener` is the await of `_listen_loop`; `resub` the iteration of `_resubscribe_all`
with the dictionary's size at its start, because Python raises when a dictionary grows
during an iteration. `server` is the set of feeds the server sends on this connection,
gone with it. A connection ends with an error (`lost`) or normally (`closed`); the
second ends `async for` without an exception. `ReceiveMalformed` is a message that
makes `_handle_message` raise: nothing catches it, the listener is `crashed`, and
`Disconnect` raises its error in turn and leaves the connection as it is.

### Venues

What `AgentLoop` takes for one exchange: `zetaUp` (the router's flag), `position` by
exchange and symbol as a set of entry numbers, `trigger` by trigger account. `Slot` is
the account a client derives for an order: on Zeta it is one bit per kind for the
whole margin account, on Jupiter a counter of the symbol's (`Bump`) and its successor.
`work` is the trade agent's list of orders for the event it handles, `call` the one
under way, `reading` the balance refresh, a task of its own. A call takes effect or
not and returns or raises; a raise on Zeta lowers the flag and repeats the call on
Jupiter where the router does. `GetPosition` is the await between reading a position
and closing it, `ExchangeExit` may come there. `lost` (an order that took effect and
raised) and `displaced` (a stop whose account another order took) are history for the
exemptions of `TradesStayWhole`: the code has no answer to either. Left out: prices,
sizes and sides; `cancel_sl`, `cancel_tp` and the router's `get_price` and
`get_position`, which nothing calls.

### Live

`issued` are the tickets clients hold, `store` those kept, `used` how many sockets
each opened (history); `state` is where a socket is between its awaits (accepting,
open, done), `listed` is `_connections` as a set by user (a socket is appended once,
when it opens, and the order is that of the sends, which may be any), `push` what is
left of the copied list that `send_to_user` or `broadcast` is sending over. A socket
whose client is gone is `dead`: a send to it raises.

### ChartData, ChartTasks, Panes

`ChartData`: `requests` are the `getBars` calls not answered yet, each with the market
(symbol and period) and the number of the reset it was made for; any of them is
answered next, the oldest one at last. A loader of `WindowLoaders` answers with a
window of the past and sends no ticks, one of `LiveLoaders` with the bars up to now,
and has `subscribeBar`. Prices are left out, and an adjustment finds the view at the
left edge, at the right edge or at neither.

`ChartTasks`: data, parameters, looks and formats are version numbers and a result is
the versions it was made from. `calcs` are the promises under way, each in the batch
of the scheduler (`run`, `hold`) or `alone`; `pending` is the merged layout request.
`DoLayout` is the microtask: ticks, then painting.

`Panes`: heights, states and separators in pixels; `asked` is what the next layout has
to do, `original` the height a pane had of its own, `hidden` the separators that are
not visible, `drag` what a separator keeps between press and release. A separator with
only minimized panes below it drags against the x axis, which is the last pane and gets
its height back in the next layout.

### TimeScale, Timeline, Indicators, Axes, Tooltips

`TimeScale` computes in whole numbers of 1/`Unit` of a bar, a multiple of twice every
bar width, so that nothing is rounded but what the code rounds. Its actions are the
Store's operations on the view, each with the adjustments it ends with.

`Timeline` has bars with gaps and a calendar that repeats after a cycle of years:
`Starts` says on which day of the cycle each month begins. The Gregorian calendar is
one of 400 years. `Search` is the loop of `binarySearchNearest` as a function of its
turns, between two indexes it looks at.

`Indicators` has every built-in indicator, computed as the code does (running sums,
averages carried on) over lists of bars that a single action extends. Fractions are
pairs or whole numbers of 1/`Precision`.

`Axes` is the y axis' range (following the values, or as dragged), its ticks, and the
labels of the x axis under scrolling; `press` is the range a drag began with.

`Tooltips` lays out the legends of a pane and their icons, and the rectangle beside the
middle of the crosshair's bar (`real`, the code's `realX`), from the widths of their
texts, with a pen that the drawing functions pass on; `painted` is what the last paint left to be hit, `due` says whether a repaint was
asked for since, `sized` whether the pane was painted since it got its width.

### Gestures, Drawing, Shapes

`Gestures`: `mouse`, `fingers`, `touch`, `pinch` are the handler's fields, `pressed`,
`scroll` and `flings` those of `Event`. Timers are actions enabled while they run; a
position is near or far from where it began. `event` is the last gesture told to the
chart; `moved` (history) says whether the button or the finger moved far or was held
since it went down.

`Drawing`: `obj` are the drawings, `list` the finished ones by pane, `progress` the
one being drawn, `hover`, `clicked` and `grabbed` what the mouse is on; `bar` is the
drawing bar's mode and lock. A kept drawing may be overridden with all its points or
with a level (`OverridePoints`, `OverrideLevel`).

`Shapes`: a tool's figures (lines, polygons, discs) as a function of its points, and
the hit tests of `extension/figure/`. The radius of a disc is a root the program rounds
and squares again: `Short` are the squares that come out too small, 208 in the run.
Texts, arrow heads and the arcs of the spiral,
which need sines, are left out.

### ChartPro

`reqs` are the history requests (first page, older page), `loading` the flag they
share, `loader` the loading picture, `alive` whether the load effect still depends on
anything: an effect that returned before it read a signal never runs again. `crossed`
is history: an older page was asked for beside a first one.

### Site, Forms, Money, Lists, Settings

`Site`: `path` and `tab`, the session as `AuthContext` knows it (`user`, `loading`)
and as the server's `cookie` says; `asked` are the requests not answered. Routes,
guards and every link and button that leads somewhere are operators of the page shown.

`Forms`: the strategy form with its name check that is debounced by `timer` and
answered through `checks`, the waitlist and the contact form; `sent` and `stored` are
the requests on their way and the records. While the strategy's name is cleared it is
the only text field of a form without a button (`LoneField`), and Enter submits it:
`entered` (history) says that happened.

`Money`: `ops` are the operations with their stage, which go on when the modal is
closed; `chain` is what each transaction it took moved, nothing if it failed there,
`told` the confirmations sent to the backend.

`Lists`: nine pages in one module: `rows` loaded, `chosen` filters, `search`, `sort`,
`shown`; `cards` is what React keeps for a key, `given` and `opened` (history) what
the reader gave to which row.

`Settings`: labels that a timer takes back, the risk mode with its requests, the
stepped submission, and the pages that connect a wallet, an exchange or Telegram.

## 3. Runs

| run | shows | bounds |
|---|---|---|
| `vault_money` | `FeeWithinInflow`, `BalanceBacked` | two token accounts, one agent who is also the user, transfers of 6 of 12 tokens, clock to 6, epochs of 2 |
| `vault_journal` | `ActiveTradesExact`, `OpenTradesCloseable`, `AgentFixedWhileTrading` | two agents, two wallets, three trade ids, one-token transfers |
| `vault_deposit_fee` | violation of `DepositsNotProfit` | two token accounts, transfers of 4 and 7 |
| `vault_accounts` | violation of `UserKeepsFourFifths` | as `vault_money` |
| `sentinel_prices` | `WatchesFollowFeed`, `OnlyBodyCloseFires`, `ImplementsWatches`, `BodySLEventuallyFires` | one symbol, three prices, watches of both directions, three events, three callbacks |
| `loop_slots` | `SlotsRespected`, `PositionsTracked` | two symbols, one slot, one entry each, two events |
| `loop_trade` | `TrackedProtected`, `ImplementsWatches`, `BodySLCloses` | one symbol, two slots, two entries, up to two zones, two events |
| `loop_unwatched` | violation of `LiveTradeWatched` | one symbol |
| `services` | `FeedsFlow`, `RecoversFromErrors` (`PythFeed`); `TradesStayWhole` (`Venues`); `LiveSound` (`Live`) | three feeds; three symbols, one of them on Zeta only, two entries; two users, three sockets, three tickets, a limit of two |
| `chart_store` | `DataExact`, `StreamsFollow`, `FirstPageShown` (`ChartData`); `QuietMeansPainted`, `ChangesReachScreen` (`ChartTasks`); `PanesFillChart` (`Panes`); `ProSound` (`ChartPro`); `IndicatorsSound` (`Indicators`) | two symbols, two loaders, pages of two of five bars, four resets; two indicators, one of them asynchronous, one change of data, three edits; three panes, four moves; three tickers, two periods, three changes, three pages; four kinds of bar, six bars, windows of two and three |
| `chart_hand` | `OneGesture`, `FlingsEnd` (`Gestures`); `DrawingsKept` (`Drawing`); `ViewIsDrawn`, `ViewStays` (`TimeScale`); `AxesSound` (`Axes`); `IndexOfTimeOfIndex` (`Timeline`); `HitAtItsPoints` (`Shapes`); `TooltipsSound` (`Tooltips`) | three places, two fingers, five events; two drawings, three kinds, two panes, five events; two bar widths, two chart widths, pages of two and five, eight bars, five moves; three values, two heights, three places of the pointer, four steps; four times with gaps, three indexes beyond each end, two years of three months; 28 tools on a grid of nine points; two indicators, two bars, two widths, six positions of the pointer, four events |
| `site` | `SiteSound` (`Site`); `ThanksMeansStored` (`Forms`); `ToldWhatMoved` (`Money`); `RowsKeepTheirOwn` (`Lists`); `SettingsTrue` (`Settings`) | two accounts, two requests; three names, four submissions; two amounts, three operations; nine lists of three rows, six events; eight presses |

What the properties of the last four passing runs say:

* `FeedsFlow`: while the loop listens on an open connection every feed asked for is
  sent, but for those `_resubscribe_all` lost track of or that were asked for before
  connecting. `RecoversFromErrors`: a connection lost to an error is replaced or given
  up, unless a malformed message ended the listener.
* `TradesStayWhole`: an entry is on both exchanges only if its order took effect on
  Zeta and raised (`OneVenue`); the stop of a tracked position is on its exchange,
  wherever later orders go, unless another order took its account (`StopsFollow`).
* `LiveSound`: a socket that is served is listed, for its own user, whatever pushes
  fail meanwhile (`ListedWhileServed`); `TicketsOpenOne`.
* `DataExact`: bars of one market in order of time (`OneMarketInOrder`), no page asked
  for twice (`LoadingExact`), while no answer from before the last reset has been
  applied. `StreamsFollow`: the only stream is the shown market's. `FirstPageShown`:
  the first page asked for by the last reset comes in, unless the chart is destroyed.
* `QuietMeansPainted`: nothing under way means nothing stale on the screen, but for
  asynchronous calculations that were overtaken and forced ticks that a later request
  dropped (section 6). `ChangesReachScreen`: the last change is painted, unless a
  layout threw.
* `PanesFillChart`: panes and separators add up to the chart after any sequence of
  minimizing, maximizing, dragging, resizing and removing, and a separator that is
  counted but hidden is found only beside a maximized candle pane.
* `ProSound`: what is shown is what was chosen last (`ShowsTheChosen`), older pages
  end where the bars begin (`OlderIsOlder`), the indicator lists are what is drawn
  (`ListsWhatIsDrawn`).
* `ViewIsDrawn`: a bar on the drawing area is among those drawn and searched for the
  highest price, and the crosshair names the bar under it. At the left edge a bar counts
  from its middle on, or by any part while there is room beside the newest bar: the code
  drops the others (section 6). `ViewStays`: new pages move
  nothing on the screen, a zoom keeps its anchor.
* `AxesSound`: `ValuesOnPane`, `LabelsInPlace`, `DragReturns` (a drag back gives back
  the range), `LabelsScroll`.
* `IndexOfTimeOfIndex`: a drawing kept by its times comes back to the bars it was drawn
  on. `HitAtItsPoints`: a finished drawing is hit where its points were put; a filled
  one inside, a disc inside and at its rim where the radius is a whole number.
* `TooltipsSound`: no two names, values or icons lie on each other, and only what begins
  a row is wider than its room (`RowsApart`); the rectangle holds its lines, is clear of
  the rows and of the crosshair's line, in the middle of the bar, and is not under a
  pointer nearer to that line than the rectangle keeps (`RectClear`); an icon that lights is still there
  when it is pressed (`LitStaysUnderPointer`).
* `IndicatorsSound`: running sums are the sums of their windows at every bar
  (`SumsAreWindows`); averages stay among the prices they average, oscillators on their
  scale (`WithinScale`; the average price if the turnovers a loader gives are prices of
  volumes, which those of one kind of bar in the run are not); the stop-and-reverse is on its side of every bar, volume trends
  go with the price (`TrendsFollow`).
* `OneGesture`: what moved far or was held neither clicks nor taps
  (`ClicksWereStill`), fingers pinch or drag (`OneOfTheTwo`). `FlingsEnd`.
* `DrawingsKept`: a drawing is in one place (`OneHome`), drawn by its level
  (`DrawnInOrder`), and keeps the alignment of its kind (`StaysAligned`).
* `SiteSound`: no link without a page but for `/2fa` (`LinksHavePages`), nobody signed
  in while the session of the start is asked for (`LoadingMeansNobody`).
* `ThanksMeansStored`: thanks are given for a stored record; with the button, one
  submission at a time. `ToldWhatMoved`: the backend is told of what the chain took,
  with the amount it moved there unless it failed.
* `RowsKeepTheirOwn`: `HoldsItsOwn`, `NothingLeftOut`, `SummaryAdds`, `SpinningStops`.
  `SettingsTrue`: `LabelsTrue`, `ModeShown`, `StepsComplete`, `InputsFollow`.

Why the bounds are enough. *Money:* with 6 the fee is rounded down and non-zero,
one transfer fits the vault while one is outside it; the clock allows three
settlements, so a token could be charged in two of them, and a re-created account
settles again; two token accounts are what an instruction that names another needs,
and a user who is the delegate can do all that either can. The overflow bound `MaxU64`
is small enough that `profit * 20` reaches it. *Journal:* three ids cover a counter that restarts while records of an earlier
account survive, on either side of the next id; two agents are what a replacement
needs. *Sentinel:* symbols share only the queue, so one symbol has every interleaving
that matters to it; three prices give every position around and inside a level; three
events allow all three watches to fire together. *Loop:* one slot and two symbols are
the smallest contention; two entries are what a stale event or watch of an earlier
trade needs, and two queued events what an overlap with the next needs. *Feed:* with
three feeds the iteration can be cut before, between and after the ones sent.
*Exchanges:* two symbols on both exchanges whose counters collide (the stop of one and
the take-profit of the other), one symbol without a fallback, and two entries so that
the second trade's orders can displace the first's. *Live:* three sockets pass a limit
of two. *Chart data:* four resets let a market be left and shown again while its first
answer is out; pages of two of five bars have a first, a middle and a last page.
*Tasks:* a synchronous and an asynchronous indicator and three edits fill both batches
of the scheduler and replace one of them. *Panes:* three panes are the fewest in which
a drag meets a pane beyond its neighbour. *View:* eight bars are more and fewer than
the chart is wide, at both bar widths, and let the last ones lie beyond the right edge
with others in view. *Times:* the months have two and three days and one is longer every
other year, so that a day of the month may be missing in another month or year. *Legends:*
in the narrow pane names, values and icons wrap, one indicator has no name and one bar
without values; the middle of a bar is nearer to the pointer than the rectangle or
further. *Indicators:* the bars include an equal high and
low, a zero volume, a rise and a fall, and each window fills and is left. *Hand:* five
events are press, move, second finger, and their releases. *Site:* two accounts and
two requests let an answer about one arrive after the other signed in. *Money
dialogs:* three operations let a dialog be closed, opened again and overtaken.

Every bound is a constant named in its module; none appears in a property except
through a type invariant. The type invariants of `Vault` and `AgentLoop` are proved
for every value of the constants and are no longer runs of their own.

Deadlock is checked in the runs on the vault, the sentinel and the loop. It is not in
the last four: their parts are driven by people, servers and calls whose number is
bounded, and when these are used up nobody has to do anything more. That something
goes on where the code has to is what their liveness properties say.

The mutants in `PROJECT.json` (each an operator marked "Fault" or "Seeded mutation"
beside the one it replaces) show for every property of a passing run that a plausible
error of the code breaks it.

## 4. Fairness

* `Sentinel!FairSpec`, while the sentinel is on: `HalfHour` (the task wakes at every
  boundary and does not wait for anything else) and `GetEvent` (the event loop keeps
  asking). Nothing is assumed of ticks, and the price may stay where it is for ever.
* `AgentLoop!FairSpec`: the event loop, the scanner and the end of startup go on, that
  is, exchange calls, scans and notifications return or raise. HTTP calls have
  timeouts; the RPC calls are assumed to return or raise. Ticks, exits on the exchange
  and shutdown are under no obligation.
* `services`: the listen loop of `PythFeed` goes on, and not every attempt of
  infinitely many to reconnect fails (strong fairness of `Reopened`). `Venues` and
  `Live` assume nothing.
* `chart_store`: the data loader answers every request at last (`AnswerOldest`), which
  the chart leaves to the loader's author and cannot go on without; a synchronous
  calculation settles, an asynchronous one settles (`SettleSync`, `SettleAsync`), the
  scheduler's callback and the layout microtask run (`RunDone`, `DoLayout`), as
  JavaScript guarantees once their promises settle. Answers may still come in any
  order.
* `chart_hand`: the browser goes on calling for animation frames (`Frame`), which it
  does not for a hidden page. Timers of clicks and taps are under no obligation.
* `site` assumes nothing: its requests may never be answered.

## 5. Proofs

Every theorem holds for every value of the constants, under the assumption it names.

**Lists of any length** (`Induction`). The library states induction for a predicate,
which the provers here cannot instantiate. `SetInduction` states it for a set instead
and is proved from the well-founded order of the numbers. From it: a fold over the
places of a list exists (`FoldExists`), so what `FoldLeft` chooses is one, and its
value after each place follows from the value before; and in a strict order of n
places exactly one has k - 1 before it (`RankOf`), which is why a list sorted by rank
has every member once. `IntervalInduction` does the same for the numbers between two
bounds, and `RecursionExists` says that a function defined there by recursion is what
its body says; sums over bars, turns of a search and rows of legends go by them. The
proofs about panes, drawings and rows use folds and ranks. The models
sort by rank (`Sorted`) and filter by a fold (`Filtered`, `Without`), because the
provers know nothing of `SortSeq` and `SelectSeq`.

**Vault** (`VaultAssumption`). `TypeCorrect` first; it carries that balances and
amounts of token accounts never exceed u64, from which the amounts a settlement writes
are within range.
`JournalInv` is `ActiveTradesExact` together with `OpenTradesCloseable`, because
neither is inductive alone: `delegate_to_protocol` and `close_vault` test the counter,
and keep the records closeable only if it counts them; `create_vault` resets the
counter, which is exact only if no record is open without an account.
`AgentStaysWhileTrading` follows: an open record makes the counter positive and the
account live, which disables every action that changes the agent. `FeeWithinInflow`
rests on a potential in `MoneyInv`: five times the fees plus the tokens a settlement
could still charge (`Uncharged`) is at most what came in. `BalanceStaysBacked` uses
that each draw is added to `drawn` and each settlement sets the balance to the token
amount. Both hold while every instruction names the client's token accounts (`~aside`):
the invariant is about that one account and ends with the first that names another.

**AgentLoop** (`LoopAssumption`). `TypeCorrect` is proved in three parts (scan,
events, trades) with `Numbering`: an entry is numbered within the bound at each await
of its handler, and a position never exceeds the entries made. `SlotsAreRespected`
needs `SlotInv`, what holds between the gate and the recording: while the handler is
on the entry path the tracked trades are fewer than the slots, because only the one
event loop adds a trade. `PositionsAreTracked` and `TrackedAreProtected` come from one
invariant, `OrderInv`, which says of each symbol what position, record and stop it has
at every await of its handler, unless a call for it failed. `LoopImplementsWatches`
maps the watches that are registered to `Armed` and the queue without its references
to `Queue`, and shows that a step of the loop then is a step of `Watches` or leaves
what it sees alone: a registration or a removal is a `Change` of one symbol, a watch
that fires a `Fire` of that watch, a handled event a `Take`, the end of the process
`Forget`. It rests on `TypeCorrect` alone.

**Sentinel** (`SentinelAssumption`: finitely many symbols, positive prices, `None` is
no watch). `WatchesSeeThePrice` needs `Heard`: a symbol that is subscribed or has a
watch has a callback at the feed, and every `add_watch` that waits registered one, so
that no price passes a watch by, also when a removal and a registration of the same
symbol overlap. `FeedInv` is the two with `TypeOK`. `WicksNeverClose` is an action
property: only the half-hour check consumes a body-close watch that stays registered,
and by `FeedInv` the close it compares is the feed's price.
`SentinelImplementsWatches` maps the registered watches to `Armed` and shows each step
to be a step of `Watches` or to leave what it sees alone; a tick or a boundary that
fires several watches is one `Fire` of the set, in any order.

**Services** (`VenuesAssumption`; `PythFeed` and `Live` need none). `TradesAreWhole`
rests on three parts. `Numbered`: every position and trade carries the number of an
entry that was begun, and one that is still being entered is no trade yet.
`ZetaFirst`: nothing is on Jupiter while the flag is up, nor of the symbol whose order
is on its way to Zeta; the flag goes down before the first order goes to Jupiter, and
never up again. `EntryWhole`: an entry that is still to be opened is open nowhere, and
one that was opened on Zeta has nothing of its symbol on Jupiter, unless its order
raised and took effect. `FeedsKeepFlowing` adds to `FeedsFlow` what holds in the
middle of a reconnection (`Resubscribed`): the feeds the new connection does not have
are those the iteration has still to come to, which is why a dictionary that grows
under it loses the rest, and only the rest. `ConnectionsAreSound`: a ticket that is
still kept has opened nothing (`TicketInv`), and a push takes off the list only
sockets whose client is gone (`SocketInv`).

**Chart store** (`ConstantsAssumption`). `OneStream`: the inductive invariant adds
to `StreamsFollow` that a stream exists only with a symbol, period and loader
(`StreamsConfigured`): each setter stops the old market's stream before it changes the
market, and only a stream of a fully configured chart can be stopped by it.
`DataIsExact` rests on `DataInv`. Between a reset and its first page the only request
of this reset is for that page (`FirstOut`). From then on the request that is out, if
any, continues the list at the end it was asked for (`Continues`): it was asked from
the first or the last bar, and neither changes before its answer, the first because
live bars come behind it, the last because a loader with live bars is never asked for
newer pages (`Sound`). So a page joins in order (`PageFacts`, `JoinedInOrder`), and
the next one may be asked for. An answer from before the last reset ends this, and the
property excepts it. `QuietIsPainted` rests on `TaskInv`: every calculation that is
out is in the batch that runs, in the one held behind it, or lost its place to a newer
one (`Batched`), which settles after it if both are synchronous (`ReplacedFirst`); the
youngest of an indicator was made from its newest data and parameters
(`YoungestIsNewest`), and an indicator with none out has that result
(`SettledIsNewest`); what is not painted yet has a layout queued that paints, or a
batch running that will ask for one (`PaintComes`). `ToolbarIsTrue`: a first page on
its way is the only request, of what was chosen last, with both flags up
(`FirstAlone`), an older one continues the bars there are (`MoreAlone`), and each
change of an indicator changes list and chart alike (`ListInv`). `PanesFill`
(`SizesAssumption`: sizes are natural numbers, drags are whole) needs next to its
property that a pane is in the order once (`MadeOnce`), that the candle pane is the
first (`PanesTyped`), that while the candle pane is shown a pane below a shown one is
shown too (`ShownBelow`), and that every pane but the first has its separator unless a
sort is asked for (`Separated`), and when separators are hidden (`Hiding`). In a layout the height that is left and the height
that was used make up the area at every pane, and the candle pane gets what is left at
the end (`MeasuredFills`). Every call and drag that changes a height asks for a layout
(`asked` then has `height`), so of what they deal out only the type matters.

`IndicatorsAreSound` needs no invariant of steps beyond the type of the list
(`ParamsAssumption`: parameters and precision are positive; `BarsAssumption`: numbers
are natural and a bar's open and close lie between its low and high): it is about what
is computed from any list. It is proved in the three parts the property has.

* `SumsExact`: a running sum before the bar that leaves is taken out is, at every bar,
  the sum of the bars from the first one it still keeps (`Kept`), and in a full window
  those are the last p (`RollingSums`, by induction over the bars). Where the code adds
  with one expression and takes out with another the two must agree for the bars that
  leave, which they do as the first bar has no change (`AgoIsChange`, `BrarExact`).
* `ScalesHeld`: a mean of values between two bounds, rounded down, is between them
  (`MeanBetween`, `MeanOf`), so an average carried on stays there (`CarriedIs`, `EmaIs`,
  `KeepsIn`); `MacdIn` is the difference of two of them. A share of a sum of
  non-negative parts is at most the whole (`PercentIs`, `ShareIs`). For the directional
  movement, damping is monotone: what is at most the range at every bar is so after it
  (`DampingBelow`), because s - s div P grows with s.
* `TrendsFollowed`: one step of the stop-and-reverse puts the stop on its side of its
  bar from any state (`SarStepIs`), also where it turns, as the extreme it turns to is
  beyond the bar. The volume trends go by one step (`AddedUp`).

**Chart hand** (`DrawingAssumption` for `Drawing`: finitely many overlays, fewer than
the levels, whole coordinates; `Gestures` needs none). `OneGestureAPress` proves an
action property: `MovesCancel` says that a far move cancels the click or tap of its
press, which only the next press takes back; `PinchTyped` is the type of the pinch's
state. `DrawingsStay` rests on `DrawInv`, one line for each thing that refers to an
overlay. `Levelled`: of all overlays, also those that are drawn or removed, the
hovered one alone is on top, and the level it had before is a lower one, which is what
gives it back its place. `Shelved`: a pane's list has finished overlays of that pane,
each once and in order. `Underway`: the overlay that is drawn is not finished, and its
pane is the one the Store has for it. `Held`: the points kept when an overlay was
pressed are aligned, so that moving all of them by as much keeps them so. A new
overlay's level is the length of a list whose members differ (`ShelfBelowTop`), hence
never the top. A step either keeps levels and places (`ObjectsChange`), or sorts
(`ShelvesSorted`), or removes (`ShelfWithout`).

`ViewDrawn` and `ViewHolds` (`UnitAssumption`: `Unit` is a multiple of twice every bar
width, sizes are natural numbers, offsets whole) rest on `ScaleInv`: the range is the
one `VisibleRange` gives for the offset, which never leaves more than all bars to the
left, and the crosshair is the one the view gives. Every operation ends with
`AdjustVisibleRange`, so one lemma (`AdjustKeeps`) serves all; a new chart has no bars
and an empty range. That such a range has every bar in view (`RangeShowsView`) is
arithmetic with two roundings: widths in bars are exact (`BarsExact`), a rounded
quotient is bounded from both sides (`QuotientBounds`, `RoundBounds`), and the pixel a
bar is at, rounded once more, decides on which side of the edge it is. The bounds hold
for any bar width, chart width and offset.

`AxesAreSound` (`AxesAssumption`: `Unit` is a multiple of 100, finitely many whole
values, panes higher than six pixels, the limits an indicator gives lie `MinSpan`
apart) rests on `RulerInv`: the range and the labels are those of the last layout, and
that followed the values unless the axis was dragged. `RangeHolds`: a range made for
some values is thirteen parts wide, of which two lie above and one below them, so
their pixels are inside the pane from seven pixels up (`ValuesShown`). `TicksPlaced`:
multiples come from below, so pixels fall (`PixelFalls`), and of two neighbours that
are kept the upper one has room (`KeepPlaces`), by induction along the fold.
`BarsKeepLabels`: the labelled bars are the multiples of the distance, whatever the
first bar in view (`SameRest`).

`IndexesReturn` (`CalendarAssumption`: the months of a cycle begin one after the other,
and a day that a month does not have in another year is still one of that year;
`BarsAssumption`) rests on `LineInv`: times increase strictly. The calendar repeats
(`CyclesLater`), months begin in order (`MonthsRise`), and a day is in the month that
began last (`MonthIs`), so adding months and clipping the day lands in the month meant
(`MonthBack`); adding years may overflow into the next month but not into the next year
(`YearBack`), and the code only asks for the year. `SearchFinds`: a turn of the search
either has found the bar or leaves an interval that holds it and is shorter
(`TurnHolds`), so as many turns as there are bars suffice; on the times of bars the
nearest is the bar itself.

`ShapesHit` (`GridAssumption`: points on the sheet, slopes that are exact along it,
middles that are whole, whole roots that are not rounded) goes tool by tool. A point on the straight through two others,
and between them, is on their line (`SegmentHit`); with exact slopes the line that a
tool draws through two points, wherever it starts on the sheet's edge, passes both
(`SlopeExact`, `CrossingLine`, `RayHit`). The parallel through the third point passes
it, and its mirror image the mirrored point (`ParallelHit`). For the filled ones the
edges right of the middle are counted: one of a rectangle (`RectHit`), one of a
triangle that has an area, in each order of its corners (`TriangleHit`). Of discs the
one through the second point is looked at (`DiscsHit`). `ShapeInv` is
that points are aligned as the tool says.

`LegendsReadable` (`OwnersAssumption`, `LegendsAssumption`, `StylesAssumption`: margins
are not negative, the left and top margin of texts and icons and the side offsets of
the rectangle are positive, as in `Styles.ts`) follows the pen. A pen is sound if what
it has drawn is apart and lies above its row or to the left of it in its row
(`SoundPen`), and every drawing function leads a sound pen to a sound one that has
drawn what it had and more (`Onward`): `SetDown` for one item, then one legend, the
icons of a place, an owner, all owners. The rectangle starts below the pen's rows and
beside the middle of the bar, as wide as its widest line and as high as all of them
(`RectXIs`, `RectYIs`, `LinesAre`). Icons before the first owner's values are drawn
from width and styles alone (`FixedPen`), so a repaint puts them where they were, and
since icons keep a distance at most one is under a point (`OneIcon`). `TipsInv` adds to
this when what is painted is of the current width.

**Site** (`MoneyAssumption` for `Money`, `ListsAssumption` for `Lists`; the others need
none). `SiteIsSound`: no page
a request is sent from is shown before the start's question is answered, a request
whose page is left keeps its kind (`Requests`), and every link of a page leads to a
route, one page after the other. `Thanks`: while no strategy was sent without its
button at most one submission is on its way, exactly while the button waits, with no
error shown and no thanks given (`OneAtATime`). `ToldMoved`: what the chain moved, if
the transaction did not fail there, is what an operation was started with (`ChainDid`): its amount is fixed with the press, not read from a dialog that may be
another by then. `SettingsStayTrue`: at most one request that sets the mode is on its
way, and once it is stored nothing else stored a mode (`OneWrite`); a label that says
"saved" has its timer running and the value that was kept. `RowsKept`: what a row holds, kept by
key, is what was given to its id (`ListInv`), because a key is an id and the ids of a
list differ (`ListTyped`). That the ids of what is listed differ too, and that with
nothing filtered all are listed, is about sorting, filtering and cutting lists of any
length (`SortedHolds`, `FilteredHolds`), and that the chips add up is about sums of a
filtered list.

The last four groups are about the composed specification a run checks, so each names
the run's own property; the steps of the other parts leave a part's variables alone.
The proofs found definitions to repair: a `CASE` whose guards overlap chooses any of
its arms, although TLC takes the first one (`Page` of `ChartData` and a dozen more,
now `IF`s or guards that exclude each other); and assumptions that had been left
unsaid (`None` is no watch, loader, symbol or socket). Some proofs that failed were right to.
With the newest bar beyond the right edge a bar that is less than half in view at the
left edge is not drawn, which six bars in a run had hidden (section 6). After a resize
the crosshair stays where it was, and the middle of its bar may lie beyond the pane,
where the rectangle follows it; until the next repaint the icons are hit where the old width had them; and a
hidden indicator without a name loses its row, with the icon that was lit in it.
`RectClear` and `LitStaysUnderPointer` now say so.

Only model-checked: liveness (`BodySLEventuallyFires`, `BodySLCloses`,
`RecoversFromErrors`, `FirstPageShown`, `ChangesReachScreen`, `FlingsEnd`), which needs
`ENABLED`. And two things the theorems leave to the instance: that `Starts` is a
calendar (TLC evaluates the assumption), and that the indicators' definitions are the
code's, which no proof can say.

## 6. Where the program and its documents disagree

Each with a run whose counterexample shows it:

* `vault_deposit_fee`: settlement counts deposits since the last settlement as profit
  (comment at `lib.rs:139-140`).
* `vault_accounts`: settlements that name two token accounts of one vault in turn
  charge the same tokens twice, because `opening_balance` is one number and is set to
  the amount of the account named; the fees then pass a fifth of all that came in
  ("user always gets at least 80%", `lib.rs:183`).
* `loop_unwatched`: the zone refresh removes the TP1 and body-close watches of a live
  trade, not only "stale zone watches" (`loop.py:168`).

Seen in the models and not kept as runs. Agent:

* the four orders of an entry are not placed "atomically" (`trade_agent.py:74`): a
  failing one leaves those before it (`:103`);
* not "each zone found" is watched (`loop.py:155-156`), only the last of a symbol
  (`:171`);
* `on_tp2_hit` and `on_sl_hit` are never called (`trade_agent.py:7-8`), so a trade
  that the exchange closed keeps its slot (`:345`);
* reconnection (`pyth_ws.py:150`) does not cover a normal close (`:154`);
* tick callbacks register more than once (`sentinel.py:117-119`), which `Tick` shows
  to be harmless; a second zone touch enters a live trade again
  (`TRADING_RULES.md:244`); a TP1 event left from an earlier trade moves the stop of
  its successor; positions without a trade record do not count against the slots
  (`loop.py:40`);
* after a re-subscription the dictionary grew under, the remaining feeds stay silent
  (`pyth_ws.py:144`); a malformed message ends the listener for good.

Vault: a recorded balance cannot be withdrawn while the delegate holds the tokens
(`README.md:56`); a withdrawal settles no profit first (`kb/investor_faq.md:7`); a
vault created again restarts `trade_count` while closed records keep their ids, and
`record_trade` is blocked until they are closed (`lib.rs:21`); a profit whose `* 20`
overflows blocks settlement (`lib.rs:183`). With several token accounts, or with a
user who delegated to itself and deposits from the vault's own account, the recorded
balance can also exceed what is held; `close_vault` closes the account it is given and
leaves another that holds tokens.

Exchanges:

* the flag "flips False on repeated failures" (`solana_router.py:29`): one failure of
  any call flips it, one of the balance refresh or a "No open position" too, and
  nothing flips it back. Positions left on Zeta are then out of reach of later orders;
* an order that took effect and raised is repeated on Jupiter;
* "Trigger order bit used for SL (0) and TP (1) per position" (`zeta_client.py:65`):
  the account is one per margin account, so TP1 and TP2, and the stops of two symbols,
  ask for the same; on Jupiter the counters of two symbols may collide;
* `on_tp1_hit` does not call `cancel_sl` first, though its docstring asks for it;
* Zeta's close order is not reduce-only: if the position ends before it, it opens the
  reverse one.

Live connections: "Enforce max connections per user" (`ws.py:162`) is a check before
the awaited accept, so simultaneous connections pass it; `send_to_user` and
`broadcast` have no caller outside tests.

Chart engine:

* a late first answer for the old symbol wins for ever and clears the loading flag;
* a later layout request that does not force ticks drops an earlier one that does; a
  throw in `_layout` stops painting for good; an overtaken asynchronous calculation
  may overwrite a newer result;
* a maximized candle pane ends above the x axis: the separators of the other panes are
  hidden with them (`Chart.ts:879`) and still counted (`:376-378`);
* a circle or Fibonacci circle may not be hit at the point it was drawn through: the
  rounded root of `getDistance` squared again can be less than what it was taken of, as
  for (0, 0) and (8, 12) (`circle.ts:32` of klinechart-pro, `figure/circle.ts:30`);
* the rectangle "pointer" is placed from the middle of the bar under the pointer
  (`CandleTooltipView.ts:240-246`, `Store.ts:1114`), so that over a bar wider than its
  offsets the rectangle may lie under the pointer;
* with `showRule` `follow_cross` a lit icon hides the legends it stands in;
* scrolled into history, the bar at the left edge is dropped as soon as less than half
  of it is in view (`Store.ts:663-672`), and the y axis follows without it;
* with scrolling switched off, a drag of a manual y axis moves its range without a
  layout; an indicator with equal `minValue` and `maxValue` has a range of zero;
* the end of a touch in the main pane keeps the scroll's start, so a quick pinch can
  fling; a second fling loses the first one's handle; destroying the chart leaves its
  fling, its streams and its answers;
* `overrideOverlay` with points may leave a finished drawing in progress, with fewer
  points it makes a kept one unfinished; a level given to the drawing under the mouse
  is lost when the mouse leaves; a second
  `createOverlay` replaces the drawing in progress without a word; a double click
  after the first point finishes a drawing with one point;
* steep lines are hit beyond their ends; the parallelogram's fourth corner uses the
  third point's price;
* PVT is not the documented sum of relative changes times volume
  (`priceAndVolumeTrend.ts:23-25`): the volume divides (`:42-45`). AVP divides the
  turnover a loader gives (`averagePrice.ts:37`), and the toolbar's loader gives the
  average price of the bar for it (`DefaultDatafeed.ts:56`), so that its AVP is a price
  over a volume;
* RSI is 0 when a window has no loss, SAR starts again at 0 on one side and at its
  start value on the other, BBI divides by four whatever its parameters, CR is not
  summed over its window.

Toolbar chart: a symbol or period chosen while a page loads stops the load effect for
ever (`ChartProComponent.tsx:312`); a failed request leaves the flag set (`:320-330`);
an older page takes the symbol of now (`:252`) and its answer clears the flag of a
first page on its way; live ticks never reach the chart (`'sym' in result` on an
array, `DefaultDatafeed.ts:74`).

Front end:

* the wallet sign-in cannot succeed: the client asks for its nonce with GET
  (`phantom-signin.ts:29`), the server offers POST (`phantom.ts:70-77`), and the
  signature's pattern takes 32 to 44 characters (`phantom.ts:96`);
* accounts with two-factor are sent to `/2fa`, which has no route; sign-up shows the
  dashboard though it gives no session before the mail is confirmed; the dashboard's
  logout only leads to `/login`, and the guard leads back;
* a failed name check leaves "checking"; a lost answer to a submission leads to a
  duplicate on retry;
* `handleSubmit` of the strategy form looks at the email alone
  (`SubmitStrategyForm.tsx:73-76`), and its button is there only while the form is
  complete (`:473`): with the name cleared, Enter in that field submits an incomplete
  strategy, again while the first is on its way, and the thanks of one come while the
  other may still fail. `ThanksMeansStored` exempts that;
* `signAndSubmitTx` does not look at what `confirmTransaction`
  answers (`solana.ts:56`), so a transaction that failed on chain after its preflight
  is shown as "Deposited" and told to the backend, which is to record "a confirmed
  deposit" (`vaults.py:207`). `ToldWhatMoved` exempts it;
* a failure after a submitted transaction shows "failed" though the money moved; an
  operation that ends closes a newer dialog;
* the total of the trader's log adds losses (`TraderTradeLogPage.tsx:110-114`); the
  date filter of the trade history and the marketplace's search do nothing;
* the backend has no route for the risk mode: every choice is refused while the
  dashboard shows it; `handleCopy` says "copied" when the clipboard refused.

## 7. Not modelled, and why

* Zone scanner: pure functions over candles in floating point and of a model's answer;
  the loop takes any list of zones.
* Journal and vault clients: nothing calls `set_vault_client`, so the agent never
  writes the on-chain journal; what their instructions do on chain is `Vault`. Its
  client reads `trade_count` and then submits (`trade_journal_client.py:278`): of two
  overlapping calls for one vault one is refused.
* Other backend routes: single statements on a database behind an authentication
  check. A confirmation of a deposit that is repeated is recorded twice, and one that
  is lost never (`vaults.py`); the client's half is `Money`.
* Wallet sign-in: it refuses every signature (section 6), so nothing behind the check
  is reached.
* Notifications, configuration, process wrapper, journal file, verification scripts:
  no control state of their own.
* Chart tool server: a wrapper around one browser page. Two of its races were read,
  not modelled: it notes the symbol before the page has it, and two launches at once
  start two browsers.
* Voice service, mobile app, documentation pages, articles, styles, sample data and
  components nothing mounts: no behaviour.
* Of modelled parts: prices and sizes of orders; ids that a caller gives a drawing (the
  tools and the bar give none: with one that is in progress or was removed, hovering
  takes the new drawing for the old) and overriding some of its points; export to pictures, styles and
  hotkeys of the chart; logarithmic and percentage axes; themes, time zones and
  screenshots of the toolbar chart; the account and risk settings pages, which send
  nothing.

What a next step would add: the composition of `PythFeed` with `Sentinel` and of
`Venues` with `AgentLoop` (both meet today in an abstraction that one has and the
other is written against), and custody (who holds which token) as an abstract
specification of `Vault`.
