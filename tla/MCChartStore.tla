---------------------------- MODULE MCChartStore ----------------------------
(***************************************************************************)
(* Five parts of the chart that share no variable, checked in one run:     *)
(* `part` says which of them a behaviour is about, the variables of the    *)
(* others stay None.                                                       *)
(***************************************************************************)
EXTENDS Integers, Sequences, TLC

CONSTANTS
    None, Symbols, Periods, LiveLoaders, WindowLoaders, PageSize, MaxTime, MaxResets,
    Studies, Async, MaxVersion, MaxEdits,
    Candle, Extra, XAxis, Totals, XAxisHeight, SeparatorSize, MinHeight,
    DefaultHeight, Drags, MaxMoves,
    Tickers, MarketOf, Spans, Count, Now, MainNames, SubNames, MaxChanges, MaxPages,
    BarValues, P, Q, R, Precision, MaxCandles

VARIABLES
    part,
    symbol, period, loader, bars, more, loading, requests, streams, destroyed, now,
    resets, applied, late,
    data, stage, params, look, result, failed, calcs, running, holding, pending,
    options, format, ticks, painted, edits, dropped, overtaken,
    order, height, original, state, visible, separated, hidden, total, asked, drag,
    moves,
    symbolOf, periodOf, alive, loadingPage, picture, reqs, crossed, shown, asking,
    socket, main, sub, drawn, changes,
    candles

Data  == INSTANCE ChartData
Tasks == INSTANCE ChartTasks
Layout == INSTANCE Panes
Pro    == INSTANCE ChartPro
              WITH symbol <- symbolOf, period <- periodOf, loading <- loadingPage,
                   loader <- picture, bars <- shown
Study  == INSTANCE Indicators
              WITH bars <- candles, Unit <- Precision, MaxBars <- MaxCandles

ASSUME ConstantsAssumption ==
    /\ Data!LoaderAssumption /\ Data!BoundAssumption
    /\ Tasks!AsyncAssumption /\ Tasks!BoundAssumption /\ Layout!SizesAssumption
    /\ Pro!ProAssumption /\ Study!ParamsAssumption /\ Study!BarsAssumption

dataVars == <<symbol, period, loader, bars, more, loading, requests, streams,
              destroyed, now, resets, applied, late>>
taskVars == <<data, stage, params, look, result, failed, calcs, running, holding,
              pending, options, format, ticks, painted, edits, dropped, overtaken>>
layoutVars == <<order, height, original, state, visible, separated, hidden, total,
                asked, drag, moves>>
proVars == <<symbolOf, periodOf, alive, loadingPage, picture, reqs, crossed, shown,
             asking, socket, main, sub, drawn, changes>>
vars == <<part, dataVars, taskVars, layoutVars, proVars, candles>>

NoData ==
    /\ symbol = None /\ period = None /\ loader = None /\ bars = None /\ more = None
    /\ loading = None /\ requests = None /\ streams = None /\ destroyed = None
    /\ now = None /\ resets = None /\ applied = None /\ late = None

NoTasks ==
    /\ data = None /\ stage = None /\ params = None /\ look = None /\ result = None
    /\ failed = None /\ calcs = None /\ running = None /\ holding = None
    /\ pending = None /\ options = None /\ format = None /\ ticks = None
    /\ painted = None /\ edits = None /\ dropped = None /\ overtaken = None

NoLayout ==
    /\ order = None /\ height = None /\ original = None /\ state = None
    /\ visible = None /\ separated = None /\ hidden = None /\ total = None
    /\ asked = None /\ drag = None /\ moves = None

NoPro ==
    /\ symbolOf = None /\ periodOf = None /\ alive = None /\ loadingPage = None
    /\ picture = None /\ reqs = None /\ crossed = None /\ shown = None
    /\ asking = None /\ socket = None /\ main = None /\ sub = None
    /\ drawn = None /\ changes = None

NoStudy == candles = None

Init ==
    \/ part = "data"    /\ Data!Init /\ NoTasks /\ NoLayout /\ NoPro /\ NoStudy
    \/ part = "tasks"   /\ NoData /\ Tasks!Init /\ NoLayout /\ NoPro /\ NoStudy
    \/ part = "layout"  /\ NoData /\ NoTasks /\ Layout!Init /\ NoPro /\ NoStudy
    \/ part = "pro"     /\ NoData /\ NoTasks /\ NoLayout /\ Pro!Init /\ NoStudy
    \/ part = "studies" /\ NoData /\ NoTasks /\ NoLayout /\ NoPro /\ Study!Init

InData(A) ==
    part = "data" /\ A /\ UNCHANGED <<part, taskVars, layoutVars, proVars, candles>>
InTasks(A) ==
    part = "tasks" /\ A /\ UNCHANGED <<part, dataVars, layoutVars, proVars, candles>>
InLayout(A) ==
    part = "layout" /\ A /\ UNCHANGED <<part, dataVars, taskVars, proVars, candles>>
InPro(A) ==
    part = "pro" /\ A /\ UNCHANGED <<part, dataVars, taskVars, layoutVars, candles>>
InStudy(A) ==
    part = "studies" /\ A /\ UNCHANGED <<part, dataVars, taskVars, layoutVars, proVars>>

Next ==
    \/ InData(Data!Next) \/ InTasks(Tasks!Next) \/ InLayout(Layout!Next)
    \/ InPro(Pro!Next) \/ InStudy(Study!Next)

Fairness ==
    /\ WF_vars(InData(Data!AnswerOldest))
    /\ WF_vars(InTasks(Tasks!SettleSync)) /\ WF_vars(InTasks(Tasks!SettleAsync))
    /\ WF_vars(InTasks(Tasks!RunDone)) /\ WF_vars(InTasks(Tasks!DoLayout))

Spec == Init /\ [][Next]_vars /\ Fairness

-----------------------------------------------------------------------------
\* The bars shown are one market's, in order of time, and no page of them is
\* asked for twice (ChartData).
DataExact == part = "data" => Data!DataExact
\* The only stream is the shown market's (ChartData).
StreamsFollow == part = "data" => Data!StreamsFollow
\* The first page of the last market comes to be shown (ChartData).
FirstPageShown == <>[](part = "data" => Data!LastResetShown)
\* Nothing out, nothing queued: the screen is up to date (ChartTasks).
QuietMeansPainted == part = "tasks" => Tasks!QuietMeansPainted
\* The last change comes to the screen (ChartTasks).
ChangesReachScreen == <>[](part = "tasks" => Tasks!UpToDate)
\* The panes fill the chart (Panes).
PanesFillChart == part = "layout" => Layout!PanesFillChart
\* The toolbar chart shows what was chosen on it (ChartPro).
ProSound == part = "pro" => Pro!ProSound
\* Every running sum is the sum of its window (Indicators).
SumsAreWindows == part = "studies" => Study!SumsAreWindows
\* Averages stay among the prices, oscillators within their scale (Indicators).
WithinScale == part = "studies" => Study!WithinScale
\* The stop is on its side of every bar, volume trends go with the price
\* (Indicators).
TrendsFollow == part = "studies" => Study!TrendsFollow
\* Indicators are what their definitions say and stay where they belong.
IndicatorsSound == SumsAreWindows /\ WithinScale /\ TrendsFollow

-----------------------------------------------------------------------------
MCDrags == {-3, 4}
Bar(o, h, l, c, v, t) ==
    [open |-> o, high |-> h, low |-> l, close |-> c, volume |-> v, turnover |-> t]
MCBars == {Bar(2, 3, 1, 2, 1, 3), Bar(1, 1, 1, 1, 0, 0), Bar(2, 4, 2, 4, 2, 5),
           Bar(4, 4, 1, 1, 2, 0)}
MCMarket == "a" :> "x" @@ "b" :> "x" @@ "c" :> "y"
=============================================================================
