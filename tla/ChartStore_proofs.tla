------------------------- MODULE ChartStore_proofs -------------------------
(***************************************************************************)
(* What MCChartStore checks on a small instance, proved for any symbols,   *)
(* loaders, pages, panes, bars, windows and bounds: one invariant for each *)
(* part, which the steps of the others do not touch.                       *)
(***************************************************************************)
EXTENDS MCChartStore, FiniteSetTheorems, Induction, TLAPS

-----------------------------------------------------------------------------
(* The chart's data (ChartData): its stream.                               *)

\* Streaming takes a whole market: a chart that lacks its loader, symbol or
\* period streams nothing, so the next reset has nothing to give up.
StreamsConfigured == streams # {} => Data!Configured

StreamInv == streams \subseteq {<<loader, Data!Market>>} /\ StreamsConfigured

LEMMA StreamInit == Data!Init => StreamInv
  BY DEF Data!Init, StreamInv, StreamsConfigured

\* Nothing but a reset and a first page touches streams and market.
LEMMA ElseKeeps ==
    ASSUME StreamInv, UNCHANGED <<symbol, period, loader, streams>>
    PROVE  StreamInv'
  BY DEF StreamInv, StreamsConfigured, Data!Configured, Data!Market

\* A reset gives up the stream of the market it leaves.
LEMMA ResetGivesUp ==
    ASSUME StreamInv, NEW s, NEW p, NEW l, Data!ResetData(s, p, l)
    PROVE  StreamInv'
  <1>1. CASE Data!Configured
    <2>1. streams' = {}
      BY <1>1 DEF Data!ResetData, StreamInv
    <2> QED
      BY <2>1 DEF StreamInv, StreamsConfigured
  <1>2. CASE ~Data!Configured
    <2>1. streams' = {}
      BY <1>2 DEF Data!ResetData, StreamInv, StreamsConfigured
    <2> QED
      BY <2>1 DEF StreamInv, StreamsConfigured
  <1> QED
    BY <1>1, <1>2

\* A first page subscribes to the market shown by now, on the loader of now.
LEMMA AnswerFollows ==
    ASSUME None \notin LiveLoaders, StreamInv, NEW i, Data!Answer(i)
    PROVE  StreamInv'
  <1>1. UNCHANGED <<symbol, period, loader>>
    BY DEF Data!Answer
  <1>2. PICK r : streams' \in {streams, streams \cup Data!SubscribeBar(r)}
    BY DEF Data!Answer
  <1>3. CASE streams' = streams
    BY <1>1, <1>3, ElseKeeps
  <1>4. CASE streams' = streams \cup Data!SubscribeBar(r)
    BY <1>1, <1>4 DEF Data!SubscribeBar, StreamInv, StreamsConfigured, Data!Configured, Data!Market
  <1> QED
    BY <1>2, <1>3, <1>4

LEMMA StreamStep == None \notin LiveLoaders /\ StreamInv /\ [Data!Next]_(Data!vars) => StreamInv'
  <1> SUFFICES ASSUME None \notin LiveLoaders, StreamInv, [Data!Next]_(Data!vars) PROVE StreamInv'
    OBVIOUS
  <1>1. CASE Data!SetSymbol
    BY <1>1, ResetGivesUp DEF Data!SetSymbol
  <1>2. CASE Data!SetPeriod
    BY <1>2, ResetGivesUp DEF Data!SetPeriod
  <1>3. CASE Data!SetDataLoader
    BY <1>3, ResetGivesUp DEF Data!SetDataLoader
  <1>4. CASE Data!View
    BY <1>4, ElseKeeps DEF Data!View
  <1>5. CASE Data!Destroy
    BY <1>5, ElseKeeps DEF Data!Destroy
  <1>6. CASE Data!AnswerOldest
    BY <1>6, AnswerFollows DEF Data!AnswerOldest
  <1>7. CASE Data!AnswerOther
    BY <1>7, AnswerFollows DEF Data!AnswerOther
  <1>8. CASE Data!Update
    BY <1>8, ElseKeeps DEF Data!Update
  <1>9. CASE Data!Tick
    BY <1>9, ElseKeeps DEF Data!Tick
  <1>10. CASE UNCHANGED Data!vars
    BY <1>10, ElseKeeps DEF Data!vars
  <1> QED
    BY <1>1, <1>2, <1>3, <1>4, <1>5, <1>6, <1>7, <1>8, <1>9, <1>10 DEF Data!Next

\* The only stream a chart holds is that of its market, on its loader: no
\* reset, late first page or change of loader leaks one (resetData, _addData).
THEOREM OneStream == Spec => []StreamsFollow
  <1> DEFINE Inv == part = "data" => StreamInv
  <1>1. Init => Inv
    BY StreamInit DEF Init
  <1>2. Inv /\ [Next]_vars => Inv'
    <2> SUFFICES ASSUME Inv, [Next]_vars, part' = "data" PROVE StreamInv'
      OBVIOUS
    <2>1. part = "data" /\ [Data!Next]_(Data!vars)
      BY DEF Next, InData, InTasks, InLayout, InPro, InStudy, vars, dataVars, Data!vars
    <2>2. None \notin LiveLoaders
      BY ConstantsAssumption DEF Data!LoaderAssumption
    <2> QED
      BY <2>1, <2>2, StreamStep
  <1>3. Inv => StreamsFollow
    BY DEF StreamsFollow, StreamInv, Data!StreamsFollow
  <1> QED
    BY <1>1, <1>2, <1>3, PTL DEF Spec
-----------------------------------------------------------------------------
(* The toolbar chart (ChartPro): its pages and its lists.                  *)

PageRequests == [kind : {"first", "more"}, of : Tickers \X Spans, from : Int, to : Int,
                 done : BOOLEAN]

ProTypes ==
    /\ symbolOf \in Tickers /\ periodOf \in Spans
    /\ alive \in BOOLEAN /\ loadingPage \in BOOLEAN /\ picture \in BOOLEAN
    /\ crossed \in BOOLEAN /\ asking \in BOOLEAN
    /\ reqs \in Seq(PageRequests)
    /\ shown \in [of : SUBSET (Tickers \X Spans), first : Int, more : BOOLEAN]
    /\ socket \in {None} \cup Pro!Sockets
    /\ changes \in Nat

\* A first page on its way is alone, it is the chosen one's, and both flags
\* are up for it.
FirstAlone ==
    alive /\ ~crossed =>
        \A i \in Pro!Busy("first") :
            /\ loadingPage /\ picture
            /\ reqs[i].of = Pro!Of
            /\ Pro!Busy("more") = {}
            /\ \A j \in Pro!Busy("first") : i = j

\* So is an older one; it continues the bars there are.
MoreAlone ==
    alive /\ ~crossed =>
        \A i \in Pro!Busy("more") :
            /\ loadingPage /\ asking
            /\ reqs[i].of = Pro!Of
            /\ reqs[i].from = Pro!Older(periodOf, shown.first).from
            /\ reqs[i].to = Pro!Older(periodOf, shown.first).to
            /\ \A j \in Pro!Busy("more") : i = j

\* A socket sends its first ticker or has it still to send.
PageInv == ProTypes /\ FirstAlone /\ MoreAlone /\ Pro!ShowsTheChosen

\* The lists name what is drawn, and pane 0 is the candle's alone.
ListInv ==
    /\ Pro!ListsWhatIsDrawn
    /\ \A n \in DOMAIN sub : sub[n] \in Nat \ {0}
    /\ IsFiniteSet(drawn) /\ changes \in Nat

-----------------------------------------------------------------------------
(* What adjustFromTo returns.                                              *)

LEMMA Product == ASSUME NEW a \in Nat \ {0}, NEW b \in Nat \ {0} PROVE a * b \in Nat \ {0}
  OBVIOUS

LEMMA Floored ==
    ASSUME NEW p \in Nat \ {0}, NEW t \in Int
    PROVE  /\ Pro!Unit(p) \in Nat \ {0} /\ t % Pro!Unit(p) \in Nat
           /\ t % Pro!Unit(p) < Pro!Unit(p)
  BY DEF Pro!Unit

\* The range ends at the time given, within a unit, and lasts that many bars.
LEMMA RangeEnds ==
    ASSUME NEW p \in Nat \ {0}, NEW t \in Int, NEW n \in Nat \ {0}
    PROVE  LET r == Pro!AdjustFromTo(p, t, n)
           IN  /\ r.from \in Int /\ r.to \in Int
               /\ r.to <= t /\ t - r.to < Pro!Unit(p) /\ r.to - r.from = n * p
  <1>1. n * p \in Nat
    BY Product
  <1> QED
    BY <1>1, Floored DEF Pro!AdjustFromTo

\* An older page is not empty and ends one bar, up to a unit, before the bars.
LEMMA OlderEnds ==
    ASSUME NEW p \in Nat \ {0}, NEW t \in Int, Count \in Nat \ {0}
    PROVE  LET r == Pro!Older(p, t)
           IN  /\ r.from \in Int /\ r.to \in Int
               /\ r.from < r.to /\ r.to < t /\ t - r.to < p + Pro!Unit(p)
  <1> DEFINE one == Pro!AdjustFromTo(p, t, 1)
             page == Pro!AdjustFromTo(p, one.from, Count)
  <1>1. /\ one.from \in Int /\ one.to \in Int
        /\ one.to <= t /\ t - one.to < Pro!Unit(p) /\ one.to - one.from = 1 * p
    <2>1. 1 \in Nat \ {0}
      OBVIOUS
    <2> QED
      BY <2>1, RangeEnds, Zenon
  <1>2. 1 * p = p
    OBVIOUS
  <1>3. /\ page.from \in Int /\ page.to \in Int
        /\ page.to <= one.from /\ page.to - page.from = Count * p
    BY <1>1, RangeEnds
  <1>4. Count * p \in Nat \ {0}
    BY Product
  <1>5. Pro!Older(p, t) = [from |-> page.from, to |-> one.from]
    BY DEF Pro!Older
  <1>6. Pro!Unit(p) \in Nat
    BY Floored
  <1> HIDE DEF one, page
  <1> QED
    BY <1>1, <1>2, <1>3, <1>4, <1>5, <1>6

-----------------------------------------------------------------------------
(* The pages of the toolbar chart.                                         *)

LEMMA PageInit == Pro!ProAssumption /\ Pro!Init => PageInv
  <1> SUFFICES ASSUME Pro!ProAssumption, Pro!Init PROVE PageInv
    OBVIOUS
  <1> DEFINE range == Pro!AdjustFromTo(periodOf, Now, Count)
             first == Pro!Request("first", <<symbolOf, periodOf>>, range)
  <1>1. periodOf \in Nat \ {0} /\ Now \in Int /\ Count \in Nat \ {0}
    BY DEF Pro!Init, Pro!ProAssumption
  <1>2. range.from \in Int /\ range.to \in Int
    BY <1>1, RangeEnds
  <1>3. first = [kind |-> "first", of |-> <<symbolOf, periodOf>>, from |-> range.from,
                 to |-> range.to, done |-> FALSE]
    BY DEF Pro!Request
  <1>4. symbolOf \in Tickers /\ periodOf \in Spans
    BY DEF Pro!Init
  <1>5. reqs = <<first>>
    BY DEF Pro!Init
  <1> HIDE DEF range
  <1>6. first \in PageRequests
    <2>1. <<symbolOf, periodOf>> \in Tickers \X Spans
      BY <1>4
    <2> HIDE DEF first
    <2> QED
      BY <2>1, <1>2, <1>3 DEF PageRequests
  <1>7. reqs \in Seq(PageRequests) /\ DOMAIN reqs = {1} /\ reqs[1] = first
    <2> HIDE DEF first
    <2> QED
      BY <1>5, <1>6
  <1>8. Pro!Busy("first") \subseteq {1} /\ Pro!Busy("more") = {}
    BY <1>7, <1>3 DEF Pro!Busy
  <1>9. ProTypes
    <2> HIDE DEF first
    <2> QED
      BY <1>1, <1>4, <1>7 DEF ProTypes, Pro!Init
  <1>10. FirstAlone
    BY <1>3, <1>7, <1>8 DEF FirstAlone, Pro!Init, Pro!Of
  <1>11. MoreAlone /\ Pro!ShowsTheChosen
    BY <1>8 DEF MoreAlone, Pro!Init, Pro!ShowsTheChosen
  <1> QED
    BY <1>9, <1>10, <1>11 DEF PageInv

\* What a new request adds, and what the end of one takes away.
LEMMA Requested ==
    ASSUME NEW q \in PageRequests, q.done = FALSE, reqs \in Seq(PageRequests),
           reqs' = Append(reqs, q)
    PROVE  /\ reqs' \in Seq(PageRequests)
           /\ \A i \in DOMAIN reqs : i \in DOMAIN reqs' /\ reqs'[i] = reqs[i]
           /\ Len(reqs) + 1 \notin DOMAIN reqs /\ reqs'[Len(reqs) + 1] = q
           /\ q.kind = "first" =>
                 /\ Pro!Busy("first")' = Pro!Busy("first") \cup {Len(reqs) + 1}
                 /\ Pro!Busy("more")' = Pro!Busy("more")
           /\ q.kind = "more" =>
                 /\ Pro!Busy("more")' = Pro!Busy("more") \cup {Len(reqs) + 1}
                 /\ Pro!Busy("first")' = Pro!Busy("first")
  <1>1. reqs' \in Seq(PageRequests) /\ Len(reqs') = Len(reqs) + 1 /\ Len(reqs) \in Nat
    OBVIOUS
  <1>2. DOMAIN reqs = 1..Len(reqs) /\ DOMAIN reqs' = 1..(Len(reqs) + 1)
    BY <1>1
  <1>3. \A i \in DOMAIN reqs : reqs'[i] = reqs[i]
    BY <1>2
  <1>4. reqs'[Len(reqs) + 1] = q
    OBVIOUS
  <1>5. DOMAIN reqs' = DOMAIN reqs \cup {Len(reqs) + 1} /\ Len(reqs) + 1 \notin DOMAIN reqs
    BY <1>1, <1>2
  <1> QED
    BY <1>1, <1>3, <1>4, <1>5 DEF Pro!Busy

LEMMA Ended ==
    ASSUME NEW i \in DOMAIN reqs, reqs \in Seq(PageRequests),
           reqs' = [reqs EXCEPT ![i].done = TRUE]
    PROVE  /\ reqs' \in Seq(PageRequests)
           /\ \A j \in DOMAIN reqs :
                 reqs'[j].of = reqs[j].of /\ reqs'[j].from = reqs[j].from
                 /\ reqs'[j].to = reqs[j].to
           /\ Pro!Busy("first")' = Pro!Busy("first") \ {i}
           /\ Pro!Busy("more")' = Pro!Busy("more") \ {i}
  <1>1. DOMAIN reqs = 1..Len(reqs) /\ Len(reqs) \in Nat /\ reqs \in [1..Len(reqs) -> PageRequests]
    OBVIOUS
  <1>2. reqs[i] \in PageRequests /\ reqs' = [reqs EXCEPT ![i] = [reqs[i] EXCEPT !.done = TRUE]]
    BY <1>1
  <1>3. [reqs[i] EXCEPT !.done = TRUE] \in PageRequests
    BY <1>2 DEF PageRequests
  <1>4. reqs' \in [1..Len(reqs) -> PageRequests] /\ DOMAIN reqs' = DOMAIN reqs
    BY <1>1, <1>2, <1>3
  <1>5. reqs' \in Seq(PageRequests)
    BY <1>1, <1>4
  <1>6. \A j \in DOMAIN reqs : j # i => reqs'[j] = reqs[j]
    BY <1>2
  <1>7. reqs'[i] = [reqs[i] EXCEPT !.done = TRUE]
    BY <1>2
  <1>8. /\ reqs'[i].done = TRUE /\ reqs'[i].kind = reqs[i].kind /\ reqs'[i].of = reqs[i].of
        /\ reqs'[i].from = reqs[i].from /\ reqs'[i].to = reqs[i].to
    BY <1>2, <1>7 DEF PageRequests
  <1>9. Pro!Busy("first")' = Pro!Busy("first") \ {i}
    BY <1>4, <1>6, <1>8 DEF Pro!Busy
  <1>10. Pro!Busy("more")' = Pro!Busy("more") \ {i}
    BY <1>4, <1>6, <1>8 DEF Pro!Busy
  <1> QED
    BY <1>5, <1>6, <1>8, <1>9, <1>10

LEMMA ChooseKeepsPages ==
    ASSUME Pro!ProAssumption, PageInv, NEW s \in Tickers, NEW p \in Spans, Pro!Choose(s, p)
    PROVE  PageInv'
  <1> USE DEF PageInv
  <1>1. /\ symbolOf' = s /\ periodOf' = p /\ changes' = changes + 1
        /\ UNCHANGED <<crossed, shown, asking, socket>>
    BY DEF Pro!Choose, Pro!Changed
  <1>2. CASE alive /\ ~loadingPage
    <2> DEFINE range == Pro!AdjustFromTo(p, Now, Count)
               q == Pro!Request("first", <<s, p>>, range)
    <2>1. /\ loadingPage' = TRUE /\ picture' = TRUE /\ alive' = alive /\ reqs' = Append(reqs, q)
      BY <1>2 DEF Pro!Choose, Pro!Load
    <2>2. p \in Nat \ {0} /\ Now \in Int /\ Count \in Nat \ {0}
      BY DEF Pro!ProAssumption
    <2>3. range.from \in Int /\ range.to \in Int
      BY <2>2, RangeEnds
    <2>4. q = [kind |-> "first", of |-> <<s, p>>, from |-> range.from, to |-> range.to,
               done |-> FALSE]
      BY DEF Pro!Request
    <2> HIDE DEF range, q
    <2>5. <<s, p>> \in Tickers \X Spans
      OBVIOUS
    <2>6. q \in PageRequests /\ q.kind = "first" /\ q.of = <<s, p>> /\ q.done = FALSE
      BY <2>3, <2>4, <2>5 DEF PageRequests
    <2>7. /\ reqs' \in Seq(PageRequests)
          /\ reqs'[Len(reqs) + 1] = q
          /\ Pro!Busy("first")' = Pro!Busy("first") \cup {Len(reqs) + 1}
          /\ Pro!Busy("more")' = Pro!Busy("more")
      BY <2>1, <2>6, Requested DEF ProTypes
    <2>8. ProTypes'
      BY <1>1, <2>1, <2>7 DEF ProTypes
    <2>9. CASE ~crossed
      <3>1. Pro!Busy("first") = {} /\ Pro!Busy("more") = {}
        BY <1>2, <2>9 DEF FirstAlone, MoreAlone
      <3>2. FirstAlone'
        BY <3>1, <2>1, <2>6, <2>7, <1>1 DEF FirstAlone, Pro!Of
      <3>3. MoreAlone' /\ Pro!ShowsTheChosen'
        BY <3>1, <2>1, <2>7 DEF MoreAlone, Pro!ShowsTheChosen
      <3> QED
        BY <2>8, <3>2, <3>3
    <2>10. CASE crossed
      BY <1>1, <2>8, <2>10 DEF FirstAlone, MoreAlone, Pro!ShowsTheChosen
    <2> QED
      BY <2>9, <2>10 DEF ProTypes
  <1>3. CASE ~(alive /\ ~loadingPage)
    <2>1. UNCHANGED <<loadingPage, picture, reqs>> /\ alive' = FALSE
      BY <1>3 DEF Pro!Choose, Pro!Load, ProTypes
    <2>2. alive' \in BOOLEAN
      BY <2>1, Zenon
    <2>3. ProTypes'
      BY <1>1, <2>1, <2>2 DEF ProTypes
    <2> QED
      BY <2>1, <2>3 DEF FirstAlone, MoreAlone, Pro!ShowsTheChosen
  <1> QED
    BY <1>2, <1>3

\* An opened socket has sent its first ticker.
LEMMA SocketKeepsPages ==
    ASSUME Pro!ProAssumption, PageInv, Pro!SocketOpens PROVE PageInv'
  <1> USE DEF PageInv
  <1>1. /\ UNCHANGED <<symbolOf, periodOf, alive, loadingPage, picture, reqs, crossed,
                       shown, asking, changes>>
        /\ socket # None /\ socket \in Pro!Sockets
        /\ socket' = [socket EXCEPT !.open = TRUE, !.sent = @ \cup {socket.first}]
    BY DEF Pro!SocketOpens, ProTypes
  <1>2. socket' \in Pro!Sockets /\ socket'.first = socket.first /\ socket.sent \subseteq socket'.sent
    BY <1>1 DEF Pro!Sockets
  <1>3. ProTypes'
    BY <1>1, <1>2 DEF ProTypes
  <1>4. FirstAlone' /\ MoreAlone'
    BY <1>1 DEF FirstAlone, MoreAlone, Pro!Busy, Pro!Of
  <1>5. socket' # None
    BY <1>2 DEF Pro!ProAssumption
  <1>6. Pro!ShowsTheChosen'
    BY <1>1, <1>2, <1>5 DEF Pro!ShowsTheChosen, Pro!Of
  <1> QED
    BY <1>3, <1>4, <1>6

\* A subscription leaves a socket that sends the ticker, now or first.
LEMMA Subscribed ==
    ASSUME NEW s \in Tickers, socket \in {None} \cup Pro!Sockets, None \notin Pro!Sockets,
           Pro!Subscribe(s)
    PROVE  /\ socket' \in Pro!Sockets /\ socket' # None
           /\ s \in socket'.sent \/ s = socket'.first
  <1>1. CASE socket = None \/ socket.market # MarketOf[s]
    <2>1. socket' = [market |-> MarketOf[s], open |-> FALSE, first |-> s, sent |-> {}]
      BY <1>1 DEF Pro!Subscribe
    <2>2. MarketOf[s] \in {MarketOf[t] : t \in Tickers}
      OBVIOUS
    <2>3. socket' \in Pro!Sockets /\ s = socket'.first
      BY <2>1, <2>2 DEF Pro!Sockets
    <2> QED
      BY <2>3
  <1>2. CASE ~(socket = None \/ socket.market # MarketOf[s])
    <2>1. socket' = [socket EXCEPT !.sent = @ \cup {s}] /\ socket \in Pro!Sockets
      BY <1>2 DEF Pro!Subscribe
    <2>2. socket' \in Pro!Sockets /\ s \in socket'.sent
      BY <2>1 DEF Pro!Sockets
    <2> QED
      BY <2>2
  <1> QED
    BY <1>1, <1>2

LEMMA FirstPageKeepsPages ==
    ASSUME Pro!ProAssumption, PageInv, NEW i \in DOMAIN reqs, Pro!FirstPage(i)
    PROVE  PageInv'
  <1> USE DEF PageInv
  <1>1. /\ i \in Pro!Busy("first") /\ reqs' = [reqs EXCEPT ![i].done = TRUE]
        /\ asking' = FALSE /\ UNCHANGED <<symbolOf, periodOf, alive, crossed, changes>>
        /\ shown' \in {[of |-> {reqs[i].of}, first |-> reqs[i].from, more |-> TRUE],
                       [of |-> {}, first |-> Now, more |-> FALSE]}
    BY DEF Pro!FirstPage
  <1>2. reqs[i] \in PageRequests
    BY DEF ProTypes
  <1>3. reqs[i].of \in Tickers \X Spans /\ reqs[i].from \in Int
    BY <1>2 DEF PageRequests
  <1>4. shown' \in [of : SUBSET (Tickers \X Spans), first : Int, more : BOOLEAN]
    <2>1. Now \in Int
      BY DEF Pro!ProAssumption
    <2>2. {reqs[i].of} \in SUBSET (Tickers \X Spans) /\ {} \in SUBSET (Tickers \X Spans)
      BY <1>3
    <2>3. CASE shown' = [of |-> {reqs[i].of}, first |-> reqs[i].from, more |-> TRUE]
      BY <1>3, <2>2, <2>3
    <2>4. CASE shown' = [of |-> {}, first |-> Now, more |-> FALSE]
      BY <2>1, <2>2, <2>4
    <2> QED
      BY <1>1, <2>3, <2>4
  <1>5. shown'.of \subseteq {reqs[i].of}
    BY <1>1
  <1>6. /\ reqs' \in Seq(PageRequests)
        /\ Pro!Busy("first")' = Pro!Busy("first") \ {i}
        /\ Pro!Busy("more")' = Pro!Busy("more") \ {i}
    BY <1>1, Ended DEF ProTypes
  <1>7. alive /\ ~crossed => Pro!Busy("first")' = {} /\ Pro!Busy("more")' = {}
                               /\ reqs[i].of = Pro!Of
    BY <1>1, <1>6 DEF FirstAlone
  <1>8. FirstAlone' /\ MoreAlone'
    BY <1>1, <1>7 DEF FirstAlone, MoreAlone
  <1> DEFINE s == reqs[i].of[1]
  <1>9. s \in Tickers
    BY <1>3
  <1>10. None \notin Pro!Sockets
    BY DEF Pro!ProAssumption
  <1>11. CASE Pro!CanSubscribe(s)
    <2>1. Pro!Subscribe(s) /\ loadingPage' = FALSE /\ picture' = FALSE
      BY <1>11 DEF Pro!FirstPage
    <2>2. /\ socket' \in Pro!Sockets /\ socket' # None
          /\ s \in socket'.sent \/ s = socket'.first
      BY <1>9, <1>10, <2>1, Subscribed DEF ProTypes
    <2>3. ProTypes'
      BY <1>1, <1>4, <1>6, <2>1, <2>2 DEF ProTypes
    <2>4. Pro!ShowsTheChosen'
      <3> SUFFICES ASSUME alive', ~crossed' PROVE Pro!ShowsTheChosen'
        BY DEF Pro!ShowsTheChosen
      <3>1. reqs[i].of = <<symbolOf, periodOf>>
        BY <1>1, <1>7 DEF Pro!Of
      <3>2. s = symbolOf' /\ shown'.of \subseteq {Pro!Of'}
        BY <3>1, <1>1, <1>5 DEF Pro!Of
      <3> QED
        BY <3>2, <2>2 DEF Pro!ShowsTheChosen
    <2> QED
      BY <1>8, <2>3, <2>4
  <1>12. CASE ~Pro!CanSubscribe(s)
    <2>1. UNCHANGED <<socket, loadingPage, picture>>
      BY <1>12 DEF Pro!FirstPage
    <2>2. ProTypes'
      BY <1>1, <1>4, <1>6, <2>1 DEF ProTypes
    <2>3. alive /\ ~crossed => picture
      BY <1>1 DEF FirstAlone
    <2>4. Pro!ShowsTheChosen'
      BY <1>1, <2>1, <2>3 DEF Pro!ShowsTheChosen
    <2> QED
      BY <1>8, <2>2, <2>4
  <1> QED
    BY <1>11, <1>12

LEMMA LoadMoreKeepsPages ==
    ASSUME Pro!ProAssumption, PageInv, Pro!LoadMore PROVE PageInv'
  <1> USE DEF PageInv
  <1> DEFINE range == Pro!Older(periodOf, shown.first)
             q == Pro!Request("more", Pro!Of, range)
  <1>1. /\ ~asking /\ asking' = TRUE /\ loadingPage' = TRUE /\ reqs' = Append(reqs, q)
        /\ crossed' = (crossed \/ Pro!Busy("first") # {})
        /\ UNCHANGED <<symbolOf, periodOf, alive, picture, shown, socket, changes>>
    BY DEF Pro!LoadMore
  <1>2. range.from \in Int /\ range.to \in Int
    <2>1. periodOf \in Nat \ {0} /\ Count \in Nat \ {0} /\ shown.first \in Int
      BY DEF ProTypes, Pro!ProAssumption
    <2> QED
      BY <2>1, OlderEnds
  <1>3. q = [kind |-> "more", of |-> Pro!Of, from |-> range.from, to |-> range.to,
             done |-> FALSE]
    BY DEF Pro!Request
  <1> HIDE DEF q
  <1>4. Pro!Of \in Tickers \X Spans
    BY DEF ProTypes, Pro!Of
  <1>5. /\ q \in PageRequests /\ q.kind = "more" /\ q.of = Pro!Of /\ q.done = FALSE
        /\ q.from = range.from /\ q.to = range.to
    <2> HIDE DEF range
    <2> QED
      BY <1>2, <1>3, <1>4 DEF PageRequests
  <1>6. /\ reqs' \in Seq(PageRequests)
        /\ reqs'[Len(reqs) + 1] = q
        /\ Pro!Busy("first")' = Pro!Busy("first")
        /\ Pro!Busy("more")' = Pro!Busy("more") \cup {Len(reqs) + 1}
    BY <1>1, <1>5, Requested DEF ProTypes
  <1>7. ProTypes'
    <2>1. crossed' \in BOOLEAN
      BY <1>1 DEF ProTypes
    <2> QED
      BY <1>1, <1>6, <2>1 DEF ProTypes
  <1>8. Pro!ShowsTheChosen'
    BY <1>1 DEF Pro!ShowsTheChosen, Pro!Of
  <1>9. ASSUME alive', ~crossed' PROVE Pro!Busy("first") = {} /\ Pro!Busy("more") = {}
    BY <1>1, <1>9 DEF MoreAlone
  <1>10. FirstAlone'
    BY <1>6, <1>9 DEF FirstAlone
  <1>11. Pro!Of' = Pro!Of /\ Pro!Older(periodOf, shown.first)' = range
    BY <1>1 DEF Pro!Of
  <1>12. MoreAlone'
    <2> HIDE DEF range
    <2> QED
      BY <1>1, <1>5, <1>6, <1>9, <1>11 DEF MoreAlone
  <1> QED
    BY <1>7, <1>8, <1>10, <1>12

LEMMA MorePageKeepsPages ==
    ASSUME PageInv, NEW i \in DOMAIN reqs, Pro!MorePage(i) PROVE PageInv'
  <1> USE DEF PageInv
  <1>1. /\ i \in Pro!Busy("more") /\ reqs' = [reqs EXCEPT ![i].done = TRUE]
        /\ asking' = FALSE /\ loadingPage' = FALSE
        /\ shown' = [of |-> shown.of \cup {reqs[i].of}, first |-> reqs[i].from, more |-> TRUE]
              \/ shown' = [shown EXCEPT !.more = FALSE]
        /\ UNCHANGED <<symbolOf, periodOf, alive, picture, crossed, socket, changes>>
    BY DEF Pro!MorePage
  <1>2. reqs[i].of \in Tickers \X Spans /\ reqs[i].from \in Int
    <2>1. reqs[i] \in PageRequests
      BY DEF ProTypes
    <2> QED
      BY <2>1 DEF PageRequests
  <1>3. /\ shown' \in [of : SUBSET (Tickers \X Spans), first : Int, more : BOOLEAN]
        /\ shown'.of \subseteq shown.of \cup {reqs[i].of}
    <2>1. shown \in [of : SUBSET (Tickers \X Spans), first : Int, more : BOOLEAN]
      BY DEF ProTypes
    <2>2. CASE shown' = [of |-> shown.of \cup {reqs[i].of}, first |-> reqs[i].from,
                         more |-> TRUE]
      <3>1. shown.of \cup {reqs[i].of} \in SUBSET (Tickers \X Spans)
        BY <1>2, <2>1
      <3> QED
        BY <1>2, <2>2, <3>1
    <2>3. CASE shown' = [shown EXCEPT !.more = FALSE]
      BY <2>1, <2>3
    <2> QED
      BY <1>1, <2>2, <2>3
  <1>4. /\ reqs' \in Seq(PageRequests)
        /\ Pro!Busy("first")' = Pro!Busy("first") \ {i}
        /\ Pro!Busy("more")' = Pro!Busy("more") \ {i}
    BY <1>1, Ended DEF ProTypes
  <1>5. ProTypes'
    BY <1>1, <1>3, <1>4 DEF ProTypes
  <1>6. alive /\ ~crossed => /\ Pro!Busy("first")' = {} /\ Pro!Busy("more")' = {}
                             /\ reqs[i].of = Pro!Of
    BY <1>1, <1>4 DEF FirstAlone, MoreAlone
  <1>7. FirstAlone' /\ MoreAlone'
    BY <1>1, <1>6 DEF FirstAlone, MoreAlone
  <1>8. Pro!ShowsTheChosen'
    BY <1>1, <1>3, <1>6 DEF Pro!ShowsTheChosen, Pro!Of
  <1> QED
    BY <1>5, <1>7, <1>8

LEMMA PageFailsKeepsPages ==
    ASSUME PageInv, NEW i \in DOMAIN reqs, Pro!PageFails(i) PROVE PageInv'
  <1> USE DEF PageInv
  <1>1. /\ reqs' = [reqs EXCEPT ![i].done = TRUE]
        /\ UNCHANGED <<symbolOf, periodOf, alive, loadingPage, picture, crossed, shown,
                       asking, socket, changes>>
    BY DEF Pro!PageFails
  <1>2. /\ reqs' \in Seq(PageRequests)
        /\ \A j \in DOMAIN reqs : reqs'[j].of = reqs[j].of /\ reqs'[j].from = reqs[j].from
                                  /\ reqs'[j].to = reqs[j].to
        /\ Pro!Busy("first")' = Pro!Busy("first") \ {i}
        /\ Pro!Busy("more")' = Pro!Busy("more") \ {i}
    BY <1>1, Ended DEF ProTypes
  <1>3. ProTypes'
    BY <1>1, <1>2 DEF ProTypes
  <1>4. \A kind : Pro!Busy(kind) \subseteq DOMAIN reqs
    BY DEF Pro!Busy
  <1>5. Pro!Of' = Pro!Of /\ Pro!Older(periodOf, shown.first)' = Pro!Older(periodOf, shown.first)
    BY <1>1 DEF Pro!Of
  <1>6. FirstAlone'
    BY <1>1, <1>2, <1>4, <1>5 DEF FirstAlone
  <1>7. MoreAlone'
    BY <1>1, <1>2, <1>4, <1>5 DEF MoreAlone
  <1>8. Pro!ShowsTheChosen'
    BY <1>1 DEF Pro!ShowsTheChosen, Pro!Of
  <1> QED
    BY <1>3, <1>6, <1>7, <1>8

LEMMA ElseKeepsPages ==
    ASSUME PageInv, changes' \in Nat, UNCHANGED Pro!data PROVE PageInv'
  <1>1. ProTypes' /\ Pro!ShowsTheChosen'
    BY DEF PageInv, ProTypes, Pro!data, Pro!ShowsTheChosen, Pro!Of
  <1>2. FirstAlone' /\ MoreAlone'
    BY DEF PageInv, FirstAlone, MoreAlone, Pro!data, Pro!Busy, Pro!Of
  <1> QED
    BY <1>1, <1>2 DEF PageInv

LEMMA PageStep == Pro!ProAssumption /\ PageInv /\ [Pro!Next]_(Pro!vars) => PageInv'
  <1> SUFFICES ASSUME Pro!ProAssumption, PageInv, [Pro!Next]_(Pro!vars) PROVE PageInv'
    OBVIOUS
  <1>1. ASSUME NEW s \in Tickers, NEW p \in Spans, Pro!Choose(s, p) PROVE PageInv'
    BY <1>1, ChooseKeepsPages
  <1>2. CASE Pro!SocketOpens
    BY <1>2, SocketKeepsPages
  <1>3. CASE Pro!LoadMore
    BY <1>3, LoadMoreKeepsPages
  <1>4. ASSUME NEW i \in DOMAIN reqs, Pro!FirstPage(i) \/ Pro!MorePage(i) \/ Pro!PageFails(i)
        PROVE  PageInv'
    BY <1>4, FirstPageKeepsPages, MorePageKeepsPages, PageFailsKeepsPages
  <1>5. changes \in Nat
    BY DEF PageInv, ProTypes
  <1>6. ASSUME NEW n, Pro!MainIndicatorChange(n) \/ Pro!SubIndicatorChange(n)
                      \/ Pro!TooltipClose(n)
        PROVE  PageInv'
    BY <1>5, <1>6, ElseKeepsPages
       DEF Pro!MainIndicatorChange, Pro!SubIndicatorChange, Pro!TooltipClose, Pro!Changed
  <1>7. CASE UNCHANGED Pro!vars
    BY <1>5, <1>7, ElseKeepsPages DEF Pro!vars
  <1> QED
    BY <1>1, <1>2, <1>3, <1>4, <1>6, <1>7 DEF Pro!Next

\* The older page on its way joins the bars there are.
LEMMA PagesImply == Pro!ProAssumption /\ PageInv => Pro!ShowsTheChosen /\ Pro!OlderIsOlder
  <1> SUFFICES ASSUME Pro!ProAssumption, PageInv, alive, ~crossed,
                      NEW i \in Pro!Busy("more")
               PROVE  /\ reqs[i].from < reqs[i].to
                      /\ reqs[i].to < shown.first
                      /\ shown.first - reqs[i].to < periodOf + Pro!Unit(periodOf)
    BY DEF PageInv, Pro!OlderIsOlder
  <1>1. periodOf \in Nat \ {0} /\ Count \in Nat \ {0} /\ shown.first \in Int
    BY DEF PageInv, ProTypes, Pro!ProAssumption
  <1>2. /\ reqs[i].from = Pro!Older(periodOf, shown.first).from
        /\ reqs[i].to = Pro!Older(periodOf, shown.first).to
    BY DEF PageInv, MoreAlone
  <1> QED
    BY <1>1, <1>2, OlderEnds

-----------------------------------------------------------------------------
(* The lists of the toolbar chart.                                         *)

\* The instance counts as this module does.
LEMMA SameCount ==
    ASSUME NEW S
    PROVE  Pro!Cardinality(S) = Cardinality(S) /\ (Pro!IsFiniteSet(S) <=> IsFiniteSet(S))
  BY DEF Pro!Cardinality, Cardinality, Pro!IsFiniteSet, IsFiniteSet

LEMMA ListInit == Pro!ProAssumption /\ Pro!Init => ListInv
  <1> SUFFICES ASSUME Pro!ProAssumption, Pro!Init PROVE ListInv
    OBVIOUS
  <1>1. PICK S \in SUBSET SubNames : sub \in [S -> 1..Cardinality(SubNames)]
    BY SameCount DEF Pro!Init
  <1>2. Cardinality(SubNames) \in Nat
    BY FS_CardinalityType, SameCount DEF Pro!ProAssumption
  <1>3. DOMAIN sub = S /\ \A n \in S : sub[n] \in Nat \ {0}
    BY <1>1, <1>2
  <1>4. IsFiniteSet(main) /\ IsFiniteSet(S)
    BY FS_Subset, SameCount DEF Pro!Init, Pro!ProAssumption
  <1> DEFINE onMain == {[pane |-> 0, name |-> n] : n \in main}
             onSub == {[pane |-> sub[n], name |-> n] : n \in DOMAIN sub}
  <1>5. IsFiniteSet(onMain)
    <2> DEFINE f == [n \in main |-> [pane |-> 0, name |-> n]]
    <2>1. f \in Surjection(main, onMain)
      BY DEF Surjection
    <2> HIDE DEF f, onMain
    <2> QED
      BY <1>4, <2>1, FS_Surjection
  <1>6. IsFiniteSet(onSub)
    <2> DEFINE f == [n \in S |-> [pane |-> sub[n], name |-> n]]
    <2>1. f \in Surjection(S, onSub)
      BY <1>3 DEF Surjection
    <2> HIDE DEF f, onSub
    <2> QED
      BY <1>4, <2>1, FS_Surjection
  <1>7. drawn = onMain \cup onSub
    BY DEF Pro!Init
  <1>8. IsFiniteSet(drawn)
    <2> HIDE DEF onMain, onSub
    <2> QED
      BY <1>5, <1>6, <1>7, FS_Union
  <1> QED
    BY <1>3, <1>7, <1>8 DEF ListInv, Pro!ListsWhatIsDrawn, Pro!Init

LEMMA ElseKeepsLists == ListInv /\ UNCHANGED <<main, sub, drawn, changes>> => ListInv'
  BY DEF ListInv, Pro!ListsWhatIsDrawn

\* An added entry and a removed one leave the drawn ones finite.
LEMMA DrawnStayFinite ==
    ASSUME IsFiniteSet(drawn), NEW d, drawn' = drawn \cup {d} \/ drawn' = drawn \ {d}
    PROVE  IsFiniteSet(drawn')
  BY FS_AddElement, FS_RemoveElement

LEMMA MainKeepsLists ==
    ASSUME ListInv, NEW n, Pro!MainIndicatorChange(n) PROVE ListInv'
  <1> USE DEF ListInv, Pro!ListsWhatIsDrawn
  <1>1. sub' = sub /\ changes' = changes + 1
    BY DEF Pro!MainIndicatorChange, Pro!Changed
  <1>2. IsFiniteSet(drawn')
    BY DrawnStayFinite DEF Pro!MainIndicatorChange
  <1>3. CASE n \notin main
    <2>1. drawn' = drawn \cup {[pane |-> 0, name |-> n]} /\ main' = main \cup {n}
      BY <1>3 DEF Pro!MainIndicatorChange
    <2> QED
      BY <1>1, <1>2, <2>1
  <1>4. CASE n \in main
    <2>1. drawn' = drawn \ {[pane |-> 0, name |-> n]} /\ main' = main \ {n}
      BY <1>4 DEF Pro!MainIndicatorChange
    <2> QED
      BY <1>1, <1>2, <2>1
  <1> QED
    BY <1>3, <1>4

\* The entries of a list of panes without one of its names.
LEMMA SubWithout ==
    ASSUME ListInv, NEW n \in DOMAIN sub, UNCHANGED main,
           sub' = [m \in DOMAIN sub \ {n} |-> sub[m]],
           drawn' = drawn \ {[pane |-> sub[n], name |-> n]}
    PROVE  Pro!ListsWhatIsDrawn' /\ \A m \in DOMAIN sub' : sub'[m] \in Nat \ {0}
  BY DEF ListInv, Pro!ListsWhatIsDrawn

LEMMA SubKeepsLists ==
    ASSUME ListInv, NEW n, Pro!SubIndicatorChange(n) PROVE ListInv'
  <1>1. main' = main /\ changes' = changes + 1
    BY DEF Pro!SubIndicatorChange, Pro!Changed
  <1>2. IsFiniteSet(drawn')
    BY DrawnStayFinite DEF Pro!SubIndicatorChange, ListInv
  <1>3. CASE n \in DOMAIN sub
    <2>1. /\ drawn' = drawn \ {[pane |-> sub[n], name |-> n]}
          /\ sub' = [m \in DOMAIN sub \ {n} |-> sub[m]]
      BY <1>3 DEF Pro!SubIndicatorChange
    <2>2. Pro!ListsWhatIsDrawn' /\ \A m \in DOMAIN sub' : sub'[m] \in Nat \ {0}
      BY <1>1, <1>3, <2>1, SubWithout
    <2> QED
      BY <1>1, <1>2, <2>2 DEF ListInv
  <1>4. CASE n \notin DOMAIN sub
    <2> DEFINE pane == Pro!NewPane
    <2>1. pane \in Nat \ {0}
      BY FS_CardinalityType, SameCount DEF ListInv, Pro!NewPane
    <2>2. /\ drawn' = drawn \cup {[pane |-> pane, name |-> n]}
          /\ sub' = [m \in DOMAIN sub \cup {n} |-> IF m = n THEN pane ELSE sub[m]]
      BY <1>4 DEF Pro!SubIndicatorChange
    <2> HIDE DEF pane
    <2>3. /\ DOMAIN sub' = DOMAIN sub \cup {n} /\ sub'[n] = pane
          /\ \A m \in DOMAIN sub : sub'[m] = sub[m]
      BY <1>4, <2>2
    <2>4. {[pane |-> sub'[m], name |-> m] : m \in DOMAIN sub'}
            = {[pane |-> sub[m], name |-> m] : m \in DOMAIN sub}
                  \cup {[pane |-> pane, name |-> n]}
      BY <2>3
    <2>5. Pro!ListsWhatIsDrawn'
      BY <1>1, <2>2, <2>4 DEF ListInv, Pro!ListsWhatIsDrawn
    <2> QED
      BY <1>1, <1>2, <2>1, <2>3, <2>5 DEF ListInv
  <1> QED
    BY <1>3, <1>4

LEMMA CloseKeepsLists ==
    ASSUME ListInv, NEW d \in drawn, Pro!TooltipClose(d) PROVE ListInv'
  <1>1. changes' = changes + 1 /\ drawn' = drawn \ {d}
    BY DEF Pro!TooltipClose, Pro!Changed
  <1>2. IsFiniteSet(drawn')
    BY <1>1, DrawnStayFinite DEF ListInv
  <1>3. CASE d.pane = 0
    <2>1. main' = main \ {d.name} /\ sub' = sub
      BY <1>3 DEF Pro!TooltipClose
    <2>2. d.name \in main /\ d = [pane |-> 0, name |-> d.name]
      BY <1>3 DEF ListInv, Pro!ListsWhatIsDrawn
    <2>3. Pro!ListsWhatIsDrawn'
      BY <1>1, <2>1, <2>2 DEF ListInv, Pro!ListsWhatIsDrawn
    <2> QED
      BY <1>1, <1>2, <2>1, <2>3 DEF ListInv
  <1>4. CASE d.pane # 0
    <2>1. main' = main /\ sub' = [m \in DOMAIN sub \ {d.name} |-> sub[m]]
      BY <1>4 DEF Pro!TooltipClose
    <2>2. d.name \in DOMAIN sub /\ d = [pane |-> sub[d.name], name |-> d.name]
      BY <1>4 DEF ListInv, Pro!ListsWhatIsDrawn
    <2>3. Pro!ListsWhatIsDrawn' /\ \A m \in DOMAIN sub' : sub'[m] \in Nat \ {0}
      BY <1>1, <2>1, <2>2, SubWithout
    <2> QED
      BY <1>1, <1>2, <2>3 DEF ListInv
  <1> QED
    BY <1>3, <1>4

LEMMA ListStep == ListInv /\ [Pro!Next]_(Pro!vars) => ListInv'
  <1> SUFFICES ASSUME ListInv, [Pro!Next]_(Pro!vars) PROVE ListInv'
    OBVIOUS
  <1>1. ASSUME NEW s, NEW p, Pro!Choose(s, p) PROVE ListInv'
    <2>1. changes' \in Nat /\ UNCHANGED <<main, sub, drawn>>
      BY <1>1 DEF Pro!Choose, Pro!Changed, Pro!lists, ListInv
    <2> QED
      BY <2>1 DEF ListInv, Pro!ListsWhatIsDrawn
  <1>2. CASE Pro!SocketOpens \/ Pro!LoadMore
    BY <1>2, ElseKeepsLists DEF Pro!SocketOpens, Pro!LoadMore, Pro!lists
  <1>3. ASSUME NEW i, Pro!FirstPage(i) \/ Pro!MorePage(i) \/ Pro!PageFails(i)
        PROVE  ListInv'
    BY <1>3, ElseKeepsLists DEF Pro!FirstPage, Pro!MorePage, Pro!PageFails, Pro!lists
  <1>4. ASSUME NEW n, Pro!MainIndicatorChange(n) \/ Pro!SubIndicatorChange(n) PROVE ListInv'
    BY <1>4, MainKeepsLists, SubKeepsLists
  <1>5. ASSUME NEW d \in drawn, Pro!TooltipClose(d) PROVE ListInv'
    BY <1>5, CloseKeepsLists
  <1>6. CASE UNCHANGED Pro!vars
    BY <1>6, ElseKeepsLists DEF Pro!vars, Pro!lists
  <1> QED
    BY <1>1, <1>2, <1>3, <1>4, <1>5, <1>6 DEF Pro!Next

\* Once the loading picture is gone the toolbar chart shows the symbol and
\* period chosen last, unless a choice met the loading flag or an older page
\* was asked for beside a first one; older pages join the bars, and the lists
\* name the indicators the chart draws (ChartProComponent, DefaultDatafeed).
THEOREM ToolbarIsTrue == Spec => []ProSound
  <1> DEFINE Inv == part = "pro" => PageInv /\ ListInv
  <1>1. Pro!ProAssumption
    BY ConstantsAssumption
  <1>2. Init => Inv
    BY <1>1, PageInit, ListInit DEF Init
  <1>3. Inv /\ [Next]_vars => Inv'
    <2> SUFFICES ASSUME Inv, [Next]_vars, part' = "pro" PROVE (PageInv /\ ListInv)'
      OBVIOUS
    <2>1. part = "pro" /\ [Pro!Next]_(Pro!vars)
      BY DEF Next, InData, InTasks, InLayout, InPro, InStudy, vars, proVars, Pro!vars, Pro!data, Pro!lists
    <2> QED
      BY <1>1, <2>1, PageStep, ListStep
  <1>4. Inv => ProSound
    BY <1>1, PagesImply DEF ProSound, Pro!ProSound, ListInv
  <1> QED
    BY <1>2, <1>3, <1>4, PTL DEF Spec

-----------------------------------------------------------------------------
(* From a change to the screen (ChartTasks).                               *)

Calculations == [id : Studies, data : Nat, params : {0, 1}, batch : {"run", "hold", "alone"}]

TaskTypes ==
    /\ data \in Nat /\ stage \in [Studies -> {"new", "shown", "removed"}]
    /\ params \in [Studies -> {0, 1}] /\ look \in [Studies -> {0, 1}]
    /\ DOMAIN result = Studies
    /\ calcs \in Seq(Calculations)
    /\ running \in BOOLEAN /\ holding \in BOOLEAN /\ dropped \in BOOLEAN
    /\ pending \in {"no", "queued", "stuck"}

\* A calculation belongs to the batch that runs or to the one held behind it,
\* or to neither once a newer one took its place.
Batched ==
    /\ holding => running
    /\ \A k \in DOMAIN calcs :
          /\ calcs[k].batch = "run" => running
          /\ calcs[k].batch = "hold" => holding
          /\ calcs[k].batch = "alone" => calcs[k].id \in overtaken

\* Synchronous calculations settle in order: one whose place was taken
\* settles before the one that took it.
ReplacedFirst ==
    \A k \in DOMAIN calcs : calcs[k].batch = "alone" /\ calcs[k].id \notin Async =>
        \E j \in DOMAIN calcs :
            j > k /\ calcs[j].id = calcs[k].id /\ calcs[j].batch # "alone"

\* The last of an indicator's calculations is of the newest data and
\* parameters, or its result is.
Youngest(k) == \A j \in DOMAIN calcs : j > k => calcs[j].id # calcs[k].id
YoungestIsNewest ==
    \A k \in DOMAIN calcs : Youngest(k) /\ calcs[k].id \in Tasks!Shown \ Async =>
        calcs[k].data = data /\ calcs[k].params = params[calcs[k].id]
SettledIsNewest ==
    \A i \in Tasks!Shown \ (Async \cup failed) :
        (\A k \in DOMAIN calcs : calcs[k].id # i) => result[i] = <<data, params[i]>>

\* A layout that is asked for paints; whoever changed what is painted has
\* asked for one, or runs in a batch that will.
Queued == pending = "stuck" \/ (pending = "queued" /\ "update" \in options)
Repaints == running \/ Queued
PaintComes ==
    /\ pending = "queued" => "update" \in options
    /\ Repaints \/ painted.data = data
    /\ Queued \/ DOMAIN painted.looks = Tasks!Shown
    /\ \A i \in Tasks!Shown :
          Repaints \/ i \in overtaken \cap Async \/ painted.looks[i] = <<result[i], look[i]>>
    /\ \/ dropped \/ ticks = format \/ pending = "stuck"
       \/ pending = "queued" /\ {"build", "force"} \subseteq options

CalcInv == Batched /\ ReplacedFirst /\ YoungestIsNewest /\ SettledIsNewest
TaskInv == TaskTypes /\ CalcInv /\ PaintComes

-----------------------------------------------------------------------------
(* What the list of calculations becomes.                                  *)

LEMMA Joined ==
    ASSUME NEW S, NEW s \in Seq(S), NEW t \in Seq(S)
    PROVE  /\ s \o t \in Seq(S) /\ Len(s \o t) = Len(s) + Len(t)
           /\ Len(s) \in Nat /\ Len(t) \in Nat
           /\ DOMAIN s = 1..Len(s) /\ DOMAIN (s \o t) = 1..(Len(s) + Len(t))
           /\ \A j \in 1..Len(s) : (s \o t)[j] = s[j]
           /\ \A j \in 1..Len(t) : (s \o t)[j + Len(s)] = t[j]
  <1>1. s \o t \in Seq(S) /\ Len(s \o t) = Len(s) + Len(t) /\ Len(s) \in Nat /\ Len(t) \in Nat
    OBVIOUS
  <1>2. DOMAIN s = 1..Len(s) /\ DOMAIN (s \o t) = 1..(Len(s) + Len(t))
    BY <1>1
  <1>3. \A j \in 1..Len(s) : (s \o t)[j] = s[j]
    BY <1>1
  <1>4. \A j \in 1..Len(t) : (s \o t)[j + Len(s)] = t[j]
    BY <1>1
  <1> QED
    BY <1>1, <1>2, <1>3, <1>4

\* The places behind the one taken away move up.
LEMMA Removed ==
    ASSUME NEW S, NEW s \in Seq(S), NEW k \in DOMAIN s
    PROVE  LET t == Tasks!RemoveAt(s, k)
           IN  /\ t \in Seq(S) /\ Len(t) = Len(s) - 1
               /\ DOMAIN s = 1..Len(s) /\ DOMAIN t = 1..(Len(s) - 1)
               /\ \A j \in DOMAIN t : t[j] = IF j < k THEN s[j] ELSE s[j + 1]
  <1> DEFINE head == SubSeq(s, 1, k - 1)
             tail == SubSeq(s, k + 1, Len(s))
  <1>1. Len(s) \in Nat /\ k \in 1..Len(s) /\ DOMAIN s = 1..Len(s)
    OBVIOUS
  <1>2. /\ head \in Seq(S) /\ Len(head) = k - 1
        /\ \A j \in 1..(k - 1) : head[j] = s[j]
    BY <1>1
  <1>3. /\ tail \in Seq(S) /\ Len(tail) = Len(s) - k
        /\ \A j \in 1..(Len(s) - k) : tail[j] = s[j + k]
    BY <1>1
  <1>4. Tasks!RemoveAt(s, k) = head \o tail
    BY DEF Tasks!RemoveAt
  <1> HIDE DEF head, tail
  <1>5. /\ head \o tail \in Seq(S) /\ Len(head \o tail) = Len(s) - 1
        /\ DOMAIN (head \o tail) = 1..(Len(s) - 1)
        /\ \A j \in 1..(k - 1) : (head \o tail)[j] = head[j]
        /\ \A j \in 1..(Len(s) - k) : (head \o tail)[j + (k - 1)] = tail[j]
    <2>1. k - 1 + (Len(s) - k) = Len(s) - 1
      BY <1>1
    <2>2. /\ head \o tail \in Seq(S) /\ Len(head \o tail) = Len(head) + Len(tail)
          /\ DOMAIN (head \o tail) = 1..(Len(head) + Len(tail))
          /\ \A j \in 1..Len(head) : (head \o tail)[j] = head[j]
          /\ \A j \in 1..Len(tail) : (head \o tail)[j + Len(head)] = tail[j]
      <3>1. head \in Seq(S) /\ tail \in Seq(S)
        BY <1>2, <1>3
      <3> QED
        BY <3>1, Joined
    <2> QED
      BY <1>2, <1>3, <2>1, <2>2, Zenon
  <1>6. ASSUME NEW j \in 1..(Len(s) - 1)
        PROVE  (head \o tail)[j] = IF j < k THEN s[j] ELSE s[j + 1]
    <2>1. CASE j < k
      <3>1. j \in 1..(k - 1)
        BY <1>1, <2>1
      <3> QED
        BY <1>2, <1>5, <2>1, <3>1
    <2>2. CASE ~(j < k)
      <3> DEFINE m == j - (k - 1)
      <3>1. m \in 1..(Len(s) - k) /\ m + k = j + 1 /\ m + (k - 1) = j
        BY <1>1, <2>2
      <3> HIDE DEF m
      <3>2. (head \o tail)[j] = tail[m] /\ tail[m] = s[j + 1]
        BY <1>3, <1>5, <3>1
      <3> QED
        BY <2>2, <3>2
    <2> QED
      BY <2>1, <2>2
  <1> QED
    BY <1>1, <1>4, <1>5, <1>6, Zenon

LEMMA SameTaskCount ==
    ASSUME NEW S
    PROVE  Tasks!Cardinality(S) = Cardinality(S) /\ (Tasks!IsFiniteSet(S) <=> IsFiniteSet(S))
  BY DEF Tasks!Cardinality, Cardinality, Tasks!IsFiniteSet, IsFiniteSet

\* SetToSeq names every element of a finite set, and nothing else.
LEMMA Listed ==
    ASSUME NEW S, IsFiniteSet(S)
    PROVE  LET s == Tasks!SetToSeq(S)
           IN  /\ Len(s) \in Nat /\ s \in [1..Len(s) -> S]
               /\ \A x \in S : \E k \in 1..Len(s) : s[k] = x
  <1> DEFINE n == Cardinality(S)
             good(f) == f \in [1..n -> S] /\ Tasks!IsInjective(f)
             s == Tasks!SetToSeq(S)
  <1>1. n \in Nat /\ ExistsBijection(1..n, S)
    BY FS_CardinalityType
  <1>2. PICK g \in Bijection(1..n, S) : TRUE
    BY <1>1 DEF ExistsBijection
  <1>3. good(g)
    BY <1>2 DEF Bijection, Injection, Surjection, IsInjective, Tasks!IsInjective
  <1>4. s = CHOOSE f \in [1..n -> S] : Tasks!IsInjective(f)
    BY SameTaskCount DEF Tasks!SetToSeq
  <1> HIDE DEF s, n
  <1>5. s \in [1..n -> S] /\ Tasks!IsInjective(s)
    BY <1>3, <1>4
  <1>6. s \in Injection(1..n, S)
    BY <1>5 DEF Injection, IsInjective, Tasks!IsInjective
  <1>7. IsFiniteSet(1..n) /\ Cardinality(1..n) = n
    BY <1>1, FS_Interval
  <1>8. s \in Surjection(1..n, S)
    BY <1>1, <1>2, <1>6, <1>7, FS_Injection DEF n
  <1>9. Len(s) = n
    BY <1>1, <1>5
  <1>10. \A x \in S : \E k \in 1..n : s[k] = x
    BY <1>8 DEF Surjection
  <1>11. Len(s) \in Nat /\ s \in [1..Len(s) -> S] /\ \A x \in S : \E k \in 1..Len(s) : s[k] = x
    BY <1>1, <1>5, <1>9, <1>10, Zenon
  <1> QED
    BY <1>11, Zenon DEF s

\* What _calcIndicator adds: the calculations there were go on, those held of
\* the same indicators by themselves, and each indicator has a new one behind
\* them, of the data and parameters given, in the batch that starts or waits.
Adds(ids, version, prm) ==
    /\ running' = TRUE /\ holding' \in BOOLEAN
    /\ (running \/ holding) => holding'
    /\ overtaken \subseteq overtaken'
    /\ calcs' \in Seq(Calculations)
    /\ DOMAIN calcs \subseteq DOMAIN calcs'
    /\ \A k \in DOMAIN calcs :
          /\ calcs'[k].id = calcs[k].id /\ calcs'[k].data = calcs[k].data
          /\ calcs'[k].params = calcs[k].params
          /\ \/ calcs'[k].batch = calcs[k].batch
             \/ calcs'[k].batch = "alone" /\ calcs[k].id \in ids \cap overtaken'
    /\ \A k \in DOMAIN calcs' \ DOMAIN calcs :
          /\ calcs'[k].id \in ids /\ calcs'[k].data = version
          /\ calcs'[k].params = prm[calcs'[k].id]
          /\ calcs'[k].batch = IF running THEN "hold" ELSE "run"
          /\ \A j \in DOMAIN calcs : k > j
    /\ \A i \in ids : \E k \in DOMAIN calcs' \ DOMAIN calcs : calcs'[k].id = i

LEMMA CalcAdds ==
    ASSUME TaskTypes, IsFiniteSet(Studies), NEW ids \in SUBSET Studies,
           NEW version \in Nat, NEW prm \in [Studies -> {0, 1}],
           Tasks!CalcIndicators(ids, version, prm)
    PROVE  Adds(ids, version, prm)
  <1> DEFINE queue == Tasks!SetToSeq(ids)
             new == [k \in 1..Len(queue) |->
                       [id |-> queue[k], data |-> version, params |-> prm[queue[k]],
                        batch |-> "hold"]]
             started == [k \in DOMAIN new |-> [new[k] EXCEPT !.batch = "run"]]
             left == [k \in DOMAIN calcs |->
                        IF calcs[k].batch = "hold" /\ calcs[k].id \in ids
                        THEN [calcs[k] EXCEPT !.batch = "alone"] ELSE calcs[k]]
             n == Len(queue)
  <1>1. Tasks!AddTasks(ids, new)
    BY DEF Tasks!CalcIndicators
  <1>2. IsFiniteSet(ids)
    BY FS_Subset
  <1>3. n \in Nat /\ queue \in [1..n -> ids] /\ \A x \in ids : \E k \in 1..n : queue[k] = x
    BY <1>2, Listed
  <1>4. calcs \in Seq(Calculations) /\ DOMAIN calcs = 1..Len(calcs) /\ Len(calcs) \in Nat
    BY DEF TaskTypes
  <1> HIDE DEF queue, n
  <1>5. \A k \in 1..n : queue[k] \in Studies /\ prm[queue[k]] \in {0, 1}
    BY <1>3
  <1>6. /\ new \in Seq(Calculations) /\ Len(new) = n /\ DOMAIN new = 1..n
        /\ \A k \in 1..n : /\ new[k].id = queue[k] /\ new[k].data = version
                           /\ new[k].params = prm[queue[k]] /\ new[k].batch = "hold"
    <2>1. new \in [1..n -> Calculations]
      BY <1>5 DEF Calculations, n
    <2> QED
      BY <1>3, <2>1 DEF n
  <1>7. /\ started \in Seq(Calculations) /\ Len(started) = n /\ DOMAIN started = 1..n
        /\ \A k \in 1..n : /\ started[k].id = queue[k] /\ started[k].data = version
                           /\ started[k].params = prm[queue[k]] /\ started[k].batch = "run"
    <2> HIDE DEF new
    <2>1. \A k \in 1..n : new[k] \in Calculations
      BY <1>6
    <2>2. started \in [1..n -> Calculations]
      BY <1>6, <2>1 DEF Calculations
    <2>3. \A k \in 1..n : /\ started[k].id = new[k].id /\ started[k].data = new[k].data
                          /\ started[k].params = new[k].params /\ started[k].batch = "run"
      BY <1>6, <2>1 DEF Calculations
    <2>4. started \in Seq(Calculations) /\ Len(started) = n
      <3> HIDE DEF started
      <3> QED
        BY <1>3, <2>2
    <2>5. DOMAIN started = 1..n
      BY <1>6
    <2> QED
      BY <1>6, <2>3, <2>4, <2>5, Zenon
  <1>8. /\ left \in Seq(Calculations) /\ Len(left) = Len(calcs) /\ DOMAIN left = DOMAIN calcs
        /\ \A k \in DOMAIN calcs :
              /\ left[k].id = calcs[k].id /\ left[k].data = calcs[k].data
              /\ left[k].params = calcs[k].params
              /\ \/ left[k].batch = calcs[k].batch
                 \/ /\ left[k].batch = "alone" /\ calcs[k].batch = "hold"
                    /\ calcs[k].id \in ids
    <2>1. \A k \in DOMAIN calcs : calcs[k] \in Calculations
      BY <1>4
    <2>2. left \in [1..Len(calcs) -> Calculations]
      BY <1>4, <2>1 DEF Calculations
    <2>3. \A k \in DOMAIN calcs :
              /\ left[k].id = calcs[k].id /\ left[k].data = calcs[k].data
              /\ left[k].params = calcs[k].params
              /\ \/ left[k].batch = calcs[k].batch
                 \/ /\ left[k].batch = "alone" /\ calcs[k].batch = "hold"
                    /\ calcs[k].id \in ids
      BY <2>1 DEF Calculations
    <2>4. left \in Seq(Calculations) /\ Len(left) = Len(calcs)
      BY <1>4, <2>2
    <2> QED
      BY <1>4, <2>3, <2>4
  <1>9. CASE ~running
    <2>1. /\ running' = TRUE /\ holding' = holding /\ overtaken' = overtaken
          /\ calcs' = calcs \o started
      BY <1>1, <1>9 DEF Tasks!AddTasks
    <2> HIDE DEF new, started, left
    <2>2. /\ calcs' \in Seq(Calculations) /\ DOMAIN calcs' = 1..(Len(calcs) + n)
          /\ \A k \in 1..Len(calcs) : calcs'[k] = calcs[k]
          /\ \A k \in 1..n : calcs'[k + Len(calcs)] = started[k]
      BY <1>4, <1>7, <2>1, Joined
    <2>3. \A k \in DOMAIN calcs' \ DOMAIN calcs :
             k - Len(calcs) \in 1..n /\ calcs'[k] = started[k - Len(calcs)]
      <3> SUFFICES ASSUME NEW k \in DOMAIN calcs' \ DOMAIN calcs
                   PROVE  k - Len(calcs) \in 1..n /\ calcs'[k] = started[k - Len(calcs)]
        OBVIOUS
      <3> DEFINE m == k - Len(calcs)
      <3>1. m \in 1..n /\ m + Len(calcs) = k
        BY <1>3, <1>4, <2>2
      <3> HIDE DEF m
      <3>2. calcs'[k] = started[m]
        BY <2>2, <3>1
      <3> QED
        BY <3>1, <3>2 DEF m
    <2>4. \A k \in DOMAIN calcs' \ DOMAIN calcs :
             /\ calcs'[k].id \in ids /\ calcs'[k].data = version
             /\ calcs'[k].params = prm[calcs'[k].id] /\ calcs'[k].batch = "run"
      BY <1>3, <1>7, <2>3
    <2>5. \A k \in DOMAIN calcs' \ DOMAIN calcs : \A j \in DOMAIN calcs : k > j
      BY <1>3, <1>4, <2>2
    <2>6. \A i \in ids : \E k \in DOMAIN calcs' \ DOMAIN calcs : calcs'[k].id = i
      <3> SUFFICES ASSUME NEW i \in ids
                   PROVE  \E k \in DOMAIN calcs' \ DOMAIN calcs : calcs'[k].id = i
        OBVIOUS
      <3>1. PICK m \in 1..n : queue[m] = i
        BY <1>3
      <3>2. m + Len(calcs) \in DOMAIN calcs' \ DOMAIN calcs
        BY <1>3, <1>4, <2>2
      <3> QED
        BY <1>7, <2>2, <3>1, <3>2
    <2>7. holding' \in BOOLEAN /\ (running \/ holding => holding')
      BY <1>9, <2>1, Zenon DEF TaskTypes
    <2>8. DOMAIN calcs \subseteq DOMAIN calcs'
      BY <1>3, <1>4, <2>2
    <2> QED
      BY <1>4, <1>9, <2>1, <2>2, <2>4, <2>5, <2>6, <2>7, <2>8 DEF Adds
  <1>10. CASE running
    <2>1. /\ running' = running /\ holding' = TRUE /\ calcs' = left \o new
          /\ overtaken' = overtaken \cup
                {c.id : c \in {calcs[k] : k \in {k \in DOMAIN calcs :
                                  calcs[k].batch = "hold" /\ calcs[k].id \in ids}}}
      BY <1>1, <1>10 DEF Tasks!AddTasks
    <2>2. /\ overtaken \subseteq overtaken'
          /\ \A k \in DOMAIN calcs :
                calcs[k].batch = "hold" /\ calcs[k].id \in ids => calcs[k].id \in overtaken'
      BY <2>1
    <2> HIDE DEF new, started, left
    <2>3. /\ calcs' \in Seq(Calculations) /\ DOMAIN calcs' = 1..(Len(calcs) + n)
          /\ \A k \in 1..Len(calcs) : calcs'[k] = left[k]
          /\ \A k \in 1..n : calcs'[k + Len(calcs)] = new[k]
      <3>1. /\ left \o new \in Seq(Calculations)
            /\ DOMAIN (left \o new) = 1..(Len(left) + Len(new))
            /\ \A k \in 1..Len(left) : (left \o new)[k] = left[k]
            /\ \A k \in 1..Len(new) : (left \o new)[k + Len(left)] = new[k]
        <4>1. left \in Seq(Calculations) /\ new \in Seq(Calculations)
          BY <1>6, <1>8
        <4> QED
          BY <4>1, Joined
      <3>2. Len(left) = Len(calcs) /\ Len(new) = n /\ calcs' = left \o new
        BY <1>6, <1>8, <2>1
      <3> QED
        BY <3>1, <3>2, Zenon
    <2>4. \A k \in DOMAIN calcs' \ DOMAIN calcs :
             k - Len(calcs) \in 1..n /\ calcs'[k] = new[k - Len(calcs)]
      <3> SUFFICES ASSUME NEW k \in DOMAIN calcs' \ DOMAIN calcs
                   PROVE  k - Len(calcs) \in 1..n /\ calcs'[k] = new[k - Len(calcs)]
        OBVIOUS
      <3> DEFINE m == k - Len(calcs)
      <3>1. m \in 1..n /\ m + Len(calcs) = k
        BY <1>3, <1>4, <2>3
      <3> HIDE DEF m
      <3>2. calcs'[k] = new[m]
        BY <2>3, <3>1
      <3> QED
        BY <3>1, <3>2 DEF m
    <2>5. \A k \in DOMAIN calcs' \ DOMAIN calcs :
             /\ calcs'[k].id \in ids /\ calcs'[k].data = version
             /\ calcs'[k].params = prm[calcs'[k].id] /\ calcs'[k].batch = "hold"
      BY <1>3, <1>6, <2>4
    <2>6. \A k \in DOMAIN calcs' \ DOMAIN calcs : \A j \in DOMAIN calcs : k > j
      BY <1>3, <1>4, <2>3
    <2>7. \A i \in ids : \E k \in DOMAIN calcs' \ DOMAIN calcs : calcs'[k].id = i
      <3> SUFFICES ASSUME NEW i \in ids
                   PROVE  \E k \in DOMAIN calcs' \ DOMAIN calcs : calcs'[k].id = i
        OBVIOUS
      <3>1. PICK m \in 1..n : queue[m] = i
        BY <1>3
      <3>2. m + Len(calcs) \in DOMAIN calcs' \ DOMAIN calcs
        BY <1>3, <1>4, <2>3
      <3> QED
        BY <1>6, <2>3, <3>1, <3>2
    <2>8. DOMAIN calcs \subseteq DOMAIN calcs'
      BY <1>3, <1>4, <2>3
    <2>9. \A k \in DOMAIN calcs :
              /\ calcs'[k].id = calcs[k].id /\ calcs'[k].data = calcs[k].data
              /\ calcs'[k].params = calcs[k].params
              /\ \/ calcs'[k].batch = calcs[k].batch
                 \/ calcs'[k].batch = "alone" /\ calcs[k].id \in ids \cap overtaken'
      BY <1>4, <1>8, <2>2, <2>3
    <2>10. holding' \in BOOLEAN /\ holding' /\ running' = TRUE
      BY <1>10, <2>1, Zenon DEF TaskTypes
    <2> QED
      BY <1>10, <2>2, <2>3, <2>5, <2>6, <2>7, <2>8, <2>9, <2>10 DEF Adds
  <1> QED
    BY <1>9, <1>10

-----------------------------------------------------------------------------
(* How the calculations stay in order.                                     *)

\* New calculations of what changed keep it, whatever else was running.
LEMMA AddsKeep ==
    ASSUME TaskTypes, CalcInv, NEW ids, Adds(ids, data', params'), ids # {},
           \A i \in Tasks!Shown' \ ids :
               i \in Tasks!Shown /\ data' = data /\ params'[i] = params[i],
           UNCHANGED <<result, failed>>
    PROVE  CalcInv'
  <1> USE DEF Adds
  <1>0. /\ \A k \in DOMAIN calcs : k \in Nat
        /\ \A k \in DOMAIN calcs' : k \in Nat
    BY DEF TaskTypes
  <1>1. Batched'
    <2>1. holding' => running'
      OBVIOUS
    <2>2. ASSUME NEW k \in DOMAIN calcs'
          PROVE  /\ calcs'[k].batch = "run" => running'
                 /\ calcs'[k].batch = "hold" => holding'
                 /\ calcs'[k].batch = "alone" => calcs'[k].id \in overtaken'
      <3>1. CASE k \in DOMAIN calcs
        BY <3>1 DEF CalcInv, Batched
      <3>2. CASE k \notin DOMAIN calcs
        BY <3>2
      <3> QED
        BY <3>1, <3>2
    <2> QED
      BY <2>1, <2>2 DEF Batched
  <1>2. ReplacedFirst'
    <2> SUFFICES ASSUME NEW k \in DOMAIN calcs',
                        calcs'[k].batch = "alone", calcs'[k].id \notin Async
                 PROVE  \E j \in DOMAIN calcs' :
                            /\ j > k /\ calcs'[j].id = calcs'[k].id
                            /\ calcs'[j].batch # "alone"
      BY DEF ReplacedFirst
    <2>1. k \in DOMAIN calcs
      OBVIOUS
    <2>2. CASE calcs[k].id \in ids
      <3>1. PICK j \in DOMAIN calcs' \ DOMAIN calcs : calcs'[j].id = calcs[k].id
        BY <2>2
      <3>2. calcs'[j].batch # "alone" /\ j > k
        BY <2>1, <3>1
      <3> QED
        BY <2>1, <3>1, <3>2
    <2>3. CASE calcs[k].id \notin ids
      <3>1. calcs[k].batch = "alone" /\ calcs[k].id \notin Async
        BY <2>1, <2>3
      <3>2. PICK j \in DOMAIN calcs :
                j > k /\ calcs[j].id = calcs[k].id /\ calcs[j].batch # "alone"
        BY <2>1, <3>1 DEF CalcInv, ReplacedFirst
      <3>3. calcs'[j].batch # "alone" /\ calcs'[j].id = calcs'[k].id /\ j \in DOMAIN calcs'
        BY <2>1, <2>3, <3>2
      <3> QED
        BY <3>2, <3>3
    <2> QED
      BY <2>2, <2>3
  <1>3. YoungestIsNewest'
    <2> SUFFICES ASSUME NEW k \in DOMAIN calcs', Youngest(k)',
                        calcs'[k].id \in Tasks!Shown' \ Async
                 PROVE  calcs'[k].data = data' /\ calcs'[k].params = params'[calcs'[k].id]
      BY DEF YoungestIsNewest
    <2>1. CASE k \notin DOMAIN calcs
      BY <2>1
    <2>2. CASE k \in DOMAIN calcs
      <3>1. calcs[k].id \notin ids
        <4> SUFFICES ASSUME calcs[k].id \in ids PROVE FALSE
          OBVIOUS
        <4>1. PICK j \in DOMAIN calcs' \ DOMAIN calcs : calcs'[j].id = calcs[k].id
          OBVIOUS
        <4>2. j > k
          BY <2>2, <4>1
        <4> QED
          BY <2>2, <4>1, <4>2 DEF Youngest
      <3>2. Youngest(k)
        BY <2>2 DEF Youngest
      <3> QED
        BY <2>2, <3>1, <3>2 DEF CalcInv, YoungestIsNewest
    <2> QED
      BY <2>1, <2>2
  <1>4. SettledIsNewest'
    <2> SUFFICES ASSUME NEW i \in Tasks!Shown' \ (Async \cup failed'),
                        \A k \in DOMAIN calcs' : calcs'[k].id # i
                 PROVE  result'[i] = <<data', params'[i]>>
      BY DEF SettledIsNewest
    <2>1. i \notin ids
      OBVIOUS
    <2>2. \A k \in DOMAIN calcs : calcs[k].id # i
      OBVIOUS
    <2> QED
      BY <2>1, <2>2 DEF CalcInv, SettledIsNewest
  <1> QED
    BY <1>1, <1>2, <1>3, <1>4 DEF CalcInv

\* Changes that start no calculation keep it.
LEMMA ElseKeepsCalcs ==
    ASSUME CalcInv, UNCHANGED <<data, params, result, failed, calcs, running, holding, overtaken>>,
           Tasks!Shown' \subseteq Tasks!Shown
    PROVE  CalcInv'
  <1>1. Batched' /\ ReplacedFirst'
    BY DEF CalcInv, Batched, ReplacedFirst
  <1>2. YoungestIsNewest'
    BY DEF CalcInv, YoungestIsNewest, Youngest
  <1>3. SettledIsNewest'
    BY DEF CalcInv, SettledIsNewest
  <1> QED
    BY <1>1, <1>2, <1>3 DEF CalcInv

\* Without indicators there is nothing to calculate for.
LEMMA NoneShownKeepsCalcs ==
    ASSUME CalcInv, UNCHANGED <<calcs, running, holding, overtaken>>, Tasks!Shown' = {}
    PROVE  CalcInv'
  <1>1. Batched' /\ ReplacedFirst'
    BY DEF CalcInv, Batched, ReplacedFirst
  <1>2. YoungestIsNewest' /\ SettledIsNewest'
    BY DEF YoungestIsNewest, SettledIsNewest
  <1> QED
    BY <1>1, <1>2 DEF CalcInv

\* A settled calculation is the first of the synchronous ones, or none of them:
\* if it is the last of its indicator, its result is the newest.
LEMMA SettleKeepsCalcs ==
    ASSUME TaskTypes, CalcInv, NEW k \in DOMAIN calcs, Tasks!Settle(k),
           \/ calcs[k].id \in Async
           \/ \A j \in 1..(k - 1) : calcs[j].id \in Async
    PROVE  CalcInv'
  <1> DEFINE old(j) == IF j < k THEN j ELSE j + 1
             c == calcs[k]
  <1>1. /\ calcs' = Tasks!RemoveAt(calcs, k)
        /\ UNCHANGED <<data, stage, params, running, holding, overtaken>>
        /\ failed' \subseteq failed \cup {c.id}
    BY DEF Tasks!Settle
  <1>2. /\ Len(calcs) \in Nat /\ DOMAIN calcs = 1..Len(calcs) /\ DOMAIN calcs' = 1..(Len(calcs) - 1)
        /\ \A j \in DOMAIN calcs' : calcs'[j] = IF j < k THEN calcs[j] ELSE calcs[j + 1]
    <2>1. calcs \in Seq(Calculations)
      BY DEF TaskTypes
    <2>2. /\ DOMAIN calcs = 1..Len(calcs) /\ DOMAIN calcs' = 1..(Len(calcs) - 1)
          /\ \A j \in DOMAIN calcs' : calcs'[j] = IF j < k THEN calcs[j] ELSE calcs[j + 1]
      BY <1>1, <2>1, Removed, Zenon
    <2> QED
      BY <2>1, <2>2
  <1>3. \A j \in DOMAIN calcs' : /\ old(j) \in DOMAIN calcs /\ old(j) # k
                                 /\ calcs'[j] = calcs[old(j)]
    BY <1>2
  <1>4. \A i \in DOMAIN calcs : i # k => \E j \in DOMAIN calcs' : old(j) = i
    <2> SUFFICES ASSUME NEW i \in DOMAIN calcs, i # k
                 PROVE  \E j \in DOMAIN calcs' : old(j) = i
      OBVIOUS
    <2>1. CASE i < k
      <3>1. i \in DOMAIN calcs' /\ old(i) = i
        BY <1>2, <2>1
      <3> QED
        BY <3>1
    <2>2. CASE i > k
      <3>1. i - 1 \in DOMAIN calcs' /\ old(i - 1) = i
        BY <1>2, <2>2
      <3> QED
        BY <3>1
    <2> QED
      BY <1>2, <2>1, <2>2
  <1>5. \A i, j \in DOMAIN calcs' : old(j) > old(i) => j > i
    BY <1>2
  <1>6. \A i \in DOMAIN calcs : i < k /\ calcs[i].id = c.id => c.id \in Async
    BY <1>2
  <1> HIDE DEF old
  <1>7. Batched'
    BY <1>1, <1>3 DEF CalcInv, Batched
  <1>8. ReplacedFirst'
    <2> SUFFICES ASSUME NEW i \in DOMAIN calcs',
                        calcs'[i].batch = "alone", calcs'[i].id \notin Async
                 PROVE  \E j \in DOMAIN calcs' :
                            /\ j > i /\ calcs'[j].id = calcs'[i].id
                            /\ calcs'[j].batch # "alone"
      BY DEF ReplacedFirst
    <2>1. old(i) \in DOMAIN calcs /\ calcs[old(i)] = calcs'[i]
      BY <1>3
    <2>2. PICK m \in DOMAIN calcs : m > old(i) /\ calcs[m].id = calcs[old(i)].id
                                     /\ calcs[m].batch # "alone"
      BY <2>1 DEF CalcInv, ReplacedFirst
    <2>3. m # k
      BY <1>2, <1>6, <2>1, <2>2
    <2>4. PICK j \in DOMAIN calcs' : old(j) = m
      BY <1>4, <2>3
    <2> QED
      BY <1>3, <1>5, <2>1, <2>2, <2>4
  <1>9. YoungestIsNewest'
    <2> SUFFICES ASSUME NEW i \in DOMAIN calcs', Youngest(i)',
                        calcs'[i].id \in Tasks!Shown' \ Async
                 PROVE  calcs'[i].data = data' /\ calcs'[i].params = params'[calcs'[i].id]
      BY DEF YoungestIsNewest
    <2>1. old(i) \in DOMAIN calcs /\ calcs[old(i)] = calcs'[i]
      BY <1>3
    <2>2. Youngest(old(i))
      <3> SUFFICES ASSUME NEW m \in DOMAIN calcs, m > old(i),
                          calcs[m].id = calcs[old(i)].id
                   PROVE  FALSE
        BY DEF Youngest
      <3>1. m # k
        BY <1>2, <1>6, <2>1
      <3>2. PICK j \in DOMAIN calcs' : old(j) = m
        BY <1>4, <3>1
      <3>3. j > i /\ calcs'[j].id = calcs'[i].id
        BY <1>3, <1>5, <2>1, <3>2
      <3> QED
        BY <3>3 DEF Youngest
    <2>3. Tasks!Shown' = Tasks!Shown
      BY <1>1 DEF Tasks!Shown
    <2> QED
      BY <1>1, <2>1, <2>2, <2>3 DEF CalcInv, YoungestIsNewest
  <1>10. SettledIsNewest'
    <2> SUFFICES ASSUME NEW i \in Tasks!Shown' \ (Async \cup failed'),
                        \A j \in DOMAIN calcs' : calcs'[j].id # i
                 PROVE  result'[i] = <<data, params[i]>>
      BY <1>1 DEF SettledIsNewest
    <2>1. \A m \in DOMAIN calcs : m # k => calcs[m].id # i
      BY <1>3, <1>4
    <2>2. i \in Tasks!Shown \ Async /\ i \in Studies
      BY <1>1 DEF Tasks!Shown
    <2>3. CASE c.id = i
      <3>1. result' = [result EXCEPT ![c.id] = <<c.data, c.params>>]
        BY <2>3 DEF Tasks!Settle
      <3>2. Youngest(k)
        BY <1>2, <2>1, <2>3 DEF Youngest
      <3>3. c.data = data /\ c.params = params[i]
        BY <2>2, <2>3, <3>2 DEF CalcInv, YoungestIsNewest
      <3>4. DOMAIN result = Studies
        BY DEF TaskTypes
      <3> HIDE DEF c
      <3> QED
        BY <2>2, <2>3, <3>1, <3>3, <3>4
    <2>4. CASE c.id # i
      <3>1. result'[i] = result[i] /\ i \notin failed
        BY <2>2, <2>4 DEF Tasks!Settle, TaskTypes
      <3> QED
        BY <2>1, <2>2, <2>4, <3>1 DEF CalcInv, SettledIsNewest
    <2> QED
      BY <2>3, <2>4
  <1> QED
    BY <1>7, <1>8, <1>9, <1>10 DEF CalcInv

\* The held batch runs when the running one is through.
LEMMA NextBatchKeepsCalcs ==
    ASSUME TaskTypes, CalcInv, \A k \in DOMAIN calcs : calcs[k].batch # "run",
           Tasks!NextBatch, UNCHANGED <<data, stage, params, result, failed, overtaken>>
    PROVE  CalcInv' /\ calcs' \in Seq(Calculations)
  <1>1. /\ running' = holding /\ holding' = FALSE
        /\ calcs' = [k \in DOMAIN calcs |->
               IF calcs[k].batch = "hold" THEN [calcs[k] EXCEPT !.batch = "run"] ELSE calcs[k]]
    BY DEF Tasks!NextBatch
  <1>2. calcs \in Seq(Calculations) /\ DOMAIN calcs = 1..Len(calcs) /\ Len(calcs) \in Nat
    BY DEF TaskTypes
  <1>3. \A k \in DOMAIN calcs : calcs[k] \in Calculations
    BY <1>2
  <1>4. /\ DOMAIN calcs' = DOMAIN calcs
        /\ \A k \in DOMAIN calcs :
              /\ calcs'[k].id = calcs[k].id /\ calcs'[k].data = calcs[k].data
              /\ calcs'[k].params = calcs[k].params
              /\ \/ calcs[k].batch = "hold" /\ calcs'[k].batch = "run"
                 \/ calcs[k].batch # "hold" /\ calcs'[k].batch = calcs[k].batch
    BY <1>1, <1>3 DEF Calculations
  <1>5. calcs' \in Seq(Calculations)
    <2>1. calcs' \in [1..Len(calcs) -> Calculations]
      BY <1>1, <1>2, <1>3 DEF Calculations
    <2> QED
      BY <1>2, <2>1
  <1>6. Batched'
    BY <1>1, <1>4 DEF CalcInv, Batched
  <1>7. ReplacedFirst'
    BY <1>4 DEF CalcInv, ReplacedFirst
  <1>8. Tasks!Shown' = Tasks!Shown
    BY DEF Tasks!Shown
  <1>9. YoungestIsNewest'
    BY <1>4, <1>8 DEF CalcInv, YoungestIsNewest, Youngest
  <1>10. SettledIsNewest'
    BY <1>4, <1>8 DEF CalcInv, SettledIsNewest
  <1> QED
    BY <1>5, <1>6, <1>7, <1>9, <1>10 DEF CalcInv

-----------------------------------------------------------------------------
(* How the layouts stay asked for.                                         *)

LastTicks ==
    \/ dropped \/ ticks = format \/ pending = "stuck"
    \/ pending = "queued" /\ {"build", "force"} \subseteq options

\* Every layout asked for paints, and a build that was forced stays forced or
\* is remembered as dropped.
LEMMA LayoutPaints ==
    ASSUME TaskTypes, PaintComes, NEW wanted, "update" \in wanted, Tasks!Layout(wanted),
           UNCHANGED ticks, format' = format \/ {"build", "force"} \subseteq wanted
    PROVE  /\ PaintComes' /\ Queued'
           /\ pending' \in {"no", "queued", "stuck"} /\ dropped' \in BOOLEAN
  <1>1. /\ "update" \in options' /\ wanted \subseteq options'
        /\ "force" \in options /\ "force" \notin options' => dropped'
        /\ dropped => dropped'
        /\ options \ {"force"} \subseteq options'
        /\ pending' = IF pending = "no" THEN "queued" ELSE pending
    BY DEF Tasks!Layout
  <1>2. dropped' \in BOOLEAN
    BY DEF Tasks!Layout
  <1>3. pending' \in {"queued", "stuck"} /\ (pending = "stuck" => pending' = "stuck")
    BY <1>1 DEF TaskTypes
  <1>4. Queued' /\ Repaints'
    BY <1>1, <1>3 DEF Queued, Repaints
  <1>5. LastTicks'
    <2>1. LastTicks
      BY DEF PaintComes, LastTicks
    <2>2. CASE format' = format
      BY <1>1, <1>3, <2>1, <2>2 DEF LastTicks
    <2>3. CASE {"build", "force"} \subseteq wanted
      BY <1>1, <1>3, <2>3 DEF LastTicks
    <2> QED
      BY <2>2, <2>3
  <1> QED
    BY <1>1, <1>2, <1>3, <1>4, <1>5 DEF PaintComes, LastTicks

\* A batch that runs will ask for the layout.
LEMMA BatchPaints ==
    ASSUME PaintComes, running', Tasks!NoLayout, UNCHANGED <<stage, format, ticks, painted>>
    PROVE  PaintComes'
  <1>1. Repaints' /\ Queued' = Queued /\ Tasks!Shown' = Tasks!Shown
    BY DEF Repaints, Queued, Tasks!NoLayout, Tasks!Shown
  <1> QED
    BY <1>1 DEF PaintComes, Tasks!NoLayout

LEMMA TaskInit == Tasks!Init => TaskInv
  <1> SUFFICES ASSUME Tasks!Init PROVE TaskInv
    OBVIOUS
  <1> USE DEF Tasks!Init
  <1>1. calcs = <<>> /\ calcs \in Seq(Calculations) /\ DOMAIN calcs = {}
    OBVIOUS
  <1>2. running \in BOOLEAN /\ holding \in BOOLEAN /\ dropped \in BOOLEAN
    BY Zenon
  <1>3. TaskTypes
    BY <1>1, <1>2 DEF TaskTypes
  <1>4. Tasks!Shown = {}
    BY DEF Tasks!Shown
  <1>5. ~holding
    BY Zenon
  <1>6. CalcInv
    BY <1>1, <1>4, <1>5 DEF CalcInv, Batched, ReplacedFirst, YoungestIsNewest, SettledIsNewest
  <1>7. DOMAIN painted.looks = {} /\ painted.data = data
    OBVIOUS
  <1>8. PaintComes
    BY <1>4, <1>7 DEF PaintComes
  <1> QED
    BY <1>3, <1>6, <1>8 DEF TaskInv

-----------------------------------------------------------------------------
(* The steps.                                                              *)

LEMMA AddDataKeeps ==
    ASSUME IsFiniteSet(Studies), TaskInv, Tasks!AddData PROVE TaskInv'
  <1> USE DEF TaskInv
  <1>1. /\ data' = data + 1 /\ data' \in Nat
        /\ UNCHANGED <<stage, params, look, result, failed, format, ticks, painted>>
    BY DEF Tasks!AddData, TaskTypes
  <1>2. Tasks!Shown' = Tasks!Shown /\ Tasks!Shown \in SUBSET Studies
    BY <1>1 DEF Tasks!Shown
  <1>3. CASE Tasks!Shown # {}
    <2>1. Tasks!CalcIndicators(Tasks!Shown, data', params) /\ Tasks!NoLayout
      BY <1>3 DEF Tasks!AddData
    <2>2. params \in [Studies -> {0, 1}]
      BY DEF TaskTypes
    <2>3. Adds(Tasks!Shown, data', params)
      BY <1>1, <1>2, <2>1, <2>2, CalcAdds
    <2>4. Adds(Tasks!Shown, data', params')
      BY <1>1, <2>3
    <2>5. CalcInv'
      BY <1>1, <1>2, <1>3, <2>4, AddsKeep
    <2>6. running' = TRUE /\ running' \in BOOLEAN /\ holding' \in BOOLEAN /\ calcs' \in Seq(Calculations)
      BY <2>3, Zenon DEF Adds
    <2>7. PaintComes'
      BY <1>1, <2>1, <2>6, BatchPaints
    <2>8. TaskTypes'
      BY <1>1, <2>1, <2>6 DEF TaskTypes, Tasks!NoLayout
    <2> QED
      BY <2>5, <2>7, <2>8
  <1>4. CASE Tasks!Shown = {}
    <2>1. /\ Tasks!Layout({"width", "update", "build", "cache"})
          /\ UNCHANGED <<calcs, running, holding, overtaken>>
      BY <1>4 DEF Tasks!AddData
    <2>2. PaintComes' /\ pending' \in {"no", "queued", "stuck"} /\ dropped' \in BOOLEAN
      BY <1>1, <2>1, LayoutPaints
    <2>3. TaskTypes'
      BY <1>1, <2>1, <2>2 DEF TaskTypes
    <2> QED
      BY <1>2, <1>4, <2>1, <2>2, <2>3, NoneShownKeepsCalcs
  <1> QED
    BY <1>3, <1>4

LEMMA CreateKeeps ==
    ASSUME IsFiniteSet(Studies), TaskInv, NEW i \in Studies, Tasks!CreateIndicator(i)
    PROVE  TaskInv'
  <1> USE DEF TaskInv
  <1>1. /\ stage' = [stage EXCEPT ![i] = "shown"]
        /\ Tasks!CalcIndicators({i}, data, params)
        /\ Tasks!Layout({"sort", "height", "width", "update", "build", "force"})
        /\ UNCHANGED <<data, params, look, result, failed, format, ticks, painted>>
    BY DEF Tasks!CreateIndicator
  <1>2. Tasks!Shown' = Tasks!Shown \cup {i} /\ stage' \in [Studies -> {"new", "shown", "removed"}]
    BY <1>1 DEF Tasks!Shown, TaskTypes
  <1>3. params \in [Studies -> {0, 1}] /\ data \in Nat
    BY DEF TaskTypes
  <1>4. Adds({i}, data, params)
    BY <1>1, <1>3, CalcAdds
  <1>5. Adds({i}, data', params')
    BY <1>1, <1>4
  <1>6. CalcInv'
    BY <1>1, <1>2, <1>5, AddsKeep
  <1>7. running' \in BOOLEAN /\ holding' \in BOOLEAN /\ calcs' \in Seq(Calculations)
    BY <1>4, Zenon DEF Adds
  <1>8. PaintComes' /\ pending' \in {"no", "queued", "stuck"} /\ dropped' \in BOOLEAN
    BY <1>1, LayoutPaints
  <1>9. TaskTypes'
    BY <1>1, <1>2, <1>7, <1>8 DEF TaskTypes
  <1> QED
    BY <1>6, <1>8, <1>9

LEMMA OverrideKeeps ==
    ASSUME IsFiniteSet(Studies), TaskInv, NEW i \in Studies, Tasks!OverrideIndicator(i)
    PROVE  TaskInv'
  <1> USE DEF TaskInv
  <1>1. /\ Tasks!CalcIndicators({i}, data, params') /\ Tasks!NoLayout
        /\ UNCHANGED <<data, stage, result, failed, format, ticks, painted>>
    BY DEF Tasks!OverrideIndicator
  <1>2. /\ params' \in [Studies -> {0, 1}] /\ look' \in [Studies -> {0, 1}] /\ data \in Nat
        /\ \A j \in Studies : j # i => params'[j] = params[j]
    BY DEF Tasks!OverrideIndicator, Tasks!Override, TaskTypes
  <1>3. Tasks!Shown' = Tasks!Shown /\ Tasks!Shown \subseteq Studies
    BY <1>1 DEF Tasks!Shown
  <1>4. Adds({i}, data, params')
    BY <1>1, <1>2, CalcAdds
  <1>5. Adds({i}, data', params')
    BY <1>1, <1>4
  <1>6. CalcInv'
    BY <1>1, <1>2, <1>3, <1>5, AddsKeep
  <1>7. running' = TRUE /\ running' \in BOOLEAN /\ holding' \in BOOLEAN /\ calcs' \in Seq(Calculations)
    BY <1>4, Zenon DEF Adds
  <1>8. PaintComes'
    BY <1>1, <1>7, BatchPaints
  <1>9. TaskTypes'
    BY <1>1, <1>2, <1>7 DEF TaskTypes, Tasks!NoLayout
  <1> QED
    BY <1>6, <1>8, <1>9

\* What only asks for a layout.
LEMMA LayoutKeeps ==
    ASSUME TaskInv, NEW wanted, "update" \in wanted, Tasks!Layout(wanted),
           format' = format \/ {"build", "force"} \subseteq wanted,
           UNCHANGED <<data, params, result, failed, calcs, running, holding, ticks, overtaken>>,
           stage' \in [Studies -> {"new", "shown", "removed"}],
           look' \in [Studies -> {0, 1}], Tasks!Shown' \subseteq Tasks!Shown
    PROVE  TaskInv'
  <1> USE DEF TaskInv
  <1>1. PaintComes' /\ pending' \in {"no", "queued", "stuck"} /\ dropped' \in BOOLEAN
    BY LayoutPaints
  <1>2. CalcInv'
    BY ElseKeepsCalcs
  <1>3. TaskTypes'
    BY <1>1 DEF TaskTypes
  <1> QED
    BY <1>1, <1>2, <1>3

LEMMA DoLayoutKeeps == TaskInv /\ Tasks!DoLayout => TaskInv'
  <1> SUFFICES ASSUME TaskInv, Tasks!DoLayout PROVE TaskInv'
    OBVIOUS
  <1> USE DEF TaskInv
  <1>1. /\ pending = "queued" /\ pending' = "no" /\ options' = {}
        /\ painted' = IF "update" \in options THEN Tasks!Picture ELSE painted
        /\ UNCHANGED <<data, stage, params, look, result, failed, calcs, running,
                       holding, format, dropped, overtaken>>
    BY DEF Tasks!DoLayout
  <1>2. painted' = Tasks!Picture
    BY <1>1 DEF PaintComes
  <1>3. Tasks!Shown' = Tasks!Shown
    BY <1>1 DEF Tasks!Shown
  <1>4. CalcInv'
    BY <1>1, <1>3, ElseKeepsCalcs
  <1>5. TaskTypes'
    BY <1>1 DEF TaskTypes
  <1>6. /\ painted'.data = data' /\ DOMAIN painted'.looks = Tasks!Shown'
        /\ \A i \in Tasks!Shown' : painted'.looks[i] = <<result'[i], look'[i]>>
    BY <1>1, <1>2, <1>3 DEF Tasks!Picture
  <1>7. dropped \/ ticks' = format
    <2>1. PICK rangeChanged \in BOOLEAN :
              ticks' = IF {"build", "force"} \cap options # {}
                          /\ (rangeChanged \/ "force" \in options)
                       THEN format ELSE ticks
      BY DEF Tasks!DoLayout
    <2>2. dropped \/ ticks = format \/ "force" \in options
      BY <1>1 DEF PaintComes
    <2> QED
      BY <2>1, <2>2
  <1>8. PaintComes'
    BY <1>1, <1>6, <1>7 DEF PaintComes
  <1> QED
    BY <1>4, <1>5, <1>8

LEMMA LayoutThrowsKeeps == TaskInv /\ Tasks!LayoutThrows => TaskInv'
  <1> SUFFICES ASSUME TaskInv, Tasks!LayoutThrows PROVE TaskInv'
    OBVIOUS
  <1> USE DEF TaskInv
  <1>1. /\ pending' = "stuck"
        /\ UNCHANGED <<data, stage, params, look, result, failed, calcs, running,
                       holding, options, format, ticks, painted, dropped, overtaken>>
    BY DEF Tasks!LayoutThrows
  <1>2. CalcInv'
    BY <1>1, ElseKeepsCalcs DEF Tasks!Shown
  <1>3. TaskTypes'
    BY <1>1 DEF TaskTypes
  <1>4. PaintComes'
    BY <1>1 DEF PaintComes, Repaints, Queued
  <1> QED
    BY <1>2, <1>3, <1>4

LEMMA RunDoneKeeps == TaskInv /\ Tasks!RunDone => TaskInv'
  <1> SUFFICES ASSUME TaskInv, Tasks!RunDone PROVE TaskInv'
    OBVIOUS
  <1> USE DEF TaskInv
  <1>1. /\ Tasks!Layout({"width", "update", "build"}) /\ Tasks!NextBatch
        /\ \A k \in DOMAIN calcs : calcs[k].batch # "run"
        /\ UNCHANGED <<data, stage, params, look, result, failed, format, ticks,
                       painted, overtaken>>
    BY DEF Tasks!RunDone
  <1>2. CalcInv' /\ calcs' \in Seq(Calculations)
    BY <1>1, NextBatchKeepsCalcs
  <1>3. PaintComes' /\ pending' \in {"no", "queued", "stuck"} /\ dropped' \in BOOLEAN
    BY <1>1, LayoutPaints
  <1>4. running' \in BOOLEAN /\ holding' \in BOOLEAN
    BY <1>1, Zenon DEF Tasks!NextBatch, TaskTypes
  <1>5. TaskTypes'
    BY <1>1, <1>2, <1>3, <1>4 DEF TaskTypes
  <1> QED
    BY <1>2, <1>3, <1>5

\* A calculation that settles belongs to a batch, which will paint it, or was
\* replaced: a synchronous one by a calculation still in a batch.
LEMMA SettleKeeps ==
    ASSUME TaskInv, NEW k \in DOMAIN calcs, Tasks!Settle(k),
           \/ calcs[k].id \in Async
           \/ \A j \in 1..(k - 1) : calcs[j].id \in Async
    PROVE  TaskInv'
  <1> USE DEF TaskInv
  <1>1. CalcInv'
    BY SettleKeepsCalcs
  <1>2. /\ calcs' = Tasks!RemoveAt(calcs, k)
        /\ UNCHANGED <<data, stage, params, look, running, holding, pending, options,
                       format, ticks, painted, dropped, overtaken>>
        /\ \/ result' = [result EXCEPT ![calcs[k].id] = <<calcs[k].data, calcs[k].params>>]
           \/ result' = result
    BY DEF Tasks!Settle
  <1>3. calcs \in Seq(Calculations) /\ calcs' \in Seq(Calculations)
    BY <1>2, Removed DEF TaskTypes
  <1>4. calcs[k] \in Calculations
    BY <1>3
  <1>5. TaskTypes'
    BY <1>2, <1>3 DEF TaskTypes
  <1>6. Tasks!Shown' = Tasks!Shown /\ Tasks!Shown \subseteq Studies
    BY <1>2 DEF Tasks!Shown
  <1>7. \A i \in Studies : i # calcs[k].id => result'[i] = result[i]
    BY <1>2 DEF TaskTypes
  <1>8. running \/ calcs[k].id \in overtaken \cap Async
    <2>1. CASE calcs[k].batch # "alone"
      BY <1>4, <2>1 DEF CalcInv, Batched, Calculations
    <2>2. CASE calcs[k].batch = "alone" /\ calcs[k].id \in Async
      BY <2>2 DEF CalcInv, Batched
    <2>3. CASE calcs[k].batch = "alone" /\ calcs[k].id \notin Async
      <3>1. PICK j \in DOMAIN calcs : calcs[j].batch # "alone"
        BY <2>3 DEF CalcInv, ReplacedFirst
      <3>2. calcs[j] \in Calculations
        BY <1>3
      <3> QED
        BY <3>1, <3>2 DEF CalcInv, Batched, Calculations
    <2> QED
      BY <2>1, <2>2, <2>3
  <1>9. Queued' = Queued /\ Repaints' = Repaints
    BY <1>2 DEF Queued, Repaints
  <1>10. \A i \in Tasks!Shown' :
            Repaints' \/ i \in overtaken' \cap Async \/ painted'.looks[i] = <<result'[i], look'[i]>>
    <2>1. CASE running
      BY <1>2, <2>1 DEF Repaints
    <2>2. CASE ~running
      BY <1>2, <1>6, <1>7, <1>8, <1>9, <2>2 DEF PaintComes
    <2> QED
      BY <2>1, <2>2
  <1>11. PaintComes'
    BY <1>2, <1>6, <1>9, <1>10 DEF PaintComes
  <1> QED
    BY <1>1, <1>5, <1>11

LEMMA TaskStep == IsFiniteSet(Studies) /\ TaskInv /\ [Tasks!Next]_(Tasks!vars) => TaskInv'
  <1> SUFFICES ASSUME IsFiniteSet(Studies), TaskInv, [Tasks!Next]_(Tasks!vars) PROVE TaskInv'
    OBVIOUS
  <1>1. CASE Tasks!AddData
    BY <1>1, AddDataKeeps
  <1>2. CASE Tasks!SetOptions \/ Tasks!MoveView
    <2>1. look \in [Studies -> {0, 1}] /\ stage \in [Studies -> {"new", "shown", "removed"}]
      BY DEF TaskInv, TaskTypes
    <2>2. PICK wanted : /\ wanted \in {{"height", "width", "update", "build", "force"},
                                     {"width", "update", "build", "cache"}}
                        /\ Tasks!Layout(wanted)
                        /\ format' = format \/ {"build", "force"} \subseteq wanted
      BY <1>2 DEF Tasks!SetOptions, Tasks!MoveView
    <2>3. UNCHANGED <<data, params, result, failed, calcs, running, holding, ticks,
                      overtaken, stage, look>>
      BY <1>2 DEF Tasks!SetOptions, Tasks!MoveView
    <2>4. Tasks!Shown' = Tasks!Shown
      BY <2>3 DEF Tasks!Shown
    <2> QED
      BY <2>1, <2>2, <2>3, <2>4, LayoutKeeps
  <1>3. ASSUME NEW i \in Studies, Tasks!CreateIndicator(i) PROVE TaskInv'
    BY <1>3, CreateKeeps
  <1>4. ASSUME NEW i \in Studies, Tasks!RemoveIndicator(i) PROVE TaskInv'
    <2>1. /\ stage' = [stage EXCEPT ![i] = "removed"]
          /\ UNCHANGED <<data, params, look, result, failed, calcs, running, holding,
                         format, ticks, overtaken>>
          /\ Tasks!Layout({"sort", "height", "width", "update", "build", "force"})
      BY <1>4 DEF Tasks!RemoveIndicator
    <2>2. /\ stage' \in [Studies -> {"new", "shown", "removed"}] /\ look' \in [Studies -> {0, 1}]
          /\ Tasks!Shown' \subseteq Tasks!Shown
      BY <2>1 DEF TaskInv, TaskTypes, Tasks!Shown
    <2> QED
      BY <2>1, <2>2, LayoutKeeps
  <1>5. ASSUME NEW i \in Studies, Tasks!OverrideIndicator(i) PROVE TaskInv'
    BY <1>5, OverrideKeeps
  <1>6. ASSUME NEW i \in Studies, Tasks!OverrideLook(i) PROVE TaskInv'
    <2>1. /\ look' = [look EXCEPT ![i] = 1 - @]
          /\ UNCHANGED <<data, params, stage, result, failed, calcs, running, holding,
                         format, ticks, overtaken>>
          /\ Tasks!Layout({"update"})
      BY <1>6 DEF Tasks!OverrideLook
    <2>2. /\ stage' \in [Studies -> {"new", "shown", "removed"}] /\ look' \in [Studies -> {0, 1}]
          /\ Tasks!Shown' \subseteq Tasks!Shown
      BY <2>1 DEF TaskInv, TaskTypes, Tasks!Shown
    <2> QED
      BY <2>1, <2>2, LayoutKeeps
  <1>7. CASE Tasks!SettleSync
    BY <1>7, SettleKeeps DEF Tasks!SettleSync
  <1>8. CASE Tasks!SettleAsync
    BY <1>8, SettleKeeps DEF Tasks!SettleAsync
  <1>9. CASE Tasks!RunDone
    BY <1>9, RunDoneKeeps
  <1>10. CASE Tasks!DoLayout
    BY <1>10, DoLayoutKeeps
  <1>11. CASE Tasks!LayoutThrows
    BY <1>11, LayoutThrowsKeeps
  <1>12. CASE UNCHANGED Tasks!vars
    <2> USE <1>12 DEF Tasks!vars, TaskInv
    <2>1. Tasks!Shown' = Tasks!Shown
      BY DEF Tasks!Shown
    <2>2. CalcInv'
      BY <2>1, ElseKeepsCalcs
    <2>3. TaskTypes' /\ PaintComes'
      BY <2>1 DEF TaskTypes, PaintComes, Repaints, Queued
    <2> QED
      BY <2>2, <2>3
  <1> QED
    BY <1>1, <1>2, <1>3, <1>4, <1>5, <1>6, <1>7, <1>8, <1>9, <1>10, <1>11, <1>12 DEF Tasks!Next

LEMMA TaskImplies == TaskInv => Tasks!QuietMeansPainted
  <1> SUFFICES ASSUME TaskInv, calcs = <<>>, ~running, pending = "no"
               PROVE  /\ Tasks!PaintedIsCurrent
                      /\ \A i \in Tasks!Shown \ (Async \cup failed) : result[i] = <<data, params[i]>>
                      /\ ~dropped => ticks = format
    BY DEF Tasks!QuietMeansPainted
  <1>1. ~Repaints /\ ~Queued
    BY DEF Repaints, Queued
  <1>2. DOMAIN calcs = {}
    OBVIOUS
  <1>3. Tasks!PaintedIsCurrent /\ (~dropped => ticks = format)
    BY <1>1 DEF TaskInv, PaintComes, Tasks!PaintedIsCurrent
  <1>4. \A i \in Tasks!Shown \ (Async \cup failed) : result[i] = <<data, params[i]>>
    BY <1>2 DEF TaskInv, CalcInv, SettledIsNewest
  <1> QED
    BY <1>3, <1>4

\* When nothing is out and nothing queued the screen shows the newest data, and
\* every synchronous indicator of the newest data and parameters, whatever was
\* merged, held or overtaken on the way (TaskScheduler.add, _runTask, Chart.layout).
THEOREM QuietIsPainted == Spec => []QuietMeansPainted
  <1> DEFINE Inv == part = "tasks" => TaskInv
  <1>1. IsFiniteSet(Studies)
    BY ConstantsAssumption, SameTaskCount DEF Tasks!AsyncAssumption
  <1>2. Init => Inv
    BY TaskInit DEF Init
  <1>3. Inv /\ [Next]_vars => Inv'
    <2> SUFFICES ASSUME Inv, [Next]_vars, part' = "tasks" PROVE TaskInv'
      OBVIOUS
    <2>1. part = "tasks" /\ [Tasks!Next]_(Tasks!vars)
      BY DEF Next, InData, InTasks, InLayout, InPro, InStudy, vars, taskVars, Tasks!vars
    <2> QED
      BY <1>1, <2>1, TaskStep
  <1>4. Inv => QuietMeansPainted
    BY TaskImplies DEF QuietMeansPainted
  <1> QED
    BY <1>2, <1>3, <1>4, PTL DEF Spec

-----------------------------------------------------------------------------
(* The chart's data (ChartData): its bars and its requests.                *)

BarRecords == [market : Data!Markets, time : Nat]
RequestRecords == [type : {"init", "forward", "backward"}, loader : Data!Loaders,
                   market : Data!Markets, from : Nat, reset : Nat]

\* No request is of a reset to come.
Past(queue) == \A k \in DOMAIN queue : queue[k].reset <= resets

DataTypes ==
    /\ symbol \in Symbols \cup {None} /\ period \in Periods \cup {None}
    /\ loader \in Data!Loaders \cup {None}
    /\ bars \in Seq(BarRecords) /\ requests \in Seq(RequestRecords)
    /\ more \in [forward : BOOLEAN, backward : BOOLEAN]
    /\ loading \in BOOLEAN /\ late \in BOOLEAN /\ destroyed \in BOOLEAN
    /\ now \in Nat /\ resets \in Nat
    /\ \A a \in applied : a \in Nat /\ a <= resets
    /\ Past(requests)

\* Only a loader that gives live bars is asked for a stream.
StreamLive == streams # {} => loader \in LiveLoaders

\* A list of requests whose flag says whether one of this reset is out, which
\* is then the only one and asks for the market shown.
Mine(k, queue) == queue[k].reset = resets
OneOut(busy, queue) ==
    /\ busy <=> \E k \in DOMAIN queue : Mine(k, queue)
    /\ \A j, k \in DOMAIN queue : Mine(j, queue) /\ Mine(k, queue) => j = k
    /\ \A k \in DOMAIN queue : Mine(k, queue) =>
          queue[k].market = Data!Market /\ queue[k].loader = loader

\* Before the first page of a reset came, what is out is its request.
FirstOut ==
    /\ OneOut(loading, requests) /\ (Data!Configured => loading)
    /\ \A k \in DOMAIN requests : Mine(k, requests) => requests[k].type = "init"

Increasing(list) == \A i \in 1..(Len(list) - 1) : list[i].time < list[i + 1].time
OfMarket(list, m) == \A i \in DOMAIN list : list[i].market = m

\* After it, a page that is out continues the list at the end it was asked
\* for; the newer end of a live list gets no page, as its bars come by stream.
Continues(q, list) ==
    \/ q.type = "forward" /\ list # <<>> /\ q.from = list[1].time
    \/ q.type = "backward" /\ list # <<>> /\ q.from = list[Len(list)].time
       /\ loader \notin LiveLoaders
Sound(list, flags) ==
    /\ OfMarket(list, Data!Market) /\ Increasing(list)
    /\ list = <<>> => ~flags.forward /\ ~flags.backward
    /\ flags.backward => loader \notin LiveLoaders
PagesOut(list, flags, busy, queue) ==
    /\ Sound(list, flags) /\ OneOut(busy, queue)
    /\ \A k \in DOMAIN queue : Mine(k, queue) => Continues(queue[k], list)

DataInv ==
    /\ DataTypes /\ StreamInv /\ StreamLive
    /\ ~late /\ ~destroyed =>
          IF resets \in applied THEN PagesOut(bars, more, loading, requests) ELSE FirstOut

\* The list operators.
LEMMA SameRemoval == ASSUME NEW s, NEW k PROVE Data!RemoveAt(s, k) = Tasks!RemoveAt(s, k)
  BY DEF Data!RemoveAt, Tasks!RemoveAt

LEMMA Grown ==
    ASSUME NEW S, NEW s \in Seq(S), NEW e \in S
    PROVE  LET t == Append(s, e)
           IN  /\ t \in Seq(S) /\ Len(t) = Len(s) + 1 /\ Len(s) \in Nat
               /\ DOMAIN s = 1..Len(s) /\ DOMAIN t = 1..(Len(s) + 1)
               /\ \A j \in 1..Len(s) : t[j] = s[j]
               /\ t[Len(s) + 1] = e
  <1>1. /\ Append(s, e) \in Seq(S) /\ Len(Append(s, e)) = Len(s) + 1 /\ Len(s) \in Nat
    OBVIOUS
  <1>2. DOMAIN s = 1..Len(s) /\ DOMAIN Append(s, e) = 1..(Len(s) + 1)
    BY <1>1
  <1>3. \A j \in 1..Len(s) : Append(s, e)[j] = s[j]
    BY <1>1
  <1>4. Append(s, e)[Len(s) + 1] = e
    BY <1>1
  <1> QED
    BY <1>1, <1>2, <1>3, <1>4

\* A span holds the bars of one market, in order, between its two ends.
LEMMA SpanFacts ==
    ASSUME NEW m \in Data!Markets, NEW first \in Nat \ {0}, NEW last \in Nat
    PROVE  LET s == Data!Span(m, first, last)
           IN  /\ s \in Seq(BarRecords) /\ OfMarket(s, m) /\ Increasing(s)
               /\ s = <<>> <=> last < first
               /\ s # <<>> => s[1].time = first /\ s[Len(s)].time = last
  <1> DEFINE n == IF last < first THEN 0 ELSE last - first + 1
             e(i) == [market |-> m, time |-> first + i - 1]
             s == Data!Span(m, first, last)
  <1>1. n \in Nat /\ (n = 0 <=> last < first) /\ (n # 0 => first + n - 1 = last)
    OBVIOUS
  <1>2. s = [i \in 1..n |-> e(i)]
    BY DEF Data!Span
  <1> HIDE DEF n, s
  <1>3. \A i \in 1..n : /\ e(i) \in BarRecords /\ e(i).market = m /\ e(i).time = first + i - 1
    BY <1>1 DEF BarRecords
  <1> HIDE DEF e
  <1>4. s \in [1..n -> BarRecords]
    BY <1>2, <1>3
  <1>5. s \in Seq(BarRecords) /\ Len(s) = n /\ DOMAIN s = 1..n
    BY <1>1, <1>4
  <1>6. \A i \in 1..n : s[i].market = m /\ s[i].time = first + i - 1
    BY <1>2, <1>3
  <1>7. s = <<>> <=> last < first
    BY <1>1, <1>5
  <1>8. OfMarket(s, m)
    BY <1>5, <1>6 DEF OfMarket
  <1>9. Increasing(s)
    BY <1>1, <1>5, <1>6 DEF Increasing
  <1>10. s # <<>> => s[1].time = first /\ s[Len(s)].time = last
    BY <1>1, <1>5, <1>6, <1>7
  <1> QED
    BY <1>5, <1>7, <1>8, <1>9, <1>10 DEF s

\* Two lists of one market make one when the second starts after the first.
LEMMA JoinedInOrder ==
    ASSUME NEW m, NEW a \in Seq(BarRecords), NEW b \in Seq(BarRecords),
           OfMarket(a, m), OfMarket(b, m), Increasing(a), Increasing(b),
           a # <<>> /\ b # <<>> => a[Len(a)].time < b[1].time
    PROVE  OfMarket(a \o b, m) /\ Increasing(a \o b) /\ a \o b \in Seq(BarRecords)
  <1> DEFINE s == a \o b
  <1>1. /\ s \in Seq(BarRecords) /\ Len(s) = Len(a) + Len(b)
        /\ Len(a) \in Nat /\ Len(b) \in Nat /\ DOMAIN a = 1..Len(a)
        /\ DOMAIN s = 1..(Len(a) + Len(b))
        /\ \A j \in 1..Len(a) : s[j] = a[j]
        /\ \A j \in 1..Len(b) : s[j + Len(a)] = b[j]
    BY Joined
  <1>2. DOMAIN b = 1..Len(b)
    OBVIOUS
  <1>3. (a = <<>> <=> Len(a) = 0) /\ (b = <<>> <=> Len(b) = 0)
    OBVIOUS
  <1> HIDE DEF s
  <1>4. \A j \in Len(a) + 1..Len(a) + Len(b) :
           j - Len(a) \in 1..Len(b) /\ s[j] = b[j - Len(a)]
    <2> SUFFICES ASSUME NEW j \in Len(a) + 1..Len(a) + Len(b)
                 PROVE  j - Len(a) \in 1..Len(b) /\ s[j] = b[j - Len(a)]
      OBVIOUS
    <2>1. j - Len(a) \in 1..Len(b) /\ (j - Len(a)) + Len(a) = j
      BY <1>1
    <2> QED
      BY <1>1, <2>1
  <1>5. OfMarket(s, m)
    <2> SUFFICES ASSUME NEW j \in DOMAIN s PROVE s[j].market = m
      BY DEF OfMarket
    <2>1. CASE j \in 1..Len(a)
      <3>1. s[j] = a[j] /\ j \in DOMAIN a
        BY <1>1, <2>1
      <3> QED
        BY <3>1 DEF OfMarket
    <2>2. CASE j \in Len(a) + 1..Len(a) + Len(b)
      <3>1. s[j] = b[j - Len(a)] /\ j - Len(a) \in DOMAIN b
        BY <1>2, <1>4, <2>2
      <3> QED
        BY <3>1 DEF OfMarket
    <2>3. j \in 1..Len(a) \/ j \in Len(a) + 1..Len(a) + Len(b)
      <3>1. j \in 1..(Len(a) + Len(b)) /\ Len(a) \in Nat /\ Len(b) \in Nat
        BY <1>1
      <3> QED
        BY <3>1
    <2> QED
      BY <2>1, <2>2, <2>3
  <1>6. \A i \in 1..(Len(a) + Len(b) - 1) : s[i].time < s[i + 1].time
    <2> SUFFICES ASSUME NEW i \in 1..(Len(a) + Len(b) - 1) PROVE s[i].time < s[i + 1].time
      OBVIOUS
    <2>1. CASE i < Len(a)
      <3>1. i \in 1..(Len(a) - 1) /\ i \in 1..Len(a) /\ i + 1 \in 1..Len(a)
        BY <1>1, <2>1
      <3> QED
        BY <1>1, <3>1 DEF Increasing
    <2>2. CASE i = Len(a)
      <3>1. /\ Len(a) # 0 /\ Len(b) # 0 /\ Len(a) \in 1..Len(a)
            /\ Len(a) + 1 \in Len(a) + 1..Len(a) + Len(b) /\ Len(a) + 1 - Len(a) = 1
        BY <1>1, <2>2
      <3>2. s[i] = a[Len(a)] /\ s[i + 1] = b[1]
        BY <1>1, <1>4, <2>2, <3>1
      <3> QED
        BY <1>3, <3>1, <3>2
    <2>3. CASE i > Len(a)
      <3> DEFINE j == i - Len(a)
      <3>1. /\ j \in 1..(Len(b) - 1) /\ i + 1 - Len(a) = j + 1
            /\ i \in Len(a) + 1..Len(a) + Len(b) /\ i + 1 \in Len(a) + 1..Len(a) + Len(b)
        BY <1>1, <2>3
      <3>2. s[i] = b[j] /\ s[i + 1] = b[j + 1]
        BY <1>4, <3>1
      <3>3. b[j].time < b[j + 1].time
        BY <3>1 DEF Increasing
      <3> QED
        BY <3>2, <3>3
    <2>4. i < Len(a) \/ i = Len(a) \/ i > Len(a)
      <3>1. Len(a) \in Nat
        BY <1>1
      <3> QED
        BY <3>1
    <2> QED
      BY <2>1, <2>2, <2>3, <2>4
  <1>7. Increasing(s)
    BY <1>1, <1>6 DEF Increasing
  <1> QED
    BY <1>1, <1>5, <1>7 DEF s

-----------------------------------------------------------------------------
(* Pages and adjustments.                                                  *)

\* A page is a span that ends before what it was asked from, or starts behind
\* it; a first page that knows of more is not empty, and a loader of live bars
\* never has more of the newer ones.
LEMMA PageFacts ==
    ASSUME Data!BoundAssumption, NEW r \in RequestRecords, NEW t \in Nat
    PROVE  LET page == Data!Page(r, t)
           IN  /\ \E first \in Nat \ {0}, last \in Nat :
                     /\ page.data = Data!Span(r.market, first, last)
                     /\ r.type = "forward" => last < first \/ last < r.from
                     /\ r.type = "backward" => r.from < first
                     /\ r.type = "init" /\ (page.forward \/ page.backward) => first <= last
               /\ page.forward \in BOOLEAN /\ page.backward \in BOOLEAN
               /\ page.backward => r.loader \notin LiveLoaders
  <1> DEFINE live == r.loader \in LiveLoaders
             last == CASE r.type = "init" /\ live -> t
                       [] r.type = "init" /\ ~live -> IF t > PageSize THEN t - 1 ELSE t
                       [] r.type = "forward" -> IF r.from = 0 THEN 0 ELSE r.from - 1
                       [] r.type = "backward" ->
                              IF r.from + PageSize > t THEN t ELSE r.from + PageSize
             first == CASE r.type = "backward" -> r.from + 1
                        [] OTHER -> IF last > PageSize THEN last - PageSize + 1 ELSE 1
             page == Data!Page(r, t)
  <1>1. /\ page.data = Data!Span(r.market, first, last)
        /\ page.forward = (r.type # "backward" /\ first > 1 /\ last > 0)
        /\ page.backward = (~live /\ r.type # "forward" /\ last < t)
    BY DEF Data!Page
  <1>2. PageSize \in Nat \ {0} /\ r.from \in Nat /\ r.type \in {"init", "forward", "backward"}
    BY DEF Data!BoundAssumption, RequestRecords
  <1>3. CASE r.type = "init"
    <2>1. last = IF live THEN t ELSE IF t > PageSize THEN t - 1 ELSE t
      <3>1. CASE live
        BY <1>3, <3>1
      <3>2. CASE ~live
        BY <1>3, <3>2
      <3> QED
        BY <3>1, <3>2
    <2>2. first = IF last > PageSize THEN last - PageSize + 1 ELSE 1
      BY <1>3
    <2> HIDE DEF page, first, last, live
    <2>3. first \in Nat \ {0} /\ last \in Nat
      BY <1>2, <2>1, <2>2
    <2>4. page.forward \/ page.backward => first <= last
      <3>1. first > 1 => first <= last
        BY <1>2, <2>2, <2>3
      <3>2. ~live /\ last < t => first <= last
        BY <1>2, <2>1, <2>2, <2>3
      <3> QED
        BY <1>1, <3>1, <3>2
    <2>5. page.forward \in BOOLEAN /\ page.backward \in BOOLEAN /\ (page.backward => ~live)
      BY <1>1, Zenon
    <2> QED
      BY <1>1, <1>3, <2>3, <2>4, <2>5 DEF page, live
  <1>4. CASE r.type = "forward"
    <2>1. last = IF r.from = 0 THEN 0 ELSE r.from - 1
      BY <1>4
    <2>2. first = IF last > PageSize THEN last - PageSize + 1 ELSE 1
      BY <1>4
    <2> HIDE DEF page, first, last, live
    <2>3. first \in Nat \ {0} /\ last \in Nat /\ (last < first \/ last < r.from)
      BY <1>2, <2>1, <2>2
    <2>5. page.forward \in BOOLEAN /\ page.backward \in BOOLEAN /\ (page.backward => ~live)
      BY <1>1, Zenon
    <2> QED
      BY <1>1, <1>4, <2>3, <2>5 DEF page, live
  <1>5. CASE r.type = "backward"
    <2>1. last = IF r.from + PageSize > t THEN t ELSE r.from + PageSize
      BY <1>5
    <2>2. first = r.from + 1
      BY <1>5
    <2> HIDE DEF page, first, last, live
    <2>3. first \in Nat \ {0} /\ last \in Nat /\ r.from < first
      BY <1>2, <2>1, <2>2
    <2>5. page.forward \in BOOLEAN /\ page.backward \in BOOLEAN /\ (page.backward => ~live)
      BY <1>1, Zenon
    <2> QED
      BY <1>1, <1>5, <2>3, <2>5 DEF page, live
  <1> QED
    BY <1>2, <1>3, <1>4, <1>5

\* What an adjustment asks for: nothing, or a page at an edge that has more.
Ask(type, list) == [type |-> type, loader |-> loader, market |-> Data!Market,
                    from |-> Data!From(type, list), reset |-> resets]

LEMMA Asked ==
    ASSUME NEW list, NEW flags, NEW busy, NEW queue, resets' = resets,
           Data!AdjustVisibleRange(list, flags, busy, queue)
    PROVE  \/ loading' = busy /\ requests' = queue
           \/ /\ ~busy /\ Data!Configured /\ loading' = TRUE
              /\ \/ flags.forward /\ requests' = Append(queue, Ask("forward", list))
                 \/ flags.backward /\ requests' = Append(queue, Ask("backward", list))
  <1>1. PICK type \in {"forward", "backward", "none"} :
           /\ type = "forward" => flags.forward
           /\ type = "backward" => flags.backward
           /\ IF type = "none" THEN loading' = busy /\ requests' = queue
              ELSE Data!ProcessDataLoad(type, symbol, period, loader, list, busy, queue)
    <2>1. PICK edge \in {"left", "right", "neither"} :
             LET type == CASE edge = "left"  /\ flags.forward  -> "forward"
                           [] edge = "right" /\ flags.backward -> "backward"
                           [] OTHER -> "none"
             IN  IF type = "none"
                 THEN loading' = busy /\ requests' = queue
                 ELSE Data!ProcessDataLoad(type, symbol, period, loader, list, busy, queue)
      BY DEF Data!AdjustVisibleRange
    <2>2. CASE edge = "left" /\ flags.forward
      BY <2>1, <2>2
    <2>3. CASE edge = "right" /\ flags.backward
      BY <2>1, <2>3
    <2>4. CASE ~(edge = "left" /\ flags.forward) /\ ~(edge = "right" /\ flags.backward)
      BY <2>1, <2>4
    <2> QED
      BY <2>2, <2>3, <2>4
  <1>2. CASE type = "none"
    BY <1>1, <1>2
  <1>3. CASE type # "none" /\ ~(~busy /\ loader # None /\ symbol # None /\ period # None)
    BY <1>1, <1>3 DEF Data!ProcessDataLoad
  <1>4. CASE type # "none" /\ ~busy /\ loader # None /\ symbol # None /\ period # None
    <2>1. loading' = TRUE /\ requests' = Append(queue, Ask(type, list)) /\ Data!Configured
      BY <1>1, <1>4 DEF Data!ProcessDataLoad, Ask, Data!Market, Data!Configured
    <2> QED
      BY <1>1, <1>4, <2>1
  <1> QED
    BY <1>1, <1>2, <1>3, <1>4

\* A request asked while none is out is the only one.
LEMMA OneMore ==
    ASSUME NEW queue \in Seq(RequestRecords), OneOut(FALSE, queue),
           NEW q \in RequestRecords,
           q.reset = resets, q.market = Data!Market, q.loader = loader
    PROVE  /\ OneOut(TRUE, Append(queue, q)) /\ Append(queue, q) \in Seq(RequestRecords)
           /\ \A k \in DOMAIN Append(queue, q) :
                 Mine(k, Append(queue, q)) => Append(queue, q)[k] = q
  <1> DEFINE more1 == Append(queue, q)
  <1>1. /\ more1 \in Seq(RequestRecords) /\ Len(queue) \in Nat
        /\ DOMAIN queue = 1..Len(queue) /\ DOMAIN more1 = 1..(Len(queue) + 1)
        /\ \A j \in 1..Len(queue) : more1[j] = queue[j]
        /\ more1[Len(queue) + 1] = q
    BY Grown
  <1> HIDE DEF more1
  <1>2. \A k \in DOMAIN queue : ~Mine(k, queue)
    BY DEF OneOut
  <1>3. \A k \in DOMAIN more1 : Mine(k, more1) => k = Len(queue) + 1
    <2> SUFFICES ASSUME NEW k \in DOMAIN more1, Mine(k, more1), k # Len(queue) + 1 PROVE FALSE
      OBVIOUS
    <2>1. k \in 1..Len(queue)
      BY <1>1
    <2> QED
      BY <1>1, <1>2, <2>1 DEF Mine
  <1>4. Len(queue) + 1 \in DOMAIN more1 /\ Mine(Len(queue) + 1, more1)
    BY <1>1 DEF Mine
  <1>5. OneOut(TRUE, more1)
    BY <1>1, <1>3, <1>4 DEF OneOut
  <1> QED
    BY <1>1, <1>3, <1>5 DEF more1

\* The answer to the one that is out leaves none.
LEMMA OneLess ==
    ASSUME NEW queue \in Seq(RequestRecords), NEW busy, OneOut(busy, queue),
           NEW i \in DOMAIN queue, Mine(i, queue)
    PROVE  OneOut(FALSE, Data!RemoveAt(queue, i))
  <1> DEFINE rest == Data!RemoveAt(queue, i)
  <1>1. /\ DOMAIN queue = 1..Len(queue) /\ DOMAIN rest = 1..(Len(queue) - 1)
        /\ \A j \in DOMAIN rest : rest[j] = IF j < i THEN queue[j] ELSE queue[j + 1]
    BY Removed, SameRemoval
  <1>2. Len(queue) \in Nat
    OBVIOUS
  <1> HIDE DEF rest
  <1>3. \A j \in DOMAIN rest : ~Mine(j, rest)
    <2> SUFFICES ASSUME NEW j \in DOMAIN rest, Mine(j, rest) PROVE FALSE
      OBVIOUS
    <2> DEFINE k == IF j < i THEN j ELSE j + 1
    <2>1. k \in DOMAIN queue /\ k # i /\ rest[j] = queue[k]
      BY <1>1, <1>2
    <2> HIDE DEF k
    <2>2. Mine(k, queue)
      BY <2>1 DEF Mine
    <2> QED
      BY <2>1, <2>2 DEF OneOut
  <1> QED
    BY <1>3 DEF OneOut, rest

\* An adjustment keeps the lists typed, and the pages that are out in step
\* with a sound list.
LEMMA AskedIsRequest ==
    ASSUME Data!LoaderAssumption, DataTypes, Data!Configured, NEW list \in Seq(BarRecords),
           NEW type \in {"forward", "backward"}
    PROVE  /\ Ask(type, list) \in RequestRecords
           /\ Ask(type, list).type = type /\ Ask(type, list).reset = resets
           /\ Ask(type, list).market = Data!Market /\ Ask(type, list).loader = loader
           /\ list # <<>> /\ type = "forward" => Ask(type, list).from = list[1].time
           /\ list # <<>> /\ type = "backward" => Ask(type, list).from = list[Len(list)].time
  <1>1. Data!Market \in Data!Markets /\ loader \in Data!Loaders /\ resets \in Nat
    BY DEF DataTypes, Data!Configured, Data!Market, Data!Markets
  <1>2. /\ list = <<>> => Data!From(type, list) = 0
        /\ list # <<>> /\ type = "forward" => Data!From(type, list) = list[1].time
        /\ list # <<>> /\ type = "backward" => Data!From(type, list) = list[Len(list)].time
    BY DEF Data!From, Data!Last
  <1>3. Data!From(type, list) \in Nat
    <2>1. CASE list = <<>>
      BY <1>2, <2>1
    <2>2. CASE list # <<>>
      <3>1. list[1] \in BarRecords /\ list[Len(list)] \in BarRecords
        BY <2>2
      <3> QED
        BY <1>2, <2>2, <3>1 DEF BarRecords
    <2> QED
      BY <2>1, <2>2
  <1> QED
    BY <1>1, <1>2, <1>3 DEF Ask, RequestRecords

LEMMA PastGrows ==
    ASSUME NEW queue \in Seq(RequestRecords), Past(queue), resets \in Nat,
           NEW q \in RequestRecords, q.reset = resets
    PROVE  Past(Append(queue, q))
  <1>1. /\ Len(queue) \in Nat
        /\ DOMAIN queue = 1..Len(queue) /\ DOMAIN Append(queue, q) = 1..(Len(queue) + 1)
        /\ \A j \in 1..Len(queue) : Append(queue, q)[j] = queue[j]
        /\ Append(queue, q)[Len(queue) + 1] = q
    BY Grown
  <1> DEFINE longer == Append(queue, q)
  <1> HIDE DEF longer
  <1> SUFFICES ASSUME NEW k \in DOMAIN longer PROVE longer[k].reset <= resets
    BY DEF Past, longer
  <1>2. k \in 1..Len(queue) \/ k = Len(queue) + 1
    BY <1>1 DEF longer
  <1>3. CASE k \in 1..Len(queue)
    BY <1>1, <1>3 DEF longer, Past
  <1>4. CASE k = Len(queue) + 1
    BY <1>1, <1>4 DEF longer
  <1> QED
    BY <1>2, <1>3, <1>4

LEMMA AdjustTypes ==
    ASSUME Data!LoaderAssumption, DataTypes, resets' = resets,
           NEW list \in Seq(BarRecords), NEW flags, NEW busy \in BOOLEAN,
           NEW queue \in Seq(RequestRecords), Past(queue),
           Data!AdjustVisibleRange(list, flags, busy, queue)
    PROVE  loading' \in BOOLEAN /\ requests' \in Seq(RequestRecords) /\ Past(requests')
  <1>1. CASE loading' = busy /\ requests' = queue
    BY <1>1
  <1>2. CASE /\ Data!Configured /\ loading' = TRUE
             /\ \/ requests' = Append(queue, Ask("forward", list))
                \/ requests' = Append(queue, Ask("backward", list))
    <2>1. PICK type \in {"forward", "backward"} : requests' = Append(queue, Ask(type, list))
      BY <1>2
    <2>2. Ask(type, list) \in RequestRecords /\ Ask(type, list).reset = resets
      BY <1>2, AskedIsRequest
    <2>3. Append(queue, Ask(type, list)) \in Seq(RequestRecords)
      BY <2>2
    <2>4. Past(Append(queue, Ask(type, list)))
      BY <2>2, PastGrows DEF DataTypes
    <2> QED
      BY <1>2, <2>1, <2>3, <2>4, Zenon
  <1> QED
    BY <1>1, <1>2, Asked

LEMMA AdjustKeeps ==
    ASSUME Data!LoaderAssumption, DataTypes, resets' = resets,
           NEW list \in Seq(BarRecords), NEW flags, NEW busy \in BOOLEAN,
           NEW queue \in Seq(RequestRecords), PagesOut(list, flags, busy, queue),
           Data!AdjustVisibleRange(list, flags, busy, queue)
    PROVE  PagesOut(list, flags, loading', requests')
  <1>1. CASE loading' = busy /\ requests' = queue
    BY <1>1
  <1>2. CASE /\ ~busy /\ Data!Configured /\ loading' = TRUE
             /\ \/ flags.forward /\ requests' = Append(queue, Ask("forward", list))
                \/ flags.backward /\ requests' = Append(queue, Ask("backward", list))
    <2>1. PICK type \in {"forward", "backward"} :
             /\ requests' = Append(queue, Ask(type, list))
             /\ type = "forward" => flags.forward
             /\ type = "backward" => flags.backward
      BY <1>2
    <2> DEFINE q == Ask(type, list)
    <2>2. /\ q \in RequestRecords /\ q.type = type /\ q.reset = resets
          /\ q.market = Data!Market /\ q.loader = loader
          /\ list # <<>> /\ type = "forward" => q.from = list[1].time
          /\ list # <<>> /\ type = "backward" => q.from = list[Len(list)].time
      BY <1>2, AskedIsRequest
    <2> HIDE DEF q
    <2>3. busy = FALSE
      BY <1>2
    <2>4. OneOut(FALSE, queue) /\ Sound(list, flags)
      BY <2>3 DEF PagesOut
    <2>5. /\ OneOut(TRUE, Append(queue, q))
          /\ \A k \in DOMAIN Append(queue, q) :
                Mine(k, Append(queue, q)) => Append(queue, q)[k] = q
      BY <2>2, <2>4, OneMore
    <2>6. Continues(q, list)
      BY <2>1, <2>2, <2>4 DEF Sound, Continues
    <2>7. OneOut(loading', requests')
      BY <1>2, <2>1, <2>5 DEF q
    <2>8. \A k \in DOMAIN requests' : Mine(k, requests') => Continues(requests'[k], list)
      <3>1. requests' = Append(queue, q)
        BY <2>1 DEF q
      <3> QED
        BY <3>1, <2>5, <2>6
    <2> QED
      BY <2>4, <2>7, <2>8 DEF PagesOut
  <1> QED
    BY <1>1, <1>2, Asked

\* What stays the same of the market can be read on either side of a step.
SameMarket == UNCHANGED <<symbol, period, loader, resets>>

LEMMA PagesNext ==
    ASSUME SameMarket, PagesOut(bars', more', loading', requests')
    PROVE  PagesOut(bars, more, loading, requests)'
  BY DEF SameMarket, PagesOut, Sound, OfMarket, Increasing, OneOut, Mine, Continues,
         Data!Market

LEMMA FirstNext ==
    ASSUME SameMarket, FirstOut, UNCHANGED <<loading, requests>>
    PROVE  FirstOut'
  BY DEF SameMarket, FirstOut, OneOut, Mine, Data!Market, Data!Configured

-----------------------------------------------------------------------------
(* The steps of the data.                                                  *)

LEMMA DataInit == Data!BoundAssumption /\ Data!Init => DataInv
  <1> SUFFICES ASSUME Data!BoundAssumption, Data!Init PROVE DataInv
    OBVIOUS
  <1>1. now \in Nat
    BY DEF Data!Init, Data!BoundAssumption
  <1>2. DataTypes
    <2>1. loading \in BOOLEAN /\ late \in BOOLEAN /\ destroyed \in BOOLEAN
      BY Zenon DEF Data!Init
    <2>2. more \in [forward : BOOLEAN, backward : BOOLEAN]
      <3>1. FALSE \in BOOLEAN
        BY Zenon
      <3> QED
        BY <3>1, Zenon DEF Data!Init
    <2> QED
      BY <1>1, <2>1, <2>2 DEF Data!Init, DataTypes, Past
  <1>3. StreamInv /\ StreamLive
    BY StreamInit DEF Data!Init, StreamLive
  <1>4. FirstOut /\ resets \notin applied
    BY DEF Data!Init, FirstOut, OneOut, Data!Configured
  <1> QED
    BY <1>2, <1>3, <1>4 DEF DataInv

\* A reset waits for the first page of its own market.
LEMMA ResetKeepsData ==
    ASSUME Data!LoaderAssumption, DataInv, NEW s \in Symbols \cup {None},
           NEW p \in Periods \cup {None}, NEW l \in Data!Loaders \cup {None},
           Data!ResetData(s, p, l)
    PROVE  DataInv'
  <1> USE DEF DataInv
  <1>1. /\ symbol' = s /\ period' = p /\ loader' = l /\ resets' = resets + 1 /\ late' = FALSE
        /\ UNCHANGED <<bars, more, destroyed, now, applied>>
    BY DEF Data!ResetData
  <1>2. StreamInv' /\ streams' = {}
    <2>1. streams' = {}
      BY DEF Data!ResetData, StreamInv, StreamsConfigured
    <2> QED
      BY <2>1, ResetGivesUp
  <1>3. /\ requests \in Seq(RequestRecords) /\ resets \in Nat /\ Past(requests)
        /\ resets + 1 \in Nat /\ bars \in Seq(BarRecords)
    BY DEF DataTypes
  <1>4. \A k \in DOMAIN requests : requests[k].reset \in Nat /\ requests[k].reset < resets + 1
    <2>1. \A k \in DOMAIN requests : requests[k] \in RequestRecords
      BY <1>3
    <2> QED
      BY <1>3, <2>1 DEF RequestRecords, Past
  <1>5. resets' \notin applied' /\ \A a \in applied' : a \in Nat /\ a <= resets'
    BY <1>1, <1>3 DEF DataTypes
  <1> DEFINE q == [type |-> "init", loader |-> l, market |-> <<s, p>>, from |-> 0,
                   reset |-> resets + 1]
  <1>6. CASE l # None /\ s # None /\ p # None
    <2>1. loading' = TRUE /\ requests' = Append(requests, q)
      BY <1>1, <1>6 DEF Data!ResetData, Data!ProcessDataLoad, Data!From
    <2>2. /\ q \in RequestRecords /\ q.reset = resets + 1 /\ q.type = "init"
          /\ q.market = <<s, p>> /\ q.loader = l
      <3>1. <<s, p>> \in Data!Markets
        BY <1>6 DEF Data!Markets
      <3> QED
        BY <1>3, <1>6, <3>1 DEF RequestRecords
    <2> HIDE DEF q
    <2>3. /\ requests' \in Seq(RequestRecords) /\ Len(requests) \in Nat
          /\ DOMAIN requests = 1..Len(requests)
          /\ DOMAIN requests' = 1..(Len(requests) + 1)
          /\ \A j \in 1..Len(requests) : requests'[j] = requests[j]
          /\ requests'[Len(requests) + 1] = q
      BY <1>3, <2>1, <2>2, Grown
    <2>4. \A k \in DOMAIN requests' :
             \/ k \in DOMAIN requests /\ requests'[k] = requests[k]
             \/ k = Len(requests) + 1 /\ requests'[k] = q
      BY <2>3
    <2>5. Past(requests)'
      BY <1>1, <1>3, <1>4, <2>2, <2>4 DEF Past
    <2>6. DataTypes'
      BY <1>1, <1>3, <1>5, <2>1, <2>3, <2>5 DEF DataTypes
    <2>7. FirstOut'
      <3>1. \A k \in DOMAIN requests' : requests'[k].reset = resets' =>
               k = Len(requests) + 1 /\ requests'[k] = q
        BY <1>1, <1>3, <1>4, <2>4
      <3>2. Len(requests) + 1 \in DOMAIN requests' /\ requests'[Len(requests) + 1] = q
        BY <2>3
      <3>3. OneOut(loading, requests)'
        BY <1>1, <2>1, <2>2, <3>1, <3>2 DEF OneOut, Mine, Data!Market
      <3> QED
        BY <2>1, <2>2, <3>1, <3>3 DEF FirstOut, Mine
    <2> QED
      BY <1>2, <1>5, <2>6, <2>7 DEF StreamLive
  <1>7. CASE ~(l # None /\ s # None /\ p # None)
    <2>1. loading' = FALSE /\ requests' = requests
      BY <1>7 DEF Data!ResetData, Data!ProcessDataLoad
    <2>2. Past(requests)'
      BY <1>1, <1>3, <1>4, <2>1 DEF Past
    <2>3. DataTypes'
      BY <1>1, <1>3, <1>5, <2>1, <2>2 DEF DataTypes
    <2>4. FirstOut'
      <3>1. \A k \in DOMAIN requests' : requests'[k].reset # resets'
        BY <1>1, <1>3, <1>4, <2>1
      <3> QED
        BY <1>1, <1>7, <2>1, <3>1 DEF FirstOut, OneOut, Mine, Data!Configured
    <2> QED
      BY <1>2, <1>5, <2>3, <2>4 DEF StreamLive
  <1> QED
    BY <1>6, <1>7

LEMMA ViewKeepsData ==
    ASSUME Data!LoaderAssumption, DataInv, Data!View
    PROVE  DataInv'
  <1> USE DEF DataInv
  <1>1. /\ UNCHANGED <<symbol, period, loader, bars, more, streams, destroyed, now,
                       resets, applied, late>>
        /\ Data!AdjustVisibleRange(bars, more, loading, requests)
    BY DEF Data!View
  <1>2. /\ DataTypes /\ bars \in Seq(BarRecords) /\ requests \in Seq(RequestRecords)
        /\ loading \in BOOLEAN /\ Past(requests) /\ resets' = resets
    BY <1>1 DEF DataTypes
  <1>3. loading' \in BOOLEAN /\ requests' \in Seq(RequestRecords) /\ Past(requests')
    BY <1>1, <1>2, AdjustTypes
  <1>4. DataTypes'
    BY <1>1, <1>2, <1>3 DEF DataTypes, Past
  <1>5. StreamInv' /\ StreamLive'
    BY <1>1, ElseKeeps DEF StreamLive
  <1>6. SameMarket
    BY <1>1 DEF SameMarket
  <1>7. ASSUME ~late, ~destroyed, resets \in applied
        PROVE  PagesOut(bars, more, loading, requests)'
    <2>1. PagesOut(bars, more, loading', requests')
      BY <1>1, <1>2, <1>7, AdjustKeeps
    <2> QED
      BY <1>1, <1>6, <2>1, PagesNext
  <1>8. ASSUME ~late, ~destroyed, resets \notin applied
        PROVE  FirstOut'
    <2>1. FirstOut /\ (Data!Configured => loading)
      BY <1>8 DEF FirstOut
    <2>2. loading' = loading /\ requests' = requests
      BY <1>1, <1>2, <2>1, Asked
    <2> QED
      BY <1>6, <2>1, <2>2, FirstNext
  <1> QED
    BY <1>1, <1>4, <1>5, <1>7, <1>8

LEMMA DestroyKeepsData ==
    ASSUME DataInv, Data!Destroy
    PROVE  DataInv'
  <1> USE DEF DataInv
  <1>1. /\ destroyed' = TRUE /\ bars' = <<>> /\ more' = [forward |-> FALSE, backward |-> FALSE]
        /\ loading' = FALSE
        /\ UNCHANGED <<symbol, period, loader, requests, streams, now, resets, applied, late>>
    BY DEF Data!Destroy
  <1>2. DataTypes'
    <2>1. loading' \in BOOLEAN /\ destroyed' \in BOOLEAN /\ FALSE \in BOOLEAN
      BY <1>1, Zenon
    <2>2. more' \in [forward : BOOLEAN, backward : BOOLEAN]
      BY <1>1, <2>1, Zenon
    <2>3. bars' \in Seq(BarRecords)
      BY <1>1
    <2> QED
      BY <1>1, <2>1, <2>2, <2>3 DEF DataTypes, Past
  <1>3. StreamInv' /\ StreamLive'
    BY <1>1, ElseKeeps DEF StreamLive
  <1> QED
    BY <1>1, <1>2, <1>3

LEMMA RestKeepsData ==
    ASSUME DataInv, now' \in Nat,
           UNCHANGED <<symbol, period, loader, bars, more, loading, requests, streams,
                       destroyed, resets, applied, late>>
    PROVE  DataInv'
  <1> USE DEF DataInv
  <1>1. DataTypes'
    BY DEF DataTypes, Past
  <1>2. StreamInv' /\ StreamLive'
    BY ElseKeeps DEF StreamLive
  <1>3. FirstOut => FirstOut'
    BY FirstNext DEF SameMarket
  <1>4. PagesOut(bars, more, loading, requests) => PagesOut(bars, more, loading, requests)'
    BY PagesNext DEF SameMarket
  <1> QED
    BY <1>1, <1>2, <1>3, <1>4

\* A bar of the stream goes on the end of the list, or into its last place.
LEMMA BarAdded ==
    ASSUME NEW m, bars \in Seq(BarRecords), OfMarket(bars, m), Increasing(bars),
           NEW bar \in BarRecords, bar.market = m
    PROVE  LET list == Data!AddBar(bar)
           IN  /\ list \in Seq(BarRecords) /\ OfMarket(list, m) /\ Increasing(list)
               /\ bars # <<>> => list # <<>> /\ list[1].time = bars[1].time
               /\ list # <<>>
  <1> DEFINE list == Data!AddBar(bar)
             n == Len(bars)
  <1>1. n \in Nat /\ DOMAIN bars = 1..n /\ (bars = <<>> <=> n = 0)
    OBVIOUS
  <1>2. \A i \in 1..n : bars[i] \in BarRecords /\ bars[i].time \in Nat
    <2>1. \A i \in 1..n : bars[i] \in BarRecords
      BY <1>1
    <2> QED
      BY <2>1 DEF BarRecords
  <1>3. bar.time \in Nat
    BY DEF BarRecords
  <1>4. CASE bars = <<>> \/ bar.time > bars[n].time
    <2>0. ~(bars # <<>> /\ bar.time = bars[n].time)
      <3>1. CASE bars = <<>>
        BY <3>1
      <3>2. CASE bars # <<>>
        <4>1. n \in 1..n
          BY <1>1, <3>2
        <4> QED
          BY <1>2, <1>3, <1>4, <3>2, <4>1
      <3> QED
        BY <3>1, <3>2
    <2>1. list = Append(bars, bar)
      BY <1>4, <2>0 DEF Data!AddBar, Data!Last
    <2>2. /\ list \in Seq(BarRecords) /\ Len(list) = n + 1 /\ DOMAIN list = 1..(n + 1)
          /\ \A j \in 1..n : list[j] = bars[j]
          /\ list[n + 1] = bar
      BY <2>1, Grown
    <2> HIDE DEF list, n
    <2>3. \A j \in 1..(n + 1) : j \in 1..n \/ j = n + 1
      BY <1>1
    <2>4. OfMarket(list, m)
      BY <1>1, <2>2, <2>3 DEF OfMarket
    <2>5. Increasing(list)
      <3> SUFFICES ASSUME NEW i \in 1..n PROVE list[i].time < list[i + 1].time
        BY <1>1, <2>2 DEF Increasing
      <3>1. CASE i = n
        <4>1. n # 0 /\ i + 1 = n + 1
          BY <1>1, <3>1
        <4> QED
          BY <1>1, <1>2, <1>3, <1>4, <2>2, <3>1, <4>1
      <3>2. CASE i # n
        <4>1. i \in 1..(n - 1) /\ i + 1 \in 1..n
          BY <1>1, <3>2
        <4>2. bars[i].time < bars[i + 1].time
          BY <4>1 DEF Increasing, n
        <4> QED
          BY <2>2, <4>1, <4>2
      <3> QED
        BY <3>1, <3>2
    <2>6. list # <<>> /\ (bars # <<>> => list[1].time = bars[1].time)
      <3>1. list # <<>>
        BY <1>1, <2>2
      <3>2. bars # <<>> => 1 \in 1..n
        BY <1>1
      <3> QED
        BY <2>2, <3>1, <3>2
    <2> QED
      BY <2>2, <2>4, <2>5, <2>6 DEF list
  <1>5. CASE bars # <<>> /\ bar.time = bars[n].time
    <2>1. ~(bars = <<>> \/ bar.time > bars[n].time)
      BY <1>1, <1>2, <1>3, <1>5
    <2>2. list = [bars EXCEPT ![n] = bar]
      BY <1>5, <2>1 DEF Data!AddBar, Data!Last, Data!ReplaceAt
    <2>3. /\ list \in Seq(BarRecords) /\ Len(list) = n /\ DOMAIN list = 1..n
          /\ \A j \in 1..n : list[j] = IF j = n THEN bar ELSE bars[j]
      <3>1. bars \in [1..n -> BarRecords]
        BY <1>1
      <3>2. list \in [1..n -> BarRecords]
        BY <2>2, <3>1
      <3> QED
        BY <1>1, <2>2, <3>1, <3>2
    <2> HIDE DEF list, n
    <2>4. \A j \in 1..n : list[j].time = bars[j].time
      BY <1>5, <2>3
    <2>5. OfMarket(list, m)
      BY <1>1, <2>3 DEF OfMarket
    <2>6. Increasing(list)
      <3> SUFFICES ASSUME NEW i \in 1..(n - 1) PROVE list[i].time < list[i + 1].time
        BY <2>3 DEF Increasing
      <3>1. i \in 1..n /\ i + 1 \in 1..n
        BY <1>1
      <3>2. bars[i].time < bars[i + 1].time
        BY DEF Increasing, n
      <3> QED
        BY <2>4, <3>1, <3>2
    <2>7. list # <<>> /\ list[1].time = bars[1].time
      <3>1. 1 \in 1..n
        BY <1>1, <1>5
      <3> QED
        BY <2>3, <2>4, <3>1
    <2> QED
      BY <2>3, <2>5, <2>6, <2>7 DEF list
  <1>6. CASE bars # <<>> /\ bar.time # bars[n].time /\ ~(bar.time > bars[n].time)
    <2>1. list = bars
      BY <1>6 DEF Data!AddBar, Data!Last
    <2> QED
      BY <1>6, <2>1
  <1> QED
    BY <1>4, <1>5, <1>6

LEMMA UpdateKeepsData ==
    ASSUME Data!LoaderAssumption, DataInv, Data!Update
    PROVE  DataInv'
  <1> USE DEF DataInv
  <1>1. PICK s \in streams, time \in {now, now - 1} \ {0} :
           /\ now > 0
           /\ bars' = Data!AddBar([market |-> s[2], time |-> time])
           /\ \/ Data!AdjustVisibleRange(bars', more, loading, requests)
              \/ UNCHANGED <<loading, requests>>
    BY DEF Data!Update
  <1>2. UNCHANGED <<symbol, period, loader, more, streams, destroyed, now, resets,
                    applied, late>>
    BY DEF Data!Update
  <1> DEFINE bar == [market |-> s[2], time |-> time]
  <1>3. Data!Configured /\ s[2] = Data!Market /\ loader \in LiveLoaders
    BY DEF StreamInv, StreamsConfigured, StreamLive
  <1>4. /\ DataTypes /\ bars \in Seq(BarRecords) /\ requests \in Seq(RequestRecords)
        /\ loading \in BOOLEAN /\ Past(requests) /\ resets' = resets /\ now \in Nat
    BY <1>2 DEF DataTypes
  <1>5. Data!Market \in Data!Markets
    BY <1>3, <1>4 DEF DataTypes, Data!Configured, Data!Market, Data!Markets
  <1>6. bar \in BarRecords /\ bar.market = Data!Market
    <2>1. time \in Nat
      BY <1>1, <1>4
    <2> QED
      BY <1>3, <1>5, <2>1 DEF BarRecords
  <1>7. bars' = Data!AddBar(bar)
    BY <1>1
  <1> HIDE DEF bar
  <1>8. bars' \in Seq(BarRecords)
    <2>1. CASE bars = <<>>
      BY <1>4, <1>6, <1>7, <2>1 DEF Data!AddBar
    <2>2. CASE bars # <<>>
      <3>1. Len(bars) \in Nat /\ bars \in [1..Len(bars) -> BarRecords]
        BY <1>4
      <3>2. [bars EXCEPT ![Len(bars)] = bar] \in [1..Len(bars) -> BarRecords]
        BY <1>6, <3>1
      <3>3. [bars EXCEPT ![Len(bars)] = bar] \in Seq(BarRecords)
        BY <3>1, <3>2
      <3>4. Append(bars, bar) \in Seq(BarRecords)
        BY <1>4, <1>6
      <3>5. \/ bars' = Append(bars, bar) \/ bars' = bars
            \/ bars' = [bars EXCEPT ![Len(bars)] = bar]
        <4>1. CASE bar.time > bars[Len(bars)].time
          <5>1. bars[Len(bars)] \in BarRecords
            BY <2>2, <1>4
          <5>2. bars[Len(bars)].time \in Nat /\ bar.time \in Nat
            BY <1>6, <5>1 DEF BarRecords
          <5>3. bar.time # bars[Len(bars)].time
            BY <4>1, <5>2
          <5> QED
            BY <1>7, <2>2, <4>1, <5>3 DEF Data!AddBar, Data!Last
        <4>2. CASE ~(bar.time > bars[Len(bars)].time) /\ bar.time = bars[Len(bars)].time
          BY <1>7, <2>2, <4>2 DEF Data!AddBar, Data!Last, Data!ReplaceAt
        <4>3. CASE ~(bar.time > bars[Len(bars)].time) /\ bar.time # bars[Len(bars)].time
          BY <1>7, <2>2, <4>3 DEF Data!AddBar, Data!Last
        <4> QED
          BY <4>1, <4>2, <4>3
      <3> QED
        BY <1>4, <3>3, <3>4, <3>5
    <2> QED
      BY <2>1, <2>2
  <1>9. loading' \in BOOLEAN /\ requests' \in Seq(RequestRecords) /\ Past(requests')
    <2>1. CASE Data!AdjustVisibleRange(bars', more, loading, requests)
      BY <1>4, <1>8, <2>1, AdjustTypes
    <2>2. CASE UNCHANGED <<loading, requests>>
      BY <1>4, <2>2
    <2> QED
      BY <1>1, <2>1, <2>2
  <1>10. DataTypes'
    BY <1>2, <1>4, <1>8, <1>9 DEF DataTypes, Past
  <1>11. StreamInv' /\ StreamLive'
    BY <1>2, ElseKeeps DEF StreamLive
  <1>12. SameMarket
    BY <1>2 DEF SameMarket
  <1>13. ASSUME ~late, ~destroyed, resets \in applied
         PROVE  PagesOut(bars, more, loading, requests)'
    <2>1. PagesOut(bars, more, loading, requests)
      BY <1>13
    <2>2. OfMarket(bars, Data!Market) /\ Increasing(bars) /\ OneOut(loading, requests)
          /\ ~more.backward
      BY <1>3, <2>1 DEF PagesOut, Sound
    <2>3. /\ OfMarket(bars', Data!Market) /\ Increasing(bars') /\ bars' # <<>>
          /\ bars # <<>> => bars'[1].time = bars[1].time
      BY <1>4, <1>6, <1>7, <2>2, BarAdded
    <2>4. Sound(bars', more)
      BY <2>2, <2>3 DEF Sound
    <2>5. \A k \in DOMAIN requests : Mine(k, requests) => Continues(requests[k], bars')
      BY <1>3, <2>1, <2>3 DEF PagesOut, Continues
    <2>6. PagesOut(bars', more, loading, requests)
      BY <2>2, <2>4, <2>5 DEF PagesOut
    <2>7. PagesOut(bars', more, loading', requests')
      <3>1. CASE Data!AdjustVisibleRange(bars', more, loading, requests)
        BY <1>4, <1>8, <2>6, <3>1, AdjustKeeps
      <3>2. CASE UNCHANGED <<loading, requests>>
        BY <2>6, <3>2
      <3> QED
        BY <1>1, <3>1, <3>2
    <2> QED
      BY <1>2, <1>12, <2>7, PagesNext
  <1>14. ASSUME ~late, ~destroyed, resets \notin applied
         PROVE  FirstOut'
    <2>1. FirstOut /\ loading
      BY <1>3, <1>14 DEF FirstOut
    <2>2. loading' = loading /\ requests' = requests
      BY <1>1, <1>4, <2>1, Asked
    <2> QED
      BY <1>12, <2>1, <2>2, FirstNext
  <1> QED
    BY <1>2, <1>10, <1>11, <1>13, <1>14

\* A first page is the market's; an older one goes before the first bar it was
\* asked from, a newer one behind the last: the list stays in order, and the
\* request that was answered was the one that was out.
LEMMA PageKeeps ==
    ASSUME Data!LoaderAssumption, Data!BoundAssumption, DataTypes,
           NEW i \in DOMAIN requests, NEW t \in Nat, Mine(i, requests),
           IF resets \in applied THEN PagesOut(bars, more, loading, requests) ELSE FirstOut
    PROVE  LET r == requests[i]
               page == Data!Page(r, t)
               list == Data!AddPage(r.type, page)
               flags == Data!MoreAfter(r.type, page)
           IN  /\ r.type = "init" \/ resets \in applied
               /\ PagesOut(list, flags, FALSE, Data!RemoveAt(requests, i))
  <1> DEFINE r == requests[i]
             page == Data!Page(r, t)
             list == Data!AddPage(r.type, page)
             flags == Data!MoreAfter(r.type, page)
             rest == Data!RemoveAt(requests, i)
  <1>1. /\ r \in RequestRecords /\ requests \in Seq(RequestRecords)
        /\ bars \in Seq(BarRecords) /\ more \in [forward : BOOLEAN, backward : BOOLEAN]
    BY DEF DataTypes
  <1>2. r.market \in Data!Markets /\ r.type \in {"init", "forward", "backward"}
    BY <1>1 DEF RequestRecords
  <1>3. PICK first \in Nat \ {0}, last \in Nat :
           /\ page.data = Data!Span(r.market, first, last)
           /\ r.type = "forward" => last < first \/ last < r.from
           /\ r.type = "backward" => r.from < first
           /\ r.type = "init" /\ (page.forward \/ page.backward) => first <= last
    BY <1>1, PageFacts
  <1>4. page.backward => r.loader \notin LiveLoaders
    BY <1>1, PageFacts
  <1>5. /\ page.data \in Seq(BarRecords) /\ OfMarket(page.data, r.market)
        /\ Increasing(page.data)
        /\ page.data = <<>> <=> last < first
        /\ page.data # <<>> => /\ page.data[1].time = first
                               /\ page.data[Len(page.data)].time = last
    BY <1>2, <1>3, SpanFacts
  <1>6. OneOut(loading, requests)
    BY DEF PagesOut, FirstOut
  <1>7. r.market = Data!Market /\ r.loader = loader
    BY <1>6 DEF OneOut
  <1>8. OneOut(FALSE, rest)
    BY <1>1, <1>6, OneLess
  <1> HIDE DEF page
  <1>9. CASE r.type = "init"
    <2>1. list = page.data /\ flags = [forward |-> page.forward, backward |-> page.backward]
      BY <1>9 DEF Data!AddPage, Data!MoreAfter
    <2> HIDE DEF list, flags
    <2>2. flags.forward = page.forward /\ flags.backward = page.backward
      BY <2>1
    <2>3. list = <<>> => ~flags.forward /\ ~flags.backward
      <3>1. last < first <=> ~(first <= last)
        OBVIOUS
      <3> QED
        BY <1>3, <1>5, <1>9, <2>1, <2>2, <3>1
    <2>4. Sound(list, flags)
      BY <1>4, <1>5, <1>7, <2>1, <2>2, <2>3 DEF Sound
    <2>5. PagesOut(list, flags, FALSE, rest)
      <3> HIDE DEF rest
      <3> QED
        BY <1>8, <2>4 DEF PagesOut, OneOut
    <2> QED
      BY <1>9, <2>5 DEF list, flags, page
  <1>10. CASE r.type # "init"
    <2>1. resets \in applied
      BY <1>10 DEF FirstOut
    <2>2. PagesOut(bars, more, loading, requests)
      BY <2>1
    <2>3. Continues(r, bars) /\ Sound(bars, more)
      BY <2>2 DEF PagesOut
    <2>4. bars # <<>>
      BY <2>3 DEF Continues
    <2>5. OfMarket(bars, r.market) /\ Increasing(bars) /\ OfMarket(page.data, r.market)
      BY <1>5, <1>7, <2>3 DEF Sound
    <2>6. /\ OfMarket(list, Data!Market) /\ Increasing(list) /\ list # <<>>
          /\ flags.backward => loader \notin LiveLoaders
      <3>1. CASE r.type = "forward"
        <4>1. list = page.data \o bars /\ flags = [more EXCEPT !.forward = page.forward]
          BY <3>1 DEF Data!AddPage, Data!MoreAfter
        <4>2. r.from = bars[1].time
          BY <2>3, <3>1 DEF Continues
        <4>3. page.data # <<>> => page.data[Len(page.data)].time < bars[1].time
          BY <1>3, <1>5, <3>1, <4>2
        <4>4. OfMarket(page.data \o bars, r.market) /\ Increasing(page.data \o bars)
          BY <1>1, <1>5, <2>5, <4>3, JoinedInOrder
        <4>5. page.data \o bars # <<>>
          BY <1>1, <1>5, <2>4
        <4>6. flags.backward = more.backward
          BY <1>1, <4>1
        <4> HIDE DEF list, flags
        <4> QED
          BY <1>7, <2>3, <4>1, <4>4, <4>5, <4>6 DEF Sound
      <3>2. CASE r.type = "backward"
        <4>1. list = bars \o page.data /\ flags = [more EXCEPT !.backward = page.backward]
          BY <3>2 DEF Data!AddPage, Data!MoreAfter
        <4>2. r.from = bars[Len(bars)].time
          BY <2>3, <3>2 DEF Continues
        <4>3. page.data # <<>> => bars[Len(bars)].time < page.data[1].time
          BY <1>3, <1>5, <3>2, <4>2
        <4>4. OfMarket(bars \o page.data, r.market) /\ Increasing(bars \o page.data)
          BY <1>1, <1>5, <2>5, <4>3, JoinedInOrder
        <4>5. bars \o page.data # <<>>
          BY <1>1, <1>5, <2>4
        <4>6. flags.backward = page.backward
          BY <1>1, <4>1
        <4> HIDE DEF list, flags
        <4> QED
          BY <1>4, <1>7, <4>1, <4>4, <4>5, <4>6
      <3> QED
        BY <1>2, <1>10, <3>1, <3>2
    <2> HIDE DEF list, flags, rest
    <2>7. Sound(list, flags)
      BY <2>6 DEF Sound
    <2>8. PagesOut(list, flags, FALSE, rest)
      BY <1>8, <2>7 DEF PagesOut, OneOut
    <2> QED
      BY <2>1, <2>8 DEF list, flags, rest, page
  <1> QED
    BY <1>9, <1>10

LEMMA PageTypes ==
    ASSUME Data!BoundAssumption, DataTypes, NEW r \in RequestRecords, NEW t \in Nat
    PROVE  LET page == Data!Page(r, t)
           IN  /\ Data!AddPage(r.type, page) \in Seq(BarRecords)
               /\ Data!MoreAfter(r.type, page) \in [forward : BOOLEAN, backward : BOOLEAN]
  <1> DEFINE page == Data!Page(r, t)
  <1>1. /\ bars \in Seq(BarRecords) /\ more \in [forward : BOOLEAN, backward : BOOLEAN]
        /\ r.market \in Data!Markets /\ r.type \in {"init", "forward", "backward"}
    BY DEF DataTypes, RequestRecords
  <1>2. page.forward \in BOOLEAN /\ page.backward \in BOOLEAN
    BY PageFacts
  <1>3. page.data \in Seq(BarRecords)
    <2>1. PICK first \in Nat \ {0}, last \in Nat :
             page.data = Data!Span(r.market, first, last)
      BY PageFacts
    <2> QED
      BY <1>1, <2>1, SpanFacts
  <1> HIDE DEF page
  <1>4. bars \o page.data \in Seq(BarRecords) /\ page.data \o bars \in Seq(BarRecords)
    BY <1>1, <1>3
  <1>5. Data!AddPage(r.type, page) \in Seq(BarRecords)
    BY <1>1, <1>3, <1>4 DEF Data!AddPage
  <1>6. /\ [forward |-> page.forward, backward |-> page.backward]
               \in [forward : BOOLEAN, backward : BOOLEAN]
        /\ [more EXCEPT !.backward = page.backward] \in [forward : BOOLEAN, backward : BOOLEAN]
        /\ [more EXCEPT !.forward = page.forward] \in [forward : BOOLEAN, backward : BOOLEAN]
    BY <1>1, <1>2
  <1>7. Data!MoreAfter(r.type, page) \in [forward : BOOLEAN, backward : BOOLEAN]
    BY <1>1, <1>6 DEF Data!MoreAfter
  <1> QED
    BY <1>5, <1>7 DEF page

LEMMA AnswerKeepsData ==
    ASSUME Data!LoaderAssumption, Data!BoundAssumption, DataInv, NEW i, Data!Answer(i)
    PROVE  DataInv'
  <1> USE DEF DataInv
  <1>1. /\ i \in DOMAIN requests
        /\ UNCHANGED <<symbol, period, loader, destroyed, now, resets>>
    BY DEF Data!Answer
  <1> DEFINE r == requests[i]
             rest == Data!RemoveAt(requests, i)
             list(t) == Data!AddPage(r.type, Data!Page(r, t))
             flags(t) == Data!MoreAfter(r.type, Data!Page(r, t))
  <1>2. PICK t \in {now} \cup (IF now > 1 THEN {now - 1} ELSE {}) :
           /\ bars' = list(t) /\ more' = flags(t)
           /\ late' = (late \/ r.reset # resets)
           /\ applied' = IF r.type = "init" THEN applied \cup {r.reset} ELSE applied
           /\ streams' = IF r.type = "init" THEN streams \cup Data!SubscribeBar(r) ELSE streams
           /\ \/ Data!AdjustVisibleRange(list(t), flags(t), FALSE, rest)
              \/ loading' = FALSE /\ requests' = rest
    BY DEF Data!Answer
  <1>3. t \in Nat /\ DataTypes /\ resets' = resets /\ resets \in Nat
    <2>1. now \in Nat
      BY DEF DataTypes
    <2>2. t = now \/ (now > 1 /\ t = now - 1)
      OBVIOUS
    <2>3. t \in Nat
      BY <2>1, <2>2
    <2> QED
      BY <1>1, <2>3 DEF DataTypes
  <1>4. r \in RequestRecords /\ requests \in Seq(RequestRecords) /\ Past(requests)
    BY <1>1, <1>3 DEF DataTypes
  <1>5. list(t) \in Seq(BarRecords) /\ flags(t) \in [forward : BOOLEAN, backward : BOOLEAN]
    BY <1>3, <1>4, PageTypes
  <1>6. rest \in Seq(RequestRecords) /\ Past(rest)
    <2>1. /\ rest \in Seq(RequestRecords) /\ Len(requests) \in Nat /\ i \in 1..Len(requests)
          /\ DOMAIN requests = 1..Len(requests) /\ DOMAIN rest = 1..(Len(requests) - 1)
          /\ \A j \in DOMAIN rest : rest[j] = IF j < i THEN requests[j] ELSE requests[j + 1]
      BY <1>1, <1>4, Removed, SameRemoval
    <2> HIDE DEF rest
    <2>2. \A j \in DOMAIN rest : \E k \in DOMAIN requests : rest[j] = requests[k]
      BY <2>1
    <2> QED
      BY <1>4, <2>1, <2>2 DEF Past
  <1>7. loading' \in BOOLEAN /\ requests' \in Seq(RequestRecords) /\ Past(requests')
    <2>1. FALSE \in BOOLEAN
      BY Zenon
    <2>2. CASE Data!AdjustVisibleRange(list(t), flags(t), FALSE, rest)
      <3> HIDE DEF list, flags, rest
      <3> QED
        BY <1>3, <1>5, <1>6, <2>1, <2>2, AdjustTypes
    <2>3. CASE loading' = FALSE /\ requests' = rest
      <3> HIDE DEF rest
      <3>1. loading' \in BOOLEAN
        BY <2>3, Zenon
      <3> QED
        BY <1>6, <2>3, <3>1
    <2> QED
      BY <1>2, <2>2, <2>3
  <1>8. late' \in BOOLEAN /\ \A a \in applied' : a \in Nat /\ a <= resets
    <2>1. late' \in BOOLEAN
      BY <1>2, Zenon
    <2>2. r.reset \in Nat /\ r.reset <= resets
      BY <1>1, <1>4 DEF RequestRecords, Past
    <2>3. \A a \in applied : a \in Nat /\ a <= resets
      BY <1>3 DEF DataTypes
    <2> QED
      BY <1>2, <2>1, <2>2, <2>3
  <1>9. DataTypes'
    <2> HIDE DEF list, flags, rest
    <2>1. bars' \in Seq(BarRecords) /\ more' \in [forward : BOOLEAN, backward : BOOLEAN]
      BY <1>2, <1>5
    <2> QED
      BY <1>1, <1>3, <1>7, <1>8, <2>1 DEF DataTypes, Past
  <1>10. StreamInv' /\ StreamLive'
    <2>1. None \notin LiveLoaders
      BY DEF Data!LoaderAssumption
    <2>2. StreamInv'
      BY <2>1, AnswerFollows
    <2>3. streams' \subseteq streams \cup Data!SubscribeBar(r)
      BY <1>2
    <2> QED
      BY <1>1, <2>2, <2>3 DEF StreamLive, Data!SubscribeBar
  <1>11. SameMarket
    BY <1>1 DEF SameMarket
  <1>12. ASSUME ~late', ~destroyed'
         PROVE  resets' \in applied' /\ PagesOut(bars, more, loading, requests)'
    <2>1. ~late /\ r.reset = resets /\ ~destroyed
      BY <1>1, <1>2, <1>12
    <2>2. Mine(i, requests)
      BY <2>1 DEF Mine
    <2>3. (r.type = "init" \/ resets \in applied) /\ PagesOut(list(t), flags(t), FALSE, rest)
      BY <1>1, <1>3, <2>1, <2>2, PageKeeps
    <2>4. resets' \in applied'
      BY <1>2, <1>3, <2>1, <2>3
    <2> HIDE DEF list, flags, rest
    <2>5. PagesOut(list(t), flags(t), loading', requests')
      <3>1. FALSE \in BOOLEAN
        BY Zenon
      <3>2. CASE Data!AdjustVisibleRange(list(t), flags(t), FALSE, rest)
        BY <1>3, <1>5, <1>6, <2>3, <3>1, <3>2, AdjustKeeps
      <3>3. CASE loading' = FALSE /\ requests' = rest
        BY <2>3, <3>3
      <3> QED
        BY <1>2, <3>2, <3>3
    <2>6. PagesOut(bars', more', loading', requests')
      BY <1>2, <2>5
    <2> QED
      BY <1>11, <2>4, <2>6, PagesNext
  <1> QED
    BY <1>9, <1>10, <1>12

LEMMA DataStep ==
    Data!LoaderAssumption /\ Data!BoundAssumption /\ DataInv /\ [Data!Next]_(Data!vars)
        => DataInv'
  <1> SUFFICES ASSUME Data!LoaderAssumption, Data!BoundAssumption, DataInv,
                      [Data!Next]_(Data!vars)
               PROVE  DataInv'
    OBVIOUS
  <1>1. /\ symbol \in Symbols \cup {None} /\ period \in Periods \cup {None}
        /\ loader \in Data!Loaders \cup {None} /\ now \in Nat
    BY DEF DataInv, DataTypes
  <1>2. CASE Data!SetSymbol
    <2>1. PICK s \in Symbols : Data!ResetData(s, period, loader)
      BY <1>2 DEF Data!SetSymbol
    <2> QED
      BY <1>1, <2>1, ResetKeepsData
  <1>3. CASE Data!SetPeriod
    <2>1. PICK p \in Periods : Data!ResetData(symbol, p, loader)
      BY <1>3 DEF Data!SetPeriod
    <2> QED
      BY <1>1, <2>1, ResetKeepsData
  <1>4. CASE Data!SetDataLoader
    <2>1. PICK l \in Data!Loaders : Data!ResetData(symbol, period, l)
      BY <1>4 DEF Data!SetDataLoader
    <2> QED
      BY <1>1, <2>1, ResetKeepsData
  <1>5. CASE Data!View
    BY <1>5, ViewKeepsData
  <1>6. CASE Data!Destroy
    BY <1>6, DestroyKeepsData
  <1>7. CASE Data!AnswerOldest
    BY <1>7, AnswerKeepsData DEF Data!AnswerOldest
  <1>8. CASE Data!AnswerOther
    BY <1>8, AnswerKeepsData DEF Data!AnswerOther
  <1>9. CASE Data!Update
    BY <1>9, UpdateKeepsData
  <1>10. CASE Data!Tick
    <2>1. now' \in Nat
      BY <1>1, <1>10 DEF Data!Tick
    <2> QED
      BY <1>10, <2>1, RestKeepsData DEF Data!Tick
  <1>11. CASE UNCHANGED Data!vars
    BY <1>1, <1>11, RestKeepsData DEF Data!vars
  <1> QED
    BY <1>2, <1>3, <1>4, <1>5, <1>6, <1>7, <1>8, <1>9, <1>10, <1>11 DEF Data!Next

LEMMA SameDataCount == ASSUME NEW S PROVE Data!Cardinality(S) = Cardinality(S)
  BY DEF Data!Cardinality, Cardinality

LEMMA DataImplies == DataInv => Data!DataExact
  <1> SUFFICES ASSUME DataInv, Data!Current
               PROVE  Data!OneMarketInOrder /\ Data!LoadingExact
    BY DEF Data!DataExact, Data!OneMarketInOrder, Data!LoadingExact
  <1>1. PagesOut(bars, more, loading, requests) /\ loading \in BOOLEAN
    BY DEF DataInv, DataTypes, Data!Current
  <1>2. Data!OneMarketInOrder
    BY <1>1 DEF PagesOut, Sound, OfMarket, Increasing, Data!OneMarketInOrder
  <1> DEFINE mine == {i \in DOMAIN requests : requests[i].reset = resets}
  <1>3. /\ loading <=> mine # {}
        /\ \A j, k \in mine : j = k
    BY <1>1 DEF PagesOut, OneOut, Mine
  <1> HIDE DEF mine
  <1>4. loading = (mine # {})
    BY <1>1, <1>3, Zenon
  <1>5. Data!Cardinality(mine) <= 1
    <2>1. CASE mine = {}
      BY <2>1, SameDataCount, FS_EmptySet
    <2>2. CASE mine # {}
      <3>1. PICK k : mine = {k}
        BY <1>3, <2>2
      <3>2. Cardinality({k}) = 1
        BY FS_Singleton
      <3>3. Data!Cardinality(mine) = Cardinality({k})
        BY <3>1, SameDataCount
      <3> QED
        BY <3>2, <3>3
    <2> QED
      BY <2>1, <2>2
  <1>6. Data!LoadingExact
    BY <1>4, <1>5 DEF Data!LoadingExact, mine
  <1> QED
    BY <1>2, <1>6

\* Until an answer from before the last reset is applied, the bars shown are
\* one market's, in order of time, and at most one page of them is asked for,
\* which the loading flag tells: through paging at either end, late updates and
\* any order of answers (_processDataLoad, _addData, resetData).
THEOREM DataIsExact == Spec => []DataExact
  <1> DEFINE Inv == part = "data" => DataInv
  <1>1. Data!LoaderAssumption /\ Data!BoundAssumption
    BY ConstantsAssumption
  <1>2. Init => Inv
    BY <1>1, DataInit DEF Init
  <1>3. Inv /\ [Next]_vars => Inv'
    <2> SUFFICES ASSUME Inv, [Next]_vars, part' = "data" PROVE DataInv'
      OBVIOUS
    <2>1. part = "data" /\ [Data!Next]_(Data!vars)
      BY DEF Next, InData, InTasks, InLayout, InPro, InStudy, vars, dataVars, Data!vars
    <2> QED
      BY <1>1, <2>1, DataStep
  <1>4. Inv => DataExact
    BY DataImplies DEF DataExact
  <1> QED
    BY <1>2, <1>3, <1>4, PTL DEF Spec

-----------------------------------------------------------------------------
(* The heights of the panes (Panes).                                       *)

LEMMA GreatestPlace ==
    ASSUME NEW n \in Nat, NEW s \in SUBSET (1..n), s # {}
    PROVE  Layout!Max(s) \in s /\ \A k \in s : k <= Layout!Max(s)
  <1>1. PICK m \in s : \A k \in s : m >= k
    BY HasGreatest
  <1> QED
    BY <1>1 DEF Layout!Max

LEMMA GreatestOfFirst ==
    ASSUME NEW n \in Nat, NEW i \in 1..n
    PROVE  /\ Layout!Max(1..i) = i /\ (1..i) \ {i} = 1..(i - 1)
           /\ 1..i # {} /\ (1..i) \in SUBSET (1..n)
  <1>1. /\ i \in Nat /\ i \in 1..i /\ \A k \in 1..i : k <= i
        /\ (1..i) \in SUBSET (1..n)
    OBVIOUS
  <1>2. Layout!Max(1..i) \in 1..i /\ i <= Layout!Max(1..i)
    BY <1>1, GreatestPlace
  <1>3. (1..i) \ {i} = 1..(i - 1)
    BY <1>1
  <1> QED
    BY <1>1, <1>2, <1>3

Heights == [Layout!Ids -> Int]

\* The order of the panes: the candle pane on top, each once.
OrderTyped ==
    /\ order \in Seq(Layout!Ids) /\ Len(order) >= 1 /\ order[1] = Candle
    /\ \A i, j \in DOMAIN order : order[i] = order[j] => i = j

-----------------------------------------------------------------------------
(* What the others give.                                                   *)

Givings == [h : Heights, left : Int, index : Nat]

LEMMA SameLayoutCount == ASSUME NEW S PROVE Layout!Cardinality(S) = Cardinality(S)
  BY DEF Layout!Cardinality, Cardinality, Layout!IsFiniteSet, IsFiniteSet

LEMMA CountOthers ==
    ASSUME OrderTyped, NEW p, Layout!Others(p) # {}
    PROVE  Layout!Cardinality(Layout!Others(p)) \in Nat \ {0}
  <1> DEFINE n == Len(order)
             on == Layout!OnChart
             f == [i \in 1..n |-> order[i]]
  <1>1. n \in Nat /\ DOMAIN order = 1..n /\ order \in [1..n -> Layout!Ids]
    BY DEF OrderTyped
  <1>2. on = {order[i] : i \in 1..n}
    BY <1>1 DEF Layout!OnChart, Layout!ToSet
  <1>3. order \in [1..n -> on] /\ \A x \in on : \E i \in 1..n : order[i] = x
    BY <1>1, <1>2
  <1> HIDE DEF on, n
  <1>4. order \in Surjection(1..n, on)
    BY <1>3 DEF Surjection
  <1>5. IsFiniteSet(1..n)
    BY <1>1, FS_Interval
  <1>6. IsFiniteSet(on)
    BY <1>4, <1>5, FS_Surjection
  <1>7. Layout!Others(p) \in SUBSET on
    BY DEF Layout!Others, on
  <1>8. IsFiniteSet(Layout!Others(p))
    BY <1>6, <1>7, FS_Subset
  <1> QED
    BY <1>8, FS_CardinalityType, FS_EmptySet, SameLayoutCount

LEMMA GiveTyped ==
    ASSUME Layout!SizesAssumption, OrderTyped, NEW p, NEW change \in Int, Layout!Others(p) # {},
           NEW acc \in Givings, NEW q \in Layout!Ids
    PROVE  Layout!Give(p, change, acc, q) \in Givings
  <1> DEFINE count == Layout!Cardinality(Layout!Others(p))
             share == IF acc.index = count - 1 THEN acc.left ELSE change \div count
             given == Layout!MaxOf(acc.h[q] + share, MinHeight)
  <1>1. count \in Nat /\ count > 0
    BY CountOthers
  <1>2. acc.h \in Heights /\ acc.left \in Int /\ acc.index \in Nat /\ acc.h[q] \in Int
    BY DEF Givings, Heights
  <1> HIDE DEF count
  <1>3. change \div count \in Int
    BY <1>1
  <1>4. share \in Int
    BY <1>2, <1>3
  <1> HIDE DEF share
  <1>5. given \in Int
    BY <1>2, <1>4 DEF Layout!MaxOf, Layout!SizesAssumption
  <1> HIDE DEF given
  <1>6. [h |-> [acc.h EXCEPT ![q] = given], left |-> acc.left - (given - acc.h[q]),
         index |-> acc.index + 1] \in Givings
    BY <1>2, <1>5 DEF Givings, Heights
  <1> QED
    BY <1>6 DEF Layout!Give, given, share, count

LEMMA GivenTyped ==
    ASSUME Layout!SizesAssumption, OrderTyped, NEW p, NEW change \in Int, Layout!Others(p) # {},
           NEW h \in Heights
    PROVE  Layout!Given(p, change, h) \in Givings
  <1> DEFINE n == Len(order)
             b == [h |-> h, left |-> change, index |-> 0]
             G == [x \in Givings \X (1..n) |-> Layout!Give(p, change, x[1], order[x[2]])]
             Is(it) == it = [t \in SUBSET DOMAIN order |->
                               IF t = {} THEN b
                               ELSE Layout!Give(p, change, it[t \ {Layout!Max(t)}],
                                                order[Layout!Max(t)])]
             fold == CHOOSE it : Is(it)
  <1>0. n \in Nat /\ DOMAIN order = 1..n /\ \A i \in 1..n : order[i] \in Layout!Ids
    BY DEF OrderTyped
  <1>b. b \in Givings
    BY DEF Givings
  <1> HIDE DEF b
  <1>g. G \in [Givings \X (1..n) -> Givings]
    BY <1>0, GiveTyped
  <1>1. \E it : Is(it)
    <2>2. PICK it : IsFold(it, n, Givings, b, G)
      <3> HIDE DEF G, n
      <3> QED
        BY <1>0, <1>b, <1>g, FoldExists
    <2>3. it = [t \in SUBSET (1..n) |-> it[t]]
      BY <2>2 DEF IsFold
    <2>4. ASSUME NEW t \in SUBSET (1..n), t # {}
          PROVE  it[t] = Layout!Give(p, change, it[t \ {Layout!Max(t)}], order[Layout!Max(t)])
      <3>1. Layout!Max(t) \in t /\ \A k \in t : k <= Layout!Max(t)
        BY <2>4, <1>0, GreatestPlace
      <3>2. /\ it[t] = G[<<it[t \ {Layout!Max(t)}], Layout!Max(t)>>]
            /\ it[t \ {Layout!Max(t)}] \in Givings
        <4> HIDE DEF G
        <4> QED
          BY <2>2, <3>1 DEF IsFold
      <3> QED
        BY <3>1, <3>2
    <2>5. it[{}] = b
      BY <2>2 DEF IsFold
    <2> HIDE DEF G
    <2>6. Is(it)
      BY <1>0, <2>3, <2>4, <2>5
    <2> QED
      BY <2>6
  <1>2. Is(fold)
    <2> HIDE DEF Is
    <2> QED
      BY <1>1
  <1>3. Layout!Given(p, change, h) = fold[DOMAIN order]
    BY DEF Layout!Given, Layout!FoldLeft, Layout!MapThenFoldSet, b
  <1> HIDE DEF fold
  <1>4. fold[{}] = b
    BY <1>2
  <1>5. ASSUME NEW i \in 1..n PROVE fold[1..i] = Layout!Give(p, change, fold[1..(i - 1)], order[i])
    <2> HIDE DEF n, Is
    <2>1. Layout!Max(1..i) = i /\ (1..i) \ {i} = 1..(i - 1) /\ 1..i # {}
          /\ (1..i) \in SUBSET DOMAIN order
      BY <1>0, GreatestOfFirst
    <2>2. fold[1..i] = Layout!Give(p, change, fold[(1..i) \ {Layout!Max(1..i)}],
                                   order[Layout!Max(1..i)])
      BY <1>2, <2>1 DEF Is
    <2> QED
      BY <2>1, <2>2
  <1> DEFINE S == {i \in Nat : i <= n => fold[1..i] \in Givings}
  <1>6. 0 \in S
    <2>1. 1..0 = {}
      OBVIOUS
    <2> QED
      BY <1>4, <1>b, <2>1
  <1>7. ASSUME NEW i \in Nat, i \in S PROVE i + 1 \in S
    <2> SUFFICES ASSUME i + 1 <= n PROVE fold[1..(i + 1)] \in Givings
      OBVIOUS
    <2> HIDE DEF n
    <2>1. i + 1 \in 1..n /\ (i + 1) - 1 = i /\ i <= n
      BY <1>0
    <2>2. fold[1..i] \in Givings
      BY <1>7, <2>1
    <2>3. fold[1..(i + 1)] = Layout!Give(p, change, fold[1..i], order[i + 1])
      BY <1>5, <2>1
    <2>4. order[i + 1] \in Layout!Ids
      BY <1>0, <2>1
    <2> HIDE DEF Is, G
    <2>5. Layout!Give(p, change, fold[1..i], order[i + 1]) \in Givings
      BY <2>2, <2>4, GiveTyped
    <2> QED
      BY <2>3, <2>5
  <1>8. n \in S
    <2> HIDE DEF S, n
    <2> QED
      BY <1>0, <1>6, <1>7, SetInduction
  <1> QED
    BY <1>0, <1>3, <1>8

LEMMA RecalculateTyped ==
    ASSUME Layout!SizesAssumption, OrderTyped, NEW p \in Layout!Ids, NEW wanted \in Int,
           NEW change \in Int, NEW h \in Heights
    PROVE  Layout!Recalculate(p, wanted, change, h) \in Heights
  <1>1. CASE ~Layout!CanRecalculate(p, change)
    BY <1>1 DEF Layout!Recalculate
  <1>2. CASE Layout!CanRecalculate(p, change)
    <2>0. Candle \in Layout!Ids /\ MinHeight \in Int
      BY DEF Layout!Ids, Layout!SizesAssumption
    <2>1. Layout!FromCandle(p, wanted, change, h) \in Heights
      BY <2>0 DEF Layout!FromCandle, Layout!MaxOf, Heights
    <2>2. Layout!Given(p, change, h) \in Givings
      BY <1>2, GivenTyped DEF Layout!CanRecalculate
    <2>3. Layout!FromAll(p, wanted, change, h) \in Heights
      BY <2>2 DEF Layout!FromAll, Givings, Heights
    <2> QED
      BY <1>2, <2>1, <2>3 DEF Layout!Recalculate
  <1> QED
    BY <1>1, <1>2

-----------------------------------------------------------------------------
(* What the panes take, and what is measured.                              *)

Takings == [h : Heights, left : Int]

LEMMA TakeTyped ==
    ASSUME Layout!SizesAssumption, height \in Heights, NEW seps, NEW acc \in Takings,
           NEW q \in Layout!Ids
    PROVE  Layout!Take(seps, acc, q) \in Takings
  <1> DEFINE left == acc.left - (IF q \in seps THEN SeparatorSize ELSE 0)
             got == IF height[q] > left THEN left ELSE height[q]
  <1>1. acc.h \in Heights /\ acc.left \in Int /\ height[q] \in Int /\ SeparatorSize \in Int
    BY DEF Takings, Heights, Layout!SizesAssumption
  <1>2. left \in Int /\ got \in Int
    BY <1>1
  <1>3. acc = [h |-> acc.h, left |-> acc.left]
    BY DEF Takings
  <1>4. Layout!Take(seps, acc, q) =
          IF q = Candle \/ ~visible[q] THEN [acc EXCEPT !.left = left]
          ELSE [h |-> [acc.h EXCEPT ![q] = got],
                left |-> IF height[q] > left THEN 0 ELSE left - got]
    BY DEF Layout!Take
  <1> HIDE DEF left, got
  <1>5. [acc EXCEPT !.left = left] \in Takings
    BY <1>2 DEF Takings
  <1>6. [h |-> [acc.h EXCEPT ![q] = got], left |-> IF height[q] > left THEN 0 ELSE left - got]
          \in Takings
    BY <1>1, <1>2 DEF Takings, Heights
  <1> QED
    BY <1>4, <1>5, <1>6

LEMMA TakenSteps ==
    ASSUME Layout!SizesAssumption, OrderTyped, height \in Heights, Layout!Area \in Int, NEW seps
    PROVE  \E f \in [0..Len(order) -> Takings] :
               /\ f[0] = [h |-> height, left |-> Layout!MaxOf(Layout!Area, 0)]
               /\ \A i \in 1..Len(order) : f[i] = Layout!Take(seps, f[i - 1], order[i])
               /\ Layout!Taken(order, seps) = f[Len(order)]
  <1> DEFINE n == Len(order)
             b == [h |-> height, left |-> Layout!MaxOf(Layout!Area, 0)]
             G == [x \in Takings \X (1..n) |-> Layout!Take(seps, x[1], order[x[2]])]
             Is(it) == it = [t \in SUBSET DOMAIN order |->
                               IF t = {} THEN b
                               ELSE Layout!Take(seps, it[t \ {Layout!Max(t)}],
                                                order[Layout!Max(t)])]
             fold == CHOOSE it : Is(it)
             f == [i \in 0..n |-> fold[1..i]]
  <1>0. n \in Nat /\ DOMAIN order = 1..n /\ \A i \in 1..n : order[i] \in Layout!Ids
    BY DEF OrderTyped
  <1>b. b \in Takings
    BY DEF Takings, Layout!MaxOf
  <1>g. G \in [Takings \X (1..n) -> Takings]
    <2> HIDE DEF n
    <2>1. ASSUME NEW x \in Takings \X (1..n)
          PROVE  Layout!Take(seps, x[1], order[x[2]]) \in Takings
      <3>1. x[1] \in Takings /\ order[x[2]] \in Layout!Ids
        BY <1>0
      <3> QED
        BY <3>1, TakeTyped
    <2> QED
      BY <2>1
  <1> HIDE DEF b
  <1>1. \E it : Is(it)
    <2>2. PICK it : IsFold(it, n, Takings, b, G)
      <3> HIDE DEF G, n
      <3> QED
        BY <1>0, <1>b, <1>g, FoldExists
    <2>3. it = [t \in SUBSET (1..n) |-> it[t]]
      BY <2>2 DEF IsFold
    <2>4. ASSUME NEW t \in SUBSET (1..n), t # {}
          PROVE  it[t] = Layout!Take(seps, it[t \ {Layout!Max(t)}], order[Layout!Max(t)])
      <3>1. Layout!Max(t) \in t /\ \A k \in t : k <= Layout!Max(t)
        BY <2>4, <1>0, GreatestPlace
      <3>2. /\ it[t] = G[<<it[t \ {Layout!Max(t)}], Layout!Max(t)>>]
            /\ it[t \ {Layout!Max(t)}] \in Takings
        <4> HIDE DEF G
        <4> QED
          BY <2>2, <3>1 DEF IsFold
      <3> QED
        BY <3>1, <3>2
    <2>5. it[{}] = b
      BY <2>2 DEF IsFold
    <2> HIDE DEF G
    <2>6. Is(it)
      BY <1>0, <2>3, <2>4, <2>5
    <2> QED
      BY <2>6
  <1>2. Is(fold)
    <2> HIDE DEF Is
    <2> QED
      BY <1>1
  <1>3. Layout!Taken(order, seps) = fold[DOMAIN order]
    BY DEF Layout!Taken, Layout!FoldLeft, Layout!MapThenFoldSet, b
  <1> HIDE DEF fold
  <1>4. fold[{}] = b
    BY <1>2
  <1>5. ASSUME NEW i \in 1..n PROVE fold[1..i] = Layout!Take(seps, fold[1..(i - 1)], order[i])
    <2> HIDE DEF n, Is
    <2>1. Layout!Max(1..i) = i /\ (1..i) \ {i} = 1..(i - 1) /\ 1..i # {}
          /\ (1..i) \in SUBSET DOMAIN order
      BY <1>0, GreatestOfFirst
    <2>2. fold[1..i] = Layout!Take(seps, fold[(1..i) \ {Layout!Max(1..i)}],
                                   order[Layout!Max(1..i)])
      BY <1>2, <2>1 DEF Is
    <2> QED
      BY <2>1, <2>2
  <1> DEFINE S == {i \in Nat : i <= n => fold[1..i] \in Takings}
  <1>a. 1..0 = {}
    OBVIOUS
  <1>6. 0 \in S
    BY <1>4, <1>b, <1>a
  <1>7. ASSUME NEW i \in Nat, i \in S PROVE i + 1 \in S
    <2> SUFFICES ASSUME i + 1 <= n PROVE fold[1..(i + 1)] \in Takings
      OBVIOUS
    <2> HIDE DEF n
    <2>1. i + 1 \in 1..n /\ (i + 1) - 1 = i /\ i <= n
      BY <1>0
    <2>2. fold[1..i] \in Takings
      BY <1>7, <2>1
    <2>3. fold[1..(i + 1)] = Layout!Take(seps, fold[1..i], order[i + 1])
      BY <1>5, <2>1
    <2>4. order[i + 1] \in Layout!Ids
      BY <1>0, <2>1
    <2> HIDE DEF Is, G
    <2>5. Layout!Take(seps, fold[1..i], order[i + 1]) \in Takings
      BY <2>2, <2>4, TakeTyped
    <2> QED
      BY <2>3, <2>5
  <1>8. \A i \in Nat : i \in S
    <2> HIDE DEF S, n
    <2> QED
      BY <1>6, <1>7, SetInduction
  <1> HIDE DEF Is, G, n
  <1>9. f \in [0..n -> Takings]
    BY <1>0, <1>8
  <1>10. f[0] = b
    BY <1>0, <1>4, <1>a
  <1>11. ASSUME NEW i \in 1..n PROVE f[i] = Layout!Take(seps, f[i - 1], order[i])
    <2>1. i \in 0..n /\ i - 1 \in 0..n
      BY <1>0
    <2> QED
      BY <1>5, <2>1
  <1>12. Layout!Taken(order, seps) = f[n]
    <2>1. n \in 0..n
      BY <1>0
    <2> QED
      BY <1>0, <1>3, <2>1
  <1> HIDE DEF f
  <1> QED
    BY <1>9, <1>10, <1>11, <1>12 DEF b, n

\* What the panes use, pane by pane from the top.
UsesOf(u) ==
    /\ u \in [0..Len(order) -> Int]
    /\ u[0] = 0
    /\ \A i \in 1..Len(order) : u[i] = u[i - 1] + Layout!Takes(order[i])
    /\ Layout!Used = u[Len(order)]
SizesTyped ==
    Layout!SizesAssumption /\ OrderTyped /\ height \in Heights /\ Layout!Area \in Int

LEMMA UsedSteps == SizesTyped => \E u : UsesOf(u)
  <1> SUFFICES ASSUME SizesTyped PROVE \E u : UsesOf(u)
    OBVIOUS
  <1> DEFINE n == Len(order)
             G == [x \in Int \X (1..n) |-> x[1] + Layout!Takes(order[x[2]])]
             Is(it) == it = [t \in SUBSET DOMAIN order |->
                               IF t = {} THEN 0
                               ELSE it[t \ {Layout!Max(t)}]
                                      + Layout!Takes(order[Layout!Max(t)])]
             fold == CHOOSE it : Is(it)
             u == [i \in 0..n |-> fold[1..i]]
  <1>0. n \in Nat /\ DOMAIN order = 1..n /\ \A i \in 1..n : order[i] \in Layout!Ids
    BY DEF OrderTyped, SizesTyped
  <1>b. \A q \in Layout!Ids : Layout!Takes(q) \in Int
    BY DEF SizesTyped, Layout!Takes, Layout!SizesAssumption, Heights
  <1>g. G \in [Int \X (1..n) -> Int]
    <2> HIDE DEF n
    <2>1. ASSUME NEW x \in Int \X (1..n)
          PROVE  x[1] + Layout!Takes(order[x[2]]) \in Int
      <3>1. x[1] \in Int /\ order[x[2]] \in Layout!Ids
        BY <1>0
      <3>2. Layout!Takes(order[x[2]]) \in Int
        BY <3>1, <1>b
      <3> QED
        BY <3>1, <3>2
    <2> QED
      BY <2>1
  <1>1. \E it : Is(it)
    <2>2. PICK it : IsFold(it, n, Int, 0, G)
      <3>1. 0 \in Int
        OBVIOUS
      <3> HIDE DEF G, n
      <3> QED
        BY <1>0, <1>g, <3>1, FoldExists
    <2>3. it = [t \in SUBSET (1..n) |-> it[t]]
      BY <2>2 DEF IsFold
    <2>4. ASSUME NEW t \in SUBSET (1..n), t # {}
          PROVE  it[t] = it[t \ {Layout!Max(t)}] + Layout!Takes(order[Layout!Max(t)])
      <3>1. Layout!Max(t) \in t /\ \A k \in t : k <= Layout!Max(t)
        BY <2>4, <1>0, GreatestPlace
      <3>2. /\ it[t] = G[<<it[t \ {Layout!Max(t)}], Layout!Max(t)>>]
            /\ it[t \ {Layout!Max(t)}] \in Int
        <4> HIDE DEF G
        <4> QED
          BY <2>2, <3>1 DEF IsFold
      <3> QED
        BY <3>1, <3>2
    <2>5. it[{}] = 0
      BY <2>2 DEF IsFold
    <2> HIDE DEF G
    <2>6. Is(it)
      BY <1>0, <2>3, <2>4, <2>5
    <2> QED
      BY <2>6
  <1>2. Is(fold)
    <2> HIDE DEF Is
    <2> QED
      BY <1>1
  <1>3. Layout!Used = fold[DOMAIN order]
    BY DEF Layout!Used, Layout!FoldLeft, Layout!MapThenFoldSet
  <1> HIDE DEF fold
  <1>4. fold[{}] = 0
    BY <1>2
  <1>5. ASSUME NEW i \in 1..n PROVE fold[1..i] = fold[1..(i - 1)] + Layout!Takes(order[i])
    <2> HIDE DEF n, Is
    <2>1. Layout!Max(1..i) = i /\ (1..i) \ {i} = 1..(i - 1) /\ 1..i # {}
          /\ (1..i) \in SUBSET DOMAIN order
      BY <1>0, GreatestOfFirst
    <2>2. fold[1..i] = fold[(1..i) \ {Layout!Max(1..i)}]
                         + Layout!Takes(order[Layout!Max(1..i)])
      BY <1>2, <2>1 DEF Is
    <2> QED
      BY <2>1, <2>2
  <1> DEFINE S == {i \in Nat : i <= n => fold[1..i] \in Int}
  <1>a. 1..0 = {}
    OBVIOUS
  <1>6. 0 \in S
    BY <1>4, <1>a
  <1>7. ASSUME NEW i \in Nat, i \in S PROVE i + 1 \in S
    <2> SUFFICES ASSUME i + 1 <= n PROVE fold[1..(i + 1)] \in Int
      OBVIOUS
    <2> HIDE DEF n
    <2>1. i + 1 \in 1..n /\ (i + 1) - 1 = i /\ i <= n
      BY <1>0
    <2>2. fold[1..i] \in Int
      BY <1>7, <2>1
    <2>3. fold[1..(i + 1)] = fold[1..i] + Layout!Takes(order[i + 1])
      BY <1>5, <2>1
    <2>4. Layout!Takes(order[i + 1]) \in Int
      BY <1>0, <1>b, <2>1
    <2> QED
      BY <2>2, <2>3, <2>4
  <1>8. \A i \in Nat : i \in S
    <2> HIDE DEF S, n
    <2> QED
      BY <1>6, <1>7, SetInduction
  <1> HIDE DEF Is, G, n
  <1>9. u \in [0..n -> Int]
    BY <1>0, <1>8
  <1>10. u[0] = 0
    BY <1>0, <1>4, <1>a
  <1>11. ASSUME NEW i \in 1..n PROVE u[i] = u[i - 1] + Layout!Takes(order[i])
    <2>1. i \in 0..n /\ i - 1 \in 0..n
      BY <1>0
    <2> QED
      BY <1>5, <2>1
  <1>12. Layout!Used = u[n]
    <2>1. n \in 0..n
      BY <1>0
    <2> QED
      BY <1>0, <1>3, <2>1
  <1> HIDE DEF u
  <1> QED
    BY <1>9, <1>10, <1>11, <1>12 DEF n, UsesOf

\* The same after a step.
LEMMA UsedStepsAfter == SizesTyped' => (\E u : UsesOf(u))'
  BY UsedSteps, PTL

-----------------------------------------------------------------------------
(* The layout.                                                             *)

States == {"new", "normal", "minimize", "maximize", "removed"}
Options == {"sort", "height"}
Gestures == [top : Layout!Ids, bottom : Layout!Ids \cup {XAxis},
             topHeight : Int, bottomHeight : Int]

PanesTyped ==
    /\ OrderTyped /\ height \in Heights /\ original \in Heights
    /\ state \in [Layout!Ids -> States] /\ visible \in [Layout!Ids -> BOOLEAN]
    /\ total \in Totals /\ (drag # None => drag \in Gestures)
    /\ asked \subseteq Options /\ (asked # {} => "height" \in asked)

\* A pane on the chart was made, and one not made yet is still shown.
MadeOnce ==
    /\ \A i \in DOMAIN order : state[order[i]] # "new"
    /\ \A p \in Layout!Ids : state[p] = "new" => visible[p]

\* While the candle pane is shown, a pane below one shown is shown: only panes
\* made since the candle pane was maximized are in view with it.
ShownToTheEnd == \A i, j \in 2..Len(order) : i < j /\ visible[order[i]] => visible[order[j]]
ShownBelow == visible[Candle] => ShownToTheEnd

\* Every pane but the first has its separator, unless a sort is asked for.
Separated == "sort" \notin asked => separated = Layout!ToSet(Tail(order))

\* A hidden separator is one of a pane on the chart, and beside the candle pane
\* there is one only while that pane is maximized.
Hiding ==
    "sort" \notin asked =>
        /\ hidden \subseteq Layout!OnChart
        /\ visible[Candle] /\ hidden # {} => state[Candle] = "maximize"

PanesInv ==
    PanesTyped /\ MadeOnce /\ ShownBelow /\ Separated /\ Hiding /\ Layout!PanesFillChart

LEMMA AllSizes == Layout!SizesAssumption /\ PanesTyped => SizesTyped
  BY DEF PanesTyped, SizesTyped, Layout!Area, Layout!SizesAssumption

LEMMA SeparatorsBelow ==
    ASSUME OrderTyped
    PROVE  /\ Candle \notin Layout!ToSet(Tail(order))
           /\ \A i \in 2..Len(order) : order[i] \in Layout!ToSet(Tail(order))
  <1> DEFINE n == Len(order)
             below == Tail(order)
  <1>1. n \in Nat /\ n >= 1 /\ DOMAIN order = 1..n
    BY DEF OrderTyped
  <1>2. /\ below \in Seq(Layout!Ids) /\ Len(below) = n - 1 /\ DOMAIN below = 1..(n - 1)
        /\ \A i \in 1..(n - 1) : below[i] = order[i + 1]
    BY <1>1 DEF OrderTyped
  <1>3. Layout!ToSet(below) = {order[i + 1] : i \in 1..(n - 1)}
    <2> HIDE DEF below, n
    <2> QED
      BY <1>2 DEF Layout!ToSet
  <1> HIDE DEF below
  <1>4. ASSUME NEW i \in 1..(n - 1), order[i + 1] = Candle PROVE FALSE
    <2>1. i + 1 \in DOMAIN order /\ 1 \in DOMAIN order
      BY <1>1
    <2>2. i + 1 = 1
      BY <1>4, <2>1 DEF OrderTyped
    <2> QED
      BY <2>2
  <1>5. ASSUME NEW i \in 2..n PROVE order[i] \in Layout!ToSet(below)
    <2>1. i - 1 \in 1..(n - 1) /\ (i - 1) + 1 = i
      BY <1>1
    <2> QED
      BY <1>3, <2>1
  <1> QED
    BY <1>3, <1>4, <1>5 DEF below

Shown(p) == visible[p]
ShownHeight(tall, p) == IF Shown(p) THEN tall[p] ELSE 0

\* What one pane takes of what is left, and what that leaves.
LEMMA TakeOne ==
    ASSUME SizesTyped, NEW seps, NEW acc \in Takings, NEW i \in 2..Len(order),
           order[i] \in seps
    PROVE  /\ Layout!Take(seps, acc, order[i]).left =
                acc.left - SeparatorSize
                  - ShownHeight(Layout!Take(seps, acc, order[i]).h, order[i])
           /\ Shown(order[i]) => Layout!Take(seps, acc, order[i]).left >= 0
           /\ \A k \in Layout!Ids \ {order[i]} :
                  Layout!Take(seps, acc, order[i]).h[k] = acc.h[k]
  <1> DEFINE q == order[i]
             left == acc.left - SeparatorSize
             got == IF height[q] > left THEN left ELSE height[q]
             next == Layout!Take(seps, acc, q)
  <1>1. Len(order) \in Nat /\ DOMAIN order = 1..Len(order)
    BY DEF SizesTyped, OrderTyped
  <1>2. i \in DOMAIN order /\ 1 \in DOMAIN order /\ i # 1
    BY <1>1
  <1>3. q \in Layout!Ids /\ q # Candle
    BY <1>1, <1>2 DEF SizesTyped, OrderTyped
  <1>4. acc.h \in Heights /\ acc.left \in Int /\ height[q] \in Int /\ SeparatorSize \in Int
    BY <1>3 DEF SizesTyped, Takings, Heights, Layout!SizesAssumption
  <1>5. left \in Int /\ got \in Int
    BY <1>4
  <1>6. acc = [h |-> acc.h, left |-> acc.left]
    BY DEF Takings
  <1>7. next = IF ~visible[q] THEN [acc EXCEPT !.left = left]
               ELSE [h |-> [acc.h EXCEPT ![q] = got],
                     left |-> IF height[q] > left THEN 0 ELSE left - got]
    BY <1>3 DEF Layout!Take
  <1> HIDE DEF next, q
  <1>8. CASE ~visible[q]
    <2>1. next.left = left /\ next.h = acc.h
      BY <1>6, <1>7, <1>8
    <2> QED
      BY <1>5, <1>8, <2>1 DEF q, next, ShownHeight, Shown
  <1>9. CASE visible[q]
    <2>1. next.h = [acc.h EXCEPT ![q] = got]
      BY <1>7, <1>9
    <2>2. next.left = IF height[q] > left THEN 0 ELSE left - got
      BY <1>7, <1>9
    <2>3. next.h[q] = got /\ \A k \in Layout!Ids \ {q} : next.h[k] = acc.h[k]
      BY <1>3, <1>4, <2>1 DEF Heights
    <2>4. next.left = left - got /\ next.left >= 0
      BY <1>4, <2>2
    <2> QED
      BY <1>5, <1>9, <2>3, <2>4 DEF q, next, ShownHeight, Shown
  <1> QED
    BY <1>8, <1>9

\* What a pane takes, of some separators and heights.
TakesOf(seps, tall, p) == (IF p \in seps THEN SeparatorSize ELSE 0) + ShownHeight(tall, p)

\* What is taken from one side is added to the other.
LEMMA TakenIsAdded ==
    ASSUME NEW a \in Int, NEW b \in Int, NEW l \in Int, NEW r \in Int, NEW s \in Int,
           NEW t \in Int, l = r - s - t, a = b + (s + t)
    PROVE  a + l = b + r
  OBVIOUS

\* What the panes take of the chart and what the candle pane gets are
\* together what there was.
LEMMA MeasuredFills ==
    ASSUME SizesTyped, ShownToTheEnd, Shown(Candle),
           Layout!Area >= SeparatorSize * Len(order),
           NEW seps, Candle \notin seps, \A i \in 2..Len(order) : order[i] \in seps,
           NEW tall, tall = Layout!Measure(order, seps),
           NEW u \in [0..Len(order) -> Int], u[0] = 0,
           \A i \in 1..Len(order) :
               u[i] = u[i - 1] + TakesOf(seps, tall, order[i])
    PROVE  u[Len(order)] = Layout!Area
  <1> DEFINE n == Len(order)
             area == Layout!Area
             b == [h |-> height, left |-> Layout!MaxOf(area, 0)]
  <1>0. /\ n \in Nat /\ n >= 1 /\ DOMAIN order = 1..n /\ order[1] = Candle
        /\ \A i \in 1..n : order[i] \in Layout!Ids
        /\ area \in Int /\ SeparatorSize \in Nat
    BY DEF SizesTyped, OrderTyped, Layout!SizesAssumption
  <1>1. PICK f \in [0..n -> Takings] :
            /\ f[0] = b
            /\ \A i \in 1..n : f[i] = Layout!Take(seps, f[i - 1], order[i])
            /\ Layout!Taken(order, seps) = f[n]
    BY TakenSteps DEF SizesTyped
  <1>n. SeparatorSize * n \in Nat
    BY <1>0
  <1>2. area >= 0
    BY <1>0, <1>n
  <1>3. b.left = area
    BY <1>0, <1>2 DEF Layout!MaxOf
  <1> HIDE DEF n, area, b
  <1>4. \A i \in 0..n : /\ f[i] \in Takings /\ f[i].h \in Heights /\ f[i].left \in Int
                        /\ f[i] = [h |-> f[i].h, left |-> f[i].left]
    BY <1>1 DEF Takings
  <1>5. f[1].left = area
    <2>1. 1 \in 1..n /\ 0 \in 0..n /\ 1 - 1 = 0
      BY <1>0
    <2>2. f[1] = Layout!Take(seps, f[0], Candle)
      BY <1>0, <1>1, <2>1
    <2>3. f[1] = [f[0] EXCEPT !.left = f[0].left - 0]
      BY <2>2 DEF Layout!Take
    <2>4. f[1].left = f[0].left - 0
      BY <1>4, <2>1, <2>3
    <2> QED
      BY <1>0, <1>1, <1>3, <2>4
  <1>6. ASSUME NEW i \in 2..n
        PROVE  /\ f[i].left = f[i - 1].left - SeparatorSize
                                - ShownHeight(f[i].h, order[i])
               /\ Shown(order[i]) => f[i].left >= 0
               /\ \A k \in Layout!Ids \ {order[i]} : f[i].h[k] = f[i - 1].h[k]
    <2>1. i \in 1..n /\ i - 1 \in 0..n /\ i \in 2..Len(order) /\ order[i] \in seps
      BY <1>0 DEF n
    <2>2. f[i - 1] \in Takings
      BY <1>4, <2>1
    <2> DEFINE next == Layout!Take(seps, f[i - 1], order[i])
    <2>3. /\ next.left = f[i - 1].left - SeparatorSize - ShownHeight(next.h, order[i])
          /\ Shown(order[i]) => next.left >= 0
          /\ \A k \in Layout!Ids \ {order[i]} : next.h[k] = f[i - 1].h[k]
      BY <2>1, <2>2, TakeOne
    <2>4. f[i] = next
      BY <1>1, <2>1
    <2> HIDE DEF next
    <2> QED
      BY <2>3, <2>4
  \* A pane keeps what it took.
  <1>7. ASSUME NEW i \in 2..n PROVE f[n].h[order[i]] = f[i].h[order[i]]
    <2> DEFINE S == {j \in Nat : i + j <= n => f[i + j].h[order[i]] = f[i].h[order[i]]}
    <2>1. 0 \in S
      <3>1. i + 0 = i
        OBVIOUS
      <3> QED
        BY <3>1
    <2>2. ASSUME NEW j \in Nat, j \in S PROVE j + 1 \in S
      <3> SUFFICES ASSUME i + (j + 1) <= n PROVE f[i + (j + 1)].h[order[i]] = f[i].h[order[i]]
        OBVIOUS
      <3> DEFINE k == i + (j + 1)
      <3>1. k \in 2..n /\ k - 1 = i + j /\ i + j <= n /\ k # i /\ k \in 1..n /\ i \in 1..n
        BY <1>0
      <3>2. order[i] \in Layout!Ids /\ order[i] # order[k]
        BY <1>0, <3>1 DEF SizesTyped, OrderTyped
      <3> HIDE DEF k
      <3>3. f[k].h[order[i]] = f[k - 1].h[order[i]]
        BY <1>6, <3>1, <3>2
      <3>4. f[i + j].h[order[i]] = f[i].h[order[i]]
        BY <2>2, <3>1
      <3> QED
        BY <3>1, <3>3, <3>4 DEF k
    <2>3. n - i \in Nat /\ i + (n - i) = n
      BY <1>0
    <2>4. n - i \in S
      <3> HIDE DEF S
      <3> QED
        BY <2>1, <2>2, <2>3, SetInduction
    <2> QED
      BY <2>3, <2>4
  <1>8. /\ tall = [f[n].h EXCEPT ![Candle] = Layout!MaxOf(f[n].left, 0)]
        /\ n \in 0..n /\ Candle \in Layout!Ids
    BY <1>0, <1>1 DEF Layout!Measure, n, Layout!Ids
  <1>9. tall[Candle] = Layout!MaxOf(f[n].left, 0)
    BY <1>4, <1>8 DEF Heights
  <1>10. ASSUME NEW i \in 2..n
         PROVE  /\ ShownHeight(tall, order[i]) = ShownHeight(f[i].h, order[i])
                /\ ShownHeight(tall, order[i]) \in Int
                /\ u[i] = u[i - 1] + (SeparatorSize + ShownHeight(tall, order[i]))
    <2>1. i \in 1..n /\ i # 1 /\ 1 \in 1..n /\ i \in 0..n
      BY <1>0
    <2>2. order[i] \in Layout!Ids /\ order[i] # Candle
      BY <1>0, <2>1 DEF SizesTyped, OrderTyped
    <2>3. tall[order[i]] = f[n].h[order[i]]
      BY <1>4, <1>8, <2>2 DEF Heights
    <2>4. f[i].h[order[i]] \in Int
      BY <1>4, <2>1, <2>2 DEF Heights
    <2>5. u[i] = u[i - 1] + TakesOf(seps, tall, order[i])
      BY <2>1 DEF n
    <2>6. TakesOf(seps, tall, order[i]) =
            SeparatorSize + ShownHeight(tall, order[i])
      <3>1. i \in 2..Len(order)
        BY DEF n
      <3> QED
        BY <3>1 DEF TakesOf
    <2>7. tall[order[i]] = f[i].h[order[i]]
      BY <1>7, <2>3
    <2>8. /\ ShownHeight(tall, order[i]) = ShownHeight(f[i].h, order[i])
          /\ ShownHeight(tall, order[i]) \in Int
      BY <2>4, <2>7 DEF ShownHeight
    <2> QED
      BY <2>5, <2>6, <2>8
  <1>11. u[1] = tall[Candle]
    <2>1. 1 \in 1..Len(order) /\ 1 - 1 = 0 /\ tall[Candle] \in Int
      BY <1>0, <1>4, <1>8, <1>9 DEF Layout!MaxOf, n
    <2>2. u[1] = u[0] + (0 + tall[Candle])
      <3>1. ShownHeight(tall, Candle) = tall[Candle]
        BY DEF ShownHeight
      <3> QED
        BY <1>0, <2>1, <3>1 DEF TakesOf
    <2> QED
      BY <2>1, <2>2
  <1>12. \A i \in 0..n : u[i] \in Int
    BY DEF n
  <1>13. u[n] + f[n].left = u[1] + area
    <2> DEFINE S == {j \in Nat : 1 + j <= n => u[1 + j] + f[1 + j].left = u[1] + area}
    <2>1. 0 \in S
      <3>1. 1 + 0 = 1
        OBVIOUS
      <3> QED
        BY <1>5, <3>1
    <2>2. ASSUME NEW j \in Nat, j \in S PROVE j + 1 \in S
      <3> SUFFICES ASSUME 1 + (j + 1) <= n
                   PROVE  u[1 + (j + 1)] + f[1 + (j + 1)].left = u[1] + area
        OBVIOUS
      <3> DEFINE k == 1 + (j + 1)
      <3>1. k \in 2..n /\ k - 1 = 1 + j /\ 1 + j <= n /\ k \in 0..n /\ k - 1 \in 0..n
        BY <1>0
      <3>2. u[k - 1] + f[k - 1].left = u[1] + area
        BY <2>2, <3>1
      <3> HIDE DEF k
      <3> DEFINE took == ShownHeight(tall, order[k])
      <3>3. /\ took \in Int /\ f[k].left = f[k - 1].left - SeparatorSize - took
            /\ u[k] = u[k - 1] + (SeparatorSize + took)
        <4>1. /\ took \in Int /\ took = ShownHeight(f[k].h, order[k])
              /\ u[k] = u[k - 1] + (SeparatorSize + took)
          BY <1>10, <3>1
        <4>2. f[k].left = f[k - 1].left - SeparatorSize - ShownHeight(f[k].h, order[k])
          BY <1>6, <3>1
        <4> QED
          BY <4>1, <4>2
      <3>4. /\ f[k].left \in Int /\ f[k - 1].left \in Int /\ u[k] \in Int /\ u[k - 1] \in Int
        BY <1>4, <1>12, <3>1
      <3> HIDE DEF took
      <3>6. u[k] + f[k].left = u[k - 1] + f[k - 1].left
        <4>1. SeparatorSize \in Int
          BY <1>0
        <4> QED
          BY ONLY <3>3, <3>4, <4>1, TakenIsAdded
      <3> QED
        BY <3>2, <3>6 DEF k
    <2>3. n - 1 \in Nat /\ 1 + (n - 1) = n
      BY <1>0
    <2>4. n - 1 \in S
      <3> HIDE DEF S
      <3> QED
        BY <2>1, <2>2, <2>3, SetInduction
    <2> QED
      BY <2>3, <2>4
  <1>14. f[n].left >= 0
    <2>1. CASE n = 1
      BY <1>2, <1>5, <2>1
    <2>2. CASE n > 1 /\ Shown(order[n])
      <3>1. n \in 2..n
        BY <1>0, <2>2
      <3> QED
        BY <1>6, <2>2, <3>1
    \* A pane shown above one that is not: none below the candle pane is.
    <2>3. CASE n > 1 /\ ~Shown(order[n])
      <3>1. ASSUME NEW i \in 2..n PROVE ~Shown(order[i])
        <4>1. CASE i = n
          BY <2>3, <4>1
        <4>2. CASE i # n
          <5>1. i < n /\ n \in 2..n
            BY <1>0, <2>3, <4>2
          <5> QED
            BY <2>3, <5>1 DEF ShownToTheEnd, Shown, n
        <4> QED
          BY <4>1, <4>2
      <3> DEFINE S == {j \in Nat : 1 + j <= n => f[1 + j].left = area - SeparatorSize * j}
      <3>2. 0 \in S
        <4>1. 1 + 0 = 1 /\ SeparatorSize * 0 = 0
          BY <1>0
        <4> QED
          BY <1>0, <1>5, <4>1
      <3>3. ASSUME NEW j \in Nat, j \in S PROVE j + 1 \in S
        <4> SUFFICES ASSUME 1 + (j + 1) <= n
                     PROVE  f[1 + (j + 1)].left = area - SeparatorSize * (j + 1)
          OBVIOUS
        <4> DEFINE k == 1 + (j + 1)
        <4>1. k \in 2..n /\ k - 1 = 1 + j /\ 1 + j <= n
          BY <1>0
        <4>2. f[k - 1].left = area - SeparatorSize * j
          BY <3>3, <4>1
        <4> HIDE DEF k
        <4>3. f[k].left = f[k - 1].left - SeparatorSize - 0
          BY <1>6, <3>1, <4>1 DEF ShownHeight
        <4>4. area - SeparatorSize * j - SeparatorSize - 0 = area - SeparatorSize * (j + 1)
          BY <1>0
        <4> QED
          BY <4>2, <4>3, <4>4 DEF k
      <3>4. n - 1 \in Nat /\ 1 + (n - 1) = n
        BY <1>0
      <3>5. n - 1 \in S
        <4> HIDE DEF S
        <4> QED
          BY <3>2, <3>3, <3>4, SetInduction
      <3>6. f[n].left = area - SeparatorSize * (n - 1)
        BY <3>4, <3>5
      <3>7. SeparatorSize * (n - 1) = SeparatorSize * n - SeparatorSize
        BY <1>0
      <3>8. area >= SeparatorSize * n
        BY DEF area, n
      <3> QED
        BY <1>0, <1>n, <3>6, <3>7, <3>8
    <2> QED
      BY <1>0, <2>1, <2>2, <2>3
  <1>15. u[1] = f[n].left
    BY <1>4, <1>8, <1>9, <1>11, <1>14 DEF Layout!MaxOf
  <1>16. u[n] \in Int /\ f[n].left \in Int
    BY <1>4, <1>8, <1>12
  <1>17. u[n] = area
    BY <1>0, <1>13, <1>15, <1>16
  <1> QED
    BY <1>17 DEF n, area

LEMMA MeasureTyped ==
    ASSUME SizesTyped, NEW seps
    PROVE  Layout!Measure(order, seps) \in Heights
  <1>1. Layout!Taken(order, seps) \in Takings
    <2>1. Len(order) \in 0..Len(order)
      BY DEF SizesTyped, OrderTyped
    <2> QED
      BY <2>1, TakenSteps DEF SizesTyped
  <1> DEFINE all == Layout!Taken(order, seps)
  <1>2. all.h \in Heights /\ all.left \in Int
    BY <1>1 DEF Takings
  <1>3. Layout!Measure(order, seps) = [all.h EXCEPT ![Candle] = Layout!MaxOf(all.left, 0)]
    BY DEF Layout!Measure
  <1>4. Layout!MaxOf(all.left, 0) \in Int
    BY <1>2 DEF Layout!MaxOf
  <1> HIDE DEF all
  <1> QED
    BY <1>2, <1>3, <1>4 DEF Heights

\* The layout puts the separators and measures the panes.
LEMMA LaidOutKeeps ==
    ASSUME Layout!SizesAssumption, PanesInv, Layout!DoLayout
    PROVE  PanesInv'
  <1>1. SizesTyped
    BY AllSizes DEF PanesInv
  <1>2. /\ asked # {} /\ "height" \in asked /\ asked' = {}
        /\ height' = Layout!Measure(order, separated')
        /\ hidden' = IF "sort" \in asked THEN {} ELSE hidden
        /\ UNCHANGED <<order, original, state, visible, total, drag>>
    BY DEF Layout!DoLayout, PanesInv, PanesTyped
  <1>3. separated' = Layout!ToSet(Tail(order))
    BY DEF Layout!DoLayout, PanesInv, Separated
  <1>4. height' \in Heights
    BY <1>1, <1>2, MeasureTyped
  <1>5. OrderTyped'
    BY <1>2 DEF PanesInv, PanesTyped, OrderTyped
  <1>6. PanesTyped'
    BY <1>2, <1>4, <1>5 DEF PanesInv, PanesTyped
  <1>7. MadeOnce' /\ ShownBelow'
    BY <1>2 DEF PanesInv, MadeOnce, ShownBelow, ShownToTheEnd
  <1>8. Separated'
    BY <1>2, <1>3 DEF Separated
  <1>9. SizesTyped'
    BY <1>2, <1>4, <1>5, <1>1 DEF SizesTyped, Layout!Area, Layout!SizesAssumption
  <1>11. Hiding'
    BY <1>2 DEF PanesInv, Hiding, Layout!OnChart, Layout!ToSet
  <1>10. Layout!PanesFillChart'
    <2>0. visible'[Candle] /\ hidden' # {} => state'[Candle] = "maximize"
      BY ONLY <1>2, <1>11 DEF Hiding
    <2>a. Layout!Area' = Layout!Area
      BY <1>2 DEF Layout!Area
    <2>b. /\ visible' = visible /\ order' = order
          /\ height' = Layout!Measure(order, separated')
      BY <1>2
    <2>c. SUFFICES ASSUME visible'[Candle], Layout!Area' >= SeparatorSize * Len(order')
                   PROVE  Layout!Used' = Layout!Area'
      BY <2>0, Zenon DEF Layout!PanesFillChart
    <2>1. visible[Candle] /\ Layout!Area >= SeparatorSize * Len(order)
      BY ONLY <2>a, <2>b, <2>c
    <2>2. PICK u : UsesOf(u)'
      BY <1>9, UsedStepsAfter
    <2>3. /\ Layout!Used' = u[Len(order)] /\ u \in [0..Len(order) -> Int] /\ u[0] = 0
          /\ \A i \in 1..Len(order) : u[i] = u[i - 1] + Layout!Takes(order[i])'
      BY <1>2, <2>2 DEF UsesOf
    <2>4. \A i \in 1..Len(order) :
              Layout!Takes(order[i])' = TakesOf(separated', height', order[i])
      BY <1>2 DEF Layout!Takes, TakesOf, ShownHeight, Shown
    <2>5. \A i \in 1..Len(order) : u[i] = u[i - 1] + TakesOf(separated', height', order[i])
      BY <2>3, <2>4
    <2>6. Candle \notin separated' /\ \A i \in 2..Len(order) : order[i] \in separated'
      BY <1>3, SeparatorsBelow DEF PanesInv, PanesTyped
    <2>7. ShownToTheEnd /\ Shown(Candle)
      BY <2>1 DEF PanesInv, ShownBelow, Shown
    <2>8. u[Len(order)] = Layout!Area
      BY ONLY <1>1, <2>b, <2>1, <2>3, <2>5, <2>6, <2>7, Layout!SizesAssumption, MeasuredFills
    <2> QED
      BY ONLY <2>3, <2>8, <2>a
  <1> QED
    BY <1>6, <1>7, <1>8, <1>10, <1>11 DEF PanesInv

\* A gesture that changes no pane.
LEMMA QuietKeeps ==
    ASSUME PanesInv, drag' # None => drag' \in Gestures,
           UNCHANGED <<order, height, original, state, visible, separated, hidden, total,
                       asked>>
    PROVE  PanesInv'
  <1>1. PanesTyped'
    BY DEF PanesInv, PanesTyped, OrderTyped
  <1>2. MadeOnce' /\ ShownBelow' /\ Separated' /\ Hiding'
    BY DEF PanesInv, MadeOnce, ShownBelow, ShownToTheEnd, Separated, Hiding,
           Layout!OnChart, Layout!ToSet
  <1>3. Layout!Used' = Layout!Used
    BY DEF Layout!Used, Layout!Takes, Layout!FoldLeft, Layout!MapThenFoldSet
  <1>4. Layout!PanesFillChart'
    BY <1>3 DEF PanesInv, Layout!PanesFillChart, Layout!Area
  <1> QED
    BY <1>1, <1>2, <1>4 DEF PanesInv

\* What leaves the panes and their separators shown as they were.
LEMMA HidingKept ==
    ASSUME Hiding, Layout!Layout({"height"}),
           UNCHANGED <<order, state, visible, hidden>>
    PROVE  Hiding'
  BY DEF Hiding, Layout!Layout, Layout!OnChart, Layout!ToSet

\* A call that asks for a layout and leaves the order alone.
LEMMA AskKeeps ==
    ASSUME PanesInv, Layout!Layout({"height"}), UNCHANGED <<order, separated>>,
           total' \in Totals, drag' # None => drag' \in Gestures,
           height' \in Heights, original' \in Heights,
           state' \in [Layout!Ids -> States], visible' \in [Layout!Ids -> BOOLEAN],
           MadeOnce', ShownBelow', Hiding'
    PROVE  PanesInv'
  <1>1. asked' = asked \cup {"height"}
    BY DEF Layout!Layout
  <1>2. PanesTyped'
    BY <1>1 DEF PanesInv, PanesTyped, OrderTyped, Options
  <1>3. Separated'
    BY <1>1 DEF PanesInv, Separated
  <1>4. Layout!PanesFillChart'
    BY <1>1 DEF Layout!PanesFillChart
  <1> QED
    BY <1>2, <1>3, <1>4 DEF PanesInv

\* The least of some places.
LEMMA LeastPlace ==
    ASSUME NEW n \in Nat, NEW s \in SUBSET (1..n), s # {}
    PROVE  Layout!Min(s) \in s
  <1> DEFINE back == {n + 1 - k : k \in s}
  <1>1. back \in SUBSET (1..n) /\ back # {}
    <2>1. \A k \in s : n + 1 - k \in 1..n
      OBVIOUS
    <2> QED
      BY <2>1
  <1>2. PICK m \in back : \A k \in back : m >= k
    <2> HIDE DEF back
    <2> QED
      BY <1>1, HasGreatest
  <1>3. PICK l \in s : m = n + 1 - l
    BY <1>2
  <1>4. \A k \in s : n + 1 - k \in back
    OBVIOUS
  <1>5. \A k \in s : k \in 1..n
    OBVIOUS
  <1>6. ASSUME NEW k \in s PROVE l <= k
    <2>1. m >= n + 1 - k
      BY <1>2, <1>4
    <2> QED
      BY <1>3, <1>5, <2>1
  <1> QED
    BY <1>6 DEF Layout!Min

LEMMA PanesAroundTyped ==
    ASSUME OrderTyped, NEW i \in 1..Len(order)
    PROVE  /\ Layout!PaneAbove(i) \in Layout!Ids
           /\ Layout!PaneBelow(i) \in Layout!Ids \cup {XAxis}
  <1>1. /\ Len(order) \in Nat /\ DOMAIN order = 1..Len(order)
        /\ \A j \in 1..Len(order) : order[j] \in Layout!Ids
    BY DEF OrderTyped
  <1>2. /\ Layout!Open(1..i) \in SUBSET (1..Len(order))
        /\ Layout!Open(i..Len(order)) \in SUBSET (1..Len(order))
    BY <1>1 DEF Layout!Open
  <1>3. Layout!Open(1..i) # {} => Layout!Max(Layout!Open(1..i)) \in 1..Len(order)
    <2> HIDE DEF Layout!Open
    <2> QED
      BY <1>1, <1>2, GreatestPlace
  <1>4. Layout!Open(i..Len(order)) # {} =>
            Layout!Min(Layout!Open(i..Len(order))) \in 1..Len(order)
    <2> HIDE DEF Layout!Open
    <2> QED
      BY <1>1, <1>2, LeastPlace
  <1> QED
    BY <1>1, <1>3, <1>4 DEF Layout!PaneAbove, Layout!PaneBelow

LEMMA PressKeeps == ASSUME Layout!SizesAssumption, PanesInv, Layout!Press PROVE PanesInv'
  <1>1. PICK i \in 2..Len(order) :
            LET top == Layout!PaneAbove(i - 1)
                bottom == Layout!PaneBelow(i)
            IN  drag' = [top |-> top, bottom |-> bottom,
                         topHeight |-> Layout!HeightOf(top),
                         bottomHeight |-> Layout!HeightOf(bottom)]
    BY DEF Layout!Press
  <1>2. i - 1 \in 1..Len(order) /\ i \in 1..Len(order)
    BY DEF PanesInv, PanesTyped, OrderTyped
  <1>3. Layout!PaneAbove(i - 1) \in Layout!Ids /\ Layout!PaneBelow(i) \in Layout!Ids \cup {XAxis}
    BY <1>2, PanesAroundTyped DEF PanesInv, PanesTyped
  <1>4. \A p \in Layout!Ids \cup {XAxis} : Layout!HeightOf(p) \in Int
    BY DEF Layout!HeightOf, PanesInv, PanesTyped, Heights, Layout!SizesAssumption
  <1>5. drag' \in Gestures
    BY <1>1, <1>3, <1>4 DEF Gestures
  <1> QED
    BY <1>5, QuietKeeps DEF Layout!Press

LEMMA ReleaseKeeps == ASSUME PanesInv, Layout!Release PROVE PanesInv'
  BY QuietKeeps DEF Layout!Release

LEMMA DragKeeps ==
    ASSUME Layout!SizesAssumption, PanesInv, Layout!Drag
    PROVE  PanesInv'
  <1>1. drag \in Gestures
    BY DEF Layout!Drag, PanesInv, PanesTyped
  <1>2. /\ drag.topHeight \in Int
        /\ drag.bottomHeight \in Int
    BY <1>1 DEF Gestures
  <1>3. PICK d \in Drags :
            LET up == d < 0
                less == IF up THEN drag.top ELSE drag.bottom
                grown == IF up THEN drag.bottom ELSE drag.top
                lessHeight == IF up THEN drag.topHeight ELSE drag.bottomHeight
                grownHeight == IF up THEN drag.bottomHeight ELSE drag.topHeight
                reduced == Layout!Reduced(lessHeight, Layout!Distance(d))
            IN  height' = [p \in Layout!Ids |->
                               CASE p = grown -> grownHeight + lessHeight - reduced
                                 [] p = less /\ p # grown -> reduced
                                 [] OTHER -> height[p]]
    BY DEF Layout!Drag
  <1>4. d \in Int /\ MinHeight \in Int
    <2>1. Drags \subseteq Int /\ MinHeight \in Nat
      BY DEF Layout!SizesAssumption
    <2> QED
      BY <1>3, <2>1
  <1>5. height' \in Heights
    BY <1>2, <1>3, <1>4
       DEF PanesInv, PanesTyped, Heights, Layout!Reduced, Layout!Distance, Layout!MaxOf
  <1>6. /\ Layout!Layout({"height"})
        /\ UNCHANGED <<order, original, state, visible, separated, hidden, total, drag>>
    BY DEF Layout!Drag
  <1>7. MadeOnce' /\ ShownBelow'
    BY <1>6 DEF PanesInv, MadeOnce, ShownBelow, ShownToTheEnd
  <1>8. Hiding'
    BY <1>6, HidingKept DEF PanesInv
  <1> QED
    BY <1>5, <1>6, <1>7, <1>8, AskKeeps DEF PanesInv, PanesTyped

LEMMA ResizeKeeps == ASSUME PanesInv, Layout!Resize PROVE PanesInv'
  <1>1. /\ Layout!Layout({"height"}) /\ total' \in Totals
        /\ UNCHANGED <<order, height, original, state, visible, separated, hidden, drag>>
    BY DEF Layout!Resize
  <1>2. MadeOnce' /\ ShownBelow'
    BY <1>1 DEF PanesInv, MadeOnce, ShownBelow, ShownToTheEnd
  <1>3. Hiding'
    BY <1>1, HidingKept DEF PanesInv
  <1> QED
    BY <1>1, <1>2, <1>3, AskKeeps DEF PanesInv, PanesTyped

LEMMA DefaultTyped ==
    ASSUME Layout!SizesAssumption
    PROVE  /\ Layout!MaxOf(MinHeight, DefaultHeight) \in Int
           /\ -Layout!MaxOf(MinHeight, DefaultHeight) \in Int
  BY DEF Layout!SizesAssumption, Layout!MaxOf

LEMMA SetHeightKeeps ==
    ASSUME Layout!SizesAssumption, PanesInv, NEW p \in Layout!Ids, Layout!SetPaneHeight(p)
    PROVE  PanesInv'
  <1> DEFINE wanted == Layout!MaxOf(MinHeight, DefaultHeight)
  <1>1. /\ original' = [original EXCEPT ![p] = wanted]
        /\ height' = Layout!Recalculate(p, wanted, -wanted, height)
        /\ Layout!Layout({"height"})
        /\ UNCHANGED <<order, state, visible, separated, hidden, total, drag>>
    BY DEF Layout!SetPaneHeight
  <1>2. wanted \in Int /\ -wanted \in Int
    BY DefaultTyped
  <1> HIDE DEF wanted
  <1>3. height' \in Heights /\ original' \in Heights
    BY <1>1, <1>2, RecalculateTyped DEF PanesInv, PanesTyped, Heights
  <1>4. MadeOnce' /\ ShownBelow'
    BY <1>1 DEF PanesInv, MadeOnce, ShownBelow, ShownToTheEnd
  <1>5. Hiding'
    BY <1>1, HidingKept DEF PanesInv
  <1> QED
    BY <1>1, <1>3, <1>4, <1>5, AskKeeps DEF PanesInv, PanesTyped

LEMMA CreatePaneKeeps ==
    ASSUME Layout!SizesAssumption, PanesInv, NEW p \in Layout!Ids, Layout!CreatePane(p)
    PROVE  PanesInv'
  <1> DEFINE wanted == Layout!MaxOf(MinHeight, DefaultHeight)
             n == Len(order)
  <1>1. /\ state[p] = "new" /\ order' = Append(order, p)
        /\ state' = [state EXCEPT ![p] = "normal"]
        /\ original' = [original EXCEPT ![p] = wanted]
        /\ height' = Layout!Recalculate(p, wanted, -wanted, height)
        /\ asked' = asked \cup {"sort", "height"}
        /\ UNCHANGED <<visible, separated, total, drag>>
    BY DEF Layout!CreatePane, Layout!Layout
  <1>2. wanted \in Int /\ -wanted \in Int
    BY DefaultTyped
  <1> HIDE DEF wanted
  <1>3. height' \in Heights /\ original' \in Heights
    BY <1>1, <1>2, RecalculateTyped DEF PanesInv, PanesTyped, Heights
  <1>4. state' \in [Layout!Ids -> States]
    BY <1>1 DEF PanesInv, PanesTyped, States
  <1>5. /\ n \in Nat /\ n >= 1 /\ DOMAIN order = 1..n /\ order \in Seq(Layout!Ids)
        /\ \A i, j \in 1..n : order[i] = order[j] => i = j
        /\ \A i \in 1..n : order[i] \in Layout!Ids
    BY DEF PanesInv, PanesTyped, OrderTyped
  <1>6. /\ order' \in Seq(Layout!Ids) /\ Len(order') = n + 1 /\ DOMAIN order' = 1..(n + 1)
        /\ \A i \in 1..n : order'[i] = order[i]
        /\ order'[n + 1] = p
    BY <1>1, <1>5
  <1>7. \A i \in 1..n : order[i] # p
    BY <1>1, <1>5 DEF PanesInv, MadeOnce
  <1> HIDE DEF n
  <1>8. \A i \in 1..(n + 1) : i \in 1..n \/ i = n + 1
    BY <1>5
  <1>9. \A i, j \in DOMAIN order' : order'[i] = order'[j] => i = j
    BY <1>5, <1>6, <1>7, <1>8
  <1>10. order'[1] = Candle
    BY <1>5, <1>6 DEF PanesInv, PanesTyped, OrderTyped
  <1>11. OrderTyped'
    BY <1>5, <1>6, <1>9, <1>10 DEF OrderTyped
  <1>12. PanesTyped'
    BY <1>1, <1>3, <1>4, <1>11 DEF PanesInv, PanesTyped, Options
  <1>13. MadeOnce'
    <2>1. ASSUME NEW i \in DOMAIN order' PROVE state'[order'[i]] # "new"
      <3>1. CASE i \in 1..n
        BY <1>1, <1>5, <1>6, <1>7, <3>1 DEF PanesInv, PanesTyped, MadeOnce
      <3>2. CASE i = n + 1
        BY <1>1, <1>6, <3>2 DEF PanesInv, PanesTyped
      <3> QED
        BY <1>6, <1>8, <3>1, <3>2
    <2>2. ASSUME NEW q \in Layout!Ids, state'[q] = "new" PROVE visible'[q]
      BY <1>1, <2>2 DEF PanesInv, PanesTyped, MadeOnce
    <2> QED
      BY <2>1, <2>2 DEF MadeOnce
  \* The new one is shown, at the end.
  <1>14. ShownBelow'
    <2>1. visible[p]
      BY <1>1 DEF PanesInv, MadeOnce
    <2>2. ASSUME visible[Candle], NEW i \in 2..(n + 1), NEW j \in 2..(n + 1), i < j,
                 visible[order'[i]]
          PROVE  visible[order'[j]]
      <3>1. CASE j = n + 1
        BY <1>6, <2>1, <3>1
      <3>2. CASE j # n + 1
        <4>1. i \in 2..n /\ j \in 2..n /\ i \in 1..n /\ j \in 1..n
          BY <1>5, <2>2, <3>2
        <4>2. visible[order[i]]
          BY <1>6, <2>2, <4>1
        <4>3. ShownToTheEnd
          BY <2>2 DEF PanesInv, ShownBelow
        <4>4. visible[order[j]]
          BY <2>2, <4>1, <4>2, <4>3 DEF ShownToTheEnd, n
        <4> QED
          BY <1>6, <4>1, <4>4
      <3> QED
        BY <3>1, <3>2
    <2> QED
      BY <1>1, <1>6, <2>2 DEF ShownBelow, ShownToTheEnd
  <1>15. Separated' /\ Hiding' /\ Layout!PanesFillChart'
    BY <1>1 DEF Separated, Hiding, Layout!PanesFillChart
  <1> QED
    BY <1>12, <1>13, <1>14, <1>15 DEF PanesInv

LEMMA RemoveKeeps ==
    ASSUME Layout!SizesAssumption, PanesInv, NEW p \in Layout!Ids, Layout!RemovePane(p)
    PROVE  PanesInv'
  <1> DEFINE n == Len(order)
             given == Layout!Recalculate(p, 0, height[p], height)
  <1>1. /\ p # Candle
        /\ state' = [state EXCEPT ![p] = "removed"]
        /\ height' = IF order' = <<Candle>> THEN [given EXCEPT ![Candle] = Layout!Area] ELSE given
        /\ visible' = IF order' = <<Candle>> THEN [visible EXCEPT ![Candle] = TRUE] ELSE visible
        /\ asked' = asked \cup {"sort", "height"}
        /\ UNCHANGED <<original, separated, total, drag>>
    BY DEF Layout!RemovePane, Layout!Layout
  <1>2. PICK r \in DOMAIN order : order[r] = p /\ order' = Layout!RemoveAt(order, r)
    BY DEF Layout!RemovePane
  <1>3. /\ n \in Nat /\ n >= 1 /\ DOMAIN order = 1..n /\ order \in Seq(Layout!Ids)
        /\ order[1] = Candle
        /\ \A i, j \in 1..n : order[i] = order[j] => i = j
        /\ \A i \in 1..n : order[i] \in Layout!Ids
    BY DEF PanesInv, PanesTyped, OrderTyped
  <1>4. r \in 2..n
    BY <1>1, <1>2, <1>3
  <1> DEFINE From(i) == IF i < r THEN i ELSE i + 1
  <1>5. /\ order' \in Seq(Layout!Ids) /\ Len(order') = n - 1 /\ DOMAIN order' = 1..(n - 1)
        /\ \A i \in 1..(n - 1) : order'[i] = order[From(i)]
    <2> DEFINE above == SubSeq(order, 1, r - 1)
               below == SubSeq(order, r + 1, n)
    <2>1. order' = above \o below
      BY <1>2 DEF Layout!RemoveAt
    <2>2. /\ above \in Seq(Layout!Ids) /\ Len(above) = r - 1
          /\ \A i \in 1..(r - 1) : above[i] = order[i]
      BY <1>3, <1>4
    <2>3. /\ below \in Seq(Layout!Ids) /\ Len(below) = n - r
          /\ \A i \in 1..(n - r) : below[i] = order[r + i]
      BY <1>3, <1>4
    <2>0. r - 1 \in Nat /\ n - r \in Nat
      BY <1>3, <1>4
    <2> HIDE DEF above, below, n
    <2> DEFINE c == above \o below
    <2>4. /\ c \in Seq(Layout!Ids) /\ Len(c) = Len(above) + Len(below)
          /\ DOMAIN c = 1..(Len(above) + Len(below))
          /\ \A i \in 1..(Len(above) + Len(below)) :
                 c[i] = IF i <= Len(above) THEN above[i] ELSE below[i - Len(above)]
      BY <2>2, <2>3
    <2> HIDE DEF c
    <2>5. (r - 1) + (n - r) = n - 1
      BY <1>3, <1>4
    <2>6. ASSUME NEW i \in 1..(n - 1) PROVE order'[i] = order[From(i)]
      <3>1. CASE i < r
        <4>1. i \in 1..(r - 1) /\ i <= r - 1 /\ i \in 1..((r - 1) + (n - r))
          BY <1>3, <1>4, <2>5, <3>1
        <4> QED
          BY <2>1, <2>2, <2>3, <2>4, <3>1, <4>1 DEF c
      <3>2. CASE ~(i < r)
        <4>1. /\ i - (r - 1) \in 1..(n - r) /\ ~(i <= r - 1) /\ i \in 1..((r - 1) + (n - r))
              /\ r + (i - (r - 1)) = i + 1
          BY <1>3, <1>4, <2>5, <3>2
        <4> QED
          BY <2>1, <2>2, <2>3, <2>4, <3>2, <4>1 DEF c
      <3> QED
        BY <3>1, <3>2
    <2> QED
      BY <2>1, <2>2, <2>3, <2>4, <2>5, <2>6 DEF c
  <1> HIDE DEF n, given
  <1>6. ASSUME NEW i \in 1..(n - 1)
        PROVE  From(i) \in 1..n /\ From(i) # r /\ order'[i] = order[From(i)] /\ order'[i] # p
    BY <1>2, <1>3, <1>4, <1>5
  <1>7. ASSUME NEW i \in 1..(n - 1), NEW j \in 1..(n - 1)
        PROVE  /\ From(i) = From(j) => i = j
               /\ i < j => From(i) < From(j)
               /\ i \in 2..(n - 1) => From(i) \in 2..n
    BY <1>3, <1>4
  <1>8. order'[1] = Candle /\ n - 1 >= 1
    BY <1>3, <1>4, <1>5
  <1> HIDE DEF From
  <1>9. \A i, j \in DOMAIN order' : order'[i] = order'[j] => i = j
    BY <1>3, <1>5, <1>6, <1>7
  <1>10. OrderTyped'
    BY <1>5, <1>8, <1>9 DEF OrderTyped
  <1>11. height' \in Heights
    <2>1. height[p] \in Int /\ 0 \in Int
      BY DEF PanesInv, PanesTyped, Heights
    <2>2. given \in Heights
      BY <2>1, RecalculateTyped DEF PanesInv, PanesTyped, given
    <2>3. Layout!Area \in Int
      BY AllSizes DEF PanesInv, SizesTyped
    <2> QED
      BY <1>1, <2>2, <2>3 DEF Heights
  <1>12. /\ state' \in [Layout!Ids -> States] /\ visible' \in [Layout!Ids -> BOOLEAN]
    BY <1>1 DEF PanesInv, PanesTyped, States
  <1>13. PanesTyped'
    BY <1>1, <1>10, <1>11, <1>12 DEF PanesInv, PanesTyped, Options
  <1>14. MadeOnce'
    <2>1. ASSUME NEW i \in DOMAIN order' PROVE state'[order'[i]] # "new"
      BY <1>1, <1>3, <1>5, <1>6 DEF PanesInv, PanesTyped, MadeOnce
    <2>2. ASSUME NEW q \in Layout!Ids, state'[q] = "new" PROVE visible'[q]
      BY <1>1, <2>2 DEF PanesInv, PanesTyped, MadeOnce
    <2> QED
      BY <2>1, <2>2 DEF MadeOnce
  <1>15. ShownBelow'
    <2>1. CASE order' = <<Candle>>
      <3>1. Len(order') = 1
        BY <2>1
      <3> QED
        BY <3>1 DEF ShownBelow, ShownToTheEnd
    <2>2. CASE order' # <<Candle>>
      <3>1. visible' = visible
        BY <1>1, <2>2
      <3>2. ASSUME visible[Candle], NEW i \in 2..(n - 1), NEW j \in 2..(n - 1), i < j,
                   visible[order'[i]]
            PROVE  visible[order'[j]]
        <4>1. i \in 1..(n - 1) /\ j \in 1..(n - 1)
          BY <1>3
        <4>2. /\ From(i) \in 2..n /\ From(j) \in 2..n /\ From(i) < From(j)
              /\ order'[i] = order[From(i)] /\ order'[j] = order[From(j)]
          BY <1>6, <1>7, <3>2, <4>1
        <4>3. ShownToTheEnd
          BY <3>2 DEF PanesInv, ShownBelow
        <4> QED
          BY <3>2, <4>2, <4>3 DEF ShownToTheEnd, n
      <3> QED
        BY <1>5, <3>1, <3>2 DEF ShownBelow, ShownToTheEnd
    <2> QED
      BY <2>1, <2>2
  <1>16. Separated' /\ Hiding' /\ Layout!PanesFillChart'
    BY <1>1 DEF Separated, Hiding, Layout!PanesFillChart
  <1> QED
    BY <1>13, <1>14, <1>15, <1>16 DEF PanesInv

LEMMA SetStateKeeps ==
    ASSUME Layout!SizesAssumption, PanesInv, NEW p \in Layout!Ids, Layout!SetPaneState(p)
    PROVE  PanesInv'
  <1>1. /\ Layout!Maximize(p) \/ Layout!Minimize(p) \/ Layout!Restore(p)
        /\ Layout!Layout({"height"})
        /\ UNCHANGED <<order, separated, total, drag>>
    BY DEF Layout!SetPaneState
  <1>2. /\ OrderTyped /\ height \in Heights /\ original \in Heights
        /\ state \in [Layout!Ids -> States] /\ visible \in [Layout!Ids -> BOOLEAN]
        /\ MinHeight \in Int /\ Layout!Area \in Int
        /\ Layout!OnChart = {order[i] : i \in DOMAIN order}
    <2>1. MinHeight \in Int /\ Layout!Area \in Int
      BY DEF PanesInv, PanesTyped, Layout!Area, Layout!SizesAssumption
    <2> QED
      BY <2>1 DEF PanesInv, PanesTyped, Layout!OnChart, Layout!ToSet
  <1>3. /\ height[p] \in Int /\ original[p] \in Int
    BY <1>2 DEF Heights
  <1>4. \A i \in DOMAIN order : order[i] \in Layout!OnChart /\ order[i] \in Layout!Ids
    BY <1>2 DEF OrderTyped
  <1>5. \A i \in 2..Len(order) : i \in DOMAIN order /\ order[i] # Candle
    <2>1. ASSUME NEW i \in 2..Len(order) PROVE i \in DOMAIN order /\ order[i] # Candle
      <3>1. i \in DOMAIN order /\ 1 \in DOMAIN order /\ i # 1
        BY <1>2 DEF OrderTyped
      <3> QED
        BY <1>2, <3>1 DEF OrderTyped
    <2> QED
      BY <2>1
  <1> HIDE DEF Layout!OnChart
  \* Shown or hidden, a pane on the chart is no new one.
  <1>6. ASSUME \A q \in Layout!Ids : state'[q] = state[q] \/ state'[q] # "new",
               \A q \in Layout!Ids : q \notin Layout!OnChart => visible'[q] = visible[q]
        PROVE  MadeOnce'
    <2>1. \A i \in DOMAIN order : state'[order[i]] # "new"
      BY <1>4, <1>6 DEF PanesInv, MadeOnce
    <2>2. ASSUME NEW q \in Layout!Ids, state'[q] = "new" PROVE visible'[q]
      <3>1. state[q] = "new" /\ visible[q]
        BY <1>6, <2>2 DEF PanesInv, MadeOnce
      <3>2. q \notin Layout!OnChart
        BY <1>2, <3>1 DEF PanesInv, MadeOnce
      <3> QED
        BY <1>6, <3>1, <3>2
    <2> QED
      BY <1>1, <2>1, <2>2 DEF MadeOnce
  <1>7. ASSUME Layout!ShowAll
        PROVE  /\ visible' \in [Layout!Ids -> BOOLEAN] /\ ShownBelow'
               /\ \A q \in Layout!Ids : q \notin Layout!OnChart => visible'[q] = visible[q]
    <2>1. visible' = [q \in Layout!Ids |-> visible[q] \/ q \in Layout!OnChart]
      BY <1>7 DEF Layout!ShowAll
    <2>2. \A i \in DOMAIN order : visible'[order[i]]
      BY <1>4, <2>1
    <2>3. ShownBelow'
      BY <1>1, <1>5, <2>2 DEF ShownBelow, ShownToTheEnd
    <2>4. \A q \in Layout!Ids : q \notin Layout!OnChart => visible'[q] = visible[q]
      BY <1>2, <2>1
    <2>5. visible' \in [Layout!Ids -> BOOLEAN]
      BY <2>1
    <2> QED
      BY <2>3, <2>4, <2>5
  <1>11. ASSUME Layout!ShowAll PROVE Hiding'
    BY <1>1, <1>11 DEF PanesInv, Hiding, Layout!ShowAll, Layout!Layout
  <1>8. CASE Layout!Maximize(p)
    <2>1. CASE UNCHANGED <<height, original, state, visible, hidden>>
      <3>1. MadeOnce' /\ ShownBelow'
        BY <1>1, <2>1 DEF PanesInv, MadeOnce, ShownBelow, ShownToTheEnd
      <3>2. Hiding'
        BY <1>1, <2>1, HidingKept DEF PanesInv
      <3> QED
        BY <1>1, <1>2, <2>1, <3>1, <3>2, AskKeeps DEF PanesInv, PanesTyped
    <2>2. CASE ~UNCHANGED <<height, original, state, visible, hidden>>
      <3>1. /\ original' = IF state[p] = "normal" THEN [original EXCEPT ![p] = height[p]]
                           ELSE original
            /\ state' = [state EXCEPT ![p] = "maximize"]
            /\ height' = [q \in Layout!Ids |-> CASE q = p -> Layout!Area
                                       [] q \in Layout!OnChart \ {p} -> original[q]
                                       [] OTHER -> height[q]]
            /\ visible' = [q \in Layout!Ids |-> IF q \in Layout!OnChart THEN q = p
                                                ELSE visible[q]]
            /\ hidden' = hidden \cup ((separated \cap Layout!OnChart) \ {p})
        BY <1>8, <2>2 DEF Layout!Maximize
      <3>2. original' \in Heights /\ state' \in [Layout!Ids -> States]
        BY <1>2, <1>3, <3>1 DEF Heights, States
      <3>3. height' \in Heights
        BY <1>2, <3>1 DEF Heights
      <3>4. visible' \in [Layout!Ids -> BOOLEAN]
        BY <1>2, <3>1
      <3>5. MadeOnce'
        BY <1>2, <1>6, <3>1
      <3>6. ShownBelow'
        <4>1. SUFFICES ASSUME visible'[Candle] PROVE \A i \in 2..Len(order) : ~visible'[order[i]]
          BY <1>1 DEF ShownBelow, ShownToTheEnd
        <4>2. 1 \in DOMAIN order /\ order[1] = Candle
          BY <1>2 DEF OrderTyped
        <4>3. p = Candle
          BY <1>4, <3>1, <4>1, <4>2
        <4> QED
          BY <1>4, <1>5, <3>1, <4>3
      <3>7. Hiding'
        <4>1. 1 \in DOMAIN order /\ order[1] = Candle
          BY <1>2 DEF OrderTyped
        <4>2. visible'[Candle] => p = Candle
          BY <1>4, <3>1, <4>1
        <4>3. visible'[Candle] => state'[Candle] = "maximize"
          BY <1>2, <3>1, <4>2
        <4>4. Layout!OnChart' = Layout!OnChart
          BY <1>1 DEF Layout!OnChart, Layout!ToSet
        <4> QED
          BY <1>1, <3>1, <4>3, <4>4 DEF PanesInv, Hiding, Layout!Layout
      <3> QED
        BY <1>1, <3>2, <3>3, <3>4, <3>5, <3>6, <3>7, AskKeeps DEF PanesInv, PanesTyped
    <2> QED
      BY <2>1, <2>2
  <1>9. CASE Layout!Minimize(p)
    <2> DEFINE from == IF state[p] = "maximize" THEN original[p] ELSE height[p]
               change == from - MinHeight
    <2>1. /\ height' = Layout!Recalculate(p, MinHeight, change, height)
          /\ Layout!ShowAll
          /\ \/ /\ original' = IF state[p] = "normal" THEN [original EXCEPT ![p] = height[p]]
                               ELSE original
                /\ state' = [state EXCEPT ![p] = "minimize"]
             \/ UNCHANGED <<original, state>>
      BY <1>9 DEF Layout!Minimize
    <2>2. change \in Int
      BY <1>2, <1>3
    <2> HIDE DEF change
    <2>3. height' \in Heights
      BY <1>2, <2>1, <2>2, RecalculateTyped
    <2>4. original' \in Heights /\ state' \in [Layout!Ids -> States]
      BY <1>2, <1>3, <2>1 DEF Heights, States
    <2>5. \A q \in Layout!Ids : state'[q] = state[q] \/ state'[q] # "new"
      BY <1>2, <2>1
    <2>6. MadeOnce' /\ ShownBelow' /\ visible' \in [Layout!Ids -> BOOLEAN]
      BY <1>6, <1>7, <2>1, <2>5
    <2>7. Hiding'
      BY <1>11, <2>1
    <2> QED
      BY <1>1, <2>3, <2>4, <2>6, <2>7, AskKeeps DEF PanesInv, PanesTyped
  <1>10. CASE Layout!Restore(p)
    <2> DEFINE change == height[p] - original[p]
    <2>1. /\ height' = Layout!Recalculate(p, original[p], change, height)
          /\ Layout!ShowAll /\ original' = original
          /\ state' \in {[state EXCEPT ![p] = "normal"], state}
      BY <1>10 DEF Layout!Restore
    <2>2. change \in Int
      BY <1>3
    <2> HIDE DEF change
    <2>3. height' \in Heights
      BY <1>2, <1>3, <2>1, <2>2, RecalculateTyped
    <2>4. state' \in [Layout!Ids -> States]
      BY <1>2, <2>1 DEF States
    <2>5. \A q \in Layout!Ids : state'[q] = state[q] \/ state'[q] # "new"
      BY <1>2, <2>1
    <2>6. MadeOnce' /\ ShownBelow' /\ visible' \in [Layout!Ids -> BOOLEAN]
      BY <1>6, <1>7, <2>1, <2>5
    <2>7. Hiding'
      BY <1>11, <2>1
    <2> QED
      BY <1>1, <1>2, <2>1, <2>3, <2>4, <2>6, <2>7, AskKeeps DEF PanesInv, PanesTyped
  <1> QED
    BY <1>1, <1>8, <1>9, <1>10

LEMMA PanesInit == Layout!SizesAssumption /\ Layout!Init => PanesInv
  <1> SUFFICES ASSUME Layout!SizesAssumption, Layout!Init PROVE PanesInv
    OBVIOUS
  <1>1. /\ order = <<Candle>> /\ total \in Totals
        /\ height = [p \in Layout!Ids |-> IF p = Candle THEN Layout!Area ELSE 0]
        /\ original = [p \in Layout!Ids |-> 0]
        /\ state = [p \in Layout!Ids |-> IF p = Candle THEN "normal" ELSE "new"]
        /\ visible = [p \in Layout!Ids |-> TRUE]
        /\ separated = {} /\ hidden = {} /\ asked = {} /\ drag = None
    BY DEF Layout!Init
  <1>2. Candle \in Layout!Ids
    BY DEF Layout!Ids
  <1>3. Layout!Area \in Int
    BY <1>1 DEF Layout!Area, Layout!SizesAssumption
  <1>4. OrderTyped
    BY <1>1, <1>2 DEF OrderTyped
  <1>5. PanesTyped
    BY <1>1, <1>3, <1>4 DEF PanesTyped, Heights, States
  <1>6. MadeOnce /\ ShownBelow
    BY <1>1, <1>2 DEF MadeOnce, ShownBelow, ShownToTheEnd
  <1>7. Separated
    <2>1. Tail(order) = <<>>
      BY <1>1
    <2> QED
      BY <1>1, <2>1 DEF Separated, Layout!ToSet
  <1>8. Layout!Used = Layout!Area
    <2>1. PICK u : UsesOf(u)
      BY <1>5, AllSizes, UsedSteps
    <2>2. Len(order) = 1 /\ 1 \in 1..Len(order) /\ 1 - 1 = 0 /\ order[1] = Candle
      BY <1>1
    <2>3. Layout!Used = u[0] + Layout!Takes(Candle) /\ u[0] = 0
      BY <2>1, <2>2 DEF UsesOf
    <2>4. Layout!Takes(Candle) = 0 + Layout!Area
      BY <1>1, <1>2 DEF Layout!Takes
    <2> QED
      BY <1>3, <2>3, <2>4
  <1> QED
    BY <1>1, <1>5, <1>6, <1>7, <1>8 DEF PanesInv, Hiding, Layout!PanesFillChart

LEMMA PanesStep ==
    Layout!SizesAssumption /\ PanesInv /\ [Layout!Next]_(Layout!vars) => PanesInv'
  <1> SUFFICES ASSUME Layout!SizesAssumption, PanesInv, [Layout!Next]_(Layout!vars)
               PROVE  PanesInv'
    OBVIOUS
  <1>1. ASSUME NEW p \in Layout!Ids, Layout!CreatePane(p) PROVE PanesInv'
    BY <1>1, CreatePaneKeeps
  <1>2. ASSUME NEW p \in Layout!Ids, Layout!RemovePane(p) PROVE PanesInv'
    BY <1>2, RemoveKeeps
  <1>3. ASSUME NEW p \in Layout!Ids, Layout!SetPaneState(p) PROVE PanesInv'
    BY <1>3, SetStateKeeps
  <1>4. ASSUME NEW p \in Layout!Ids, Layout!SetPaneHeight(p) PROVE PanesInv'
    BY <1>4, SetHeightKeeps
  <1>5. CASE Layout!Resize
    BY <1>5, ResizeKeeps
  <1>6. CASE Layout!DoLayout
    BY <1>6, LaidOutKeeps
  <1>7. CASE Layout!Press
    BY <1>7, PressKeeps
  <1>8. CASE Layout!Drag
    BY <1>8, DragKeeps
  <1>9. CASE Layout!Release
    BY <1>9, ReleaseKeeps
  <1>10. CASE UNCHANGED Layout!vars
    BY <1>10, QuietKeeps DEF Layout!vars, PanesInv, PanesTyped
  <1> QED
    BY <1>1, <1>2, <1>3, <1>4, <1>5, <1>6, <1>7, <1>8, <1>9, <1>10 DEF Layout!Next

\* Laid out while the candle pane is in view, the panes shown and the
\* separators, shown or hidden, make up the chart exactly, for any sizes and
\* through any calls and gestures, and a separator is hidden only while the
\* candle pane is the maximized one (_layout, _recalculatePaneHeight,
\* setPaneOptions, Chart.ts).
THEOREM PanesFill == Spec => []PanesFillChart
  <1> DEFINE Inv == part = "layout" => PanesInv
  <1>1. Layout!SizesAssumption
    BY ConstantsAssumption
  <1>2. Init => Inv
    BY <1>1, PanesInit DEF Init
  <1>3. Inv /\ [Next]_vars => Inv'
    <2> SUFFICES ASSUME Inv, [Next]_vars, part' = "layout" PROVE PanesInv'
      OBVIOUS
    <2>1. part = "layout" /\ [Layout!Next]_(Layout!vars)
      BY DEF Next, InData, InTasks, InLayout, InPro, InStudy, vars, layoutVars, Layout!vars
    <2> QED
      BY <1>1, <2>1, PanesStep
  <1>4. Inv => PanesFillChart
    BY DEF PanesInv, PanesFillChart
  <1> QED
    BY <1>2, <1>3, <1>4, PTL DEF Spec

-----------------------------------------------------------------------------
(* The indicators (Indicators).                                            *)

\* A sum goes on from the sum before.
SumsUp(f, v, from, to) ==
    /\ f \in [(from - 1)..to -> Int]
    /\ \A k \in (from - 1)..to : /\ f[k] = IF k < from THEN 0 ELSE f[k - 1] + v[k]
                                 /\ Study!Total(v, from, k) = f[k]

LEMMA TotalsAre ==
    ASSUME NEW from \in Int, NEW to \in Int, NEW v, \A k \in from..to : v[k] \in Int
    PROVE  \E f : SumsUp(f, v, from, to)
  <1> DEFINE low == from - 1
             G == [x \in Int \X (low..to) |-> IF x[2] < from THEN 0 ELSE x[1] + v[x[2]]]
  <1>1. low \in Int /\ 0 \in Int
    OBVIOUS
  <1>2. G \in [Int \X (low..to) -> Int]
    <2> SUFFICES ASSUME NEW x \in Int \X (low..to)
                 PROVE  (IF x[2] < from THEN 0 ELSE x[1] + v[x[2]]) \in Int
      OBVIOUS
    <2>1. x[1] \in Int /\ x[2] \in low..to
      OBVIOUS
    <2>2. ~(x[2] < from) => x[2] \in from..to
      BY <2>1
    <2> QED
      BY <2>1, <2>2
  <1>3. PICK f : IsRecursion(f, low, to, Int, 0, G)
    <2> HIDE DEF G, low
    <2> QED
      BY <1>1, <1>2, RecursionExists
  <1>4. f \in [low..to -> Int]
    BY <1>3 DEF IsRecursion
  <1>5. ASSUME NEW k \in low..to PROVE f[k] = IF k < from THEN 0 ELSE f[k - 1] + v[k]
    <2>1. f[k] = IF k = low THEN 0 ELSE G[<<f[k - 1], k>>]
      BY <1>3 DEF IsRecursion
    <2>2. k = low <=> k < from
      OBVIOUS
    <2>3. k # low => f[k - 1] \in Int /\ <<f[k - 1], k>> \in Int \X (low..to)
      BY <1>4
    <2>4. k # low => G[<<f[k - 1], k>>] = f[k - 1] + v[k]
      BY <2>2, <2>3
    <2> QED
      BY <2>1, <2>2, <2>4
  <1>6. ASSUME NEW t \in low..to PROVE Study!Total(v, from, t) = f[t]
    <2> DEFINE Eq(s) == s = [k \in low..t |-> IF k < from THEN 0 ELSE s[k - 1] + v[k]]
               r == [k \in low..t |-> f[k]]
               s == CHOOSE s : Eq(s)
               S == {k \in low..t : s[k] = f[k]}
    <2>1. Eq(r)
      <3>1. \A k \in low..t : ~(k < from) => k - 1 \in low..t
        OBVIOUS
      <3>2. \A k \in low..t : f[k] = IF k < from THEN 0 ELSE r[k - 1] + v[k]
        BY <1>5, <3>1
      <3> QED
        BY <3>2
    <2>2. Eq(s)
      <3> HIDE DEF Eq, r
      <3> QED
        BY <2>1
    <2>3. \A k \in low..t : s[k] = IF k < from THEN 0 ELSE s[k - 1] + v[k]
      <3> HIDE DEF s
      <3> QED
        BY <2>2
    <2>4. Study!Total(v, from, t) = s[t]
      BY DEF Study!Total
    <2> HIDE DEF s
    <2>5. low \in S
      BY <1>5, <2>3
    <2>6. ASSUME NEW k \in (low + 1)..t, k - 1 \in S PROVE k \in S
      BY <1>5, <2>3, <2>6
    <2>7. low..t \subseteq S
      <3>1. t \in Int
        OBVIOUS
      <3> HIDE DEF S, low
      <3> QED
        BY <1>1, <2>5, <2>6, <3>1, IntervalInduction
    <2>8. t \in S
      BY <2>7
    <2> QED
      BY <2>4, <2>8
  <1> QED
    BY <1>4, <1>5, <1>6 DEF SumsUp

LEMMA TotalSteps ==
    ASSUME NEW from \in Int, NEW to \in Int, from - 1 <= to,
           NEW v, \A k \in from..to : v[k] \in Int
    PROVE  /\ Study!Total(v, from, to) \in Int
           /\ to = from - 1 => Study!Total(v, from, to) = 0
           /\ to >= from => Study!Total(v, from, to) = Study!Total(v, from, to - 1) + v[to]
           /\ to >= from => v[to] \in Int /\ Study!Total(v, from, to - 1) \in Int
  <1>1. PICK f : SumsUp(f, v, from, to)
    BY TotalsAre
  <1>2. to \in (from - 1)..to /\ (to >= from => to - 1 \in (from - 1)..to /\ to \in from..to)
    OBVIOUS
  <1> QED
    BY <1>1, <1>2 DEF SumsUp

\* Sums are of the values they are of.
LEMMA TotalSame ==
    ASSUME NEW from \in Int, NEW to \in Int, from - 1 <= to,
           NEW v, NEW w, \A k \in from..to : v[k] \in Int /\ w[k] = v[k]
    PROVE  Study!Total(w, from, to) = Study!Total(v, from, to)
  <1> DEFINE S == {t \in (from - 1)..to : Study!Total(w, from, t) = Study!Total(v, from, t)}
  <1>1. ASSUME NEW t \in (from - 1)..to
        PROVE  /\ t = from - 1 => Study!Total(v, from, t) = 0 /\ Study!Total(w, from, t) = 0
               /\ t >= from => /\ Study!Total(v, from, t) = Study!Total(v, from, t - 1) + v[t]
                               /\ Study!Total(w, from, t) = Study!Total(w, from, t - 1) + w[t]
                               /\ w[t] = v[t]
    <2>1. \A k \in from..t : k \in from..to
      OBVIOUS
    <2>2. t \in Int /\ from - 1 <= t /\ \A k \in from..t : v[k] \in Int /\ w[k] \in Int
      BY <2>1
    <2>3. t >= from => t \in from..to
      OBVIOUS
    <2> QED
      BY <2>2, <2>3, TotalSteps
  <1>2. from - 1 \in S
    BY <1>1
  <1>3. ASSUME NEW t \in (from - 1 + 1)..to, t - 1 \in S PROVE t \in S
    <2>1. t \in (from - 1)..to /\ t >= from
      OBVIOUS
    <2> QED
      BY <1>1, <1>3, <2>1
  <1>4. (from - 1)..to \subseteq S
    <2>1. from - 1 \in Int
      OBVIOUS
    <2> HIDE DEF S
    <2> QED
      BY <1>2, <1>3, <2>1, IntervalInduction
  <1>5. to \in S
    <2>1. to \in (from - 1)..to
      OBVIOUS
    <2> HIDE DEF S
    <2> QED
      BY <1>4, <2>1
  <1> QED
    BY <1>5

\* The first value can be taken out of a sum.
LEMMA TotalFront ==
    ASSUME NEW from \in Int, NEW to \in Int, from <= to,
           NEW v, \A k \in from..to : v[k] \in Int
    PROVE  Study!Total(v, from, to) = v[from] + Study!Total(v, from + 1, to) /\ Study!Total(v, from + 1, to) \in Int
  <1> DEFINE S == {t \in from..to : /\ Study!Total(v, from, t) = v[from] + Study!Total(v, from + 1, t)
                                    /\ Study!Total(v, from + 1, t) \in Int}
  <1>1. ASSUME NEW t \in from..to
        PROVE  /\ Study!Total(v, from, t) = Study!Total(v, from, t - 1) + v[t]
               /\ t = from => Study!Total(v, from, t - 1) = 0 /\ Study!Total(v, from + 1, t) = 0
               /\ t >= from + 1 => /\ Study!Total(v, from + 1, t) = Study!Total(v, from + 1, t - 1) + v[t]
                                   /\ Study!Total(v, from + 1, t - 1) \in Int
    <2>1. /\ \A k \in from..t : v[k] \in Int
          /\ \A k \in (from + 1)..t : v[k] \in Int
      OBVIOUS
    <2>2. Study!Total(v, from, t) = Study!Total(v, from, t - 1) + v[t]
      BY <2>1, TotalSteps
    <2>3. t = from => Study!Total(v, from, t - 1) = 0
      <3>1. from - 1 \in Int /\ \A k \in from..(from - 1) : v[k] \in Int
        OBVIOUS
      <3>2. Study!Total(v, from, from - 1) = 0
        BY <3>1, TotalSteps
      <3> QED
        BY <3>2
    <2>4. /\ t = from => Study!Total(v, from + 1, t) = 0
          /\ t >= from + 1 => /\ Study!Total(v, from + 1, t) = Study!Total(v, from + 1, t - 1) + v[t]
                              /\ Study!Total(v, from + 1, t - 1) \in Int
      <3>1. from + 1 \in Int /\ (from + 1) - 1 <= t /\ t \in Int
        OBVIOUS
      <3>2. t = from <=> t = (from + 1) - 1
        OBVIOUS
      <3> QED
        BY <2>1, <3>1, <3>2, TotalSteps
    <2> QED
      BY <2>2, <2>3, <2>4
  <1>2. from \in S
    BY <1>1
  <1>3. ASSUME NEW t \in (from + 1)..to, t - 1 \in S PROVE t \in S
    <2>1. t \in from..to /\ t >= from + 1 /\ v[from] \in Int /\ v[t] \in Int
      OBVIOUS
    <2> QED
      BY <1>1, <1>3, <2>1
  <1>4. from..to \subseteq S
    <2> HIDE DEF S
    <2> QED
      BY <1>2, <1>3, IntervalInduction
  <1>5. to \in S
    <2>1. to \in from..to
      OBVIOUS
    <2> HIDE DEF S
    <2> QED
      BY <1>4, <2>1
  <1> QED
    BY <1>5

\* Values within bounds have a sum within as many times these.
LEMMA TotalBounds ==
    ASSUME NEW from \in Int, NEW to \in Int, from - 1 <= to, NEW low \in Int, NEW high \in Int,
           NEW v, \A k \in from..to : v[k] \in low..high
    PROVE  /\ Study!Total(v, from, to) \in Int
           /\ (to - from + 1) * low <= Study!Total(v, from, to)
           /\ Study!Total(v, from, to) <= (to - from + 1) * high
  <1> DEFINE Inside(t) == /\ (t - from + 1) * low <= Study!Total(v, from, t)
                          /\ Study!Total(v, from, t) <= (t - from + 1) * high
             S == {t \in (from - 1)..to : Inside(t)}
  <1>0. \A k \in from..to : v[k] \in Int
    OBVIOUS
  <1>1. ASSUME NEW t \in (from - 1)..to
        PROVE  /\ Study!Total(v, from, t) \in Int
               /\ t = from - 1 => Study!Total(v, from, t) = 0
               /\ t >= from => /\ Study!Total(v, from, t) = Study!Total(v, from, t - 1) + v[t]
                               /\ Study!Total(v, from, t - 1) \in Int
                               /\ v[t] \in low..high
    <2>1. \A k \in from..t : v[k] \in Int
      OBVIOUS
    <2>2. t >= from => t \in from..to
      OBVIOUS
    <2> QED
      BY <2>1, <2>2, TotalSteps
  <1>2. from - 1 \in S
    <2>1. (from - 1 - from + 1) * low = 0 /\ (from - 1 - from + 1) * high = 0
      OBVIOUS
    <2> QED
      BY <1>1, <2>1
  <1>3. ASSUME NEW t \in (from - 1 + 1)..to, t - 1 \in S PROVE t \in S
    <2>1. t \in (from - 1)..to /\ t >= from
      OBVIOUS
    <2> DEFINE n == t - from
               a == Study!Total(v, from, t - 1)
               b == v[t]
    <2>2. Study!Total(v, from, t) = a + b /\ a \in Int /\ b \in Int /\ low <= b /\ b <= high
      BY <1>1, <2>1
    <2>3. n \in Int /\ t - 1 - from + 1 = n /\ t - from + 1 = n + 1
      OBVIOUS
    <2>4. n * low <= a /\ a <= n * high
      BY <1>3, <2>3
    <2> HIDE DEF n, a, b
    <2>5. (n + 1) * low = n * low + low /\ (n + 1) * high = n * high + high
          /\ n * low \in Int /\ n * high \in Int
      BY <2>3
    <2>6. (n + 1) * low <= a + b /\ a + b <= (n + 1) * high
      BY <2>2, <2>4, <2>5
    <2> QED
      BY <2>1, <2>2, <2>3, <2>6
  <1>4. (from - 1)..to \subseteq S
    <2>1. from - 1 \in Int
      OBVIOUS
    <2> HIDE DEF S
    <2> QED
      BY <1>2, <1>3, <2>1, IntervalInduction
  <1>5. to \in (from - 1)..to
    OBVIOUS
  <1>6. to \in S
    <2> HIDE DEF S
    <2> QED
      BY <1>4, <1>5
  <1> QED
    BY <1>1, <1>5, <1>6

\* No value that is not negative is more than a sum of such values.
LEMMA TotalOver ==
    ASSUME NEW from \in Int, NEW to \in Int, from - 1 <= to,
           NEW v, \A k \in from..to : v[k] \in Nat
    PROVE  Study!Total(v, from, to) \in Nat /\ \A j \in from..to : v[j] <= Study!Total(v, from, to)
  <1> DEFINE S == {t \in (from - 1)..to : /\ Study!Total(v, from, t) \in Nat
                                          /\ \A j \in from..t : v[j] <= Study!Total(v, from, t)}
  <1>1. ASSUME NEW t \in (from - 1)..to
        PROVE  /\ t = from - 1 => Study!Total(v, from, t) = 0
               /\ t >= from => /\ Study!Total(v, from, t) = Study!Total(v, from, t - 1) + v[t]
                               /\ v[t] \in Nat
    <2>1. \A k \in from..t : v[k] \in Int
      OBVIOUS
    <2>2. t >= from => t \in from..to
      OBVIOUS
    <2> QED
      BY <2>1, <2>2, TotalSteps
  <1>2. from - 1 \in S
    BY <1>1
  <1>3. ASSUME NEW t \in (from - 1 + 1)..to, t - 1 \in S PROVE t \in S
    <2>1. t \in (from - 1)..to /\ t >= from /\ from..t = (from..(t - 1)) \cup {t}
      OBVIOUS
    <2>2. /\ Study!Total(v, from, t) = Study!Total(v, from, t - 1) + v[t] /\ v[t] \in Nat
          /\ Study!Total(v, from, t - 1) \in Nat /\ \A j \in from..(t - 1) : v[j] <= Study!Total(v, from, t - 1)
      BY <1>1, <1>3, <2>1
    <2>3. \A j \in from..t : v[j] \in Int
      OBVIOUS
    <2> QED
      BY <2>1, <2>2, <2>3
  <1>4. (from - 1)..to \subseteq S
    <2>1. from - 1 \in Int
      OBVIOUS
    <2> HIDE DEF S
    <2> QED
      BY <1>2, <1>3, <2>1, IntervalInduction
  <1>5. to \in S
    <2>1. to \in (from - 1)..to
      OBVIOUS
    <2> HIDE DEF S
    <2> QED
      BY <1>4, <2>1
  <1> QED
    BY <1>5

\* A sum of sums is the sum of these.
LEMMA TotalSplits ==
    ASSUME NEW from \in Int, NEW to \in Int, from - 1 <= to, NEW u, NEW v, NEW w, NEW x,
           \A k \in from..to : /\ u[k] \in Int /\ v[k] \in Int /\ w[k] \in Int
                               /\ x[k] = u[k] + v[k] + w[k]
    PROVE  Study!Total(u, from, to) + Study!Total(v, from, to) + Study!Total(w, from, to) = Study!Total(x, from, to)
  <1> DEFINE S == {t \in (from - 1)..to :
                     Study!Total(u, from, t) + Study!Total(v, from, t) + Study!Total(w, from, t) = Study!Total(x, from, t)}
  <1>1. ASSUME NEW t \in (from - 1)..to, NEW f, \A k \in from..to : f[k] \in Int
        PROVE  /\ t = from - 1 => Study!Total(f, from, t) = 0
               /\ t >= from => /\ Study!Total(f, from, t) = Study!Total(f, from, t - 1) + f[t]
                               /\ Study!Total(f, from, t - 1) \in Int /\ f[t] \in Int
    <2>1. \A k \in from..t : f[k] \in Int
      BY <1>1
    <2> QED
      BY <2>1, TotalSteps
  <1>0. /\ \A k \in from..to : u[k] \in Int
        /\ \A k \in from..to : v[k] \in Int
        /\ \A k \in from..to : w[k] \in Int
        /\ \A k \in from..to : x[k] \in Int
    OBVIOUS
  <1>2. from - 1 \in S
    <2>1. from - 1 \in (from - 1)..to
      OBVIOUS
    <2>2. /\ Study!Total(u, from, from - 1) = 0 /\ Study!Total(v, from, from - 1) = 0
          /\ Study!Total(w, from, from - 1) = 0 /\ Study!Total(x, from, from - 1) = 0
      BY <1>0, <1>1, <2>1
    <2> QED
      BY <2>1, <2>2
  <1>3. ASSUME NEW t \in (from - 1 + 1)..to, t - 1 \in S PROVE t \in S
    <2>1. t \in (from - 1)..to /\ t >= from /\ t \in from..to
      OBVIOUS
    <2>2. /\ Study!Total(u, from, t) = Study!Total(u, from, t - 1) + u[t]
          /\ Study!Total(u, from, t - 1) \in Int /\ u[t] \in Int
          /\ Study!Total(v, from, t) = Study!Total(v, from, t - 1) + v[t]
          /\ Study!Total(v, from, t - 1) \in Int /\ v[t] \in Int
          /\ Study!Total(w, from, t) = Study!Total(w, from, t - 1) + w[t]
          /\ Study!Total(w, from, t - 1) \in Int /\ w[t] \in Int
          /\ Study!Total(x, from, t) = Study!Total(x, from, t - 1) + x[t]
      BY <1>0, <1>1, <2>1
    <2>3. x[t] = u[t] + v[t] + w[t]
      BY <2>1
    <2> QED
      BY <1>3, <2>1, <2>2, <2>3
  <1>4. (from - 1)..to \subseteq S
    <2>1. from - 1 \in Int
      OBVIOUS
    <2> HIDE DEF S
    <2> QED
      BY <1>2, <1>3, <2>1, IntervalInduction
  <1>5. to \in S
    <2>1. to \in (from - 1)..to
      OBVIOUS
    <2> HIDE DEF S
    <2> QED
      BY <1>4, <2>1
  <1> QED
    BY <1>5

-----------------------------------------------------------------------------
(* Running sums. *)

\* What is in the running sum after a bar: the last p - 1 values, or all.
Kept(i, p, first) == IF i - p + 1 >= first THEN i - p + 2 ELSE first

LEMMA RollingSums ==
    ASSUME Study!N \in Nat, NEW p \in Nat \ {0}, NEW first \in Nat \ {0},
           NEW add, NEW drop, \A k \in first..Study!N : add[k] \in Int /\ drop[k] = add[k]
    PROVE  /\ DOMAIN Study!Rolling(add, drop, p, first) = (first + p - 1)..Study!N
           /\ \A i \in (first + p - 1)..Study!N :
                 /\ Study!Rolling(add, drop, p, first)[i] = Study!Total(add, i - p + 1, i)
                 /\ Study!Rolling(add, drop, p, first)[i] \in Int
  <1> DEFINE low == first - 1
             old(i) == IF i - p + 1 >= first THEN drop[i - p + 1] ELSE 0
             Eq(s) == s = [i \in (first - 1)..Study!N |->
                             IF i < first THEN 0
                             ELSE s[i - 1] + add[i]
                                    - (IF i - p + 1 >= first THEN drop[i - p + 1] ELSE 0)]
             sum == CHOOSE s : Eq(s)
             G == [x \in Int \X (low..Study!N) |->
                      IF x[2] < first THEN 0 ELSE x[1] + add[x[2]] - old(x[2])]
  <1>1. low \in Int /\ 0 \in Int /\ Study!N \in Int /\ first \in Int /\ p \in Int /\ p > 0
    OBVIOUS
  <1>2. ASSUME NEW i \in first..Study!N PROVE old(i) \in Int /\ add[i] \in Int
    <2>1. i - p + 1 >= first => i - p + 1 \in first..Study!N
      OBVIOUS
    <2> QED
      BY <2>1
  <1> HIDE DEF old
  <1>3. G \in [Int \X (low..Study!N) -> Int]
    <2> SUFFICES ASSUME NEW x \in Int \X (low..Study!N)
                 PROVE  (IF x[2] < first THEN 0 ELSE x[1] + add[x[2]] - old(x[2])) \in Int
      OBVIOUS
    <2>1. x[1] \in Int /\ x[2] \in low..Study!N /\ (~(x[2] < first) => x[2] \in first..Study!N)
      OBVIOUS
    <2> QED
      BY <1>2, <2>1
  <1>4. PICK f : IsRecursion(f, low, Study!N, Int, 0, G)
    <2> HIDE DEF G, low
    <2> QED
      BY <1>1, <1>3, RecursionExists
  <1>5. f \in [low..Study!N -> Int]
    BY <1>4 DEF IsRecursion
  <1>6. ASSUME NEW k \in low..Study!N
        PROVE  f[k] = IF k < first THEN 0 ELSE f[k - 1] + add[k] - old(k)
    <2>1. f[k] = IF k = low THEN 0 ELSE G[<<f[k - 1], k>>]
      BY <1>4 DEF IsRecursion
    <2>2. k = low <=> k < first
      OBVIOUS
    <2>3. k # low => f[k - 1] \in Int /\ <<f[k - 1], k>> \in Int \X (low..Study!N)
      BY <1>5
    <2>4. k # low => G[<<f[k - 1], k>>] = f[k - 1] + add[k] - old(k)
      BY <2>2, <2>3
    <2> QED
      BY <2>1, <2>2, <2>4
  <1>7. Eq(f)
    <2>1. DOMAIN f = (first - 1)..Study!N
      BY <1>5
    <2>2. f = [i \in (first - 1)..Study!N |-> f[i]]
      BY <1>5
    <2> QED
      BY <1>6, <2>2 DEF old
  <1>8. Eq(sum)
    <2> HIDE DEF Eq
    <2> QED
      BY <1>7
  <1>9. \A k \in low..Study!N : sum[k] = IF k < first THEN 0 ELSE sum[k - 1] + add[k] - old(k)
    <2> HIDE DEF sum
    <2> QED
      BY <1>8 DEF old
  <1>10. Study!Rolling(add, drop, p, first) = [i \in (first + p - 1)..Study!N |-> sum[i - 1] + add[i]]
    BY DEF Study!Rolling
  <1> HIDE DEF sum
  <1> DEFINE S == {k \in low..Study!N : sum[k] = Study!Total(add, Kept(k, p, first), k)}
  <1>11. \A k \in low..Study!N : Kept(k, p, first) \in first..(k + 1)
    BY <1>1 DEF Kept
  <1>12. ASSUME NEW a \in first..Study!N, NEW b \in a..Study!N
         PROVE  /\ Study!Total(add, a, b) = Study!Total(add, a, b - 1) + add[b]
                /\ Study!Total(add, a, b) \in Int /\ Study!Total(add, a, b - 1) \in Int
                /\ Study!Total(add, a, b) = add[a] + Study!Total(add, a + 1, b)
                /\ Study!Total(add, a + 1, b) \in Int
    <2>1. a \in Int /\ b \in Int /\ a <= b /\ \A k \in a..b : add[k] \in Int
      OBVIOUS
    <2> QED
      BY <2>1, TotalSteps, TotalFront
  <1>13. ASSUME NEW a \in first..(Study!N + 1) PROVE Study!Total(add, a, a - 1) = 0
    <2>1. a \in Int /\ a - 1 \in Int /\ a - 1 <= a - 1 /\ \A k \in a..(a - 1) : add[k] \in Int
      OBVIOUS
    <2> QED
      BY <2>1, TotalSteps
  <1>14. low <= Study!N => low \in S
    <2>1. SUFFICES ASSUME low <= Study!N PROVE low \in S
      OBVIOUS
    <2>2. Kept(low, p, first) = first
      BY <1>1 DEF Kept
    <2>3. Study!Total(add, first, low) = 0
      BY <1>13, <2>1
    <2>4. sum[low] = 0
      BY <1>9, <2>1
    <2> QED
      BY <2>1, <2>2, <2>3, <2>4
  <1>15. ASSUME NEW i \in (low + 1)..Study!N, i - 1 \in S PROVE i \in S
    <2>1. i \in first..Study!N /\ i \in low..Study!N /\ ~(i < first) /\ i \in Int /\ i - 1 \in low..Study!N
      OBVIOUS
    <2>2. sum[i] = sum[i - 1] + add[i] - old(i)
      BY <1>9, <2>1
    <2>3. sum[i - 1] = Study!Total(add, Kept(i - 1, p, first), i - 1)
      BY <1>15
    <2>4. CASE i - p + 1 >= first
      <3> DEFINE a == i - p + 1
      <3>1. Kept(i, p, first) = a + 1 /\ Kept(i - 1, p, first) = a
        BY <1>1, <2>1, <2>4 DEF Kept
      <3>2. a \in first..Study!N /\ i \in a..Study!N
        BY <1>1, <2>1, <2>4
      <3>3. old(i) = add[a]
        BY <2>4, <3>2 DEF old
      <3> HIDE DEF a
      <3>4. /\ Study!Total(add, a, i) = Study!Total(add, a, i - 1) + add[i]
            /\ Study!Total(add, a, i) = add[a] + Study!Total(add, a + 1, i)
            /\ Study!Total(add, a, i - 1) \in Int /\ Study!Total(add, a + 1, i) \in Int
        BY <1>12, <3>2
      <3>5. add[a] \in Int /\ add[i] \in Int
        BY <2>1, <3>2
      <3>6. sum[i] = Study!Total(add, a + 1, i)
        BY <2>2, <2>3, <3>1, <3>3, <3>4, <3>5
      <3> QED
        BY <2>1, <3>1, <3>6
    <2>5. CASE ~(i - p + 1 >= first)
      <3>1. Kept(i, p, first) = first /\ Kept(i - 1, p, first) = first
        BY <1>1, <2>1, <2>5 DEF Kept
      <3>2. first \in first..Study!N /\ i \in first..Study!N
        BY <1>1, <2>1
      <3>3. old(i) = 0
        BY <2>5 DEF old
      <3>4. Study!Total(add, first, i) = Study!Total(add, first, i - 1) + add[i] /\ Study!Total(add, first, i - 1) \in Int
        BY <1>12, <3>2
      <3>5. add[i] \in Int
        BY <2>1
      <3> QED
        BY <2>1, <2>2, <2>3, <3>1, <3>3, <3>4, <3>5
    <2> QED
      BY <2>4, <2>5
  <1>16. low..Study!N \subseteq S
    <2> HIDE DEF S, low
    <2> QED
      BY <1>1, <1>14, <1>15, IntervalInduction
  <1>17. ASSUME NEW i \in (first + p - 1)..Study!N
         PROVE  /\ Study!Rolling(add, drop, p, first)[i] = Study!Total(add, i - p + 1, i)
                /\ Study!Rolling(add, drop, p, first)[i] \in Int
    <2>1. i - 1 \in low..Study!N /\ i \in Int /\ i - p + 1 \in first..Study!N /\ i \in (i - p + 1)..Study!N
      BY <1>1
    <2>2. Kept(i - 1, p, first) = i - p + 1
      BY <1>1, <2>1 DEF Kept
    <2>3. sum[i - 1] = Study!Total(add, i - p + 1, i - 1)
      BY <1>16, <2>1, <2>2
    <2>4. Study!Total(add, i - p + 1, i) = Study!Total(add, i - p + 1, i - 1) + add[i] /\ Study!Total(add, i - p + 1, i) \in Int
      BY <1>12, <2>1
    <2> QED
      BY <1>10, <2>3, <2>4
  <1>18. DOMAIN Study!Rolling(add, drop, p, first) = (first + p - 1)..Study!N
    BY <1>10
  <1> QED
    BY <1>17, <1>18

-----------------------------------------------------------------------------
(* Averages. *)

\* A weighted mean is between what it is of.
LEMMA MeanBetween ==
    ASSUME NEW low \in Int, NEW high \in Int, NEW a \in low..high, NEW b \in low..high,
           NEW w \in Nat, NEW r \in Nat, w + r > 0
    PROVE  (w * a + r * b) \div (w + r) \in low..high
  <1> DEFINE n == w + r
             m == w * a + r * b
  <1>1. n \in Nat \ {0} /\ m \in Int
    OBVIOUS
  <1>2. low * w <= a * w /\ a * w <= high * w /\ low * r <= b * r /\ b * r <= high * r
    BY TimesMonotone
  <1>3. n * low = low * w + low * r /\ n * high = high * w + high * r /\ m = a * w + b * r
        /\ low * w \in Int /\ low * r \in Int /\ a * w \in Int /\ b * r \in Int
        /\ high * w \in Int /\ high * r \in Int
    OBVIOUS
  <1> HIDE DEF n, m
  <1>4. n * low <= m /\ m < n * high + n
    BY <1>1, <1>2, <1>3
  <1>5. low <= m \div n /\ m \div n <= high /\ m \div n \in Int
    BY <1>1, <1>4, QuotientBounds, Division
  <1> QED
    BY <1>5 DEF m, n

\* A sum of p values over p is between them.
LEMMA MeanOf ==
    ASSUME NEW low \in Int, NEW high \in Int, NEW from \in Int, NEW p \in Nat \ {0}, NEW v,
           \A k \in from..(from + p - 1) : v[k] \in low..high
    PROVE  Study!Total(v, from, from + p - 1) \div p \in low..high
  <1> DEFINE to == from + p - 1
             m == Study!Total(v, from, to)
  <1>1. to \in Int /\ from - 1 <= to /\ to - from + 1 = p
    OBVIOUS
  <1>2. m \in Int /\ p * low <= m /\ m <= p * high
    <2> HIDE DEF to
    <2> QED
      BY <1>1, TotalBounds DEF to
  <1> HIDE DEF to, m
  <1>3. m < p * high + p
    <2>1. p * high \in Int
      OBVIOUS
    <2> QED
      BY <1>2, <2>1
  <1>4. low <= m \div p /\ m \div p <= high /\ m \div p \in Int
    BY <1>2, <1>3, QuotientBounds, Division
  <1> QED
    BY <1>4 DEF m, to

LEMMA CarriedIs ==
    ASSUME Study!N \in Nat, NEW low \in Int, NEW high \in Int, NEW first \in Int, first <= Study!N,
           NEW v, \A k \in first..Study!N : v[k] \in low..high, NEW begin \in low..high,
           NEW w \in Nat, NEW rest \in Nat, w + rest > 0
    PROVE  Study!Carried(v, first, begin, w, rest) \in [first..Study!N -> low..high]
  <1> DEFINE A == low..high
             step(a, i) == (w * v[i] + rest * a) \div (w + rest)
             Eq(s) == s = [i \in first..Study!N |->
                             IF i = first THEN begin
                             ELSE (w * v[i] + rest * s[i - 1]) \div (w + rest)]
             avg == CHOOSE s : Eq(s)
             G == [x \in A \X (first..Study!N) |-> step(x[1], x[2])]
  <1>1. ASSUME NEW a \in A, NEW i \in first..Study!N PROVE step(a, i) \in A
    BY MeanBetween
  <1> HIDE DEF step
  <1>2. G \in [A \X (first..Study!N) -> A]
    <2> SUFFICES ASSUME NEW x \in A \X (first..Study!N) PROVE step(x[1], x[2]) \in A
      OBVIOUS
    <2> HIDE DEF A
    <2> QED
      BY <1>1
  <1>3. PICK f : IsRecursion(f, first, Study!N, A, begin, G)
    <2>1. begin \in A /\ Study!N \in Int
      OBVIOUS
    <2> HIDE DEF G, A
    <2> QED
      BY <1>2, <2>1, RecursionExists
  <1>4. f \in [first..Study!N -> A]
    BY <1>3 DEF IsRecursion
  <1>5. ASSUME NEW k \in first..Study!N PROVE f[k] = IF k = first THEN begin ELSE step(f[k - 1], k)
    <2>1. f[k] = IF k = first THEN begin ELSE G[<<f[k - 1], k>>]
      BY <1>3 DEF IsRecursion
    <2>2. k # first => f[k - 1] \in A /\ <<f[k - 1], k>> \in A \X (first..Study!N)
      BY <1>4
    <2> QED
      BY <2>1, <2>2
  <1>6. Eq(f)
    <2>1. f = [i \in first..Study!N |-> f[i]]
      BY <1>4
    <2> QED
      BY <1>5, <2>1 DEF step
  <1>7. Eq(avg)
    <2> HIDE DEF Eq
    <2> QED
      BY <1>6
  <1>8. /\ avg = [i \in first..Study!N |-> IF i = first THEN begin ELSE step(avg[i - 1], i)]
        /\ \A k \in first..Study!N : avg[k] = IF k = first THEN begin ELSE step(avg[k - 1], k)
    <2> HIDE DEF avg
    <2> QED
      BY <1>7 DEF step
  <1>9. Study!Carried(v, first, begin, w, rest) = avg
    BY DEF Study!Carried
  <1> HIDE DEF avg
  <1> DEFINE S == {k \in first..Study!N : avg[k] \in A}
  <1>10. first \in S
    BY <1>8
  <1>11. ASSUME NEW k \in (first + 1)..Study!N, k - 1 \in S PROVE k \in S
    <2>1. k \in first..Study!N /\ k # first
      OBVIOUS
    <2> HIDE DEF A
    <2> QED
      BY <1>1, <1>8, <1>11, <2>1
  <1>12. first..Study!N \subseteq S
    <2>1. Study!N \in Int
      OBVIOUS
    <2> HIDE DEF S
    <2> QED
      BY <1>10, <1>11, <2>1, IntervalInduction
  <1>13. \A k \in first..Study!N : avg[k] \in A
    BY <1>12
  <1> HIDE DEF A
  <1>14. avg \in [first..Study!N -> A]
    BY <1>8, <1>13
  <1> QED
    BY <1>9, <1>14 DEF A

LEMMA EmaIs ==
    ASSUME Study!N \in Nat, NEW low \in Int, NEW high \in Int, NEW first \in Nat \ {0},
           NEW p \in Nat \ {0}, NEW v, \A k \in first..Study!N : v[k] \in low..high
    PROVE  /\ DOMAIN Study!Ema(v, p, first) = (first + p - 1)..Study!N
           /\ \A i \in (first + p - 1)..Study!N : Study!Ema(v, p, first)[i] \in low..high
  <1> DEFINE at == first + p - 1
  <1>1. at \in Nat /\ at >= first
    OBVIOUS
  <1>2. CASE at > Study!N
    <2>1. Study!Ema(v, p, first) = <<>> /\ at..Study!N = {}
      BY <1>1, <1>2 DEF Study!Ema
    <2>2. DOMAIN Study!Ema(v, p, first) = {}
      BY <2>1
    <2> QED
      BY <2>1, <2>2
  <1>3. CASE ~(at > Study!N)
    <2>1. \A k \in first..(first + p - 1) : v[k] \in low..high
      BY <1>1, <1>3
    <2>2. Study!Total(v, first, at) \div p \in low..high
      <3>1. first \in Int
        OBVIOUS
      <3> HIDE DEF at
      <3>2. Study!Total(v, first, first + p - 1) \div p \in low..high
        BY <2>1, <3>1, MeanOf
      <3> QED
        BY <3>2 DEF at
    <2>3. \A k \in at..Study!N : v[k] \in low..high
      BY <1>1
    <2>4. 2 \in Nat /\ p - 1 \in Nat /\ 2 + (p - 1) > 0
      OBVIOUS
    <2>5. at <= Study!N /\ at \in Int
      BY <1>1, <1>3
    <2> DEFINE e == Study!Carried(v, at, Study!Total(v, first, at) \div p, 2, p - 1)
    <2>6. Study!Ema(v, p, first) = e
      BY <1>3 DEF Study!Ema
    <2> HIDE DEF at
    <2>7. e \in [at..Study!N -> low..high]
      BY <2>2, <2>3, <2>4, <2>5, CarriedIs
    <2> HIDE DEF e
    <2> QED
      BY <2>6, <2>7 DEF at
  <1> QED
    BY <1>2, <1>3

-----------------------------------------------------------------------------
(* The bars. *)

LEMMA ParamsAre == P \in Nat \ {0} /\ Q \in Nat \ {0} /\ R \in Nat \ {0} /\ Precision \in Nat \ {0}
  BY ConstantsAssumption DEF Study!ParamsAssumption

LEMMA BarsAre ==
    ASSUME candles \in Seq(BarValues)
    PROVE  /\ Study!N \in Nat
           /\ \A i \in 1..Study!N :
                 /\ candles[i].open \in Nat /\ candles[i].high \in Nat /\ candles[i].low \in Nat
                 /\ candles[i].close \in Nat /\ candles[i].volume \in Nat
                 /\ candles[i].turnover \in Nat
                 /\ candles[i].low <= candles[i].open /\ candles[i].open <= candles[i].high
                 /\ candles[i].low <= candles[i].close /\ candles[i].close <= candles[i].high
  <1>1. Study!N \in Nat
    BY DEF Study!N
  <1>2. ASSUME NEW i \in 1..Study!N PROVE candles[i] \in BarValues
    BY DEF Study!N
  <1>3. ASSUME NEW b \in BarValues
        PROVE  /\ b.open \in Nat /\ b.high \in Nat /\ b.low \in Nat
               /\ b.close \in Nat /\ b.volume \in Nat /\ b.turnover \in Nat
               /\ b.low <= b.open /\ b.open <= b.high /\ b.low <= b.close /\ b.close <= b.high
    <2>1. b \in [open : Nat, high : Nat, low : Nat, close : Nat, volume : Nat,
                  turnover : Nat]
      BY ConstantsAssumption DEF Study!BarsAssumption
    <2> QED
      BY <2>1, ConstantsAssumption DEF Study!BarsAssumption
  <1> QED
    BY <1>1, <1>2, <1>3

LEMMA PrevIs ==
    ASSUME Study!N \in Nat, NEW i \in 1..Study!N
    PROVE  /\ Study!Prev(i) \in 1..Study!N
           /\ Study!Prev(i) = IF i - 1 \in 1..Study!N THEN i - 1 ELSE i
  BY DEF Study!Prev

LEMMA ExactRolling ==
    ASSUME Study!N \in Nat, NEW p \in Nat \ {0}, NEW first \in Nat \ {0},
           NEW add, NEW drop, \A k \in first..Study!N : add[k] \in Int /\ drop[k] = add[k]
    PROVE  Study!Exact(Study!Rolling(add, drop, p, first), add, p)
  BY RollingSums DEF Study!Exact

LEMMA WindowExact ==
    ASSUME Study!N \in Nat, NEW p \in Nat \ {0}, NEW v, \A k \in 1..Study!N : v[k] \in Int
    PROVE  /\ Study!Exact(Study!Window(v, p), v, p)
           /\ DOMAIN Study!Window(v, p) = p..Study!N
           /\ \A i \in p..Study!N : Study!Window(v, p)[i] \in Int /\ Study!Window(v, p)[i] = Study!Total(v, i - p + 1, i)
  <1>1. 1 \in Nat \ {0} /\ 1 + p - 1 = p
    OBVIOUS
  <1>2. \A k \in 1..Study!N : v[k] \in Int /\ v[k] = v[k]
    OBVIOUS
  <1>3. /\ DOMAIN Study!Rolling(v, v, p, 1) = (1 + p - 1)..Study!N
        /\ \A i \in (1 + p - 1)..Study!N : /\ Study!Rolling(v, v, p, 1)[i] = Study!Total(v, i - p + 1, i)
                                     /\ Study!Rolling(v, v, p, 1)[i] \in Int
    BY <1>1, <1>2, RollingSums
  <1>4. Study!Exact(Study!Rolling(v, v, p, 1), v, p)
    BY <1>1, <1>2, ExactRolling
  <1> QED
    BY <1>1, <1>3, <1>4 DEF Study!Window

LEMMA WindowTotals ==
    ASSUME Study!N \in Nat, NEW p \in Nat \ {0}, NEW i \in p..Study!N,
           NEW v, \A k \in 1..Study!N : v[k] \in Nat
    PROVE  /\ Study!Total(v, i - p + 1, i) \in Nat
           /\ \A j \in (i - p + 1)..i : v[j] <= Study!Total(v, i - p + 1, i)
  <1> DEFINE from == i - p + 1
  <1>1. from \in Int /\ i \in Int /\ from - 1 <= i /\ \A k \in from..i : v[k] \in Nat
    OBVIOUS
  <1> HIDE DEF from
  <1>2. Study!Total(v, from, i) \in Nat /\ \A j \in from..i : v[j] <= Study!Total(v, from, i)
    BY <1>1, TotalOver
  <1> QED
    BY <1>2 DEF from

LEMMA WindowBounds ==
    ASSUME Study!N \in Nat, NEW p \in Nat \ {0}, NEW i \in p..Study!N, NEW low \in Int, NEW high \in Int,
           NEW v, \A k \in 1..Study!N : v[k] \in low..high
    PROVE  /\ Study!Total(v, i - p + 1, i) \in Int
           /\ p * low <= Study!Total(v, i - p + 1, i) /\ Study!Total(v, i - p + 1, i) <= p * high
  <1> DEFINE from == i - p + 1
  <1>1. /\ from \in Int /\ i \in Int /\ from - 1 <= i /\ i - from + 1 = p
        /\ \A k \in from..i : v[k] \in low..high
    OBVIOUS
  <1> HIDE DEF from
  <1>2. /\ Study!Total(v, from, i) \in Int
        /\ (i - from + 1) * low <= Study!Total(v, from, i) /\ Study!Total(v, from, i) <= (i - from + 1) * high
    BY <1>1, TotalBounds
  <1>3. Study!Total(v, from, i) \in Int /\ p * low <= Study!Total(v, from, i) /\ Study!Total(v, from, i) <= p * high
    BY <1>1, <1>2
  <1> QED
    BY <1>3 DEF from

LEMMA ClosesAre ==
    ASSUME candles \in Seq(BarValues)
    PROVE  /\ \A i \in 1..Study!N : Study!Close[i] \in Nat /\ Study!Close[i] = candles[i].close
           /\ \A i \in 1..Study!N : Study!Volume[i] \in Nat /\ Study!Volume[i] = candles[i].volume
           /\ \A i \in 1..Study!N : Study!Change(i) \in Int
  <1>1. \A i \in 1..Study!N : Study!Change(i) \in Int
    <2> SUFFICES ASSUME NEW i \in 1..Study!N PROVE Study!Change(i) \in Int
      OBVIOUS
    <2>1. candles[i].close \in Nat /\ candles[Study!Prev(i)].close \in Nat
      BY BarsAre, PrevIs
    <2> QED
      BY <2>1 DEF Study!Change
  <1> QED
    BY <1>1, BarsAre DEF Study!Close, Study!Volume

LEMMA PercentIs ==
    ASSUME NEW a \in Int, NEW b \in Nat
    PROVE  /\ Study!Percent(a, b) \in Int
           /\ a >= 0 => Study!Percent(a, b) >= 0
           /\ a <= b => Study!Percent(a, b) <= 100
           /\ -b <= a => Study!Percent(a, b) >= -100
           /\ a <= 0 => Study!Percent(a, b) <= 0
  <1>1. CASE b = 0
    BY <1>1 DEF Study!Percent
  <1>2. CASE b # 0
    <2>1. b \in Nat \ {0} /\ 100 * a \in Int
      BY <1>2
    <2>2. Study!Percent(a, b) = (100 * a) \div b
      BY <1>2 DEF Study!Percent
    <2>3. (100 * a) \div b \in Int
      BY <2>1, Division
    <2>4. a >= 0 => (100 * a) \div b >= 0
      <3>1. a >= 0 => b * 0 <= 100 * a
        OBVIOUS
      <3> QED
        BY <2>1, <3>1, QuotientBounds
    <2>5. a <= b => (100 * a) \div b <= 100
      <3>1. a <= b => 100 * a < b * 100 + b
        BY <2>1
      <3> QED
        BY <2>1, <3>1, QuotientBounds
    <2>6. -b <= a => (100 * a) \div b >= -100
      <3>1. -b <= a => b * (-100) <= 100 * a
        BY <2>1
      <3> QED
        BY <2>1, <3>1, QuotientBounds
    <2>7. a <= 0 => (100 * a) \div b <= 0
      <3>1. a <= 0 => 100 * a < b * 0 + b
        BY <2>1
      <3> QED
        BY <2>1, <3>1, QuotientBounds
    <2> QED
      BY <2>2, <2>3, <2>4, <2>5, <2>6, <2>7
  <1> QED
    BY <1>1, <1>2

-----------------------------------------------------------------------------
(* Every running sum. *)

LEMMA PlainSums ==
    ASSUME candles \in Seq(BarValues)
    PROVE  /\ Study!Exact(Study!MovingAverage(P), Study!Close, P) /\ Study!Exact(Study!VolumeAverage(Q), Study!Volume, Q)
           /\ Study!Exact([i \in DOMAIN Study!Bias |-> Study!Bias[i][2]], Study!Close, P)
  <1>1. Study!N \in Nat /\ P \in Nat \ {0} /\ Q \in Nat \ {0}
    BY BarsAre, ParamsAre
  <1>2. (\A i \in 1..Study!N : Study!Close[i] \in Int) /\ (\A i \in 1..Study!N : Study!Volume[i] \in Int)
    BY ClosesAre
  <1>3. Study!Exact(Study!Window(Study!Close, P), Study!Close, P) /\ Study!Exact(Study!Window(Study!Volume, Q), Study!Volume, Q)
    BY <1>1, <1>2, WindowExact
  <1>4. Study!Exact([i \in DOMAIN Study!Bias |-> Study!Bias[i][2]], Study!Close, P)
    <2>1. DOMAIN Study!Bias = DOMAIN Study!Window(Study!Close, P)
      BY DEF Study!Bias
    <2>2. \A i \in DOMAIN Study!Bias : Study!Bias[i][2] = Study!Window(Study!Close, P)[i]
      BY DEF Study!Bias
    <2> QED
      BY <1>3, <2>1, <2>2 DEF Study!Exact
  <1> QED
    BY <1>3, <1>4 DEF Study!MovingAverage, Study!VolumeAverage

LEMMA DmaSum ==
    ASSUME candles \in Seq(BarValues)
    PROVE  Study!Exact(Study!DifferentOfMovingAverage.ama, Study!DifferentOfMovingAverage.dma, R)
  <1> DEFINE m == Study!Larger(P, Q)
             dma == [i \in m..Study!N |-> Study!Window(Study!Close, P)[i] * Q - Study!Window(Study!Close, Q)[i] * P]
  <1>1. Study!N \in Nat /\ P \in Nat \ {0} /\ Q \in Nat \ {0} /\ R \in Nat \ {0}
    BY BarsAre, ParamsAre
  <1>2. m \in Nat \ {0} /\ m >= P /\ m >= Q
    BY <1>1 DEF Study!Larger
  <1>3. \A i \in 1..Study!N : Study!Close[i] \in Int
    BY ClosesAre
  <1>4. (\A i \in P..Study!N : Study!Window(Study!Close, P)[i] \in Int) /\ (\A i \in Q..Study!N : Study!Window(Study!Close, Q)[i] \in Int)
    BY <1>1, <1>3, WindowExact
  <1>5. \A i \in m..Study!N : dma[i] \in Int /\ dma[i] = dma[i]
    <2> SUFFICES ASSUME NEW i \in m..Study!N
                 PROVE  Study!Window(Study!Close, P)[i] * Q - Study!Window(Study!Close, Q)[i] * P \in Int
      OBVIOUS
    <2>1. i \in P..Study!N /\ i \in Q..Study!N
      BY <1>1, <1>2
    <2> QED
      BY <1>1, <1>4, <2>1
  <1>6. Study!DifferentOfMovingAverage.dma = dma /\ Study!DifferentOfMovingAverage.ama = Study!Rolling(dma, dma, R, m)
    BY DEF Study!DifferentOfMovingAverage
  <1> HIDE DEF dma, m
  <1> QED
    BY <1>1, <1>2, <1>5, <1>6, ExactRolling

LEMMA LargerIs ==
    ASSUME NEW a \in Int, NEW b \in Int
    PROVE  /\ Study!Larger(a, b) \in {a, b} /\ Study!Larger(a, b) >= a /\ Study!Larger(a, b) >= b
           /\ Study!Larger(a, b) \in Int
           /\ Study!Smaller(a, b) \in {a, b} /\ Study!Smaller(a, b) <= a /\ Study!Smaller(a, b) <= b
           /\ Study!Smaller(a, b) \in Int
  BY DEF Study!Larger, Study!Smaller

\* Closes, and what is carried on from them, are no more than some bound.
LEMMA ClosesBounded ==
    ASSUME candles \in Seq(BarValues)
    PROVE  \E top \in Nat : \A i \in 1..Study!N : candles[i].close \in 0..top
  <1>1. Study!N \in Nat /\ \A i \in 1..Study!N : candles[i].close \in Nat
    BY BarsAre
  <1>2. CASE Study!N = 0
    BY <1>2
  <1>3. CASE Study!N # 0
    <2> DEFINE c == [i \in 1..Study!N |-> candles[i].close]
    <2>1. 1 \in Int /\ Study!N \in Int /\ 1 <= Study!N /\ \A i \in 1..Study!N : c[i] \in Int
      BY <1>1, <1>3
    <2>2. PICK j \in 1..Study!N : \A k \in 1..Study!N : c[k] <= c[j]
      <3> HIDE DEF c
      <3> QED
        BY <2>1, ExtremesOf
    <2> DEFINE top == candles[j].close
    <2>3. top \in Nat /\ \A k \in 1..Study!N : candles[k].close <= top
      BY <1>1, <2>2
    <2> HIDE DEF top
    <2>4. \A k \in 1..Study!N : candles[k].close \in 0..top
      <3> SUFFICES ASSUME NEW k \in 1..Study!N PROVE candles[k].close \in 0..top
        OBVIOUS
      <3>1. candles[k].close \in Nat /\ candles[k].close <= top
        BY <1>1, <2>3
      <3> QED
        BY <2>3, <3>1
    <2> QED
      BY <2>3, <2>4
  <1> QED
    BY <1>2, <1>3

LEMMA ScaledIs ==
    ASSUME candles \in Seq(BarValues), NEW low \in Nat, NEW high \in Nat,
           \A i \in 1..Study!N : candles[i].close \in low..high
    PROVE  \A i \in 1..Study!N : Study!Scaled(Study!Close)[i] \in (Precision * low)..(Precision * high)
  <1> SUFFICES ASSUME NEW i \in 1..Study!N PROVE Study!Scaled(Study!Close)[i] \in (Precision * low)..(Precision * high)
    OBVIOUS
  <1> DEFINE c == candles[i].close
  <1>1. c \in Nat /\ low <= c /\ c <= high /\ Precision \in Nat
    BY BarsAre, ParamsAre
  <1>2. Study!Scaled(Study!Close)[i] = Precision * c
    BY DEF Study!Scaled, Study!Close
  <1> HIDE DEF c
  <1>3. low * Precision <= c * Precision /\ c * Precision <= high * Precision
    BY <1>1, TimesMonotone
  <1>4. low * Precision = Precision * low /\ c * Precision = Precision * c /\ high * Precision = Precision * high
        /\ Precision * low \in Int /\ Precision * c \in Int /\ Precision * high \in Int
    BY <1>1
  <1> QED
    BY <1>2, <1>3, <1>4

LEMMA TrixSum ==
    ASSUME candles \in Seq(BarValues)
    PROVE  Study!Exact(Study!Trix.maTrix, Study!Trix.trix, Q)
  <1> DEFINE one == Study!Ema(Study!Scaled(Study!Close), P, 1)
             two == Study!Ema(one, P, P)
             tr == Study!Ema(two, P, 2 * P - 1)
             begin == 3 * P - 2
             trix == [i \in begin..Study!N |->
                        IF i = begin THEN 0 ELSE Study!Percent(tr[i] - tr[i - 1], tr[i - 1])]
  <1>1. /\ Study!N \in Nat /\ P \in Nat \ {0} /\ Q \in Nat \ {0} /\ Precision \in Nat \ {0}
        /\ 1 \in Nat \ {0} /\ 2 * P - 1 \in Nat \ {0} /\ begin \in Nat \ {0}
        /\ 1 + P - 1 = P /\ P + P - 1 = 2 * P - 1 /\ 2 * P - 1 + P - 1 = begin
    BY BarsAre, ParamsAre
  <1>2. PICK top \in Nat : \A i \in 1..Study!N : candles[i].close \in 0..top
    BY ClosesBounded
  <1> DEFINE high == Precision * top
  <1>3. high \in Int /\ \A i \in 1..Study!N : Study!Scaled(Study!Close)[i] \in 0..high
    <2>1. 0 \in Nat /\ Precision * 0 = 0 /\ Precision * top \in Int
      BY <1>1
    <2> QED
      BY <1>2, <2>1, ScaledIs
  <1> HIDE DEF high
  <1>0. 0 \in Int /\ P \in Nat \ {0} /\ P + P - 1 = 2 * P - 1
    BY <1>1
  <1>4. \A i \in P..Study!N : one[i] \in 0..high
    <2>1. \A i \in (1 + P - 1)..Study!N : one[i] \in 0..high
      BY <1>0, <1>1, <1>3, EmaIs
    <2> HIDE DEF one
    <2> QED
      BY <1>1, <2>1
  <1> HIDE DEF one
  <1>5. \A i \in (2 * P - 1)..Study!N : two[i] \in 0..high
    <2>1. \A i \in (P + P - 1)..Study!N : two[i] \in 0..high
      BY <1>0, <1>1, <1>3, <1>4, EmaIs
    <2> HIDE DEF two
    <2> QED
      BY <1>1, <2>1
  <1> HIDE DEF two
  <1>6. \A i \in begin..Study!N : tr[i] \in 0..high
    <2> DEFINE d == 2 * P - 1
    <2>1. d \in Nat \ {0} /\ d + P - 1 = begin
      BY <1>1
    <2>2. tr = Study!Ema(two, P, d) /\ \A i \in d..Study!N : two[i] \in 0..high
      BY <1>5
    <2> HIDE DEF begin, d, tr
    <2>3. \A i \in (d + P - 1)..Study!N : Study!Ema(two, P, d)[i] \in 0..high
      BY <1>0, <1>1, <1>3, <2>1, <2>2, EmaIs
    <2> QED
      BY <2>1, <2>2, <2>3
  <1> HIDE DEF tr
  <1>7. \A i \in begin..Study!N : trix[i] \in Int /\ trix[i] = trix[i]
    <2> SUFFICES ASSUME NEW i \in begin..Study!N, i # begin PROVE Study!Percent(tr[i] - tr[i - 1], tr[i - 1]) \in Int
      OBVIOUS
    <2>1. i - 1 \in begin..Study!N
      BY <1>1
    <2>2. tr[i] \in Int /\ tr[i - 1] \in Nat
      BY <1>3, <1>6, <2>1
    <2>3. tr[i] - tr[i - 1] \in Int
      BY <2>2
    <2> QED
      BY <2>2, <2>3, PercentIs
  <1>8. Study!Trix.trix = trix /\ Study!Trix.maTrix = Study!Rolling(trix, trix, Q, begin)
    BY DEF Study!Trix, one, two, tr
  <1> HIDE DEF trix, begin
  <1> QED
    BY <1>1, <1>7, <1>8, ExactRolling

LEMMA BrarExact ==
    ASSUME candles \in Seq(BarValues)
    PROVE  /\ Study!Exact(Study!BrarSums.hcy, [i \in 1..Study!N |-> candles[i].high - candles[Study!Prev(i)].close], P)
           /\ Study!Exact(Study!BrarSums.cyl, [i \in 1..Study!N |-> candles[Study!Prev(i)].close - candles[i].low], P)
           /\ Study!BrarSums.ho = Study!Window([i \in 1..Study!N |-> candles[i].high - candles[i].open], P)
           /\ Study!BrarSums.ol = Study!Window([i \in 1..Study!N |-> candles[i].open - candles[i].low], P)
           /\ DOMAIN Study!BrarSums.ho = P..Study!N
  <1> DEFINE over == [i \in 1..Study!N |-> candles[i].high - candles[Study!Prev(i)].close]
             under == [i \in 1..Study!N |-> candles[Study!Prev(i)].close - candles[i].low]
             ago(i) == candles[IF i - 1 \in 1..Study!N THEN i - 1 ELSE i].close
             overAgo == [i \in 1..Study!N |-> candles[i].high - ago(i)]
             underAgo == [i \in 1..Study!N |-> ago(i) - candles[i].low]
             gap == [i \in 1..Study!N |-> candles[i].high - candles[i].open]
  <1>1. Study!N \in Nat /\ P \in Nat \ {0} /\ 1 \in Nat \ {0}
    BY BarsAre, ParamsAre
  <1>2. \A i \in 1..Study!N : /\ over[i] \in Int /\ overAgo[i] = over[i]
                        /\ under[i] \in Int /\ underAgo[i] = under[i]
                        /\ gap[i] \in Int
    <2> SUFFICES ASSUME NEW i \in 1..Study!N
                 PROVE  /\ candles[i].high - candles[Study!Prev(i)].close \in Int
                        /\ candles[Study!Prev(i)].close - candles[i].low \in Int
                        /\ candles[i].high - candles[i].open \in Int
                        /\ ago(i) = candles[Study!Prev(i)].close
      OBVIOUS
    <2>1. /\ candles[i].high \in Nat /\ candles[i].low \in Nat /\ candles[i].open \in Nat
          /\ candles[Study!Prev(i)].close \in Nat
      BY BarsAre, PrevIs
    <2>2. ago(i) = candles[Study!Prev(i)].close
      BY <1>1, PrevIs
    <2> HIDE DEF ago
    <2> QED
      BY <2>1, <2>2
  <1>3. /\ Study!BrarSums.hcy = Study!Rolling(over, overAgo, P, 1) /\ Study!BrarSums.cyl = Study!Rolling(under, underAgo, P, 1)
        /\ Study!BrarSums.ho = Study!Window(gap, P)
        /\ Study!BrarSums.ol = Study!Window([i \in 1..Study!N |-> candles[i].open - candles[i].low], P)
    BY DEF Study!BrarSums
  <1>4. Study!Exact(Study!Rolling(over, overAgo, P, 1), over, P) /\ Study!Exact(Study!Rolling(under, underAgo, P, 1), under, P)
    <2> HIDE DEF over, overAgo, under, underAgo
    <2> QED
      BY <1>1, <1>2, ExactRolling
  <1>5. DOMAIN Study!Window(gap, P) = P..Study!N
    <2> HIDE DEF gap
    <2> QED
      BY <1>1, <1>2, WindowExact
  <1> QED
    BY <1>3, <1>4, <1>5

LEMMA RatioSum ==
    ASSUME candles \in Seq(BarValues)
    PROVE  Study!Exact(Study!CurrentRatio.sum, Study!CurrentRatio.cr, Q)
  <1> DEFINE mid4(i) == LET b == candles[Study!Prev(i)] IN b.high + b.close + b.low + b.open
             cr == [i \in P..Study!N |-> Study!Percent(Study!Larger(0, 4 * candles[i].high - mid4(i)),
                                           Study!Larger(0, mid4(i) - 4 * candles[i].low))]
  <1>1. Study!N \in Nat /\ P \in Nat \ {0} /\ Q \in Nat \ {0}
    BY BarsAre, ParamsAre
  <1>2. Study!CurrentRatio.cr = cr /\ Study!CurrentRatio.sum = Study!Rolling(cr, cr, Q, P)
    BY DEF Study!CurrentRatio
  <1>3. \A i \in P..Study!N : cr[i] \in Int /\ cr[i] = cr[i]
    <2> SUFFICES ASSUME NEW i \in P..Study!N
                 PROVE  Study!Percent(Study!Larger(0, 4 * candles[i].high - mid4(i)),
                                Study!Larger(0, mid4(i) - 4 * candles[i].low)) \in Int
      OBVIOUS
    <2>1. i \in 1..Study!N
      BY <1>1
    <2> DEFINE j == Study!Prev(i)
    <2>2. j \in 1..Study!N
      BY <1>1, <2>1, PrevIs
    <2> HIDE DEF j
    <2>3. /\ candles[i].high \in Nat /\ candles[i].low \in Nat
          /\ candles[j].high \in Nat /\ candles[j].close \in Nat /\ candles[j].low \in Nat
          /\ candles[j].open \in Nat
      BY <2>1, <2>2, BarsAre
    <2>4. mid4(i) \in Int
      BY <2>3 DEF j
    <2> HIDE DEF mid4
    <2>5. 0 \in Int /\ 4 * candles[i].high - mid4(i) \in Int /\ mid4(i) - 4 * candles[i].low \in Int
      BY <2>3, <2>4
    <2>6. /\ Study!Larger(0, 4 * candles[i].high - mid4(i)) \in Int
          /\ Study!Larger(0, mid4(i) - 4 * candles[i].low) \in Int
          /\ Study!Larger(0, mid4(i) - 4 * candles[i].low) >= 0
      BY <2>5, LargerIs
    <2>7. Study!Larger(0, mid4(i) - 4 * candles[i].low) \in Nat
      BY <2>6
    <2> QED
      BY <2>6, <2>7, PercentIs
  <1> HIDE DEF cr
  <1> QED
    BY <1>1, <1>2, <1>3, ExactRolling

LEMMA EaseSum ==
    ASSUME candles \in Seq(BarValues)
    PROVE  Study!Exact(Study!EaseOfMovement.maEmv, Study!EaseOfMovement.emv, P)
  <1> DEFINE moved(i) == (Precision * (candles[i].high + candles[i].low - candles[i - 1].high - candles[i - 1].low)
                            * (candles[i].high - candles[i].low)) \div (2 * candles[i].volume)
             emv == [i \in 2..Study!N |-> IF candles[i].volume = 0 \/ candles[i].high = candles[i].low
                                    THEN 0 ELSE moved(i)]
  <1>1. Study!N \in Nat /\ P \in Nat \ {0} /\ 2 \in Nat \ {0} /\ Precision \in Nat
    BY BarsAre, ParamsAre
  <1>2. Study!EaseOfMovement.emv = emv /\ Study!EaseOfMovement.maEmv = Study!Rolling(emv, emv, P, 2)
    BY DEF Study!EaseOfMovement
  <1>3. \A i \in 2..Study!N : emv[i] \in Int /\ emv[i] = emv[i]
    <2> SUFFICES ASSUME NEW i \in 2..Study!N, candles[i].volume # 0 PROVE moved(i) \in Int
      OBVIOUS
    <2>1. i \in 1..Study!N /\ i - 1 \in 1..Study!N
      BY <1>1
    <2>2. /\ candles[i].high \in Nat /\ candles[i].low \in Nat /\ candles[i].volume \in Nat
          /\ candles[i - 1].high \in Nat /\ candles[i - 1].low \in Nat
      BY <2>1, BarsAre
    <2> DEFINE a == candles[i].high + candles[i].low - candles[i - 1].high - candles[i - 1].low
               b == candles[i].high - candles[i].low
               c == 2 * candles[i].volume
    <2>3. a \in Int /\ b \in Int /\ c \in Nat \ {0}
      <3>1. candles[i].volume # 0
        OBVIOUS
      <3>2. a \in Int /\ b \in Int
        BY ONLY <2>2
      <3>3. c \in Nat \ {0}
        BY ONLY <2>2, <3>1
      <3> QED
        BY <3>2, <3>3
    <2> HIDE DEF a, b, c
    <2>4. Precision * a * b \in Int
      BY <1>1, <2>3
    <2>5. (Precision * a * b) \div c \in Int
      BY <2>3, <2>4, Division
    <2> QED
      BY <2>5 DEF a, b, c
  <1> HIDE DEF emv
  <1> QED
    BY <1>1, <1>2, <1>3, ExactRolling

LEMMA MomentumSum ==
    ASSUME candles \in Seq(BarValues)
    PROVE  Study!Exact(Study!Momentum.maMtm, Study!Momentum.mtm, Q)
  <1> DEFINE mtm == [i \in (P + 1)..Study!N |-> candles[i].close - candles[i - P].close]
  <1>1. Study!N \in Nat /\ P \in Nat \ {0} /\ Q \in Nat \ {0} /\ P + 1 \in Nat \ {0}
    BY BarsAre, ParamsAre
  <1>2. Study!Momentum.mtm = mtm /\ Study!Momentum.maMtm = Study!Rolling(mtm, mtm, Q, P + 1)
    BY DEF Study!Momentum
  <1>3. \A i \in (P + 1)..Study!N : mtm[i] \in Int /\ mtm[i] = mtm[i]
    <2> SUFFICES ASSUME NEW i \in (P + 1)..Study!N PROVE candles[i].close - candles[i - P].close \in Int
      OBVIOUS
    <2>1. i \in 1..Study!N /\ i - P \in 1..Study!N
      BY <1>1
    <2>2. candles[i].close \in Nat /\ candles[i - P].close \in Nat
      BY <2>1, BarsAre
    <2> QED
      BY <2>2
  <1> HIDE DEF mtm
  <1> QED
    BY <1>1, <1>2, <1>3, ExactRolling

LEMMA PsychologicalSum ==
    ASSUME candles \in Seq(BarValues)
    PROVE  /\ Study!Exact(Study!PsychologicalLine.maPsy, Study!PsychologicalLine.psy, Q)
           /\ Study!Within(Study!PsychologicalLine.psy, 0, 100)
  <1> DEFINE up == [i \in 1..Study!N |-> IF Study!Change(i) > 0 THEN 1 ELSE 0]
             count == Study!Window(up, P)
             psy == [i \in P..Study!N |-> Study!Percent(count[i], P)]
  <1>1. Study!N \in Nat /\ P \in Nat \ {0} /\ Q \in Nat \ {0}
    BY BarsAre, ParamsAre
  <1>2. Study!PsychologicalLine.psy = psy /\ Study!PsychologicalLine.maPsy = Study!Rolling(psy, psy, Q, P)
    BY DEF Study!PsychologicalLine
  <1>3. \A i \in 1..Study!N : up[i] \in 0..1
    OBVIOUS
  <1> HIDE DEF up
  <1>4. \A i \in P..Study!N : count[i] \in 0..P
    <2>1. \A i \in 1..Study!N : up[i] \in Int
      BY <1>3
    <2> SUFFICES ASSUME NEW i \in P..Study!N PROVE count[i] \in 0..P
      OBVIOUS
    <2>2. count[i] \in Int /\ count[i] = Study!Total(up, i - P + 1, i)
      BY <1>1, <2>1, WindowExact
    <2>3. 0 \in Int /\ 1 \in Int
      OBVIOUS
    <2>4. P * 0 <= Study!Total(up, i - P + 1, i) /\ Study!Total(up, i - P + 1, i) <= P * 1
      BY <1>1, <1>3, <2>3, WindowBounds
    <2>5. P * 0 = 0 /\ P * 1 = P
      BY <1>1
    <2> QED
      BY <2>2, <2>4, <2>5
  <1> HIDE DEF count
  <1>5. \A i \in P..Study!N : psy[i] \in Int /\ psy[i] = psy[i] /\ 0 <= psy[i] /\ psy[i] <= 100
    <2> SUFFICES ASSUME NEW i \in P..Study!N
                 PROVE  /\ Study!Percent(count[i], P) \in Int
                        /\ 0 <= Study!Percent(count[i], P) /\ Study!Percent(count[i], P) <= 100
      OBVIOUS
    <2>1. count[i] \in Int /\ count[i] >= 0 /\ count[i] <= P
      BY <1>1, <1>4
    <2> QED
      BY <1>1, <2>1, PercentIs
  <1>6. DOMAIN psy = P..Study!N
    OBVIOUS
  <1> HIDE DEF psy
  <1>7. Study!Exact(Study!Rolling(psy, psy, Q, P), psy, Q)
    BY <1>1, <1>5, ExactRolling
  <1> QED
    BY <1>2, <1>5, <1>6, <1>7 DEF Study!Within

LEMMA RateSum ==
    ASSUME candles \in Seq(BarValues)
    PROVE  Study!Exact(Study!RateOfChange.maRoc, Study!RateOfChange.roc, Q)
  <1> DEFINE ago(i) == candles[IF i > P THEN i - P ELSE i - P + 1].close
             roc == [i \in P..Study!N |-> Study!Percent(candles[i].close - ago(i), ago(i))]
  <1>1. Study!N \in Nat /\ P \in Nat \ {0} /\ Q \in Nat \ {0}
    BY BarsAre, ParamsAre
  <1>2. Study!RateOfChange.roc = roc /\ Study!RateOfChange.maRoc = Study!Rolling(roc, roc, Q, P)
    BY DEF Study!RateOfChange
  <1>3. \A i \in P..Study!N : roc[i] \in Int /\ roc[i] = roc[i]
    <2> SUFFICES ASSUME NEW i \in P..Study!N PROVE Study!Percent(candles[i].close - ago(i), ago(i)) \in Int
      OBVIOUS
    <2>1. i \in 1..Study!N /\ (IF i > P THEN i - P ELSE i - P + 1) \in 1..Study!N
      BY <1>1
    <2>2. candles[i].close \in Nat /\ ago(i) \in Nat
      BY <2>1, BarsAre
    <2> HIDE DEF ago
    <2>3. candles[i].close - ago(i) \in Int
      BY <2>2
    <2> QED
      BY <2>2, <2>3, PercentIs
  <1> HIDE DEF roc
  <1> QED
    BY <1>1, <1>2, <1>3, ExactRolling

\* What the bar that leaves had changed by, as it is taken out, is its change.
LEMMA AgoIsChange ==
    ASSUME candles \in Seq(BarValues), NEW i \in 1..Study!N
    PROVE  candles[i].close - candles[IF i - 1 \in 1..Study!N THEN i - 1 ELSE i].close = Study!Change(i)
  BY BarsAre, PrevIs DEF Study!Change

LEMMA RsiSum ==
    ASSUME candles \in Seq(BarValues)
    PROVE  /\ Study!Exact(Study!RsiSums.gain, [i \in 1..Study!N |-> Study!Larger(0, Study!Change(i))], P)
           /\ Study!Exact(Study!RsiSums.loss, [i \in 1..Study!N |-> Study!Larger(0, -Study!Change(i))], P)
           /\ DOMAIN Study!RsiSums.gain = P..Study!N /\ DOMAIN Study!RsiSums.loss = P..Study!N
           /\ \A i \in P..Study!N : Study!RsiSums.gain[i] \in Nat /\ Study!RsiSums.loss[i] \in Nat
  <1> DEFINE gain == [i \in 1..Study!N |-> Study!Larger(0, Study!Change(i))]
             loss == [i \in 1..Study!N |-> Study!Larger(0, -Study!Change(i))]
             ago(i) == candles[i].close - candles[IF i - 1 \in 1..Study!N THEN i - 1 ELSE i].close
             gainAgo == [i \in 1..Study!N |-> Study!Larger(0, ago(i))]
             lossAgo == [i \in 1..Study!N |-> Study!Larger(0, -ago(i))]
  <1>1. Study!N \in Nat /\ P \in Nat \ {0} /\ 1 \in Nat \ {0} /\ 1 + P - 1 = P
    BY BarsAre, ParamsAre
  <1>2. Study!RsiSums.gain = Study!Rolling(gain, gainAgo, P, 1) /\ Study!RsiSums.loss = Study!Rolling(loss, lossAgo, P, 1)
    BY DEF Study!RsiSums
  <1>3. \A i \in 1..Study!N : /\ gain[i] \in Nat /\ gainAgo[i] = gain[i]
                        /\ loss[i] \in Nat /\ lossAgo[i] = loss[i]
    <2> SUFFICES ASSUME NEW i \in 1..Study!N
                 PROVE  /\ Study!Larger(0, Study!Change(i)) \in Nat /\ Study!Larger(0, -Study!Change(i)) \in Nat
                        /\ ago(i) = Study!Change(i)
      OBVIOUS
    <2>1. ago(i) = Study!Change(i)
      BY AgoIsChange
    <2> HIDE DEF ago
    <2>2. Study!Change(i) \in Int /\ -Study!Change(i) \in Int /\ 0 \in Int
      BY ClosesAre
    <2>3. /\ Study!Larger(0, Study!Change(i)) \in Int /\ Study!Larger(0, Study!Change(i)) >= 0
          /\ Study!Larger(0, -Study!Change(i)) \in Int /\ Study!Larger(0, -Study!Change(i)) >= 0
      BY <2>2, LargerIs
    <2> QED
      BY <2>1, <2>3
  <1> HIDE DEF gain, loss, gainAgo, lossAgo
  <1>4. (\A i \in 1..Study!N : gain[i] \in Int /\ gainAgo[i] = gain[i])
        /\ (\A i \in 1..Study!N : loss[i] \in Int /\ lossAgo[i] = loss[i])
    BY <1>3
  <1>5. /\ Study!Exact(Study!Rolling(gain, gainAgo, P, 1), gain, P)
        /\ Study!Exact(Study!Rolling(loss, lossAgo, P, 1), loss, P)
    BY <1>1, <1>4, ExactRolling
  <1>6. /\ DOMAIN Study!Rolling(gain, gainAgo, P, 1) = (1 + P - 1)..Study!N
        /\ DOMAIN Study!Rolling(loss, lossAgo, P, 1) = (1 + P - 1)..Study!N
        /\ \A i \in (1 + P - 1)..Study!N :
              Study!Rolling(gain, gainAgo, P, 1)[i] = Study!Total(gain, i - P + 1, i)
        /\ \A i \in (1 + P - 1)..Study!N :
              Study!Rolling(loss, lossAgo, P, 1)[i] = Study!Total(loss, i - P + 1, i)
    BY <1>1, <1>4, RollingSums
  <1>7. ASSUME NEW i \in P..Study!N
        PROVE  Study!Total(gain, i - P + 1, i) \in Nat /\ Study!Total(loss, i - P + 1, i) \in Nat
    <2>1. (\A k \in 1..Study!N : gain[k] \in Nat) /\ (\A k \in 1..Study!N : loss[k] \in Nat)
      BY <1>3
    <2>2. Study!Total(gain, i - P + 1, i) \in Nat
      BY <1>1, <2>1, WindowTotals
    <2> QED
      BY <1>1, <2>1, <2>2, WindowTotals
  <1>8. \A i \in P..Study!N : Study!RsiSums.gain[i] \in Nat /\ Study!RsiSums.loss[i] \in Nat
    BY <1>1, <1>2, <1>6, <1>7
  <1> QED
    BY <1>1, <1>2, <1>5, <1>6, <1>8 DEF gain, loss

LEMMA VolumeSums ==
    ASSUME candles \in Seq(BarValues)
    PROVE  /\ DOMAIN Study!VolumeRatioSums.up = P..Study!N
           /\ \A i \in P..Study!N :
                 /\ Study!VolumeRatioSums.up[i] \in Nat /\ Study!VolumeRatioSums.down[i] \in Nat
                 /\ Study!VolumeRatioSums.same[i] \in Nat
                 /\ Study!VolumeRatioSums.up[i] + Study!VolumeRatioSums.down[i] + Study!VolumeRatioSums.same[i]
                       = Study!Total(Study!Volume, i - P + 1, i)
  <1> DEFINE Of(i, c) == IF c THEN candles[i].volume ELSE 0
             ago(i) == candles[i].close - candles[IF i - 1 \in 1..Study!N THEN i - 1 ELSE i].close
             up == [i \in 1..Study!N |-> Of(i, Study!Change(i) > 0)]
             down == [i \in 1..Study!N |-> Of(i, Study!Change(i) < 0)]
             same == [i \in 1..Study!N |-> Of(i, Study!Change(i) = 0)]
             upAgo == [i \in 1..Study!N |-> Of(i, ago(i) > 0)]
             downAgo == [i \in 1..Study!N |-> Of(i, ago(i) < 0)]
             sameAgo == [i \in 1..Study!N |-> Of(i, ago(i) = 0)]
  <1>1. Study!N \in Nat /\ P \in Nat \ {0} /\ 1 \in Nat \ {0} /\ 1 + P - 1 = P
    BY BarsAre, ParamsAre
  <1>2. /\ Study!VolumeRatioSums.up = Study!Rolling(up, upAgo, P, 1)
        /\ Study!VolumeRatioSums.down = Study!Rolling(down, downAgo, P, 1)
        /\ Study!VolumeRatioSums.same = Study!Rolling(same, sameAgo, P, 1)
    BY DEF Study!VolumeRatioSums
  <1>3. \A i \in 1..Study!N : /\ up[i] \in Nat /\ upAgo[i] = up[i]
                        /\ down[i] \in Nat /\ downAgo[i] = down[i]
                        /\ same[i] \in Nat /\ sameAgo[i] = same[i]
                        /\ Study!Volume[i] = up[i] + down[i] + same[i]
    <2> SUFFICES ASSUME NEW i \in 1..Study!N
                 PROVE  /\ up[i] \in Nat /\ upAgo[i] = up[i]
                        /\ down[i] \in Nat /\ downAgo[i] = down[i]
                        /\ same[i] \in Nat /\ sameAgo[i] = same[i]
                        /\ Study!Volume[i] = up[i] + down[i] + same[i]
      OBVIOUS
    <2>1. ago(i) = Study!Change(i)
      BY AgoIsChange
    <2> HIDE DEF ago
    <2>2. candles[i].volume \in Nat /\ Study!Change(i) \in Int /\ Study!Volume[i] = candles[i].volume
      BY BarsAre, ClosesAre
    <2> QED
      BY <2>1, <2>2
  <1> HIDE DEF up, down, same, upAgo, downAgo, sameAgo
  <1>4. /\ \A i \in 1..Study!N : up[i] \in Int /\ upAgo[i] = up[i]
        /\ \A i \in 1..Study!N : down[i] \in Int /\ downAgo[i] = down[i]
        /\ \A i \in 1..Study!N : same[i] \in Int /\ sameAgo[i] = same[i]
    BY <1>3
  <1>5. /\ DOMAIN Study!Rolling(up, upAgo, P, 1) = (1 + P - 1)..Study!N
        /\ \A i \in (1 + P - 1)..Study!N : Study!Rolling(up, upAgo, P, 1)[i] = Study!Total(up, i - P + 1, i)
        /\ \A i \in (1 + P - 1)..Study!N : Study!Rolling(down, downAgo, P, 1)[i] = Study!Total(down, i - P + 1, i)
        /\ \A i \in (1 + P - 1)..Study!N : Study!Rolling(same, sameAgo, P, 1)[i] = Study!Total(same, i - P + 1, i)
    <2>1. /\ DOMAIN Study!Rolling(up, upAgo, P, 1) = (1 + P - 1)..Study!N
          /\ \A i \in (1 + P - 1)..Study!N : Study!Rolling(up, upAgo, P, 1)[i] = Study!Total(up, i - P + 1, i)
      BY <1>1, <1>4, RollingSums
    <2>2. \A i \in (1 + P - 1)..Study!N : Study!Rolling(down, downAgo, P, 1)[i] = Study!Total(down, i - P + 1, i)
      BY <1>1, <1>4, RollingSums
    <2>3. \A i \in (1 + P - 1)..Study!N : Study!Rolling(same, sameAgo, P, 1)[i] = Study!Total(same, i - P + 1, i)
      BY <1>1, <1>4, RollingSums
    <2> QED
      BY <2>1, <2>2, <2>3
  <1>6. ASSUME NEW i \in P..Study!N
        PROVE  /\ Study!Total(up, i - P + 1, i) \in Nat /\ Study!Total(down, i - P + 1, i) \in Nat
               /\ Study!Total(same, i - P + 1, i) \in Nat
               /\ Study!Total(up, i - P + 1, i) + Study!Total(down, i - P + 1, i) + Study!Total(same, i - P + 1, i)
                     = Study!Total(Study!Volume, i - P + 1, i)
    <2>1. /\ \A k \in 1..Study!N : up[k] \in Nat
          /\ \A k \in 1..Study!N : down[k] \in Nat
          /\ \A k \in 1..Study!N : same[k] \in Nat
      BY <1>3
    <2>2. Study!Total(up, i - P + 1, i) \in Nat
      BY <1>1, <2>1, WindowTotals
    <2>3. Study!Total(down, i - P + 1, i) \in Nat
      BY <1>1, <2>1, WindowTotals
    <2>4. Study!Total(same, i - P + 1, i) \in Nat
      BY <1>1, <2>1, WindowTotals
    <2>5. Study!Total(up, i - P + 1, i) + Study!Total(down, i - P + 1, i) + Study!Total(same, i - P + 1, i)
             = Study!Total(Study!Volume, i - P + 1, i)
      <3> DEFINE from == i - P + 1
      <3>1. from \in Int /\ i \in Int /\ from - 1 <= i
        BY <1>1
      <3>2. \A k \in from..i : /\ up[k] \in Int /\ down[k] \in Int /\ same[k] \in Int
                               /\ Study!Volume[k] = up[k] + down[k] + same[k]
        BY <1>1, <1>3
      <3> HIDE DEF from
      <3>3. Study!Total(up, from, i) + Study!Total(down, from, i) + Study!Total(same, from, i) = Study!Total(Study!Volume, from, i)
        BY <3>1, <3>2, TotalSplits
      <3> QED
        BY <3>3 DEF from
    <2> QED
      BY <2>2, <2>3, <2>4, <2>5
  <1> QED
    BY <1>1, <1>2, <1>5, <1>6

LEMMA RatioOfVolumes ==
    ASSUME candles \in Seq(BarValues)
    PROVE  /\ Study!Exact(Study!VolumeRatio.maVr, Study!VolumeRatio.vr, Q)
           /\ \A i \in DOMAIN Study!VolumeRatio.vr : Study!VolumeRatio.vr[i] >= 0
  <1> DEFINE s == Study!VolumeRatioSums
             vr == [i \in P..Study!N |-> Study!Percent(2 * s.up[i] + s.same[i], 2 * s.down[i] + s.same[i])]
  <1>1. Study!N \in Nat /\ P \in Nat \ {0} /\ Q \in Nat \ {0}
    BY BarsAre, ParamsAre
  <1>2. Study!VolumeRatio.vr = vr /\ Study!VolumeRatio.maVr = Study!Rolling(vr, vr, Q, P)
    BY VolumeSums DEF Study!VolumeRatio
  <1>3. \A i \in P..Study!N : vr[i] \in Int /\ vr[i] = vr[i] /\ vr[i] >= 0
    <2> SUFFICES ASSUME NEW i \in P..Study!N
                 PROVE  /\ Study!Percent(2 * s.up[i] + s.same[i], 2 * s.down[i] + s.same[i]) \in Int
                        /\ Study!Percent(2 * s.up[i] + s.same[i], 2 * s.down[i] + s.same[i]) >= 0
      OBVIOUS
    <2>1. s.up[i] \in Nat /\ s.down[i] \in Nat /\ s.same[i] \in Nat
      BY VolumeSums
    <2> HIDE DEF s
    <2>2. ASSUME NEW a \in Nat, NEW b \in Nat
          PROVE  2 * a + b \in Int /\ 2 * a + b >= 0 /\ 2 * a + b \in Nat
      OBVIOUS
    <2>3. /\ 2 * s.up[i] + s.same[i] \in Int /\ 2 * s.up[i] + s.same[i] >= 0
          /\ 2 * s.down[i] + s.same[i] \in Nat
      BY <2>1, <2>2
    <2> QED
      BY <2>3, PercentIs
  <1>4. DOMAIN vr = P..Study!N
    OBVIOUS
  <1> HIDE DEF vr
  <1>5. Study!Exact(Study!Rolling(vr, vr, Q, P), vr, Q)
    BY <1>1, <1>3, ExactRolling
  <1> QED
    BY <1>2, <1>3, <1>4, <1>5

-----------------------------------------------------------------------------
(* Volume trends. *)

LEMMA AddedUp ==
    ASSUME Study!N \in Nat, NEW d, \A k \in 1..Study!N : d[k] \in Int
    PROVE  /\ \E s : s = [i \in 1..Study!N |-> (IF i = 1 THEN 0 ELSE s[i - 1]) + d[i]]
           /\ \A s : s = [i \in 1..Study!N |-> (IF i = 1 THEN 0 ELSE s[i - 1]) + d[i]]
                     => \A k \in 1..Study!N : s[k] \in Int
  <1>1. \E s : s = [i \in 1..Study!N |-> (IF i = 1 THEN 0 ELSE s[i - 1]) + d[i]]
    <2> DEFINE f == [i \in 1..Study!N |-> Study!Total(d, 1, i)]
    <2>1. \A i \in 1..Study!N : f[i] = (IF i = 1 THEN 0 ELSE f[i - 1]) + d[i]
      <3> SUFFICES ASSUME NEW i \in 1..Study!N
                   PROVE  Study!Total(d, 1, i) = (IF i = 1 THEN 0 ELSE f[i - 1]) + d[i]
        OBVIOUS
      <3>1. 1 \in Int /\ i \in Int /\ 1 - 1 <= i /\ i >= 1 /\ \A k \in 1..i : d[k] \in Int
        OBVIOUS
      <3>2. Study!Total(d, 1, i) = Study!Total(d, 1, i - 1) + d[i]
        BY <3>1, TotalSteps
      <3>3. 1 \in Int /\ 0 \in Int /\ 1 - 1 <= 0 /\ 0 = 1 - 1 /\ \A k \in 1..0 : d[k] \in Int
        OBVIOUS
      <3>4. Study!Total(d, 1, 0) = 0
        BY <3>3, TotalSteps
      <3>5. i = 1 => i - 1 = 0
        OBVIOUS
      <3>6. i # 1 => i - 1 \in 1..Study!N
        OBVIOUS
      <3> QED
        BY <3>2, <3>4, <3>5, <3>6
    <2>2. f = [i \in 1..Study!N |-> f[i]]
      OBVIOUS
    <2> HIDE DEF f
    <2>3. f = [i \in 1..Study!N |-> (IF i = 1 THEN 0 ELSE f[i - 1]) + d[i]]
      BY <2>1, <2>2
    <2> QED
      BY <2>3
  <1>2. ASSUME NEW s, s = [i \in 1..Study!N |-> (IF i = 1 THEN 0 ELSE s[i - 1]) + d[i]]
        PROVE  \A k \in 1..Study!N : s[k] \in Int
    <2> DEFINE S == {k \in 1..Study!N : s[k] \in Int}
    <2>1. \A k \in 1..Study!N : s[k] = (IF k = 1 THEN 0 ELSE s[k - 1]) + d[k]
      BY <1>2
    <2>2. 1 <= Study!N => 1 \in S
      BY <2>1
    <2>3. ASSUME NEW k \in (1 + 1)..Study!N, k - 1 \in S PROVE k \in S
      BY <2>1, <2>3
    <2>4. 1..Study!N \subseteq S
      <3>1. 1 \in Int /\ Study!N \in Int
        OBVIOUS
      <3> HIDE DEF S
      <3> QED
        BY <2>2, <2>3, <3>1, IntervalInduction
    <2> QED
      BY <2>4
  <1> QED
    BY <1>1, <1>2

LEMMA BalanceFollows ==
    ASSUME candles \in Seq(BarValues)
    PROVE  /\ Study!Exact(Study!OnBalanceVolume.maObv, Study!OnBalanceVolume.obv, P)
           /\ Study!FollowsPrice(Study!OnBalanceVolume.obv)
  <1> DEFINE sign(i) == IF Study!Change(i) > 0 THEN 1 ELSE IF Study!Change(i) < 0 THEN -1 ELSE 0
             d == [i \in 1..Study!N |-> sign(i) * candles[i].volume]
             Eq(s) == s = [i \in 1..Study!N |-> (IF i = 1 THEN 0 ELSE s[i - 1]) + sign(i) * candles[i].volume]
             obv == CHOOSE s : Eq(s)
  <1>1. Study!N \in Nat /\ P \in Nat \ {0}
    BY BarsAre, ParamsAre
  <1>2. Study!OnBalanceVolume.obv = obv /\ Study!OnBalanceVolume.maObv = Study!Window(obv, P)
    BY DEF Study!OnBalanceVolume
  <1>3. \A i \in 1..Study!N : /\ d[i] \in Int /\ (Study!Change(i) >= 0 => d[i] >= 0)
                        /\ (Study!Change(i) <= 0 => d[i] <= 0)
    <2> SUFFICES ASSUME NEW i \in 1..Study!N
                 PROVE  /\ sign(i) * candles[i].volume \in Int
                        /\ Study!Change(i) >= 0 => sign(i) * candles[i].volume >= 0
                        /\ Study!Change(i) <= 0 => sign(i) * candles[i].volume <= 0
      OBVIOUS
    <2>1. Study!Change(i) \in Int /\ candles[i].volume \in Nat
      BY BarsAre, ClosesAre
    <2> QED
      BY <2>1
  <1>4. \A i \in 1..Study!N : d[i] = sign(i) * candles[i].volume
    OBVIOUS
  <1> HIDE DEF d, sign
  <1>5. \A s : Eq(s) <=> s = [i \in 1..Study!N |-> (IF i = 1 THEN 0 ELSE s[i - 1]) + d[i]]
    BY <1>4
  <1> HIDE DEF Eq
  <1>6. \E s : Eq(s)
    BY ONLY <1>1, <1>3, <1>5, AddedUp
  <1>7. Eq(obv)
    BY <1>6
  <1> HIDE DEF obv
  <1>8. obv = [i \in 1..Study!N |-> (IF i = 1 THEN 0 ELSE obv[i - 1]) + d[i]]
    BY <1>5, <1>7
  <1>9. \A k \in 1..Study!N : obv[k] \in Int
    BY <1>1, <1>3, <1>8, AddedUp
  <1>10. Study!Exact(Study!Window(obv, P), obv, P)
    BY <1>1, <1>9, WindowExact
  <1>11. Study!FollowsPrice(obv)
    <2> SUFFICES ASSUME NEW i \in 2..Study!N
                 PROVE  /\ Study!Change(i) >= 0 => obv[i] >= obv[i - 1]
                        /\ Study!Change(i) <= 0 => obv[i] <= obv[i - 1]
      BY DEF Study!FollowsPrice
    <2>1. i \in 1..Study!N /\ i - 1 \in 1..Study!N /\ i # 1
      BY <1>1
    <2>2. obv[i] = obv[i - 1] + d[i]
      BY <1>8, <2>1
    <2> QED
      BY <1>3, <1>9, <2>1, <2>2
  <1> QED
    BY <1>2, <1>10, <1>11

LEMMA PvtFollows ==
    ASSUME candles \in Seq(BarValues)
    PROVE  Study!FollowsPrice(Study!PriceAndVolumeTrend)
  <1> DEFINE flow(i) == candles[Study!Prev(i)].close * candles[i].volume
             moved(i) == IF flow(i) = 0 THEN 0 ELSE (Precision * Study!Change(i)) \div flow(i)
             d == [i \in 1..Study!N |-> moved(i)]
             Eq(s) == s = [i \in 1..Study!N |-> (IF i = 1 THEN 0 ELSE s[i - 1]) + moved(i)]
             pvt == CHOOSE s : Eq(s)
  <1>1. Study!N \in Nat /\ Precision \in Nat \ {0}
    BY BarsAre, ParamsAre
  <1>2. Study!PriceAndVolumeTrend = pvt
    BY DEF Study!PriceAndVolumeTrend
  <1>3. \A i \in 1..Study!N : /\ d[i] \in Int /\ (Study!Change(i) >= 0 => d[i] >= 0)
                        /\ (Study!Change(i) <= 0 => d[i] <= 0)
    <2> SUFFICES ASSUME NEW i \in 1..Study!N
                 PROVE  /\ moved(i) \in Int
                        /\ Study!Change(i) >= 0 => moved(i) >= 0
                        /\ Study!Change(i) <= 0 => moved(i) <= 0
      OBVIOUS
    <2>1. Study!Change(i) \in Int /\ candles[i].volume \in Nat /\ candles[Study!Prev(i)].close \in Nat
      BY <1>1, BarsAre, ClosesAre, PrevIs
    <2>2. flow(i) \in Nat
      BY <2>1
    <2> HIDE DEF flow
    <2> DEFINE a == Precision * Study!Change(i)
               b == flow(i)
    <2>3. a \in Int /\ (Study!Change(i) >= 0 => a >= 0) /\ (Study!Change(i) <= 0 => a <= 0)
      <3>1. Study!Change(i) >= 0 => 0 * Precision <= Study!Change(i) * Precision
        BY <1>1, <2>1, TimesMonotone
      <3>2. Study!Change(i) <= 0 => Study!Change(i) * Precision <= 0 * Precision
        BY <1>1, <2>1, TimesMonotone
      <3>3. Study!Change(i) * Precision = Precision * Study!Change(i) /\ 0 * Precision = 0 /\ Precision * Study!Change(i) \in Int
        BY <1>1, <2>1
      <3> QED
        BY <3>1, <3>2, <3>3
    <2>4. b \in Nat
      BY <2>2
    <2>5. moved(i) = IF b = 0 THEN 0 ELSE a \div b
      OBVIOUS
    <2> HIDE DEF a, b, moved
    <2>6. CASE b = 0
      BY <2>5, <2>6
    <2>7. CASE b # 0
      <3>1. b \in Nat \ {0} /\ 0 \in Int /\ b * 0 = 0
        BY <2>4, <2>7
      <3>2. a \div b \in Int
        BY <2>3, <3>1, Division
      <3>3. (a < b * 0 + b => a \div b <= 0) /\ (b * 0 <= a => 0 <= a \div b)
        BY <2>3, <3>1, QuotientBounds
      <3>4. (a >= 0 => a \div b >= 0) /\ (a <= 0 => a \div b <= 0)
        BY <2>3, <3>1, <3>2, <3>3
      <3> QED
        BY <2>3, <2>5, <2>7, <3>2, <3>4
    <2> QED
      BY <2>6, <2>7
  <1>4. \A i \in 1..Study!N : d[i] = moved(i)
    OBVIOUS
  <1> HIDE DEF d, moved
  <1>5. \A s : Eq(s) <=> s = [i \in 1..Study!N |-> (IF i = 1 THEN 0 ELSE s[i - 1]) + d[i]]
    BY <1>4
  <1> HIDE DEF Eq
  <1>6. \E s : Eq(s)
    BY ONLY <1>1, <1>3, <1>5, AddedUp
  <1>7. Eq(pvt)
    BY <1>6
  <1> HIDE DEF pvt
  <1>8. pvt = [i \in 1..Study!N |-> (IF i = 1 THEN 0 ELSE pvt[i - 1]) + d[i]]
    BY <1>5, <1>7
  <1>9. \A k \in 1..Study!N : pvt[k] \in Int
    BY <1>1, <1>3, <1>8, AddedUp
  <1>11. Study!FollowsPrice(pvt)
    <2> SUFFICES ASSUME NEW i \in 2..Study!N
                 PROVE  /\ Study!Change(i) >= 0 => pvt[i] >= pvt[i - 1]
                        /\ Study!Change(i) <= 0 => pvt[i] <= pvt[i - 1]
      BY DEF Study!FollowsPrice
    <2>1. i \in 1..Study!N /\ i - 1 \in 1..Study!N /\ i # 1
      BY <1>1
    <2>2. pvt[i] = pvt[i - 1] + d[i]
      BY <1>8, <2>1
    <2> QED
      BY <1>3, <1>9, <2>1, <2>2
  <1> QED
    BY <1>2, <1>11

\* The sums of the windows, all of them.
LEMMA SumsHold ==
    ASSUME candles \in Seq(BarValues)
    PROVE  Study!SumsAreWindows
  <1>1. DOMAIN Study!VolumeRatioSums.up = P..Study!N
        /\ \A i \in P..Study!N :
             Study!VolumeRatioSums.up[i] + Study!VolumeRatioSums.down[i] + Study!VolumeRatioSums.same[i]
                = Study!Total(Study!Volume, i - P + 1, i)
    BY VolumeSums
  <1>2. \A i \in DOMAIN Study!VolumeRatioSums.up :
          Study!VolumeRatioSums.up[i] + Study!VolumeRatioSums.down[i] + Study!VolumeRatioSums.same[i]
              = Study!Total(Study!Volume, i - P + 1, i)
    BY <1>1
  <1> QED
    BY <1>2, PlainSums, DmaSum, TrixSum, BrarExact, RatioSum, EaseSum, MomentumSum, BalanceFollows,
       PsychologicalSum, RateSum, RsiSum, RatioOfVolumes DEF Study!SumsAreWindows

-----------------------------------------------------------------------------
(* Stop and reverse. *)

SarState == [up : BOOLEAN, sar : Int, af : Int, ep : Int]

\* The stop is on the side of a bar that it should be on.
OnSide(s, i) == IF s.up THEN s.sar <= Precision * candles[i].low ELSE s.sar >= Precision * candles[i].high

LEMMA SarStepIs ==
    ASSUME candles \in Seq(BarValues), NEW i \in 1..Study!N, NEW s \in SarState
    PROVE  /\ Study!SarStep(s, i, 50, 50, 100) \in SarState
           /\ OnSide(Study!SarStep(s, i, 50, 50, 100), i)
  <1> DEFINE high == Precision * candles[i].high
             low == Precision * candles[i].low
             ep == Study!Extreme(s, i)
             af == IF Study!Beyond(s, i) THEN Study!Smaller(s.af + 50, 100) ELSE s.af
             sar == s.sar + (af * (ep - s.sar)) \div 100
             lowMin == Precision * Study!Smaller(candles[Study!Prev(i)].low, candles[i].low)
             highMax == Precision * Study!Larger(candles[Study!Prev(i)].high, candles[i].high)
             through == IF s.up THEN sar > Precision * candles[i].low ELSE sar < Precision * candles[i].high
  <1>1. /\ Study!N \in Nat /\ Precision \in Nat \ {0} /\ candles[i].high \in Nat /\ candles[i].low \in Nat
        /\ candles[i].low <= candles[i].high
        /\ candles[Study!Prev(i)].high \in Nat /\ candles[Study!Prev(i)].low \in Nat
    <2>1. Study!N \in Nat /\ Precision \in Nat \ {0}
      BY BarsAre, ParamsAre
    <2>2. Study!Prev(i) \in 1..Study!N
      BY <2>1, PrevIs
    <2>3. \A j \in 1..Study!N : candles[j].high \in Nat /\ candles[j].low \in Nat /\ candles[j].low <= candles[j].high
      <3> SUFFICES ASSUME NEW j \in 1..Study!N
                   PROVE  candles[j].high \in Nat /\ candles[j].low \in Nat /\ candles[j].low <= candles[j].high
        OBVIOUS
      <3>1. /\ candles[j].high \in Nat /\ candles[j].low \in Nat /\ candles[j].close \in Nat
            /\ candles[j].low <= candles[j].close /\ candles[j].close <= candles[j].high
        BY BarsAre
      <3> QED
        BY <3>1
    <2> QED
      BY <2>1, <2>2, <2>3
  <1>2. s.up \in BOOLEAN /\ s.sar \in Int /\ s.af \in Int /\ s.ep \in Int
    BY DEF SarState
  <1>3. /\ high \in Int /\ low \in Int /\ low <= high
        /\ lowMin \in Int /\ lowMin <= low /\ highMax \in Int /\ highMax >= high
    <2> DEFINE a == Study!Smaller(candles[Study!Prev(i)].low, candles[i].low)
               b == Study!Larger(candles[Study!Prev(i)].high, candles[i].high)
    <2>1. a \in Int /\ a <= candles[i].low /\ b \in Int /\ b >= candles[i].high
      <3>1. /\ candles[Study!Prev(i)].low \in Int /\ candles[i].low \in Int
            /\ candles[Study!Prev(i)].high \in Int /\ candles[i].high \in Int
        BY <1>1
      <3> QED
        BY <3>1, LargerIs
    <2> HIDE DEF a, b
    <2> DEFINE l == candles[i].low
               h == candles[i].high
    <2>2. l \in Int /\ h \in Int /\ l <= h /\ a <= l /\ h <= b
      BY <1>1, <2>1
    <2> HIDE DEF l, h
    <2>3. /\ a * Precision <= l * Precision /\ h * Precision <= b * Precision /\ l * Precision <= h * Precision
      BY <1>1, <2>1, <2>2, TimesMonotone
    <2>4. /\ a * Precision = Precision * a /\ l * Precision = Precision * l /\ h * Precision = Precision * h /\ b * Precision = Precision * b
          /\ Precision * a \in Int /\ Precision * l \in Int /\ Precision * h \in Int /\ Precision * b \in Int
      BY <1>1, <2>1, <2>2
    <2>5. /\ Precision * a <= Precision * l /\ Precision * a \in Int
          /\ Precision * h <= Precision * b /\ Precision * h \in Int
          /\ Precision * l <= Precision * h /\ Precision * l \in Int /\ Precision * b \in Int
      BY <2>3, <2>4
    <2> QED
      BY <2>5 DEF a, b, l, h
  <1>4. ep \in {s.ep, high, low} /\ ep \in Int
    BY <1>2, <1>3 DEF Study!Extreme
  <1>5. /\ s.up /\ ~(s.ep = -100) => ep >= high
        /\ ~s.up /\ ~(s.ep = -100) => ep <= low
        /\ s.ep = -100 => ep = IF s.up THEN high ELSE low
    BY <1>2, <1>3 DEF Study!Extreme, Study!Beyond
  <1>6. af \in Int
    <2>1. s.af + 50 \in Int /\ 100 \in Int
      BY <1>2
    <2>2. Study!Smaller(s.af + 50, 100) \in Int
      BY <2>1, LargerIs
    <2> QED
      BY <1>2, <2>2
  <1>7. sar \in Int
    <2>1. af * (ep - s.sar) \in Int
      <3> HIDE DEF af, ep
      <3> QED
        BY <1>2, <1>4, <1>6
    <2>2. (af * (ep - s.sar)) \div 100 \in Int
      <3> HIDE DEF af, ep
      <3> QED
        <4>1. 100 \in Nat \ {0}
          OBVIOUS
        <4> QED
          BY <2>1, <4>1, Division
    <2> QED
      BY <1>2, <2>2
  <1>8. Study!SarStep(s, i, 50, 50, 100) =
           IF through
           THEN [up |-> ~s.up, sar |-> ep, af |-> IF s.up THEN 50 ELSE 0, ep |-> -100]
           ELSE [up |-> s.up, sar |-> IF s.up THEN Study!Smaller(sar, lowMin) ELSE Study!Larger(sar, highMax),
                 af |-> af, ep |-> ep]
    BY DEF Study!SarStep
  <1>9. /\ Study!Smaller(sar, lowMin) \in Int /\ Study!Smaller(sar, lowMin) <= lowMin
        /\ Study!Larger(sar, highMax) \in Int /\ Study!Larger(sar, highMax) >= highMax
    <2> HIDE DEF sar, lowMin, highMax
    <2> QED
      BY <1>3, <1>7, LargerIs
  <1> HIDE DEF ep, af, sar, lowMin, highMax, through
  <1> DEFINE t == Study!SarStep(s, i, 50, 50, 100)
  <1>10. CASE through
    <2>1. t = [up |-> ~s.up, sar |-> ep, af |-> IF s.up THEN 50 ELSE 0, ep |-> -100]
      BY <1>8, <1>10
    <2> HIDE DEF t
    <2>2. t.up = ~s.up /\ t.sar = ep
      BY <2>1
    <2>3. t \in SarState
      BY <1>2, <1>4, <2>1 DEF SarState
    <2>4. s.up => ep >= high
      BY <1>2, <1>3, <1>5
    <2>5. ~s.up => ep <= low
      BY <1>2, <1>3, <1>5
    <2>6. OnSide(t, i)
      BY <1>2, <2>2, <2>4, <2>5 DEF OnSide
    <2> QED
      BY <2>3, <2>6 DEF t
  <1>11. CASE ~through
    <2>1. t = [up |-> s.up, sar |-> IF s.up THEN Study!Smaller(sar, lowMin) ELSE Study!Larger(sar, highMax),
               af |-> af, ep |-> ep]
      BY <1>8, <1>11
    <2> HIDE DEF t
    <2>2. t.up = s.up /\ t.sar = IF s.up THEN Study!Smaller(sar, lowMin) ELSE Study!Larger(sar, highMax)
      BY <2>1
    <2>3. t \in SarState
      BY <1>2, <1>4, <1>6, <1>9, <2>1 DEF SarState
    <2>4. s.up => t.sar <= low
      BY <1>3, <1>9, <2>2
    <2>5. ~s.up => t.sar >= high
      BY <1>3, <1>9, <2>2
    <2>6. OnSide(t, i)
      BY <1>2, <2>2, <2>4, <2>5 DEF OnSide
    <2> QED
      BY <2>3, <2>6 DEF t
  <1> QED
    BY <1>10, <1>11

LEMMA SarHolds ==
    ASSUME candles \in Seq(BarValues)
    PROVE  Study!SarOnItsSide
  <1> DEFINE begin == [up |-> FALSE, sar |-> 0, af |-> 50, ep |-> -100]
             Eq(s) == s = [i \in 0..Study!N |-> IF i = 0 THEN begin ELSE Study!SarStep(s[i - 1], i, 50, 50, 100)]
             s == CHOOSE s : Eq(s)
             G == [x \in SarState \X (0..Study!N) |->
                     IF x[2] = 0 THEN begin ELSE Study!SarStep(x[1], x[2], 50, 50, 100)]
  <1>1. Study!N \in Nat
    BY BarsAre
  <1>2. begin \in SarState
    BY DEF SarState
  <1>3. \A i \in 1..Study!N : \A x \in SarState : Study!SarStep(x, i, 50, 50, 100) \in SarState
    BY SarStepIs
  <1>4. G \in [SarState \X (0..Study!N) -> SarState]
    <2> SUFFICES ASSUME NEW x \in SarState \X (0..Study!N), x[2] # 0
                 PROVE  Study!SarStep(x[1], x[2], 50, 50, 100) \in SarState
      BY <1>2
    <2>1. x[1] \in SarState /\ x[2] \in 1..Study!N
      BY <1>1
    <2> QED
      BY <1>3, <2>1
  <1>5. PICK f : IsRecursion(f, 0, Study!N, SarState, begin, G)
    <2>1. 0 \in Int /\ Study!N \in Int
      BY <1>1
    <2> HIDE DEF G, begin
    <2> QED
      BY <1>2, <1>4, <2>1, RecursionExists
  <1>6. f \in [0..Study!N -> SarState]
    BY <1>5 DEF IsRecursion
  <1> HIDE DEF begin
  <1>7. \A k \in 0..Study!N : f[k] = IF k = 0 THEN begin ELSE Study!SarStep(f[k - 1], k, 50, 50, 100)
    <2> SUFFICES ASSUME NEW k \in 0..Study!N
                 PROVE  f[k] = IF k = 0 THEN begin ELSE Study!SarStep(f[k - 1], k, 50, 50, 100)
      OBVIOUS
    <2>1. f[k] = IF k = 0 THEN begin ELSE G[<<f[k - 1], k>>]
      BY <1>5 DEF IsRecursion
    <2>2. k # 0 => f[k - 1] \in SarState /\ <<f[k - 1], k>> \in SarState \X (0..Study!N)
      BY <1>1, <1>6
    <2> QED
      BY <2>1, <2>2
  <1>8. Eq(f)
    <2>1. f = [k \in 0..Study!N |-> f[k]]
      BY <1>6
    <2> QED
      BY <1>7, <2>1
  <1>9. Eq(s)
    <2> HIDE DEF Eq
    <2> QED
      BY <1>8
  <1>10. Study!StopAndReverse(50, 50, 100) = [i \in 1..Study!N |-> s[i]]
    BY DEF Study!StopAndReverse, begin
  <1> HIDE DEF s
  <1>11. \A k \in 0..Study!N : s[k] = IF k = 0 THEN begin ELSE Study!SarStep(s[k - 1], k, 50, 50, 100)
    BY <1>9
  <1> DEFINE S == {k \in 0..Study!N : s[k] \in SarState}
  <1>12. 0..Study!N \subseteq S
    <2>1. 0 \in Int /\ Study!N \in Int /\ 0 \in S
      BY <1>1, <1>2, <1>11
    <2>2. ASSUME NEW k \in (0 + 1)..Study!N, k - 1 \in S PROVE k \in S
      <3>1. k \in 1..Study!N /\ k \in 0..Study!N /\ k # 0
        BY <1>1
      <3> QED
        BY <1>3, <1>11, <2>2, <3>1
    <2> HIDE DEF S
    <2> QED
      BY <2>1, <2>2, IntervalInduction
  <1>13. ASSUME NEW i \in 1..Study!N PROVE OnSide(s[i], i)
    <2>1. i \in 0..Study!N /\ i - 1 \in 0..Study!N /\ i # 0
      BY <1>1
    <2>2. s[i] = Study!SarStep(s[i - 1], i, 50, 50, 100) /\ s[i - 1] \in SarState
      BY <1>11, <1>12, <2>1
    <2> QED
      BY <2>2, SarStepIs
  <1> QED
    BY <1>10, <1>13 DEF Study!SarOnItsSide, OnSide

LEMMA TrendsHold ==
    ASSUME candles \in Seq(BarValues)
    PROVE  Study!TrendsFollow
  BY BalanceFollows, PvtFollows, SarHolds DEF Study!TrendsFollow

-----------------------------------------------------------------------------
(* Scales: averages. *)

Values(f, a, b) == {f[k] : k \in a..b}

LEMMA GreatestIs ==
    ASSUME NEW a \in Int, NEW b \in Int, a <= b, NEW f, \A k \in a..b : f[k] \in Int
    PROVE  /\ \E k \in a..b : Study!Max(Values(f, a, b)) = f[k]
           /\ \A k \in a..b : f[k] <= Study!Max(Values(f, a, b))
           /\ \E k \in a..b : Study!Min(Values(f, a, b)) = f[k]
           /\ \A k \in a..b : Study!Min(Values(f, a, b)) <= f[k]
  <1> DEFINE S == {f[k] : k \in a..b}
             Top(x) == x \in S /\ \A y \in S : x >= y
             Bottom(x) == x \in S /\ \A y \in S : x =< y
  <1>1. PICK j \in a..b : \A k \in a..b : f[k] <= f[j]
    BY ExtremesOf
  <1>2. PICK m \in a..b : \A k \in a..b : f[k] >= f[m]
    BY ExtremesOf
  <1>3. Top(f[j])
    <2> SUFFICES ASSUME NEW y \in S PROVE f[j] >= y
      OBVIOUS
    <2>1. PICK k \in a..b : y = f[k]
      OBVIOUS
    <2> QED
      BY <1>1, <2>1
  <1>4. Bottom(f[m])
    <2> SUFFICES ASSUME NEW y \in S PROVE f[m] <= y
      OBVIOUS
    <2>1. PICK k \in a..b : y = f[k]
      OBVIOUS
    <2> QED
      BY <1>2, <2>1
  <1>5. Study!Max(S) = CHOOSE x : Top(x)
    BY DEF Study!Max
  <1>0. Values(f, a, b) = S
    BY DEF Values
  <1>6. Study!Min(S) = CHOOSE x : Bottom(x)
    BY DEF Study!Min
  <1>7. Top(Study!Max(S)) /\ Bottom(Study!Min(S))
    <2> HIDE DEF Top, Bottom
    <2> QED
      BY <1>3, <1>4, <1>5, <1>6
  <1>8. \A k \in a..b : f[k] \in S
    OBVIOUS
  <1>9. \A k \in a..b : f[k] <= Study!Max(S) /\ Study!Min(S) <= f[k]
    <2> SUFFICES ASSUME NEW k \in a..b PROVE f[k] <= Study!Max(S) /\ Study!Min(S) <= f[k]
      OBVIOUS
    <2>1. PICK u \in a..b : Study!Max(S) = f[u]
      BY <1>7
    <2>2. PICK w \in a..b : Study!Min(S) = f[w]
      BY <1>7
    <2>3. Study!Max(S) \in Int /\ Study!Min(S) \in Int /\ f[k] \in Int /\ f[k] \in S
      BY <2>1, <2>2
    <2>4. Study!Max(S) >= f[k] /\ Study!Min(S) =< f[k]
      BY <1>7, <2>3
    <2> QED
      BY <2>3, <2>4
  <1>10. (\E k \in a..b : Study!Max(S) = f[k]) /\ (\E k \in a..b : Study!Min(S) = f[k])
    BY <1>7
  <1> HIDE DEF S
  <1> QED
    BY <1>0, <1>9, <1>10

\* The prices, from the least to the greatest close.
Prices(low, high) == low \in Nat /\ high \in Nat /\ \A i \in 1..Study!N : candles[i].close \in low..high

LEMMA PricesAre ==
    ASSUME candles \in Seq(BarValues), Study!N > 0
    PROVE  /\ Prices(Study!Min({candles[i].close : i \in 1..Study!N}), Study!Max({candles[i].close : i \in 1..Study!N}))
           /\ Study!Min({candles[i].close : i \in 1..Study!N}) <= Study!Max({candles[i].close : i \in 1..Study!N})
  <1> DEFINE f == [i \in 1..Study!N |-> candles[i].close]
             S == {candles[i].close : i \in 1..Study!N}
  <1>1. Study!N \in Nat /\ \A i \in 1..Study!N : f[i] \in Nat /\ f[i] = candles[i].close
    BY BarsAre
  <1>2. S = Values(f, 1, Study!N)
    BY DEF Values
  <1> HIDE DEF f
  <1>3. 1 \in Int /\ Study!N \in Int /\ 1 <= Study!N /\ \A i \in 1..Study!N : f[i] \in Int
    BY <1>1
  <1>4. /\ \E k \in 1..Study!N : Study!Max(Values(f, 1, Study!N)) = f[k]
        /\ \A k \in 1..Study!N : f[k] <= Study!Max(Values(f, 1, Study!N))
        /\ \E k \in 1..Study!N : Study!Min(Values(f, 1, Study!N)) = f[k]
        /\ \A k \in 1..Study!N : Study!Min(Values(f, 1, Study!N)) <= f[k]
    BY <1>3, GreatestIs
  <1> DEFINE low == Study!Min(S)
             high == Study!Max(S)
  <1>5. /\ (\E k \in 1..Study!N : low = f[k]) /\ (\E k \in 1..Study!N : high = f[k])
        /\ \A k \in 1..Study!N : low <= f[k] /\ f[k] <= high
    BY <1>2, <1>4
  <1> HIDE DEF S, low, high
  <1>6. low \in Nat /\ high \in Nat
    BY <1>1, <1>5
  <1>7. \A i \in 1..Study!N : candles[i].close \in low..high
    <2> SUFFICES ASSUME NEW i \in 1..Study!N PROVE candles[i].close \in low..high
      OBVIOUS
    <2>1. f[i] \in Nat /\ f[i] = candles[i].close /\ low <= f[i] /\ f[i] <= high
      BY <1>1, <1>5
    <2> QED
      BY <1>6, <2>1
  <1>8. low <= high
    <2>1. low <= f[1] /\ f[1] <= high /\ f[1] \in Nat
      BY <1>1, <1>3, <1>5
    <2> QED
      BY <1>6, <2>1
  <1> QED
    BY <1>6, <1>7, <1>8 DEF Prices, low, high, S

LEMMA UnitsAre ==
    ASSUME NEW a \in Nat, NEW b \in Nat, a <= b
    PROVE  Precision * a \in Nat /\ Precision * b \in Nat /\ Precision * a <= Precision * b
  <1>1. Precision \in Nat
    BY ParamsAre
  <1>2. a * Precision <= b * Precision
    BY <1>1, TimesMonotone
  <1>3. a * Precision = Precision * a /\ b * Precision = Precision * b /\ Precision * a \in Nat /\ Precision * b \in Nat
    BY <1>1
  <1> QED
    BY <1>2, <1>3

LEMMA AverageIn ==
    ASSUME candles \in Seq(BarValues), NEW low \in Nat, NEW high \in Nat, Prices(low, high),
           NEW p \in Nat \ {0}
    PROVE  /\ DOMAIN Study!ExponentialMovingAverage(p) = p..Study!N
           /\ \A i \in p..Study!N : Study!ExponentialMovingAverage(p)[i] \in (Precision * low)..(Precision * high)
  <1> DEFINE l == Precision * low
             h == Precision * high
  <1>1. Study!N \in Nat /\ Precision \in Nat
    BY BarsAre, ParamsAre
  <1>2. l \in Int /\ h \in Int /\ 1 \in Nat \ {0} /\ 1 + p - 1 = p
    BY <1>1
  <1>3. \A i \in 1..Study!N : Study!Scaled(Study!Close)[i] \in l..h
    BY ScaledIs DEF Prices
  <1> HIDE DEF l, h
  <1>4. /\ DOMAIN Study!Ema(Study!Scaled(Study!Close), p, 1) = (1 + p - 1)..Study!N
        /\ \A i \in (1 + p - 1)..Study!N : Study!Ema(Study!Scaled(Study!Close), p, 1)[i] \in l..h
    BY <1>1, <1>2, <1>3, EmaIs
  <1> QED
    BY <1>2, <1>4 DEF Study!ExponentialMovingAverage, l, h

LEMMA WindowMean ==
    ASSUME candles \in Seq(BarValues), NEW low \in Nat, NEW high \in Nat, Prices(low, high),
           NEW p \in Nat \ {0}, NEW i \in p..Study!N
    PROVE  (Precision * Study!Window(Study!Close, p)[i]) \div p \in (Precision * low)..(Precision * high)
  <1> DEFINE m == Study!Window(Study!Close, p)[i]
             n == Precision * m
             l == Precision * low
             h == Precision * high
  <1>1. Study!N \in Nat /\ Precision \in Nat
    BY BarsAre, ParamsAre
  <1>2. \A k \in 1..Study!N : Study!Close[k] \in low..high /\ Study!Close[k] \in Int
    BY ClosesAre DEF Prices
  <1>3. m \in Int /\ m = Study!Total(Study!Close, i - p + 1, i)
    BY <1>1, <1>2, WindowExact
  <1>4. low \in Int /\ high \in Int
    OBVIOUS
  <1>5. p * low <= Study!Total(Study!Close, i - p + 1, i) /\ Study!Total(Study!Close, i - p + 1, i) <= p * high
    BY <1>1, <1>2, <1>4, WindowBounds
  <1> HIDE DEF m
  <1>6. p * low <= m /\ m <= p * high /\ p * low \in Int /\ p * high \in Int
    BY <1>3, <1>5
  <1>7. (p * low) * Precision <= m * Precision /\ m * Precision <= (p * high) * Precision
    BY <1>1, <1>3, <1>6, TimesMonotone
  <1>8. /\ (p * low) * Precision = p * l /\ (p * high) * Precision = p * h /\ m * Precision = n
        /\ n \in Int /\ l \in Int /\ h \in Int /\ p * l \in Int /\ p * h \in Int
    BY <1>1, <1>3
  <1> HIDE DEF n, l, h
  <1>9. p * l <= n /\ n < p * h + p
    BY <1>7, <1>8
  <1>10. l <= n \div p /\ n \div p <= h /\ n \div p \in Int
    BY <1>8, <1>9, QuotientBounds, Division
  <1>11. n \div p \in l..h
    BY <1>8, <1>10
  <1> QED
    BY <1>11 DEF n, l, h, m

LEMMA SimpleIn ==
    ASSUME candles \in Seq(BarValues), NEW low \in Nat, NEW high \in Nat, Prices(low, high), Q <= P + 1
    PROVE  Study!Within(Study!SimpleMovingAverage, Precision * low, Precision * high)
  <1> DEFINE l == Precision * low
             h == Precision * high
             begin == (Precision * Study!Window(Study!Close, P)[P]) \div P
  <1>1. Study!N \in Nat /\ Precision \in Nat /\ P \in Nat \ {0} /\ Q \in Nat \ {0}
    BY BarsAre, ParamsAre
  <1>2. CASE P > Study!N
    <2>1. Study!SimpleMovingAverage = <<>> /\ DOMAIN <<>> = {}
      BY <1>2 DEF Study!SimpleMovingAverage
    <2> QED
      BY <2>1 DEF Study!Within
  <1>3. CASE ~(P > Study!N)
    <2>1. P \in P..Study!N /\ P \in Int /\ P <= Study!N
      BY <1>1, <1>3
    <2>2. begin \in l..h
      BY <1>1, <2>1, WindowMean
    <2>3. l \in Int /\ h \in Int
      BY <1>1
    <2>4. \A i \in P..Study!N : Study!Scaled(Study!Close)[i] \in l..h
      <3>1. \A i \in 1..Study!N : Study!Scaled(Study!Close)[i] \in l..h
        BY ScaledIs DEF Prices
      <3>2. \A i \in P..Study!N : i \in 1..Study!N
        BY <1>1
      <3> HIDE DEF l, h
      <3> QED
        BY <3>1, <3>2
    <2>5. P - Q + 1 \in Nat /\ Q \in Nat /\ Q + (P - Q + 1) > 0
      BY <1>1
    <2>6. Study!SimpleMovingAverage = Study!Carried(Study!Scaled(Study!Close), P, begin, Q, P - Q + 1)
      BY <1>3 DEF Study!SimpleMovingAverage
    <2> HIDE DEF l, h, begin
    <2>7. Study!Carried(Study!Scaled(Study!Close), P, begin, Q, P - Q + 1) \in [P..Study!N -> l..h]
      BY <1>1, <2>1, <2>2, <2>3, <2>4, <2>5, CarriedIs
    <2>8. \A i \in DOMAIN Study!SimpleMovingAverage :
             l <= Study!SimpleMovingAverage[i] /\ Study!SimpleMovingAverage[i] <= h
      <3> DEFINE s == Study!SimpleMovingAverage
      <3>1. s \in [P..Study!N -> l..h]
        BY <2>6, <2>7
      <3> HIDE DEF s
      <3>2. \A i \in DOMAIN s : l <= s[i] /\ s[i] <= h
        <4> SUFFICES ASSUME NEW i \in P..Study!N PROVE l <= s[i] /\ s[i] <= h
          BY <3>1
        <4>1. s[i] \in l..h
          BY <3>1
        <4> QED
          BY <2>3, <4>1
      <3> QED
        BY <3>2 DEF s
    <2> QED
      BY <2>8 DEF Study!Within, l, h
  <1> QED
    BY <1>2, <1>3

LEMMA QuarterOf ==
    ASSUME NEW l \in Int, NEW h \in Int,
           NEW a \in l..h, NEW b \in l..h, NEW c \in l..h, NEW d \in l..h
    PROVE  (a + b + c + d) \div 4 \in l..h
  OBVIOUS

LEMMA BullAndBearIn ==
    ASSUME candles \in Seq(BarValues), NEW low \in Nat, NEW high \in Nat, Prices(low, high)
    PROVE  Study!Within(Study!BullAndBearIndex, Precision * low, Precision * high)
  <1> DEFINE l == Precision * low
             h == Precision * high
             mean(i, p) == (Precision * Study!Window(Study!Close, p)[i]) \div p
             m == Study!Larger(Q, P + R)
             bbi == [i \in m..Study!N |-> (mean(i, P) + mean(i, Q) + mean(i, R) + mean(i, P + R)) \div 4]
  <1>1. /\ Study!N \in Nat /\ Precision \in Nat /\ P \in Nat \ {0} /\ Q \in Nat \ {0} /\ R \in Nat \ {0}
        /\ P + R \in Nat \ {0}
    BY BarsAre, ParamsAre
  <1>2. m \in Int /\ m >= Q /\ m >= P + R
    <2>1. Q \in Int /\ P + R \in Int
      BY <1>1
    <2> QED
      BY <2>1, LargerIs
  <1>3. Study!BullAndBearIndex = bbi
    BY DEF Study!BullAndBearIndex
  <1>4. l \in Int /\ h \in Int
    BY <1>1
  <1> HIDE DEF m
  <1>5. ASSUME NEW i \in m..Study!N, NEW p \in {P, Q, R, P + R} PROVE mean(i, p) \in l..h
    <2>1. p \in Nat \ {0} /\ i \in p..Study!N
      BY <1>1, <1>2
    <2> QED
      BY <2>1, WindowMean
  <1> HIDE DEF mean, l, h
  <1>6. \A i \in m..Study!N : bbi[i] \in l..h
    BY <1>4, <1>5, QuarterOf
  <1>7. DOMAIN bbi = m..Study!N
    OBVIOUS
  <1> HIDE DEF bbi
  <1>8. \A i \in DOMAIN bbi : l <= bbi[i] /\ bbi[i] <= h
    <2> SUFFICES ASSUME NEW i \in m..Study!N PROVE l <= bbi[i] /\ bbi[i] <= h
      BY <1>7
    <2>1. bbi[i] \in l..h
      BY <1>6
    <2> QED
      BY <1>4, <2>1
  <1> QED
    BY <1>3, <1>8 DEF Study!Within, l, h

LEMMA MacdIn ==
    ASSUME candles \in Seq(BarValues), NEW low \in Nat, NEW high \in Nat, Prices(low, high), low <= high
    PROVE  /\ Study!Within(Study!Macd.dif, Precision * low - Precision * high, Precision * high - Precision * low)
           /\ Study!Within(Study!Macd.dea, Precision * low - Precision * high, Precision * high - Precision * low)
  <1> DEFINE l == Precision * low
             h == Precision * high
             short == Study!ExponentialMovingAverage(P)
             long == Study!ExponentialMovingAverage(Q)
             m == Study!Larger(P, Q)
             dif == [i \in m..Study!N |-> short[i] - long[i]]
             dea == Study!Ema(dif, R, m)
  <1>1. Study!N \in Nat /\ Precision \in Nat /\ P \in Nat \ {0} /\ Q \in Nat \ {0} /\ R \in Nat \ {0}
    BY BarsAre, ParamsAre
  <1>2. m \in Nat \ {0} /\ m >= P /\ m >= Q
    BY <1>1 DEF Study!Larger
  <1>3. Study!Macd.dif = dif /\ Study!Macd.dea = dea
    BY DEF Study!Macd
  <1>4. l \in Int /\ h \in Int /\ l - h \in Int /\ h - l \in Int
    BY <1>1
  <1>5. ASSUME NEW i \in m..Study!N PROVE short[i] \in l..h /\ long[i] \in l..h
    <2>1. i \in P..Study!N /\ i \in Q..Study!N
      BY <1>1, <1>2
    <2> QED
      BY <1>1, <2>1, AverageIn
  <1> HIDE DEF short, long, m, l, h
  <1>6. \A i \in m..Study!N : dif[i] \in (l - h)..(h - l)
    <2> SUFFICES ASSUME NEW i \in m..Study!N PROVE short[i] - long[i] \in (l - h)..(h - l)
      OBVIOUS
    <2>1. /\ short[i] \in Int /\ long[i] \in Int /\ l <= short[i] /\ short[i] <= h
          /\ l <= long[i] /\ long[i] <= h
      BY <1>4, <1>5
    <2> QED
      BY <1>4, <2>1
  <1>7. DOMAIN dif = m..Study!N
    OBVIOUS
  <1> HIDE DEF dif
  <1>8. /\ DOMAIN dea = (m + R - 1)..Study!N
        /\ \A i \in (m + R - 1)..Study!N : dea[i] \in (l - h)..(h - l)
    BY <1>1, <1>2, <1>4, <1>6, EmaIs
  <1> HIDE DEF dea
  <1>9. Study!Within(dif, l - h, h - l)
    BY <1>4, <1>6, <1>7 DEF Study!Within
  <1>10. Study!Within(dea, l - h, h - l)
    BY <1>4, <1>8 DEF Study!Within
  <1> QED
    BY <1>3, <1>9, <1>10 DEF l, h

-----------------------------------------------------------------------------
(* Scales: what is divided by a sum of itself. *)

LEMMA RsiIn ==
    ASSUME candles \in Seq(BarValues)
    PROVE  Study!Within(Study!Rsi, Study!NotANumber, 100)
  <1> DEFINE s == Study!RsiSums
             risen(i) == \E j \in 1..i : Study!Change(j) > 0
             rsi == [i \in P..Study!N |-> IF s.loss[i] = 0 THEN 0
                                    ELSE IF ~risen(i) THEN Study!NotANumber
                                    ELSE Study!Percent(s.gain[i], s.gain[i] + s.loss[i])]
  <1>1. Study!Rsi = rsi
    BY RsiSum DEF Study!Rsi
  <1>2. \A i \in P..Study!N : Study!NotANumber <= rsi[i] /\ rsi[i] <= 100
    <2> SUFFICES ASSUME NEW i \in P..Study!N PROVE Study!NotANumber <= rsi[i] /\ rsi[i] <= 100
      OBVIOUS
    <2> DEFINE g == s.gain[i]
               t == s.loss[i]
    <2>1. g \in Nat /\ t \in Nat
      BY RsiSum
    <2> HIDE DEF risen, s, g, t
    <2>2. /\ Study!Percent(g, g + t) \in Int /\ Study!Percent(g, g + t) >= 0 /\ Study!Percent(g, g + t) <= 100
      <3>1. g \in Int /\ g + t \in Nat /\ g >= 0 /\ g <= g + t
        BY <2>1
      <3> QED
        BY <3>1, PercentIs
    <2>3. rsi[i] = IF t = 0 THEN 0 ELSE IF ~risen(i) THEN Study!NotANumber ELSE Study!Percent(g, g + t)
      BY DEF g, t
    <2> HIDE DEF rsi
    <2> QED
      BY <2>2, <2>3 DEF Study!NotANumber
  <1>3. DOMAIN rsi = P..Study!N
    OBVIOUS
  <1> HIDE DEF rsi
  <1> QED
    BY <1>1, <1>2, <1>3 DEF Study!Within

LEMMA BrarIn ==
    ASSUME candles \in Seq(BarValues), NEW i \in DOMAIN Study!Brar
    PROVE  Study!Brar[i].ar >= 0
  <1> DEFINE up == [k \in 1..Study!N |-> candles[k].high - candles[k].open]
             down == [k \in 1..Study!N |-> candles[k].open - candles[k].low]
  <1>1. Study!N \in Nat /\ P \in Nat \ {0}
    BY BarsAre, ParamsAre
  <1>2. DOMAIN Study!Brar = P..Study!N
    BY BrarExact DEF Study!Brar
  <1>3. Study!Brar[i].ar = Study!Percent(Study!BrarSums.ho[i], Study!BrarSums.ol[i])
    BY <1>2, BrarExact DEF Study!Brar
  <1>4. Study!BrarSums.ho = Study!Window(up, P) /\ Study!BrarSums.ol = Study!Window(down, P)
    BY BrarExact
  <1>5. (\A k \in 1..Study!N : up[k] \in Nat) /\ (\A k \in 1..Study!N : down[k] \in Nat)
    <2> SUFFICES ASSUME NEW k \in 1..Study!N
                 PROVE  candles[k].high - candles[k].open \in Nat /\ candles[k].open - candles[k].low \in Nat
      OBVIOUS
    <2>1. /\ candles[k].high \in Nat /\ candles[k].open \in Nat /\ candles[k].low \in Nat
          /\ candles[k].low <= candles[k].open /\ candles[k].open <= candles[k].high
      BY BarsAre
    <2> QED
      BY <2>1
  <1> HIDE DEF up, down
  <1>6. i \in P..Study!N
    BY <1>2
  <1>7. Study!Window(up, P)[i] = Study!Total(up, i - P + 1, i)
    <2>1. \A k \in 1..Study!N : up[k] \in Int
      BY <1>5
    <2> QED
      BY <1>1, <1>6, <2>1, WindowExact
  <1>8. Study!Window(down, P)[i] = Study!Total(down, i - P + 1, i)
    <2>1. \A k \in 1..Study!N : down[k] \in Int
      BY <1>5
    <2> QED
      BY <1>1, <1>6, <2>1, WindowExact
  <1>9. Study!Total(up, i - P + 1, i) \in Nat
    BY <1>1, <1>5, <1>6, WindowTotals
  <1>10. Study!Total(down, i - P + 1, i) \in Nat
    BY <1>1, <1>5, <1>6, WindowTotals
  <1> DEFINE a == Study!BrarSums.ho[i]
             b == Study!BrarSums.ol[i]
  <1>11. a \in Int /\ a >= 0 /\ b \in Nat
    BY <1>4, <1>7, <1>8, <1>9, <1>10
  <1> HIDE DEF a, b
  <1>12. Study!Percent(a, b) >= 0
    BY <1>11, PercentIs
  <1> QED
    BY <1>3, <1>12 DEF a, b

\* The highest and the lowest of a window are on either side of its prices.
LEMMA RangeIs ==
    ASSUME candles \in Seq(BarValues), NEW p \in Nat \ {0}, NEW i \in p..Study!N
    PROVE  /\ Study!Highest(i, p) \in Nat /\ Study!Lowest(i, p) \in Nat /\ i \in 1..Study!N
           /\ \A j \in (i - p + 1)..i :
                 /\ candles[j].high <= Study!Highest(i, p) /\ Study!Lowest(i, p) <= candles[j].low
                 /\ candles[j].close <= Study!Highest(i, p) /\ Study!Lowest(i, p) <= candles[j].close
           /\ candles[i].close <= Study!Highest(i, p) /\ Study!Lowest(i, p) <= candles[i].close
           /\ candles[i].close \in Nat
  <1> DEFINE from == i - p + 1
             h == [j \in from..i |-> candles[j].high]
             l == [j \in from..i |-> candles[j].low]
  <1>1. Study!N \in Nat
    BY BarsAre
  <1>2. from \in Int /\ i \in Int /\ from <= i /\ i \in from..i /\ \A j \in from..i : j \in 1..Study!N
    BY <1>1
  <1>3. \A j \in from..i : /\ h[j] \in Nat /\ l[j] \in Nat /\ candles[j].close \in Nat
                           /\ h[j] = candles[j].high /\ l[j] = candles[j].low
                           /\ l[j] <= candles[j].close /\ candles[j].close <= h[j]
    <2> SUFFICES ASSUME NEW j \in from..i
                 PROVE  /\ candles[j].high \in Nat /\ candles[j].low \in Nat /\ candles[j].close \in Nat
                        /\ candles[j].low <= candles[j].close /\ candles[j].close <= candles[j].high
      OBVIOUS
    <2>1. j \in 1..Study!N
      BY <1>2
    <2> QED
      BY <2>1, BarsAre
  <1>4. Study!Highest(i, p) = Study!Max(Values(h, from, i)) /\ Study!Lowest(i, p) = Study!Min(Values(l, from, i))
    <2>1. {candles[j].high : j \in from..i} = Values(h, from, i)
          /\ {candles[j].low : j \in from..i} = Values(l, from, i)
      BY DEF Values
    <2> QED
      BY <2>1 DEF Study!Highest, Study!Lowest
  <1> HIDE DEF from, h, l
  <1>5. /\ \E k \in from..i : Study!Max(Values(h, from, i)) = h[k]
        /\ \A k \in from..i : h[k] <= Study!Max(Values(h, from, i))
    <2>1. from \in Int /\ i \in Int /\ from <= i /\ \A k \in from..i : h[k] \in Int
      BY <1>2, <1>3
    <2> QED
      BY ONLY <2>1, GreatestIs
  <1>6. /\ \E k \in from..i : Study!Min(Values(l, from, i)) = l[k]
        /\ \A k \in from..i : Study!Min(Values(l, from, i)) <= l[k]
    <2>1. from \in Int /\ i \in Int /\ from <= i /\ \A k \in from..i : l[k] \in Int
      BY <1>2, <1>3
    <2> QED
      BY ONLY <2>1, GreatestIs
  <1> DEFINE top == Study!Highest(i, p)
             bottom == Study!Lowest(i, p)
  <1>7. top \in Nat /\ bottom \in Nat /\ \A j \in from..i : h[j] <= top /\ bottom <= l[j]
    BY <1>3, <1>4, <1>5, <1>6
  <1> HIDE DEF top, bottom
  <1>8. ASSUME NEW j \in from..i
        PROVE  /\ candles[j].high <= top /\ bottom <= candles[j].low
               /\ candles[j].close <= top /\ bottom <= candles[j].close
    <2>1. /\ h[j] \in Nat /\ l[j] \in Nat /\ candles[j].close \in Nat
          /\ h[j] = candles[j].high /\ l[j] = candles[j].low
          /\ l[j] <= candles[j].close /\ candles[j].close <= h[j]
          /\ h[j] <= top /\ bottom <= l[j]
      BY <1>3, <1>7
    <2> QED
      BY <1>7, <2>1
  <1> QED
    BY <1>2, <1>3, <1>7, <1>8 DEF top, bottom, from

LEMMA WilliamsIn ==
    ASSUME candles \in Seq(BarValues)
    PROVE  Study!Within(Study!WilliamsR, -100, 0)
  <1> SUFFICES ASSUME NEW i \in P..Study!N
               PROVE  /\ -100 <= Study!Percent(candles[i].close - Study!Highest(i, P), Study!Highest(i, P) - Study!Lowest(i, P))
                      /\ Study!Percent(candles[i].close - Study!Highest(i, P), Study!Highest(i, P) - Study!Lowest(i, P)) <= 0
    BY DEF Study!Within, Study!WilliamsR
  <1> DEFINE c == candles[i].close
             h == Study!Highest(i, P)
             l == Study!Lowest(i, P)
  <1>1. c \in Nat /\ h \in Nat /\ l \in Nat /\ l <= c /\ c <= h
    BY ParamsAre, RangeIs
  <1> HIDE DEF c, h, l
  <1>2. c - h \in Int /\ h - l \in Nat /\ c - h <= 0 /\ -(h - l) <= c - h
    BY <1>1
  <1>3. -100 <= Study!Percent(c - h, h - l) /\ Study!Percent(c - h, h - l) <= 0
    BY <1>2, PercentIs
  <1> QED
    BY <1>3 DEF c, h, l

\* One new part and w - 1 old parts of w.
LEMMA CarriesOn ==
    ASSUME NEW high \in Nat, NEW w \in Nat \ {0}, NEW a \in 0..high, NEW b \in 0..high
    PROVE  ((w - 1) * a + b) \div w \in 0..high
  <1>1. 0 \in Int /\ high \in Int /\ w - 1 \in Nat /\ 1 \in Nat /\ (w - 1) + 1 > 0
    OBVIOUS
  <1>2. ((w - 1) * a + 1 * b) \div ((w - 1) + 1) \in 0..high
    BY <1>1, MeanBetween
  <1>3. (w - 1) + 1 = w /\ 1 * b = b
    OBVIOUS
  <1> QED
    BY <1>2, <1>3

Keeps(s, first, begin, w, v) ==
    s = [i \in first..Study!N |-> IF i < first + 1 THEN begin ELSE ((w - 1) * s[i - 1] + v[i]) \div w]

LEMMA KeepsIn ==
    ASSUME Study!N \in Nat, NEW first \in Int, NEW high \in Nat, NEW begin \in 0..high,
           NEW w \in Nat \ {0}, NEW v, \A i \in (first + 1)..Study!N : v[i] \in 0..high
    PROVE  /\ \E s : Keeps(s, first, begin, w, v)
           /\ \A s : Keeps(s, first, begin, w, v) => \A i \in first..Study!N : s[i] \in 0..high
  <1> DEFINE A == 0..high
             carry(x, i) == ((w - 1) * x + v[i]) \div w
             G == [x \in A \X (first..Study!N) |-> IF x[2] = first THEN begin ELSE carry(x[1], x[2])]
  <1>1. ASSUME NEW x \in A, NEW i \in (first + 1)..Study!N PROVE carry(x, i) \in A
    <2>1. v[i] \in 0..high
      OBVIOUS
    <2> QED
      BY <2>1, CarriesOn
  <1> HIDE DEF carry
  <1>2. G \in [A \X (first..Study!N) -> A]
    <2> SUFFICES ASSUME NEW x \in A \X (first..Study!N), x[2] # first PROVE carry(x[1], x[2]) \in A
      OBVIOUS
    <2>1. x[1] \in A /\ x[2] \in (first + 1)..Study!N
      OBVIOUS
    <2> HIDE DEF A
    <2> QED
      BY <1>1, <2>1
  <1>3. PICK f : IsRecursion(f, first, Study!N, A, begin, G)
    <2>1. begin \in A /\ Study!N \in Int
      OBVIOUS
    <2> HIDE DEF G, A
    <2> QED
      BY <1>2, <2>1, RecursionExists
  <1>4. f \in [first..Study!N -> A]
    BY <1>3 DEF IsRecursion
  <1>5. \A k \in first..Study!N : f[k] = IF k < first + 1 THEN begin ELSE carry(f[k - 1], k)
    <2> SUFFICES ASSUME NEW k \in first..Study!N
                 PROVE  f[k] = IF k < first + 1 THEN begin ELSE carry(f[k - 1], k)
      OBVIOUS
    <2>1. f[k] = IF k = first THEN begin ELSE G[<<f[k - 1], k>>]
      BY <1>3 DEF IsRecursion
    <2>2. k = first <=> k < first + 1
      OBVIOUS
    <2>3. k # first => f[k - 1] \in A /\ <<f[k - 1], k>> \in A \X (first..Study!N)
      BY <1>4
    <2> QED
      BY <2>1, <2>2, <2>3
  <1>6. Keeps(f, first, begin, w, v)
    <2>1. f = [k \in first..Study!N |-> f[k]]
      BY <1>4
    <2>2. f = [k \in first..Study!N |-> IF k < first + 1 THEN begin ELSE carry(f[k - 1], k)]
      BY <1>5, <2>1
    <2> QED
      BY <2>2 DEF Keeps, carry
  <1>7. ASSUME NEW s, Keeps(s, first, begin, w, v) PROVE \A i \in first..Study!N : s[i] \in A
    <2>1. \A k \in first..Study!N : s[k] = IF k < first + 1 THEN begin ELSE carry(s[k - 1], k)
      BY <1>7 DEF Keeps, carry
    <2> DEFINE S == {k \in first..Study!N : s[k] \in A}
    <2>2. first <= Study!N => first \in S
      <3>1. SUFFICES ASSUME first <= Study!N PROVE first \in S
        OBVIOUS
      <3>2. first \in first..Study!N /\ first < first + 1 /\ begin \in A
        BY <3>1
      <3> HIDE DEF A
      <3> QED
        BY <2>1, <3>2
    <2>3. ASSUME NEW k \in (first + 1)..Study!N, k - 1 \in S PROVE k \in S
      <3>1. k \in first..Study!N /\ ~(k < first + 1) /\ s[k - 1] \in A
        BY <2>3
      <3>2. carry(s[k - 1], k) \in A
        <4> HIDE DEF A
        <4> QED
          BY <1>1, <3>1
      <3> QED
        BY <2>1, <3>1, <3>2
    <2>4. first..Study!N \subseteq S
      <3>1. Study!N \in Int
        OBVIOUS
      <3> HIDE DEF S
      <3> QED
        BY <2>2, <2>3, <3>1, IntervalInduction
    <2> QED
      BY <2>4
  <1> QED
    BY <1>6, <1>7

\* KDJ starts one bar before its first result.
LEMMA StochIn ==
    ASSUME candles \in Seq(BarValues)
    PROVE  Study!Within(Study!Stoch.k, 0, 100 * Precision) /\ Study!Within(Study!Stoch.d, 0, 100 * Precision)
  <1> DEFINE top == 100 * Precision
             rsv(i) == LET span == Study!Highest(i, P) - Study!Lowest(i, P)
                       IN  ((candles[i].close - Study!Lowest(i, P)) * 100 * Precision)
                               \div (IF span = 0 THEN 1 ELSE span)
             EqK(s) == s = [i \in (P - 1)..Study!N |-> IF i < P THEN 50 * Precision
                                                 ELSE ((Q - 1) * s[i - 1] + rsv(i)) \div Q]
             k == CHOOSE s : EqK(s)
             EqD(s) == s = [i \in (P - 1)..Study!N |-> IF i < P THEN 50 * Precision
                                                 ELSE ((R - 1) * s[i - 1] + k[i]) \div R]
             d == CHOOSE s : EqD(s)
             r == [i \in P..Study!N |-> rsv(i)]
  <1>1. /\ Study!N \in Nat /\ Precision \in Nat \ {0} /\ P \in Nat \ {0} /\ Q \in Nat \ {0} /\ R \in Nat \ {0}
        /\ top \in Nat /\ P - 1 \in Int /\ 50 * Precision \in 0..top
    BY BarsAre, ParamsAre
  <1>2. Study!Stoch.k = [i \in P..Study!N |-> k[i]] /\ Study!Stoch.d = [i \in P..Study!N |-> d[i]]
    BY DEF Study!Stoch
  <1>3. ASSUME NEW i \in P..Study!N PROVE rsv(i) \in 0..top
    <2> DEFINE c == candles[i].close
               h == Study!Highest(i, P)
               l == Study!Lowest(i, P)
               b == IF h - l = 0 THEN 1 ELSE h - l
               a == (c - l) * 100 * Precision
    <2>1. c \in Nat /\ h \in Nat /\ l \in Nat /\ l <= c /\ c <= h
      BY <1>1, RangeIs
    <2>2. rsv(i) = a \div b
      OBVIOUS
    <2> HIDE DEF c, h, l, rsv
    <2>3. b \in Nat \ {0} /\ c - l \in Nat /\ c - l <= b
      BY <2>1
    <2> DEFINE x == c - l
    <2>4. a = x * top /\ x \in Nat /\ x <= b /\ 0 <= x
      <3>1. x \in Nat
        BY <2>3
      <3> HIDE DEF x
      <3>2. x * 100 * Precision = x * (100 * Precision)
        BY <1>1, <3>1
      <3> QED
        BY <2>3, <3>2 DEF x
    <2>0. top \in Nat
      BY <1>1
    <2> HIDE DEF x, a, b, top
    <2>5. 0 * top <= x * top /\ x * top <= b * top
      BY <2>0, <2>3, <2>4, TimesMonotone
    <2>6. 0 * top = 0 /\ b * top \in Int /\ x * top \in Int /\ b * 0 = 0
      BY <2>0, <2>3, <2>4
    <2>7. b * 0 <= a /\ a < b * top + b /\ a \in Int
      BY <2>3, <2>4, <2>5, <2>6
    <2>8. a \div b <= top
      BY <2>0, <2>3, <2>7, QuotientBounds
    <2>9. 0 <= a \div b
      <3>1. 0 \in Int
        OBVIOUS
      <3> QED
        BY <2>3, <2>7, <3>1, QuotientBounds
    <2>10. a \div b \in Int
      BY <2>3, <2>7, Division
    <2> QED
      BY <2>0, <2>2, <2>8, <2>9, <2>10
  <1>4. \A i \in (P - 1 + 1)..Study!N : r[i] \in 0..top /\ r[i] = rsv(i)
    <2>1. P - 1 + 1 = P
      BY <1>1
    <2> HIDE DEF rsv, top
    <2> QED
      BY <1>3, <2>1
  <1> HIDE DEF rsv, r
  <1>5. \A i \in (P - 1)..Study!N : i < P <=> i < P - 1 + 1
    BY <1>1
  <1>6. \A i \in (P - 1)..Study!N : ~(i < P - 1 + 1) => i \in (P - 1 + 1)..Study!N
    BY <1>1
  <1>7. ASSUME NEW s PROVE EqK(s) <=> Keeps(s, P - 1, 50 * Precision, Q, r)
    BY <1>4, <1>5, <1>6 DEF Keeps
  <1>8. ASSUME NEW s PROVE EqD(s) <=> Keeps(s, P - 1, 50 * Precision, R, k)
    <2> HIDE DEF k
    <2> QED
      BY <1>5, <1>6 DEF Keeps
  <1> HIDE DEF EqK, EqD
  <1>9. \A i \in (P - 1)..Study!N : k[i] \in 0..top
    <2>0. \A i \in (P - 1 + 1)..Study!N : r[i] \in 0..top
      BY <1>4
    <2> HIDE DEF top
    <2>1. \E s : EqK(s)
      BY <1>1, <1>7, <2>0, KeepsIn
    <2>2. EqK(k)
      BY <2>1
    <2> HIDE DEF k
    <2>3. Keeps(k, P - 1, 50 * Precision, Q, r)
      BY <1>7, <2>2
    <2> QED
      BY <1>1, <2>0, <2>3, KeepsIn
  <1> HIDE DEF k
  <1>10. \A i \in (P - 1)..Study!N : d[i] \in 0..top
    <2>0. \A i \in (P - 1 + 1)..Study!N : k[i] \in 0..top
      BY <1>1, <1>9
    <2> HIDE DEF top
    <2>1. \E s : EqD(s)
      BY <1>1, <1>8, <2>0, KeepsIn
    <2>2. EqD(d)
      BY <2>1
    <2> HIDE DEF d
    <2>3. Keeps(d, P - 1, 50 * Precision, R, k)
      BY <1>8, <2>2
    <2> QED
      BY <1>1, <2>0, <2>3, KeepsIn
  <1> HIDE DEF d
  <1>11. \A i \in P..Study!N : i \in (P - 1)..Study!N
    BY <1>1
  <1>12. ASSUME NEW f, \A i \in (P - 1)..Study!N : f[i] \in 0..top
         PROVE  Study!Within([i \in P..Study!N |-> f[i]], 0, top)
    <2> SUFFICES ASSUME NEW i \in P..Study!N PROVE 0 <= f[i] /\ f[i] <= top
      BY DEF Study!Within
    <2>1. f[i] \in 0..top
      BY <1>11, <1>12
    <2> QED
      BY <1>1, <2>1
  <1> QED
    BY <1>2, <1>9, <1>10, <1>12

-----------------------------------------------------------------------------
(* Scales: a part of a sum, and weighted means. *)

\* The turnover of the first bars is between their volume at a low and at a
\* high price, if that of each bar is.
LEMMA WeighedIn ==
    ASSUME Study!N \in Nat, NEW low \in Nat, NEW high \in Nat, NEW u, NEW w,
           \A k \in 1..Study!N : /\ u[k] \in Nat /\ w[k] \in Nat
                                 /\ low * w[k] <= u[k] /\ u[k] <= high * w[k],
           NEW n \in 0..Study!N
    PROVE  /\ Study!Total(u, 1, n) \in Nat /\ Study!Total(w, 1, n) \in Nat
           /\ low * Study!Total(w, 1, n) <= Study!Total(u, 1, n) /\ Study!Total(u, 1, n) <= high * Study!Total(w, 1, n)
  <1> DEFINE Between(t) == /\ Study!Total(u, 1, t) \in Nat /\ Study!Total(w, 1, t) \in Nat
                           /\ low * Study!Total(w, 1, t) <= Study!Total(u, 1, t)
                           /\ Study!Total(u, 1, t) <= high * Study!Total(w, 1, t)
             S == {t \in 0..Study!N : Between(t)}
  <1>1. ASSUME NEW k \in 1..Study!N
        PROVE  u[k] \in Nat /\ w[k] \in Nat /\ low * w[k] <= u[k] /\ u[k] <= high * w[k]
    OBVIOUS
  <1>2. ASSUME NEW v, \A k \in 1..Study!N : v[k] \in Nat, NEW t \in 0..Study!N
        PROVE  /\ t = 0 => Study!Total(v, 1, t) = 0
               /\ t >= 1 => Study!Total(v, 1, t) = Study!Total(v, 1, t - 1) + v[t]
    <2>1. 1 \in Int /\ t \in Int /\ 1 - 1 <= t /\ 1 - 1 = 0 /\ \A k \in 1..t : v[k] \in Int
      BY <1>2
    <2> QED
      BY <2>1, TotalSteps
  <1>3. 0 \in S
    <2>1. 0 \in 0..Study!N
      OBVIOUS
    <2>2. Study!Total(u, 1, 0) = 0 /\ Study!Total(w, 1, 0) = 0
      BY <1>1, <1>2, <2>1
    <2>3. low * 0 = 0 /\ high * 0 = 0
      OBVIOUS
    <2> QED
      BY <2>1, <2>2, <2>3
  <1>4. ASSUME NEW t \in (0 + 1)..Study!N, t - 1 \in S PROVE t \in S
    <2>1. t \in 1..Study!N /\ t \in 0..Study!N /\ t >= 1
      OBVIOUS
    <2> DEFINE a == Study!Total(u, 1, t - 1)
               b == Study!Total(w, 1, t - 1)
               e == u[t]
               y == w[t]
    <2>2. a \in Nat /\ b \in Nat /\ low * b <= a /\ a <= high * b
      BY <1>4
    <2>3. Study!Total(u, 1, t) = a + e /\ Study!Total(w, 1, t) = b + y
      BY <1>1, <1>2, <2>1
    <2>4. e \in Nat /\ y \in Nat /\ low * y <= e /\ e <= high * y
      BY <1>1, <2>1
    <2> HIDE DEF a, b, e, y
    <2>5. low * (b + y) = low * b + low * y /\ high * (b + y) = high * b + high * y
          /\ low * b \in Nat /\ low * y \in Nat /\ high * b \in Nat /\ high * y \in Nat
      BY <2>2, <2>4
    <2>6. low * (b + y) <= a + e /\ a + e <= high * (b + y) /\ a + e \in Nat /\ b + y \in Nat
      BY <2>2, <2>4, <2>5
    <2> QED
      BY <2>1, <2>3, <2>6
  <1>5. 0..Study!N \subseteq S
    <2>1. 0 \in Int /\ Study!N \in Int
      OBVIOUS
    <2> HIDE DEF S
    <2> QED
      BY <1>3, <1>4, <2>1, IntervalInduction
  <1> QED
    BY <1>5

\* A sum that is added up from nothing.
Sums(s, v) == s = [i \in 0..Study!N |-> IF i = 0 THEN 0 ELSE s[i - 1] + v[i]]

LEMMA SumsAre ==
    ASSUME Study!N \in Nat, NEW v, \A k \in 1..Study!N : v[k] \in Int
    PROVE  /\ \E s : Sums(s, v)
           /\ \A s : Sums(s, v) => \A k \in 0..Study!N : s[k] = Study!Total(v, 1, k)
  <1> DEFINE f == [i \in 0..Study!N |-> Study!Total(v, 1, i)]
  <1>1. ASSUME NEW t \in 0..Study!N
        PROVE  /\ t = 0 => Study!Total(v, 1, t) = 0
               /\ t # 0 => Study!Total(v, 1, t) = Study!Total(v, 1, t - 1) + v[t]
    <2>1. /\ 1 \in Int /\ t \in Int /\ 1 - 1 <= t /\ 1 - 1 = 0 /\ \A k \in 1..t : v[k] \in Int
          /\ t # 0 => t >= 1
      OBVIOUS
    <2> QED
      BY <2>1, TotalSteps
  <1>2. Sums(f, v)
    <2>1. \A i \in 0..Study!N : i # 0 => i - 1 \in 0..Study!N
      OBVIOUS
    <2>2. \A i \in 0..Study!N : f[i] = IF i = 0 THEN 0 ELSE f[i - 1] + v[i]
      BY <1>1, <2>1
    <2>3. f = [i \in 0..Study!N |-> f[i]]
      OBVIOUS
    <2> HIDE DEF f
    <2> QED
      BY <2>2, <2>3 DEF Sums
  <1>3. ASSUME NEW s, Sums(s, v) PROVE \A k \in 0..Study!N : s[k] = Study!Total(v, 1, k)
    <2>1. \A i \in 0..Study!N : s[i] = IF i = 0 THEN 0 ELSE s[i - 1] + v[i]
      BY <1>3 DEF Sums
    <2> DEFINE S == {k \in 0..Study!N : s[k] = Study!Total(v, 1, k)}
    <2>2. 0 \in S
      BY <1>1, <2>1
    <2>3. ASSUME NEW k \in (0 + 1)..Study!N, k - 1 \in S PROVE k \in S
      <3>1. k \in 0..Study!N /\ k # 0
        OBVIOUS
      <3> QED
        BY <1>1, <2>1, <2>3, <3>1
    <2>4. 0..Study!N \subseteq S
      <3>1. 0 \in Int /\ Study!N \in Int
        OBVIOUS
      <3> HIDE DEF S
      <3> QED
        BY <2>2, <2>3, <3>1, IntervalInduction
    <2> QED
      BY <2>4
  <1> QED
    BY <1>2, <1>3

LEMMA AveragePriceIn ==
    ASSUME candles \in Seq(BarValues), \A k \in 1..Study!N : Study!Traded(candles[k]),
           NEW i \in DOMAIN Study!AveragePrice
    PROVE  /\ Study!Lowest(Study!N, Study!N) * Study!AveragePrice[i][2] <= Study!AveragePrice[i][1]
           /\ Study!AveragePrice[i][1] <= Study!Highest(Study!N, Study!N) * Study!AveragePrice[i][2]
  <1> DEFINE EqT(s) == s = [k \in 0..Study!N |-> IF k = 0 THEN 0 ELSE s[k - 1] + candles[k].turnover]
             turnover == CHOOSE s : EqT(s)
             EqV(s) == s = [k \in 0..Study!N |-> IF k = 0 THEN 0 ELSE s[k - 1] + candles[k].volume]
             volume == CHOOSE s : EqV(s)
             low == Study!Lowest(Study!N, Study!N)
             high == Study!Highest(Study!N, Study!N)
             w == [k \in 1..Study!N |-> candles[k].volume]
             u == [k \in 1..Study!N |-> candles[k].turnover]
  <1>1. Study!N \in Nat
    BY BarsAre
  <1>2. Study!AveragePrice = [k \in {k \in 1..Study!N : volume[k] # 0} |-> <<turnover[k], volume[k]>>]
    BY DEF Study!AveragePrice
  <1>0. i \in 1..Study!N
    BY <1>2
  <1>a. /\ low \in Nat /\ high \in Nat
        /\ \A k \in 1..Study!N : candles[k].high <= high /\ low <= candles[k].low
    <2>1. Study!N \in Nat \ {0} /\ Study!N \in Study!N..Study!N
          /\ \A k \in 1..Study!N : k \in (Study!N - Study!N + 1)..Study!N
      BY <1>0, <1>1
    <2> QED
      BY <2>1, RangeIs
  <1> HIDE DEF low, high
  <1>3. \A k \in 1..Study!N : /\ u[k] \in Nat /\ w[k] \in Nat
                              /\ low * w[k] <= u[k] /\ u[k] <= high * w[k]
    <2> SUFFICES ASSUME NEW k \in 1..Study!N
                 PROVE  /\ candles[k].turnover \in Nat /\ candles[k].volume \in Nat
                        /\ low * candles[k].volume <= candles[k].turnover
                        /\ candles[k].turnover <= high * candles[k].volume
      OBVIOUS
    <2> DEFINE b == candles[k].low
               t == candles[k].high
               v == candles[k].volume
               x == candles[k].turnover
    <2>1. /\ b \in Nat /\ t \in Nat /\ v \in Nat /\ x \in Nat
          /\ low <= b /\ t <= high
      BY <1>a, BarsAre
    <2>2. b * v <= x /\ x <= t * v
      BY DEF Study!Traded
    <2> HIDE DEF b, t, v, x
    <2>3. /\ low * v <= b * v /\ t * v <= high * v
          /\ low * v \in Int /\ b * v \in Int /\ t * v \in Int /\ high * v \in Int
      BY <1>a, <2>1, TimesMonotone
    <2>4. x \in Nat /\ v \in Nat /\ low * v <= x /\ x <= high * v
      BY <2>1, <2>2, <2>3
    <2> QED
      BY <2>4 DEF v, x
  <1>4. \A k \in 1..Study!N : u[k] \in Int /\ w[k] \in Int
    BY <1>3
  <1>5. \A k \in 0..Study!N : k # 0 => k \in 1..Study!N
    OBVIOUS
  <1>6. ASSUME NEW s PROVE EqT(s) <=> Sums(s, u)
    BY <1>5 DEF Sums
  <1>7. ASSUME NEW s PROVE EqV(s) <=> Sums(s, w)
    BY <1>5 DEF Sums
  <1> HIDE DEF EqT, EqV, u, w
  <1>8. \A k \in 0..Study!N : turnover[k] = Study!Total(u, 1, k)
    <2>1. \E s : EqT(s)
      BY <1>1, <1>4, <1>6, SumsAre
    <2>2. EqT(turnover)
      BY <2>1
    <2> HIDE DEF turnover
    <2> QED
      BY <1>1, <1>4, <1>6, <2>2, SumsAre
  <1>9. \A k \in 0..Study!N : volume[k] = Study!Total(w, 1, k)
    <2>1. \E s : EqV(s)
      BY <1>1, <1>4, <1>7, SumsAre
    <2>2. EqV(volume)
      BY <2>1
    <2> HIDE DEF volume
    <2> QED
      BY <1>1, <1>4, <1>7, <2>2, SumsAre
  <1> HIDE DEF turnover, volume
  <1>10. i \in 1..Study!N /\ Study!AveragePrice[i] = <<turnover[i], volume[i]>> /\ i \in 0..Study!N
    BY <1>2
  <1> DEFINE x == Study!Total(u, 1, i)
             y == Study!Total(w, 1, i)
  <1>11. Study!AveragePrice[i][1] = x /\ Study!AveragePrice[i][2] = y
    BY <1>8, <1>9, <1>10
  <1>12. low * y <= x /\ x <= high * y
    <2>1. /\ low * Study!Total(w, 1, i) <= Study!Total(u, 1, i)
          /\ Study!Total(u, 1, i) <= high * Study!Total(w, 1, i)
      <3> HIDE DEF x, y
      <3> QED
        BY <1>1, <1>3, <1>10, <1>a, WeighedIn
    <2> QED
      BY <2>1
  <1> HIDE DEF x, y
  <1> QED
    BY <1>11, <1>12 DEF low, high

LEMMA SquareIs ==
    ASSUME NEW x \in Int
    PROVE  Study!Square(x) \in Nat
  <1>1. CASE x >= 0
    <2>1. 0 * x <= x * x /\ 0 * x = 0 /\ x * x \in Int
      BY <1>1, TimesMonotone
    <2> QED
      BY <2>1 DEF Study!Square
  <1>2. CASE x < 0
    <2> DEFINE y == -x
    <2>1. y \in Nat /\ x * x = y * y
      BY <1>2
    <2> HIDE DEF y
    <2>2. 0 * y <= y * y /\ 0 * y = 0 /\ y * y \in Int
      BY <2>1, TimesMonotone
    <2> QED
      BY <2>1, <2>2 DEF Study!Square
  <1> QED
    BY <1>1, <1>2

LEMMA BandsIn ==
    ASSUME candles \in Seq(BarValues), NEW i \in DOMAIN Study!BollingerBands
    PROVE  Study!Square(P * candles[i].close - Study!BollingerBands[i].mid) <= Study!BollingerBands[i].square
  <1> DEFINE mid == Study!Window(Study!Close, P)
             far == [j \in 1..Study!N |-> Study!Square(P * candles[j].close - mid[i])]
  <1>1. Study!N \in Nat /\ P \in Nat \ {0}
    BY BarsAre, ParamsAre
  <1>2. \A k \in 1..Study!N : Study!Close[k] \in Int
    BY ClosesAre
  <1>3. DOMAIN Study!BollingerBands = P..Study!N
    BY <1>1, <1>2, WindowExact DEF Study!BollingerBands
  <1>4. /\ Study!BollingerBands[i].mid = mid[i]
        /\ Study!BollingerBands[i].square = Study!Total(far, i - P + 1, i)
    BY <1>3 DEF Study!BollingerBands
  <1>5. i \in P..Study!N /\ mid[i] \in Int
    BY <1>1, <1>2, <1>3, WindowExact
  <1> HIDE DEF mid
  <1>6. \A k \in 1..Study!N : far[k] \in Nat
    <2> SUFFICES ASSUME NEW k \in 1..Study!N PROVE Study!Square(P * candles[k].close - mid[i]) \in Nat
      OBVIOUS
    <2> DEFINE c == candles[k].close
    <2>1. c \in Nat
      BY BarsAre
    <2> HIDE DEF c
    <2>2. P * c - mid[i] \in Int
      BY <1>1, <1>5, <2>1
    <2> QED
      BY <2>2, SquareIs DEF c
  <1>7. i \in (i - P + 1)..i /\ i \in 1..Study!N
    BY <1>1, <1>5
  <1>8. far[i] = Study!Square(P * candles[i].close - mid[i])
    BY <1>7
  <1> HIDE DEF far
  <1>9. far[i] <= Study!Total(far, i - P + 1, i)
    BY <1>1, <1>5, <1>6, <1>7, WindowTotals
  <1> QED
    BY <1>4, <1>8, <1>9

LEMMA AbsIs ==
    ASSUME NEW x \in Int
    PROVE  Study!Abs(x) \in Nat /\ x <= Study!Abs(x) /\ -x <= Study!Abs(x) /\ (Study!Abs(x) = x \/ Study!Abs(x) = -x)
  BY DEF Study!Abs

LEMMA AbsWithin ==
    ASSUME NEW x \in Int, NEW y \in Int
    PROVE  Study!Abs(x) <= y <=> x <= y /\ -y <= x
  BY DEF Study!Abs

LEMMA ChannelIn ==
    ASSUME candles \in Seq(BarValues), NEW i \in DOMAIN Study!CommodityChannelIndex
    PROVE  Study!Abs(Study!CommodityChannelIndex[i][1]) <= P * Study!CommodityChannelIndex[i][2]
  <1> DEFINE tp == [k \in 1..Study!N |-> candles[k].high + candles[k].low + candles[k].close]
             sum == Study!Window(tp, P)
             far == [j \in 1..Study!N |-> Study!Abs(P * tp[j] - sum[i])]
             md == Study!Total(far, i - P + 1, i)
             x == P * tp[i] - sum[i]
  <1>1. Study!N \in Nat /\ P \in Nat \ {0}
    BY BarsAre, ParamsAre
  <1>2. \A k \in 1..Study!N : tp[k] \in Int
    <2> SUFFICES ASSUME NEW k \in 1..Study!N PROVE candles[k].high + candles[k].low + candles[k].close \in Int
      OBVIOUS
    <2>1. candles[k].high \in Nat /\ candles[k].low \in Nat /\ candles[k].close \in Nat
      BY BarsAre
    <2> QED
      BY <2>1
  <1>3. DOMAIN Study!CommodityChannelIndex = DOMAIN sum
    BY DEF Study!CommodityChannelIndex
  <1>4. Study!CommodityChannelIndex[i] = IF md = 0 THEN <<0, 1>> ELSE <<P * x, md>>
    BY <1>3 DEF Study!CommodityChannelIndex
  <1> HIDE DEF tp
  <1>5. i \in P..Study!N /\ sum[i] \in Int
    BY <1>1, <1>2, <1>3, WindowExact
  <1> HIDE DEF sum
  <1>6. ASSUME NEW k \in 1..Study!N PROVE P * tp[k] - sum[i] \in Int
    <2>1. tp[k] \in Int
      BY <1>2
    <2> QED
      BY <1>1, <1>5, <2>1
  <1>7. \A k \in 1..Study!N : far[k] \in Nat
    BY <1>6, AbsIs
  <1>8. i \in (i - P + 1)..i /\ i \in 1..Study!N
    BY <1>1, <1>5
  <1>9. far[i] = Study!Abs(x) /\ x \in Int
    BY <1>6, <1>8
  <1> HIDE DEF far, x
  <1>10. far[i] <= md /\ md \in Nat
    BY <1>1, <1>5, <1>7, <1>8, WindowTotals
  <1> HIDE DEF md
  <1>11. CASE md = 0
    <2>1. Study!CommodityChannelIndex[i][1] = 0 /\ Study!CommodityChannelIndex[i][2] = 1
      BY <1>4, <1>11
    <2> QED
      BY <1>1, <2>1 DEF Study!Abs
  <1>12. CASE md # 0
    <2>1. Study!CommodityChannelIndex[i][1] = P * x /\ Study!CommodityChannelIndex[i][2] = md
      BY <1>4, <1>12
    <2>2. x * P <= md * P /\ (-md) * P <= x * P
      <3>1. x <= md /\ -md <= x /\ x \in Int /\ md \in Int /\ -md \in Int /\ P \in Nat
        <4>1. Study!Abs(x) <= md /\ x \in Int /\ md \in Int
          BY <1>9, <1>10
        <4>2. x <= md /\ -md <= x
          BY <4>1, AbsWithin
        <4> QED
          BY <1>1, <4>1, <4>2
      <3> QED
        BY <3>1, TimesMonotone
    <2>3. /\ x * P = P * x /\ md * P = P * md /\ (-md) * P = -(P * md)
          /\ P * x \in Int /\ P * md \in Int
      BY <1>1, <1>9, <1>10
    <2>4. Study!Abs(P * x) <= P * md
      <3> DEFINE a == P * x
                 b == P * md
      <3>1. a <= b /\ -b <= a /\ a \in Int /\ b \in Int
        BY <2>2, <2>3
      <3> HIDE DEF a, b
      <3>2. Study!Abs(a) <= b
        BY <3>1, AbsWithin
      <3> QED
        BY <3>2 DEF a, b
    <2> QED
      BY <2>1, <2>4
  <1> QED
    BY <1>11, <1>12

LEMMA AwesomeIn ==
    ASSUME candles \in Seq(BarValues), NEW i \in DOMAIN Study!AwesomeOscillator
    PROVE  Study!Abs(Study!AwesomeOscillator[i]) <= 2 * P * Q * (Study!Highest(Study!N, Study!N) - Study!Lowest(Study!N, Study!N))
  <1> DEFINE middle == [k \in 1..Study!N |-> candles[k].low + candles[k].high]
             m == Study!Larger(P, Q)
             h == Study!Highest(Study!N, Study!N)
             l == Study!Lowest(Study!N, Study!N)
  <1>1. Study!N \in Nat /\ P \in Nat \ {0} /\ Q \in Nat \ {0}
    BY BarsAre, ParamsAre
  <1>2. m \in Nat \ {0} /\ m >= P /\ m >= Q
    BY <1>1 DEF Study!Larger
  <1>3. /\ DOMAIN Study!AwesomeOscillator = m..Study!N
        /\ Study!AwesomeOscillator[i] = Study!Window(middle, P)[i] * Q - Study!Window(middle, Q)[i] * P
    BY DEF Study!AwesomeOscillator
  <1> HIDE DEF m
  <1>4. i \in P..Study!N /\ i \in Q..Study!N /\ Study!N \in Nat \ {0} /\ Study!N \in Study!N..Study!N
    BY <1>1, <1>2, <1>3
  <1>5. h \in Nat /\ l \in Nat /\ \A j \in (Study!N - Study!N + 1)..Study!N : candles[j].high <= h /\ l <= candles[j].low
    BY <1>4, RangeIs
  <1> HIDE DEF h, l
  <1>6. \A k \in 1..Study!N : middle[k] \in (2 * l)..(2 * h) /\ middle[k] \in Int
    <2> SUFFICES ASSUME NEW k \in 1..Study!N
                 PROVE  /\ candles[k].low + candles[k].high \in (2 * l)..(2 * h)
                        /\ candles[k].low + candles[k].high \in Int
      OBVIOUS
    <2>1. k \in (Study!N - Study!N + 1)..Study!N
      BY <1>1
    <2>2. candles[k].low \in Nat /\ candles[k].high \in Nat /\ candles[k].low <= candles[k].close
          /\ candles[k].close \in Nat /\ candles[k].close <= candles[k].high
      BY BarsAre
    <2>3. candles[k].low <= candles[k].high
      BY <2>2
    <2> DEFINE x == candles[k].low
               y == candles[k].high
    <2>4. x \in Nat /\ y \in Nat /\ x <= y /\ y <= h /\ l <= x
      BY <1>5, <2>1, <2>2, <2>3
    <2> HIDE DEF x, y
    <2>5. x + y \in (2 * l)..(2 * h) /\ x + y \in Int
      BY <1>5, <2>4
    <2> QED
      BY <2>5 DEF x, y
  <1> HIDE DEF middle
  <1>7. ASSUME NEW p \in Nat \ {0}, i \in p..Study!N
        PROVE  /\ Study!Window(middle, p)[i] \in Int
               /\ p * (2 * l) <= Study!Window(middle, p)[i] /\ Study!Window(middle, p)[i] <= p * (2 * h)
    <2>1. Study!Window(middle, p)[i] = Study!Total(middle, i - p + 1, i)
      BY <1>1, <1>6, <1>7, WindowExact
    <2>2. 2 * l \in Int /\ 2 * h \in Int
      BY <1>5
    <2>3. /\ Study!Total(middle, i - p + 1, i) \in Int
          /\ p * (2 * l) <= Study!Total(middle, i - p + 1, i) /\ Study!Total(middle, i - p + 1, i) <= p * (2 * h)
      BY <1>1, <1>6, <1>7, <2>2, WindowBounds
    <2> QED
      BY <2>1, <2>3
  <1> DEFINE a == Study!Window(middle, P)[i]
             b == Study!Window(middle, Q)[i]
  <1>8. /\ a \in Int /\ P * (2 * l) <= a /\ a <= P * (2 * h)
        /\ b \in Int /\ Q * (2 * l) <= b /\ b <= Q * (2 * h)
    BY <1>1, <1>4, <1>7
  <1> HIDE DEF a, b
  <1>9. /\ (P * (2 * l)) * Q <= a * Q /\ a * Q <= (P * (2 * h)) * Q
        /\ (Q * (2 * l)) * P <= b * P /\ b * P <= (Q * (2 * h)) * P
    <2>1. /\ P * (2 * l) \in Int /\ P * (2 * h) \in Int /\ Q * (2 * l) \in Int /\ Q * (2 * h) \in Int
          /\ P \in Nat /\ Q \in Nat
      BY <1>1, <1>5
    <2> QED
      BY <1>8, <2>1, TimesMonotone
  <1> DEFINE lo == (P * (2 * l)) * Q
             hi == (P * (2 * h)) * Q
  <1>10. /\ (Q * (2 * l)) * P = lo /\ (Q * (2 * h)) * P = hi /\ lo \in Int /\ hi \in Int
         /\ 2 * P * Q * (h - l) = hi - lo /\ a * Q \in Int /\ b * P \in Int
    BY <1>1, <1>5, <1>8, SMTT(30)
  <1> HIDE DEF lo, hi
  <1>11. lo <= a * Q /\ a * Q <= hi /\ lo <= b * P /\ b * P <= hi
    BY <1>9, <1>10 DEF lo, hi
  <1> DEFINE x == a * Q
             y == b * P
  <1>12. x - y \in Int /\ x - y <= hi - lo /\ -(x - y) <= hi - lo
    <2>1. x \in Int /\ y \in Int /\ lo <= x /\ x <= hi /\ lo <= y /\ y <= hi
      BY <1>10, <1>11
    <2> HIDE DEF x, y
    <2> QED
      BY <1>10, <2>1
  <1>13. Study!Abs(x - y) <= hi - lo
    <2> HIDE DEF x, y
    <2> QED
      BY <1>12, AbsIs
  <1> QED
    BY <1>3, <1>10, <1>13 DEF a, b, h, l

-----------------------------------------------------------------------------
(* Scales: the directional movement. *)

LEMMA GreatestOfThree ==
    ASSUME NEW a \in Int, NEW b \in Int, NEW c \in Int
    PROVE  /\ Study!Max({a, b, c}) \in Int
           /\ Study!Max({a, b, c}) >= a /\ Study!Max({a, b, c}) >= b /\ Study!Max({a, b, c}) >= c
  <1> DEFINE S == {a, b, c}
             Top(x) == x \in S /\ \A y \in S : x >= y
  <1>1. \E x : Top(x)
    <2>1. CASE a >= b /\ a >= c
      <3>1. Top(a)
        BY <2>1
      <3> QED
        BY <3>1
    <2>2. CASE b >= a /\ b >= c
      <3>1. Top(b)
        BY <2>2
      <3> QED
        BY <3>1
    <2>3. CASE c >= a /\ c >= b
      <3>1. Top(c)
        BY <2>3
      <3> QED
        BY <3>1
    <2> QED
      BY <2>1, <2>2, <2>3
  <1>2. Study!Max(S) = CHOOSE x : Top(x)
    BY DEF Study!Max
  <1>3. Top(Study!Max(S))
    <2> HIDE DEF Top
    <2> QED
      BY <1>1, <1>2
  <1> QED
    BY <1>3

Damped(s, v) ==
    s = [i \in P..Study!N |-> IF i = P THEN Study!Total(v, 1, P) ELSE s[i - 1] - s[i - 1] \div P + v[i]]

Damping(v) == CHOOSE s : Damped(s, v)

\* What a P-th is taken off of is still no less than nothing, and grows with it.
LEMMA DampingStep ==
    ASSUME NEW p \in Nat \ {0}, NEW a \in Nat, NEW b \in Nat, a <= b
    PROVE  a - a \div p \in Nat /\ b - b \div p \in Nat /\ a - a \div p <= b - b \div p
  <1>1. ASSUME NEW x \in Nat PROVE x \div p \in Int /\ x \div p <= x /\ x - x \div p \in Nat
    <2>1. x < p * x + p
      <3>1. 1 * x <= p * x
        BY TimesMonotone
      <3>2. p * x \in Int /\ 1 * x = x
        OBVIOUS
      <3> QED
        BY <3>1, <3>2
    <2>2. x \div p \in Int /\ x \div p <= x
      BY <2>1, Division, QuotientBounds
    <2> QED
      BY <2>2
  <1> DEFINE q == a \div p
             d == b - a
  <1>2. q \in Int /\ a < p * q + p /\ d \in Nat /\ b = a + d
    BY Division
  <1> HIDE DEF q, d
  <1>3. b < p * (q + d) + p
    <2>1. 1 * d <= p * d
      BY <1>2, TimesMonotone
    <2>2. p * (q + d) = p * q + p * d /\ p * q \in Int /\ p * d \in Int /\ 1 * d = d
      BY <1>2
    <2> QED
      BY <1>2, <2>1, <2>2
  <1>4. b \div p <= q + d
    <2>1. q + d \in Int
      BY <1>2
    <2> QED
      BY <1>3, <2>1, QuotientBounds
  <1>5. b \div p \in Int /\ a - q \in Nat /\ b - b \div p \in Nat
    BY <1>1 DEF q
  <1>6. a - q <= b - b \div p
    BY <1>2, <1>4, <1>5
  <1> QED
    BY <1>5, <1>6 DEF q

LEMMA DampingIs ==
    ASSUME Study!N \in Nat, NEW v, \A k \in 1..Study!N : v[k] \in Nat
    PROVE  /\ \A i \in P..Study!N : Damping(v)[i] \in Nat
           /\ \A i \in P..Study!N : Damping(v)[i] =
                 IF i = P THEN Study!Total(v, 1, P)
                 ELSE Damping(v)[i - 1] - Damping(v)[i - 1] \div P + v[i]
  <1> DEFINE begin == IF P <= Study!N THEN Study!Total(v, 1, P) ELSE 0
             step(x, i) == x - x \div P + v[i]
             G == [x \in Nat \X (P..Study!N) |-> step(x[1], x[2])]
  <1>1. P \in Nat \ {0} /\ P \in Int /\ Study!N \in Int
    BY ParamsAre
  <1>2. begin \in Nat /\ (P <= Study!N => Study!Total(v, 1, P) = begin)
    <2>1. CASE P <= Study!N
      <3>1. P \in P..Study!N /\ P - P + 1 = 1
        BY <1>1, <2>1
      <3>2. Study!Total(v, P - P + 1, P) \in Nat
        BY <1>1, <3>1, WindowTotals
      <3> QED
        BY <2>1, <3>1, <3>2
    <2>2. CASE ~(P <= Study!N)
      BY <2>2
    <2> QED
      BY <2>1, <2>2
  <1>3. ASSUME NEW x \in Nat, NEW i \in P..Study!N PROVE step(x, i) \in Nat
    <2>1. x - x \div P \in Nat
      <3>1. x <= x
        OBVIOUS
      <3> QED
        BY <1>1, <3>1, DampingStep
    <2>2. v[i] \in Nat
      BY <1>1
    <2> DEFINE y == x - x \div P
    <2> HIDE DEF y
    <2>3. y + v[i] \in Nat
      BY <2>1, <2>2 DEF y
    <2> QED
      BY <2>3 DEF y
  <1> HIDE DEF step, begin
  <1>4. G \in [Nat \X (P..Study!N) -> Nat]
    <2> SUFFICES ASSUME NEW x \in Nat \X (P..Study!N) PROVE step(x[1], x[2]) \in Nat
      OBVIOUS
    <2>1. x[1] \in Nat /\ x[2] \in P..Study!N
      OBVIOUS
    <2> QED
      BY <1>3, <2>1
  <1>5. PICK f : IsRecursion(f, P, Study!N, Nat, begin, G)
    <2> HIDE DEF G
    <2> QED
      BY <1>1, <1>2, <1>4, RecursionExists
  <1>6. f \in [P..Study!N -> Nat]
    BY <1>5 DEF IsRecursion
  <1>7. \A i \in P..Study!N : P <= Study!N
    BY <1>1
  <1>8. \A k \in P..Study!N : f[k] = IF k = P THEN Study!Total(v, 1, P) ELSE step(f[k - 1], k)
    <2> SUFFICES ASSUME NEW k \in P..Study!N
                 PROVE  f[k] = IF k = P THEN Study!Total(v, 1, P) ELSE step(f[k - 1], k)
      OBVIOUS
    <2>1. f[k] = IF k = P THEN begin ELSE G[<<f[k - 1], k>>]
      BY <1>5 DEF IsRecursion
    <2>2. k # P => f[k - 1] \in Nat /\ <<f[k - 1], k>> \in Nat \X (P..Study!N)
      BY <1>1, <1>6
    <2>3. Study!Total(v, 1, P) = begin
      BY <1>2, <1>7
    <2> QED
      BY <2>1, <2>2, <2>3
  <1>9. Damped(f, v)
    <2>1. f = [k \in P..Study!N |-> f[k]]
      BY <1>6
    <2>2. f = [k \in P..Study!N |-> IF k = P THEN Study!Total(v, 1, P) ELSE step(f[k - 1], k)]
      BY <1>8, <2>1
    <2> QED
      BY <2>2 DEF Damped, step
  <1>10. Damped(Damping(v), v)
    BY <1>9 DEF Damping
  <1> DEFINE s == Damping(v)
  <1>11. \A k \in P..Study!N : s[k] = IF k = P THEN Study!Total(v, 1, P) ELSE step(s[k - 1], k)
    <2> HIDE DEF s
    <2>1. Damped(s, v)
      BY <1>10 DEF s
    <2> QED
      BY <2>1 DEF Damped, step
  <1> HIDE DEF s
  <1> DEFINE S == {k \in P..Study!N : s[k] \in Nat}
  <1>12. P <= Study!N => P \in S
    <2>1. SUFFICES ASSUME P <= Study!N PROVE P \in S
      OBVIOUS
    <2>2. P \in P..Study!N
      BY <1>1, <2>1
    <2> QED
      BY <1>2, <1>11, <2>1, <2>2
  <1>13. ASSUME NEW k \in (P + 1)..Study!N, k - 1 \in S PROVE k \in S
    <2>1. k \in P..Study!N /\ k # P
      BY <1>1
    <2> QED
      BY <1>3, <1>11, <1>13, <2>1
  <1>14. P..Study!N \subseteq S
    <2> HIDE DEF S
    <2> QED
      BY <1>1, <1>12, <1>13, IntervalInduction
  <1>15. \A i \in P..Study!N : s[i] \in Nat
    BY <1>14
  <1> QED
    BY <1>11, <1>15 DEF s, step

LEMMA DampingBelow ==
    ASSUME Study!N \in Nat, NEW u, NEW v,
           \A k \in 1..Study!N : u[k] \in Nat /\ v[k] \in Nat /\ u[k] <= v[k]
    PROVE  \A i \in P..Study!N : Damping(u)[i] <= Damping(v)[i]
  <1> DEFINE a == Damping(u)
             b == Damping(v)
             S == {k \in P..Study!N : a[k] <= b[k]}
  <1>1. P \in Nat \ {0} /\ P \in Int /\ Study!N \in Int
    BY ParamsAre
  <1>2. /\ \A k \in 1..Study!N : u[k] \in Nat
        /\ \A k \in 1..Study!N : v[k] \in Nat
    OBVIOUS
  <1>3. /\ \A i \in P..Study!N : a[i] \in Nat
        /\ \A i \in P..Study!N : a[i] = IF i = P THEN Study!Total(u, 1, P)
                                  ELSE a[i - 1] - a[i - 1] \div P + u[i]
    BY <1>2, DampingIs
  <1>4. /\ \A i \in P..Study!N : b[i] \in Nat
        /\ \A i \in P..Study!N : b[i] = IF i = P THEN Study!Total(v, 1, P)
                                  ELSE b[i - 1] - b[i - 1] \div P + v[i]
    BY <1>2, DampingIs
  <1> HIDE DEF a, b
  <1>5. P <= Study!N => P \in S
    <2>1. SUFFICES ASSUME P <= Study!N PROVE P \in S
      OBVIOUS
    <2>2. P \in P..Study!N /\ a[P] = Study!Total(u, 1, P) /\ b[P] = Study!Total(v, 1, P)
      BY <1>1, <1>3, <1>4, <2>1
    <2>3. \A t \in 0..P : Study!Total(u, 1, t) \in Int /\ Study!Total(v, 1, t) \in Int
                          /\ Study!Total(u, 1, t) <= Study!Total(v, 1, t)
      <3> DEFINE T == {t \in 0..P : Study!Total(u, 1, t) \in Int /\ Study!Total(v, 1, t) \in Int
                                    /\ Study!Total(u, 1, t) <= Study!Total(v, 1, t)}
      <3>1. ASSUME NEW w, \A k \in 1..Study!N : w[k] \in Nat, NEW t \in 0..P
            PROVE  /\ Study!Total(w, 1, t) \in Int
                   /\ t = 0 => Study!Total(w, 1, t) = 0
                   /\ t >= 1 => Study!Total(w, 1, t) = Study!Total(w, 1, t - 1) + w[t]
        <4>1. 1 \in Int /\ t \in Int /\ 1 - 1 <= t /\ 1 - 1 = 0 /\ \A k \in 1..t : k \in 1..Study!N
          BY <1>1, <2>1
        <4>2. \A k \in 1..t : w[k] \in Int
          BY <3>1, <4>1
        <4> QED
          BY <4>1, <4>2, TotalSteps
      <3>2. 0 \in T
        <4>1. 0 \in 0..P
          BY <1>1
        <4>2. Study!Total(u, 1, 0) = 0 /\ Study!Total(v, 1, 0) = 0
          BY <1>2, <3>1, <4>1
        <4> QED
          BY <4>1, <4>2
      <3>3. ASSUME NEW t \in (0 + 1)..P, t - 1 \in T PROVE t \in T
        <4>1. t \in 0..P /\ t >= 1 /\ t \in 1..Study!N
          BY <1>1, <2>1
        <4>2. /\ Study!Total(u, 1, t) \in Int /\ Study!Total(u, 1, t) = Study!Total(u, 1, t - 1) + u[t]
              /\ Study!Total(v, 1, t) \in Int /\ Study!Total(v, 1, t) = Study!Total(v, 1, t - 1) + v[t]
          BY <1>2, <3>1, <4>1
        <4>3. u[t] \in Nat /\ v[t] \in Nat /\ u[t] <= v[t]
          BY <4>1
        <4> QED
          BY <3>3, <4>1, <4>2, <4>3
      <3>4. 0..P \subseteq T
        <4>1. 0 \in Int
          OBVIOUS
        <4> HIDE DEF T
        <4> QED
          BY <1>1, <3>2, <3>3, <4>1, IntervalInduction
      <3> QED
        BY <3>4
    <2>4. P \in 0..P
      BY <1>1
    <2> QED
      BY <2>2, <2>3, <2>4
  <1>6. ASSUME NEW k \in (P + 1)..Study!N, k - 1 \in S PROVE k \in S
    <2>1. k \in P..Study!N /\ k # P /\ k - 1 \in P..Study!N /\ k \in 1..Study!N
      BY <1>1
    <2> DEFINE x == a[k - 1]
               y == b[k - 1]
    <2>2. x \in Nat /\ y \in Nat /\ x <= y
      BY <1>3, <1>4, <1>6, <2>1
    <2>3. a[k] = x - x \div P + u[k] /\ b[k] = y - y \div P + v[k]
      BY <1>3, <1>4, <2>1
    <2>4. u[k] \in Nat /\ v[k] \in Nat /\ u[k] <= v[k]
      BY <2>1
    <2> HIDE DEF x, y
    <2> DEFINE m == x - x \div P
               n == y - y \div P
    <2>5. m \in Nat /\ n \in Nat /\ m <= n
      BY <1>1, <2>2, DampingStep
    <2>6. a[k] = m + u[k] /\ b[k] = n + v[k]
      BY <2>3
    <2> HIDE DEF m, n
    <2>7. a[k] <= b[k]
      BY <2>4, <2>5, <2>6
    <2> QED
      BY <2>1, <2>7
  <1>7. P..Study!N \subseteq S
    <2> HIDE DEF S
    <2> QED
      BY <1>1, <1>5, <1>6, IntervalInduction
  <1> QED
    BY <1>7 DEF a, b

TrueRange(hi, lo, c) == Study!Max({hi - lo, Study!Abs(hi - c), Study!Abs(c - lo)})
Move(x, y) == IF x > 0 /\ x > y THEN x ELSE 0

\* The moves of a bar are no more than its range.
LEMMA MovesIn ==
    ASSUME NEW u \in Nat, NEW hi \in Nat, NEW lo \in Nat, NEW top \in Nat, NEW bottom \in Nat,
           NEW c \in Nat, lo <= hi, bottom <= c, c <= top
    PROVE  /\ u * TrueRange(hi, lo, c) \in Nat
           /\ u * Move(hi - top, bottom - lo) \in Nat
           /\ u * Move(bottom - lo, hi - top) \in Nat
           /\ u * Move(hi - top, bottom - lo) <= u * TrueRange(hi, lo, c)
           /\ u * Move(bottom - lo, hi - top) <= u * TrueRange(hi, lo, c)
  <1> DEFINE a == hi - lo
             b == Study!Abs(hi - c)
             d == Study!Abs(c - lo)
             m == TrueRange(hi, lo, c)
             up == Move(hi - top, bottom - lo)
             down == Move(bottom - lo, hi - top)
  <1>1. a \in Int /\ b \in Int /\ d \in Int /\ hi - c <= b /\ c - lo <= d /\ a >= 0
    <2>1. hi - c \in Int /\ c - lo \in Int
      OBVIOUS
    <2> QED
      BY <2>1, AbsIs
  <1> HIDE DEF a, b, d
  <1>2. m \in Int /\ m >= a /\ m >= b /\ m >= d
    BY <1>1, GreatestOfThree DEF TrueRange, a, b, d
  <1> HIDE DEF m
  <1>3. /\ m \in Nat /\ up \in Nat /\ down \in Nat /\ up <= m /\ down <= m
    BY <1>1, <1>2 DEF Move
  <1> HIDE DEF up, down
  <1>4. up * u <= m * u /\ down * u <= m * u
    BY <1>3, TimesMonotone
  <1>5. /\ up * u = u * up /\ m * u = u * m /\ down * u = u * down
        /\ u * up \in Nat /\ u * m \in Nat /\ u * down \in Nat
    BY <1>3
  <1>6. /\ u * m \in Nat /\ u * up \in Nat /\ u * down \in Nat
        /\ u * up <= u * m /\ u * down <= u * m
    BY <1>4, <1>5
  <1> QED
    BY <1>6 DEF m, up, down

LEMMA ShareIs ==
    ASSUME NEW a \in Nat, NEW b \in Nat, a <= b
    PROVE  Study!Percent(a, b) \in 0..100
  <1>1. a \in Int /\ a >= 0
    OBVIOUS
  <1>2. Study!Percent(a, b) \in Int /\ Study!Percent(a, b) >= 0 /\ Study!Percent(a, b) <= 100
    BY <1>1, PercentIs
  <1> QED
    BY <1>2

LEMMA WithinOf ==
    ASSUME NEW f, NEW S, DOMAIN f = S, \A i \in S : f[i] \in 0..100
    PROVE  Study!Within(f, 0, 100)
  <1> SUFFICES ASSUME NEW i \in S PROVE 0 <= f[i] /\ f[i] <= 100
    BY DEF Study!Within
  <1>1. f[i] \in 0..100
    OBVIOUS
  <1> QED
    BY <1>1

LEMMA DirectionIn ==
    ASSUME candles \in Seq(BarValues)
    PROVE  /\ Study!Within(Study!DirectionalMovementIndex.pdi, 0, 100)
           /\ Study!Within(Study!DirectionalMovementIndex.mdi, 0, 100)
           /\ Study!Within(Study!DirectionalMovementIndex.adx, 0, 100)
           /\ Study!Within(Study!DirectionalMovementIndex.adxr, 0, 100)
  <1> DEFINE prev(i) == candles[Study!Prev(i)]
             hhy(i) == candles[i].high - prev(i).high
             lyl(i) == prev(i).low - candles[i].low
             tr == [i \in 1..Study!N |-> Precision * Study!Max({candles[i].high - candles[i].low,
                       Study!Abs(candles[i].high - prev(i).close), Study!Abs(prev(i).close - candles[i].low)})]
             h == [i \in 1..Study!N |-> Precision * (IF hhy(i) > 0 /\ hhy(i) > lyl(i) THEN hhy(i) ELSE 0)]
             l == [i \in 1..Study!N |-> Precision * (IF lyl(i) > 0 /\ lyl(i) > hhy(i) THEN lyl(i) ELSE 0)]
             mtr == Damping(tr)
             pdi == [i \in P..Study!N |-> Study!Percent(Damping(h)[i], mtr[i])]
             mdi == [i \in P..Study!N |-> Study!Percent(Damping(l)[i], mtr[i])]
             dx == [i \in P..Study!N |-> Study!Percent(Study!Abs(mdi[i] - pdi[i]), mdi[i] + pdi[i])]
             first == 2 * P - 1
             adx == IF first > Study!N THEN <<>>
                    ELSE Study!Carried(dx, first, Study!Total(dx, P, first) \div P, 1, P - 1)
             adxr == [i \in (2 * P + Q - 2)..Study!N |-> (adx[i - Q + 1] + adx[i]) \div 2]
  <1>1. /\ Study!N \in Nat /\ Precision \in Nat /\ P \in Nat \ {0} /\ Q \in Nat \ {0}
    BY BarsAre, ParamsAre
  <1>2. /\ Study!DirectionalMovementIndex.pdi = pdi /\ Study!DirectionalMovementIndex.mdi = mdi
        /\ Study!DirectionalMovementIndex.adx = adx /\ Study!DirectionalMovementIndex.adxr = adxr
    BY DEF Study!DirectionalMovementIndex, Damping, Damped
  <1>3. \A i \in 1..Study!N : /\ tr[i] \in Nat /\ h[i] \in Nat /\ l[i] \in Nat
                        /\ h[i] <= tr[i] /\ l[i] <= tr[i]
    <2> SUFFICES ASSUME NEW i \in 1..Study!N
                 PROVE  /\ tr[i] \in Nat /\ h[i] \in Nat /\ l[i] \in Nat
                        /\ h[i] <= tr[i] /\ l[i] <= tr[i]
      OBVIOUS
    <2>1. Study!Prev(i) \in 1..Study!N
      BY <1>1, PrevIs
    <2>2. \A j \in 1..Study!N : /\ candles[j].high \in Nat /\ candles[j].low \in Nat /\ candles[j].close \in Nat
                          /\ candles[j].low <= candles[j].close /\ candles[j].close <= candles[j].high
      BY BarsAre
    <2> DEFINE hi == candles[i].high
               lo == candles[i].low
               top == prev(i).high
               bottom == prev(i).low
               c == prev(i).close
    <2>3. /\ hi \in Nat /\ lo \in Nat /\ top \in Nat /\ bottom \in Nat /\ c \in Nat
          /\ bottom <= c /\ c <= top
      BY <2>1, <2>2
    <2>4. lo <= hi
      <3>1. /\ candles[i].high \in Nat /\ candles[i].low \in Nat /\ candles[i].close \in Nat
            /\ candles[i].low <= candles[i].close /\ candles[i].close <= candles[i].high
        BY <2>2
      <3> QED
        BY <3>1
    <2>5. /\ tr[i] = Precision * TrueRange(hi, lo, c)
          /\ h[i] = Precision * Move(hi - top, bottom - lo)
          /\ l[i] = Precision * Move(bottom - lo, hi - top)
      BY DEF TrueRange, Move
    <2> HIDE DEF hi, lo, top, bottom, c, tr, h, l
    <2>6. /\ Precision * TrueRange(hi, lo, c) \in Nat
          /\ Precision * Move(hi - top, bottom - lo) \in Nat
          /\ Precision * Move(bottom - lo, hi - top) \in Nat
          /\ Precision * Move(hi - top, bottom - lo) <= Precision * TrueRange(hi, lo, c)
          /\ Precision * Move(bottom - lo, hi - top) <= Precision * TrueRange(hi, lo, c)
      BY <1>1, <2>3, <2>4, MovesIn
    <2> QED
      BY <2>5, <2>6
  <1> HIDE DEF tr, h, l
  <1>4. ASSUME NEW i \in P..Study!N
        PROVE  /\ mtr[i] \in Nat /\ Damping(h)[i] \in Nat /\ Damping(l)[i] \in Nat
               /\ Damping(h)[i] <= mtr[i] /\ Damping(l)[i] <= mtr[i]
    <2>1. /\ \A k \in 1..Study!N : tr[k] \in Nat
          /\ \A k \in 1..Study!N : h[k] \in Nat
          /\ \A k \in 1..Study!N : l[k] \in Nat
      BY <1>3
    <2>2. Damping(tr)[i] \in Nat
      BY <1>1, <2>1, DampingIs
    <2>3. Damping(h)[i] \in Nat
      BY <1>1, <2>1, DampingIs
    <2>4. Damping(l)[i] \in Nat
      BY <1>1, <2>1, DampingIs
    <2>5. \A k \in 1..Study!N : h[k] \in Nat /\ tr[k] \in Nat /\ h[k] <= tr[k]
      BY <1>3
    <2>6. \A k \in 1..Study!N : l[k] \in Nat /\ tr[k] \in Nat /\ l[k] <= tr[k]
      BY <1>3
    <2>7. Damping(h)[i] <= Damping(tr)[i]
      BY <1>1, <2>5, DampingBelow
    <2>8. Damping(l)[i] <= Damping(tr)[i]
      BY <1>1, <2>6, DampingBelow
    <2> QED
      BY <2>2, <2>3, <2>4, <2>7, <2>8
  <1> HIDE DEF mtr
  <1>6. \A i \in P..Study!N : pdi[i] \in 0..100 /\ mdi[i] \in 0..100
    BY <1>4, ShareIs
  <1>7. DOMAIN pdi = P..Study!N /\ DOMAIN mdi = P..Study!N
    OBVIOUS
  <1> HIDE DEF pdi, mdi
  <1>8. \A i \in P..Study!N : dx[i] \in 0..100
    <2> SUFFICES ASSUME NEW i \in P..Study!N
                 PROVE  Study!Percent(Study!Abs(mdi[i] - pdi[i]), mdi[i] + pdi[i]) \in 0..100
      OBVIOUS
    <2> DEFINE x == mdi[i]
               y == pdi[i]
    <2>1. x \in 0..100 /\ y \in 0..100
      BY <1>6
    <2> HIDE DEF x, y
    <2>2. x - y \in Int /\ x + y \in Nat /\ x - y <= x + y /\ -(x + y) <= x - y
      BY <2>1
    <2>3. Study!Abs(x - y) <= x + y /\ Study!Abs(x - y) \in Nat
      BY <2>2, AbsIs, AbsWithin
    <2> QED
      BY <2>2, <2>3, ShareIs DEF x, y
  <1> HIDE DEF dx
  <1>5. Study!Within(pdi, 0, 100) /\ Study!Within(mdi, 0, 100)
    BY <1>6, <1>7, WithinOf
  <1>9. /\ first \in Nat \ {0} /\ P + P - 1 = first /\ first >= P
    BY <1>1
  <1> DEFINE begin == Study!Total(dx, P, first) \div P
  <1>10. CASE first > Study!N
    <2>1. adx = <<>> /\ DOMAIN adx = {} /\ (2 * P + Q - 2)..Study!N = {}
      BY <1>1, <1>9, <1>10
    <2>2. DOMAIN adxr = (2 * P + Q - 2)..Study!N
      OBVIOUS
    <2>3. Study!Within(adx, 0, 100) /\ Study!Within(adxr, 0, 100)
      BY <2>1, <2>2 DEF Study!Within
    <2> HIDE DEF adx, adxr
    <2> QED
      BY <1>2, <1>5, <2>3
  <1>11. CASE ~(first > Study!N)
    <2>1. first <= Study!N /\ first \in Int /\ 0 \in Int /\ 100 \in Int /\ P \in Int
      BY <1>1, <1>9, <1>11
    <2>2. begin \in 0..100
      <3>1. \A k \in P..(P + P - 1) : dx[k] \in 0..100
        BY <1>1, <1>8, <1>9, <2>1
      <3> HIDE DEF first
      <3>2. Study!Total(dx, P, P + P - 1) \div P \in 0..100
        BY <1>1, <2>1, <3>1, MeanOf
      <3> QED
        BY <1>9, <3>2
    <2>3. \A k \in first..Study!N : dx[k] \in 0..100
      BY <1>1, <1>8, <1>9
    <2>4. 1 \in Nat /\ P - 1 \in Nat /\ 1 + (P - 1) > 0
      BY <1>1
    <2>5. adx = Study!Carried(dx, first, begin, 1, P - 1)
      BY <1>11
    <2>6. \A i \in (2 * P + Q - 2)..Study!N : i \in first..Study!N /\ i - Q + 1 \in first..Study!N
      BY <1>1, <1>9
    <2>7. DOMAIN adxr = (2 * P + Q - 2)..Study!N
      OBVIOUS
    <2>8. \A i \in (2 * P + Q - 2)..Study!N : adxr[i] = (adx[i - Q + 1] + adx[i]) \div 2
      OBVIOUS
    <2> HIDE DEF first, begin, adx, adxr
    <2>9. adx \in [first..Study!N -> 0..100]
      BY <1>1, <2>1, <2>2, <2>3, <2>4, <2>5, CarriedIs
    <2>10. ASSUME NEW a \in 0..100, NEW b \in 0..100 PROVE (a + b) \div 2 \in 0..100
      BY <2>10
    <2>11. Study!Within(adxr, 0, 100)
      <3>1. \A i \in (2 * P + Q - 2)..Study!N : adxr[i] \in 0..100
        BY ONLY <2>6, <2>8, <2>9, <2>10
      <3> QED
        BY <2>7, <3>1, WithinOf
    <2>12. Study!Within(adx, 0, 100)
      <3>1. DOMAIN adx = first..Study!N /\ \A i \in first..Study!N : adx[i] \in 0..100
        BY <2>9
      <3> QED
        BY <3>1, WithinOf
    <2> QED
      BY <1>2, <1>5, <2>11, <2>12 DEF adx, adxr
  <1> QED
    BY <1>10, <1>11

LEMMA ScalesHold ==
    ASSUME candles \in Seq(BarValues)
    PROVE  Study!WithinScale
  <1> SUFFICES ASSUME Study!N > 0 PROVE Study!WithinScale
    BY DEF Study!WithinScale
  <1> DEFINE low == Study!Min({candles[i].close : i \in 1..Study!N})
             high == Study!Max({candles[i].close : i \in 1..Study!N})
  <1>1. Prices(low, high) /\ low \in Nat /\ high \in Nat /\ low <= high
    BY PricesAre DEF Prices
  <1>2. P \in Nat \ {0} /\ Study!N \in Nat
    BY BarsAre, ParamsAre
  <1> DEFINE f == Study!ExponentialMovingAverage(P)
  <1>3. Study!Within(f, Precision * low, Precision * high)
    <2> DEFINE l == Precision * low
               h == Precision * high
    <2>1. DOMAIN f = P..Study!N /\ \A i \in P..Study!N : f[i] \in l..h
      <3> HIDE DEF low, high
      <3> QED
        BY <1>1, <1>2, AverageIn
    <2>2. l \in Int /\ h \in Int
      <3> HIDE DEF low, high
      <3> QED
        BY <1>1, ParamsAre
    <2> HIDE DEF f, l, h
    <2>3. Study!Within(f, l, h)
      BY <2>1, <2>2 DEF Study!Within
    <2> QED
      BY <2>3 DEF l, h
  <1> HIDE DEF low, high, f
  <1>4. Q <= P + 1 => Study!Within(Study!SimpleMovingAverage, Precision * low, Precision * high)
    BY <1>1, SimpleIn
  <1>5. Study!Within(Study!BullAndBearIndex, Precision * low, Precision * high)
    BY <1>1, BullAndBearIn
  <1>6. /\ Study!Within(Study!Macd.dif, Precision * low - Precision * high, Precision * high - Precision * low)
        /\ Study!Within(Study!Macd.dea, Precision * low - Precision * high, Precision * high - Precision * low)
    BY <1>1, MacdIn
  <1>7. (\A j \in 1..Study!N : Study!Traded(candles[j])) =>
           \A i \in DOMAIN Study!AveragePrice :
              /\ Study!Lowest(Study!N, Study!N) * Study!AveragePrice[i][2] <= Study!AveragePrice[i][1]
              /\ Study!AveragePrice[i][1] <= Study!Highest(Study!N, Study!N) * Study!AveragePrice[i][2]
    BY AveragePriceIn
  <1>8. Study!Within(Study!PsychologicalLine.psy, 0, 100)
    BY PsychologicalSum
  <1>9. \A i \in DOMAIN Study!VolumeRatio.vr : Study!VolumeRatio.vr[i] >= 0
    BY RatioOfVolumes
  <1>10. \A i \in DOMAIN Study!BollingerBands :
            Study!Square(P * candles[i].close - Study!BollingerBands[i].mid) <= Study!BollingerBands[i].square
    BY BandsIn
  <1>11. \A i \in DOMAIN Study!CommodityChannelIndex :
            Study!Abs(Study!CommodityChannelIndex[i][1]) <= P * Study!CommodityChannelIndex[i][2]
    BY ChannelIn
  <1>12. \A i \in DOMAIN Study!AwesomeOscillator :
            Study!Abs(Study!AwesomeOscillator[i]) <= 2 * P * Q * (Study!Highest(Study!N, Study!N) - Study!Lowest(Study!N, Study!N))
    BY AwesomeIn
  <1>13. \A i \in DOMAIN Study!Brar : Study!Brar[i].ar >= 0
    BY BrarIn
  <1> QED
    BY <1>3, <1>4, <1>5, <1>6, <1>7, <1>8, <1>9, <1>10, <1>11, <1>12, <1>13,
       StochIn, WilliamsIn, DirectionIn, RsiIn DEF Study!WithinScale, low, high, f

-----------------------------------------------------------------------------
(* The indicators of every list of bars.                                   *)

CandlesTyped == part = "studies" => candles \in Seq(BarValues)

\* However the list has grown, its bars are bars.
LEMMA CandlesStay == Spec => []CandlesTyped
  <1>1. Init => CandlesTyped
    BY DEF Init, Study!Init, CandlesTyped
  <1>2. CandlesTyped /\ [Next]_vars => CandlesTyped'
    <2> SUFFICES ASSUME CandlesTyped, [Next]_vars, part' = "studies"
                 PROVE  candles' \in Seq(BarValues)
      BY DEF CandlesTyped
    <2>1. part = "studies" /\ (Study!Next \/ UNCHANGED candles)
      BY DEF Next, InData, InTasks, InLayout, InPro, InStudy, vars
    <2> QED
      BY <2>1 DEF CandlesTyped, Study!Next, Study!AddBar
  <1> QED
    BY <1>1, <1>2, PTL DEF Spec

\* Every running sum is the sum of its window, for every list of bars and all
\* windows, however the code takes the bar that leaves out again.
THEOREM SumsExact == Spec => []SumsAreWindows
  <1>1. CandlesTyped => SumsAreWindows
    BY SumsHold DEF CandlesTyped, SumsAreWindows
  <1> QED
    BY <1>1, CandlesStay, PTL

\* Averages stay among the prices they average and oscillators within their
\* scale, for every list of bars, all windows and every precision.
THEOREM ScalesHeld == Spec => []WithinScale
  <1>1. CandlesTyped => WithinScale
    BY ScalesHold DEF CandlesTyped, WithinScale
  <1> QED
    BY <1>1, CandlesStay, PTL

\* The stop is on its side of every bar, also where it turns around, and the
\* volume trends go with the price, for every list of bars and precision.
THEOREM TrendsFollowed == Spec => []TrendsFollow
  <1>1. CandlesTyped => TrendsFollow
    BY TrendsHold DEF CandlesTyped, TrendsFollow
  <1> QED
    BY <1>1, CandlesStay, PTL

\* All three, as the run checks them.
THEOREM IndicatorsAreSound == Spec => []IndicatorsSound
  <1>1. SumsAreWindows /\ WithinScale /\ TrendsFollow => IndicatorsSound
    BY DEF IndicatorsSound
  <1> QED
    BY <1>1, SumsExact, ScalesHeld, TrendsFollowed, PTL
=============================================================================
