----------------------------- MODULE Indicators -----------------------------
(***************************************************************************)
(* What the chart's built-in indicators compute from the list of bars, and *)
(* how: one pass that keeps running sums, takes the bar that leaves a      *)
(* window out again and carries averages on.                               *)
(*                                                                         *)
(* Prices and volumes are whole numbers. Where the code divides and goes   *)
(* on computing, the quotient is a whole number of 1/Unit, rounded down; a *)
(* quotient that is the result is a pair. Indexes start at 1. A result is  *)
(* a function from the indexes that have one.                              *)
(***************************************************************************)
EXTENDS Integers, Sequences, FiniteSetsExt

CONSTANTS
    BarValues,   \* the bars: open, high, low, close, volume, turnover
    P,           \* calcParams[0]: bars of the first window
    Q,           \* calcParams[1]: bars of the second
    R,           \* calcParams[2]: bars of the third
    Unit,        \* precision of a carried quotient
    MaxBars      \* bound: bars in the list

ParamsAssumption == {P, Q, R, Unit} \subseteq Nat \ {0}
BarsAssumption ==
    /\ BarValues \subseteq [open : Nat, high : Nat, low : Nat, close : Nat, volume : Nat,
                             turnover : Nat]
    /\ \A b \in BarValues : b.low <= b.open /\ b.open <= b.high
                            /\ b.low <= b.close /\ b.close <= b.high

VARIABLE bars

Init == bars = <<>>

\* Every change of the list computes the indicators anew over all of it.
AddBar == Len(bars) < MaxBars /\ \E b \in BarValues : bars' = Append(bars, b)

Next == AddBar
Spec == Init /\ [][Next]_bars

-----------------------------------------------------------------------------
(* Helpers: values by bar, and the two ways of carrying on.                *)

N == Len(bars)
Square(x) == x * x
Abs(x) == IF x < 0 THEN -x ELSE x
Larger(a, b) == IF a > b THEN a ELSE b
Smaller(a, b) == IF a < b THEN a ELSE b

\* The bar before, or the bar itself for the first one.
Prev(i) == IF i = 1 THEN 1 ELSE i - 1
Close   == [i \in 1..N |-> bars[i].close]
Volume  == [i \in 1..N |-> bars[i].volume]
Change(i) == bars[i].close - bars[Prev(i)].close

\* The sum of the values from one bar to another.
Total(v, from, to) ==
    LET sum[k \in (from - 1)..to] == IF k < from THEN 0 ELSE sum[k - 1] + v[k]
    IN  sum[to]

\* Seeded mutation: what leaves the window is one bar too old.
RollingLate(add, drop, p, first) ==
    LET sum[i \in (first - 1)..N] ==
            IF i < first THEN 0
            ELSE sum[i - 1] + add[i] - (IF i - p >= first THEN drop[i - p] ELSE 0)
    IN  [i \in (first + p - 1)..N |-> sum[i - 1] + add[i]]

\* The running sum at every bar from `first` on that fills a window of p, as
\* it is before the bar that leaves is taken out with its own expression.
Rolling(add, drop, p, first) ==
    LET sum[i \in (first - 1)..N] ==
            IF i < first THEN 0
            ELSE sum[i - 1] + add[i]
                   - (IF i - p + 1 >= first THEN drop[i - p + 1] ELSE 0)
    IN  [i \in (first + p - 1)..N |-> sum[i - 1] + add[i]]

Window(v, p) == Rolling(v, v, p, 1)

\* An average carried on from a first value at `first`: weight w of w + rest.
Carried(v, first, start, w, rest) ==
    LET avg[i \in first..N] ==
            IF i = first THEN start ELSE (w * v[i] + rest * avg[i - 1]) \div (w + rest)
    IN  avg

\* The exponential average of p: 2 parts new, p - 1 parts old, started with
\* the mean of the first p values from `first` on.
Ema(v, p, first) ==
    IF first + p - 1 > N THEN <<>>
    ELSE Carried(v, first + p - 1, Total(v, first, first + p - 1) \div p, 2, p - 1)

Scaled(v) == [i \in DOMAIN v |-> Unit * v[i]]

\* A percentage, 0 when there is nothing to divide by.
Percent(a, b) == IF b = 0 THEN 0 ELSE (100 * a) \div b

Highest(i, p) == Max({bars[j].high : j \in (i - p + 1)..i})
Lowest(i, p)  == Min({bars[j].low : j \in (i - p + 1)..i})

-----------------------------------------------------------------------------
(* Averages and bands.                                                     *)

\* MA, VOL: the sums of the window; the result is that over p.
MovingAverage(p) == Window(Close, p)
VolumeAverage(p) == Window(Volume, p)

\* AVP: all turnover over all volume. A turnover is what the loader says, 0 if
\* it says nothing.
AveragePrice ==
    LET turnover[i \in 0..N] == IF i = 0 THEN 0 ELSE turnover[i - 1] + bars[i].turnover
        volume[i \in 0..N] == IF i = 0 THEN 0 ELSE volume[i - 1] + bars[i].volume
    IN  [i \in {i \in 1..N : volume[i] # 0} |-> <<turnover[i], volume[i]>>]

ExponentialMovingAverage(p) == Ema(Scaled(Close), p, 1)

\* SMA: Q parts new, P - Q + 1 parts old, none of which should be negative.
SimpleMovingAverage ==
    IF P > N THEN <<>>
    ELSE Carried(Scaled(Close), P, (Unit * Window(Close, P)[P]) \div P, Q, P - Q + 1)

\* BOLL: p times the middle, and the square of the distance times p ^ 3.
BollingerBands ==
    LET mid == Window(Close, P)
    IN  [i \in DOMAIN mid |->
            [mid |-> mid[i],
             square |-> Total([j \in 1..N |-> Square(P * bars[j].close - mid[i])],
                              i - P + 1, i)]]

\* BBI: a quarter of the sum of the averages of four windows, in 1/Unit.
BullAndBearIndex ==
    LET mean(i, p) == (Unit * Window(Close, p)[i]) \div p
    IN  [i \in Larger(Q, P + R)..N |->
            (mean(i, P) + mean(i, Q) + mean(i, R) + mean(i, P + R)) \div 4]

\* DMA: difference of two averages, times P * Q, and the sum of its window.
DifferentOfMovingAverage ==
    LET one == Window(Close, P)
        two == Window(Close, Q)
        dma == [i \in Larger(P, Q)..N |-> one[i] * Q - two[i] * P]
    IN  [dma |-> dma, ama |-> Rolling(dma, dma, R, Larger(P, Q))]

\* MACD: difference of two exponential averages, and its own.
Macd ==
    LET short == ExponentialMovingAverage(P)
        long == ExponentialMovingAverage(Q)
        dif == [i \in Larger(P, Q)..N |-> short[i] - long[i]]
        dea == Ema(dif, R, Larger(P, Q))
    IN  [dif |-> dif, dea |-> dea,
         macd |-> [i \in DOMAIN dea |-> 2 * (dif[i] - dea[i])]]

\* TRIX: the exponential average of that of that, and its change in percent,
\* 0 at first; and the sum of the last Q changes.
Trix ==
    LET one == Ema(Scaled(Close), P, 1)
        two == Ema(one, P, P)
        tr == Ema(two, P, 2 * P - 1)
        start == 3 * P - 2
        trix == [i \in start..N |->
                    IF i = start THEN 0 ELSE Percent(tr[i] - tr[i - 1], tr[i - 1])]
    IN  [trix |-> trix, maTrix |-> Rolling(trix, trix, Q, start)]

-----------------------------------------------------------------------------
(* Oscillators.                                                            *)

\* AO: difference of the averages of twice the middles, times 2 * P * Q.
AwesomeOscillator ==
    LET middle == [i \in 1..N |-> bars[i].low + bars[i].high]
        short == Window(middle, P)
        long == Window(middle, Q)
    IN  [i \in Larger(P, Q)..N |-> short[i] * Q - long[i] * P]

\* BIAS: how far the price is from the mean, over the mean.
Bias ==
    LET sum == Window(Close, P)
    IN  [i \in DOMAIN sum |-> <<P * bars[i].close - sum[i], sum[i]>>]

\* BRAR: each sum takes a bar out with the close before it, or its own if
\* there is none.
BrarSums ==
    LET over(i)  == bars[i].high - bars[Prev(i)].close
        under(i) == bars[Prev(i)].close - bars[i].low
        ago(i)   == bars[IF i - 1 \in 1..N THEN i - 1 ELSE i].close
    IN  [hcy |-> Rolling([i \in 1..N |-> over(i)],
                         [i \in 1..N |-> bars[i].high - ago(i)], P, 1),
         cyl |-> Rolling([i \in 1..N |-> under(i)],
                         [i \in 1..N |-> ago(i) - bars[i].low], P, 1),
         ho  |-> Window([i \in 1..N |-> bars[i].high - bars[i].open], P),
         ol  |-> Window([i \in 1..N |-> bars[i].open - bars[i].low], P)]

Brar == LET s == BrarSums
        IN  [i \in DOMAIN s.ho |-> [br |-> Percent(s.hcy[i], s.cyl[i]),
                                    ar |-> Percent(s.ho[i], s.ol[i])]]

\* CCI: three times the price less its mean, over the mean distance, and times
\* P each: the result is this over 0.015.
CommodityChannelIndex ==
    LET tp == [i \in 1..N |-> bars[i].high + bars[i].low + bars[i].close]
        sum == Window(tp, P)
        md(i) == Total([j \in 1..N |-> Abs(P * tp[j] - sum[i])], i - P + 1, i)
    IN  [i \in DOMAIN sum |->
            IF md(i) = 0 THEN <<0, 1>> ELSE <<P * (P * tp[i] - sum[i]), md(i)>>]

\* CR and one of its averages, moved by ceil(Q / 2.5 + 1) bars.
CurrentRatio ==
    LET mid4(i) == LET b == bars[Prev(i)] IN b.high + b.close + b.low + b.open
        cr == [i \in P..N |-> Percent(Larger(0, 4 * bars[i].high - mid4(i)),
                                      Larger(0, mid4(i) - 4 * bars[i].low))]
        sum == Rolling(cr, cr, Q, P)
        forward == -((-(2 * Q + 5)) \div 5)
    IN  [cr |-> cr, sum |-> sum,
         ma |-> [i \in (P + Q + forward - 1)..N |-> sum[i - forward]]]

\* DMI: the ranges and the moves of the window, carried on from its sums.
DirectionalMovementIndex ==
    LET prev(i) == bars[Prev(i)]
        hhy(i) == bars[i].high - prev(i).high
        lyl(i) == prev(i).low - bars[i].low
        tr == [i \in 1..N |-> Unit * Max({bars[i].high - bars[i].low,
                  Abs(bars[i].high - prev(i).close), Abs(prev(i).close - bars[i].low)})]
        h == [i \in 1..N |-> Unit * (IF hhy(i) > 0 /\ hhy(i) > lyl(i) THEN hhy(i) ELSE 0)]
        l == [i \in 1..N |-> Unit * (IF lyl(i) > 0 /\ lyl(i) > hhy(i) THEN lyl(i) ELSE 0)]
        Smooth(v) == LET s[i \in P..N] ==
                             IF i = P THEN Total(v, 1, P)
                             ELSE s[i - 1] - s[i - 1] \div P + v[i]
                     IN  s
        mtr == Smooth(tr)
        pdi == [i \in P..N |-> Percent(Smooth(h)[i], mtr[i])]
        mdi == [i \in P..N |-> Percent(Smooth(l)[i], mtr[i])]
        dx == [i \in P..N |-> Percent(Abs(mdi[i] - pdi[i]), mdi[i] + pdi[i])]
        first == 2 * P - 1
        adx == IF first > N THEN <<>>
               ELSE Carried(dx, first, Total(dx, P, first) \div P, 1, P - 1)
    IN  [pdi |-> pdi, mdi |-> mdi, adx |-> adx,
         adxr |-> [i \in (2 * P + Q - 2)..N |-> (adx[i - Q + 1] + adx[i]) \div 2]]

\* EMV: the way the middle moved per volume and range, in 1/Unit, and the
\* sum of the last P.
EaseOfMovement ==
    LET emv == [i \in 2..N |->
            LET b == bars[i] prev == bars[i - 1]
            IN  IF b.volume = 0 \/ b.high = b.low THEN 0
                ELSE (Unit * (b.high + b.low - prev.high - prev.low) * (b.high - b.low))
                         \div (2 * b.volume)]
    IN  [emv |-> emv, maEmv |-> Rolling(emv, emv, P, 2)]

\* MTM: the change over P bars, and the sum of the last Q.
Momentum ==
    LET mtm == [i \in (P + 1)..N |-> bars[i].close - bars[i - P].close]
    IN  [mtm |-> mtm, maMtm |-> Rolling(mtm, mtm, Q, P + 1)]

\* OBV: the volume with the sign of the change, added up.
OnBalanceVolume ==
    LET sign(i) == IF Change(i) > 0 THEN 1 ELSE IF Change(i) < 0 THEN -1 ELSE 0
        obv[i \in 1..N] == (IF i = 1 THEN 0 ELSE obv[i - 1]) + sign(i) * bars[i].volume
    IN  [obv |-> obv, maObv |-> Window(obv, P)]

\* PVT: the change over the close before times the volume, added up, in 1/Unit.
PriceAndVolumeTrend ==
    LET total(i) == bars[Prev(i)].close * bars[i].volume
        pvt[i \in 1..N] == (IF i = 1 THEN 0 ELSE pvt[i - 1])
                              + (IF total(i) = 0 THEN 0 ELSE (Unit * Change(i)) \div total(i))
    IN  pvt

\* PSY: the share of rising bars, and the sum of the last Q.
PsychologicalLine ==
    LET up == [i \in 1..N |-> IF Change(i) > 0 THEN 1 ELSE 0]
        count == Window(up, P)
        psy == [i \in P..N |-> Percent(count[i], P)]
    IN  [psy |-> psy, maPsy |-> Rolling(psy, psy, Q, P)]

\* ROC: the change over P bars, over P - 1 for the first one.
RateOfChange ==
    LET ago(i) == bars[IF i > P THEN i - P ELSE i - P + 1].close
        roc == [i \in P..N |-> Percent(bars[i].close - ago(i), ago(i))]
    IN  [roc |-> roc, maRoc |-> Rolling(roc, roc, Q, P)]

\* RSI: the gains and the losses of the window; a gain is taken out again by
\* the change of the bar that leaves, which for the first one is no change.
RsiSums ==
    LET gain == [i \in 1..N |-> Larger(0, Change(i))]
        loss == [i \in 1..N |-> Larger(0, -Change(i))]
        agoChange(i) == bars[i].close - bars[IF i - 1 \in 1..N THEN i - 1 ELSE i].close
    IN  [gain |-> Rolling(gain, [i \in 1..N |-> Larger(0, agoChange(i))], P, 1),
         loss |-> Rolling(loss, [i \in 1..N |-> Larger(0, -agoChange(i))], P, 1)]

\* No number while the price has never risen and a loss is in the window, and
\* 0 when the window has no loss.
NotANumber == -1
Rsi ==
    LET s == RsiSums
        risen(i) == \E j \in 1..i : Change(j) > 0
    IN  [i \in DOMAIN s.gain |->
            IF s.loss[i] = 0 THEN 0
            ELSE IF ~risen(i) THEN NotANumber
            ELSE Percent(s.gain[i], s.gain[i] + s.loss[i])]

\* KDJ: where the close is between the lowest and the highest, carried on.
Stoch ==
    LET rsv(i) == LET span == Highest(i, P) - Lowest(i, P)
                  IN  ((bars[i].close - Lowest(i, P)) * 100 * Unit)
                          \div (IF span = 0 THEN 1 ELSE span)
        k[i \in (P - 1)..N] == IF i < P THEN 50 * Unit
                               ELSE ((Q - 1) * k[i - 1] + rsv(i)) \div Q
        d[i \in (P - 1)..N] == IF i < P THEN 50 * Unit
                               ELSE ((R - 1) * d[i - 1] + k[i]) \div R
    IN  [k |-> [i \in P..N |-> k[i]], d |-> [i \in P..N |-> d[i]],
         j |-> [i \in P..N |-> 3 * k[i] - 2 * d[i]]]

\* VR: the volumes of rising, falling and unchanged bars of the window.
VolumeRatioSums ==
    LET Of(i, c) == IF c THEN bars[i].volume ELSE 0
        ago(i) == bars[i].close - bars[IF i - 1 \in 1..N THEN i - 1 ELSE i].close
    IN  [up   |-> Rolling([i \in 1..N |-> Of(i, Change(i) > 0)],
                          [i \in 1..N |-> Of(i, ago(i) > 0)], P, 1),
         down |-> Rolling([i \in 1..N |-> Of(i, Change(i) < 0)],
                          [i \in 1..N |-> Of(i, ago(i) < 0)], P, 1),
         same |-> Rolling([i \in 1..N |-> Of(i, Change(i) = 0)],
                          [i \in 1..N |-> Of(i, ago(i) = 0)], P, 1)]

VolumeRatio ==
    LET s == VolumeRatioSums
        vr == [i \in DOMAIN s.up |-> Percent(2 * s.up[i] + s.same[i],
                                             2 * s.down[i] + s.same[i])]
    IN  [vr |-> vr, maVr |-> Rolling(vr, vr, Q, P)]

\* WR: how far the close is below the highest, as a part of the range.
WilliamsR ==
    [i \in P..N |-> Percent(bars[i].close - Highest(i, P), Highest(i, P) - Lowest(i, P))]

-----------------------------------------------------------------------------
(* SAR, a state machine over the bars.                                     *)

\* The extreme of a run: the bar's own where there is none or it is beyond it.
Beyond(s, i) ==
    \/ s.ep = -100
    \/ IF s.up THEN s.ep < Unit * bars[i].high ELSE s.ep > Unit * bars[i].low

Extreme(s, i) ==
    IF Beyond(s, i) THEN Unit * (IF s.up THEN bars[i].high ELSE bars[i].low) ELSE s.ep

\* One bar: the extreme and the factor, the stop moved towards it, and either
\* turned around at the extreme or kept beyond the last two bars. Prices are
\* in 1/Unit, factors in hundredths; an extreme of -100 is none.
SarStep(s, i, start, step, max) ==
    LET ep == Extreme(s, i)
        af == IF Beyond(s, i) THEN Smaller(s.af + step, max) ELSE s.af
        sar == s.sar + (af * (ep - s.sar)) \div 100
        lowMin == Unit * Smaller(bars[Prev(i)].low, bars[i].low)
        highMax == Unit * Larger(bars[Prev(i)].high, bars[i].high)
        through == IF s.up THEN sar > Unit * bars[i].low ELSE sar < Unit * bars[i].high
    IN  IF through
        THEN [up |-> ~s.up, sar |-> ep, af |-> IF s.up THEN start ELSE 0, ep |-> -100]
        ELSE [up |-> s.up, sar |-> IF s.up THEN Smaller(sar, lowMin) ELSE Larger(sar, highMax),
              af |-> af, ep |-> ep]

StopAndReverse(start, step, max) ==
    LET s[i \in 0..N] ==
            IF i = 0 THEN [up |-> FALSE, sar |-> 0, af |-> start, ep |-> -100]
            ELSE SarStep(s[i - 1], i, start, step, max)
    IN  [i \in 1..N |-> s[i]]

-----------------------------------------------------------------------------
(* Properties.                                                             *)

Exact(sums, v, p) == \A i \in DOMAIN sums : sums[i] = Total(v, i - p + 1, i)

\* Every running sum is the sum of its window at every bar, also where the bar
\* that leaves is taken out by an expression of its own, or where the window
\* begins with the first result and not with the first bar.
SumsAreWindows ==
    /\ Exact(MovingAverage(P), Close, P) /\ Exact(VolumeAverage(Q), Volume, Q)
    /\ Exact([i \in DOMAIN Bias |-> Bias[i][2]], Close, P)
    /\ Exact(DifferentOfMovingAverage.ama, DifferentOfMovingAverage.dma, R)
    /\ Exact(Trix.maTrix, Trix.trix, Q)
    /\ Exact(BrarSums.hcy, [i \in 1..N |-> bars[i].high - bars[Prev(i)].close], P)
    /\ Exact(BrarSums.cyl, [i \in 1..N |-> bars[Prev(i)].close - bars[i].low], P)
    /\ Exact(CurrentRatio.sum, CurrentRatio.cr, Q)
    /\ Exact(EaseOfMovement.maEmv, EaseOfMovement.emv, P)
    /\ Exact(Momentum.maMtm, Momentum.mtm, Q)
    /\ Exact(OnBalanceVolume.maObv, OnBalanceVolume.obv, P)
    /\ Exact(PsychologicalLine.maPsy, PsychologicalLine.psy, Q)
    /\ Exact(RateOfChange.maRoc, RateOfChange.roc, Q)
    /\ Exact(RsiSums.gain, [i \in 1..N |-> Larger(0, Change(i))], P)
    /\ Exact(RsiSums.loss, [i \in 1..N |-> Larger(0, -Change(i))], P)
    /\ Exact(VolumeRatio.maVr, VolumeRatio.vr, Q)
    /\ \A i \in DOMAIN VolumeRatioSums.up :
          VolumeRatioSums.up[i] + VolumeRatioSums.down[i] + VolumeRatioSums.same[i]
              = Total(Volume, i - P + 1, i)

Within(f, low, high) == \A i \in DOMAIN f : low <= f[i] /\ f[i] <= high

\* A turnover that is the price of the bar's volume, at prices of the bar.
Traded(b) == b.low * b.volume <= b.turnover /\ b.turnover <= b.high * b.volume

\* An average never leaves the range of the prices it averages, however long
\* it is carried on, and an oscillator never leaves its scale. The average
\* price is one only if the loader's turnovers are prices of volumes.
WithinScale ==
    N > 0 =>
    LET low == Unit * Min({bars[i].close : i \in 1..N})
        high == Unit * Max({bars[i].close : i \in 1..N})
    IN  /\ Within(ExponentialMovingAverage(P), low, high)
        /\ Q <= P + 1 => Within(SimpleMovingAverage, low, high)
        /\ Within(BullAndBearIndex, low, high)
        /\ Within(PsychologicalLine.psy, 0, 100)
        /\ Within(Stoch.k, 0, 100 * Unit) /\ Within(Stoch.d, 0, 100 * Unit)
        /\ Within(WilliamsR, -100, 0)
        /\ Within(DirectionalMovementIndex.pdi, 0, 100)
        /\ Within(DirectionalMovementIndex.mdi, 0, 100)
        /\ Within(DirectionalMovementIndex.adx, 0, 100)
        /\ Within(DirectionalMovementIndex.adxr, 0, 100)
        /\ Within(Rsi, NotANumber, 100)
        /\ Within(Macd.dif, low - high, high - low) /\ Within(Macd.dea, low - high, high - low)
        /\ (\A j \in 1..N : Traded(bars[j])) =>
              \A i \in DOMAIN AveragePrice :
                  LET a == AveragePrice[i]
                  IN  Lowest(N, N) * a[2] <= a[1] /\ a[1] <= Highest(N, N) * a[2]
        /\ \A i \in DOMAIN BollingerBands :
              LET b == BollingerBands[i] IN Square(P * bars[i].close - b.mid) <= b.square
        /\ \A i \in DOMAIN CommodityChannelIndex :
              LET c == CommodityChannelIndex[i] IN Abs(c[1]) <= P * c[2]
        /\ \A i \in DOMAIN AwesomeOscillator :
              Abs(AwesomeOscillator[i]) <= 2 * P * Q * (Highest(N, N) - Lowest(N, N))
        /\ \A i \in DOMAIN Brar : Brar[i].ar >= 0
        /\ \A i \in DOMAIN VolumeRatio.vr : VolumeRatio.vr[i] >= 0

\* A volume trend goes with the price: it never falls on a rise.
FollowsPrice(v) ==
    \A i \in 2..N : /\ Change(i) >= 0 => v[i] >= v[i - 1]
                    /\ Change(i) <= 0 => v[i] <= v[i - 1]

\* The stop is below every bar of a rise and above every bar of a fall, also
\* on the bar where it turns around.
SarOnItsSide ==
    LET s == StopAndReverse(50, 50, 100)
    IN  \A i \in 1..N : IF s[i].up THEN s[i].sar <= Unit * bars[i].low
                                   ELSE s[i].sar >= Unit * bars[i].high

\* The stop is on its side of every bar, volume trends go with the price.
TrendsFollow ==
    SarOnItsSide /\ FollowsPrice(OnBalanceVolume.obv) /\ FollowsPrice(PriceAndVolumeTrend)
=============================================================================
