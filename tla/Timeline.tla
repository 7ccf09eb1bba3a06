------------------------------ MODULE Timeline ------------------------------
(***************************************************************************)
(* Times and indexes of the chart's bars: dataIndexToTimestamp and its     *)
(* inverse inside the data, where bars may be missing, and outside it,     *)
(* where the period says how far apart bars are, with the calendar's       *)
(* months and years of different lengths.                                  *)
(*                                                                         *)
(* A time is a number of days. The calendar repeats after a cycle of       *)
(* years: Starts says on which day of the cycle each of its months begins, *)
(* as the 400 years of the Gregorian calendar would. The first index is 1  *)
(* here and 0 in the code.                                                 *)
(***************************************************************************)
EXTENDS Integers, Sequences

CONSTANTS
    Months,         \* months of a year
    Years,          \* years of a cycle
    Days,           \* days of a cycle
    Starts,         \* first day of each month of a cycle, counted from 0
    Spans,          \* multiples of a period
    Gaps,           \* days between one bar and the next
    FirstDays,      \* day of the first bar
    MaxBars,        \* bound: bars in the list
    Reach           \* bound: indexes looked up beyond both ends

VARIABLES
    period,   \* type and span, or without a type: no period
    times     \* times of the bars, increasing

vars == <<period, times>>

Types == {"day", "week", "month", "year", "none"}

-----------------------------------------------------------------------------
(* The calendar.                                                           *)

Cycle == Years * Months

\* A month is numbered from the first month of the first year of a cycle.
YearOf(month)   == month \div Months
FirstDay(month) == (month \div Cycle) * Days + Starts[(month % Cycle) + 1]
LastDay(month)  == FirstDay(month + 1) - FirstDay(month)

\* The months of a cycle that have begun on a day of it.
Begun(day) == {k \in 1..Cycle : Starts[k] <= day}
MonthOf(t) ==
    (t \div Days) * Cycle
        + (CHOOSE k \in Begun(t % Days) : \A n \in Begun(t % Days) : n <= k) - 1
DayOf(t)   == t - FirstDay(MonthOf(t)) + 1

\* Months begin one after the other in their cycle. A day that a month does
\* not have in another year is still one of that year.
CalendarAssumption ==
    /\ Months \in Nat \ {0} /\ Years \in Nat \ {0} /\ Days \in Nat \ {0}
    /\ Starts \in [1..Cycle -> 0..(Days - 1)] /\ Starts[1] = 0
    /\ \A k \in 2..Cycle : Starts[k - 1] < Starts[k]
    /\ \A m, n \in 0..(Cycle - 1) :
          m % Months = n % Months =>
              FirstDay(n) + LastDay(m) <= FirstDay((YearOf(n) + 1) * Months)
BarsAssumption ==
    /\ Spans \subseteq Nat \ {0} /\ Gaps \subseteq Nat \ {0} /\ FirstDays \subseteq Int
    /\ Reach \in Nat

-----------------------------------------------------------------------------
(* The conversions.                                                        *)

Fixed == [day |-> 1, week |-> 7]

\* Seeded mutation: the day of the month is kept even where there is none.
MonthsLaterOverflowing(t, months) ==
    FirstDay(MonthOf(t) + months) + DayOf(t) - 1

\* Months away, on the same day or on the last one of a shorter month.
MonthsLater(t, months) ==
    LET month == MonthOf(t) + months
        day == IF DayOf(t) < LastDay(month) THEN DayOf(t) ELSE LastDay(month)
    IN  FirstDay(month) + day - 1

\* setFullYear: a day that year does not have is the first of the next month.
YearsLater(t, years) == FirstDay(MonthOf(t) + years * Months) + DayOf(t) - 1

\* The time `units` periods away from the time of a bar.
Away(t, units) ==
    CASE period.type = "month" -> MonthsLater(t, period.span * units)
      [] period.type = "year"  -> YearsLater(t, period.span * units)
      [] OTHER -> t + period.span * Fixed[period.type] * units

\* How many periods a time is away from the time of a bar, rounded down.
UnitsBetween(t, reference) ==
    CASE period.type = "month" -> (MonthOf(t) - MonthOf(reference)) \div period.span
      [] period.type = "year"  ->
             (YearOf(MonthOf(t)) - YearOf(MonthOf(reference))) \div period.span
      [] OTHER -> (t - reference) \div (period.span * Fixed[period.type])

NoTime == "no time"

\* dataIndexToTimestamp: the bar's time, or one so many periods away.
IndexToTime(i) ==
    IF i \in DOMAIN times THEN times[i]
    ELSE IF times = <<>> \/ period.type = "none" THEN NoTime
    ELSE IF i > Len(times) THEN Away(times[Len(times)], i - Len(times))
    ELSE Away(times[1], i - 1)

\* binarySearchNearest: one turn of its loop between two indexes, both looked
\* at. When they are one it has found its index.
Halved(t, left, right) ==
    LET middle == (left + right) \div 2
        beyond == t > times[middle]
    IN  IF left = right \/ t = times[left] THEN <<left, left>>
        ELSE IF t = times[right]  THEN <<right, right>>
        ELSE IF t = times[middle] THEN <<middle, middle>>
        ELSE IF right - left <= 2 THEN IF beyond THEN <<middle, middle>> ELSE <<left, left>>
        ELSE IF beyond THEN <<middle, right>> ELSE <<left, middle>>

\* As many turns as there are bars are more than it takes.
Search(t) ==
    LET at[turn \in 0..Len(times)] ==
            IF turn = 0 THEN <<1, Len(times)>>
            ELSE Halved(t, at[turn - 1][1], at[turn - 1][2])
    IN  at[Len(times)][1]

\* timestampToDataIndex: outside the data by the period, inside by the search.
\* Without bars it is the first index.
TimeToIndex(t) ==
    IF times = <<>> THEN 1
    ELSE IF period.type # "none" /\ t > times[Len(times)]
    THEN Len(times) + UnitsBetween(t, times[Len(times)])
    ELSE IF period.type # "none" /\ t < times[1] THEN 1 + UnitsBetween(t, times[1])
    ELSE Search(t)

-----------------------------------------------------------------------------
Init ==
    /\ period \in [type : Types, span : Spans]
    /\ times = <<>>

\* A bar is added behind the last one, after a gap or not.
AddBar ==
    /\ Len(times) < MaxBars
    /\ \E t \in IF times = <<>> THEN FirstDays ELSE {times[Len(times)] + g : g \in Gaps} :
           times' = Append(times, t)
    /\ UNCHANGED period

Next == AddBar

Spec == Init /\ [][Next]_vars

-----------------------------------------------------------------------------
(* Properties.                                                             *)

Indexes == (1 - Reach)..(Len(times) + Reach)

\* The index of an index's time is that index, in the data and beyond both
\* ends, for months and years of every length: a drawing kept by its times
\* comes back to the bars it was drawn on (Store.ts:898 and 962).
IndexOfTimeOfIndex ==
    times # <<>> /\ period.type # "none" =>
        \A i \in Indexes : TimeToIndex(IndexToTime(i)) = i
=============================================================================
