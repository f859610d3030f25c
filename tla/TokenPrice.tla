----------------------------- MODULE TokenPrice -----------------------------
(***************************************************************************)
(* Token prices: two cron jobs that store a sample of each network's       *)
(* market price, and the chart that averages the samples by hour, day or   *)
(* month.                                                                  *)
(*                                                                         *)
(* Time is counted in hours from the start of FirstYear, a year or more    *)
(* before the first sample, in UTC, which is also the server's time zone.  *)
(***************************************************************************)
EXTENDS Integers, FiniteSets, Functions

CONSTANTS
    FirstYear,
    LastYear,  \* bound: the last year of the calendar
    Moments,   \* bound: when the cron jobs run, in hours
    PriceAt    \* the market price at each

Networks == {"BNB", "TON"}
Ranges   == {"d", "w", "m", "y"}

VARIABLES
    now,     \* the time
    prices   \* the tokenprices collection: [time, price, network]

priceVars == <<now, prices>>

-----------------------------------------------------------------------------
(* The calendar of dayjs and of MongoDB.                                    *)

IsLeap(y) == y % 4 = 0 /\ (y % 100 # 0 \/ y % 400 = 0)

DaysIn(y, m) ==
    CASE m = 2 -> IF IsLeap(y) THEN 29 ELSE 28
      [] m \in {4, 6, 9, 11} -> 30
      [] OTHER -> 31

Months == (FirstYear..LastYear) \X (1..12)

Earlier(o, p) == o[1] < p[1] \/ (o[1] = p[1] /\ o[2] < p[2])

\* The days of a set of months.
Length(S) == SumFunction([o \in S |-> DaysIn(o[1], o[2])])

\* Days before the first of each month.
DaysBefore == [p \in Months |-> Length({o \in Months : Earlier(o, p)})]

Date(y, m, d, h) == (DaysBefore[<<y, m>>] + d - 1) * 24 + h

\* The month each day lies in.
Calendar ==
    [day \in 0..(Length(Months) - 1) |->
        CHOOSE p \in Months :
            DaysBefore[p] <= day /\ day < DaysBefore[p] + DaysIn(p[1], p[2])]

\* The calendar reaches a year back from each moment.
ASSUME TokenPriceAssumption ==
    /\ FirstYear \in Nat /\ LastYear \in Nat
    /\ Moments \subseteq (366 * 24)..(24 * Length(Months) - 1)
    /\ PriceAt \in [Moments -> Nat]

MonthOf(t) == Calendar[t \div 24]

DayOf(t) == t \div 24 - DaysBefore[MonthOf(t)] + 1

\* The start of the day of t, n months earlier: the day of the month is cut to
\* the length of the month.
StartOfDay(t) == t - (t % 24)

MonthsEarlier(t, n) ==
    LET p == MonthOf(t)
        k == p[1] * 12 + p[2] - 1 - n
        y == k \div 12
        m == (k % 12) + 1
        d == DayOf(t)
    IN  Date(y, m, IF d > DaysIn(y, m) THEN DaysIn(y, m) ELSE d, 0)

-----------------------------------------------------------------------------
(* TokenPriceService.                                                       *)

StartDate(range) ==
    CASE range = "d" -> now - 24
      [] range = "w" -> StartOfDay(now - 7 * 24)
      [] range = "m" -> MonthsEarlier(now, 1)
      [] range = "y" -> MonthsEarlier(now, 12)

\* Mutant: the parts lack the month.
GroupTime_NoMonth(range, t) ==
    LET p == MonthOf(t)
    IN  CASE range = "d" -> <<p[1], 1, DayOf(t), t % 24>>
          [] range = "y" -> <<p[1], p[2]>>
          [] OTHER       -> <<p[1], 1, DayOf(t)>>

\* groupTime: the parts a sample's group is made of, in UTC.
GroupTime(range, t) ==
    LET p == MonthOf(t)
    IN  CASE range = "d"        -> <<p[1], p[2], DayOf(t), t % 24>>
          [] range \in {"w", "m"} -> <<p[1], p[2], DayOf(t)>>
          [] range = "y"        -> <<p[1], p[2]>>

\* Hours of Asia/Ho_Chi_Minh ahead of UTC.
Zone == 7

\* $dateFromParts: the missing parts are 1 and 0; with a timezone the parts,
\* though taken in UTC, are read as local time.
DateFromParts(range, g) ==
    CASE range = "d" -> Date(g[1], g[2], g[3], g[4])
      [] range = "y" -> Date(g[1], g[2], 1, 0) - Zone
      [] OTHER       -> Date(g[1], g[2], g[3], 0) - Zone

SumPrices(S) == SumFunction([s \in S |-> s.price])

\* The _id a sample is grouped by.
Stamp(range, t) == DateFromParts(range, GroupTime(range, t))

\* A candle, with the sum and the number its average is made of.
Candle(stamp, S) ==
    [timestamp |-> stamp, sum |-> SumPrices(S), count |-> Cardinality(S)]

Candles(range, S) ==
    {Candle(stamp, {s \in S : Stamp(range, s.time) = stamp}) :
        stamp \in {Stamp(range, s.time) : s \in S}}

Chart(range, network) ==
    Candles(range, {s \in prices : s.time >= StartDate(range) /\ s.network = network})

\* getLatestPrice.
IsLatestPrice(s, network) ==
    /\ s \in prices /\ s.network = network
    /\ \A o \in prices : o.network = network => o.time <= s.time

PriceInit ==
    /\ now \in Moments /\ \A t \in Moments : now <= t
    /\ prices = {}

\* cronGetPrice and cronGetPriceTon: the time is cut to the minute; an error of
\* the contract or of MongoDB is logged and the sample is missing.
CronGetPrice(network) ==
    /\ \A s \in prices : s.time = now => s.network # network
    /\ prices' = prices \cup {[time |-> now, price |-> PriceAt[now], network |-> network]}
    /\ UNCHANGED now

Wait ==
    /\ \E t \in Moments : now < t /\ (\A u \in Moments : now < u => t <= u) /\ now' = t
    /\ UNCHANGED prices

PriceNext == Wait \/ \E network \in Networks : CronGetPrice(network)

PriceSpec == PriceInit /\ [][PriceNext]_priceVars

-----------------------------------------------------------------------------
(* Properties.                                                              *)

\* Reference: the hours a candle covers, from its timestamp.
Covers(range, c, t) ==
    LET lag == IF range = "d" THEN 0 ELSE Zone
        from == c.timestamp + lag
    IN  /\ from <= t
        /\ CASE range = "d" -> t < from + 1
             [] range = "y" -> t < from + 24 * DaysIn(MonthOf(from)[1], MonthOf(from)[2])
             [] OTHER       -> t < from + 24

\* Reference: how many days before today a chart begins.
DaysBack(range) ==
    CASE range = "d" -> 1..1
      [] range = "w" -> 7..7
      [] range = "m" -> 28..31
      [] range = "y" -> 365..366

\* Each sample asked for is in one candle, which holds the samples of its own
\* hour, day or month and no other's.
CandlesFit(range, chart, asked) ==
    LET In(c) == {s \in asked : Covers(range, c, s.time)}
    IN  /\ \A s \in asked : Cardinality({c \in chart : Covers(range, c, s.time)}) = 1
        /\ \A c \in chart : c.count = Cardinality(In(c)) /\ c.sum = SumPrices(In(c))

\* The chart of a range is whole: it goes back as far as it should, whatever
\* the lengths of the months between; its candles fit the network's samples
\* since then, though days and months are grouped in UTC and shown as local, so
\* that a candle begins seven hours after its timestamp; and the latest price is
\* among them, unless there are none.
ChartWhole ==
    \A range \in Ranges :
        /\ now \div 24 - StartDate(range) \div 24 \in DaysBack(range)
        /\ \A network \in Networks :
              LET asked == {s \in prices : s.network = network /\ s.time >= StartDate(range)}
              IN  /\ CandlesFit(range, Chart(range, network), asked)
                  /\ \A s \in prices : IsLatestPrice(s, network) /\ asked # {} => s \in asked
=============================================================================
