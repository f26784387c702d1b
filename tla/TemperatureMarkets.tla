------------------------- MODULE TemperatureMarkets -------------------------
(***************************************************************************)
(* The outcomes of a daily-temperature event (markets/temperature.py) as   *)
(* the producer reads them: every market of the event is parsed            *)
(* (producer/market_source.py, markets/gamma.py), the buckets must         *)
(* partition the temperatures, and the forecast picks the one market whose *)
(* YES outcome is quoted (producer/scanner.py).                            *)
(*                                                                         *)
(* Bounds are whole degrees, None for an open tail; a forecast is counted  *)
(* in half degrees, enough to tell the rounding rules apart.               *)
(***************************************************************************)
EXTENDS Integers, Sequences, FiniteSets, Functions, Optional

CONSTANTS
    Units,          \* units a question may use
    Bounds,         \* bounds a question may name
    Halves,         \* forecasts, in half degrees
    Expected,       \* the unit the producer expects (Fahrenheit)
    MaxMarkets      \* bound: markets of an event

ASSUME TemperatureAssumption ==
    /\ Bounds \subseteq Int /\ Halves \subseteq Int
    /\ MaxMarkets \in Nat
    /\ Expected \in Units
    /\ None \notin Bounds

VARIABLES
    status,     \* reading, parsed, chosen or rejected
    markets,    \* bucket of each market of the event, in its order
    buckets,    \* the accepted partition, in temperature order
    forecast,   \* the forecast that was placed
    chosen      \* indices of the markets it picked

eventVars == <<status, markets, buckets, forecast, chosen>>

\* parse_temperature_bucket and TemperatureBucket: a tail has one bound,
\* bounds are not swapped.
Buckets ==
    {b \in [unit : Units, lower : Bounds \cup {None}, upper : Bounds \cup {None}] :
        /\ b.lower # None \/ b.upper # None
        /\ b.lower # None /\ b.upper # None => b.lower <= b.upper}

IsLowerTail(b) == b.lower = None
IsUpperTail(b) == b.upper = None

ContainsReported(b, t) ==
    /\ IsLowerTail(b) \/ b.lower <= t
    /\ IsUpperTail(b) \/ t <= b.upper

\* Decimal.quantize with ROUND_HALF_UP takes a half away from zero.
RoundHalfUp(h) == IF h >= 0 THEN (h + 1) \div 2 ELSE -((1 - h) \div 2)

EventInit ==
    /\ status = "reading"
    /\ markets = <<>>
    /\ buckets = <<>>
    /\ forecast = None
    /\ chosen = {}
-----------------------------------------------------------------------------
\* parse_temperature_markets reads one market after the other.
ReadMarket(b) ==
    /\ status = "reading"
    /\ Len(markets) < MaxMarkets
    /\ markets' = Append(markets, b)
    /\ UNCHANGED <<status, buckets, forecast, chosen>>

\* An exception: the event is left out of the scan.
RejectEvent == status' = "rejected" /\ markets' = <<>> /\ UNCHANGED <<buckets, chosen>>

\* A market that cannot be parsed rejects the whole event.
ReadMalformed == status = "reading" /\ RejectEvent /\ UNCHANGED forecast

\* The order of sort_key.
Colder(b, c) ==
    \/ IsLowerTail(b) /\ ~IsLowerTail(c)
    \/ ~IsLowerTail(b) /\ ~IsLowerTail(c) /\ b.lower < c.lower

HasOne(s, IsTail(_)) == Cardinality({i \in DOMAIN s : IsTail(s[i])}) = 1

\* sorted(buckets, key=sort_key): a stable sort puts at place n the bucket
\* that n - 1 others precede.
Precedes(s, j, i) == Colder(s[j], s[i]) \/ (j < i /\ ~Colder(s[i], s[j]))
Ordered(s) ==
    [n \in DOMAIN s |->
        s[CHOOSE i \in DOMAIN s : Cardinality({j \in DOMAIN s : Precedes(s, j, i)}) = n - 1]]

\* Mutant: a gap of one degree is let through.
Joined(s) ==
    \A i \in 1..(Len(s) - 1) :
        /\ s[i].upper # None /\ s[i + 1].lower # None
        /\ s[i + 1].lower \in {s[i].upper + 1, s[i].upper + 2}

\* Neighbours neither overlap nor leave a gap.
Contiguous(s) ==
    \A i \in 1..(Len(s) - 1) :
        /\ s[i].upper # None /\ s[i + 1].lower # None
        /\ s[i + 1].lower = s[i].upper + 1

\* The checks of TemperatureMarketPartition, on the buckets as listed and
\* on their order.
ValidPartition(s, ordered) ==
    /\ Len(s) >= 2
    /\ Cardinality({b.unit : b \in Range(s)}) = 1
    /\ HasOne(s, IsLowerTail)
    /\ HasOne(s, IsUpperTail)
    /\ IsInjective(s)
    /\ IsLowerTail(ordered[1]) /\ IsUpperTail(ordered[Len(ordered)])
    /\ Contiguous(ordered)

\* The producer also refuses a partition in another unit.
BuildPartition ==
    /\ status = "reading"
    /\ LET ordered == Ordered(markets)
       IN IF ValidPartition(markets, ordered) /\ ordered[1].unit = Expected
          THEN status' = "parsed" /\ buckets' = ordered /\ UNCHANGED <<markets, chosen>>
          ELSE RejectEvent
    /\ UNCHANGED forecast

\* Mutant: the forecast is floored.
BucketForFloor(h) == {b \in Range(buckets) : ContainsReported(b, h \div 2)}

\* bucket_for_forecast; it raises unless exactly one bucket matches.
BucketForForecast(h) == {b \in Range(buckets) : ContainsReported(b, RoundHalfUp(h))}

\* The scanner's choice: the markets whose bucket is the target.
PlaceForecast(h) ==
    /\ status = "parsed"
    /\ forecast' = h
    /\ IF Cardinality(BucketForForecast(h)) # 1
       THEN RejectEvent
       ELSE /\ status' = "chosen"
            /\ chosen' = {i \in DOMAIN markets : markets[i] \in BucketForForecast(h)}
            /\ UNCHANGED <<markets, buckets>>

EventDone == status \in {"chosen", "rejected"} /\ UNCHANGED eventVars

EventNext ==
    \/ \E b \in Buckets : ReadMarket(b)
    \/ ReadMalformed
    \/ BuildPartition
    \/ \E h \in Halves : PlaceForecast(h)
    \/ EventDone

EventSpec == EventInit /\ [][EventNext]_eventVars
-----------------------------------------------------------------------------
\* Whole degrees at and around every bound of an event.
Reported(s) ==
    UNION {{n - 1, n, n + 1} : n \in (UNION {{b.lower, b.upper} : b \in Range(s)}) \ {None}}

\* What a partition is, without order or tails: every reported temperature
\* falls into exactly one bucket.
Partitions(s) ==
    \A t \in Reported(s) :
        Cardinality({i \in DOMAIN s : ContainsReported(s[i], t)}) = 1

\* Sorting and comparing neighbours accepts exactly the partitions: an
\* accepted event settles one of its markets, whatever is reported, and in
\* any order the venue lists them markets of the expected unit that
\* partition the temperatures are accepted.
AcceptedIffPartition ==
    /\ status \in {"parsed", "chosen"} => Partitions(markets)
    /\ /\ Len(markets) >= 2
       /\ \A b \in Range(markets) : b.unit = Expected
       /\ Partitions(markets)
       => ValidPartition(markets, Ordered(markets))

\* On an accepted event every forecast chooses exactly one market, the one
\* that settles YES if the forecast comes true after rounding.
ForecastChoosesOne ==
    /\ forecast # None => status = "chosen"
    /\ status = "chosen" =>
          \E i \in DOMAIN markets :
              /\ chosen = {i}
              /\ \A j \in DOMAIN markets :
                    ContainsReported(markets[j], RoundHalfUp(forecast)) <=> j = i
=============================================================================
