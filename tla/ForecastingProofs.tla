-------------------------- MODULE ForecastingProofs --------------------------
(***************************************************************************)
(* The programs that make and judge forecasts and what they compute from   *)
(* one on the way to a trade, for every value of their constants.          *)
(*                                                                         *)
(* The producer: a signal of its log is grounded in what it was made from. *)
(* The log is appended in one phase of the scan and the facts a signal     *)
(* needs are checked in another, so the invariant carries them on the      *)
(* queue between the two: every candidate that waits for its evaluation    *)
(* was made from a forecast of the calibrated run, retrieved in the window *)
(* of the day the candidate is for.  That day is relative to the start of  *)
(* the scan, which the candidate does not record; it is the day of the     *)
(* retrieval because calibration compares the two.                         *)
(*                                                                         *)
(* The sweep: its reports are reproducible and account for every record.   *)
(* Runs fail, crash, start over and overlap in the days they ask for, so   *)
(* the invariant says what a report is a function of: for the days that    *)
(* are through, the records and the gaps are those of the cache and of the *)
(* evidence of unavailable runs (DatasetTo, GapsTo), and a complete entry  *)
(* of the cache never changes, so neither does what was computed from it.  *)
(* The accounts are then counted day by day: each adds as many records and *)
(* excluded records as there are lead days.                                *)
(*                                                                         *)
(* The experiment engine, for every list of cases: a decision is taken     *)
(* when exactly the settlements of its past have been applied, and         *)
(* settlements are applied in the order of their times and all of them.    *)
(* The invariant orders what was settled before what still waits.          *)
(*                                                                         *)
(* The markets of an event, for any number of them and any bounds: sorting *)
(* the buckets and comparing neighbours accepts exactly the partitions.    *)
(* Sorting only rearranges (OrderedArranges).  Neighbours that join make a *)
(* chain, whose bounds rise, by induction along it, so that a temperature  *)
(* is in one bucket of it (ChainSettlesOne).  Conversely buckets that have *)
(* each bound, and the temperature next to it, in exactly one of them can  *)
(* neither overlap nor leave a gap (DividedIsChain).                       *)
(*                                                                         *)
(* The size of an entry, for every book, cash, probability and policy.     *)
(* The sizing loop only lowers its budget and leaves with the quote that   *)
(* it took it from (SizingInv).  That the plan takes the most that is      *)
(* admissible is by induction along the book, for each quantity: covering  *)
(* that quantity from the same asks, one has so far not got there, or is   *)
(* within what was taken, or exceeds what the order allows, and what       *)
(* exceeds it does so at every dearer level (Stands, PlanTakesMost).  A    *)
(* walk of the book is a fold; its values are those of a recursive         *)
(* function on the prefixes of the book (BuyLevelsBy, CostOfBy).           *)
(* That the ledger takes the fill rests on the safety margin: a quote is   *)
(* bought at its best ask or above (SpentAffords), so the margin on its    *)
(* cost is more than rounding adds to the price, the size and the fee of   *)
(* the order (MarginCovers), and what covers the order covers every fill   *)
(* of it (CoveredFill).                                                    *)
(***************************************************************************)
EXTENDS Producer, CalibrationSweep, Experiment, TemperatureMarkets, PaperExecution, DataFacts, TLAPS

-----------------------------------------------------------------------------
(* The producer *)

\* What calibration established of a candidate, and freshness leaves alone.
FromForecast(k) ==
    /\ k.weather.run = "expected"
    /\ InWindow(k.market[1], k.weather.retrieved)
    /\ LocalDay(k.market[1], k.weather.retrieved) + k.market[2] = k.day

\* A sequence whose elements all come from forecasts.
Waiting(s) ==
    /\ IsSequence(s)
    /\ \A i \in DOMAIN s : FromForecast(s[i])

Generated(s) ==
    /\ Waiting(s)
    /\ \A i \in DOMAIN s : s[i].generated - s[i].book <= MaxBookAge

\* The inductive invariant.
ScanInv == Waiting(candidates) /\ Generated(log)

\* Appending keeps a sequence of forecasts one.
LEMMA AppendWaiting ==
    ASSUME NEW s, NEW k, Waiting(s), FromForecast(k)
    PROVE  Waiting(Append(s, k))
<1>1. IsSequence(s) /\ \A i \in DOMAIN s : FromForecast(s[i])
  BY DEF Waiting
<1>2. /\ IsSequence(Append(s, k))
      /\ \A i \in DOMAIN Append(s, k) : FromForecast(Append(s, k)[i])
  BY <1>1, AppendElements
<1> QED
  BY <1>2 DEF Waiting

\* Evaluating a candidate takes the first of the queue and leaves the rest.
LEMMA TailWaiting ==
    ASSUME NEW s, Waiting(s), s # <<>>
    PROVE  FromForecast(Head(s)) /\ Waiting(Tail(s))
<1>1. IsSequence(s) /\ \A i \in DOMAIN s : FromForecast(s[i])
  BY DEF Waiting
<1>2. FromForecast(Head(s)) /\ IsSequence(Tail(s))
  BY <1>1, TailElements
<1>3. \A i \in DOMAIN Tail(s) : FromForecast(Tail(s)[i])
  BY <1>1, TailElements
<1> QED
  BY <1>2, <1>3 DEF Waiting

\* What calibration accepts is from a forecast of its own day.
LEMMA CandidateFromForecast ==
    ASSUME Calibrated(city, weather)
    PROVE  FromForecast(Candidate)
BY DEF Calibrated, FromForecast, Candidate

\* An accepted candidate keeps the facts as a signal, and its order book is
\* as fresh as the clock of its evaluation says.
LEMMA SignalFromForecast ==
    ASSUME NEW k, FromForecast(k), Fresh(k)
    PROVE  /\ FromForecast(Signal(k))
           /\ Signal(k).generated - Signal(k).book <= MaxBookAge
BY DEF FromForecast, Fresh, Signal

LEMMA InvInit == Init => ScanInv
BY EmptySequence DEF Init, ScanInv, Waiting, Generated

LEMMA InvNext == ScanInv /\ [Next]_vars => ScanInv'
<1> SUFFICES ASSUME ScanInv, [Next]_vars PROVE ScanInv'
  OBVIOUS
<1> USE DEF ScanInv
<1>1. CASE UNCHANGED <<candidates, log>>
  BY <1>1 DEF Waiting, Generated, FromForecast, InWindow, LocalTime, LocalDay
<1>2. CASE Collect
  <2>1. Waiting(Append(candidates, Candidate))
    BY <1>2, CandidateFromForecast, AppendWaiting DEF Collect
  <2> QED
    BY <1>2, <2>1 DEF Collect
<1>3. CASE Reject
  BY <1>3, TailWaiting DEF Reject
<1>4. CASE Emit
  <2> DEFINE s == Signal(Head(candidates))
  <2>1. FromForecast(Head(candidates)) /\ Waiting(candidates')
    BY <1>4, TailWaiting DEF Emit
  <2>2. FromForecast(s) /\ s.generated - s.book <= MaxBookAge
    BY <1>4, <2>1, SignalFromForecast DEF Emit
  <2> HIDE DEF s
  <2>3. Waiting(log) /\ \A i \in DOMAIN log : log[i].generated - log[i].book <= MaxBookAge
    BY DEF Generated
  <2>4. Waiting(Append(log, s)) /\ IsSequence(log)
    BY <2>2, <2>3, AppendWaiting DEF Waiting
  <2>5. Generated(Append(log, s))
    BY <2>2, <2>3, <2>4, AppendElements DEF Generated
  <2>6. log' = Append(log, s)
    BY <1>4 DEF Emit, s
  <2> QED
    BY <2>1, <2>5, <2>6
<1>5. \/ UNCHANGED <<candidates, log>>
      \/ Collect
      \/ Reject
      \/ Emit
  BY DEF Next, ScanStep, vars, scan, StartScan, CalibrationUnavailable, SkipCity,
         FetchWeather, SkipMarket, FetchEvent, SkipEvent, CityDone, Collected, EndScan,
         RequestShutdown, Stop, Tick, Ended
<1> QED
  BY <1>1, <1>2, <1>3, <1>4, <1>5

\* SignalsAreGrounded: producer/service.py and cli.py never logs a signal whose forecast
\* was retrieved outside the window of its day, is of another run than the
\* calibrated one, or whose order book was stale when it was generated.
THEOREM Grounded == Spec => []SignalsAreGrounded
<1>1. ScanInv => SignalsAreGrounded
  BY DEF ScanInv, Generated, Waiting, FromForecast, SignalsAreGrounded
<1> QED
  BY <1>1, InvInit, InvNext, PTL DEF Spec

-----------------------------------------------------------------------------
(* The sweep *)

\* What a day of the sweep has read, and when the sweep is through with it.

Read(k) == entry[k].stage = 4 /\ entry[k].payload \in Usable
Short(d) == entry[<<"observation", d>>].stage = 4 /\ entry[<<"observation", d>>].payload = "short"

Through(d) == AvailableLeads(d) = {} \/ Short(d) \/ \A k \in Chunk(d) : Read(k)

Recorded(d) == IF Short(d) THEN {} ELSE {d} \X AvailableLeads(d)
GapsOf(d) == IF AvailableLeads(d) # {} /\ Short(d) THEN DayGaps(d) ELSE RunGaps(d)

RecordsTo(n) == UNION {Recorded(d) : d \in 1 .. n}
GapsTo(n) == UNION {GapsOf(d) : d \in 1 .. n}
DatasetTo(n) == [r \in RecordsTo(n) |-> Record(r[1], r[2])]
ReportOf(n) == [last |-> n, dataset |-> DatasetTo(n), gaps |-> GapsTo(n)]

SweepTypes ==
    /\ unavailable \subseteq DecisionDays
    /\ entry \in [CacheKeys -> [stage: 0 .. 4, payload: {None, "one", "other", "short", "malformed"}]]
    /\ \A k \in CacheKeys : entry[k].stage > 0 /\ entry[k].payload = "short" => k[1] = "observation"
    /\ last \in 1 .. LastDay
    /\ step \in {"idle", "day", "get", "parse", "fetch", "store", "write"}

DaysThrough ==
    step # "idle" =>
        /\ day \in 1 .. (last + 1)
        /\ \A d \in 1 .. (day - 1) : Through(d)
        /\ collected = DatasetTo(day - 1)
        /\ gaps = GapsTo(day - 1)

InDay ==
    /\ step \in {"get", "parse", "fetch", "store"} =>
          /\ day <= last /\ AvailableLeads(day) # {}
          /\ todo \subseteq Chunk(day)
          /\ \A k \in Chunk(day) \ todo : Read(k)
    /\ step \in {"parse", "fetch", "store"} => todo # {}
    /\ step = "fetch" => entry[NextKey].stage \in {0, 1}
    /\ step = "store" => entry[NextKey].stage \in 1 .. 3
    /\ step = "parse" => entry[NextKey].stage = 4

SweptInv ==
    \A r \in swept :
        /\ r.last \in 1 .. LastDay
        /\ \A d \in 1 .. r.last : Through(d)
        /\ r = ReportOf(r.last)

SweepInv == SweepTypes /\ DaysThrough /\ InDay /\ SweptInv

-----------------------------------------------------------------------------
\* A set of integers between two bounds has a least and a greatest element.
LEMMA Extremes ==
    ASSUME NEW a \in Int, NEW b \in Int, NEW T \in SUBSET (a .. b), T # {}
    PROVE  Min(T) \in T /\ Max(T) \in T
<1> DEFINE L == {x - a : x \in T}
           G == {b - x : x \in T}
<1>0. \A x \in T : x - a \in Nat /\ b - x \in Nat
  OBVIOUS
<1>1. L \in SUBSET Nat /\ L # {} /\ G \in SUBSET Nat /\ G # {}
  BY <1>0
<1>2. PICK l \in L : \A y \in L : l <= y
  BY <1>1, LeastNatural
<1>3. PICK g \in G : \A y \in G : g <= y
  BY <1>1, LeastNatural
<1>4. \E x \in T : \A y \in T : x <= y
  <2>1. PICK x \in T : l = x - a
    BY <1>2
  <2>2. ASSUME NEW y \in T PROVE x <= y
    <3>1. y - a \in L /\ x \in Int /\ y \in Int
      OBVIOUS
    <3>2. l <= y - a
      BY <1>2, <3>1
    <3> QED
      BY <2>1, <3>1, <3>2
  <2> QED
    BY <2>2
<1>5. \E x \in T : \A y \in T : x >= y
  <2>1. PICK x \in T : g = b - x
    BY <1>3
  <2>2. ASSUME NEW y \in T PROVE x >= y
    <3>1. b - y \in G /\ x \in Int /\ y \in Int
      OBVIOUS
    <3>2. g <= b - y
      BY <1>3, <3>1
    <3> QED
      BY <2>1, <3>1, <3>2
  <2> QED
    BY <2>2
<1> QED
  BY <1>4, <1>5 DEF Min, Max

\* The entries a day needs are keys of the cache.
LEMMA ChunkKeys ==
    ASSUME NEW d \in 1 .. LastDay
    PROVE  /\ Chunk(d) \subseteq CacheKeys /\ <<"observation", d>> \in Chunk(d)
           /\ \A k \in Chunk(d) : k[1] = "observation" => k = <<"observation", d>>
           /\ \A k \in Chunk(d) : k # <<"observation", d>> =>
                 k = <<"forecast", k[2]>> /\ k[2] \in (1 - MaxLead) .. LastDay
           /\ \A h \in AvailableLeads(d) : <<"forecast", d - h>> \in Chunk(d)
<1>1. LastDay \in Nat /\ MaxLead \in Nat
  BY SweepAssumption
<1>2. \A h \in AvailableLeads(d) : d - h \in (1 - MaxLead) .. LastDay
  BY <1>1 DEF AvailableLeads, Horizons
<1> QED
  BY <1>1, <1>2 DEF Chunk, CacheKeys, DecisionDays

\* The next request is one of those the day still needs.
LEMMA NextKeyInTodo ==
    ASSUME SweepInv, step \in {"get", "parse", "fetch", "store"}, todo # {}
    PROVE  NextKey \in todo /\ NextKey \in Chunk(day) /\ NextKey \in CacheKeys
<1> DEFINE o == <<"observation", day>>
           days == {k[2] : k \in todo \ {o}}
<1>1. day \in 1 .. LastDay /\ todo \subseteq Chunk(day)
  BY SweepAssumption DEF SweepInv, SweepTypes, DaysThrough, InDay
<1>2. CASE o \in todo
  BY <1>1, <1>2, ChunkKeys DEF NextKey
<1>3. CASE o \notin todo
  <2>1. \A k \in todo : k = <<"forecast", k[2]>> /\ k[2] \in (1 - MaxLead) .. LastDay
    BY <1>1, <1>3, ChunkKeys
  <2>2. days \in SUBSET ((1 - MaxLead) .. LastDay) /\ days # {}
    BY <1>3, <2>1
  <2>3. 1 - MaxLead \in Int /\ LastDay \in Int
    BY SweepAssumption
  <2> HIDE DEF days
  <2>4. Min(days) \in days /\ Max(days) \in days
    BY <2>2, <2>3, Extremes
  <2>5. \A x \in days : <<"forecast", x>> \in todo
    BY <2>1 DEF days
  <2>6. NextKey \in todo
    BY <1>3, <2>4, <2>5 DEF NextKey, days
  <2> QED
    BY <1>1, <2>6, ChunkKeys
<1> QED
  BY <1>2, <1>3

-----------------------------------------------------------------------------
\* What n + 1 days have is what n days have and what the last one adds.
LEMMA Grows ==
    /\ RecordsTo(0) = {} /\ GapsTo(0) = {}
    /\ \A n \in Nat : /\ RecordsTo(n + 1) = RecordsTo(n) \cup Recorded(n + 1)
                      /\ GapsTo(n + 1) = GapsTo(n) \cup GapsOf(n + 1)
<1>1. 1 .. 0 = {}
  OBVIOUS
<1>2. \A n \in Nat : 1 .. (n + 1) = (1 .. n) \cup {n + 1}
  OBVIOUS
<1>3. RecordsTo(0) = {} /\ GapsTo(0) = {}
  BY <1>1 DEF RecordsTo, GapsTo
<1>4. ASSUME NEW n \in Nat PROVE RecordsTo(n + 1) = RecordsTo(n) \cup Recorded(n + 1)
  BY <1>2 DEF RecordsTo
<1>5. ASSUME NEW n \in Nat PROVE GapsTo(n + 1) = GapsTo(n) \cup GapsOf(n + 1)
  BY <1>2 DEF GapsTo
<1> QED
  BY <1>3, <1>4, <1>5

\* A step leaves the complete entries of the cache alone.
EntriesKept ==
    /\ UNCHANGED unavailable
    /\ \A k \in CacheKeys : entry[k].stage = 4 => entry'[k] = entry[k]

\* A day that is through stays through, with the same records and gaps.
LEMMA ThroughStays ==
    ASSUME EntriesKept, NEW d \in 1 .. LastDay, Through(d)
    PROVE  /\ Through(d)' /\ Recorded(d)' = Recorded(d) /\ GapsOf(d)' = GapsOf(d)
           /\ \A r \in Recorded(d) : r[1] = d /\ Record(r[1], r[2])' = Record(r[1], r[2])
<1>0. LastDay \in Nat
  BY SweepAssumption
<1>1. /\ \A e : MissingLeads(e)' = MissingLeads(e) /\ AvailableLeads(e)' = AvailableLeads(e)
      /\ \A e : Chunk(e)' = Chunk(e) /\ RunGaps(e)' = RunGaps(e)
  BY DEF EntriesKept, MissingLeads, AvailableLeads, Chunk, RunGaps
<1>2. <<"observation", d>> \in Chunk(d) /\ Chunk(d) \subseteq CacheKeys /\ <<"observation", d>> \in CacheKeys
  BY ChunkKeys
<1>3. CASE AvailableLeads(d) = {}
  <2>1. Recorded(d) = {} /\ Recorded(d)' = {}
    BY <1>1, <1>3 DEF Recorded
  <2> QED
    BY <1>1, <1>3, <2>1 DEF Through, GapsOf
<1>4. CASE AvailableLeads(d) # {} /\ Short(d)
  <2>1. Short(d)'
    BY <1>2, <1>4 DEF Short, EntriesKept
  <2> QED
    BY <1>1, <1>4, <2>1 DEF Through, GapsOf, Recorded
<1>5. CASE AvailableLeads(d) # {} /\ ~Short(d) /\ \A k \in Chunk(d) : Read(k)
  <2>1. \A k \in Chunk(d) : entry'[k] = entry[k]
    BY <1>2, <1>5 DEF Read, EntriesKept
  <2>2. ~Short(d)' /\ \A k \in Chunk(d)' : Read(k)'
    BY <1>1, <1>2, <1>5, <2>1 DEF Short, Read
  <2>3. Recorded(d)' = Recorded(d) /\ Recorded(d) = {d} \X AvailableLeads(d)
    BY <1>1, <1>5, <2>2 DEF Recorded
  <2>4. \A h \in AvailableLeads(d) : Record(d, h)' = Record(d, h)
    BY <1>2, <2>1, ChunkKeys DEF Record
  <2>5. \A r \in Recorded(d) : r[1] = d /\ r[2] \in AvailableLeads(d)
    BY <2>3
  <2> QED
    BY <1>1, <1>5, <2>2, <2>3, <2>4, <2>5 DEF Through, GapsOf
<1> QED
  BY <1>3, <1>4, <1>5 DEF Through

\* So does the report of days that are all through.
LEMMA ReportStays ==
    ASSUME EntriesKept, NEW n \in 0 .. LastDay, \A d \in 1 .. n : Through(d)
    PROVE  /\ \A d \in 1 .. n : Through(d)'
           /\ DatasetTo(n)' = DatasetTo(n) /\ GapsTo(n)' = GapsTo(n) /\ ReportOf(n)' = ReportOf(n)
<1>1. \A d \in 1 .. n : d \in 1 .. LastDay
  BY SweepAssumption
<1>2. \A d \in 1 .. n : /\ Through(d)' /\ Recorded(d)' = Recorded(d) /\ GapsOf(d)' = GapsOf(d)
                        /\ \A r \in Recorded(d) : Record(r[1], r[2])' = Record(r[1], r[2])
  BY <1>1, ThroughStays
<1>3. RecordsTo(n)' = RecordsTo(n)
  BY <1>2 DEF RecordsTo
<1>4. GapsTo(n)' = GapsTo(n)
  BY <1>2 DEF GapsTo
<1>5. \A r \in RecordsTo(n) : Record(r[1], r[2])' = Record(r[1], r[2])
  BY <1>2 DEF RecordsTo
<1>6. DatasetTo(n)' = DatasetTo(n)
  BY <1>3, <1>5 DEF DatasetTo
<1> QED
  BY <1>2, <1>4, <1>6 DEF ReportOf

-----------------------------------------------------------------------------
\* Nothing is collected yet.
LEMMA NothingCollected ==
    DatasetTo(0) = <<>> /\ GapsTo(0) = {}
<1>1. RecordsTo(0) = {} /\ GapsTo(0) = {}
  BY Grows
<1>2. DatasetTo(0) = [r \in {} |-> Record(r[1], r[2])]
  BY <1>1 DEF DatasetTo
<1> QED
  BY <1>1, <1>2

\* The invariant holds before the first run.
LEMMA SweepInitInv == SweepInit => SweepInv
<1> SUFFICES ASSUME SweepInit PROVE SweepInv
  OBVIOUS
<1>1. LastDay \in Nat /\ LastDay # 0
  BY SweepAssumption
<1>2. \A k \in CacheKeys : entry[k] = Absent /\ entry[k].stage = 0
  BY DEF SweepInit, Absent
<1>3. entry \in [CacheKeys -> [stage: 0 .. 4, payload: {None, "one", "other", "short", "malformed"}]]
  BY DEF SweepInit, Absent
<1>4. SweepTypes
  BY <1>1, <1>2, <1>3 DEF SweepInit, SweepTypes
<1> QED
  BY <1>4 DEF SweepInit, SweepInv, DaysThrough, InDay, SweptInv

\* Reports stay what they were.
LEMMA SweptStays ==
    ASSUME SweepInv, EntriesKept, UNCHANGED swept
    PROVE  SweptInv'
<1> SUFFICES ASSUME NEW r \in swept
             PROVE  /\ r.last \in 1 .. LastDay
                    /\ \A d \in 1 .. r.last : Through(d)'
                    /\ r = ReportOf(r.last)'
  BY DEF SweptInv
<1>1. /\ r.last \in 1 .. LastDay /\ r.last \in 0 .. LastDay
      /\ \A d \in 1 .. r.last : Through(d)
      /\ r = ReportOf(r.last)
  BY SweepAssumption DEF SweepInv, SweptInv
<1> DEFINE n == r.last
<1>2. n \in 0 .. LastDay /\ \A d \in 1 .. n : Through(d)
  BY <1>1
<1> HIDE DEF n
<1>3. (\A d \in 1 .. n : Through(d)') /\ ReportOf(n)' = ReportOf(n)
  BY <1>2, ReportStays
<1> QED
  BY <1>1, <1>3 DEF n

\* So does what a run in progress has collected.
LEMMA DaysStay ==
    ASSUME SweepInv, EntriesKept, step # "idle", UNCHANGED <<day, last, collected, gaps>>
    PROVE  DaysThrough'
<1>1. PICK n \in 0 .. LastDay : n = day - 1
  BY SweepAssumption DEF SweepInv, SweepTypes, DaysThrough
<1>2. /\ day \in 1 .. (last + 1) /\ \A d \in 1 .. n : Through(d)
      /\ collected = DatasetTo(n) /\ gaps = GapsTo(n)
  BY <1>1 DEF SweepInv, DaysThrough
<1>3. /\ \A d \in 1 .. n : Through(d)'
      /\ DatasetTo(n)' = DatasetTo(n) /\ GapsTo(n)' = GapsTo(n)
  BY <1>2, ReportStays
<1>4. day' - 1 = n
  BY <1>1
<1> QED
  BY <1>2, <1>3, <1>4 DEF DaysThrough

\* A step that leaves the evidence and the cache alone keeps the entries.
LEMMA SameEntries ==
    ASSUME UNCHANGED <<unavailable, entry>>
    PROVE  EntriesKept
BY DEF EntriesKept

\* An attempt starts over.
LEMMA FreshInv ==
    ASSUME SweepInv, FreshAttempt, UNCHANGED <<unavailable, entry, swept>>, last' \in 1 .. LastDay
    PROVE  SweepInv'
<1>1. SweptInv'
  BY SameEntries, SweptStays
<1>2. /\ step' = "day" /\ day' = 1 /\ collected' = <<>> /\ gaps' = {}
  BY DEF FreshAttempt
<1>3. (DatasetTo(0) = <<>> /\ GapsTo(0) = {})'
  BY NothingCollected, PTL
<1>4. DatasetTo(0)' = <<>> /\ GapsTo(0)' = {}
  BY <1>3
<1>5. day' - 1 = 0 /\ 1 .. (day' - 1) = {} /\ day' \in 1 .. (last' + 1)
  <2>1. LastDay \in Nat
    BY SweepAssumption
  <2>2. day' = 1 /\ day' - 1 = 0 /\ last' \in Nat /\ last' > 0
    BY <1>2, <2>1
  <2>3. 1 .. 0 = {} /\ \A x \in Nat : 1 \in 1 .. (x + 1)
    OBVIOUS
  <2> QED
    BY <2>2, <2>3
<1>6. DaysThrough'
  BY <1>2, <1>4, <1>5 DEF DaysThrough
<1>7. SweepTypes'
  BY <1>2 DEF SweepInv, SweepTypes
<1> QED
  BY <1>1, <1>2, <1>6, <1>7 DEF SweepInv, InDay

\* The run is over, for whatever reason.
LEMMA IdleInv ==
    ASSUME SweepInv, step' = "idle", UNCHANGED <<unavailable, entry, swept, last>>
    PROVE  SweepInv'
<1>1. SweptInv'
  BY SameEntries, SweptStays
<1> QED
  BY <1>1 DEF SweepInv, SweepTypes, DaysThrough, InDay

LEMMA AbortInv == ASSUME SweepInv, Abort PROVE SweepInv'
BY IdleInv DEF Abort, disk, memory

\* A day is through, and the next one begins.
LEMMA AdvanceInv ==
    ASSUME SweepInv, UNCHANGED <<unavailable, entry, swept, last>>, step' = "day",
           step # "idle", day <= last, Through(day), day' = day + 1,
           gaps' = gaps \cup GapsOf(day),
           collected' = [r \in DOMAIN collected \cup Recorded(day) |->
                            IF r[1] = day THEN Record(r[1], r[2]) ELSE collected[r]]
    PROVE  SweepInv'
<1>1. PICK n \in Nat : n = day - 1
  BY SweepAssumption DEF SweepInv, SweepTypes, DaysThrough
<1>2. /\ last \in 1 .. LastDay /\ day \in 1 .. (last + 1) /\ \A d \in 1 .. n : Through(d)
      /\ collected = DatasetTo(n) /\ gaps = GapsTo(n)
  BY <1>1 DEF SweepInv, SweepTypes, DaysThrough
<1>3. PICK m \in Nat : m = n + 1
  OBVIOUS
<1>4. m = day /\ m \in 1 .. LastDay /\ LastDay \in Nat /\ n \in 0 .. LastDay /\ day' - 1 = m
  BY <1>1, <1>2, <1>3, SweepAssumption
<1>5. /\ RecordsTo(m) = RecordsTo(n) \cup Recorded(m) /\ GapsTo(m) = GapsTo(n) \cup GapsOf(m)
  BY <1>3, Grows
<1>6. \A r \in RecordsTo(n) : r[1] # m
  <2>1. \A d \in 1 .. n : \A r \in Recorded(d) : r[1] = d
    BY DEF Recorded
  <2>2. \A d \in 1 .. n : d # m
    BY <1>3
  <2> QED
    BY <2>1, <2>2 DEF RecordsTo
<1>7. \A r \in Recorded(m) : r[1] = m
  BY DEF Recorded
<1>8. DOMAIN collected = RecordsTo(n) /\ \A r \in RecordsTo(n) : collected[r] = Record(r[1], r[2])
  BY <1>2 DEF DatasetTo
<1>9. collected' = DatasetTo(m)
  BY <1>4, <1>5, <1>6, <1>7, <1>8 DEF DatasetTo
<1>10. gaps' = GapsTo(m)
  BY <1>2, <1>4, <1>5
<1>11. \A d \in 1 .. m : Through(d)
  BY <1>2, <1>3, <1>4
<1>12. EntriesKept
  BY SameEntries
<1>13. /\ \A d \in 1 .. m : Through(d)'
       /\ DatasetTo(m)' = DatasetTo(m) /\ GapsTo(m)' = GapsTo(m)
  BY <1>4, <1>11, <1>12, ReportStays
<1>14. day' \in 1 .. (last' + 1)
  BY <1>2, <1>4
<1>15. DaysThrough'
  BY <1>4, <1>9, <1>10, <1>13, <1>14 DEF DaysThrough
<1>16. SweptInv'
  BY <1>12, SweptStays
<1> QED
  BY <1>15, <1>16 DEF SweepInv, SweepTypes, InDay

-----------------------------------------------------------------------------
(* The steps of a run *)

\* Facts about the day a run is in.
LEMMA InTheDay ==
    ASSUME SweepInv, step \in {"get", "parse", "fetch", "store"}
    PROVE  /\ day \in 1 .. LastDay /\ day <= last /\ AvailableLeads(day) # {}
           /\ todo \subseteq Chunk(day) /\ \A k \in Chunk(day) \ todo : Read(k)
BY SweepAssumption DEF SweepInv, SweepTypes, DaysThrough, InDay

\* A day without an available run is through at once; another has its entries
\* to read.
LEMMA BeginDayInv == ASSUME SweepInv, BeginDay PROVE SweepInv'
<1>1. CASE AvailableLeads(day) = {}
  <2>1. GapsOf(day) = RunGaps(day) /\ Recorded(day) = {} /\ Through(day)
    BY <1>1 DEF GapsOf, Recorded, Through
  <2>2. collected = [r \in DOMAIN collected |-> collected[r]]
    BY DEF BeginDay, SweepInv, DaysThrough, DatasetTo
  <2>3. \A r \in DOMAIN collected : r[1] # day
    <3>1. PICK n \in Nat : n = day - 1
      BY SweepAssumption DEF BeginDay, SweepInv, SweepTypes, DaysThrough
    <3>2. DOMAIN collected = RecordsTo(n)
      BY <3>1 DEF BeginDay, SweepInv, DaysThrough, DatasetTo
    <3>3. \A d \in 1 .. n : d # day
      BY <3>1
    <3>4. \A d \in 1 .. n : \A r \in Recorded(d) : r[1] = d
      BY DEF Recorded
    <3> QED
      BY <3>2, <3>3, <3>4 DEF RecordsTo
  <2>4. collected = [r \in DOMAIN collected \cup Recorded(day) |->
                        IF r[1] = day THEN Record(r[1], r[2]) ELSE collected[r]]
    BY <2>1, <2>2, <2>3
  <2> QED
    BY <1>1, <2>1, <2>4, AdvanceInv DEF BeginDay, disk
<1>2. CASE AvailableLeads(day) # {}
  <2>1. /\ step' = "get" /\ todo' = Chunk(day) /\ step = "day" /\ day <= last
        /\ UNCHANGED <<day, last, collected, gaps, unavailable, entry, swept>>
    BY <1>2 DEF BeginDay, disk
  <2>2. SweptInv' /\ DaysThrough'
    BY <2>1, SameEntries, SweptStays, DaysStay
  <2>3. AvailableLeads(day)' = AvailableLeads(day) /\ Chunk(day)' = Chunk(day)
    BY <2>1 DEF AvailableLeads, MissingLeads, Chunk
  <2>4. InDay'
    BY <1>2, <2>1, <2>3 DEF InDay
  <2>5. SweepTypes'
    BY <2>1 DEF SweepInv, SweepTypes
  <2> QED
    BY <2>2, <2>4, <2>5 DEF SweepInv
<1> QED
  BY <1>1, <1>2

\* Only the step changes.
LEMMA StepInv ==
    ASSUME SweepInv, step \in {"get", "parse", "fetch", "store"}, todo # {},
           step' \in {"parse", "fetch"},
           UNCHANGED <<unavailable, entry, swept, last, day, todo, collected, gaps>>,
           step' = "parse" => entry[NextKey].stage = 4,
           step' = "fetch" => entry[NextKey].stage \in {0, 1}
    PROVE  SweepInv'
<1>1. SweptInv' /\ DaysThrough'
  BY SameEntries, SweptStays, DaysStay
<1>2. /\ AvailableLeads(day)' = AvailableLeads(day) /\ Chunk(day)' = Chunk(day) /\ NextKey' = NextKey
      /\ \A k : Read(k)' = Read(k)
  BY DEF AvailableLeads, MissingLeads, Chunk, NextKey, Read
<1>3. InDay'
  BY <1>2, InTheDay DEF InDay
<1>4. SweepTypes'
  BY DEF SweepInv, SweepTypes
<1> QED
  BY <1>1, <1>3, <1>4 DEF SweepInv

\* A request that is served or tried again changes only the step.
LEMMA GetInv == ASSUME SweepInv, GetCached \/ GetMiss \/ RetryRequest PROVE SweepInv'
<1>1. CASE GetCached
  BY <1>1, StepInv DEF GetCached, Cached, disk, memory
<1>2. CASE GetMiss
  <2>1. NextKey \in CacheKeys
    BY <1>2, NextKeyInTodo DEF GetMiss
  <2>2. entry[NextKey].stage \in 0 .. 4
    BY <2>1 DEF SweepInv, SweepTypes
  <2>3. entry[NextKey].stage \in {0, 1}
    BY <1>2, <2>2 DEF GetMiss, Cached
  <2> QED
    BY <1>2, <2>3, StepInv DEF GetMiss, disk
<1>3. CASE RetryRequest
  <2>1. todo # {} /\ entry[NextKey].stage \in {0, 1}
    BY <1>3 DEF RetryRequest, SweepInv, InDay
  <2> QED
    BY <1>3, <2>1, StepInv DEF RetryRequest, disk
<1> QED
  BY <1>1, <1>2, <1>3

\* A usable entry is read, and the day needs one less.
LEMMA ParseUsableInv == ASSUME SweepInv, ParseUsable PROVE SweepInv'
<1>1. /\ step = "parse" /\ step' = "get" /\ entry[NextKey].payload \in Usable /\ todo' = todo \ {NextKey}
      /\ UNCHANGED <<unavailable, entry, swept, last, day, collected, gaps>>
  BY DEF ParseUsable, disk
<1>2. SweptInv' /\ DaysThrough'
  BY <1>1, SameEntries, SweptStays, DaysStay
<1>3. Read(NextKey)
  BY <1>1 DEF SweepInv, InDay, Read
<1>4. /\ AvailableLeads(day)' = AvailableLeads(day) /\ Chunk(day)' = Chunk(day)
      /\ \A k : Read(k)' = Read(k)
  BY <1>1 DEF AvailableLeads, MissingLeads, Chunk, Read
<1>5. InDay'
  BY <1>1, <1>3, <1>4, InTheDay DEF InDay
<1>6. SweepTypes'
  BY <1>1 DEF SweepInv, SweepTypes
<1> QED
  BY <1>2, <1>5, <1>6 DEF SweepInv

\* A short observation ends its day.
LEMMA ParseShortInv == ASSUME SweepInv, ParseShort PROVE SweepInv'
<1>1. /\ step = "parse" /\ step' = "day" /\ entry[NextKey].payload = "short" /\ day' = day + 1
      /\ gaps' = gaps \cup DayGaps(day) /\ UNCHANGED <<unavailable, entry, swept, last, collected>>
  BY DEF ParseShort, disk
<1>2. NextKey \in Chunk(day) /\ NextKey \in CacheKeys /\ entry[NextKey].stage = 4
  BY <1>1, NextKeyInTodo DEF SweepInv, InDay
<1>3. NextKey = <<"observation", day>>
  <2>1. NextKey[1] = "observation"
    BY <1>1, <1>2 DEF SweepInv, SweepTypes
  <2> QED
    BY <1>1, <1>2, <2>1, ChunkKeys, InTheDay
<1>4. Short(day)
  BY <1>1, <1>2, <1>3 DEF Short
<1>5. Through(day) /\ Recorded(day) = {} /\ GapsOf(day) = DayGaps(day) /\ day <= last
  BY <1>1, <1>4, InTheDay DEF Through, Recorded, GapsOf
<1>6. collected = [r \in DOMAIN collected |-> collected[r]] /\ \A r \in DOMAIN collected : r[1] # day
  <2>1. PICK n \in Nat : n = day - 1
    BY <1>1, SweepAssumption DEF SweepInv, SweepTypes, DaysThrough
  <2>2. collected = DatasetTo(n) /\ DOMAIN collected = RecordsTo(n)
    BY <1>1, <2>1 DEF SweepInv, DaysThrough, DatasetTo
  <2>3. \A d \in 1 .. n : d # day
    BY <2>1
  <2>4. \A d \in 1 .. n : \A r \in Recorded(d) : r[1] = d
    BY DEF Recorded
  <2> QED
    BY <2>2, <2>3, <2>4 DEF RecordsTo, DatasetTo
<1>7. collected = [r \in DOMAIN collected \cup Recorded(day) |->
                      IF r[1] = day THEN Record(r[1], r[2]) ELSE collected[r]]
  BY <1>5, <1>6
<1> QED
  BY <1>1, <1>5, <1>7, AdvanceInv

\* A day whose entries are all read is through.
LEMMA EndDayInv == ASSUME SweepInv, EndDay PROVE SweepInv'
<1>1. step = "get" /\ todo = {} /\ step' = "day" /\ day' = day + 1 /\ gaps' = gaps \cup RunGaps(day)
      /\ UNCHANGED <<unavailable, entry, swept, last>>
  BY DEF EndDay, disk
<1>2. /\ day \in 1 .. LastDay /\ day <= last /\ AvailableLeads(day) # {}
      /\ \A k \in Chunk(day) : Read(k)
  BY <1>1, InTheDay
<1>3. ~Short(day)
  BY <1>2, ChunkKeys DEF Short, Read, Usable
<1>4. Through(day) /\ Recorded(day) = {day} \X AvailableLeads(day) /\ GapsOf(day) = RunGaps(day)
  BY <1>2, <1>3 DEF Through, Recorded, GapsOf
<1>5. collected' = [r \in DOMAIN collected \cup Recorded(day) |->
                       IF r[1] = day THEN Record(r[1], r[2]) ELSE collected[r]]
  BY <1>4 DEF EndDay
<1> QED
  BY <1>1, <1>2, <1>4, <1>5, AdvanceInv

\* The cache gets a file of the entry that is fetched.
LEMMA EntryInv ==
    ASSUME SweepInv, step \in {"fetch", "store"}, NEW k, k = NextKey,
           NEW e \in [stage: 0 .. 4, payload: {None, "one", "other", "short", "malformed"}],
           e.stage > 0 /\ e.payload = "short" => k[1] = "observation",
           entry' = [entry EXCEPT ![k] = e],
           step' \in {"store", "parse"},
           step' = "store" => e.stage \in 1 .. 3, step' = "parse" => e.stage = 4,
           UNCHANGED <<unavailable, swept, last, day, todo, collected, gaps>>
    PROVE  SweepInv'
<1>1. k \in CacheKeys /\ k \in todo /\ entry[k].stage # 4 /\ todo # {}
  <2>1. todo # {} /\ entry[k].stage \in 0 .. 3
    BY DEF SweepInv, InDay
  <2> QED
    BY <2>1, NextKeyInTodo
<1>2. /\ entry' \in [CacheKeys -> [stage: 0 .. 4, payload: {None, "one", "other", "short", "malformed"}]]
      /\ entry'[k] = e /\ \A j \in CacheKeys : j # k => entry'[j] = entry[j]
  BY <1>1 DEF SweepInv, SweepTypes
<1>3. EntriesKept
  BY <1>1, <1>2 DEF EntriesKept
<1>4. SweptInv' /\ DaysThrough'
  BY <1>3, SweptStays, DaysStay
<1>5. /\ AvailableLeads(day)' = AvailableLeads(day) /\ Chunk(day)' = Chunk(day) /\ NextKey' = NextKey
      /\ \A j \in CacheKeys : j # k => Read(j)' = Read(j)
  BY <1>2 DEF AvailableLeads, MissingLeads, Chunk, NextKey, Read
<1>6. Chunk(day) \subseteq CacheKeys
  BY InTheDay, ChunkKeys
<1>7. \A j \in Chunk(day) \ todo : j \in CacheKeys /\ j # k /\ Read(j)
  BY <1>1, <1>6, InTheDay
<1>8. InDay'
  BY <1>1, <1>2, <1>5, <1>7, InTheDay DEF InDay
<1>9. SweepTypes'
  BY <1>2 DEF SweepInv, SweepTypes
<1> QED
  BY <1>4, <1>8, <1>9 DEF SweepInv

\* A response is stored file by file in an entry that was not complete.
LEMMA RespondInv == ASSUME SweepInv, Respond \/ Store PROVE SweepInv'
<1>1. PICK k : k = NextKey
  OBVIOUS
<1>2. CASE Respond
  <2>1. PICK p \in Payloads(k) : entry' = [entry EXCEPT ![k] = [stage |-> 1, payload |-> p]]
    BY <1>1, <1>2 DEF Respond
  <2> DEFINE e == [stage |-> 1, payload |-> p]
  <2>2. e \in [stage: 0 .. 4, payload: {None, "one", "other", "short", "malformed"}]
    BY DEF Payloads, Usable
  <2>3. e.stage = 1 /\ (e.payload = "short" => k[1] = "observation")
    BY DEF Payloads, Usable
  <2>4. entry' = [entry EXCEPT ![k] = e]
    BY <2>1
  <2>5. step = "fetch" /\ step' = "store" /\ UNCHANGED <<unavailable, swept, last, day, todo, collected, gaps>>
    BY <1>2 DEF Respond, memory
  <2> HIDE DEF e
  <2>6. e.stage \in 1 .. 3
    BY <2>3
  <2> QED
    BY <1>1, <2>2, <2>3, <2>4, <2>5, <2>6, EntryInv
<1>3. CASE Store
  <2> DEFINE e == [entry[k] EXCEPT !.stage = @ + 1]
  <2>1. /\ step = "store" /\ entry' = [entry EXCEPT ![k] = e]
        /\ step' = IF entry[k].stage = 3 THEN "parse" ELSE "store"
        /\ UNCHANGED <<unavailable, swept, last, day, todo, collected, gaps>>
    BY <1>1, <1>3 DEF Store, memory
  <2>2. k \in CacheKeys /\ entry[k].stage \in 1 .. 3
    BY <1>1, <2>1, NextKeyInTodo DEF SweepInv, InDay
  <2>3. /\ e \in [stage: 0 .. 4, payload: {None, "one", "other", "short", "malformed"}]
        /\ e.payload = entry[k].payload /\ e.stage = entry[k].stage + 1
    BY <2>2 DEF SweepInv, SweepTypes
  <2> HIDE DEF e
  <2>4. e.payload = "short" => k[1] = "observation"
    <3>1. entry[k].stage > 0
      BY <2>2
    <3> QED
      BY <2>2, <2>3, <3>1 DEF SweepInv, SweepTypes
  <2>5. (step' = "store" => e.stage \in 1 .. 3) /\ (step' = "parse" => e.stage = 4) /\ step' \in {"store", "parse"}
    BY <2>1, <2>2, <2>3
  <2> QED
    BY <1>1, <2>1, <2>3, <2>4, <2>5, EntryInv
<1> QED
  BY <1>2, <1>3

\* The report of a range is the report of its days.
LEMMA EndSweepInv == ASSUME SweepInv, EndSweep PROVE SweepInv'
<1>1. /\ step = "day" /\ step' = "write" /\ day > last /\ swept' = swept \cup {Report}
      /\ UNCHANGED <<unavailable, entry, last, day, todo, collected, gaps>>
  BY DEF EndSweep, memory
<1>2. PICK n \in 1 .. LastDay : n = last
  BY DEF SweepInv, SweepTypes
<1>3. day - 1 = n /\ n \in 0 .. LastDay
  BY <1>1, <1>2, SweepAssumption DEF SweepInv, DaysThrough
<1>4. Report = ReportOf(n) /\ \A d \in 1 .. n : Through(d)
  BY <1>1, <1>2, <1>3 DEF SweepInv, DaysThrough, Report, ReportOf
<1>5. EntriesKept
  BY <1>1, SameEntries
<1>6. ReportOf(n)' = ReportOf(n) /\ \A d \in 1 .. n : Through(d)'
  BY <1>3, <1>4, <1>5, ReportStays
<1>7. Report.last = n
  BY <1>2 DEF Report
<1>8. ASSUME NEW r \in swept
      PROVE  r.last \in 1 .. LastDay /\ (\A d \in 1 .. r.last : Through(d)') /\ r = ReportOf(r.last)'
  <2>1. PICK q \in 1 .. LastDay : q = r.last
    BY DEF SweepInv, SweptInv
  <2>2. q \in 0 .. LastDay /\ (\A d \in 1 .. q : Through(d)) /\ r = ReportOf(q)
    BY <2>1, SweepAssumption DEF SweepInv, SweptInv
  <2>3. ReportOf(q)' = ReportOf(q) /\ \A d \in 1 .. q : Through(d)'
    BY <1>5, <2>2, ReportStays
  <2> QED
    BY <2>1, <2>2, <2>3
<1>9. SweptInv'
  BY <1>1, <1>2, <1>4, <1>6, <1>7, <1>8 DEF SweptInv
<1>10. DaysThrough'
  BY <1>1, <1>5, DaysStay
<1> QED
  BY <1>1, <1>9, <1>10 DEF SweepInv, SweepTypes, InDay

\* Every step keeps the invariant.
LEMMA SweepNextInv == ASSUME SweepInv, [SweepNext]_sweepVars PROVE SweepInv'
<1>1. ASSUME NEW l \in 1 .. LastDay, NEW off \in BOOLEAN, StartSweep(l, off) PROVE SweepInv'
  BY <1>1, FreshInv DEF StartSweep, disk
<1>2. ASSUME Abort PROVE SweepInv'
  BY <1>2, AbortInv
<1>3. ASSUME RetrySweep PROVE SweepInv'
  <2>1. last' \in 1 .. LastDay
    BY <1>3 DEF RetrySweep, SweepInv, SweepTypes
  <2> QED
    BY <1>3, <2>1, FreshInv DEF RetrySweep, disk
<1>4. ASSUME WriteOutput PROVE SweepInv'
  <2>1. /\ step = "write" /\ step' \in {"idle", "write"}
        /\ UNCHANGED <<unavailable, entry, swept, last, day, todo, collected, gaps>>
    BY <1>4 DEF WriteOutput
  <2>2. DaysThrough' /\ SweptInv'
    BY <2>1, SameEntries, DaysStay, SweptStays
  <2> QED
    BY <2>1, <2>2 DEF SweepInv, SweepTypes, InDay
<1>5. ASSUME Crash PROVE SweepInv'
  BY <1>5, IdleInv DEF Crash, disk, memory
<1>6. ASSUME UNCHANGED sweepVars PROVE SweepInv'
  <2>1. UNCHANGED <<unavailable, entry, step, swept, last, day, todo, collected, gaps>>
    BY <1>6 DEF sweepVars
  <2>2. CASE step = "idle"
    BY <2>1, <2>2, IdleInv
  <2>3. CASE step # "idle"
    <3>1. DaysThrough' /\ SweptInv'
      BY <2>1, <2>3, SameEntries, DaysStay, SweptStays
    <3>2. /\ AvailableLeads(day)' = AvailableLeads(day) /\ Chunk(day)' = Chunk(day) /\ NextKey' = NextKey
          /\ \A k : Read(k)' = Read(k)
      BY <2>1 DEF AvailableLeads, MissingLeads, Chunk, NextKey, Read
    <3>3. InDay'
      BY <2>1, <3>2 DEF SweepInv, InDay
    <3> QED
      BY <2>1, <3>1, <3>3 DEF SweepInv, SweepTypes
  <2> QED
    BY <2>2, <2>3
<1>7. ASSUME Step PROVE SweepInv'
  BY <1>2, <1>3, <1>4, <1>7, BeginDayInv, GetInv, ParseUsableInv, ParseShortInv, RespondInv, EndDayInv, EndSweepInv
     DEF Step, GetFails, ParseFails, RespondStale, TransportFails, RequestRefused, EndEmpty
<1> QED
  BY <1>1, <1>5, <1>6, <1>7 DEF SweepNext, Left

\* "All three comparisons must be byte-identical": sweeps of the same range,
\* online after any failures and restarts or offline, have the same dataset
\* and report, because what a finished sweep has read never changes again.
THEOREM ReproducibleHolds == SweepSpec => []Reproducible
<1>1. SweepInv /\ [SweepNext]_sweepVars => SweepInv'
  BY SweepNextInv
<1>2. SweepInv => Reproducible
  BY DEF SweepInv, SweptInv, Reproducible
<1> QED
  BY <1>1, <1>2, SweepInitInv, PTL DEF SweepSpec

-----------------------------------------------------------------------------
(* The accounts: every day that is through adds as many records and gaps as *)
(* there are lead days.                                                     *)

GapValues(S) == [g \in S |-> Excluded(g)]
LeadDays == Cardinality(Horizons)

LEMMA HorizonsFinite == IsFiniteSet(Horizons) /\ LeadDays \in Nat
<1>1. 0 \in Int /\ MaxLead \in Int
  BY SweepAssumption
<1> QED
  BY <1>1, FS_Interval, FS_CardinalityType DEF Horizons, LeadDays

\* Pairs with one first component are as many as their second components.
LEMMA PairsCounted ==
    ASSUME NEW d, NEW S, IsFiniteSet(S)
    PROVE  IsFiniteSet({d} \X S) /\ Cardinality({d} \X S) = Cardinality(S)
<1> DEFINE f == [x \in S |-> <<d, x>>]
<1>1. f \in Bijection(S, {d} \X S)
  BY DEF Bijection, Injection, Surjection, IsInjective
<1>2. ExistsBijection(S, {d} \X S)
  BY <1>1 DEF ExistsBijection
<1> QED
  BY <1>2, FS_Bijection

\* There is one gap for each lead day without a run.
LEMMA RunGapsCounted ==
    ASSUME NEW d
    PROVE  IsFiniteSet(RunGaps(d)) /\ Cardinality(RunGaps(d)) = Cardinality(MissingLeads(d))
<1> DEFINE S == MissingLeads(d)
           f == [h \in S |-> [day |-> d, lead |-> h]]
<1>1. f \in Bijection(S, RunGaps(d))
  BY DEF Bijection, Injection, Surjection, IsInjective, RunGaps
<1>2. ExistsBijection(S, RunGaps(d))
  BY <1>1 DEF ExistsBijection
<1>3. IsFiniteSet(S)
  BY HorizonsFinite, FS_Subset DEF MissingLeads
<1> QED
  BY <1>2, <1>3, FS_Bijection

\* A gap excludes a number of records.
LEMMA ExcludedNat == \A g : Excluded(g) \in Nat
BY HorizonsFinite DEF Excluded, LeadDays

\* The gaps of a finite set exclude a number of records.
LEMMA ValuesSum ==
    ASSUME NEW S, IsFiniteSet(S)
    PROVE  SumFunction(GapValues(S)) \in Int
<1> DEFINE f == GapValues(S)
<1>1. S = DOMAIN f /\ \A x \in S : f[x] \in Int
  BY ExcludedNat DEF GapValues
<1> HIDE DEF f
<1> QED
  BY <1>1, SumFacts DEF f

\* One more gap excludes its own number more.
LEMMA ValuesOneMore ==
    ASSUME NEW S, IsFiniteSet(S), NEW x, x \notin S
    PROVE  SumFunction(GapValues(S \cup {x})) = SumFunction(GapValues(S)) + Excluded(x)
<1> DEFINE A == S \cup {x}
           f == GapValues(A)
           e == GapValues(S)
<1>1. OneLess(f, e, A, x) /\ f[x] = Excluded(x)
  BY ExcludedNat DEF OneLess, GapValues
<1>2. IsFiniteSet(A)
  BY FS_AddElement
<1> HIDE DEF A, f, e
<1>3. SumFunction(f) = f[x] + SumFunction(e)
  BY <1>1, <1>2, SumRest
<1>4. SumFunction(e) \in Int /\ Excluded(x) \in Int
  BY ValuesSum, ExcludedNat DEF e
<1> QED
  BY <1>1, <1>3, <1>4 DEF A, f, e

\* No gap excludes nothing.
LEMMA NoValues == SumFunction(GapValues({})) = 0
<1> DEFINE f == GapValues({})
           S == DOMAIN f
<1>1. S = {}
  BY DEF GapValues
<1>2. IsFiniteSet(S) /\ \A x \in S : f[x] \in Int
  BY <1>1, FS_EmptySet
<1> HIDE DEF f
<1>3. S = {} => SumFunction(f) = 0
  BY <1>2, SumFacts
<1> QED
  BY <1>1, <1>3 DEF f

\* Gaps that exclude one record each.
LEMMA SinglesAdded ==
    ASSUME NEW T, IsFiniteSet(T), NEW U, IsFiniteSet(U), T \cap U = {}, \A g \in U : Excluded(g) = 1
    PROVE  SumFunction(GapValues(T \cup U)) = SumFunction(GapValues(T)) + Cardinality(U)
<1> DEFINE Ok(V) == SumFunction(GapValues(T \cup V)) = SumFunction(GapValues(T)) + Cardinality(V)
           A == {V \in SUBSET U : Ok(V)}
<1>1. {} \in A
  <2>1. T \cup {} = T /\ Cardinality({}) = 0
    BY FS_EmptySet
  <2> QED
    BY <2>1, ValuesSum
<1>2. ASSUME NEW V \in SUBSET U, NEW x \in U \ V, V \in A PROVE V \cup {x} \in A
  <2>1. IsFiniteSet(V) /\ Cardinality(V) \in Nat /\ Cardinality(V \cup {x}) = Cardinality(V) + 1
    BY FS_Subset, FS_AddElement, FS_CardinalityType
  <2>2. IsFiniteSet(T \cup V) /\ x \notin T \cup V
    BY <2>1, FS_Union
  <2>3. SumFunction(GapValues((T \cup V) \cup {x})) = SumFunction(GapValues(T \cup V)) + Excluded(x)
    BY <2>2, ValuesOneMore
  <2>4. (T \cup V) \cup {x} = T \cup (V \cup {x})
    OBVIOUS
  <2>5. Excluded(x) = 1 /\ SumFunction(GapValues(T)) \in Int
    BY ValuesSum
  <2>6. Ok(V)
    BY <1>2
  <2> DEFINE s == SumFunction(GapValues(T))
             n == Cardinality(V)
             q == SumFunction(GapValues(T \cup V))
  <2>7. /\ q = s + n /\ s \in Int /\ n \in Nat
        /\ SumFunction(GapValues(T \cup (V \cup {x}))) = q + 1 /\ Cardinality(V \cup {x}) = n + 1
    BY <2>1, <2>3, <2>4, <2>5, <2>6
  <2> HIDE DEF s, n, q
  <2>8. SumFunction(GapValues(T \cup (V \cup {x}))) = s + Cardinality(V \cup {x})
    BY <2>7
  <2>9. Ok(V \cup {x})
    BY <2>8 DEF s
  <2> QED
    BY <1>2, <2>9
<1> HIDE DEF A
<1>3. U \in A
  BY <1>1, <1>2, InductionOnFiniteSets
<1> QED
  BY <1>3 DEF A

\* What one day that is through adds.
LEMMA DayCounted ==
    ASSUME NEW T, IsFiniteSet(T), NEW d, \A g \in T : g.day # d
    PROVE  /\ IsFiniteSet(Recorded(d)) /\ IsFiniteSet(GapsOf(d)) /\ IsFiniteSet(T \cup GapsOf(d))
           /\ Cardinality(Recorded(d)) + SumFunction(GapValues(T \cup GapsOf(d)))
                 = SumFunction(GapValues(T)) + LeadDays
<1>1. /\ MissingLeads(d) \subseteq Horizons /\ AvailableLeads(d) \subseteq Horizons
      /\ MissingLeads(d) = Horizons \ AvailableLeads(d)
  BY DEF MissingLeads, AvailableLeads
<1>2. /\ IsFiniteSet(MissingLeads(d)) /\ IsFiniteSet(AvailableLeads(d))
      /\ Cardinality(MissingLeads(d)) \in Nat /\ Cardinality(AvailableLeads(d)) \in Nat
  BY <1>1, HorizonsFinite, FS_Subset, FS_CardinalityType
<1>3. LeadDays = Cardinality(AvailableLeads(d)) + Cardinality(MissingLeads(d))
  <2>1. AvailableLeads(d) \cap MissingLeads(d) = {} /\ AvailableLeads(d) \cup MissingLeads(d) = Horizons
    BY <1>1
  <2>2. Cardinality(AvailableLeads(d) \cup MissingLeads(d)) =
          Cardinality(AvailableLeads(d)) + Cardinality(MissingLeads(d))
            - Cardinality(AvailableLeads(d) \cap MissingLeads(d))
    BY <1>2, FS_Union
  <2>3. Cardinality({}) = 0
    BY FS_EmptySet
  <2> DEFINE a == Cardinality(AvailableLeads(d))
             m == Cardinality(MissingLeads(d))
  <2>4. Cardinality(Horizons) = a + m - 0 /\ a \in Nat /\ m \in Nat
    BY <1>2, <2>1, <2>2, <2>3
  <2> HIDE DEF a, m
  <2>5. Cardinality(Horizons) = a + m
    BY <2>4
  <2> QED
    BY <2>5 DEF LeadDays, a, m
<1>4. SumFunction(GapValues(T)) \in Int
  BY ValuesSum
<1>5. CASE AvailableLeads(d) # {} /\ Short(d)
  <2> DEFINE g == [day |-> d, lead |-> None]
  <2>1. Recorded(d) = {} /\ GapsOf(d) = {g} /\ Excluded(g) = LeadDays /\ g.day = d
    BY <1>5 DEF Recorded, GapsOf, DayGaps, Excluded, LeadDays
  <2> HIDE DEF g
  <2>2. g \notin T
    BY <2>1
  <2>3. SumFunction(GapValues(T \cup {g})) = SumFunction(GapValues(T)) + LeadDays
    BY <2>1, <2>2, ValuesOneMore
  <2>4. IsFiniteSet({}) /\ Cardinality({}) = 0 /\ IsFiniteSet({g}) /\ IsFiniteSet(T \cup {g})
    BY FS_EmptySet, FS_Singleton, FS_AddElement
  <2> QED
    BY <1>4, <2>1, <2>3, <2>4, HorizonsFinite
<1>6. CASE ~(AvailableLeads(d) # {} /\ Short(d))
  <2>1. Recorded(d) = {d} \X AvailableLeads(d) /\ GapsOf(d) = RunGaps(d)
    BY <1>6 DEF Recorded, GapsOf
  <2>2. \A g \in RunGaps(d) : Excluded(g) = 1 /\ g \notin T
    BY <1>1, NoLeadAssumption DEF RunGaps, Excluded
  <2>3. /\ IsFiniteSet(RunGaps(d)) /\ Cardinality(RunGaps(d)) = Cardinality(MissingLeads(d))
        /\ IsFiniteSet({d} \X AvailableLeads(d))
        /\ Cardinality({d} \X AvailableLeads(d)) = Cardinality(AvailableLeads(d))
    BY <1>2, RunGapsCounted, PairsCounted
  <2>4. SumFunction(GapValues(T \cup RunGaps(d))) = SumFunction(GapValues(T)) + Cardinality(RunGaps(d))
    <3>1. T \cap RunGaps(d) = {}
      BY <2>2
    <3> QED
      BY <2>2, <2>3, <3>1, SinglesAdded
  <2>5. IsFiniteSet(T \cup RunGaps(d))
    BY <2>3, FS_Union
  <2> QED
    BY <1>2, <1>3, <1>4, <2>1, <2>3, <2>4, <2>5
<1> QED
  BY <1>5, <1>6

\* The records and the excluded records of n days are n times the lead days.
LEMMA DaysCounted ==
    ASSUME NEW m \in Nat
    PROVE  /\ IsFiniteSet(RecordsTo(m)) /\ IsFiniteSet(GapsTo(m))
           /\ Cardinality(RecordsTo(m)) + SumFunction(GapValues(GapsTo(m))) = m * LeadDays
<1> DEFINE Ok(n) == /\ IsFiniteSet(RecordsTo(n)) /\ IsFiniteSet(GapsTo(n))
                    /\ Cardinality(RecordsTo(n)) + SumFunction(GapValues(GapsTo(n))) = n * LeadDays
           A == {n \in Nat : Ok(n)}
<1>1. 0 \in A
  <2>1. RecordsTo(0) = {} /\ GapsTo(0) = {}
    BY Grows
  <2>2. IsFiniteSet({}) /\ Cardinality({}) = 0
    BY FS_EmptySet
  <2> QED
    BY <2>1, <2>2, NoValues, HorizonsFinite
<1>2. ASSUME NEW n \in Nat, n \in A PROVE n + 1 \in A
  <2> DEFINE d == n + 1
             R == RecordsTo(n)
             G == GapsTo(n)
             D == Recorded(d)
             c == Cardinality(R)
             v == SumFunction(GapValues(G))
             w == SumFunction(GapValues(G \cup GapsOf(d)))
  <2>1. RecordsTo(d) = R \cup D /\ GapsTo(d) = G \cup GapsOf(d)
    BY Grows
  <2>2. IsFiniteSet(R) /\ IsFiniteSet(G) /\ c + v = n * LeadDays
    BY <1>2
  <2>3. \A g \in G : g.day # d
    <3>1. \A e \in 1 .. n : e # d
      OBVIOUS
    <3>2. \A e \in 1 .. n : \A g \in GapsOf(e) : g.day = e
      BY DEF GapsOf, DayGaps, RunGaps
    <3> QED
      BY <3>1, <3>2 DEF GapsTo
  <2>4. \A r \in R : r \notin D
    <3>1. \A e \in 1 .. n : e # d
      OBVIOUS
    <3>2. \A e : \A r \in Recorded(e) : r[1] = e
      BY DEF Recorded
    <3> QED
      BY <3>1, <3>2 DEF RecordsTo
  <2> HIDE DEF d, R, G
  <2>5. /\ IsFiniteSet(D) /\ IsFiniteSet(G \cup GapsOf(d))
        /\ Cardinality(D) + w = v + LeadDays
    BY <2>2, <2>3, DayCounted
  <2>6. /\ IsFiniteSet(R \cup D)
        /\ Cardinality(R \cup D) = c + Cardinality(D) - Cardinality(R \cap D)
    BY <2>2, <2>5, FS_Union
  <2>7. R \cap D = {} /\ Cardinality({}) = 0
    BY <2>4, FS_EmptySet
  <2>8. c \in Nat /\ Cardinality(D) \in Nat /\ v \in Int /\ w \in Int /\ LeadDays \in Nat
    BY <2>2, <2>5, ValuesSum, HorizonsFinite, FS_CardinalityType
  <2> DEFINE q == Cardinality(D)
             p == Cardinality(R \cup D)
  <2>9. p = c + q - 0 /\ q + w = v + LeadDays /\ q \in Nat
    BY <2>5, <2>6, <2>7, <2>8
  <2>10. d * LeadDays = n * LeadDays + LeadDays
    BY <2>8 DEF d
  <2> HIDE DEF c, v, w, q, p, D
  <2>11. p + w = d * LeadDays
    <3>1. n * LeadDays \in Int
      BY <2>8
    <3> QED
      BY <2>2, <2>8, <2>9, <2>10, <3>1
  <2>12. Ok(d)
    BY <2>1, <2>5, <2>6, <2>11 DEF p, w
  <2> QED
    BY <2>12 DEF d
<1> HIDE DEF A
<1>3. m \in A
  BY <1>1, <1>2, InductionOnNaturals
<1> QED
  BY <1>3 DEF A

\* So the accounts of every range swept agree.
LEMMA AccountsOfInv == SweepInv => Accounted
<1> SUFFICES ASSUME SweepInv, step = "day", day > last PROVE
        /\ AccountsAgree
        /\ \A d \in 1..last :
              [day |-> d, lead |-> None] \notin gaps =>
                  \A h \in Horizons :
                      (<<d, h>> \in DOMAIN collected) # ([day |-> d, lead |-> h] \in gaps)
        /\ \A g \in gaps :
              IF g.lead = None THEN entry[<<"observation", g.day>>].payload = "short"
              ELSE g.day - g.lead \in unavailable
  BY DEF Accounted
<1>1. PICK n \in Nat : n = last
  BY SweepAssumption DEF SweepInv, SweepTypes
<1>2. day - 1 = n
  BY <1>1, SweepAssumption DEF SweepInv, SweepTypes, DaysThrough
<1>3. /\ \A d \in 1 .. n : Through(d)
      /\ collected = DatasetTo(n) /\ gaps = GapsTo(n) /\ DOMAIN collected = RecordsTo(n)
  BY <1>2 DEF SweepInv, DaysThrough, DatasetTo
<1>4. AccountsAgree
  <2>1. Cardinality(RecordsTo(n)) + SumFunction(GapValues(GapsTo(n))) = n * LeadDays
    BY DaysCounted
  <2> QED
    BY <1>1, <1>3, <2>1 DEF AccountsAgree, GapValues, LeadDays
<1>5. ASSUME NEW d \in 1 .. n
      PROVE  /\ \A h \in Horizons : <<d, h>> \in RecordsTo(n) <=> <<d, h>> \in Recorded(d)
             /\ \A l : [day |-> d, lead |-> l] \in GapsTo(n) <=> [day |-> d, lead |-> l] \in GapsOf(d)
  <2>1. \A e : \A r \in Recorded(e) : r[1] = e
    BY DEF Recorded
  <2>2. \A e : \A g \in GapsOf(e) : g.day = e
    BY DEF GapsOf, DayGaps, RunGaps
  <2> QED
    BY <2>1, <2>2 DEF RecordsTo, GapsTo
<1>6. ASSUME NEW d \in 1 .. n, [day |-> d, lead |-> None] \notin gaps, NEW h \in Horizons
      PROVE  (<<d, h>> \in DOMAIN collected) # ([day |-> d, lead |-> h] \in gaps)
  <2>1. [day |-> d, lead |-> None] \notin GapsOf(d)
    BY <1>3, <1>5, <1>6
  <2>2. ~(AvailableLeads(d) # {} /\ Short(d))
    BY <2>1 DEF GapsOf, DayGaps
  <2>3. Recorded(d) = {d} \X AvailableLeads(d) /\ GapsOf(d) = RunGaps(d)
    BY <2>2 DEF Recorded, GapsOf
  <2>4. <<d, h>> \in Recorded(d) <=> h \notin MissingLeads(d)
    BY <2>3 DEF AvailableLeads
  <2>5. [day |-> d, lead |-> h] \in GapsOf(d) <=> h \in MissingLeads(d)
    BY <2>3 DEF RunGaps
  <2> QED
    BY <1>3, <1>5, <2>4, <2>5
<1>7. ASSUME NEW g \in gaps
      PROVE  IF g.lead = None THEN entry[<<"observation", g.day>>].payload = "short"
             ELSE g.day - g.lead \in unavailable
  <2>1. PICK d \in 1 .. n : g \in GapsOf(d)
    BY <1>3, <1>7 DEF GapsTo
  <2>2. CASE AvailableLeads(d) # {} /\ Short(d)
    BY <2>1, <2>2 DEF GapsOf, DayGaps, Short
  <2>3. CASE ~(AvailableLeads(d) # {} /\ Short(d))
    <3>1. PICK h \in MissingLeads(d) : g = [day |-> d, lead |-> h]
      BY <2>1, <2>3 DEF GapsOf, RunGaps
    <3>2. h # None /\ d - h \in unavailable
      BY NoLeadAssumption DEF MissingLeads
    <3> QED
      BY <3>1, <3>2
  <2> QED
    BY <2>2, <2>3
<1> QED
  BY <1>1, <1>4, <1>6, <1>7

\* After whatever retries and restarts, when the days are through every
\* record of the range is collected or excluded, for its own reason: the
\* accounting check of CalibrationSparseReport never fails.
THEOREM AccountedHolds == SweepSpec => []Accounted
<1>1. SweepInv /\ [SweepNext]_sweepVars => SweepInv'
  BY SweepNextInv
<1> QED
  BY <1>1, AccountsOfInv, SweepInitInv, PTL DEF SweepSpec

-----------------------------------------------------------------------------
(* The experiment *)

(* What the case list is, and how far the replay has come. *)
ReplayTypes ==
  /\ evidence \in [Cases -> CaseType] /\ ValidEvidence(evidence, id)
  /\ case \in 1 .. (N + 1)
  /\ pending \subseteq {d \in 1 .. (case - 1) : Waits(d)}
  /\ results = [c \in Cases |-> results[c]]
  /\ \A c \in Cases : results[c] = [status |-> results[c].status, settled |-> results[c].settled]
  /\ seen = [c \in Cases |-> seen[c]]
  /\ owners = [k \in Keys |-> owners[k]]
  /\ phase = "decide" => case <= N /\ DuePending = {}
  /\ phase = "done" => pending = {}

(* A settlement that was processed is earlier than the next decision. *)
ProcessedInv ==
  case <= N => \A d \in 1 .. (case - 1) :
    Waits(d) /\ d \notin pending => At(d) < evidence[case].decision

SeenInv ==
  /\ DecisionsSeeThePast
  /\ \A c \in Cases : results[c].status # None => c < case

(* What was settled is not pending and not later than what is. *)
OrderInv ==
  /\ IsSequence(order)
  /\ \A i \in DOMAIN order :
       order[i] \in 1 .. (case - 1) /\ Waits(order[i]) /\ order[i] \notin pending
  /\ \A i \in DOMAIN order : \A d \in pending : At(order[i]) <= At(d)
  /\ \A i, j \in DOMAIN order : i < j => At(order[i]) <= At(order[j])

(* The fills of an open position wait for their settlement, if they have one. *)
OpenInv ==
  \A k \in Keys : owners[k] # {None} =>
    \A c \in owners[k] :
      /\ c \in 1 .. (case - 1) /\ evidence[c].key = k
      /\ phase # "aborted" => At(c) = None \/ c \in pending

ReplayInv == ReplayTypes /\ ProcessedInv /\ SeenInv /\ OrderInv /\ OpenInv

-----------------------------------------------------------------------------
(* Evidence never changes: neither do the times and what waits. *)

LEMMA CaseFacts ==
  ASSUME ReplayTypes
  PROVE  /\ N \in Nat /\ case \in Nat /\ case >= 1 /\ case <= N + 1
         /\ \A c \in 1 .. (case - 1) : c \in Cases
         /\ \A c \in Cases :
              /\ evidence[c].decision \in Nat /\ evidence[c].key \in Keys
              /\ At(c) # None => At(c) \in Nat /\ At(c) >= evidence[c].decision
         /\ \A c \in pending : c \in 1 .. (case - 1) /\ Waits(c) /\ At(c) \in Nat
<1>1. N \in Nat /\ Times \subseteq Nat
  BY ExperimentAssumption
<1>2. case \in Nat /\ case >= 1 /\ case <= N + 1 /\ \A c \in 1 .. (case - 1) : c \in Cases
  BY <1>1 DEF ReplayTypes, Cases
<1>3. ASSUME NEW c \in Cases
      PROVE  /\ evidence[c].decision \in Nat /\ evidence[c].key \in Keys
             /\ At(c) # None => At(c) \in Nat /\ At(c) >= evidence[c].decision
  <2>1. evidence[c] \in CaseType
    BY DEF ReplayTypes
  <2>2. evidence[c].settlement # None => evidence[c].settlement >= evidence[c].decision
    BY DEF ReplayTypes, ValidEvidence
  <2> QED
    BY <1>1, <2>1, <2>2 DEF CaseType, At
<1>4. \A c \in pending : c \in 1 .. (case - 1) /\ Waits(c)
  BY DEF ReplayTypes
<1>5. \A c \in pending : At(c) \in Nat
  BY <1>2, <1>3, <1>4 DEF Waits
<1> QED
  BY <1>1, <1>2, <1>3, <1>4, <1>5

LEMMA ReplayInitInv == ReplayInit => ReplayInv
<1> SUFFICES ASSUME ReplayInit PROVE ReplayInv
  OBVIOUS
<1>1. N \in Nat /\ N >= 1
  BY ExperimentAssumption
<1>2. /\ case = 1 /\ pending = {} /\ phase = "settle" /\ results = [c \in Cases |-> NoResult]
      /\ owners = [k \in Keys |-> {}] /\ order = <<>> /\ seen = [c \in Cases |-> {}]
      /\ evidence \in [Cases -> CaseType] /\ ValidEvidence(evidence, id)
  BY DEF ReplayInit, ReplayStart
<1>3. \A c \in Cases : results[c] = [status |-> None, settled |-> {}] /\ results[c].status = None
  BY <1>2 DEF NoResult
<1>4. ReplayTypes
  BY <1>1, <1>2, <1>3 DEF ReplayTypes
<1>5. ProcessedInv /\ SeenInv
  BY <1>2, <1>3 DEF ProcessedInv, SeenInv, DecisionsSeeThePast
<1>6. IsSequence(order) /\ DOMAIN order = {}
  BY <1>2, EmptySequence
<1>7. OrderInv /\ OpenInv
  BY <1>2, <1>6 DEF OrderInv, OpenInv
<1> QED
  BY <1>4, <1>5, <1>7 DEF ReplayInv

(* The three ways a settlement that is due is processed. *)
LEMMA SettleFacts ==
  ASSUME ReplayInv, Settle
  PROVE  \E c \in pending :
           /\ Due(c) /\ pending' = pending \ {c} /\ phase = "settle"
           /\ \A d \in pending \ {c} : At(c) <= At(d)
           /\ UNCHANGED <<evidence, id, case, seen>>
           /\ \A d \in Cases : results'[d].status = results[d].status
           /\ results' = [d \in Cases |-> results'[d]]
           /\ \A d \in Cases : results'[d] = [status |-> results'[d].status, settled |-> results'[d].settled]
           /\ owners' = [k \in Keys |-> owners'[k]]
           /\ \/ /\ UNCHANGED <<phase, owners, order>>
                 /\ owners[evidence[c].key] = {} \/ owners[evidence[c].key] = {None}
              \/ phase' = "aborted" /\ UNCHANGED <<owners, order>>
              \/ /\ UNCHANGED phase /\ order' = Append(order, c)
                 /\ owners'[evidence[c].key] = {None}
                 /\ \A k \in Keys : k # evidence[c].key => owners'[k] = owners[k]
<1> DEFINE Plain == UNCHANGED <<phase, results, owners, resolution, order>>
           Conflict == phase' = "aborted" /\ UNCHANGED <<results, owners, resolution, order>>
           Whole(c) == /\ results' = [results EXCEPT ![c].settled = owners[evidence[c].key]]
                       /\ owners' = [owners EXCEPT ![evidence[c].key] = {None}]
                       /\ order' = Append(order, c)
                       /\ UNCHANGED phase
<1>1. PICK c \in DuePending :
        /\ \A d \in DuePending \ {c} : Before(c, d)
        /\ pending' = pending \ {c}
        /\ \/ Plain /\ (owners[evidence[c].key] = {} \/ owners[evidence[c].key] = {None})
           \/ Conflict
           \/ Whole(c)
  BY DEF Settle
<1>2. phase = "settle" /\ UNCHANGED <<evidence, id, case, seen>>
  BY DEF Settle
<1>3. c \in pending /\ Due(c) /\ c \in Cases /\ evidence[c].key \in Keys
  BY <1>1, CaseFacts DEF DuePending, ReplayInv
<1>4. ASSUME NEW d \in pending \ {c} PROVE At(c) <= At(d)
  <2>1. At(c) \in Nat /\ At(d) \in Nat
    BY <1>3, CaseFacts DEF ReplayInv
  <2>2. CASE Due(d)
    BY <1>1, <2>1, <2>2 DEF DuePending, Before
  <2>3. CASE ~Due(d)
    <3>1. case <= N /\ evidence[case].decision \in Nat
      BY <2>3, CaseFacts DEF Due, ReplayInv, Cases
    <3> QED
      BY <1>3, <2>1, <2>3, <3>1 DEF Due
  <2> QED
    BY <2>2, <2>3
<1>5. /\ results = [d \in Cases |-> results[d]] /\ owners = [k \in Keys |-> owners[k]]
      /\ \A d \in Cases : results[d] = [status |-> results[d].status, settled |-> results[d].settled]
  BY DEF ReplayInv, ReplayTypes
<1>6. CASE Plain /\ (owners[evidence[c].key] = {} \/ owners[evidence[c].key] = {None})
  BY <1>1, <1>2, <1>3, <1>4, <1>5, <1>6
<1>7. CASE Conflict
  BY <1>1, <1>2, <1>3, <1>4, <1>5, <1>7
<1>8. CASE Whole(c)
  <2>1. /\ \A d \in Cases : results'[d].status = results[d].status
        /\ results' = [d \in Cases |-> results'[d]]
        /\ \A d \in Cases : results'[d] = [status |-> results'[d].status, settled |-> results'[d].settled]
    BY <1>3, <1>5, <1>8
  <2>2. /\ owners' = [k \in Keys |-> owners'[k]] /\ owners'[evidence[c].key] = {None}
        /\ \A k \in Keys : k # evidence[c].key => owners'[k] = owners[k]
    BY <1>3, <1>5, <1>8
  <2> QED
    BY <1>1, <1>2, <1>3, <1>4, <1>8, <2>1, <2>2
<1> QED
  BY <1>1, <1>6, <1>7, <1>8

LEMMA SettleInv == ASSUME ReplayInv, Settle PROVE ReplayInv'
<1>1. PICK c \in pending :
           /\ Due(c) /\ pending' = pending \ {c} /\ phase = "settle"
           /\ \A d \in pending \ {c} : At(c) <= At(d)
           /\ UNCHANGED <<evidence, id, case, seen>>
           /\ \A d \in Cases : results'[d].status = results[d].status
           /\ results' = [d \in Cases |-> results'[d]]
           /\ \A d \in Cases : results'[d] = [status |-> results'[d].status, settled |-> results'[d].settled]
           /\ owners' = [k \in Keys |-> owners'[k]]
           /\ \/ /\ UNCHANGED <<phase, owners, order>>
                 /\ owners[evidence[c].key] = {} \/ owners[evidence[c].key] = {None}
              \/ phase' = "aborted" /\ UNCHANGED <<owners, order>>
              \/ /\ UNCHANGED phase /\ order' = Append(order, c)
                 /\ owners'[evidence[c].key] = {None}
                 /\ \A k \in Keys : k # evidence[c].key => owners'[k] = owners[k]
  BY SettleFacts
<1>2. \A d : At(d)' = At(d) /\ (Waits(d)' <=> Waits(d))
  BY <1>1 DEF At, Waits, Status
<1>3. ReplayTypes'
  BY <1>1, <1>2 DEF ReplayInv, ReplayTypes
<1>4. ProcessedInv'
  BY <1>1, <1>2 DEF ReplayInv, ProcessedInv, Due
<1>5. SeenInv'
  BY <1>1, <1>2 DEF ReplayInv, SeenInv, DecisionsSeeThePast
<1>6. c \in 1 .. (case - 1) /\ Waits(c) /\ At(c) \in Nat
  BY <1>1, CaseFacts DEF ReplayInv
<1>7. OrderInv'
  <2>1. CASE order' = order
    BY <1>1, <1>2, <2>1 DEF ReplayInv, OrderInv
  <2>2. CASE order' = Append(order, c)
    <3>1. /\ IsSequence(order') /\ DOMAIN order' = DOMAIN order \cup {Len(order) + 1}
          /\ order'[Len(order) + 1] = c /\ \A i \in DOMAIN order : order'[i] = order[i]
      BY <2>2, AppendElements DEF ReplayInv, OrderInv
    <3>2. DOMAIN order = 1 .. Len(order) /\ Len(order) \in Nat
      BY SequenceDomain DEF ReplayInv, OrderInv
    <3>3. \A i \in DOMAIN order' : order'[i] = c \/ (i \in DOMAIN order /\ order'[i] = order[i])
      BY <3>1
    <3>4. \A i \in DOMAIN order' :
            order'[i] \in 1 .. (case' - 1) /\ Waits(order'[i]) /\ order'[i] \notin pending'
      BY <1>1, <1>6, <3>3 DEF ReplayInv, OrderInv
    <3>5. \A i \in DOMAIN order' : \A d \in pending' : At(order'[i]) <= At(d)
      BY <1>1, <3>3 DEF ReplayInv, OrderInv
    <3>6. \A i, j \in DOMAIN order' : i < j => At(order'[i]) <= At(order'[j])
      BY <1>1, <3>1, <3>2 DEF ReplayInv, OrderInv
    <3>7. \A i, j \in DOMAIN order' : i < j => At(order[i])' <= At(order[j])'
      BY <1>2, <3>6
    <3>8. \A i \in DOMAIN order' : Waits(order[i])' /\ \A d \in pending' : At(order[i])' <= At(d)'
      BY <1>2, <3>4, <3>5
    <3> QED
      BY <3>1, <3>4, <3>7, <3>8 DEF OrderInv
  <2> QED
    BY <1>1, <2>1, <2>2
<1>8. OpenInv'
  <2> SUFFICES ASSUME NEW k \in Keys, owners'[k] # {None}, NEW d \in owners'[k]
               PROVE  /\ d \in 1 .. (case - 1) /\ evidence[d].key = k
                      /\ phase' # "aborted" => At(d) = None \/ d \in pending'
    BY <1>1, <1>2 DEF OpenInv
  <2>1. owners'[k] = owners[k]
    BY <1>1
  <2>2. /\ d \in 1 .. (case - 1) /\ evidence[d].key = k
        /\ phase # "aborted" => At(d) = None \/ d \in pending
    BY <2>1 DEF ReplayInv, OpenInv
  <2> QED
    BY <1>1, <2>1, <2>2
<1> QED
  BY <1>3, <1>4, <1>5, <1>7, <1>8 DEF ReplayInv

LEMMA SettledInv == ASSUME ReplayInv, Settled PROVE ReplayInv'
<1>1. /\ phase = "settle" /\ DuePending = {} /\ phase' = IF case <= N THEN "decide" ELSE "done"
      /\ UNCHANGED <<evidence, id, case, pending, results, owners, resolution, order, seen>>
  BY DEF Settled
<1>2. \A d : At(d)' = At(d) /\ (Waits(d)' <=> Waits(d)) /\ (Due(d)' <=> Due(d))
  BY <1>1 DEF At, Waits, Status, Due
<1>3. DuePending' = {}
  BY <1>1, <1>2 DEF DuePending
<1>4. case > N => pending = {}
  BY <1>1, CaseFacts DEF DuePending, Due, ReplayInv
<1>5. ReplayTypes'
  BY <1>1, <1>2, <1>3, <1>4, CaseFacts DEF ReplayInv, ReplayTypes
<1>6. ProcessedInv' /\ SeenInv' /\ OrderInv' /\ OpenInv'
  BY <1>1, <1>2 DEF ReplayInv, ProcessedInv, SeenInv, DecisionsSeeThePast, OrderInv, OpenInv
<1> QED
  BY <1>5, <1>6 DEF ReplayInv

(* The settlements a decision sees are those of its past. *)
LEMMA SeenIsPast ==
  ASSUME ReplayInv, phase = "decide"
  PROVE  {d \in 1 .. (case - 1) : Waits(d)} \ pending
           = {d \in 1 .. (case - 1) : Waits(d) /\ At(d) < evidence[case].decision}
<1>1. case <= N /\ DuePending = {}
  BY DEF ReplayInv, ReplayTypes
<1>2. \A d \in pending : ~(At(d) < evidence[case].decision)
  BY <1>1 DEF DuePending, Due
<1>3. \A d \in 1 .. (case - 1) : Waits(d) /\ d \notin pending => At(d) < evidence[case].decision
  BY <1>1 DEF ReplayInv, ProcessedInv
<1> QED
  BY <1>2, <1>3

LEMMA DecideInv == ASSUME ReplayInv, Decide PROVE ReplayInv'
<1> DEFINE past == {d \in 1 .. (case - 1) : Waits(d) /\ At(d) < evidence[case].decision}
<1>1. phase = "decide" /\ UNCHANGED <<evidence, id, resolution, order>>
  BY DEF Decide
<1>2. /\ case <= N /\ case \in Cases /\ case \in Nat /\ case >= 1 /\ N \in Nat
      /\ evidence[case].decision \in Nat /\ evidence[case].key \in Keys
      /\ At(case) # None => At(case) \in Nat /\ At(case) >= evidence[case].decision
  BY <1>1, CaseFacts DEF ReplayInv, ReplayTypes, Cases
<1>3. seen' = [seen EXCEPT ![case] = past]
  BY <1>1, SeenIsPast DEF Decide
<1>4. seen' = [c \in Cases |-> seen'[c]] /\ seen'[case] = past /\ \A c \in Cases : c # case => seen'[c] = seen[c]
  BY <1>2, <1>3 DEF ReplayInv, ReplayTypes
<1>5. \A d : At(d)' = At(d) /\ (Waits(d)' <=> Waits(d))
  BY <1>1 DEF At, Waits, Status
<1>6. ASSUME NEW c \in Cases
      PROVE  past = {d \in 1 .. (case - 1) : Waits(d)' /\ At(d)' < evidence'[case].decision}
  BY <1>1, <1>5
<1>7. CASE phase' = "aborted" /\ UNCHANGED <<case, pending, results, owners>>
  <2>1. ReplayTypes'
    BY <1>1, <1>4, <1>5, <1>7 DEF ReplayInv, ReplayTypes
  <2>2. ProcessedInv' /\ OrderInv' /\ OpenInv'
    BY <1>1, <1>5, <1>7 DEF ReplayInv, ProcessedInv, OrderInv, OpenInv
  <2>3. \A c \in Cases : results[c].status # None => c < case
    BY DEF ReplayInv, SeenInv
  <2>4. SeenInv'
    BY <1>1, <1>2, <1>4, <1>5, <1>7, <2>3 DEF ReplayInv, SeenInv, DecisionsSeeThePast
  <2> QED
    BY <2>1, <2>2, <2>4 DEF ReplayInv
<1>8. CASE /\ phase' = "settle" /\ ~Refused(case)
           /\ case' = case + 1
           /\ results' = [results EXCEPT ![case].status = Status(case)]
           /\ owners' = IF evidence[case].entry = "filled"
                        THEN [owners EXCEPT ![evidence[case].key] = @ \cup {case}]
                        ELSE owners
           /\ pending' = IF Waits(case) THEN pending \cup {case} ELSE pending
  <2>1. /\ \A c \in Cases : c # case => results'[c].status = results[c].status
        /\ results' = [d \in Cases |-> results'[d]]
        /\ \A d \in Cases : results'[d] = [status |-> results'[d].status, settled |-> results'[d].settled]
    BY <1>2, <1>8 DEF ReplayInv, ReplayTypes
  <2>2. /\ owners' = [k \in Keys |-> owners'[k]]
        /\ \A k \in Keys : owners'[k] = owners[k] \/
             /\ owners'[k] = owners[k] \cup {case} /\ k = evidence[case].key
             /\ evidence[case].entry = "filled" /\ owners[k] # {None}
    BY <1>2, <1>8 DEF ReplayInv, ReplayTypes, Refused
  <2>3. /\ pending \subseteq pending' /\ pending' \subseteq pending \cup {case}
        /\ case \in pending' => Waits(case)
        /\ Waits(case) => case \in pending'
        /\ \A d \in pending : d \in 1 .. (case - 1) /\ Waits(d) /\ At(d) \in Nat
    BY <1>2, <1>8, CaseFacts DEF ReplayInv
  <2>4. ReplayTypes'
    <3>1. pending' \subseteq {d \in 1 .. (case' - 1) : Waits(d)}
      <4> SUFFICES ASSUME NEW d \in pending' PROVE d \in 1 .. case /\ Waits(d)
        BY <1>2, <1>8
      <4>1. CASE d = case
        BY <1>2, <2>3, <4>1
      <4>2. CASE d \in pending
        BY <1>2, <2>3, <4>2
      <4> QED
        BY <2>3, <4>1, <4>2
    <3> QED
      BY <1>1, <1>2, <1>4, <1>5, <1>8, <2>1, <2>2, <3>1 DEF ReplayInv, ReplayTypes
  <2>5. ProcessedInv'
    <3> SUFFICES ASSUME case + 1 <= N, NEW d \in 1 .. case, Waits(d), d \notin pending'
                 PROVE  At(d) < evidence[case + 1].decision
      BY <1>1, <1>2, <1>5, <1>8 DEF ProcessedInv
    <3>1. d \in 1 .. (case - 1) /\ d \notin pending
      BY <1>2, <2>3
    <3>2. At(d) < evidence[case].decision
      BY <1>2, <3>1 DEF ReplayInv, ProcessedInv
    <3>3. case + 1 \in Cases /\ case + 1 > 1 /\ (case + 1) - 1 = case
      BY <1>2 DEF Cases
    <3>4. evidence[case].decision <= evidence[case + 1].decision
      <4>1. evidence[(case + 1) - 1].decision <= evidence[case + 1].decision
        <5>1. /\ evidence[(case + 1) - 1].decision \in Nat
              /\ evidence[case + 1].decision \in Nat
          BY <1>2, <3>3, CaseFacts DEF ReplayInv
        <5>2. \/ evidence[(case + 1) - 1].decision < evidence[case + 1].decision
              \/ evidence[(case + 1) - 1].decision = evidence[case + 1].decision
          BY <3>3 DEF ReplayInv, ReplayTypes, ValidEvidence
        <5> QED
          BY <5>1, <5>2
      <4> QED
        BY <3>3, <4>1
    <3>5. d \in Cases /\ At(d) \in Nat /\ evidence[case + 1].decision \in Nat
      BY <3>1, <3>3, CaseFacts DEF ReplayInv, Waits
    <3> QED
      BY <1>2, <3>2, <3>4, <3>5
  <2>6. SeenInv'
    <3>1. \A c \in Cases : results'[c].status # None => c < case'
      BY <1>2, <1>8, <2>1 DEF ReplayInv, SeenInv, Cases
    <3>2. ASSUME NEW c \in Cases, results'[c].status # None
          PROVE  seen'[c] = {d \in 1 .. (c - 1) : Waits(d)' /\ At(d)' < evidence'[c].decision}
      <4>1. CASE c = case
        BY <1>1, <1>4, <1>6, <4>1
      <4>2. CASE c # case
        BY <1>1, <1>4, <1>5, <2>1, <3>2, <4>2 DEF ReplayInv, SeenInv, DecisionsSeeThePast
      <4> QED
        BY <4>1, <4>2
    <3> QED
      BY <3>1, <3>2 DEF SeenInv, DecisionsSeeThePast
  <2>7. OrderInv'
    <3>1. ASSUME NEW i \in DOMAIN order
          PROVE  /\ order[i] \in 1 .. (case' - 1) /\ Waits(order[i]) /\ order[i] \notin pending'
                 /\ \A d \in pending' : At(order[i]) <= At(d)
      <4>1. /\ order[i] \in 1 .. (case - 1) /\ Waits(order[i]) /\ order[i] \notin pending
            /\ \A d \in pending : At(order[i]) <= At(d)
        BY DEF ReplayInv, OrderInv
      <4>2. At(order[i]) < evidence[case].decision /\ At(order[i]) \in Nat
        BY <1>2, <4>1, CaseFacts DEF ReplayInv, ProcessedInv, Waits
      <4>3. Waits(case) => At(order[i]) <= At(case)
        BY <1>2, <4>2 DEF Waits
      <4> QED
        BY <1>2, <1>8, <2>3, <4>1, <4>3
    <3>2. \A i \in DOMAIN order : Waits(order[i])' /\ \A d \in pending' : At(order[i])' <= At(d)'
      BY <1>1, <1>5, <3>1
    <3>3. \A i, j \in DOMAIN order : i < j => At(order[i])' <= At(order[j])'
      BY <1>1, <1>5 DEF ReplayInv, OrderInv
    <3>4. IsSequence(order')
      BY <1>1 DEF ReplayInv, OrderInv
    <3> QED
      BY <1>1, <3>1, <3>2, <3>3, <3>4 DEF OrderInv
  <2>8. OpenInv'
    <3> SUFFICES ASSUME NEW k \in Keys, owners'[k] # {None}, NEW d \in owners'[k]
                 PROVE  /\ d \in 1 .. case /\ evidence[d].key = k
                        /\ At(d) = None \/ d \in pending'
      BY <1>1, <1>2, <1>5, <1>8 DEF OpenInv
    <3>1. CASE d = case /\ k = evidence[case].key /\ evidence[case].entry = "filled"
      <4>1. At(case) # None => Waits(case)
        BY <3>1 DEF Waits, Status
      <4> QED
        BY <1>2, <2>3, <3>1, <4>1
    <3>2. CASE d \in owners[k] /\ owners[k] # {None}
      BY <1>1, <1>2, <2>3, <3>2 DEF ReplayInv, OpenInv
    <3> QED
      BY <2>2, <3>1, <3>2
  <2> QED
    BY <2>4, <2>5, <2>6, <2>7, <2>8 DEF ReplayInv
<1> QED
  BY <1>7, <1>8 DEF Decide

LEMMA ReplayNextInv == ReplayInv /\ [ReplayNext]_replayVars => ReplayInv'
<1> SUFFICES ASSUME ReplayInv, [ReplayNext]_replayVars PROVE ReplayInv'
  OBVIOUS
<1>1. CASE UNCHANGED replayVars
  <2>1. \A d : At(d)' = At(d) /\ (Waits(d)' <=> Waits(d)) /\ (Due(d)' <=> Due(d))
    BY <1>1 DEF At, Waits, Status, Due, replayVars
  <2>2. DuePending' = DuePending
    BY <1>1, <2>1 DEF DuePending, replayVars
  <2> QED
    BY <1>1, <2>1, <2>2 DEF ReplayInv, ReplayTypes, ProcessedInv, SeenInv, DecisionsSeeThePast, OrderInv, OpenInv,
       replayVars
<1> QED
  BY <1>1, SettleInv, SettledInv, DecideInv DEF ReplayNext, ReplayEnded

-----------------------------------------------------------------------------
(* "A future settlement cannot change an earlier decision" and no past one  *)
(* is missed, for every number of cases, times and positions                *)
(* (PaperExperimentEngine.evaluate).                                        *)
THEOREM DecisionsSeeThePastHolds == ReplaySpec => []DecisionsSeeThePast
<1>1. ReplayInv => DecisionsSeeThePast
  BY DEF ReplayInv, SeenInv
<1> QED
  BY <1>1, ReplayInitInv, ReplayNextInv, PTL DEF ReplaySpec

(* Settlements are applied in the order of their times, across the batches  *)
(* between decisions, and when the replay is done only what has no          *)
(* settlement is open (_settle_due_positions).                              *)
THEOREM SettledInTimeOrderHolds == ReplaySpec => []SettledInTimeOrder
<1>1. ReplayInv => SettledInTimeOrder
  BY DEF ReplayInv, OrderInv, OpenInv, ReplayTypes, SettledInTimeOrder
<1> QED
  BY <1>1, ReplayInitInv, ReplayNextInv, PTL DEF ReplaySpec
-----------------------------------------------------------------------------
(* The markets of an event *)

LEMMA BucketIs ==
    ASSUME NEW b \in Buckets
    PROVE  /\ b.lower # None => b.lower \in Int
           /\ b.upper # None => b.upper \in Int
           /\ b.lower # None \/ b.upper # None
           /\ b.lower # None /\ b.upper # None => b.lower <= b.upper
BY TemperatureAssumption DEF Buckets

\* Colder compares keys.
LEMMA ColderOrders ==
    ASSUME NEW b \in Buckets, NEW c \in Buckets, NEW d \in Buckets
    PROVE  /\ ~Colder(b, b)
           /\ Colder(b, c) => ~Colder(c, b)
           /\ Colder(b, c) /\ Colder(c, d) => Colder(b, d)
           /\ ~Colder(b, c) /\ ~Colder(c, d) => ~Colder(b, d)
<1>1. \A e \in {b, c, d} : e.lower # None => e.lower \in Int
  BY BucketIs
<1> QED
  BY <1>1 DEF Colder, IsLowerTail

LEMMA PrecedesOrders ==
    ASSUME NEW s \in Seq(Buckets), NEW i \in DOMAIN s, NEW j \in DOMAIN s, NEW k \in DOMAIN s
    PROVE  /\ ~Precedes(s, i, i)
           /\ i # j => Precedes(s, i, j) \/ Precedes(s, j, i)
           /\ Precedes(s, i, j) => ~Precedes(s, j, i) /\ ~Colder(s[j], s[i])
           /\ Precedes(s, i, j) /\ Precedes(s, j, k) => Precedes(s, i, k)
<1>1. i \in Nat /\ j \in Nat /\ k \in Nat /\ s[i] \in Buckets /\ s[j] \in Buckets /\ s[k] \in Buckets
  OBVIOUS
<1>2. /\ ~Colder(s[i], s[i]) /\ ~Colder(s[j], s[j])
      /\ Colder(s[i], s[j]) => ~Colder(s[j], s[i])
      /\ Colder(s[j], s[i]) => ~Colder(s[i], s[j])
      /\ Colder(s[i], s[j]) /\ Colder(s[j], s[k]) => Colder(s[i], s[k])
      /\ ~Colder(s[k], s[j]) /\ ~Colder(s[j], s[i]) => ~Colder(s[k], s[i])
      /\ ~Colder(s[j], s[i]) /\ ~Colder(s[i], s[k]) => ~Colder(s[j], s[k])
      /\ ~Colder(s[i], s[k]) /\ ~Colder(s[k], s[j]) => ~Colder(s[i], s[j])
  BY <1>1, ColderOrders
<1>3. /\ ~Precedes(s, i, i)
      /\ i # j => Precedes(s, i, j) \/ Precedes(s, j, i)
      /\ Precedes(s, i, j) => ~Precedes(s, j, i) /\ ~Colder(s[j], s[i])
  BY <1>1, <1>2 DEF Precedes
<1>4. Precedes(s, i, j) /\ Precedes(s, j, k) => Precedes(s, i, k)
  BY <1>1, <1>2 DEF Precedes
<1> QED
  BY <1>3, <1>4

\* The buckets before i, whose number is the place of i.
Preceding(s, i) == {j \in DOMAIN s : Precedes(s, j, i)}

LEMMA PlacesOf ==
    ASSUME NEW s \in Seq(Buckets)
    PROVE  /\ Len(s) \in Nat /\ DOMAIN s = 1 .. Len(s)
           /\ IsFiniteSet(DOMAIN s) /\ Cardinality(DOMAIN s) = Len(s)
           /\ IsFiniteSet(0 .. (Len(s) - 1)) /\ Cardinality(0 .. (Len(s) - 1)) = Len(s)
<1> DEFINE n == Len(s)
<1>1. n \in Nat /\ DOMAIN s = 1 .. n
  OBVIOUS
<1> HIDE DEF n
<1>2. IsFiniteSet(1 .. n) /\ Cardinality(1 .. n) = n
  <2>1. IF 1 > n THEN n = 0 ELSE n - 1 + 1 = n
    BY <1>1
  <2> QED
    BY <1>1, <2>1, FS_Interval
<1>3. IsFiniteSet(0 .. (n - 1)) /\ Cardinality(0 .. (n - 1)) = n
  <2> DEFINE m == n - 1
  <2>1. m \in Int /\ (0 > m => n = 0) /\ m - 0 + 1 = n
    BY <1>1
  <2> HIDE DEF m
  <2>2. IsFiniteSet(0 .. m) /\ Cardinality(0 .. m) = IF 0 > m THEN 0 ELSE m - 0 + 1
    BY <2>1, FS_Interval
  <2>3. IsFiniteSet(0 .. m) /\ Cardinality(0 .. m) = n
    BY <2>1, <2>2
  <2> QED
    BY <2>3 DEF m
<1> QED
  BY <1>1, <1>2, <1>3 DEF n

LEMMA PlaceIs ==
    ASSUME NEW s \in Seq(Buckets), NEW i \in DOMAIN s
    PROVE  /\ IsFiniteSet(Preceding(s, i)) /\ Cardinality(Preceding(s, i)) \in 0 .. (Len(s) - 1)
           /\ \A j \in DOMAIN s : Precedes(s, j, i) => Cardinality(Preceding(s, j)) < Cardinality(Preceding(s, i))
<1>1. Len(s) \in Nat /\ DOMAIN s = 1 .. Len(s)
  OBVIOUS
<1>2. IsFiniteSet(DOMAIN s) /\ Cardinality(DOMAIN s) = Len(s)
  BY <1>1, PlacesOf
<1>3. \A j \in DOMAIN s : IsFiniteSet(Preceding(s, j)) /\ Cardinality(Preceding(s, j)) \in Nat
  BY <1>2, FS_Subset, FS_CardinalityType DEF Preceding
<1>4. Cardinality(Preceding(s, i)) < Len(s)
  <2>1. Preceding(s, i) \subseteq DOMAIN s /\ Preceding(s, i) # DOMAIN s
    BY PrecedesOrders DEF Preceding
  <2> QED
    BY <1>1, <1>2, <1>3, <2>1, FS_Subset
<1>5. ASSUME NEW j \in DOMAIN s, Precedes(s, j, i)
      PROVE  Cardinality(Preceding(s, j)) < Cardinality(Preceding(s, i))
  <2>1. Preceding(s, j) \subseteq Preceding(s, i)
    BY <1>5, PrecedesOrders DEF Preceding
  <2>2. j \in Preceding(s, i) /\ j \notin Preceding(s, j)
    BY <1>5, PrecedesOrders DEF Preceding
  <2> QED
    BY <1>3, <2>1, <2>2, FS_Subset
<1> QED
  BY <1>1, <1>3, <1>4, <1>5

\* o is a rearrangement of s, in the order of the keys.
Arranges(p, s, o) ==
    /\ DOMAIN o = DOMAIN s
    /\ \A n \in DOMAIN s : p[n] \in DOMAIN s /\ o[n] = s[p[n]]
    /\ \A i \in DOMAIN s : \E n \in DOMAIN s : p[n] = i
    /\ \A m, n \in DOMAIN s : m # n => p[m] # p[n]
    /\ \A m, n \in DOMAIN s : m < n => ~Colder(o[n], o[m])

LEMMA OrderedArranges ==
    ASSUME NEW s \in Seq(Buckets)
    PROVE  \E p : Arranges(p, s, Ordered(s))
<1> DEFINE D == DOMAIN s
           Place(i) == Cardinality(Preceding(s, i))
           f == [i \in D |-> Place(i)]
           P(n) == CHOOSE i \in D : Place(i) = n - 1
           p == [n \in D |-> P(n)]
           o == Ordered(s)
<1>1. Len(s) \in Nat /\ D = 1 .. Len(s) /\ IsFiniteSet(D) /\ Cardinality(D) = Len(s)
  BY PlacesOf
<1>2. \A i \in D : Place(i) \in 0 .. (Len(s) - 1)
  BY PlaceIs
<1>3. \A i, j \in D : i # j => Place(i) # Place(j)
  <2>1. ASSUME NEW i \in D, NEW j \in D, Precedes(s, j, i) PROVE Place(j) < Place(i)
    BY <2>1, PlaceIs
  <2>2. \A i, j \in D : i # j => Precedes(s, i, j) \/ Precedes(s, j, i)
    BY PrecedesOrders
  <2> HIDE DEF D, Place
  <2> QED
    BY <1>1, <1>2, <2>1, <2>2
<1>4. \A n \in D : \E i \in D : Place(i) = n - 1
  <2> DEFINE R == 0 .. (Len(s) - 1)
  <2>1. IsFiniteSet(R) /\ Cardinality(R) = Len(s)
    BY PlacesOf
  <2>2. f \in Injection(D, R)
    <3> HIDE DEF Place, D
    <3> QED
      BY <1>2, <1>3 DEF Injection, IsInjective
  <2>3. f \in Surjection(D, R)
    <3> HIDE DEF f, R, D
    <3> QED
      BY <1>1, <2>1, <2>2, FS_Injection
  <2>4. ASSUME NEW n \in D PROVE \E i \in D : Place(i) = n - 1
    <3>1. n - 1 \in R
      BY <1>1
    <3>2. \E i \in D : f[i] = n - 1
      <4> HIDE DEF f, R, D
      <4> QED
        BY <2>3, <3>1 DEF Surjection
    <3> HIDE DEF Place, D
    <3> QED
      BY <3>2
  <2> QED
    BY <2>4
<1>5. \A n \in D : P(n) \in D /\ Place(P(n)) = n - 1
  <2> HIDE DEF Place, D
  <2> QED
    BY <1>4
<1>6. DOMAIN o = D /\ \A n \in D : o[n] = s[P(n)]
  BY DEF Ordered, Preceding
<1> HIDE DEF o, P
<1>7. \A n \in D : p[n] \in D /\ Place(p[n]) = n - 1 /\ o[n] = s[p[n]]
  <2> HIDE DEF Place, D
  <2> QED
    BY <1>5, <1>6
<1> HIDE DEF p
<1>8. \A i \in D : \E n \in D : p[n] = i
  <2> SUFFICES ASSUME NEW i \in D PROVE \E n \in D : p[n] = i
    OBVIOUS
  <2> DEFINE n == Place(i) + 1
  <2>1. n \in D /\ n - 1 = Place(i)
    <3> HIDE DEF Place
    <3> QED
      BY <1>1, <1>2
  <2> HIDE DEF n, Place, D
  <2>2. p[n] \in D /\ Place(p[n]) = Place(i)
    BY <1>7, <2>1
  <2> QED
    BY <1>3, <2>1, <2>2
<1>9. \A m, n \in D : m # n => p[m] # p[n]
  <2> HIDE DEF Place
  <2> QED
    BY <1>1, <1>7
<1>10. \A m, n \in D : m < n => ~Colder(o[n], o[m])
  <2> SUFFICES ASSUME NEW m \in D, NEW n \in D, m < n PROVE ~Colder(o[n], o[m])
    OBVIOUS
  <2>1. p[m] \in D /\ p[n] \in D /\ p[m] # p[n] /\ Place(p[m]) < Place(p[n])
    <3> HIDE DEF Place
    <3> QED
      BY <1>1, <1>7, <1>9
  <2>2. ~Precedes(s, p[n], p[m])
    <3>1. Precedes(s, p[n], p[m]) => Place(p[n]) < Place(p[m])
      BY <2>1, PlaceIs
    <3>2. Place(p[m]) \in Nat /\ Place(p[n]) \in Nat
      <4> HIDE DEF Place
      <4> QED
        BY <1>1, <1>2, <2>1
    <3> HIDE DEF Place
    <3> QED
      BY <2>1, <3>1, <3>2
  <2>3. Precedes(s, p[m], p[n])
    BY <2>1, <2>2, PrecedesOrders
  <2>4. ~Colder(s[p[n]], s[p[m]])
    BY <2>1, <2>3, PrecedesOrders
  <2> QED
    BY <1>7, <2>4
<1>11. DOMAIN o = DOMAIN s
  BY <1>6
<1>12. Arranges(p, s, o)
  BY <1>11, <1>7, <1>8, <1>9, <1>10 DEF Arranges
<1> QED
  BY <1>12 DEF o
-----------------------------------------------------------------------------
\* Exactly one bucket of s contains t.
OneOf(s, t) ==
    \E i \in DOMAIN s :
        /\ ContainsReported(s[i], t)
        /\ \A j \in DOMAIN s : ContainsReported(s[j], t) => j = i

LEMMA OneOfArranged ==
    ASSUME NEW s \in Seq(Buckets), NEW o, NEW p, Arranges(p, s, o), NEW t
    PROVE  OneOf(s, t) <=> OneOf(o, t)
<1>1. DOMAIN o = DOMAIN s /\ \A n \in DOMAIN s : p[n] \in DOMAIN s /\ o[n] = s[p[n]]
  BY DEF Arranges
<1>2. \A i \in DOMAIN s : \E n \in DOMAIN s : p[n] = i
  BY DEF Arranges
<1>3. \A m, n \in DOMAIN s : m # n => p[m] # p[n]
  BY DEF Arranges
<1>4. ASSUME OneOf(s, t) PROVE OneOf(o, t)
  <2>1. PICK i \in DOMAIN s : ContainsReported(s[i], t) /\ \A j \in DOMAIN s : ContainsReported(s[j], t) => j = i
    BY <1>4 DEF OneOf
  <2>2. PICK n \in DOMAIN s : p[n] = i
    BY <1>2
  <2>3. ContainsReported(o[n], t)
    BY <1>1, <2>1, <2>2
  <2>4. \A m \in DOMAIN s : ContainsReported(o[m], t) => m = n
    BY <1>1, <1>3, <2>1, <2>2
  <2> QED
    BY <1>1, <2>3, <2>4 DEF OneOf
<1>5. ASSUME OneOf(o, t) PROVE OneOf(s, t)
  <2>1. PICK n \in DOMAIN s : ContainsReported(o[n], t) /\ \A m \in DOMAIN s : ContainsReported(o[m], t) => m = n
    BY <1>1, <1>5 DEF OneOf
  <2>2. ContainsReported(s[p[n]], t)
    BY <1>1, <2>1
  <2>3. ASSUME NEW j \in DOMAIN s, ContainsReported(s[j], t) PROVE j = p[n]
    <3>1. PICK m \in DOMAIN s : p[m] = j
      BY <1>2
    <3> QED
      BY <1>1, <2>1, <2>3, <3>1
  <2> QED
    BY <1>1, <2>2, <2>3 DEF OneOf
<1> QED
  BY <1>4, <1>5

\* The reported temperatures are bounds and their neighbours.
LEMMA ReportedIs ==
    ASSUME NEW s \in Seq(Buckets)
    PROVE  /\ Reported(s) \subseteq Int
           /\ \A i \in DOMAIN s :
                 /\ s[i].lower # None => {s[i].lower - 1, s[i].lower} \subseteq Reported(s)
                 /\ s[i].upper # None => {s[i].upper, s[i].upper + 1} \subseteq Reported(s)
<1> DEFINE Pairs == {{b.lower, b.upper} : b \in Range(s)}
           Named == (UNION Pairs) \ {None}
           Around == {{n - 1, n, n + 1} : n \in Named}
<1>1. \A b \in Range(s) : b \in Buckets
  BY DEF Range
<1>2. Reported(s) = UNION Around
  BY Zenon DEF Reported
<1>3. \A n : n \in Named <=> \E b \in Range(s) : n \in {b.lower, b.upper} \ {None}
  <2>1. \A P : P \in Pairs <=> \E b \in Range(s) : P = {b.lower, b.upper}
    OBVIOUS
  <2> HIDE DEF Pairs
  <2>2. \A n : n \in UNION Pairs <=> \E P \in Pairs : n \in P
    BY Zenon
  <2>3. ASSUME NEW b \in Range(s) PROVE {b.lower, b.upper} \in Pairs
    BY <2>1
  <2>4. ASSUME NEW P \in Pairs PROVE \E b \in Range(s) : P = {b.lower, b.upper}
    BY <2>1
  <2>5. ASSUME NEW n \in Named PROVE \E b \in Range(s) : n \in {b.lower, b.upper} \ {None}
    <3>1. n # None /\ n \in UNION Pairs
      OBVIOUS
    <3>2. PICK P \in Pairs : n \in P
      BY <2>2, <3>1
    <3> QED
      BY <2>4, <3>1, <3>2
  <2>6. ASSUME NEW b \in Range(s), NEW n \in {b.lower, b.upper} \ {None} PROVE n \in Named
    BY <2>2, <2>3
  <2> QED
    BY <2>5, <2>6
<1> HIDE DEF Pairs, Named
<1>4. \A t : t \in Reported(s) <=> \E n \in Named : t \in {n - 1, n, n + 1}
  <2>1. \A T : T \in Around <=> \E n \in Named : T = {n - 1, n, n + 1}
    OBVIOUS
  <2> HIDE DEF Around
  <2>2. \A t : t \in UNION Around <=> \E T \in Around : t \in T
    BY Zenon
  <2>3. ASSUME NEW n \in Named PROVE {n - 1, n, n + 1} \in Around
    BY <2>1
  <2>4. ASSUME NEW T \in Around PROVE \E n \in Named : T = {n - 1, n, n + 1}
    BY <2>1
  <2>5. ASSUME NEW t \in Reported(s) PROVE \E n \in Named : t \in {n - 1, n, n + 1}
    <3>1. PICK T \in Around : t \in T
      BY <1>2, <2>2
    <3> QED
      BY <2>4, <3>1
  <2>6. ASSUME NEW n \in Named, NEW t \in {n - 1, n, n + 1} PROVE t \in Reported(s)
    BY <1>2, <2>2, <2>3
  <2> QED
    BY <2>5, <2>6
<1>5. \A n \in Named : n \in Int
  BY <1>1, <1>3, BucketIs
<1>6. Reported(s) \subseteq Int
  BY <1>4, <1>5
<1>7. \A i \in DOMAIN s : s[i] \in Range(s)
  BY DEF Range
<1> QED
  BY <1>3, <1>4, <1>6, <1>7

\* To count one is to pick exactly one.
LEMMA PartitionsIs ==
    ASSUME NEW s \in Seq(Buckets)
    PROVE  Partitions(s) <=> \A t \in Reported(s) : OneOf(s, t)
<1> SUFFICES ASSUME NEW t \in Reported(s)
             PROVE  Cardinality({i \in DOMAIN s : ContainsReported(s[i], t)}) = 1 <=> OneOf(s, t)
  BY DEF Partitions
<1> DEFINE T == {i \in DOMAIN s : ContainsReported(s[i], t)}
<1>1. IsFiniteSet(T)
  BY PlacesOf, FS_Subset
<1>2. ASSUME Cardinality(T) = 1 PROVE OneOf(s, t)
  <2>1. PICK x : T = {x}
    <3> HIDE DEF T
    <3> QED
      BY <1>1, <1>2, FS_Singleton
  <2>2. x \in T /\ \A j \in T : j = x
    BY <2>1
  <2> QED
    BY <2>2 DEF OneOf
<1>3. ASSUME OneOf(s, t) PROVE Cardinality(T) = 1
  <2>1. PICK i \in DOMAIN s : ContainsReported(s[i], t) /\ \A j \in DOMAIN s : ContainsReported(s[j], t) => j = i
    BY <1>3 DEF OneOf
  <2>2. T = {i}
    BY <2>1
  <2> HIDE DEF T
  <2> QED
    BY <2>2, FS_Singleton
<1> QED
  BY <1>2, <1>3
-----------------------------------------------------------------------------
\* The order TemperatureMarketPartition asks for: a lower tail, then buckets
\* that follow one another, then an upper tail.
Chain(o, L) ==
    /\ L \in Nat /\ L >= 2 /\ DOMAIN o = 1 .. L
    /\ \A n \in 1 .. L : o[n] \in Buckets
    /\ o[1].lower = None /\ o[L].upper = None
    /\ \A n \in 1 .. (L - 1) :
          o[n].upper # None /\ o[n + 1].lower # None /\ o[n + 1].lower = o[n].upper + 1

LEMMA ChainBounds ==
    ASSUME NEW o, NEW L, Chain(o, L)
    PROVE  /\ \A n \in 1 .. (L - 1) : o[n].upper \in Int
           /\ \A n \in 2 .. L : o[n].lower \in Int /\ o[n].lower = o[n - 1].upper + 1 /\ o[n].lower # None
           /\ \A n \in 2 .. (L - 1) : o[n].lower <= o[n].upper
<1>1. L \in Nat /\ L >= 2 /\ \A n \in 1 .. L : o[n] \in Buckets
  BY DEF Chain
<1>2. \A n \in 1 .. L : /\ o[n].lower # None => o[n].lower \in Int
                        /\ o[n].upper # None => o[n].upper \in Int
                        /\ o[n].lower # None /\ o[n].upper # None => o[n].lower <= o[n].upper
  BY <1>1, BucketIs
<1>3. \A n \in 1 .. (L - 1) : n \in 1 .. L /\ n + 1 \in 1 .. L /\ o[n].upper # None
  BY <1>1 DEF Chain
<1>4. ASSUME NEW n \in 2 .. L
      PROVE  n \in 1 .. L /\ o[n].lower # None /\ o[n].lower = o[n - 1].upper + 1
  <2>1. n - 1 \in 1 .. (L - 1) /\ (n - 1) + 1 = n
    BY <1>1
  <2>2. o[(n - 1) + 1].lower # None /\ o[(n - 1) + 1].lower = o[n - 1].upper + 1
    BY <2>1 DEF Chain
  <2> QED
    BY <1>1, <2>1, <2>2
<1>5. \A n \in 2 .. (L - 1) : n \in 2 .. L /\ n \in 1 .. (L - 1)
  BY <1>1
<1> QED
  BY <1>2, <1>3, <1>4, <1>5

\* Every temperature up to the bound of a bucket is in one that far.
LEMMA ChainCovers ==
    ASSUME NEW o, NEW L, Chain(o, L), NEW t \in Int
    PROVE  \E n \in 1 .. L : ContainsReported(o[n], t)
<1> DEFINE K == {m \in Nat : m + 1 \in 1 .. (L - 1) /\ t <= o[m + 1].upper
                                 => \E n \in 1 .. L : ContainsReported(o[n], t)}
<1>1. L \in Nat /\ L >= 2 /\ o[1].lower = None /\ o[L].upper = None
  BY DEF Chain
<1>2. 0 \in K
  <2>1. ASSUME t <= o[1].upper PROVE ContainsReported(o[1], t)
    BY <1>1, <2>1 DEF ContainsReported, IsLowerTail
  <2> QED
    BY <1>1, <2>1
<1>3. ASSUME NEW m \in Nat, m \in K PROVE m + 1 \in K
  <2> SUFFICES ASSUME (m + 1) + 1 \in 1 .. (L - 1), t <= o[(m + 1) + 1].upper
               PROVE  \E n \in 1 .. L : ContainsReported(o[n], t)
    OBVIOUS
  <2> DEFINE k == m + 1
             l == k + 1
  <2>1. k \in 1 .. (L - 1) /\ l \in 1 .. L /\ l \in 2 .. L /\ k = l - 1 /\ t <= o[l].upper
    BY <1>1
  <2>2. o[k].upper \in Int /\ o[l].lower = o[k].upper + 1
    BY <2>1, ChainBounds
  <2>3. CASE t <= o[k].upper
    BY <1>3, <2>1, <2>3
  <2>4. CASE ~(t <= o[k].upper)
    <3>1. o[l].lower <= t
      BY <2>2, <2>4
    <3>2. ContainsReported(o[l], t)
      BY <2>1, <3>1 DEF ContainsReported
    <3> QED
      BY <2>1, <3>2
  <2> QED
    BY <2>3, <2>4
<1> HIDE DEF K
<1>4. Nat \subseteq K
  BY <1>2, <1>3, InductionOnNaturals
<1> DEFINE final == L - 2
<1>5. final \in Nat /\ final + 1 = L - 1 /\ final + 1 \in 1 .. (L - 1) /\ L \in 2 .. L /\ L \in 1 .. L
  BY <1>1
<1>6. CASE t <= o[L - 1].upper
  <2>1. final \in K
    BY <1>4, <1>5
  <2> HIDE DEF final
  <2> QED
    BY <1>5, <1>6, <2>1 DEF K
<1>7. CASE ~(t <= o[L - 1].upper)
  <2>1. o[L - 1].upper \in Int /\ o[L].lower = o[L - 1].upper + 1
    BY <1>5, ChainBounds
  <2>2. ContainsReported(o[L], t)
    BY <1>1, <1>7, <2>1 DEF ContainsReported, IsUpperTail
  <2> QED
    BY <1>5, <2>2
<1> QED
  BY <1>6, <1>7

\* Buckets of a chain lie above all that come before them.
LEMMA ChainRises ==
    ASSUME NEW o, NEW L, Chain(o, L), NEW m \in 1 .. L, NEW n \in 1 .. L, m < n
    PROVE  o[m].upper \in Int /\ o[m].upper # None /\ o[n].lower \in Int /\ o[n].lower # None
           /\ o[m].upper < o[n].lower
<1> DEFINE K == {d \in Nat : m + 1 + d \in 1 .. L => o[m].upper < o[m + 1 + d].lower}
<1>1. L \in Nat /\ L >= 2 /\ m \in Nat /\ n \in Nat
  BY DEF Chain
<1>2. m \in 1 .. (L - 1) /\ n \in 2 .. L /\ o[m].upper # None
  BY <1>1 DEF Chain
<1>3. 0 \in K
  <2>1. m + 1 \in 2 .. L /\ (m + 1) - 1 = m
    BY <1>1, <1>2
  <2>2. o[m + 1].lower = o[m].upper + 1 /\ o[m].upper \in Int
    BY <1>2, <2>1, ChainBounds
  <2>3. o[m].upper < o[m + 1].lower /\ m + 1 + 0 = m + 1
    BY <1>1, <2>2
  <2> QED
    BY <2>3
<1>4. ASSUME NEW d \in Nat, d \in K PROVE d + 1 \in K
  <2> SUFFICES ASSUME m + 1 + (d + 1) \in 1 .. L PROVE o[m].upper < o[m + 1 + (d + 1)].lower
    OBVIOUS
  <2> DEFINE k == m + 1 + d
             l == m + 1 + (d + 1)
  <2>1. k \in 2 .. (L - 1) /\ k \in 2 .. L /\ k \in 1 .. L /\ k \in 1 .. (L - 1) /\ l \in 2 .. L /\ k = l - 1
    BY <1>1
  <2>2. o[m].upper < o[k].lower
    BY <1>4, <2>1
  <2> HIDE DEF k, l
  <2>3. o[k].lower <= o[k].upper /\ o[k].lower \in Int /\ o[k].upper \in Int
        /\ o[l].lower = o[k].upper + 1 /\ o[m].upper \in Int
    BY <1>2, <2>1, ChainBounds
  <2>4. o[m].upper < o[l].lower
    BY <2>2, <2>3
  <2> QED
    BY <2>4 DEF l
<1> HIDE DEF K
<1>5. Nat \subseteq K
  BY <1>3, <1>4, InductionOnNaturals
<1> DEFINE e == n - m - 1
<1>6. e \in Nat /\ m + 1 + e = n
  BY <1>1
<1>7. e \in K
  BY <1>5, <1>6
<1> HIDE DEF e
<1>8. o[m].upper < o[n].lower
  BY <1>6, <1>7 DEF K
<1>9. o[m].upper \in Int /\ o[n].lower \in Int /\ o[n].lower # None
  BY <1>2, ChainBounds
<1> QED
  BY <1>2, <1>8, <1>9

LEMMA ChainSettlesOne ==
    ASSUME NEW o, NEW L, Chain(o, L), NEW t \in Int
    PROVE  OneOf(o, t)
<1>1. PICK n \in 1 .. L : ContainsReported(o[n], t)
  BY ChainCovers
<1>2. ASSUME NEW a \in 1 .. L, NEW b \in 1 .. L, a < b, ContainsReported(o[a], t), ContainsReported(o[b], t)
      PROVE  FALSE
  <2>1. o[a].upper \in Int /\ o[a].upper # None /\ o[b].lower \in Int /\ o[b].lower # None /\ o[a].upper < o[b].lower
    BY <1>2, ChainRises
  <2>2. t <= o[a].upper /\ o[b].lower <= t
    BY <1>2, <2>1 DEF ContainsReported, IsLowerTail, IsUpperTail
  <2> QED
    BY <2>1, <2>2
<1>3. L \in Nat /\ DOMAIN o = 1 .. L
  BY DEF Chain
<1>4. ASSUME NEW m \in 1 .. L, ContainsReported(o[m], t) PROVE m = n
  <2>1. m \in Int /\ n \in Int
    BY <1>3
  <2> QED
    BY <1>1, <1>2, <1>4, <2>1
<1> QED
  BY <1>1, <1>3, <1>4 DEF OneOf
-----------------------------------------------------------------------------
\* What sorting and partitioning say of the sorted buckets o: they come in
\* the order of their lower bounds, and each reported temperature (each
\* bound and its neighbours) lies in exactly one.
Divided(o, L) ==
    /\ L \in Nat /\ L >= 2 /\ DOMAIN o = 1 .. L
    /\ \A n \in 1 .. L : o[n] \in Buckets
    /\ \A m, n \in 1 .. L : m < n => ~Colder(o[n], o[m])
    /\ \A n \in 1 .. L : o[n].lower # None => OneOf(o, o[n].lower - 1) /\ OneOf(o, o[n].lower)
    /\ \A n \in 1 .. L : o[n].upper # None => OneOf(o, o[n].upper) /\ OneOf(o, o[n].upper + 1)

LEMMA DividedBy ==
    ASSUME NEW s \in Seq(Buckets), NEW o, NEW p, Arranges(p, s, o), Len(s) >= 2, Partitions(s)
    PROVE  Divided(o, Len(s))
<1>1. Len(s) \in Nat /\ DOMAIN s = 1 .. Len(s) /\ \A i \in 1 .. Len(s) : s[i] \in Buckets
  OBVIOUS
<1>2. DOMAIN o = 1 .. Len(s) /\ \A n \in 1 .. Len(s) : p[n] \in 1 .. Len(s) /\ o[n] = s[p[n]]
  BY <1>1 DEF Arranges
<1>3. \A t \in Reported(s) : OneOf(o, t)
  BY PartitionsIs, OneOfArranged
<1>4. ASSUME NEW n \in 1 .. Len(s)
      PROVE  /\ o[n].lower # None => OneOf(o, o[n].lower - 1) /\ OneOf(o, o[n].lower)
             /\ o[n].upper # None => OneOf(o, o[n].upper) /\ OneOf(o, o[n].upper + 1)
  <2> DEFINE i == p[n]
  <2>1. i \in DOMAIN s /\ o[n] = s[i]
    BY <1>1, <1>2
  <2> HIDE DEF i
  <2>2. /\ s[i].lower # None => {s[i].lower - 1, s[i].lower} \subseteq Reported(s)
        /\ s[i].upper # None => {s[i].upper, s[i].upper + 1} \subseteq Reported(s)
    BY <2>1, ReportedIs
  <2> QED
    BY <1>3, <2>1, <2>2
<1>5. \A m, n \in 1 .. Len(s) : m < n => ~Colder(o[n], o[m])
  BY <1>1 DEF Arranges
<1>6. \A n \in 1 .. Len(s) : o[n] \in Buckets
  BY <1>1, <1>2
<1> QED
  BY <1>1, <1>2, <1>4, <1>5, <1>6 DEF Divided

LEMMA DividedBounds ==
    ASSUME NEW o, NEW L, Divided(o, L)
    PROVE  /\ L \in Nat /\ L >= 2
           /\ \A n \in 1 .. L :
                 /\ o[n].lower # None => o[n].lower \in Int
                 /\ o[n].upper # None => o[n].upper \in Int
                 /\ o[n].lower # None \/ o[n].upper # None
                 /\ o[n].lower # None /\ o[n].upper # None => o[n].lower <= o[n].upper
           /\ \A m, n \in 1 .. L :
                 /\ m < n /\ o[n].lower = None => o[m].lower = None
                 /\ m < n /\ o[m].lower # None => o[m].lower <= o[n].lower
<1>1. L \in Nat /\ L >= 2 /\ \A n \in 1 .. L : o[n] \in Buckets
  BY DEF Divided
<1>2. \A n \in 1 .. L :
                 /\ o[n].lower # None => o[n].lower \in Int
                 /\ o[n].upper # None => o[n].upper \in Int
                 /\ o[n].lower # None \/ o[n].upper # None
                 /\ o[n].lower # None /\ o[n].upper # None => o[n].lower <= o[n].upper
  BY <1>1, BucketIs
<1>3. \A m, n \in 1 .. L : m < n => ~Colder(o[n], o[m])
  BY DEF Divided
<1>4. ASSUME NEW m \in 1 .. L, NEW n \in 1 .. L, m < n
      PROVE  /\ o[n].lower = None => o[m].lower = None
             /\ o[m].lower # None => o[m].lower <= o[n].lower
  BY <1>2, <1>3, <1>4 DEF Colder, IsLowerTail
<1> QED
  BY <1>1, <1>2, <1>4

\* Two buckets have no reported temperature in common.
LEMMA DividedApart ==
    ASSUME NEW o, NEW L, Divided(o, L), NEW m \in 1 .. L, NEW n \in 1 .. L, m # n,
           NEW t, ContainsReported(o[m], t), ContainsReported(o[n], t)
    PROVE  ~OneOf(o, t)
<1>1. DOMAIN o = 1 .. L
  BY DEF Divided
<1> QED
  BY <1>1 DEF OneOf

LEMMA TailsAreEnds ==
    ASSUME NEW o, NEW L, Divided(o, L)
    PROVE  /\ \A m, n \in 1 .. L : o[m].lower = None /\ o[n].lower = None => m = n
           /\ \A m, n \in 1 .. L : o[m].upper = None /\ o[n].upper = None => m = n
           /\ \A m, n \in 1 .. L : o[m] = o[n] => m = n
<1>1. ASSUME NEW m \in 1 .. L, NEW n \in 1 .. L, o[m].lower = None, o[n].lower = None, o[m].upper <= o[n].upper, m # n
      PROVE  FALSE
  <2>1. o[m].upper # None /\ o[n].upper # None /\ o[m].upper \in Int /\ o[n].upper \in Int
    BY <1>1, DividedBounds
  <2>2. ContainsReported(o[m], o[m].upper) /\ ContainsReported(o[n], o[m].upper)
    BY <1>1, <2>1 DEF ContainsReported, IsLowerTail
  <2>3. OneOf(o, o[m].upper)
    BY <2>1 DEF Divided
  <2> QED
    BY <1>1, <2>2, <2>3, DividedApart
<1>2. ASSUME NEW m \in 1 .. L, NEW n \in 1 .. L, o[m].upper = None, o[n].upper = None, o[m].lower <= o[n].lower, m # n
      PROVE  FALSE
  <2>1. o[m].lower # None /\ o[n].lower # None /\ o[m].lower \in Int /\ o[n].lower \in Int
    BY <1>2, DividedBounds
  <2>2. ContainsReported(o[m], o[n].lower) /\ ContainsReported(o[n], o[n].lower)
    BY <1>2, <2>1 DEF ContainsReported, IsUpperTail
  <2>3. OneOf(o, o[n].lower)
    BY <2>1 DEF Divided
  <2> QED
    BY <1>2, <2>2, <2>3, DividedApart
<1>3. ASSUME NEW m \in 1 .. L, NEW n \in 1 .. L, o[m] = o[n], m # n PROVE FALSE
  <2>1. \E t : ContainsReported(o[m], t) /\ OneOf(o, t)
    <3>1. CASE o[m].lower # None
      <4>1. ContainsReported(o[m], o[m].lower)
        BY <3>1, DividedBounds DEF ContainsReported, IsLowerTail, IsUpperTail
      <4>2. OneOf(o, o[m].lower)
        BY <3>1 DEF Divided
      <4> QED
        BY <4>1, <4>2
    <3>2. CASE o[m].upper # None
      <4>1. ContainsReported(o[m], o[m].upper)
        BY <3>2, DividedBounds DEF ContainsReported, IsLowerTail, IsUpperTail
      <4>2. OneOf(o, o[m].upper)
        BY <3>2 DEF Divided
      <4> QED
        BY <4>1, <4>2
    <3> QED
      BY <3>1, <3>2, DividedBounds
  <2> QED
    BY <1>3, <2>1, DividedApart
<1>4. ASSUME NEW m \in 1 .. L, NEW n \in 1 .. L, o[m].lower = None, o[n].lower = None PROVE m = n
  <2>1. o[m].upper \in Int /\ o[n].upper \in Int
    BY <1>4, DividedBounds
  <2>2. o[m].upper <= o[n].upper \/ o[n].upper <= o[m].upper
    BY <2>1
  <2> QED
    BY <1>1, <1>4, <2>2
<1>5. ASSUME NEW m \in 1 .. L, NEW n \in 1 .. L, o[m].upper = None, o[n].upper = None PROVE m = n
  <2>1. o[m].lower \in Int /\ o[n].lower \in Int
    BY <1>5, DividedBounds
  <2>2. o[m].lower <= o[n].lower \/ o[n].lower <= o[m].lower
    BY <2>1
  <2> QED
    BY <1>2, <1>5, <2>2
<1> QED
  BY <1>3, <1>4, <1>5

\* The temperature next above a bucket is in a later one.
LEMMA NextIsLater ==
    ASSUME NEW o, NEW L, Divided(o, L), NEW i \in 1 .. L, o[i].upper # None
    PROVE  \E k \in 1 .. L : i < k /\ ContainsReported(o[k], o[i].upper + 1)
<1> DEFINE u == o[i].upper
<1>1. u \in Int /\ OneOf(o, u + 1) /\ DOMAIN o = 1 .. L /\ L \in Nat
  BY DividedBounds DEF Divided
<1>2. PICK k \in 1 .. L : ContainsReported(o[k], u + 1)
  BY <1>1 DEF OneOf
<1>3. k # i
  BY <1>1, <1>2 DEF ContainsReported, IsUpperTail
<1>4. ASSUME k < i PROVE FALSE
  <2> DEFINE w == o[i].lower
  <2>1. w # None
    BY <1>3, <1>4, DividedBounds, TailsAreEnds
  <2>2. w \in Int /\ w <= u /\ OneOf(o, w)
    BY <2>1, DividedBounds DEF Divided
  <2>3. o[k].lower = None \/ o[k].lower <= w
    BY <1>4, DividedBounds
  <2>4. o[k].upper # None => o[k].upper \in Int
    BY DividedBounds
  <2>5. ContainsReported(o[k], w)
    BY <1>1, <1>2, <2>2, <2>3, <2>4 DEF ContainsReported, IsLowerTail, IsUpperTail
  <2>6. ContainsReported(o[i], w)
    BY <2>2 DEF ContainsReported, IsLowerTail, IsUpperTail
  <2> QED
    BY <1>3, <2>2, <2>5, <2>6, DividedApart
<1>5. i < k
  BY <1>1, <1>3, <1>4
<1> QED
  BY <1>2, <1>5

LEMMA DividedIsChain ==
    ASSUME NEW o, NEW L, Divided(o, L)
    PROVE  Chain(o, L)
<1>1. L \in Nat /\ L >= 2 /\ DOMAIN o = 1 .. L /\ \A n \in 1 .. L : o[n] \in Buckets
  BY DEF Divided
<1>2. o[1].lower = None
  <2> SUFFICES ASSUME o[1].lower # None PROVE FALSE
    OBVIOUS
  <2> DEFINE a == o[1].lower
  <2>1. 1 \in 1 .. L /\ a \in Int /\ OneOf(o, a - 1)
    <3>1. 1 \in 1 .. L
      BY <1>1
    <3>2. a \in Int
      BY <3>1, DividedBounds
    <3>3. OneOf(o, a - 1)
      BY <3>1 DEF Divided
    <3> QED
      BY <3>1, <3>2, <3>3
  <2>2. PICK k \in 1 .. L : ContainsReported(o[k], a - 1)
    BY <1>1, <2>1 DEF OneOf
  <2>3. o[k].lower # None /\ a <= o[k].lower /\ o[k].lower \in Int
    <3>1. CASE k = 1
      BY <2>1, <3>1
    <3>2. CASE k # 1
      <4>1. 1 < k
        BY <3>2
      <4> QED
        BY <2>1, <4>1, DividedBounds
    <3> QED
      BY <3>1, <3>2
  <2> QED
    BY <2>1, <2>2, <2>3 DEF ContainsReported, IsLowerTail
<1>3. o[L].upper = None
  <2>1. L \in 1 .. L /\ ~ \E k \in 1 .. L : L < k
    BY <1>1
  <2> QED
    BY <2>1, NextIsLater
<1>4. ASSUME NEW n \in 1 .. (L - 1)
      PROVE  o[n].upper # None /\ o[n + 1].lower # None /\ o[n + 1].lower = o[n].upper + 1
  <2> DEFINE m == n + 1
  <2>1. n \in 1 .. L /\ m \in 1 .. L /\ 1 \in 1 .. L /\ L \in 1 .. L /\ n < m /\ m # 1 /\ n # L /\ n # m
    BY <1>1
  <2>a. \A k \in 1 .. L : n < k => k = m \/ m < k
    BY <1>1
  <2> HIDE DEF m
  <2>2. o[n].upper # None /\ o[m].lower # None
    BY <1>2, <1>3, <2>1, TailsAreEnds
  <2> DEFINE u == o[n].upper
             l == o[m].lower
  <2>3. u \in Int /\ l \in Int /\ OneOf(o, l)
    BY <2>1, <2>2, DividedBounds DEF Divided
  <2>4. PICK k \in 1 .. L : n < k /\ ContainsReported(o[k], u + 1)
    BY <2>1, <2>2, NextIsLater
  <2>5. o[k].lower # None /\ o[k].lower \in Int /\ l <= o[k].lower
    <3>1. CASE k = m
      BY <2>2, <2>3, <3>1
    <3>2. CASE m < k
      BY <2>1, <2>2, <3>2, DividedBounds
    <3> QED
      BY <2>a, <2>4, <3>1, <3>2
  <2>6. l <= u + 1
    BY <2>3, <2>4, <2>5 DEF ContainsReported, IsLowerTail
  <2>7. ASSUME l <= u PROVE FALSE
    <3>1. o[n].lower = None \/ o[n].lower <= l
      BY <2>1, DividedBounds
    <3>2. ContainsReported(o[n], l)
      BY <2>7, <3>1 DEF ContainsReported, IsLowerTail
    <3>3. ContainsReported(o[m], l)
      BY <2>1, <2>2, DividedBounds DEF ContainsReported, IsUpperTail
    <3> QED
      BY <2>1, <2>3, <3>2, <3>3, DividedApart
  <2>8. l = u + 1
    BY <2>3, <2>6, <2>7
  <2> QED
    BY <2>2, <2>8 DEF m
<1> QED
  BY <1>1, <1>2, <1>3, <1>4 DEF Chain
-----------------------------------------------------------------------------
LEMMA OrderedIs ==
    ASSUME NEW s \in Seq(Buckets)
    PROVE  Ordered(s) \in Seq(Buckets) /\ Len(Ordered(s)) = Len(s)
<1> DEFINE o == Ordered(s)
           L == Len(s)
<1>1. L \in Nat /\ DOMAIN s = 1 .. L
  OBVIOUS
<1>2. PICK p : Arranges(p, s, o)
  BY OrderedArranges
<1>3. o = [n \in DOMAIN s |-> o[n]]
  BY DEF Ordered
<1> HIDE DEF o, L
<1>4. \A n \in 1 .. L : o[n] \in Buckets
  <2>1. ASSUME NEW n \in 1 .. L PROVE o[n] \in Buckets
    <3>1. p[n] \in DOMAIN s /\ o[n] = s[p[n]]
      BY <1>1, <1>2 DEF Arranges
    <3> QED
      BY <3>1
  <2> QED
    BY <2>1
<1>5. o \in [1 .. L -> Buckets]
  BY <1>1, <1>3, <1>4
<1>6. o \in Seq(Buckets) /\ Len(o) = L
  BY <1>1, <1>5
<1> QED
  BY <1>6 DEF o, L

\* The checks of the partition accept a chain ...
LEMMA AcceptedIsChain ==
    ASSUME NEW s \in Seq(Buckets), ValidPartition(s, Ordered(s))
    PROVE  Chain(Ordered(s), Len(s))
<1> DEFINE o == Ordered(s)
           L == Len(s)
<1>1. L \in Nat /\ o \in Seq(Buckets) /\ Len(o) = L
  BY OrderedIs
<1>2. L >= 2 /\ IsLowerTail(o[1]) /\ IsUpperTail(o[Len(o)]) /\ Contiguous(o)
  BY DEF ValidPartition
<1> HIDE DEF o, L
<1>3. o[1].lower = None /\ o[L].upper = None
  BY <1>1, <1>2 DEF IsLowerTail, IsUpperTail
<1>4. \A n \in 1 .. (L - 1) :
          o[n].upper # None /\ o[n + 1].lower # None /\ o[n + 1].lower = o[n].upper + 1
  BY <1>1, <1>2 DEF Contiguous
<1>5. DOMAIN o = 1 .. L /\ \A n \in 1 .. L : o[n] \in Buckets
  BY <1>1
<1>6. Chain(o, L)
  BY <1>1, <1>2, <1>3, <1>4, <1>5 DEF Chain
<1> QED
  BY <1>6 DEF o, L

\* ... and therefore a partition of all the temperatures.
LEMMA AcceptedSettlesOne ==
    ASSUME NEW s \in Seq(Buckets), ValidPartition(s, Ordered(s)), NEW t \in Int
    PROVE  OneOf(s, t)
<1>1. OneOf(Ordered(s), t)
  BY AcceptedIsChain, ChainSettlesOne
<1>2. PICK p : Arranges(p, s, Ordered(s))
  BY OrderedArranges
<1> QED
  BY <1>1, <1>2, OneOfArranged

LEMMA AcceptedPartitions ==
    ASSUME NEW s \in Seq(Buckets), ValidPartition(s, Ordered(s))
    PROVE  Partitions(s)
<1>1. \A t \in Int : OneOf(s, t)
  BY AcceptedSettlesOne
<1> QED
  BY <1>1, PartitionsIs, ReportedIs

\* Every partition in the expected unit passes the checks.
LEMMA PartitionAccepted ==
    ASSUME NEW s \in Seq(Buckets), Len(s) >= 2, Partitions(s),
           \A b \in Range(s) : b.unit = Expected
    PROVE  ValidPartition(s, Ordered(s))
<1> DEFINE o == Ordered(s)
           L == Len(s)
<1>1. L \in Nat /\ L >= 2 /\ DOMAIN s = 1 .. L /\ o \in Seq(Buckets) /\ Len(o) = L
  BY OrderedIs
<1>2. PICK p : Arranges(p, s, o)
  BY OrderedArranges
<1>3. Divided(o, L)
  BY <1>2, DividedBy
<1> HIDE DEF o, L
<1>4. Chain(o, L)
  BY <1>3, DividedIsChain
<1>5. \A n \in 1 .. L : p[n] \in 1 .. L /\ o[n] = s[p[n]]
  BY <1>1, <1>2 DEF Arranges
<1>6. ASSUME NEW i \in 1 .. L PROVE \E n \in 1 .. L : p[n] = i /\ o[n] = s[i]
  <2>1. PICK n \in 1 .. L : p[n] = i
    BY <1>1, <1>2 DEF Arranges
  <2> QED
    BY <1>5, <2>1
<1>7. Cardinality({b.unit : b \in Range(s)}) = 1
  <2>1. s[1] \in Range(s)
    BY <1>1 DEF Range
  <2>2. {b.unit : b \in Range(s)} = {Expected}
    BY <2>1
  <2> QED
    BY <2>2, FS_Singleton
<1>8. 1 \in 1 .. L /\ L \in 1 .. L /\ o[1].lower = None /\ o[L].upper = None
  BY <1>1, <1>4 DEF Chain
<1>9. HasOne(s, IsLowerTail)
  <2>1. ASSUME NEW i \in DOMAIN s, s[i].lower = None PROVE i = p[1]
    <3>1. PICK n \in 1 .. L : p[n] = i /\ o[n] = s[i]
      BY <1>1, <1>6
    <3> QED
      BY <1>3, <1>8, <2>1, <3>1, TailsAreEnds
  <2>2. {i \in DOMAIN s : s[i].lower = None} = {p[1]}
    BY <1>1, <1>5, <1>8, <2>1
  <2> QED
    BY <2>2, FS_Singleton DEF HasOne, IsLowerTail
<1>10. HasOne(s, IsUpperTail)
  <2>1. ASSUME NEW i \in DOMAIN s, s[i].upper = None PROVE i = p[L]
    <3>1. PICK n \in 1 .. L : p[n] = i /\ o[n] = s[i]
      BY <1>1, <1>6
    <3> QED
      BY <1>3, <1>8, <2>1, <3>1, TailsAreEnds
  <2>2. {i \in DOMAIN s : s[i].upper = None} = {p[L]}
    BY <1>1, <1>5, <1>8, <2>1
  <2> QED
    BY <2>2, FS_Singleton DEF HasOne, IsUpperTail
<1>11. IsInjective(s)
  <2>1. ASSUME NEW i \in DOMAIN s, NEW j \in DOMAIN s, s[i] = s[j] PROVE i = j
    <3>1. PICK m \in 1 .. L : p[m] = i /\ o[m] = s[i]
      BY <1>1, <1>6
    <3>2. PICK n \in 1 .. L : p[n] = j /\ o[n] = s[j]
      BY <1>1, <1>6
    <3> QED
      BY <1>3, <2>1, <3>1, <3>2, TailsAreEnds
  <2> QED
    BY <2>1 DEF IsInjective
<1>12. IsLowerTail(o[1]) /\ IsUpperTail(o[Len(o)])
  BY <1>1, <1>8 DEF IsLowerTail, IsUpperTail
<1>13. Contiguous(o)
  BY <1>1, <1>4 DEF Contiguous, Chain
<1>14. ValidPartition(s, o)
  BY <1>1, <1>7, <1>9, <1>10, <1>11, <1>12, <1>13 DEF ValidPartition, L
<1> QED
  BY <1>14 DEF o
-----------------------------------------------------------------------------
\* What the property needs to be inductive: a partition in use passed the
\* checks, and the choice is what the forecast says.
EventInv ==
    /\ markets \in Seq(Buckets)
    /\ status \in {"reading", "parsed", "chosen", "rejected"}
    /\ status \in {"parsed", "chosen"} =>
          ValidPartition(markets, Ordered(markets)) /\ buckets = Ordered(markets)
    /\ status # "chosen" => forecast = None
    /\ status = "chosen" =>
          /\ forecast \in Int
          /\ chosen = {i \in DOMAIN markets : markets[i] \in BucketForForecast(forecast)}

LEMMA RoundHalfUpIs ==
    ASSUME NEW h \in Halves
    PROVE  h \in Int /\ RoundHalfUp(h) \in Int
BY TemperatureAssumption DEF RoundHalfUp

\* The sorted buckets are the buckets of the markets.
LEMMA OrderedRange ==
    ASSUME NEW s \in Seq(Buckets)
    PROVE  Range(Ordered(s)) = Range(s)
<1>1. PICK p : Arranges(p, s, Ordered(s))
  BY OrderedArranges
<1> DEFINE o == Ordered(s)
<1>2. DOMAIN o = DOMAIN s /\ \A n \in DOMAIN s : p[n] \in DOMAIN s /\ o[n] = s[p[n]]
  BY <1>1 DEF Arranges
<1>3. \A i \in DOMAIN s : \E n \in DOMAIN s : p[n] = i
  BY <1>1 DEF Arranges
<1> HIDE DEF o
<1>4. \A b : b \in Range(o) <=> \E n \in DOMAIN s : b = o[n]
  BY <1>2 DEF Range
<1>5. \A b : b \in Range(s) <=> \E i \in DOMAIN s : b = s[i]
  BY DEF Range
<1>6. ASSUME NEW b \in Range(s) PROVE b \in Range(o)
  <2>1. PICK i \in DOMAIN s : b = s[i]
    BY <1>5
  <2>2. PICK n \in DOMAIN s : p[n] = i
    BY <1>3
  <2> QED
    BY <1>2, <1>4, <2>1, <2>2
<1>7. \A b \in Range(o) : b \in Range(s)
  BY <1>2, <1>4, <1>5
<1>8. Range(o) = Range(s)
  BY <1>6, <1>7
<1> QED
  BY <1>8 DEF o

\* One bucket has the forecast, so placing it never raises.
LEMMA ForecastHasBucket ==
    ASSUME EventInv, status = "parsed", NEW h \in Halves
    PROVE  Cardinality(BucketForForecast(h)) = 1
<1> DEFINE t == RoundHalfUp(h)
<1>1. markets \in Seq(Buckets) /\ ValidPartition(markets, Ordered(markets)) /\ Range(buckets) = Range(markets)
  BY OrderedRange DEF EventInv
<1>2. OneOf(markets, t)
  BY <1>1, RoundHalfUpIs, AcceptedSettlesOne
<1> HIDE DEF t
<1>3. PICK i \in DOMAIN markets : /\ ContainsReported(markets[i], t)
                                  /\ \A j \in DOMAIN markets : ContainsReported(markets[j], t) => j = i
  BY <1>2 DEF OneOf
<1>4. {b \in Range(markets) : ContainsReported(b, t)} = {markets[i]}
  BY <1>3 DEF Range
<1>5. BucketForForecast(h) = {markets[i]}
  BY <1>1, <1>4 DEF BucketForForecast, t
<1> QED
  BY <1>5, FS_Singleton

LEMMA EventInvInitially ==
    ASSUME EventInit
    PROVE  EventInv
BY DEF EventInit, EventInv

LEMMA EventInvPreserved ==
    ASSUME EventInv, [EventNext]_eventVars
    PROVE  EventInv'
<1>1. ASSUME NEW b \in Buckets, ReadMarket(b) PROVE EventInv'
  BY <1>1 DEF ReadMarket, EventInv
<1>2. ASSUME RejectEvent, forecast' = None PROVE EventInv'
  BY <1>2 DEF RejectEvent, EventInv
<1>3. CASE ReadMalformed
  BY <1>2, <1>3 DEF ReadMalformed, EventInv
<1>4. CASE BuildPartition
  <2>1. CASE RejectEvent
    BY <1>2, <1>4, <2>1 DEF BuildPartition, EventInv
  <2>2. CASE /\ ValidPartition(markets, Ordered(markets))
             /\ status' = "parsed" /\ buckets' = Ordered(markets) /\ UNCHANGED <<markets, chosen>>
    <3>1. forecast' = None
      BY <1>4 DEF BuildPartition, EventInv
    <3>2. markets' = markets
      BY <2>2
    <3>3. ValidPartition(markets, Ordered(markets))' /\ (buckets = Ordered(markets))'
      BY <2>2, <3>2
    <3> QED
      BY <2>2, <3>1, <3>2, <3>3 DEF EventInv
  <2> QED
    BY <1>4, <2>1, <2>2 DEF BuildPartition
<1>5. ASSUME NEW h \in Halves, PlaceForecast(h) PROVE EventInv'
  <2>1. /\ status = "parsed" /\ forecast' = h /\ status' = "chosen"
        /\ chosen' = {i \in DOMAIN markets : markets[i] \in BucketForForecast(h)}
        /\ UNCHANGED <<markets, buckets>>
    <3>1. status = "parsed"
      BY <1>5 DEF PlaceForecast
    <3> QED
      BY <1>5, <3>1, ForecastHasBucket DEF PlaceForecast
  <2>2. ValidPartition(markets, Ordered(markets))' /\ (buckets = Ordered(markets))'
    BY <2>1 DEF EventInv
  <2>3. h \in Int
    BY RoundHalfUpIs
  <2>4. (chosen = {i \in DOMAIN markets : markets[i] \in BucketForForecast(forecast)})'
    BY <2>1 DEF BucketForForecast
  <2> QED
    BY <2>1, <2>2, <2>3, <2>4 DEF EventInv
<1>6. CASE UNCHANGED eventVars
  BY <1>6 DEF EventInv, eventVars, BucketForForecast
<1> QED
  BY <1>1, <1>3, <1>4, <1>5, <1>6 DEF EventNext, EventDone

LEMMA EventInvariant == EventSpec => []EventInv
<1>1. EventInit => EventInv
  BY EventInvInitially
<1>2. EventInv /\ [EventNext]_eventVars => EventInv'
  BY EventInvPreserved
<1> QED
  BY <1>1, <1>2, PTL DEF EventSpec

\* Sorting the buckets and comparing neighbours, as
\* TemperatureMarketPartition does, accepts exactly the events whose markets
\* partition the temperatures: for any number of markets, in any order, with
\* any bounds.
THEOREM AcceptedIffPartitionHolds == EventSpec => []AcceptedIffPartition
<1>1. EventInv => AcceptedIffPartition
  <2> SUFFICES ASSUME EventInv PROVE AcceptedIffPartition
    OBVIOUS
  <2>1. markets \in Seq(Buckets)
    BY DEF EventInv
  <2>2. status \in {"parsed", "chosen"} => Partitions(markets)
    BY <2>1, AcceptedPartitions DEF EventInv
  <2> QED
    BY <2>1, <2>2, PartitionAccepted DEF AcceptedIffPartition
<1> QED
  BY <1>1, EventInvariant, PTL

\* bucket_for_forecast never raises on an accepted event, and the market the
\* scanner quotes is the only one that settles YES at the rounded forecast.
THEOREM ForecastChoosesOneHolds == EventSpec => []ForecastChoosesOne
<1>1. EventInv => ForecastChoosesOne
  <2> SUFFICES ASSUME EventInv PROVE ForecastChoosesOne
    OBVIOUS
  <2>1. forecast # None => status = "chosen"
    BY DEF EventInv
  <2>2. ASSUME status = "chosen"
        PROVE  \E i \in DOMAIN markets :
                  /\ chosen = {i}
                  /\ \A j \in DOMAIN markets :
                        ContainsReported(markets[j], RoundHalfUp(forecast)) <=> j = i
    <3> DEFINE t == RoundHalfUp(forecast)
    <3>1. /\ markets \in Seq(Buckets) /\ ValidPartition(markets, Ordered(markets))
          /\ Range(buckets) = Range(markets) /\ forecast \in Int
          /\ chosen = {i \in DOMAIN markets : markets[i] \in BucketForForecast(forecast)}
      BY <2>2, OrderedRange DEF EventInv
    <3>2. t \in Int
      BY <3>1 DEF RoundHalfUp
    <3>3. OneOf(markets, t)
      BY <3>1, <3>2, AcceptedSettlesOne
    <3>4. \A b : b \in BucketForForecast(forecast) <=> b \in Range(markets) /\ ContainsReported(b, t)
      BY <3>1 DEF BucketForForecast
    <3> HIDE DEF t
    <3>5. PICK i \in DOMAIN markets : /\ ContainsReported(markets[i], t)
                                      /\ \A j \in DOMAIN markets : ContainsReported(markets[j], t) => j = i
      BY <3>3 DEF OneOf
    <3>6. \A j \in DOMAIN markets : j \in chosen <=> j = i
      BY <3>1, <3>4, <3>5 DEF Range
    <3>7. chosen = {i}
      BY <3>1, <3>6
    <3>8. \A j \in DOMAIN markets : ContainsReported(markets[j], t) <=> j = i
      BY <3>5
    <3> QED
      BY <3>7, <3>8 DEF t
  <2> QED
    BY <2>1, <2>2 DEF ForecastChoosesOne
<1> QED
  BY <1>1, EventInvariant, PTL

-----------------------------------------------------------------------------
(* The size of an entry *)

LEMMA PolicyIs ==
    /\ Unit \in Nat \ {0} /\ Precision \in Nat \ {0} /\ MinimumSize \in Nat \ {0}
    /\ Precision \div Unit \in Int
    /\ Costs.fee \in Nat /\ Costs.fixed \in Nat /\ Costs.margin \in Nat /\ Costs.return \in Nat
    /\ Costs.average \in Nat /\ Costs.worst \in Nat /\ Costs.maximum \in 1 .. (Unit - 1)
    /\ Multiplier \in Nat \ {0}
    /\ Sizing.multiplier \in Nat /\ Sizing.perTrade \in Nat \ {0}
BY ScaleAssumption, CostAssumption, SizingAssumption DEF Multiplier

LEMMA HalfEvenIs ==
    ASSUME NEW n \in Int, NEW d \in Nat \ {0}
    PROVE  HalfEven(n, d) \in Int
BY DEF HalfEven

LEMMA BookIs ==
    ASSUME NEW asks \in Books
    PROVE  /\ IsFiniteSet(DOMAIN asks) /\ DOMAIN asks \subseteq Nat /\ 1 \in DOMAIN asks
           /\ \A i \in DOMAIN asks : asks[i] \in Levels
<1> DEFINE n == Len(asks)
<1>1. asks \in Seq(Levels) /\ asks # <<>>
  BY InputAssumption
<1>2. n \in Nat \ {0} /\ DOMAIN asks = 1 .. n /\ \A i \in 1 .. n : asks[i] \in Levels
  BY <1>1
<1> HIDE DEF n
<1>3. IsFiniteSet(1 .. n)
  BY <1>2, FS_Interval
<1> QED
  BY <1>2, <1>3

LEMMA LevelIs ==
    ASSUME NEW level \in Levels
    PROVE  level.price \in Nat \ {0} /\ level.size \in Nat \ {0} /\ LevelCost(level) \in Int
<1>1. level.price \in Nat \ {0} /\ level.size \in Nat \ {0} /\ Precision \div Unit \in Int
  BY PolicyIs DEF Levels
<1> DEFINE k == Precision \div Unit
<1> HIDE DEF k
<1>2. level.size * level.price * k \in Int
  BY <1>1 DEF k
<1> QED
  BY <1>1, <1>2 DEF LevelCost, k

LEMMA NotionalIs ==
    ASSUME NEW asks \in Books
    PROVE  Notional(asks) \in Int
<1> DEFINE S == DOMAIN asks
           IsIt(g) == g = [s \in SUBSET S |->
                             IF s = {} THEN 0
                             ELSE g[s \ {Pick(s)}] + LevelCost(asks[Pick(s)])]
           It == CHOOSE g : IsIt(g)
           pick == [s \in SUBSET S |-> Pick(s)]
           adds == [z \in S \X Int |-> z[2] + LevelCost(asks[z[1]])]
<1>1. Notional(asks) = It[S]
  BY DEF Notional, FoldSeq, FoldFunction, FoldFunctionOnSet, MapThenFoldSet, Pick
<1>2. IsFiniteSet(S) /\ \A i \in S : LevelCost(asks[i]) \in Int
  BY BookIs, LevelIs
<1>3. \A s \in SUBSET S : s # {} => pick[s] \in s /\ pick[s] = Pick(s)
  BY PickOne
<1> HIDE DEF S
<1>4. adds \in [S \X Int -> Int]
  BY <1>2
<1>5. ASSUME NEW i \in S, NEW n \in Int PROVE adds[i, n] = n + LevelCost(asks[i])
  <2>1. <<i, n>> \in S \X Int /\ <<i, n>>[1] = i /\ <<i, n>>[2] = n
    OBVIOUS
  <2> QED
    BY <2>1
<1> HIDE DEF pick, adds
<1>6. PICK g \in [SUBSET S -> Int] : IsFold(g, S, pick, adds, 0)
  <2>1. \A s \in SUBSET S : s # {} => pick[s] \in s
    BY <1>3
  <2>2. 0 \in Int /\ IsFiniteSet(S)
    BY <1>2
  <2> QED
    BY <1>4, <2>1, <2>2, FoldExists
<1>7. IsIt(g)
  <2>1. g = [s \in SUBSET S |-> IF s = {} THEN 0 ELSE adds[pick[s], g[s \ {pick[s]}]]]
    BY <1>6 DEF IsFold
  <2>2. ASSUME NEW s \in SUBSET S, s # {}
        PROVE  adds[pick[s], g[s \ {pick[s]}]] = g[s \ {Pick(s)}] + LevelCost(asks[Pick(s)])
    <3>1. pick[s] \in S /\ pick[s] = Pick(s) /\ g[s \ {pick[s]}] \in Int
      BY <1>3, <2>2
    <3> QED
      BY <1>5, <3>1
  <2> QED
    BY <2>1, <2>2
<1>8. IsIt(It)
  BY <1>7
<1> HIDE DEF It
<1>9. It[{}] \in Int
  BY <1>8
<1>10. ASSUME NEW s \in SUBSET S, s # {}, It[s \ {pick[s]}] \in Int PROVE It[s] \in Int
  <2>1. It[s] = It[s \ {Pick(s)}] + LevelCost(asks[Pick(s)])
    BY <1>8, <1>10
  <2>2. Pick(s) \in S /\ It[s \ {Pick(s)}] \in Int
    BY <1>3, <1>10
  <2> QED
    BY <1>2, <2>1, <2>2
<1>11. It[S] \in Int
  BY <1>2, <1>3, <1>9, <1>10, FoldStays
<1> QED
  BY <1>1, <1>11

\* What has been taken of a book, to the last level.
Spending == [shares : Int, cost : Int, left : Int, worst : Int]

LEMMA SpendStays ==
    ASSUME NEW r \in Spending, NEW level \in Levels
    PROVE  Spend(r, level) \in Spending
<1>1. /\ r.shares \in Int /\ r.cost \in Int /\ r.left \in Int
      /\ level.price \in Nat \ {0} /\ level.size \in Nat \ {0} /\ LevelCost(level) \in Int
      /\ Precision \in Nat /\ Unit \in Nat
  BY LevelIs, PolicyIs DEF Spending
<1> DEFINE all == level.size * Precision
           part == HalfEven(r.left * Unit, level.price)
<1>2. all \in Int /\ part \in Int
  BY <1>1, HalfEvenIs
<1> HIDE DEF all, part
<1>3. /\ [shares |-> r.shares + all, cost |-> r.cost + LevelCost(level),
          left |-> r.left - LevelCost(level), worst |-> level.price] \in Spending
      /\ [shares |-> r.shares + part, cost |-> r.cost + r.left, left |-> 0, worst |-> level.price] \in Spending
  BY <1>1, <1>2 DEF Spending
<1> QED
  BY <1>3 DEF Spend, all, part

\* What every level of a book keeps, the whole book keeps.
LEMMA SpentStays ==
    ASSUME NEW asks \in Books, NEW money \in Int, NEW T,
           [shares |-> 0, cost |-> 0, left |-> money, worst |-> 0] \in T,
           \A r \in T, i \in DOMAIN asks : Spend(r, asks[i]) \in T
    PROVE  Spent(asks, money) \in T
<1> DEFINE S == DOMAIN asks
           base == [shares |-> 0, cost |-> 0, left |-> money, worst |-> 0]
           IsIt(g) == g = [s \in SUBSET S |->
                             IF s = {} THEN base ELSE Spend(g[s \ {Max(s)}], asks[Max(s)])]
           It == CHOOSE g : IsIt(g)
           pick == [s \in SUBSET S |-> Max(s)]
           adds == [z \in S \X T |-> Spend(z[2], asks[z[1]])]
<1>1. Spent(asks, money) = It[S]
  BY DEF Spent, FoldLeft, MapThenFoldSet
<1>2. IsFiniteSet(S) /\ S \subseteq Nat /\ \A r \in T, i \in S : Spend(r, asks[i]) \in T
  BY BookIs
<1>3. \A s \in SUBSET S : s # {} => pick[s] \in s /\ pick[s] = Max(s)
  BY <1>2, GreatestPicked, FS_Subset
<1>4. base \in T
  OBVIOUS
<1> HIDE DEF S, base
<1>5. adds \in [S \X T -> T]
  BY <1>2
<1>6. ASSUME NEW i \in S, NEW r \in T PROVE adds[i, r] = Spend(r, asks[i])
  <2>1. <<i, r>> \in S \X T /\ <<i, r>>[1] = i /\ <<i, r>>[2] = r
    OBVIOUS
  <2> QED
    BY <2>1
<1> HIDE DEF pick, adds
<1>7. PICK g \in [SUBSET S -> T] : IsFold(g, S, pick, adds, base)
  <2>1. \A s \in SUBSET S : s # {} => pick[s] \in s
    BY <1>3
  <2> QED
    BY <1>2, <1>4, <1>5, <2>1, FoldExists
<1>8. IsIt(g)
  <2>1. g = [s \in SUBSET S |-> IF s = {} THEN base ELSE adds[pick[s], g[s \ {pick[s]}]]]
    BY <1>7 DEF IsFold
  <2>2. ASSUME NEW s \in SUBSET S, s # {}
        PROVE  adds[pick[s], g[s \ {pick[s]}]] = Spend(g[s \ {Max(s)}], asks[Max(s)])
    <3>1. pick[s] \in S /\ pick[s] = Max(s) /\ g[s \ {pick[s]}] \in T
      BY <1>3, <2>2
    <3> QED
      BY <1>6, <3>1
  <2> QED
    BY <2>1, <2>2
<1>9. IsIt(It)
  BY <1>8
<1> HIDE DEF It
<1>10. It[{}] \in T
  BY <1>4, <1>9
<1>11. ASSUME NEW s \in SUBSET S, s # {}, It[s \ {pick[s]}] \in T PROVE It[s] \in T
  <2>1. It[s] = Spend(It[s \ {Max(s)}], asks[Max(s)])
    BY <1>9, <1>11
  <2>2. Max(s) \in S /\ It[s \ {Max(s)}] \in T
    BY <1>3, <1>11
  <2>3. Spend(It[s \ {Max(s)}], asks[Max(s)]) \in T
    BY <1>2, <2>2
  <2> QED
    BY <2>1, <2>3
<1>12. It[S] \in T
  <2>1. \A s \in SUBSET S : s # {} => pick[s] \in s
    BY <1>3
  <2> QED
    BY <1>2, <1>10, <1>11, <2>1, FoldStays
<1> QED
  BY <1>1, <1>12

LEMMA SpentIs ==
    ASSUME NEW asks \in Books, NEW money \in Int
    PROVE  Spent(asks, money) \in Spending
<1>1. [shares |-> 0, cost |-> 0, left |-> money, worst |-> 0] \in Spending
  BY DEF Spending
<1>2. \A r \in Spending, i \in DOMAIN asks : Spend(r, asks[i]) \in Spending
  BY BookIs, SpendStays
<1> QED
  BY <1>1, <1>2, SpentStays

Taking == [shares : Int, cost : Int, done : BOOLEAN]

LEMMA TakeStays ==
    ASSUME NEW best \in Int, NEW r \in Taking, NEW level \in Levels
    PROVE  TakeWithin(best, r, level) \in Taking
<1>1. /\ r.shares \in Int /\ r.cost \in Int
      /\ level.price \in Nat \ {0} /\ level.size \in Nat \ {0}
      /\ Precision \in Nat /\ Unit \in Nat \ {0} /\ Costs.average \in Nat
  BY LevelIs, PolicyIs DEF Taking
<1> DEFINE cap == best + Costs.average
           headroom == cap * r.shares - r.cost * Unit
           all == level.size * Precision
           most == HalfEven(headroom, level.price - cap) - 1
           take == IF level.price <= cap THEN all ELSE Least(all, most)
           cost == HalfEven(take * level.price, Unit)
           ends == take < all \/ level.price > cap
<1>2. cap \in Int
  BY <1>1
<1>3. headroom \in Int
  <2> HIDE DEF cap
  <2> QED
    BY <1>1, <1>2
<1>4. all \in Int
  BY <1>1
<1> HIDE DEF cap, headroom, all
<1>5. ~(level.price <= cap) => most \in Int
  <2> SUFFICES ASSUME ~(level.price <= cap) PROVE most \in Int
    OBVIOUS
  <2>1. level.price - cap \in Nat \ {0}
    BY <1>1, <1>2
  <2>2. HalfEven(headroom, level.price - cap) \in Int
    BY <1>3, <2>1, HalfEvenIs
  <2> QED
    BY <2>2
<1> HIDE DEF most
<1>6. take \in Int
  BY <1>4, <1>5 DEF Least
<1> HIDE DEF take
<1>7. cost \in Int
  BY <1>1, <1>6, HalfEvenIs
<1>8. ends \in BOOLEAN
  OBVIOUS
<1> HIDE DEF cost, ends
<1>9. [shares |-> r.shares + take, cost |-> r.cost + cost, done |-> ends] \in Taking
  BY <1>1, <1>6, <1>7, <1>8 DEF Taking
<1>10. [r EXCEPT !.done = TRUE] \in Taking
  BY DEF Taking
<1> QED
  BY <1>9, <1>10 DEF TakeWithin, cap, headroom, all, most, take, cost, ends

LEMMA TakenWithinIs ==
    ASSUME NEW asks \in Books
    PROVE  TakenWithin(asks) \in Taking
<1> DEFINE best == asks[1].price
           S == DOMAIN asks
           base == [shares |-> 0, cost |-> 0, done |-> FALSE]
           IsIt(g) == g = [s \in SUBSET S |->
                             IF s = {} THEN base ELSE TakeWithin(best, g[s \ {Max(s)}], asks[Max(s)])]
           It == CHOOSE g : IsIt(g)
           pick == [s \in SUBSET S |-> Max(s)]
           adds == [z \in S \X Taking |-> TakeWithin(best, z[2], asks[z[1]])]
<1>1. TakenWithin(asks) = It[S]
  BY DEF TakenWithin, FoldLeft, MapThenFoldSet
<1>2. IsFiniteSet(S) /\ S \subseteq Nat /\ \A i \in S : asks[i] \in Levels
  BY BookIs
<1>3. \A s \in SUBSET S : s # {} => pick[s] \in s /\ pick[s] = Max(s)
  BY <1>2, GreatestPicked, FS_Subset
<1>4. base \in Taking
  BY DEF Taking
<1>a. best \in Int
  BY BookIs, LevelIs
<1> HIDE DEF S, base, best
<1>5. adds \in [S \X Taking -> Taking]
  BY <1>2, <1>a, TakeStays
<1>6. ASSUME NEW i \in S, NEW r \in Taking PROVE adds[i, r] = TakeWithin(best, r, asks[i])
  <2>1. <<i, r>> \in S \X Taking /\ <<i, r>>[1] = i /\ <<i, r>>[2] = r
    OBVIOUS
  <2> QED
    BY <2>1
<1> HIDE DEF pick, adds
<1>7. PICK g \in [SUBSET S -> Taking] : IsFold(g, S, pick, adds, base)
  <2>1. \A s \in SUBSET S : s # {} => pick[s] \in s
    BY <1>3
  <2> QED
    BY <1>2, <1>4, <1>5, <2>1, FoldExists
<1>8. IsIt(g)
  <2>1. g = [s \in SUBSET S |-> IF s = {} THEN base ELSE adds[pick[s], g[s \ {pick[s]}]]]
    BY <1>7 DEF IsFold
  <2>2. ASSUME NEW s \in SUBSET S, s # {}
        PROVE  adds[pick[s], g[s \ {pick[s]}]] = TakeWithin(best, g[s \ {Max(s)}], asks[Max(s)])
    <3>1. pick[s] \in S /\ pick[s] = Max(s) /\ g[s \ {pick[s]}] \in Taking
      BY <1>3, <2>2
    <3> QED
      BY <1>6, <3>1
  <2> QED
    BY <2>1, <2>2
<1>9. IsIt(It)
  BY <1>8
<1> HIDE DEF It
<1>10. It[{}] \in Taking
  BY <1>4, <1>9
<1>11. ASSUME NEW s \in SUBSET S, s # {}, It[s \ {pick[s]}] \in Taking PROVE It[s] \in Taking
  <2>1. It[s] = TakeWithin(best, It[s \ {Max(s)}], asks[Max(s)])
    BY <1>9, <1>11
  <2>2. Max(s) \in S /\ It[s \ {Max(s)}] \in Taking
    BY <1>3, <1>11
  <2>3. asks[Max(s)] \in Levels
    BY <1>2, <2>2
  <2>4. TakeWithin(best, It[s \ {Max(s)}], asks[Max(s)]) \in Taking
    BY <1>a, <2>2, <2>3, TakeStays
  <2> QED
    BY <2>1, <2>4
<1>12. It[S] \in Taking
  <2>1. \A s \in SUBSET S : s # {} => pick[s] \in s
    BY <1>3
  <2> QED
    BY <1>2, <1>10, <1>11, <2>1, FoldStays
<1> QED
  BY <1>1, <1>12

\* A product of integers, in steps: nonlinear terms are hidden from the provers.
LEMMA KellyIs ==
    ASSUME NEW cash \in Nat, NEW probability \in Probabilities, NEW price \in Int, price < Unit * Precision
    PROVE  KellyCash(cash, probability, price) \in Int /\ KellyCash(cash, probability, price) <= Sizing.perTrade
<1> DEFINE edge == probability * Precision - price
           odds == Unit * Precision - price
           stake == cash * Sizing.multiplier * edge
           share == Unit * odds
           uncapped == stake \div share
<1>1. /\ Unit \in Nat \ {0} /\ Precision \in Nat \ {0} /\ probability \in Nat
      /\ Sizing.multiplier \in Nat /\ Sizing.perTrade \in Nat
  BY PolicyIs, InputAssumption
<1>2. edge \in Int /\ odds \in Nat \ {0}
  BY <1>1
<1> HIDE DEF edge, odds
<1>3. stake \in Int /\ share \in Nat \ {0}
  BY <1>1, <1>2
<1> HIDE DEF stake, share
<1>4. uncapped \in Int
  BY <1>3
<1> HIDE DEF uncapped
<1>5. Least(Least(cash, Sizing.perTrade), uncapped) \in Int /\ Least(Least(cash, Sizing.perTrade), uncapped) <= Sizing.perTrade
  BY <1>1, <1>4 DEF Least
<1> QED
  BY <1>5 DEF KellyCash, uncapped, stake, share, edge, odds

LEMMA SlippageBudgetIs ==
    ASSUME NEW asks \in Books
    PROVE  SlippageBudget(asks) \in Int
<1> DEFINE r == TakenWithin(asks)
           cost == r.cost * Multiplier
           whole == HalfEven(cost, Unit) + Costs.fixed * Precision
<1>1. r.cost \in Int /\ Multiplier \in Nat /\ Unit \in Nat \ {0} /\ Precision \in Nat \ {0} /\ Costs.fixed \in Nat
  BY TakenWithinIs, PolicyIs DEF Taking
<1> HIDE DEF r
<1>2. cost \in Int
  BY <1>1
<1> HIDE DEF cost
<1>3. HalfEven(cost, Unit) \in Int
  BY <1>1, <1>2, HalfEvenIs
<1>4. whole \in Int
  BY <1>1, <1>3
<1> HIDE DEF whole
<1>5. whole \div Precision \in Int
  BY <1>1, <1>4
<1> QED
  BY <1>5 DEF SlippageBudget, whole, cost, r

\* An accepted quote costs no more than was asked for, and leaves an edge.
LEMMA AcceptedQuoteIs ==
    ASSUME NEW asks \in Books, NEW probability \in Probabilities, NEW money \in Int,
           NEW q, q = Evaluate(asks, probability, money), q.reason = "accepted"
    PROVE  /\ q.total \in Int /\ q.allIn \in Int /\ q.requested = money
           /\ q.total <= money * Precision
           /\ q.allIn < probability * Precision
           /\ q.allIn < Unit * Precision
           /\ q.shares \in Int /\ q.average \in Int
<1> DEFINE funds == (money - Costs.fixed) * Precision * Unit
           limit == HalfEven(funds, Multiplier) - 1
           b == QuoteBuyBudget(asks, Least(limit, Notional(asks)))
           gross == b.cost * Multiplier
           total == HalfEven(gross, Unit) + Costs.fixed * Precision
           worth == total * Unit * Precision
           allIn == HalfEven(worth, b.shares)
<1>1. /\ Unit \in Nat \ {0} /\ Precision \in Nat \ {0} /\ MinimumSize \in Nat \ {0} /\ Multiplier \in Nat \ {0}
      /\ Costs.fixed \in Nat /\ Costs.maximum \in 1 .. (Unit - 1) /\ probability \in Nat
  BY PolicyIs, InputAssumption
<1>2. /\ ~(b.shares < MinimumSize * Precision)
      /\ ~(total > money * Precision)
      /\ ~(allIn >= Costs.maximum * Precision)
      /\ ~(probability * Precision <= allIn)
      /\ q.total = total /\ q.allIn = allIn /\ q.requested = money
      /\ q.shares = b.shares /\ q.average = b.average
  BY DEF Evaluate, Rejected
<1>a. b.average = Greatest(HalfEven(b.cost * Unit * Precision, b.shares), asks[1].price * Precision)
  BY DEF QuoteBuyBudget
<1>3. funds \in Int
  BY <1>1
<1> HIDE DEF funds
<1>4. HalfEven(funds, Multiplier) \in Int
  BY <1>1, <1>3, HalfEvenIs
<1>5. limit \in Int
  BY <1>4
<1> HIDE DEF limit
<1>6. Least(limit, Notional(asks)) \in Int
  BY <1>5, NotionalIs DEF Least
<1>7. b.cost \in Int /\ b.shares \in Int
  BY <1>6, SpentIs DEF QuoteBuyBudget, Spending
<1> HIDE DEF b
<1>8. gross \in Int
  BY <1>1, <1>7
<1> HIDE DEF gross
<1>9. HalfEven(gross, Unit) \in Int
  BY <1>1, <1>8, HalfEvenIs
<1>10. total \in Int
  BY <1>1, <1>9
<1> HIDE DEF total
<1>11. worth \in Int
  BY <1>1, <1>10
<1>12. b.shares \in Nat \ {0}
  <2>1. MinimumSize * Precision \in Nat \ {0}
    BY <1>1
  <2> QED
    BY <1>2, <1>7, <2>1
<1>b. b.average \in Int
  <2> DEFINE per == b.cost * Unit * Precision
             first == asks[1].price * Precision
  <2>1. per \in Int
    BY <1>1, <1>7
  <2>2. first \in Int
    BY <1>1, BookIs, LevelIs
  <2> HIDE DEF per, first
  <2>3. HalfEven(per, b.shares) \in Int
    BY <1>12, <2>1, HalfEvenIs
  <2>4. Greatest(HalfEven(per, b.shares), first) \in Int
    BY <2>2, <2>3 DEF Greatest
  <2> QED
    BY <1>a, <2>4 DEF per, first
<1> HIDE DEF worth
<1>13. allIn \in Int
  BY <1>11, <1>12, HalfEvenIs
<1> HIDE DEF allIn
<1> DEFINE most == Costs.maximum * Precision
           par == Unit * Precision
           won == probability * Precision
           paid == money * Precision
<1>14. most \in Int /\ par \in Int /\ won \in Int /\ paid \in Int
  BY <1>1
<1>15. most <= par
  BY <1>1
<1>16. ~(total > paid) /\ ~(allIn >= most) /\ ~(won <= allIn)
  BY <1>2
<1> HIDE DEF most, par, won, paid
<1>17. total <= paid /\ allIn < won /\ allIn < par
  BY <1>10, <1>13, <1>14, <1>15, <1>16
<1> QED
  BY <1>2, <1>7, <1>10, <1>13, <1>17, <1>b DEF paid, won, par

\* The loop only lowers the budget, and leaves with a quote that it is sized on.
SizingInv ==
    /\ given \in Inputs
    /\ budget \in Int
    /\ stage \in {"size", "sized", "planned", "filled"} => budget <= Sizing.perTrade
    /\ stage \in {"sized", "planned", "filled"} =>
          /\ budget <= quote.requested
          /\ quote.total <= budget * Precision
          /\ budget <= KellyCash(given.cash, given.probability, quote.allIn)
          /\ quote.allIn < given.probability * Precision

LEMMA InputIs ==
    ASSUME given \in Inputs
    PROVE  /\ given.decision \in Books /\ given.execution \in Books
           /\ given.cash \in Nat /\ given.probability \in Probabilities
BY InputAssumption DEF Inputs

LEMMA SizingInvInitially ==
    ASSUME EntryInit
    PROVE  SizingInv
BY DEF EntryInit, SizingInv

LEMMA FinishKeeps ==
    ASSUME SizingInv, NEW outcome \in {"rejected", "raised"}, Finish(outcome)
    PROVE  SizingInv'
BY DEF Finish, SizingInv

LEMMA SeedKeeps ==
    ASSUME SizingInv, Seed
    PROVE  SizingInv'
<1> DEFINE best == given.decision[1].price
           price == best * Precision
           target == KellyCash(given.cash, given.probability, price)
<1>1. CASE Finish("rejected")
  BY <1>1, FinishKeeps
<1>2. CASE stage' = "size" /\ budget' = target /\ UNCHANGED <<given, iteration, quote, intent, plan>>
  <2>1. given \in Inputs
    BY DEF SizingInv
  <2>2. best \in 1 .. (Unit - 1) /\ Unit \in Nat \ {0} /\ Precision \in Nat \ {0}
    <3>1. given.decision[1] \in Levels
      BY <2>1, InputIs, BookIs
    <3> QED
      BY <3>1, PolicyIs DEF Levels
  <2> HIDE DEF best
  <2>3. price \in Int /\ price < Unit * Precision
    BY <2>2
  <2> HIDE DEF price
  <2>4. target \in Int /\ target <= Sizing.perTrade
    BY <2>1, <2>3, InputIs, KellyIs
  <2> HIDE DEF target
  <2> QED
    BY <1>2, <2>1, <2>4 DEF SizingInv
<1> QED
  BY <1>1, <1>2 DEF Seed

LEMMA SizeOnceKeeps ==
    ASSUME SizingInv, SizeOnce
    PROVE  SizingInv'
<1> DEFINE q == Evaluate(given.decision, given.probability, budget)
           limited == SlippageBudget(given.decision)
           sized == CandidateBudget(q)
           kelly == KellyCash(given.cash, given.probability, q.allIn)
<1>1. /\ given \in Inputs /\ budget \in Int /\ budget <= Sizing.perTrade /\ Sizing.perTrade \in Int
      /\ stage = "size"
  BY PolicyIs DEF SizingInv, SizeOnce
<1>2. given.decision \in Books /\ given.cash \in Nat /\ given.probability \in Probabilities
  BY <1>1, InputIs
<1>3. limited \in Int
  BY <1>2, SlippageBudgetIs
<1> HIDE DEF limited
<1>4. ASSUME q.reason = "accepted"
      PROVE  /\ q.requested = budget /\ q.total <= budget * Precision
             /\ q.allIn < given.probability * Precision
             /\ sized \in Int /\ kelly \in Int /\ sized <= kelly
  <2>1. /\ q.total \in Int /\ q.allIn \in Int /\ q.requested = budget
        /\ q.total <= budget * Precision
        /\ q.allIn < given.probability * Precision
        /\ q.allIn < Unit * Precision
    BY <1>1, <1>2, <1>4, AcceptedQuoteIs
  <2>2. kelly \in Int
    BY <1>2, <2>1, KellyIs
  <2>3. q.total \div Precision \in Int
    BY <2>1, PolicyIs
  <2>4. sized \in Int /\ sized <= kelly
    <3>1. sized = IF q.reduced THEN Least(q.total \div Precision, kelly) ELSE kelly
      BY DEF CandidateBudget
    <3> HIDE DEF kelly, sized, q
    <3> QED
      BY <2>2, <2>3, <3>1 DEF Least
  <2> QED
    BY <2>1, <2>2, <2>4
<1>5. UNCHANGED <<given, intent, plan>>
  BY DEF SizeOnce, Iterate
<1> HIDE DEF q, sized
<1>6. \/ stage' = "rejected" /\ budget' = budget
      \/ stage' = "size" /\ budget' = limited /\ limited < budget
      \/ stage' = "size" /\ budget' = sized /\ sized < budget /\ q.reason = "accepted"
      \/ stage' = "sized" /\ budget' = budget /\ quote' = q /\ ~(sized < budget) /\ q.reason = "accepted"
  BY DEF SizeOnce, Iterate, q, limited, sized
<1>7. CASE stage' = "rejected" /\ budget' = budget
  BY <1>1, <1>5, <1>7 DEF SizingInv
<1>8. CASE stage' = "size" /\ budget' = limited /\ limited < budget
  BY <1>1, <1>3, <1>5, <1>8 DEF SizingInv
<1>9. CASE stage' = "size" /\ budget' = sized /\ sized < budget /\ q.reason = "accepted"
  BY <1>1, <1>4, <1>5, <1>9 DEF SizingInv
<1>10. CASE stage' = "sized" /\ budget' = budget /\ quote' = q /\ ~(sized < budget) /\ q.reason = "accepted"
  <2>1. budget <= kelly
    <3> HIDE DEF kelly
    <3> QED
      BY <1>1, <1>4, <1>10
  <2>2. budget <= q.requested
    BY <1>1, <1>4, <1>10
  <2>3. quote'.allIn = q.allIn /\ quote'.total = q.total /\ quote'.requested = q.requested
    BY <1>10
  <2>4. /\ budget' <= quote'.requested
        /\ quote'.total <= budget' * Precision
        /\ budget' <= KellyCash(given'.cash, given'.probability, quote'.allIn)
        /\ quote'.allIn < given'.probability * Precision
    BY <1>4, <1>5, <1>10, <2>1, <2>2, <2>3
  <2> QED
    BY <1>1, <1>5, <1>10, <2>4 DEF SizingInv
<1> QED
  BY <1>6, <1>7, <1>8, <1>9, <1>10

LEMMA SizingInvPreserved ==
    ASSUME SizingInv, [EntryNext]_entryVars
    PROVE  SizingInv'
<1>1. CASE Seed
  BY <1>1, SeedKeeps
<1>2. CASE SizeOnce
  BY <1>2, SizeOnceKeeps
<1>3. CASE NonConvergent
  BY <1>3, FinishKeeps DEF NonConvergent
<1>4. CASE CreateIntent
  <2>1. UNCHANGED <<given, budget, quote>> /\ stage = "sized" /\ stage' \in {"raised", "planned"}
    BY <1>4 DEF CreateIntent
  <2> QED
    BY <2>1 DEF SizingInv
<1>5. CASE BuildPlan
  <2>1. CASE Finish("rejected")
    BY <2>1, FinishKeeps
  <2>2. CASE stage' = "filled" /\ UNCHANGED <<given, budget, iteration, quote, intent>>
    <3>1. stage = "planned"
      BY <1>5 DEF BuildPlan
    <3> QED
      BY <2>2, <3>1 DEF SizingInv
  <2> QED
    BY <1>5, <2>1, <2>2 DEF BuildPlan
<1>6. CASE UNCHANGED entryVars
  BY <1>6 DEF entryVars, SizingInv
<1> QED
  BY <1>1, <1>2, <1>3, <1>4, <1>5, <1>6 DEF EntryNext, EntryDone

\* The sizing loop of size_executable_buy, for every book, budget and policy:
\* what it approves keeps within the caps and within the Kelly stake at the
\* price that the approved quote really gives, fees included.
THEOREM SizedSoundlyHolds == EntrySpec => []SizedSoundly
<1>1. EntryInit => SizingInv
  BY SizingInvInitially
<1>2. SizingInv /\ [EntryNext]_entryVars => SizingInv'
  BY SizingInvPreserved
<1>3. SizingInv => SizedSoundly
  BY DEF SizingInv, SizedSoundly
<1> QED
  BY <1>1, <1>2, <1>3, PTL DEF EntrySpec

-----------------------------------------------------------------------------
(* The levels a plan takes *)

LEMMA FirstIs ==
    ASSUME NEW n \in Nat \ {0}
    PROVE  1 .. n # {} /\ Max(1 .. n) = n /\ (1 .. n) \ {n} = 1 .. (n - 1)
<1>1. n \in 1 .. n /\ \A x \in 1 .. n : n >= x /\ (x >= n => x = n)
  OBVIOUS
<1> DEFINE s == 1 .. n
<1> HIDE DEF s
<1>2. n \in s /\ \A x \in s : n >= x /\ (x >= n => x = n)
  BY <1>1 DEF s
<1>3. Max(s) = n
  BY <1>2 DEF Max
<1>4. (1 .. n) \ {n} = 1 .. (n - 1)
  OBVIOUS
<1> QED
  BY <1>1, <1>3, <1>4 DEF s

Covering == [left : Int, cost : Int, worst : Int]

LEMMA CoverStays ==
    ASSUME NEW r \in Covering, NEW level \in Levels
    PROVE  Cover(r, level) \in Covering
<1> DEFINE take == Least(r.left, level.size)
           spent == take * level.price
<1>1. /\ r.left \in Int /\ r.cost \in Int /\ r.worst \in Int /\ level.price \in Nat /\ level.size \in Nat
  BY LevelIs DEF Covering
<1>2. take \in Int
  BY <1>1 DEF Least
<1> HIDE DEF take
<1>3. spent \in Int
  BY <1>1, <1>2
<1> HIDE DEF spent
<1>4. [left |-> r.left - take, cost |-> r.cost + spent,
       worst |-> IF take > 0 THEN level.price ELSE r.worst] \in Covering
  BY <1>1, <1>2, <1>3 DEF Covering
<1> QED
  BY <1>4 DEF Cover, spent, take

LEMMA CostOfBy ==
    ASSUME NEW asks \in Books, NEW quantity \in Int
    PROVE  \E v : /\ CostOf(asks, quantity) = v[Len(asks)]
                  /\ v[0] = [left |-> quantity, cost |-> 0, worst |-> 0]
                  /\ \A n \in 1 .. Len(asks) :
                        /\ v[n - 1] \in Covering /\ v[n] \in Covering
                        /\ v[n] = Cover(v[n - 1], asks[n])
<1> DEFINE S == DOMAIN asks
           base == [left |-> quantity, cost |-> 0, worst |-> 0]
           IsIt(g) == g = [s \in SUBSET S |->
                             IF s = {} THEN base ELSE Cover(g[s \ {Max(s)}], asks[Max(s)])]
           It == CHOOSE g : IsIt(g)
           pick == [s \in SUBSET S |-> Max(s)]
           adds == [z \in S \X Covering |-> Cover(z[2], asks[z[1]])]
<1>1. CostOf(asks, quantity) = It[S]
  BY DEF CostOf, FoldLeft, MapThenFoldSet
<1>2. /\ IsFiniteSet(S) /\ S \subseteq Nat /\ \A i \in S : asks[i] \in Levels
      /\ Len(asks) \in Nat /\ S = 1 .. Len(asks)
  BY BookIs, InputAssumption
<1>3. \A s \in SUBSET S : s # {} => pick[s] \in s /\ pick[s] = Max(s)
  BY <1>2, GreatestPicked, FS_Subset
<1>4. base \in Covering
  BY DEF Covering
<1> HIDE DEF S, base
<1>5. adds \in [S \X Covering -> Covering]
  BY <1>2, CoverStays
<1>6. ASSUME NEW i \in S, NEW r \in Covering PROVE adds[i, r] = Cover(r, asks[i])
  <2>1. <<i, r>> \in S \X Covering /\ <<i, r>>[1] = i /\ <<i, r>>[2] = r
    OBVIOUS
  <2> QED
    BY <2>1
<1> HIDE DEF pick, adds
<1>7. PICK g \in [SUBSET S -> Covering] : IsFold(g, S, pick, adds, base)
  <2>1. \A s \in SUBSET S : s # {} => pick[s] \in s
    BY <1>3
  <2> QED
    BY <1>2, <1>4, <1>5, <2>1, FoldExists
<1>8. IsIt(g)
  <2>1. g = [s \in SUBSET S |-> IF s = {} THEN base ELSE adds[pick[s], g[s \ {pick[s]}]]]
    BY <1>7 DEF IsFold
  <2>2. ASSUME NEW s \in SUBSET S, s # {}
        PROVE  adds[pick[s], g[s \ {pick[s]}]] = Cover(g[s \ {Max(s)}], asks[Max(s)])
    <3>1. pick[s] \in S /\ pick[s] = Max(s) /\ g[s \ {pick[s]}] \in Covering
      BY <1>3, <2>2
    <3> QED
      BY <1>6, <3>1
  <2> QED
    BY <2>1, <2>2
<1>9. IsIt(It)
  BY <1>8
<1> HIDE DEF It
<1> DEFINE L == Len(asks)
           v == [n \in 0 .. L |-> It[1 .. n]]
<1>10. v[0] = base
  <2>1. 1 .. 0 = {} /\ 0 \in 0 .. L
    BY <1>2
  <2> QED
    BY <1>9, <2>1
<1>11. ASSUME NEW n \in 1 .. L
       PROVE  v[n] = Cover(v[n - 1], asks[n]) /\ asks[n] \in Levels
  <2>1. n \in 0 .. L /\ n - 1 \in 0 .. L /\ n \in S
    BY <1>2
  <2> DEFINE u == 1 .. n
  <2>2. u \in SUBSET S /\ u # {} /\ Max(u) = n /\ u \ {Max(u)} = 1 .. (n - 1)
    BY <1>2, FirstIs
  <2> HIDE DEF u
  <2>3. It[u] = Cover(It[u \ {Max(u)}], asks[Max(u)])
    BY <1>9, <2>2
  <2> QED
    BY <1>2, <2>1, <2>2, <2>3 DEF u
<1>12. \A n \in 0 .. L : v[n] \in Covering
  <2> DEFINE K == {n \in Nat : n \in 0 .. L => v[n] \in Covering}
  <2> HIDE DEF v
  <2>1. 0 \in K
    BY <1>4, <1>10
  <2>2. ASSUME NEW n \in Nat, n \in K PROVE n + 1 \in K
    <3> SUFFICES ASSUME n + 1 \in 0 .. L PROVE v[n + 1] \in Covering
      OBVIOUS
    <3> DEFINE m == n + 1
    <3>1. m \in 1 .. L /\ m - 1 = n /\ n \in 0 .. L
      BY <1>2
    <3> HIDE DEF m
    <3>2. v[m - 1] \in Covering
      BY <2>2, <3>1
    <3>3. v[m] \in Covering
      BY <1>11, <3>1, <3>2, CoverStays
    <3> QED
      BY <3>3 DEF m
  <2> HIDE DEF K
  <2>3. Nat \subseteq K
    BY <2>1, <2>2, InductionOnNaturals
  <2> QED
    BY <2>3 DEF K
<1>13. CostOf(asks, quantity) = v[L]
  BY <1>1, <1>2
<1> HIDE DEF v
<1>14. \A n \in 1 .. L : v[n - 1] \in Covering /\ v[n] \in Covering
  <2>1. \A n \in 1 .. L : n - 1 \in 0 .. L /\ n \in 0 .. L
    BY <1>2
  <2> QED
    BY <1>12, <2>1
<1>15. /\ CostOf(asks, quantity) = v[L] /\ v[0] = base
       /\ \A n \in 1 .. L : v[n - 1] \in Covering /\ v[n] \in Covering /\ v[n] = Cover(v[n - 1], asks[n])
  BY <1>10, <1>11, <1>13, <1>14
<1> QED
  BY <1>15 DEF base

\* An order that is being filled.
OrderIs ==
    /\ intent.quantity \in Int /\ intent.limit \in Int
    /\ MaximumGross \in Int

Buying == [filled : Int, cost : Int, done : BOOLEAN]

LEMMA BuyStays ==
    ASSUME OrderIs, NEW best \in Int, NEW r \in Buying, NEW level \in Levels
    PROVE  BuyLevel(best, r, level) \in Buying
<1> DEFINE cap == Least(intent.limit, best + Costs.average)
           money == MaximumGross * Unit - r.cost * Precision
           price == level.price * Precision
           byCash == money \div price
           room == cap * r.filled - r.cost
           byAverage == IF level.price <= cap THEN level.size ELSE room \div (level.price - cap)
           take == Least(Least(intent.quantity - r.filled, level.size), Least(byCash, byAverage))
           spent == take * level.price
           ends == take < level.size
<1>1. /\ r.filled \in Int /\ r.cost \in Int
      /\ level.price \in Nat \ {0} /\ level.size \in Nat \ {0}
      /\ Precision \in Nat \ {0} /\ Unit \in Nat \ {0} /\ Costs.average \in Nat
      /\ intent.quantity \in Int /\ intent.limit \in Int /\ MaximumGross \in Int
  BY LevelIs, PolicyIs DEF Buying, OrderIs
<1>2. cap \in Int
  BY <1>1 DEF Least
<1> HIDE DEF cap
<1>3. money \in Int /\ price \in Nat \ {0} /\ room \in Int
  BY <1>1, <1>2
<1> HIDE DEF money, price, room
<1>4. byCash \in Int
  BY <1>3
<1>5. byAverage \in Int
  <2>1. CASE level.price <= cap
    BY <1>1, <2>1
  <2>2. CASE ~(level.price <= cap)
    <3>1. level.price - cap \in Nat \ {0}
      BY <1>1, <1>2, <2>2
    <3>2. room \div (level.price - cap) \in Int
      BY <1>3, <3>1
    <3> QED
      BY <2>2, <3>2
  <2> QED
    BY <2>1, <2>2
<1> HIDE DEF byCash, byAverage
<1>6. take \in Int
  BY <1>1, <1>4, <1>5 DEF Least
<1> HIDE DEF take
<1>7. spent \in Int /\ ends \in BOOLEAN
  BY <1>1, <1>6
<1> HIDE DEF spent, ends
<1>8. [filled |-> r.filled + take, cost |-> r.cost + spent, done |-> ends] \in Buying
  BY <1>1, <1>6, <1>7 DEF Buying
<1>9. [r EXCEPT !.done = TRUE] \in Buying
  BY DEF Buying
<1> QED
  BY <1>8, <1>9 DEF BuyLevel, cap, money, price, byCash, room, byAverage, take, spent, ends

LEMMA BuyLevelsBy ==
    ASSUME NEW asks \in Books, OrderIs
    PROVE  \E v : /\ BuyLevels(asks) = v[Len(asks)]
                  /\ v[0] = [filled |-> 0, cost |-> 0, done |-> FALSE]
                  /\ \A n \in 1 .. Len(asks) :
                        /\ v[n - 1] \in Buying /\ v[n] \in Buying
                        /\ v[n] = BuyLevel(asks[1].price, v[n - 1], asks[n])
<1> DEFINE S == DOMAIN asks
           base == [filled |-> 0, cost |-> 0, done |-> FALSE]
           IsIt(g) == g = [s \in SUBSET S |->
                             IF s = {} THEN base ELSE BuyLevel(asks[1].price, g[s \ {Max(s)}], asks[Max(s)])]
           It == CHOOSE g : IsIt(g)
           pick == [s \in SUBSET S |-> Max(s)]
           adds == [z \in S \X Buying |-> BuyLevel(asks[1].price, z[2], asks[z[1]])]
<1>1. BuyLevels(asks) = It[S]
  BY DEF BuyLevels, FoldLeft, MapThenFoldSet
<1>2. /\ IsFiniteSet(S) /\ S \subseteq Nat /\ \A i \in S : asks[i] \in Levels
      /\ Len(asks) \in Nat /\ S = 1 .. Len(asks)
  BY BookIs, InputAssumption
<1>3. \A s \in SUBSET S : s # {} => pick[s] \in s /\ pick[s] = Max(s)
  BY <1>2, GreatestPicked, FS_Subset
<1>4. base \in Buying
  BY DEF Buying
<1>a. asks[1].price \in Int
  BY BookIs, LevelIs
<1> HIDE DEF S, base
<1>5. adds \in [S \X Buying -> Buying]
  BY <1>2, BuyStays, <1>a
<1>6. ASSUME NEW i \in S, NEW r \in Buying PROVE adds[i, r] = BuyLevel(asks[1].price, r, asks[i])
  <2>1. <<i, r>> \in S \X Buying /\ <<i, r>>[1] = i /\ <<i, r>>[2] = r
    OBVIOUS
  <2> QED
    BY <2>1
<1> HIDE DEF pick, adds
<1>7. PICK g \in [SUBSET S -> Buying] : IsFold(g, S, pick, adds, base)
  <2>1. \A s \in SUBSET S : s # {} => pick[s] \in s
    BY <1>3
  <2> QED
    BY <1>2, <1>4, <1>5, <2>1, FoldExists
<1>8. IsIt(g)
  <2>1. g = [s \in SUBSET S |-> IF s = {} THEN base ELSE adds[pick[s], g[s \ {pick[s]}]]]
    BY <1>7 DEF IsFold
  <2>2. ASSUME NEW s \in SUBSET S, s # {}
        PROVE  adds[pick[s], g[s \ {pick[s]}]] = BuyLevel(asks[1].price, g[s \ {Max(s)}], asks[Max(s)])
    <3>1. pick[s] \in S /\ pick[s] = Max(s) /\ g[s \ {pick[s]}] \in Buying
      BY <1>3, <2>2
    <3> QED
      BY <1>6, <3>1
  <2> QED
    BY <2>1, <2>2
<1>9. IsIt(It)
  BY <1>8
<1> HIDE DEF It
<1> DEFINE L == Len(asks)
           v == [n \in 0 .. L |-> It[1 .. n]]
<1>10. v[0] = base
  <2>1. 1 .. 0 = {} /\ 0 \in 0 .. L
    BY <1>2
  <2> QED
    BY <1>9, <2>1
<1>11. ASSUME NEW n \in 1 .. L
       PROVE  v[n] = BuyLevel(asks[1].price, v[n - 1], asks[n]) /\ asks[n] \in Levels
  <2>1. n \in 0 .. L /\ n - 1 \in 0 .. L /\ n \in S
    BY <1>2
  <2> DEFINE u == 1 .. n
  <2>2. u \in SUBSET S /\ u # {} /\ Max(u) = n /\ u \ {Max(u)} = 1 .. (n - 1)
    BY <1>2, FirstIs
  <2> HIDE DEF u
  <2>3. It[u] = BuyLevel(asks[1].price, It[u \ {Max(u)}], asks[Max(u)])
    BY <1>9, <2>2
  <2> QED
    BY <1>2, <2>1, <2>2, <2>3 DEF u
<1>12. \A n \in 0 .. L : v[n] \in Buying
  <2> DEFINE K == {n \in Nat : n \in 0 .. L => v[n] \in Buying}
  <2> HIDE DEF v
  <2>1. 0 \in K
    BY <1>4, <1>10
  <2>2. ASSUME NEW n \in Nat, n \in K PROVE n + 1 \in K
    <3> SUFFICES ASSUME n + 1 \in 0 .. L PROVE v[n + 1] \in Buying
      OBVIOUS
    <3> DEFINE m == n + 1
    <3>1. m \in 1 .. L /\ m - 1 = n /\ n \in 0 .. L
      BY <1>2
    <3> HIDE DEF m
    <3>2. v[m - 1] \in Buying
      BY <2>2, <3>1
    <3>3. v[m] \in Buying
      BY <1>11, <3>1, <3>2, BuyStays, <1>a
    <3> QED
      BY <3>3 DEF m
  <2> HIDE DEF K
  <2>3. Nat \subseteq K
    BY <2>1, <2>2, InductionOnNaturals
  <2> QED
    BY <2>3 DEF K
<1>13. BuyLevels(asks) = v[L]
  BY <1>1, <1>2
<1> HIDE DEF v
<1>14. \A n \in 1 .. L : v[n - 1] \in Buying /\ v[n] \in Buying
  <2>1. \A n \in 1 .. L : n - 1 \in 0 .. L /\ n \in 0 .. L
    BY <1>2
  <2> QED
    BY <1>12, <2>1
<1>15. /\ BuyLevels(asks) = v[L] /\ v[0] = base
       /\ \A n \in 1 .. L : v[n - 1] \in Buying /\ v[n] \in Buying /\ v[n] = BuyLevel(asks[1].price, v[n - 1], asks[n])
  BY <1>10, <1>11, <1>13, <1>14
<1> QED
  BY <1>15 DEF base

LEMMA TimesKeepsOrder ==
    ASSUME NEW a \in Int, NEW b \in Int, NEW k \in Nat, a <= b
    PROVE  a * k <= b * k
OBVIOUS

LEMMA DivIs ==
    ASSUME NEW x \in Int, NEW y \in Nat \ {0}
    PROVE  x \div y \in Int /\ (x \div y) * y <= x /\ x < (x \div y) * y + y
OBVIOUS

\* What a quotient that is rounded down says of multiples.
LEMMA FloorIs ==
    ASSUME NEW x \in Int, NEW y \in Nat \ {0}, NEW t \in Int
    PROVE  t <= x \div y <=> t * y <= x
<1> DEFINE d == x \div y
<1>1. d \in Int /\ d * y <= x /\ x < d * y + y
  BY DivIs
<1> HIDE DEF d
<1>2. ASSUME t <= d PROVE t * y <= x
  <2>1. t * y <= d * y
    BY <1>1, <1>2, TimesKeepsOrder
  <2>2. t * y \in Int /\ d * y \in Int
    BY <1>1
  <2> QED
    BY <1>1, <2>1, <2>2
<1>3. ASSUME ~(t <= d) PROVE ~(t * y <= x)
  <2>1. d + 1 <= t
    BY <1>1, <1>3
  <2>2. (d + 1) * y <= t * y
    BY <1>1, <2>1, TimesKeepsOrder
  <2>3. (d + 1) * y = d * y + y
    BY <1>1
  <2>4. t * y \in Int /\ d * y \in Int
    BY <1>1
  <2> QED
    BY <1>1, <2>2, <2>3, <2>4
<1> QED
  BY <1>2, <1>3 DEF d

\* The most the order may pay on average, and for one share.
Cap(best) == Least(intent.limit, best + Costs.average)
Worst(best) == best + Costs.worst

\* x shares of the next level keep within the order.
Fits(best, r, level, x) ==
    /\ r.filled + x <= intent.quantity
    /\ level.price <= Worst(best)
    /\ level.price <= Cap(best) \/ x * (level.price - Cap(best)) <= Cap(best) * r.filled - r.cost
    /\ (r.cost + x * level.price) * Precision <= MaximumGross * Unit

\* A level gives as many shares as fit.
Gives(best, r, level, b, t) ==
    /\ t \in 0 .. level.size
    /\ b.filled = r.filled + t /\ b.cost = r.cost + t * level.price
    /\ b.done \in BOOLEAN /\ (~b.done <=> t = level.size)
    /\ \A x \in 1 .. level.size : x <= t <=> Fits(best, r, level, x)

LEMMA BuyLevelGives ==
    ASSUME OrderIs, NEW best \in Int, NEW r \in Buying, NEW level \in Levels, ~r.done
    PROVE  \E t : Gives(best, r, level, BuyLevel(best, r, level), t)
<1> DEFINE b == BuyLevel(best, r, level)
           cap == Cap(best)
           money == MaximumGross * Unit - r.cost * Precision
           price == level.price * Precision
           byCash == money \div price
           room == cap * r.filled - r.cost
           byAverage == IF level.price <= cap THEN level.size ELSE room \div (level.price - cap)
           take == Least(Least(intent.quantity - r.filled, level.size), Least(byCash, byAverage))
<1>1. /\ r.filled \in Int /\ r.cost \in Int
      /\ level.price \in Nat \ {0} /\ level.size \in Nat \ {0}
      /\ Precision \in Nat \ {0} /\ Unit \in Nat \ {0} /\ Costs.average \in Nat /\ Costs.worst \in Nat
      /\ intent.quantity \in Int /\ intent.limit \in Int /\ MaximumGross \in Int
  BY LevelIs, PolicyIs DEF Buying, OrderIs
<1>2. cap \in Int /\ Worst(best) \in Int
  BY <1>1 DEF Least, Cap, Worst
<1>3. /\ level.price > Worst(best) \/ take <= 0 => b = [r EXCEPT !.done = TRUE]
      /\ ~(level.price > Worst(best) \/ take <= 0) =>
            b = [filled |-> r.filled + take, cost |-> r.cost + take * level.price, done |-> take < level.size]
  BY DEF BuyLevel, Cap, Worst
<1> HIDE DEF b, cap
<1>4. money \in Int /\ price \in Nat \ {0} /\ room \in Int
  BY <1>1, <1>2
<1>5. ASSUME NEW x \in Int
      PROVE  x <= byCash <=> (r.cost + x * level.price) * Precision <= MaximumGross * Unit
  <2>1. x <= byCash <=> x * price <= money
    <3> HIDE DEF price, money
    <3> QED
      BY <1>4, FloorIs
  <2> DEFINE y == x * level.price
  <2>2. y \in Int /\ x * price = y * Precision
    BY <1>1
  <2> HIDE DEF y
  <2>3. (r.cost + y) * Precision = r.cost * Precision + y * Precision
    BY <1>1, <2>2
  <2> DEFINE p1 == r.cost * Precision
             p2 == y * Precision
             p3 == MaximumGross * Unit
  <2>4. p1 \in Int /\ p2 \in Int /\ p3 \in Int
    BY <1>1, <2>2
  <2>5. x * price = p2 /\ (r.cost + y) * Precision = p1 + p2 /\ money = p3 - p1
    BY <2>2, <2>3
  <2> HIDE DEF p1, p2, p3, money, price
  <2>6. x <= byCash <=> p1 + p2 <= p3
    BY <2>1, <2>4, <2>5
  <2> HIDE DEF byCash
  <2> QED
    BY <2>5, <2>6 DEF y, p3
<1>6. ASSUME NEW x \in Int, x <= level.size
      PROVE  x <= byAverage <=> level.price <= cap \/ x * (level.price - cap) <= room
  <2>1. CASE level.price <= cap
    BY <1>6, <2>1
  <2>2. CASE ~(level.price <= cap)
    <3>1. level.price - cap \in Nat \ {0}
      BY <1>1, <1>2, <2>2
    <3>2. x <= room \div (level.price - cap) <=> x * (level.price - cap) <= room
      <4> HIDE DEF room
      <4> QED
        BY <1>4, <3>1, FloorIs
    <3> QED
      BY <2>2, <3>2
  <2> QED
    BY <2>1, <2>2
<1>7. byCash \in Int
  BY <1>4, DivIs
<1>8. byAverage \in Int
  <2>1. CASE level.price <= cap
    BY <1>1, <2>1
  <2>2. CASE ~(level.price <= cap)
    <3>1. level.price - cap \in Nat \ {0}
      BY <1>1, <1>2, <2>2
    <3> HIDE DEF room
    <3> QED
      BY <1>4, <2>2, <3>1, DivIs
  <2> QED
    BY <2>1, <2>2
<1> HIDE DEF byCash, byAverage
<1>9. take \in Int /\ take <= level.size
      /\ \A x \in Int : x <= take <=>
            x <= intent.quantity - r.filled /\ x <= level.size /\ x <= byCash /\ x <= byAverage
  BY <1>1, <1>7, <1>8 DEF Least
<1> HIDE DEF take
<1>10. ASSUME NEW x \in 1 .. level.size
       PROVE  Fits(best, r, level, x) <=> level.price <= Worst(best) /\ x <= take
  <2>1. x \in Int /\ x <= level.size
    BY <1>1
  <2>2. x <= take <=> x <= intent.quantity - r.filled /\ x <= byCash /\ x <= byAverage
    BY <1>9, <2>1
  <2>3. x <= intent.quantity - r.filled <=> r.filled + x <= intent.quantity
    BY <1>1, <2>1
  <2> QED
    BY <1>5, <1>6, <2>1, <2>2, <2>3 DEF Fits, cap, room
<1>11. CASE level.price > Worst(best) \/ take <= 0
  <2>1. b = [r EXCEPT !.done = TRUE]
    BY <1>3, <1>11
  <2>2. b.filled = r.filled + 0 /\ b.cost = r.cost + 0 * level.price /\ b.done = TRUE
    BY <1>1, <2>1 DEF Buying
  <2>3. ASSUME NEW x \in 1 .. level.size PROVE ~Fits(best, r, level, x) /\ ~(x <= 0)
    BY <1>1, <1>2, <1>9, <1>10, <1>11
  <2>4. 0 \in 0 .. level.size /\ 0 # level.size
    BY <1>1
  <2>5. Gives(best, r, level, b, 0)
    BY <2>2, <2>3, <2>4 DEF Gives
  <2> QED
    BY <2>5 DEF b
<1>12. CASE ~(level.price > Worst(best) \/ take <= 0)
  <2>1. b = [filled |-> r.filled + take, cost |-> r.cost + take * level.price, done |-> take < level.size]
    BY <1>3, <1>12
  <2>2. take \in 0 .. level.size
    BY <1>1, <1>9, <1>12
  <2>3. b.done \in BOOLEAN /\ (~b.done <=> take = level.size)
    <3>1. b.done = (take < level.size)
      BY <2>1
    <3>2. (take < level.size) <=> take # level.size
      BY <1>1, <1>9
    <3>3. (take < level.size) \in BOOLEAN
      OBVIOUS
    <3> QED
      BY <3>1, <3>2, <3>3, Zenon
  <2>4. level.price <= Worst(best)
    BY <1>1, <1>2, <1>12
  <2>5. \A x \in 1 .. level.size : x <= take <=> Fits(best, r, level, x)
    BY <1>10, <2>4
  <2>6. b.filled = r.filled + take /\ b.cost = r.cost + take * level.price
    BY <2>1
  <2>7. Gives(best, r, level, b, take)
    BY <2>2, <2>3, <2>5, <2>6 DEF Gives
  <2> QED
    BY <2>7 DEF b
<1> QED
  BY <1>11, <1>12

\* Where q shares of the same levels stand beside what the order has taken:
\* not yet covered, covered within what was taken, or beyond what is allowed.
Open(q, best, b, c) ==
    /\ ~b.done /\ q > b.filled /\ c.left = q - b.filled /\ c.cost = b.cost
    /\ b.cost <= Cap(best) * b.filled
Within(q, best, b, c) ==
    /\ q <= b.filled /\ c.left = 0 /\ c.worst <= Worst(best)
    /\ c.cost <= Cap(best) * q
    /\ c.cost * Precision <= MaximumGross * Unit
Excess(q, best, c, price) ==
    \/ c.worst > Worst(best) /\ price > Worst(best)
    \/ c.cost > Cap(best) * (q - c.left) /\ price > Cap(best)
    \/ c.cost * Precision > MaximumGross * Unit
Beyond(q, best, b, c, price) ==
    b.done /\ q > b.filled /\ c.left >= 0 /\ Excess(q, best, c, price)
Stands(q, best, b, c, price) ==
    Open(q, best, b, c) \/ Within(q, best, b, c) \/ Beyond(q, best, b, c, price)

LEMMA LimitsAre ==
    ASSUME OrderIs, NEW best \in Int
    PROVE  /\ Cap(best) \in Int /\ Worst(best) \in Int
           /\ MaximumGross * Unit \in Int /\ Precision \in Nat \ {0}
BY PolicyIs DEF OrderIs, Cap, Worst, Least

LEMMA CoverGives ==
    ASSUME NEW c \in Covering, NEW level \in Levels, c.left >= 0
    PROVE  \E x \in 0 .. level.size :
              /\ x <= c.left /\ (x = c.left \/ x = level.size)
              /\ Cover(c, level).left = c.left - x
              /\ Cover(c, level).cost = c.cost + x * level.price
              /\ Cover(c, level).worst = IF x > 0 THEN level.price ELSE c.worst
<1> DEFINE x == Least(c.left, level.size)
<1>1. c.left \in Int /\ level.size \in Nat
  BY LevelIs DEF Covering
<1>2. x \in 0 .. level.size /\ x <= c.left /\ (x = c.left \/ x = level.size)
  BY <1>1 DEF Least
<1>3. /\ Cover(c, level).left = c.left - x
      /\ Cover(c, level).cost = c.cost + x * level.price
      /\ Cover(c, level).worst = IF x > 0 THEN level.price ELSE c.worst
  BY DEF Cover
<1> HIDE DEF x
<1> QED
  BY <1>2, <1>3

\* What does not fit is beyond what the order allows, and what fits is within.
LEMMA FitIs ==
    ASSUME OrderIs, NEW best \in Int, NEW r \in Buying, NEW level \in Levels,
           NEW x \in Nat, r.filled + x <= intent.quantity,
           r.cost <= Cap(best) * r.filled
    PROVE  LET cost == r.cost + x * level.price IN
           /\ Fits(best, r, level, x) =>
                 /\ level.price <= Worst(best)
                 /\ cost <= Cap(best) * (r.filled + x)
                 /\ cost * Precision <= MaximumGross * Unit
           /\ ~Fits(best, r, level, x) =>
                 \/ level.price > Worst(best)
                 \/ cost > Cap(best) * (r.filled + x) /\ level.price > Cap(best)
                 \/ cost * Precision > MaximumGross * Unit
<1> DEFINE cap == Cap(best)
           spent == x * level.price
           had == cap * r.filled
           more == cap * x
           paid == (r.cost + spent) * Precision
           money == MaximumGross * Unit
<1>1. /\ r.filled \in Int /\ r.cost \in Int /\ level.price \in Nat /\ intent.quantity \in Int
      /\ cap \in Int /\ Worst(best) \in Int /\ money \in Int /\ Precision \in Nat
  BY LevelIs, LimitsAre DEF Buying, OrderIs
<1> HIDE DEF cap
<1>2. spent \in Int /\ had \in Int /\ more \in Int
  BY <1>1
<1>3. cap * (r.filled + x) = had + more /\ x * (level.price - cap) = spent - more
  BY <1>1
<1>4. level.price <= cap => spent <= more
  <2>1. level.price <= cap => level.price * x <= cap * x
    BY <1>1, TimesKeepsOrder
  <2>2. level.price * x = spent
    BY <1>1
  <2> QED
    BY <2>1, <2>2
<1>5. paid \in Int
  BY <1>1, <1>2
<1>6. Fits(best, r, level, x) <=>
         /\ level.price <= Worst(best)
         /\ level.price <= cap \/ spent - more <= had - r.cost
         /\ paid <= money
  BY <1>3 DEF Fits, cap
<1>7. r.cost <= had
  BY DEF cap
<1> HIDE DEF spent, had, more, paid, money
<1>8. /\ Fits(best, r, level, x) =>
            level.price <= Worst(best) /\ r.cost + spent <= had + more /\ paid <= money
      /\ ~Fits(best, r, level, x) =>
            \/ level.price > Worst(best)
            \/ r.cost + spent > had + more /\ level.price > cap
            \/ paid > money
  <2> DEFINE fits == Fits(best, r, level, x)
             worst == Worst(best)
             price == level.price
  <2>1. fits <=> price <= worst /\ (price <= cap \/ spent - more <= had - r.cost) /\ paid <= money
    BY <1>6
  <2>2. price \in Int /\ worst \in Int /\ r.cost \in Int
    BY <1>1
  <2>3. price <= cap => spent <= more
    BY <1>4
  <2> HIDE DEF fits, worst, price
  <2>4. /\ fits => price <= worst /\ r.cost + spent <= had + more /\ paid <= money
        /\ ~fits => price > worst \/ (r.cost + spent > had + more /\ price > cap) \/ paid > money
    BY <1>1, <1>2, <1>5, <1>7, <2>1, <2>2, <2>3
  <2> QED
    BY <2>4 DEF fits, worst, price
<1> QED
  BY <1>3, <1>8 DEF spent, paid, money, cap

LEMMA OpenMovesOn ==
    ASSUME OrderIs, NEW q \in Nat \ {0}, q <= intent.quantity, NEW best \in Int,
           NEW r \in Buying, NEW c \in Covering, NEW level \in Levels,
           Open(q, best, r, c)
    PROVE  Stands(q, best, BuyLevel(best, r, level), Cover(c, level), level.price)
<1> DEFINE b == BuyLevel(best, r, level)
           d == Cover(c, level)
<1>1. PICK t : Gives(best, r, level, b, t)
  BY BuyLevelGives DEF Open
<1>2. /\ ~r.done /\ q > r.filled /\ c.left = q - r.filled /\ c.cost = r.cost
      /\ r.cost <= Cap(best) * r.filled
  BY DEF Open
<1>3. /\ r.filled \in Int /\ r.cost \in Int /\ c.left \in Nat \ {0}
      /\ level.size \in Nat \ {0} /\ level.price \in Nat /\ intent.quantity \in Int
      /\ Cap(best) \in Int /\ Worst(best) \in Int
  BY <1>2, LevelIs, LimitsAre DEF Buying, Covering, OrderIs
<1>4. PICK x \in 0 .. level.size :
         /\ x <= c.left /\ (x = c.left \/ x = level.size)
         /\ d.left = c.left - x
         /\ d.cost = c.cost + x * level.price
         /\ d.worst = IF x > 0 THEN level.price ELSE c.worst
  BY <1>3, CoverGives
<1> HIDE DEF b, d
<1>5. /\ t \in 0 .. level.size
      /\ b.filled = r.filled + t /\ b.cost = r.cost + t * level.price
      /\ b.done \in BOOLEAN /\ (~b.done <=> t = level.size)
      /\ \A y \in 1 .. level.size : y <= t <=> Fits(best, r, level, y)
  BY <1>1 DEF Gives
<1>6. x \in Nat \ {0} /\ x \in 1 .. level.size /\ r.filled + x <= q /\ t \in Nat
  BY <1>2, <1>3, <1>4, <1>5
<1>7. d.worst = level.price /\ d.cost = r.cost + x * level.price /\ d.left = q - (r.filled + x)
      /\ r.filled + x = q - d.left
  BY <1>2, <1>3, <1>4, <1>6
<1>8. /\ Fits(best, r, level, x) =>
            /\ level.price <= Worst(best)
            /\ d.cost <= Cap(best) * (r.filled + x)
            /\ d.cost * Precision <= MaximumGross * Unit
      /\ ~Fits(best, r, level, x) => Excess(q, best, d, level.price)
  <2>1. r.filled + x <= intent.quantity
    BY <1>3, <1>6
  <2>2. LET cost == r.cost + x * level.price IN
           /\ Fits(best, r, level, x) =>
                 /\ level.price <= Worst(best)
                 /\ cost <= Cap(best) * (r.filled + x)
                 /\ cost * Precision <= MaximumGross * Unit
           /\ ~Fits(best, r, level, x) =>
                 \/ level.price > Worst(best)
                 \/ cost > Cap(best) * (r.filled + x) /\ level.price > Cap(best)
                 \/ cost * Precision > MaximumGross * Unit
    BY <1>2, <1>6, <2>1, FitIs
  <2> QED
    BY <1>7, <2>2 DEF Excess
<1>9. CASE x > t
  <2>1. ~Fits(best, r, level, x)
    BY <1>5, <1>6, <1>9
  <2>2. b.done /\ q > b.filled /\ d.left >= 0
    <3>1. t # level.size
      BY <1>3, <1>6, <1>9
    <3>2. b.done
      BY <1>5, <3>1
    <3>3. q > b.filled /\ d.left >= 0
      BY <1>3, <1>4, <1>5, <1>6, <1>9
    <3> QED
      BY <3>2, <3>3
  <2> QED
    BY <1>8, <2>1, <2>2 DEF Stands, Beyond, b, d
<1>10. CASE x <= t /\ x = c.left
  <2>1. Fits(best, r, level, x)
    BY <1>5, <1>6, <1>10
  <2>2. d.left = 0 /\ r.filled + x = q /\ q <= b.filled
    BY <1>2, <1>3, <1>5, <1>6, <1>7, <1>10
  <2> QED
    BY <1>7, <1>8, <2>1, <2>2 DEF Stands, Within, b, d
<1>11. CASE x <= t /\ x # c.left
  <2>1. x = level.size /\ t = x
    BY <1>3, <1>4, <1>5, <1>11
  <2>2. ~b.done /\ b.filled = r.filled + x /\ b.cost = d.cost
    BY <1>5, <1>7, <2>1
  <2>3. Fits(best, r, level, x)
    BY <1>5, <1>6, <1>11
  <2>4. q > b.filled /\ d.left = q - b.filled
    BY <1>2, <1>3, <1>4, <1>6, <1>7, <1>11, <2>2
  <2> QED
    BY <1>8, <2>2, <2>3, <2>4 DEF Stands, Open, b, d
<1> QED
  BY <1>3, <1>6, <1>9, <1>10, <1>11

LEMMA WithinStays ==
    ASSUME OrderIs, NEW q \in Nat \ {0}, NEW best \in Int,
           NEW r \in Buying, NEW c \in Covering, NEW level \in Levels,
           Within(q, best, r, c)
    PROVE  Stands(q, best, BuyLevel(best, r, level), Cover(c, level), level.price)
<1> DEFINE b == BuyLevel(best, r, level)
           d == Cover(c, level)
<1>1. b.filled >= r.filled
  <2>0. r.filled \in Int /\ level.size \in Nat
    BY LevelIs DEF Buying
  <2>1. CASE r.done
    <3>1. b.filled = r.filled
      BY <2>1 DEF BuyLevel
    <3> HIDE DEF b
    <3> QED
      BY <2>0, <3>1
  <2>2. CASE ~r.done
    <3>1. PICK t : Gives(best, r, level, b, t)
      BY <2>2, BuyLevelGives
    <3> HIDE DEF b
    <3>2. t \in 0 .. level.size /\ b.filled = r.filled + t
      BY <3>1 DEF Gives
    <3> QED
      BY <2>0, <3>2
  <2> QED
    BY <2>1, <2>2
<1>2. b.filled \in Int /\ r.filled \in Int
  BY BuyStays DEF Buying
<1>3. /\ c.left = 0 /\ q <= r.filled /\ c.worst <= Worst(best)
      /\ c.cost <= Cap(best) * q /\ c.cost * Precision <= MaximumGross * Unit
  BY DEF Within
<1>4. PICK x \in 0 .. level.size :
         /\ x <= c.left /\ (x = c.left \/ x = level.size)
         /\ d.left = c.left - x
         /\ d.cost = c.cost + x * level.price
         /\ d.worst = IF x > 0 THEN level.price ELSE c.worst
  BY <1>3, CoverGives
<1> HIDE DEF b, d
<1>5. level.size \in Nat /\ level.price \in Nat /\ c.cost \in Int
  BY LevelIs DEF Covering
<1>6. x = 0
  BY <1>3, <1>4, <1>5
<1>7. d.left = 0 /\ d.cost = c.cost /\ d.worst = c.worst
  BY <1>3, <1>4, <1>5, <1>6
<1>8. q <= b.filled
  BY <1>1, <1>2, <1>3
<1> QED
  BY <1>3, <1>7, <1>8 DEF Stands, Within, b, d

\* A further level costs more than the best ones: what exceeds them stays so.
LEMMA BeyondStays ==
    ASSUME OrderIs, NEW q \in Nat \ {0}, NEW best \in Int,
           NEW r \in Buying, NEW c \in Covering, NEW level \in Levels,
           NEW price \in Nat, price < level.price,
           Beyond(q, best, r, c, price)
    PROVE  Stands(q, best, BuyLevel(best, r, level), Cover(c, level), level.price)
<1> DEFINE b == BuyLevel(best, r, level)
           d == Cover(c, level)
<1>1. r.done /\ q > r.filled /\ c.left >= 0 /\ Excess(q, best, c, price)
  BY DEF Beyond
<1>2. b.done /\ b.filled = r.filled
  BY <1>1 DEF BuyLevel, Buying
<1>3. PICK x \in 0 .. level.size :
         /\ x <= c.left /\ (x = c.left \/ x = level.size)
         /\ d.left = c.left - x
         /\ d.cost = c.cost + x * level.price
         /\ d.worst = IF x > 0 THEN level.price ELSE c.worst
  BY <1>1, CoverGives
<1> HIDE DEF b, d
<1>4. /\ level.size \in Nat /\ level.price \in Nat /\ c.cost \in Int /\ c.left \in Int
      /\ c.worst \in Int /\ x \in Nat /\ Precision \in Nat
      /\ Cap(best) \in Int /\ Worst(best) \in Int /\ MaximumGross * Unit \in Int
  BY LevelIs, LimitsAre DEF Covering
<1> DEFINE spent == x * level.price
           more == Cap(best) * x
           had == Cap(best) * (q - c.left)
<1>5. spent \in Nat /\ more \in Int /\ had \in Int
  BY <1>4
<1>6. Cap(best) * (q - d.left) = had + more
  BY <1>3, <1>4
<1>7. d.left >= 0
  BY <1>3, <1>4
<1>8. Excess(q, best, d, level.price)
  <2>1. CASE c.worst > Worst(best) /\ price > Worst(best)
    BY <1>3, <1>4, <2>1 DEF Excess
  <2>2. CASE c.cost > had /\ price > Cap(best)
    <3>1. level.price > Cap(best)
      BY <1>4, <2>2
    <3>2. more <= spent
      <4>1. Cap(best) * x <= level.price * x
        BY <1>4, <3>1, TimesKeepsOrder
      <4>2. level.price * x = spent
        BY <1>4
      <4> QED
        BY <4>1, <4>2
    <3> HIDE DEF spent, more, had
    <3>3. d.cost = c.cost + spent
      BY <1>3 DEF spent
    <3>4. d.cost > had + more
      BY <1>4, <1>5, <2>2, <3>2, <3>3
    <3> QED
      BY <1>6, <3>1, <3>4 DEF Excess
  <2>3. CASE c.cost * Precision > MaximumGross * Unit
    <3>1. c.cost <= d.cost /\ d.cost \in Int
      BY <1>3, <1>4, <1>5
    <3>2. c.cost * Precision <= d.cost * Precision
      BY <1>4, <3>1, TimesKeepsOrder
    <3> DEFINE was == c.cost * Precision
               is == d.cost * Precision
               money == MaximumGross * Unit
    <3>3. was \in Int /\ is \in Int /\ money \in Int
      BY <1>4, <3>1
    <3> HIDE DEF was, is, money
    <3>4. was > money /\ was <= is
      BY <2>3, <3>2 DEF was, is, money
    <3>5. is > money
      BY <3>3, <3>4
    <3> QED
      BY <3>5 DEF Excess, is, money
  <2> QED
    BY <1>1, <2>1, <2>2, <2>3 DEF Excess
<1> QED
  BY <1>1, <1>2, <1>7, <1>8 DEF Stands, Beyond, b, d

LEMMA PlanTakesMost ==
    ASSUME OrderIs, NEW asks \in Books, NEW q \in 1 .. intent.quantity
    PROVE  Admissible(asks, q) <=> q <= BuyLevels(asks).filled
<1> DEFINE best == asks[1].price
           L == Len(asks)
<1>1. /\ best \in Int /\ L \in Nat \ {0} /\ q \in Nat \ {0} /\ q \in Int /\ q <= intent.quantity
      /\ \A n \in 1 .. L : asks[n] \in Levels
  BY BookIs, LevelIs, InputAssumption DEF OrderIs
<1>2. \A n \in 1 .. L : asks[n].price \in Nat
  BY <1>1, LevelIs
<1>3. \A m, n \in 1 .. L : m < n => asks[m].price < asks[n].price
  BY InputAssumption, BookIs
<1>4. PICK b : /\ BuyLevels(asks) = b[L]
               /\ b[0] = [filled |-> 0, cost |-> 0, done |-> FALSE]
               /\ \A n \in 1 .. L :
                     b[n - 1] \in Buying /\ b[n] \in Buying /\ b[n] = BuyLevel(best, b[n - 1], asks[n])
  BY BuyLevelsBy
<1>5. PICK c : /\ CostOf(asks, q) = c[L]
               /\ c[0] = [left |-> q, cost |-> 0, worst |-> 0]
               /\ \A n \in 1 .. L :
                     c[n - 1] \in Covering /\ c[n] \in Covering /\ c[n] = Cover(c[n - 1], asks[n])
  BY <1>1, CostOfBy
<1> HIDE DEF best, L
<1> DEFINE J(n) == Stands(q, best, b[n], c[n], asks[n].price)
           K == {n \in Nat : n + 1 \in 1 .. L => J(n + 1)}
<1>6. Open(q, best, b[0], c[0])
  <2>1. b[0].filled = 0 /\ b[0].cost = 0 /\ b[0].done = FALSE /\ c[0].left = q /\ c[0].cost = 0
    BY <1>4, <1>5
  <2>2. Cap(best) * 0 = 0
    BY <1>1, LimitsAre
  <2> QED
    BY <1>1, <2>1, <2>2 DEF Open
<1>7. J(1)
  <2>1. 1 \in 1 .. L /\ 1 - 1 = 0
    BY <1>1
  <2>2. /\ b[0] \in Buying /\ b[1] = BuyLevel(best, b[0], asks[1])
        /\ c[0] \in Covering /\ c[1] = Cover(c[0], asks[1]) /\ asks[1] \in Levels
    BY <1>1, <1>4, <1>5, <2>1
  <2>3. Stands(q, best, BuyLevel(best, b[0], asks[1]), Cover(c[0], asks[1]), asks[1].price)
    BY <1>1, <1>6, <2>2, OpenMovesOn
  <2> QED
    BY <2>2, <2>3
<1>8. ASSUME NEW m \in 1 .. L, NEW n \in 1 .. L, n = m + 1, J(m)
      PROVE  J(n)
  <2>1. n - 1 = m /\ m < n
    BY <1>1, <1>8
  <2>2. /\ b[m] \in Buying /\ b[n] = BuyLevel(best, b[m], asks[n])
        /\ c[m] \in Covering /\ c[n] = Cover(c[m], asks[n])
        /\ asks[n] \in Levels /\ asks[m].price \in Nat /\ asks[m].price < asks[n].price
    BY <1>1, <1>2, <1>3, <1>4, <1>5, <2>1
  <2>3. Stands(q, best, BuyLevel(best, b[m], asks[n]), Cover(c[m], asks[n]), asks[n].price)
    <3>1. CASE Open(q, best, b[m], c[m])
      BY <1>1, <2>2, <3>1, OpenMovesOn
    <3>2. CASE Within(q, best, b[m], c[m])
      BY <1>1, <2>2, <3>2, WithinStays
    <3>3. CASE Beyond(q, best, b[m], c[m], asks[m].price)
      BY <1>1, <2>2, <3>3, BeyondStays
    <3> QED
      BY <1>8, <3>1, <3>2, <3>3 DEF Stands
  <2> QED
    BY <2>2, <2>3
<1> HIDE DEF J
<1>9. 0 \in K
  <2>1. 0 + 1 = 1
    OBVIOUS
  <2> QED
    BY <1>7, <2>1
<1>10. ASSUME NEW n \in Nat, n \in K PROVE n + 1 \in K
  <2> SUFFICES ASSUME (n + 1) + 1 \in 1 .. L PROVE J((n + 1) + 1)
    OBVIOUS
  <2> DEFINE m == n + 1
             u == m + 1
  <2>1. m \in 1 .. L /\ u \in 1 .. L /\ u = m + 1
    BY <1>1
  <2>2. J(m)
    BY <1>10, <2>1
  <2> HIDE DEF m, u
  <2>3. J(u)
    BY <1>8, <2>1, <2>2
  <2> QED
    BY <2>3 DEF m, u
<1> HIDE DEF K
<1>11. Nat \subseteq K
  BY <1>9, <1>10, InductionOnNaturals
<1>12. J(L)
  <2> DEFINE k == L - 1
  <2>1. k \in Nat /\ k + 1 = L /\ k + 1 \in 1 .. L
    BY <1>1
  <2> HIDE DEF k
  <2> QED
    BY <1>11, <2>1 DEF K
<1>13. L \in 1 .. L /\ b[L] \in Buying /\ c[L] \in Covering
  BY <1>1, <1>4, <1>5
<1> DEFINE got == b[L].filled
           d == c[L]
<1>14. /\ got \in Int /\ d.left \in Int /\ d.cost \in Int /\ d.worst \in Int
       /\ d.cost * Precision \in Int /\ MaximumGross * Unit \in Int
       /\ Cap(best) \in Int /\ Worst(best) \in Int /\ Cap(best) * q \in Int
  <2>1. got \in Int /\ d.left \in Int /\ d.cost \in Int /\ d.worst \in Int
    BY <1>13 DEF Buying, Covering
  <2> QED
    BY <1>1, <2>1, LimitsAre
<1>15. Admissible(asks, q) <=>
          /\ d.left = 0 /\ d.worst <= Worst(best) /\ d.cost <= Cap(best) * q
          /\ d.cost * Precision <= MaximumGross * Unit
  BY <1>5 DEF Admissible, Cap, Worst, best
<1>16. Open(q, best, b[L], d) \/ Within(q, best, b[L], d) \/ Beyond(q, best, b[L], d, asks[L].price)
  BY <1>12 DEF J, Stands
<1> HIDE DEF d, got
<1>17. CASE Open(q, best, b[L], d)
  <2>1. q > got /\ d.left = q - got
    BY <1>17 DEF Open, got
  <2> QED
    BY <1>1, <1>4, <1>14, <1>15, <2>1 DEF got
<1>18. CASE Within(q, best, b[L], d)
  BY <1>4, <1>15, <1>18 DEF Within, got
<1>19. CASE Beyond(q, best, b[L], d, asks[L].price)
  <2>1. q > got
    BY <1>19 DEF Beyond, got
  <2>2. ~Admissible(asks, q)
    <3>1. CASE d.left = 0
      <4>1. q - d.left = q
        BY <1>1, <3>1
      <4>2. \/ d.worst > Worst(best) \/ d.cost > Cap(best) * q \/ d.cost * Precision > MaximumGross * Unit
        BY <1>19, <4>1 DEF Beyond, Excess
      <4> DEFINE most == Cap(best) * q
                 paid == d.cost * Precision
                 money == MaximumGross * Unit
      <4> HIDE DEF most, paid, money
      <4>3. ~(d.worst <= Worst(best) /\ d.cost <= most /\ paid <= money)
        BY <1>14, <4>2 DEF most, paid, money
      <4> QED
        BY <1>15, <4>3 DEF most, paid, money
    <3> QED
      BY <1>15, <3>1
  <2> QED
    BY <1>1, <1>4, <1>14, <2>1, <2>2 DEF got
<1> QED
  BY <1>16, <1>17, <1>18, <1>19

\* The plan is made of the order that was sized, and takes the most it may.
PlanInv ==
    /\ SizingInv
    /\ stage = "sized" => quote.shares \in Int /\ quote.average \in Int
    /\ stage \in {"planned", "filled"} => OrderIs
    /\ PlanIsLargest

LEMMA MaximumGrossIs ==
    ASSUME Reservation \in Int
    PROVE  MaximumGross \in Int
<1> DEFINE funds == (Reservation - Costs.fixed) * Precision * Unit
           rate == Unit + Costs.fee
<1>1. /\ Unit \in Nat \ {0} /\ Precision \in Nat \ {0} /\ Costs.fixed \in Nat /\ Costs.fee \in Nat
      /\ Reservation \in Int
  BY PolicyIs
<1> HIDE DEF Reservation
<1>2. funds \in Int /\ rate \in Nat \ {0}
  BY <1>1
<1> HIDE DEF funds, rate
<1>3. HalfEven(funds, rate) \in Int
  BY <1>2, HalfEvenIs
<1> QED
  BY <1>1, <1>3 DEF MaximumGross, funds, rate

\* The state of an order, so that what it says can be primed.
LEMMA OrderOf ==
    ASSUME intent.quantity \in Int, intent.limit \in Int, intent.fee \in Int
    PROVE  OrderIs
<1> DEFINE worth == intent.limit * intent.quantity
<1>1. worth \in Int /\ Unit \in Nat \ {0}
  BY PolicyIs
<1> HIDE DEF worth
<1>2. HalfEven(worth, Unit) \in Int
  BY <1>1, HalfEvenIs
<1>3. Reservation \in Int
  BY <1>2 DEF Reservation, Value, worth
<1> QED
  BY <1>3, MaximumGrossIs DEF OrderIs

LEMMA CreateIntentKeeps ==
    ASSUME PlanInv, CreateIntent
    PROVE  PlanInv'
<1> DEFINE quantity == HalfEven(quote.shares, Precision)
           limit == HalfEven(quote.average, Precision)
           fee == FeeReserve(quantity, limit)
           worth == limit * quantity
<1>1. /\ stage = "sized" /\ stage' \in {"raised", "planned"}
      /\ intent' = [quantity |-> quantity, limit |-> limit, fee |-> fee]
  BY DEF CreateIntent
<1>2. /\ budget \in Int /\ quote.shares \in Int /\ quote.average \in Int
      /\ Unit \in Nat \ {0} /\ Precision \in Nat \ {0}
  BY <1>1, PolicyIs DEF PlanInv, SizingInv
<1>3. quantity \in Int /\ limit \in Int
  BY <1>2, HalfEvenIs
<1> HIDE DEF quantity, limit
<1>4. worth \in Int
  BY <1>3
<1> HIDE DEF worth
<1>5. HalfEven(worth, Unit) \in Int
  BY <1>2, <1>4, HalfEvenIs
<1>6. fee \in Int
  BY <1>2, <1>5 DEF FeeReserve, Value, worth
<1> HIDE DEF fee
<1>7. intent'.quantity \in Int /\ intent'.limit \in Int /\ intent'.fee \in Int
  BY <1>1, <1>3, <1>6
<1>8. OrderIs'
  <2>1. (intent.quantity \in Int /\ intent.limit \in Int /\ intent.fee \in Int => OrderIs)'
    BY OrderOf, PTL
  <2> QED
    BY <1>7, <2>1
<1>9. SizingInv'
  BY SizingInvPreserved DEF PlanInv, EntryNext
<1> QED
  BY <1>1, <1>8, <1>9 DEF PlanInv, PlanIsLargest

LEMMA AdmissibleStays ==
    ASSUME UNCHANGED intent, NEW asks, NEW q
    PROVE  Admissible(asks, q)' <=> Admissible(asks, q)
BY DEF Admissible, MaximumGross, Reservation

LEMMA BuildPlanKeeps ==
    ASSUME PlanInv, BuildPlan
    PROVE  PlanInv'
<1> DEFINE r == BuyLevels(given.execution)
<1>1. SizingInv'
  BY SizingInvPreserved DEF PlanInv, EntryNext
<1>2. stage = "planned" /\ OrderIs
  BY DEF PlanInv, BuildPlan
<1>3. CASE Finish("rejected")
  BY <1>1, <1>3 DEF PlanInv, PlanIsLargest, Finish
<1>4. CASE /\ \E price, fee : plan' = [quantity |-> r.filled, price |-> price, fee |-> fee]
           /\ stage' = "filled" /\ UNCHANGED <<given, budget, iteration, quote, intent>>
  <2>1. plan'.quantity = r.filled
    BY <1>4
  <2>2. OrderIs'
    BY <1>2, <1>4 DEF OrderIs, MaximumGross, Reservation
  <2>3. PICK asks : asks = given.execution /\ asks \in Books
    BY InputIs DEF PlanInv, SizingInv
  <2>4. \A q \in 1 .. intent.quantity : Admissible(asks, q) <=> q <= BuyLevels(asks).filled
    BY <1>2, <2>3, PlanTakesMost
  <2>5. \A q \in 1 .. intent.quantity : Admissible(asks, q)' <=> q <= plan'.quantity
    BY <1>4, <2>1, <2>3, <2>4, AdmissibleStays
  <2>6. PlanIsLargest'
    BY <1>4, <2>3, <2>5 DEF PlanIsLargest
  <2> QED
    BY <1>1, <1>4, <2>2, <2>6 DEF PlanInv
<1> QED
  BY <1>3, <1>4 DEF BuildPlan

LEMMA PlanInvPreserved ==
    ASSUME PlanInv, [EntryNext]_entryVars
    PROVE  PlanInv'
<1>1. SizingInv'
  BY SizingInvPreserved DEF PlanInv
<1>2. CASE Seed
  BY <1>1, <1>2 DEF PlanInv, PlanIsLargest, Seed, Finish
<1>3. CASE SizeOnce
  <2> DEFINE q == Evaluate(given.decision, given.probability, budget)
  <2>1. q.reason = "accepted" => q.shares \in Int /\ q.average \in Int
    BY InputIs, AcceptedQuoteIs DEF PlanInv, SizingInv
  <2> HIDE DEF q
  <2>2. stage' \in {"size", "rejected"} \/ (stage' = "sized" /\ quote' = q /\ q.reason = "accepted")
    BY <1>3 DEF SizeOnce, Iterate, q
  <2> QED
    BY <1>1, <2>1, <2>2 DEF PlanInv, PlanIsLargest
<1>4. CASE NonConvergent
  BY <1>1, <1>4 DEF PlanInv, PlanIsLargest, NonConvergent, Finish
<1>5. CASE CreateIntent
  BY <1>5, CreateIntentKeeps
<1>6. CASE BuildPlan
  BY <1>6, BuildPlanKeeps
<1>7. CASE UNCHANGED entryVars
  <2>1. UNCHANGED <<given, stage, quote, intent, plan>>
    BY <1>7 DEF entryVars
  <2>2. OrderIs' <=> OrderIs
    BY <2>1 DEF OrderIs, MaximumGross, Reservation
  <2>3. PlanIsLargest'
    BY <2>1, AdmissibleStays DEF PlanInv, PlanIsLargest
  <2> QED
    BY <1>1, <2>1, <2>2, <2>3 DEF PlanInv
<1> QED
  BY <1>2, <1>3, <1>4, <1>5, <1>6, <1>7 DEF EntryNext, EntryDone

\* build_paper_execution_plan, for every book, order and policy: of the
\* quantities that the best asks could give within the cash, the average and
\* the worst price, the plan takes the largest, and every smaller one would
\* have been admissible too.
THEOREM PlanIsLargestHolds == EntrySpec => []PlanIsLargest
<1>1. EntryInit => PlanInv
  BY SizingInvInitially DEF EntryInit, PlanInv, PlanIsLargest
<1>2. PlanInv /\ [EntryNext]_entryVars => PlanInv'
  BY PlanInvPreserved
<1>3. PlanInv => PlanIsLargest
  BY DEF PlanInv
<1> QED
  BY <1>1, <1>2, <1>3, PTL DEF EntrySpec

-----------------------------------------------------------------------------
(* The reservation of an order pays for its fills *)

\* Rounding to the nearest moves a quotient by half at most.
LEMMA HalfEvenBounds ==
    ASSUME NEW n \in Int, NEW d \in Nat \ {0}
    PROVE  /\ 2 * n <= 2 * (HalfEven(n, d) * d) + d
           /\ 2 * (HalfEven(n, d) * d) <= 2 * n + d
<1> DEFINE q == n \div d
           r == n % d
           p == q * d
<1>1. q \in Int /\ r \in Int /\ n = p + r /\ p \in Int
  OBVIOUS
<1>2. (q + 1) * d = p + d
  BY <1>1
<1>3. HalfEven(n, d) = IF 2 * r < d \/ (2 * r = d /\ q % 2 = 0) THEN q ELSE q + 1
  BY DEF HalfEven
<1>4. CASE HalfEven(n, d) = q
  <2>1. 0 <= r /\ 2 * r <= d
    <3>1. 0 <= r /\ r < d
      OBVIOUS
    <3>2. CASE 2 * r < d \/ 2 * r = d
      BY <3>1, <3>2
    <3>3. CASE ~(2 * r < d \/ 2 * r = d)
      <4>1. HalfEven(n, d) = q + 1
        BY <1>3, <3>3
      <4> QED
        BY <1>1, <1>4, <4>1
    <3> QED
      BY <3>2, <3>3
  <2>2. HalfEven(n, d) * d = p
    BY <1>4
  <2> HIDE DEF p, r, q
  <2> QED
    BY <1>1, <2>1, <2>2
<1>5. CASE HalfEven(n, d) = q + 1
  <2>1. d <= 2 * r /\ r < d
    <3>1. 0 <= r /\ r < d
      OBVIOUS
    <3>2. CASE 2 * r < d
      <4>1. HalfEven(n, d) = q
        BY <1>3, <3>2
      <4> QED
        BY <1>1, <1>5, <4>1
    <3>3. CASE ~(2 * r < d)
      BY <1>1, <3>1, <3>3
    <3> QED
      BY <3>2, <3>3
  <2>2. HalfEven(n, d) * d = p + d
    BY <1>2, <1>5
  <2> HIDE DEF p, r, q
  <2> QED
    BY <1>1, <2>1, <2>2
<1> QED
  BY <1>3, <1>4, <1>5

LEMMA HalfEvenKeepsOrder ==
    ASSUME NEW a \in Int, NEW b \in Int, NEW d \in Nat \ {0}, a <= b
    PROVE  HalfEven(a, d) <= HalfEven(b, d)
<1> DEFINE q == a \div d
           r == a % d
           s == b \div d
           t == b % d
<1>1. /\ q \in Int /\ s \in Int /\ r \in Int /\ t \in Int
      /\ q % 2 \in Int
  OBVIOUS
<1>2. /\ HalfEven(a, d) = IF 2 * r < d \/ (2 * r = d /\ q % 2 = 0) THEN q ELSE q + 1
      /\ HalfEven(b, d) = IF 2 * t < d \/ (2 * t = d /\ s % 2 = 0) THEN s ELSE s + 1
  BY DEF HalfEven
<1>3. q <= s
  <2>1. q * d <= a
    BY DivIs
  <2>2. q * d \in Int
    OBVIOUS
  <2> HIDE DEF q
  <2>3. q * d <= b
    BY <2>1, <2>2
  <2> QED
    BY <1>1, <2>3, FloorIs
<1>4. CASE q < s
  <2> HIDE DEF q, r, s, t
  <2> QED
    BY <1>1, <1>2, <1>4
<1>5. CASE q = s
  <2>1. a = q * d + r /\ b = s * d + t /\ q * d \in Int
    OBVIOUS
  <2> HIDE DEF q, r, s, t
  <2>2. r <= t
    BY <1>1, <1>5, <2>1
  <2> QED
    BY <1>1, <1>2, <1>5, <2>2
<1> HIDE DEF q, r, s, t
<1> QED
  BY <1>1, <1>3, <1>4, <1>5

LEMMA HalfEvenSign ==
    ASSUME NEW n \in Int, NEW d \in Nat \ {0}
    PROVE  (n >= 0 => HalfEven(n, d) >= 0) /\ (n <= 0 => HalfEven(n, d) <= 0)
<1>1. HalfEven(0, d) = 0
  <2>1. 0 \div d = 0 /\ 0 % d = 0
    OBVIOUS
  <2> QED
    BY <2>1 DEF HalfEven
<1>2. n >= 0 => HalfEven(n, d) >= 0
  BY <1>1, HalfEvenKeepsOrder, HalfEvenIs
<1>3. n <= 0 => HalfEven(n, d) <= 0
  BY <1>1, HalfEvenKeepsOrder, HalfEvenIs
<1> QED
  BY <1>2, <1>3

\* What is paid for and kept for fees at the rounded price and size of a quote
\* (of S shares for C at A) is no more than what the quote costs with the margin.
LEMMA MarginCovers ==
    ASSUME NEW U \in Nat, NEW P \in Nat, NEW f \in Nat, NEW m \in Nat, NEW b \in Nat,
           NEW S \in Nat, NEW C \in Int, NEW A \in Nat, NEW L \in Nat, NEW Q \in Nat,
           NEW V \in Int, NEW F \in Int, NEW T \in Int, NEW B \in Int,
           U >= 2, P >= U, 12 * (U + f) + m <= 4 * (m * b),
           U * P <= S,
           2 * (A * S) <= 2 * (C * (U * P)) + S + U * P,
           A <= U * P,
           2 * (L * P) <= 2 * A + P, 2 * (Q * P) <= 2 * S + P,
           2 * (V * U) <= 2 * (L * Q) + U,
           2 * (F * U) <= 2 * (V * f) + U,
           2 * (b * S) <= 2 * (U * C) + U,
           2 * (C * (U + f + m)) <= 2 * (T * U) + U,
           T <= B * P
    PROVE  V + F <= B
<1> DEFINE G == U + f
           PU == U * P
           PP == P * P
           SP == S * P
           PPU == PP * U
           AP == A * P
           AS == A * S
           CPU == C * PU
           PL == L * P
           PQ == Q * P
           LQ == L * Q
           VU == V * U
           W == PP * VU
<1>1. /\ G \in Nat /\ PU \in Nat /\ PP \in Nat /\ SP \in Nat /\ AP \in Nat /\ AS \in Nat
      /\ CPU \in Int /\ PL \in Nat /\ PQ \in Nat /\ LQ \in Nat /\ VU \in Int
  OBVIOUS
<1>2. PPU \in Nat /\ W \in Int
  BY <1>1
<1>3. 4 * (PP * LQ) <= 4 * AS + 2 * AP + 2 * SP + PP
  <2> DEFINE l == 2 * PL
             q == 2 * PQ
             x == 2 * A + P
             y == 2 * S + P
  <2>1. l \in Nat /\ q \in Nat /\ x \in Nat /\ y \in Nat /\ l <= x /\ q <= y
    BY <1>1
  <2>2. l * q = 4 * (PP * LQ)
    OBVIOUS
  <2>3. x * y = 4 * AS + 2 * AP + 2 * SP + PP
    OBVIOUS
  <2> HIDE DEF l, q, x, y
  <2>4. l * q <= x * q
    BY <2>1, TimesKeepsOrder
  <2>5. q * x <= y * x
    BY <2>1, TimesKeepsOrder
  <2>6. l * q <= x * y
    <3>1. q * x = x * q /\ y * x = x * y /\ l * q \in Int /\ x * q \in Int /\ x * y \in Int
      BY <2>1
    <3> QED
      BY <2>4, <2>5, <3>1
  <2> QED
    BY <2>2, <2>3, <2>6
<1>4. /\ PU <= S /\ AP <= PPU /\ PPU <= SP /\ 2 * S <= SP /\ PP <= SP
  <2>1. PU <= S
    OBVIOUS
  <2>2. A * P <= (U * P) * P
    BY <1>1, TimesKeepsOrder
  <2>3. PPU = (U * P) * P
    OBVIOUS
  <2>4. (U * P) * P <= S * P
    BY <1>1, TimesKeepsOrder
  <2>5. 2 * S <= P * S
    BY TimesKeepsOrder
  <2>6. P <= S
    <3>1. 1 * P <= U * P
      BY TimesKeepsOrder
    <3> QED
      BY <1>1, <2>1, <3>1
  <2>7. P * P <= S * P
    BY <2>6, TimesKeepsOrder
  <2> QED
    BY <2>1, <2>2, <2>3, <2>4, <2>5, <2>7
<1>5. 4 * W <= 4 * (PP * LQ) + 2 * PPU
  <2> DEFINE lower == 2 * VU
             upper == 2 * LQ + U
  <2>1. lower \in Int /\ upper \in Int /\ lower <= upper
    BY <1>1
  <2>2. lower * PP <= upper * PP
    BY <1>1, <2>1, TimesKeepsOrder
  <2>3. 2 * (lower * PP) = 4 * W /\ 2 * (upper * PP) = 4 * (PP * LQ) + 2 * PPU
    BY <1>1
  <2>4. lower * PP \in Int /\ upper * PP \in Int
    BY <1>1
  <2> HIDE DEF lower, upper, W, PPU, PP, LQ
  <2> QED
    BY <2>2, <2>3, <2>4
<1>6. 4 * W <= 4 * CPU + 9 * SP
  <2>1. 2 * AS <= 2 * CPU + S + PU
    OBVIOUS
  <2> DEFINE k == PP * LQ
  <2>2. k \in Int /\ 4 * k <= 4 * AS + 2 * AP + 2 * SP + PP /\ 4 * W <= 4 * k + 2 * PPU
    BY <1>1, <1>3, <1>5
  <2> HIDE DEF k, AS, CPU, PU, AP, SP, PP, PPU, W
  <2> QED
    BY <1>1, <1>2, <1>4, <2>1, <2>2
<1> DEFINE PVF == P * (V + F)
           Y == 4 * (PU * U)
           WG == W * G
           CG == CPU * G
           SG == SP * G
           Cm == CPU * m
           Sm == SP * m
           bSm == (b * SP) * m
<1>7. /\ PVF \in Int /\ Y \in Nat /\ WG \in Int /\ CG \in Int /\ SG \in Nat
      /\ Cm \in Int /\ Sm \in Nat /\ bSm \in Nat
  <2>1. b * SP \in Nat
    BY <1>1
  <2> HIDE DEF PU, W, SP, CPU, G
  <2> QED
    BY <1>1, <1>2, <2>1
<1>8. 4 * WG <= 4 * CG + 9 * SG
  <2> DEFINE lower == 4 * W
             upper == 4 * CPU + 9 * SP
  <2>1. lower \in Int /\ upper \in Int /\ lower <= upper
    BY <1>1, <1>2, <1>6
  <2>2. lower * G = 4 * WG /\ upper * G = 4 * CG + 9 * SG
    <3> HIDE DEF W, CPU, SP, G
    <3> QED
      BY <1>1, <1>2
  <2> HIDE DEF lower, upper
  <2>3. lower * G <= upper * G
    BY <1>1, <2>1, TimesKeepsOrder
  <2> QED
    BY <2>2, <2>3
<1>9. Y * PVF <= 4 * WG + 2 * (PU * PU)
  <2> DEFINE FU == F * U
             Vf == V * f
             PVU == P * VU
             PFU == P * FU
             PVf == P * Vf
             UN == U * PVF
             VG == P * (V * G)
  <2>1. /\ FU \in Int /\ Vf \in Int /\ 2 * FU <= 2 * Vf + U
        /\ P \in Nat /\ U \in Nat /\ VU \in Int
    BY <1>1
  <2>2. 2 * PFU <= 2 * PVf + PU
    <3> HIDE DEF FU, Vf
    <3>1. (2 * FU) * P <= (2 * Vf + U) * P
      BY <2>1, TimesKeepsOrder
    <3>2. (2 * FU) * P = 2 * PFU /\ (2 * Vf + U) * P = 2 * PVf + PU
      BY <2>1
    <3> QED
      BY <3>1, <3>2
  <2>3. UN = PVU + PFU /\ VG = PVU + PVf
    OBVIOUS
  <2>4. PVU \in Int /\ PFU \in Int /\ PVf \in Int /\ VG \in Int /\ UN \in Int
    <3> HIDE DEF FU, Vf, VU, PVF
    <3>1. PVU \in Int /\ PFU \in Int /\ PVf \in Int
      BY <2>1
    <3> QED
      BY <2>3, <3>1
  <2>5. 2 * UN <= 2 * VG + PU
    <3> HIDE DEF PVU, PFU, PVf, UN, VG, PU
    <3> QED
      BY <1>1, <2>2, <2>3, <2>4
  <2>6. (2 * UN) * (2 * PU) <= (2 * VG + PU) * (2 * PU)
    <3> HIDE DEF UN, VG, PU
    <3>1. 2 * UN \in Int /\ 2 * VG + PU \in Int /\ 2 * PU \in Nat
      BY <1>1, <2>4
    <3> QED
      BY <2>5, <3>1, TimesKeepsOrder
  <2>7. (2 * UN) * (2 * PU) = Y * PVF
    <3> HIDE DEF PVF, PU
    <3> QED
      BY <1>1, <1>7
  <2>8. (2 * VG + PU) * (2 * PU) = 4 * (VG * PU) + 2 * (PU * PU)
    <3> HIDE DEF VG, PU
    <3> QED
      BY <1>1, <2>4
  <2>9. VG * PU = WG
    <3>1. VG = P * (V * G) /\ PU = U * P /\ WG = (PP * VU) * G
      OBVIOUS
    <3> HIDE DEF G
    <3> QED
      BY <1>1
  <2> QED
    BY <2>6, <2>7, <2>8, <2>9
<1>10. 4 * CG + 4 * Cm <= Y * T + 2 * (PU * U)
  <2> DEFINE CR == C * (U + f + m)
             TU == T * U
  <2>1. CR \in Int /\ TU \in Int /\ 2 * CR <= 2 * TU + U
    OBVIOUS
  <2>2. (2 * CR) * (2 * PU) <= (2 * TU + U) * (2 * PU)
    <3> HIDE DEF CR, TU, PU
    <3>1. 2 * CR \in Int /\ 2 * TU + U \in Int /\ 2 * PU \in Nat
      BY <1>1, <2>1
    <3> QED
      BY <2>1, <3>1, TimesKeepsOrder
  <2>3. CR = C * G + C * m
    OBVIOUS
  <2>4. (2 * CR) * (2 * PU) = 4 * CG + 4 * Cm
    <3> HIDE DEF CR, PU, G
    <3> QED
      BY <1>1, <2>1, <2>3
  <2>5. (2 * TU + U) * (2 * PU) = Y * T + 2 * (PU * U)
    <3> HIDE DEF PU
    <3> QED
      BY <1>1
  <2> QED
    BY <2>2, <2>4, <2>5
<1>11. 4 * bSm <= 4 * Cm + 2 * (PU * m)
  <2> DEFINE bS == b * S
             UC == U * C
             Pm == 2 * (P * m)
  <2>1. bS \in Int /\ UC \in Int /\ Pm \in Nat /\ 2 * bS <= 2 * UC + U
    OBVIOUS
  <2>2. (2 * bS) * Pm <= (2 * UC + U) * Pm
    <3> HIDE DEF bS, UC, Pm
    <3>1. 2 * bS \in Int /\ 2 * UC + U \in Int
      BY <2>1
    <3> QED
      BY <2>1, <3>1, TimesKeepsOrder
  <2>3. (2 * bS) * Pm = 4 * bSm
    OBVIOUS
  <2>4. (2 * UC + U) * Pm = 4 * Cm + 2 * (PU * m)
    OBVIOUS
  <2> QED
    BY <2>2, <2>3, <2>4
<1>12. PU * PU <= SG /\ 2 * (PU * U) <= SG /\ 2 * (PU * m) <= Sm
  <2>1. SP * U <= SG
    <3>1. U * SP <= G * SP
      BY <1>1, TimesKeepsOrder
    <3> HIDE DEF SP, G
    <3> QED
      BY <1>1, <3>1
  <2>2. PU * PU <= SP * U
    <3>1. PU * PU <= S * PU
      BY <1>1, <1>4, TimesKeepsOrder
    <3>2. S * PU = SP * U
      OBVIOUS
    <3> QED
      BY <3>1, <3>2
  <2>3. 2 * PU <= SP
    <3> HIDE DEF PU, SP
    <3> QED
      BY <1>1, <1>4
  <2>4. ASSUME NEW k \in Nat PROVE 2 * (PU * k) <= SP * k
    <3> HIDE DEF PU, SP
    <3>1. (2 * PU) * k <= SP * k
      BY <1>1, <2>3, TimesKeepsOrder
    <3>2. (2 * PU) * k = 2 * (PU * k)
      BY <1>1
    <3> QED
      BY <3>1, <3>2
  <2>5. 2 * (PU * U) <= SP * U /\ 2 * (PU * m) <= SP * m
    BY <2>4
  <2>6. PU * PU \in Int /\ PU * U \in Int /\ SP * U \in Int
    <3> HIDE DEF PU, SP
    <3> QED
      BY <1>1
  <2> DEFINE x == PU * PU
             y == PU * U
             z == SP * U
  <2>7. x \in Int /\ y \in Int /\ z \in Int /\ x <= z /\ 2 * y <= z /\ z <= SG
    BY <2>1, <2>2, <2>5, <2>6
  <2>8. x <= SG /\ 2 * y <= SG
    <3> HIDE DEF x, y, z, SG
    <3> QED
      BY <1>7, <2>7
  <2> QED
    BY <2>5, <2>8
<1>13. 12 * SG + Sm <= 4 * bSm
  <2> DEFINE lower == 12 * G + m
             mb == m * b
  <2>1. lower \in Nat /\ mb \in Nat /\ lower <= 4 * mb
    BY <1>1
  <2>2. lower * SP <= (4 * mb) * SP
    <3> HIDE DEF lower, mb, SP
    <3> QED
      BY <1>1, <2>1, TimesKeepsOrder
  <2>3. lower * SP = 12 * SG + Sm /\ (4 * mb) * SP = 4 * bSm
    <3> HIDE DEF SP, G
    <3> QED
      BY <1>1
  <2> QED
    BY <2>2, <2>3
<1>14. Y * PVF <= Y * T
  <2> DEFINE x == PU * PU
             y == PU * U
             z == PU * m
             YN == Y * PVF
             YT == Y * T
  <2>1. x \in Int /\ y \in Int /\ z \in Int /\ YN \in Int /\ YT \in Int
    <3> HIDE DEF PU, PVF, Y
    <3> QED
      BY <1>1, <1>7
  <2>2. /\ YN <= 4 * WG + 2 * x /\ 4 * CG + 4 * Cm <= YT + 2 * y
        /\ 4 * bSm <= 4 * Cm + 2 * z
        /\ x <= SG /\ 2 * y <= SG /\ 2 * z <= Sm
    BY <1>9, <1>10, <1>11, <1>12
  <2> HIDE DEF x, y, z, YN, YT, WG, CG, SG, Cm, Sm, bSm
  <2>3. YN <= YT
    BY <1>7, <1>8, <1>13, <2>1, <2>2
  <2> QED
    BY <2>3 DEF YN, YT
<1>15. PVF <= T
  <2>1. Y \in Nat \ {0}
    <3>1. PU >= 1 /\ U >= 1
      <4>1. U \in Nat \ {0} /\ P \in Nat \ {0}
        OBVIOUS
      <4> QED
        BY <4>1
    <3>2. 1 * U <= PU * U
      BY <1>1, <3>1, TimesKeepsOrder
    <3> DEFINE UU == PU * U
    <3> HIDE DEF PU
    <3>3. UU \in Nat /\ U <= UU /\ Y = 4 * UU
      BY <1>1, <3>2
    <3> HIDE DEF UU, Y
    <3> QED
      BY <3>1, <3>3
  <2> HIDE DEF Y, PVF
  <2> SUFFICES ASSUME T + 1 <= PVF PROVE FALSE
    BY <1>7
  <2>2. (T + 1) * Y <= PVF * Y
    BY <1>7, <2>1, TimesKeepsOrder
  <2> DEFINE NY == PVF * Y
             TY == T * Y
  <2>3. (T + 1) * Y = TY + Y /\ Y * PVF = NY /\ PVF * Y = NY /\ Y * T = TY /\ NY \in Int /\ TY \in Int
    BY <1>7, <2>1
  <2> HIDE DEF NY, TY
  <2> QED
    BY <1>14, <2>1, <2>2, <2>3
<1> QED
  <2> DEFINE paid == V + F
             BP == B * P
             PP1 == paid * P
  <2>1. paid \in Int /\ BP \in Int /\ T <= BP /\ P \in Nat \ {0} /\ PVF = paid * P
    OBVIOUS
  <2>2. paid * P <= BP
    <3> HIDE DEF paid, BP, PVF
    <3> QED
      BY <1>7, <1>15, <2>1
  <2> HIDE DEF paid
  <2> SUFFICES ASSUME B + 1 <= paid PROVE FALSE
    BY <2>1 DEF paid
  <2>3. (B + 1) * P <= paid * P
    BY <2>1, TimesKeepsOrder
  <2>4. (B + 1) * P = BP + P /\ PP1 \in Int
    BY <2>1
  <2> HIDE DEF BP, PP1
  <2> QED
    BY <2>1, <2>2, <2>3, <2>4 DEF PP1

\* What has been spent bought at the best price or a higher one.
Affords(best, r) ==
    \/ r.shares <= 0 /\ r.left <= 0
    \/ r.left >= 0 /\ 2 * (best * r.shares) <= 2 * (Unit * r.cost) + (IF r.left = 0 THEN Unit ELSE 0)

Affording(best) == {r \in Spending : Affords(best, r)}

LEMMA SpendAffords ==
    ASSUME NEW best \in Nat, NEW r \in Affording(best), NEW level \in Levels, best <= level.price
    PROVE  Spend(r, level) \in Affording(best)
<1> DEFINE k == Precision \div Unit
           size == level.size
           price == level.price
           whole == LevelCost(level)
           all == size * Precision
           part == HalfEven(r.left * Unit, price)
           s == Spend(r, level)
<1>1. /\ r.shares \in Int /\ r.cost \in Int /\ r.left \in Int /\ Affords(best, r)
      /\ price \in Nat \ {0} /\ size \in Nat \ {0} /\ price < Unit
      /\ Precision \in Nat \ {0} /\ Unit \in Nat \ {0}
  BY LevelIs, PolicyIs DEF Spending, Affording, Levels
<1>2. s \in Spending
  BY SpendStays DEF Affording
<1>3. /\ r.left = 0 => s = r
      /\ r.left # 0 /\ r.left >= whole =>
            s = [shares |-> r.shares + all, cost |-> r.cost + whole,
                 left |-> r.left - whole, worst |-> level.price]
      /\ r.left # 0 /\ ~(r.left >= whole) =>
            s = [shares |-> r.shares + part, cost |-> r.cost + r.left, left |-> 0, worst |-> level.price]
  BY DEF Spend
<1> SUFFICES Affords(best, s)
  BY <1>2 DEF Affording
<1> HIDE DEF s
<1>4. k \in Nat /\ k * Unit = Precision
  <2>1. Precision \in Nat /\ Unit \in Nat \ {0} /\ Precision % Unit = 0
    BY ScaleAssumption
  <2> QED
    BY <2>1
<1>5. whole \in Nat /\ whole = size * price * k
  <2>1. whole = size * price * k
    BY DEF LevelCost
  <2> HIDE DEF k
  <2> QED
    BY <1>1, <1>4, <2>1
<1> HIDE DEF k, whole
<1>6. all \in Nat /\ Unit * whole = price * all
  <2>1. Unit * (size * price * k) = price * (size * (k * Unit))
    BY <1>1, <1>4
  <2> QED
    BY <1>1, <1>4, <1>5, <2>1
<1>7. best * all <= price * all
  BY <1>1, <1>6, TimesKeepsOrder
<1>8. r.left * Unit \in Int /\ part \in Int
  BY <1>1, HalfEvenIs
<1>9. /\ 2 * (part * price) <= 2 * (r.left * Unit) + price
      /\ r.left >= 0 => part >= 0
      /\ r.left <= 0 => part <= 0
  <2> DEFINE x == r.left * Unit
  <2>1. (r.left >= 0 => x >= 0) /\ (r.left <= 0 => x <= 0)
    BY <1>1
  <2>2. x \in Int
    BY <1>1
  <2> HIDE DEF x
  <2>3. /\ 2 * (HalfEven(x, price) * price) <= 2 * x + price
        /\ (x >= 0 => HalfEven(x, price) >= 0) /\ (x <= 0 => HalfEven(x, price) <= 0)
    BY <1>1, <2>2, HalfEvenBounds, HalfEvenSign
  <2> QED
    BY <2>1, <2>3 DEF x
<1> DEFINE bS == best * r.shares
           UC == Unit * r.cost
           ba == best * all
           Uw == Unit * whole
           bp == best * part
           Ul == Unit * r.left
<1>10. bS \in Int /\ UC \in Int /\ ba \in Int /\ Uw \in Int /\ bp \in Int /\ Ul \in Int
  BY <1>1, <1>5, <1>6, <1>8
<1>11. CASE r.left = 0
  BY <1>1, <1>3, <1>11
<1>12. CASE r.left # 0 /\ r.left >= whole
  <2>1. r.left >= 0 /\ 2 * bS <= 2 * UC
    BY <1>1, <1>5, <1>12 DEF Affords
  <2>2. s.left >= 0 /\ s.left \in Int
    BY <1>1, <1>3, <1>5, <1>12
  <2>3. s.shares = r.shares + all /\ s.cost = r.cost + whole
    BY <1>3, <1>12
  <2>4. best * s.shares = bS + ba /\ Unit * s.cost = UC + Uw
    BY <1>1, <1>5, <1>6, <2>3
  <2>5. ba <= Uw
    BY <1>6, <1>7
  <2> HIDE DEF bS, UC, ba, Uw
  <2>6. 2 * (bS + ba) <= 2 * (UC + Uw) + (IF s.left = 0 THEN Unit ELSE 0)
    BY <1>1, <1>10, <2>1, <2>5
  <2> QED
    BY <2>2, <2>4, <2>6 DEF Affords
<1>13. CASE r.left # 0 /\ ~(r.left >= whole)
  <2>1. s.shares = r.shares + part /\ s.cost = r.cost + r.left /\ s.left = 0
    BY <1>3, <1>13
  <2>2. CASE r.left < 0
    <3>1. r.shares <= 0
      BY <1>1, <2>2 DEF Affords
    <3>2. s.shares <= 0
      BY <1>1, <1>8, <1>9, <2>1, <2>2, <3>1
    <3> QED
      BY <2>1, <3>2 DEF Affords
  <2>3. CASE r.left >= 0
    <3>1. 2 * bS <= 2 * UC
      BY <1>1, <1>13, <2>3 DEF Affords
    <3>2. best * s.shares = bS + bp /\ Unit * s.cost = UC + Ul
      BY <1>1, <1>8, <2>1
    <3>3. bp <= part * price
      <4>1. best * part <= price * part
        BY <1>1, <1>8, <1>9, <2>3, TimesKeepsOrder
      <4> QED
        BY <1>1, <1>8, <4>1
    <3> DEFINE pp == part * price
    <3>4. pp \in Int /\ bp <= pp /\ 2 * pp <= 2 * Ul + price
      BY <1>1, <1>8, <1>9, <3>3
    <3> HIDE DEF bS, UC, bp, Ul, pp
    <3>5. 2 * (bS + bp) <= 2 * (UC + Ul) + Unit
      BY <1>1, <1>10, <3>1, <3>4
    <3> QED
      BY <2>1, <3>2, <3>5 DEF Affords
  <2> QED
    BY <1>1, <2>2, <2>3
<1> QED
  BY <1>11, <1>12, <1>13

\* The asks of a book are sorted: the first is the best.
LEMMA BestIs ==
    ASSUME NEW asks \in Books
    PROVE  /\ asks[1].price \in Nat \ {0} /\ asks[1].price < Unit
           /\ \A i \in DOMAIN asks : asks[1].price <= asks[i].price
<1>1. /\ 1 \in DOMAIN asks /\ DOMAIN asks \subseteq Nat
      /\ \A i \in DOMAIN asks : asks[i] \in Levels
  BY BookIs
<1>2. \A i \in DOMAIN asks : asks[i].price \in Nat \ {0} /\ asks[i].price < Unit
  BY <1>1, PolicyIs DEF Levels
<1>3. \A n \in DOMAIN asks : 1 < n => asks[1].price < asks[n].price
  BY <1>1, InputAssumption
<1>4. ASSUME NEW i \in DOMAIN asks PROVE asks[1].price <= asks[i].price
  <2>1. i = 1 \/ 1 < i
    <3>1. i \in Nat /\ i # 0
      <4>1. asks \in Seq(Levels)
        BY InputAssumption
      <4>2. DOMAIN asks = 1 .. Len(asks)
        BY <4>1
      <4> QED
        BY <1>1, <4>2
    <3> QED
      BY <3>1
  <2> QED
    BY <1>1, <1>2, <1>3, <2>1
<1> QED
  BY <1>1, <1>2, <1>4

LEMMA SpentAffords ==
    ASSUME NEW asks \in Books, NEW money \in Int
    PROVE  Spent(asks, money) \in Affording(asks[1].price)
<1> DEFINE best == asks[1].price
           base == [shares |-> 0, cost |-> 0, left |-> money, worst |-> 0]
<1>1. best \in Nat /\ (\A i \in DOMAIN asks : asks[i] \in Levels /\ best <= asks[i].price)
  BY BestIs, BookIs
<1>2. base \in Affording(best)
  <2>1. base \in Spending
    BY DEF Spending
  <2>2. base.left = money /\ base.shares = 0 /\ base.cost = 0
    OBVIOUS
  <2>3. best * 0 = 0 /\ Unit * 0 = 0 /\ Unit \in Nat
    BY <1>1, PolicyIs
  <2>4. 2 * (best * base.shares) <= 2 * (Unit * base.cost) + (IF base.left = 0 THEN Unit ELSE 0)
    BY <2>2, <2>3
  <2>5. Affords(best, base)
    BY <2>2, <2>4 DEF Affords
  <2> QED
    BY <2>1, <2>5 DEF Affording
<1> HIDE DEF best
<1>3. \A r \in Affording(best), i \in DOMAIN asks : Spend(r, asks[i]) \in Affording(best)
  BY <1>1, SpendAffords
<1> DEFINE T == Affording(best)
<1> HIDE DEF T
<1>4. base \in T /\ \A r \in T, i \in DOMAIN asks : Spend(r, asks[i]) \in T
  BY <1>2, <1>3 DEF T
<1>5. Spent(asks, money) \in T
  BY <1>4, SpentStays
<1> QED
  BY <1>5 DEF T, best

\* An amount pays for so many shares at the price, and for their fee.
Covered(money, quantity, limit) ==
    /\ quantity \in Nat /\ limit \in Nat
    /\ Value(limit, quantity) + Fee(Value(limit, quantity)) <= money

LEMMA ScaleIs == Precision >= Unit
<1> DEFINE k == Precision \div Unit
<1>1. /\ Unit \in Nat \ {0} /\ Precision \in Nat \ {0} /\ k \in Nat /\ Precision = k * Unit
  BY ScaleAssumption
<1> HIDE DEF k
<1>2. k # 0
  BY <1>1
<1>3. 1 * Unit <= k * Unit
  BY <1>1, <1>2, TimesKeepsOrder
<1> QED
  BY <1>1, <1>3

\* Where the margin suffices, the budget of an accepted quote covers the order
\* that is made of it.
LEMMA QuoteCovers ==
    ASSUME NEW asks \in Books, NEW probability \in Probabilities, NEW money \in Int,
           NEW q, q = Evaluate(asks, probability, money), q.reason = "accepted",
           MinimumSize >= Unit, Suffices(Unit, Costs.fee, Costs.margin, asks[1].price)
    PROVE  Covered(money, HalfEven(q.shares, Precision), HalfEven(q.average, Precision))
<1> DEFINE limit == HalfEven((money - Costs.fixed) * Precision * Unit, Multiplier) - 1
           spend == Least(limit, Notional(asks))
           r == Spent(asks, spend)
           b == asks[1].price
           U == Unit
           P == Precision
           f == Costs.fee
           m == Costs.margin
           S == r.shares
           C == r.cost
           A == q.average
           L == HalfEven(A, P)
           Q == HalfEven(S, P)
           V == HalfEven(L * Q, U)
           F == HalfEven(V * f, U)
           CM == C * (U + f + m)
           T == HalfEven(CM, U)
           B == money - Costs.fixed
<1>1. /\ U \in Nat \ {0} /\ P \in Nat \ {0} /\ MinimumSize \in Nat \ {0} /\ Multiplier \in Nat \ {0}
      /\ f \in Nat /\ m \in Nat /\ Costs.fixed \in Nat /\ P >= U
      /\ b \in Nat \ {0} /\ b < U /\ MinimumSize >= U /\ Multiplier = U + f + m
      /\ probability \in Nat /\ probability < U
  BY PolicyIs, BestIs, ScaleIs, InputAssumption DEF Multiplier
<1>2. /\ ~(S < MinimumSize * P) /\ ~(T + Costs.fixed * P > money * P)
      /\ ~(probability * P <= A)
      /\ q.shares = S
      /\ A = Greatest(HalfEven(C * U * P, S), b * P)
  BY DEF Evaluate, Rejected, QuoteBuyBudget, Multiplier
<1>3. spend \in Int
  <2> DEFINE funds == (money - Costs.fixed) * Precision * Unit
  <2>1. funds \in Int
    BY <1>1
  <2> HIDE DEF funds
  <2>2. HalfEven(funds, Multiplier) \in Int
    BY <1>1, <2>1, HalfEvenIs
  <2>3. limit \in Int
    BY <2>2 DEF funds
  <2> HIDE DEF limit
  <2> QED
    BY <2>3, NotionalIs DEF Least
<1>4. r \in Affording(b)
  <2> HIDE DEF spend
  <2> QED
    BY <1>3, SpentAffords
<1>5. S \in Int /\ C \in Int /\ Affords(b, r)
  BY <1>4 DEF Affording, Spending
<1> HIDE DEF r, spend, limit
<1>6. S \in Nat \ {0} /\ U * P <= S
  <2> DEFINE least == MinimumSize * P
  <2>1. U * P <= MinimumSize * P
    BY <1>1, TimesKeepsOrder
  <2>2. U * P \in Nat \ {0} /\ least \in Nat
    BY <1>1
  <2>3. U * P <= least /\ ~(S < least)
    BY <1>2, <2>1
  <2> HIDE DEF least
  <2> QED
    BY <1>5, <2>2, <2>3
<1>7. 2 * (b * S) <= 2 * (U * C) + U
  <2> DEFINE x == b * S
             y == U * C
  <2>1. x \in Int /\ y \in Int
    BY <1>1, <1>5
  <2>2. 2 * x <= 2 * y + (IF r.left = 0 THEN U ELSE 0)
    BY <1>5, <1>6 DEF Affords
  <2> HIDE DEF x, y
  <2>3. 2 * x <= 2 * y + U
    BY <1>1, <2>1, <2>2
  <2> QED
    BY <2>3 DEF x, y
<1> DEFINE CUP == C * (U * P)
           per == HalfEven(C * U * P, S)
           first == b * P
<1>8. /\ CUP \in Int /\ per \in Int /\ first \in Nat
      /\ 2 * (per * S) <= 2 * CUP + S
  <2>1. C * U * P = CUP /\ CUP \in Int
    BY <1>1, <1>5
  <2>2. first \in Nat
    BY <1>1
  <2> HIDE DEF CUP
  <2> QED
    BY <1>6, <2>1, <2>2, HalfEvenBounds, HalfEvenIs
<1>9. A \in Nat /\ (A = per \/ A = first)
  <2>1. A = Greatest(per, first)
    BY <1>2
  <2> HIDE DEF per, first
  <2> QED
    BY <1>8, <2>1 DEF Greatest
<1>10. 2 * (A * S) <= 2 * CUP + S + U * P
  <2> DEFINE UP == U * P
             AS == A * S
  <2>1. UP \in Nat /\ AS \in Int
    BY <1>1, <1>5, <1>9
  <2>2. CASE A = per
    <3>1. 2 * AS <= 2 * CUP + S
      BY <1>8, <2>2
    <3> HIDE DEF AS, CUP, UP
    <3>2. 2 * AS <= 2 * CUP + S + UP
      BY <1>6, <1>8, <2>1, <3>1
    <3> QED
      BY <3>2 DEF UP, AS
  <2>3. CASE A = first
    <3> DEFINE bS == b * S
               UC == U * C
    <3>1. bS \in Int /\ UC \in Int /\ 2 * bS <= 2 * UC + U
      BY <1>1, <1>5, <1>7
    <3>2. (2 * bS) * P <= (2 * UC + U) * P
      <4> HIDE DEF bS, UC
      <4> QED
        BY <1>1, <3>1, TimesKeepsOrder
    <3>3. (2 * bS) * P = 2 * AS
      BY <1>1, <1>5, <2>3
    <3>4. (2 * UC + U) * P = 2 * CUP + UP
      BY <1>1, <1>5
    <3>5. 2 * AS <= 2 * CUP + UP
      BY <3>2, <3>3, <3>4
    <3> HIDE DEF AS, CUP, UP
    <3>6. 2 * AS <= 2 * CUP + S + UP
      BY <1>6, <1>8, <2>1, <3>5
    <3> QED
      BY <3>6 DEF UP, AS
  <2> QED
    BY <1>9, <2>2, <2>3
<1>11. A <= U * P
  <2>1. probability * P <= U * P
    BY <1>1, TimesKeepsOrder
  <2> DEFINE won == probability * P
             UP == U * P
  <2>2. won \in Int /\ UP \in Int /\ won <= UP /\ ~(won <= A)
    BY <1>1, <1>2, <2>1
  <2> HIDE DEF won, UP
  <2>3. A <= UP
    BY <1>9, <2>2
  <2> QED
    BY <2>3 DEF UP
<1> HIDE DEF A, per, first
<1>12. /\ L \in Nat /\ 2 * (L * P) <= 2 * A + P
       /\ Q \in Nat /\ 2 * (Q * P) <= 2 * S + P
  <2>1. ASSUME NEW x \in Nat
        PROVE  HalfEven(x, P) \in Nat /\ 2 * (HalfEven(x, P) * P) <= 2 * x + P
    <3>1. x \in Int /\ x >= 0 /\ P \in Nat \ {0}
      BY <1>1
    <3> HIDE DEF P
    <3>2. HalfEven(x, P) \in Int /\ HalfEven(x, P) >= 0
      BY <3>1, HalfEvenIs, HalfEvenSign
    <3>3. 2 * (HalfEven(x, P) * P) <= 2 * x + P
      BY <3>1, HalfEvenBounds
    <3> QED
      BY <3>2, <3>3
  <2> HIDE DEF S
  <2> QED
    BY <1>6, <1>9, <2>1
<1> HIDE DEF L, Q
<1>13. V \in Int /\ 2 * (V * U) <= 2 * (L * Q) + U
  <2> DEFINE LQ == L * Q
  <2>1. LQ \in Int
    BY <1>12
  <2> HIDE DEF LQ
  <2>2. HalfEven(LQ, U) \in Int /\ 2 * (HalfEven(LQ, U) * U) <= 2 * LQ + U
    BY <1>1, <2>1, HalfEvenIs, HalfEvenBounds
  <2> QED
    BY <2>2 DEF LQ
<1> HIDE DEF V
<1>14. F \in Int /\ 2 * (F * U) <= 2 * (V * f) + U
  <2> DEFINE Vf == V * f
  <2>1. Vf \in Int
    BY <1>1, <1>13
  <2> HIDE DEF Vf
  <2>2. HalfEven(Vf, U) \in Int /\ 2 * (HalfEven(Vf, U) * U) <= 2 * Vf + U
    BY <1>1, <2>1, HalfEvenIs, HalfEvenBounds
  <2> QED
    BY <2>2 DEF Vf
<1> HIDE DEF F
<1>15. CM \in Int /\ T \in Int /\ 2 * CM <= 2 * (T * U) + U
  <2>1. CM \in Int
    BY <1>1, <1>5
  <2> HIDE DEF CM
  <2> QED
    BY <1>1, <2>1, HalfEvenIs, HalfEvenBounds
<1> HIDE DEF T
<1>16. T <= B * P
  <2> DEFINE paid == money * P
             fixed == Costs.fixed * P
             BP == B * P
  <2>1. paid \in Int /\ fixed \in Int /\ BP = paid - fixed
    BY <1>1
  <2>2. ~(T + fixed > paid)
    BY <1>2
  <2> HIDE DEF paid, fixed, BP
  <2>3. T <= BP
    BY <1>15, <2>1, <2>2
  <2> QED
    BY <2>3 DEF BP
<1>17. 12 * (U + f) + m <= 4 * (m * b)
  <2> DEFINE mb == m * b
             rest == m * (2 * b - 1)
  <2>1. 6 * (U + f) <= rest
    BY DEF Suffices
  <2>2. mb \in Nat /\ rest = 2 * mb - m
    BY <1>1
  <2> HIDE DEF mb, rest
  <2>3. 12 * (U + f) + m <= 4 * mb
    BY <1>1, <2>1, <2>2
  <2> QED
    BY <2>3 DEF mb
<1>18. V + F <= B
  <2>1. /\ U \in Nat /\ P \in Nat /\ f \in Nat /\ m \in Nat /\ b \in Nat
        /\ S \in Nat /\ C \in Int /\ A \in Nat /\ L \in Nat /\ Q \in Nat
        /\ V \in Int /\ F \in Int /\ T \in Int /\ B \in Int /\ U >= 2 /\ P >= U
    BY <1>1, <1>5, <1>6, <1>9, <1>12, <1>13, <1>14, <1>15
  <2> HIDE DEF U, P, f, m, b, S, C, B
  <2> QED
    BY <1>6, <1>7, <1>10, <1>11, <1>12, <1>13, <1>14, <1>15, <1>16, <1>17, <2>1, MarginCovers DEF CM, CUP
<1>19. V + (F + Costs.fixed) <= money
  BY <1>1, <1>13, <1>14, <1>18
<1>20. Value(L, Q) = V /\ Fee(V) = F + Costs.fixed
  BY DEF Value, Fee, V, F
<1>21. Covered(money, Q, L)
  BY <1>12, <1>19, <1>20 DEF Covered
<1> QED
  BY <1>2, <1>21 DEF L, Q, A

LEMMA BuyLevelsAre ==
    ASSUME NEW asks \in Books, OrderIs, intent.quantity \in Nat
    PROVE  /\ BuyLevels(asks).filled \in Nat /\ BuyLevels(asks).filled <= intent.quantity
           /\ BuyLevels(asks).cost \in Nat
<1> DEFINE best == asks[1].price
           L == Len(asks)
           Good(b) == b.filled \in Nat /\ b.filled <= intent.quantity /\ b.cost \in Nat
<1>1. PICK v : /\ BuyLevels(asks) = v[L]
               /\ v[0] = [filled |-> 0, cost |-> 0, done |-> FALSE]
               /\ \A n \in 1 .. L :
                     /\ v[n - 1] \in Buying /\ v[n] \in Buying
                     /\ v[n] = BuyLevel(best, v[n - 1], asks[n])
  BY BuyLevelsBy
<1>2. best \in Int /\ L \in Nat /\ \A n \in 1 .. L : asks[n] \in Levels
  <2>1. asks \in Seq(Levels)
    BY InputAssumption
  <2> QED
    BY <2>1, BestIs
<1> HIDE DEF best
<1>3. ASSUME NEW r \in Buying, NEW level \in Levels, Good(r)
      PROVE  Good(BuyLevel(best, r, level))
  <2>1. CASE r.done
    <3>1. BuyLevel(best, r, level) = [r EXCEPT !.done = TRUE]
      BY <2>1 DEF BuyLevel
    <3>2. BuyLevel(best, r, level).filled = r.filled /\ BuyLevel(best, r, level).cost = r.cost
      BY <3>1 DEF Buying
    <3> QED
      BY <1>3, <3>2
  <2>2. CASE ~r.done
    <3> DEFINE b == BuyLevel(best, r, level)
    <3>1. PICK t : Gives(best, r, level, b, t)
      BY <1>2, <2>2, BuyLevelGives
    <3> HIDE DEF b
    <3>2. /\ level.price \in Nat /\ level.size \in Nat /\ t \in Nat /\ t <= level.size
          /\ b.filled = r.filled + t /\ b.cost = r.cost + t * level.price
      BY <3>1, LevelIs DEF Gives
    <3>3. t = 0 \/ r.filled + t <= intent.quantity
      <4>1. t # 0 => Fits(best, r, level, t)
        BY <3>1, <3>2 DEF Gives
      <4> QED
        BY <4>1 DEF Fits
    <3>4. t * level.price \in Nat
      BY <3>2
    <3>5. Good(b)
      BY <1>3, <3>2, <3>3, <3>4
    <3> QED
      BY <3>5 DEF b
  <2> QED
    BY <2>1, <2>2
<1> DEFINE K == {n \in Nat : n \in 0 .. L => Good(v[n])}
<1>4. 0 \in K
  BY <1>1
<1> HIDE DEF Good
<1>5. ASSUME NEW n \in Nat, n \in K PROVE n + 1 \in K
  <2> SUFFICES ASSUME n + 1 \in 0 .. L PROVE Good(v[n + 1])
    OBVIOUS
  <2> DEFINE m == n + 1
  <2>1. m \in 1 .. L /\ m - 1 = n /\ n \in 0 .. L
    BY <1>2
  <2> HIDE DEF m
  <2>2. v[m - 1] \in Buying /\ Good(v[m - 1]) /\ v[m] = BuyLevel(best, v[m - 1], asks[m])
    BY <1>1, <1>5, <2>1
  <2>3. Good(v[m])
    BY <1>2, <1>3, <2>1, <2>2
  <2> QED
    BY <2>3 DEF m
<1> HIDE DEF K
<1>6. L \in K
  BY <1>2, <1>4, <1>5, InductionOnNaturals
<1>7. Good(v[L])
  BY <1>2, <1>6 DEF K
<1> QED
  BY <1>1, <1>7 DEF Good

LEMMA ValueIs ==
    ASSUME NEW price \in Nat, NEW quantity \in Nat
    PROVE  Value(price, quantity) \in Nat
<1> DEFINE worth == price * quantity
<1>1. worth \in Int /\ worth >= 0 /\ Unit \in Nat \ {0}
  BY PolicyIs
<1> HIDE DEF worth
<1>2. HalfEven(worth, Unit) \in Int /\ HalfEven(worth, Unit) >= 0
  BY <1>1, HalfEvenIs, HalfEvenSign
<1> QED
  BY <1>2 DEF Value, worth

LEMMA ValueKeepsOrder ==
    ASSUME NEW price \in Nat, NEW quantity \in Nat, NEW paid \in Nat, NEW filled \in Nat,
           paid <= price, filled <= quantity
    PROVE  Value(paid, filled) <= Value(price, quantity)
<1> DEFINE less == paid * filled
           worth == price * quantity
           part == price * filled
<1>1. less \in Int /\ worth \in Int /\ part \in Int /\ Unit \in Nat \ {0}
  BY PolicyIs
<1>2. less <= part
  BY TimesKeepsOrder
<1>3. part <= worth
  <2>1. filled * price <= quantity * price
    BY TimesKeepsOrder
  <2>2. filled * price = part /\ quantity * price = worth
    OBVIOUS
  <2> QED
    BY <2>1, <2>2
<1> HIDE DEF less, worth, part
<1>4. HalfEven(less, Unit) <= HalfEven(worth, Unit)
  BY <1>1, <1>2, <1>3, HalfEvenKeepsOrder
<1> QED
  BY <1>4 DEF Value, less, worth

LEMMA FeeIs ==
    ASSUME NEW gross \in Nat, NEW more \in Nat, gross <= more
    PROVE  Fee(gross) \in Nat /\ Fee(more) \in Nat /\ Fee(gross) <= Fee(more)
<1> DEFINE a == gross * Costs.fee
           b == more * Costs.fee
<1>1. Costs.fee \in Nat /\ Costs.fixed \in Nat /\ Unit \in Nat \ {0}
  BY PolicyIs
<1>2. a \in Int /\ b \in Int /\ a >= 0 /\ b >= 0
  BY <1>1
<1>3. a <= b
  BY <1>1, TimesKeepsOrder
<1> HIDE DEF a, b
<1>4. /\ HalfEven(a, Unit) \in Int /\ HalfEven(b, Unit) \in Int
      /\ HalfEven(a, Unit) >= 0 /\ HalfEven(b, Unit) >= 0 /\ HalfEven(a, Unit) <= HalfEven(b, Unit)
  BY <1>1, <1>2, <1>3, HalfEvenIs, HalfEvenSign, HalfEvenKeepsOrder
<1>5. Fee(gross) = HalfEven(a, Unit) + Costs.fixed /\ Fee(more) = HalfEven(b, Unit) + Costs.fixed
  BY DEF Fee, a, b
<1> QED
  BY <1>1, <1>4, <1>5

\* A fill within the limit and the quantity of a covered order leaves a fee of
\* the reserve, and what is left of the order costs no more than the order.
LEMMA CoveredFill ==
    ASSUME NEW quantity, NEW limit, NEW fee \in Int, NEW filled \in Nat, NEW price \in Nat,
           Covered(Value(limit, quantity) + fee, quantity, limit),
           filled <= quantity, price <= limit
    PROVE  /\ Fee(Value(price, filled)) <= fee
           /\ Value(limit, quantity - filled) + fee - Fee(Value(price, filled))
                 <= Value(limit, quantity) + fee
<1> DEFINE whole == Value(limit, quantity)
           gross == Value(price, filled)
           rest == Value(limit, quantity - filled)
<1>1. quantity \in Nat /\ limit \in Nat /\ whole + Fee(whole) <= whole + fee
  BY DEF Covered
<1>2. quantity - filled \in Nat /\ quantity - filled <= quantity /\ limit <= limit
  BY <1>1
<1>3. /\ whole \in Nat /\ gross \in Nat /\ rest \in Nat
      /\ gross <= whole /\ rest <= whole
  <2>1. whole \in Nat /\ gross \in Nat /\ rest \in Nat
    BY <1>1, <1>2, ValueIs
  <2>2. gross <= whole
    BY <1>1, ValueKeepsOrder
  <2>3. rest <= whole
    BY <1>1, <1>2, ValueKeepsOrder
  <2> QED
    BY <2>1, <2>2, <2>3
<1> HIDE DEF whole, gross, rest
<1>4. Fee(gross) \in Nat /\ Fee(whole) \in Nat /\ Fee(gross) <= Fee(whole)
  BY <1>3, FeeIs
<1>5. Fee(gross) <= fee /\ rest + fee - Fee(gross) <= whole + fee
  BY <1>1, <1>3, <1>4
<1> QED
  BY <1>5 DEF whole, gross, rest

-----------------------------------------------------------------------------
\* The order is covered from when it is sized until it is filled.
AppliableInv ==
    /\ PlanInv
    /\ stage = "sized" => Covered(budget, HalfEven(quote.shares, Precision), HalfEven(quote.average, Precision))
    /\ stage \in {"planned", "filled"} => /\ intent.fee \in Int
                                          /\ Covered(Reservation, intent.quantity, intent.limit)
    /\ PlanAppliable

LEMMA SizeOnceCovers ==
    ASSUME AppliableInv, MarginSuffices, SizeOnce
    PROVE  AppliableInv'
<1> DEFINE q == Evaluate(given.decision, given.probability, budget)
<1>1. PlanInv'
  BY PlanInvPreserved DEF AppliableInv, EntryNext
<1>2. q.reason = "accepted" => Covered(budget, HalfEven(q.shares, Precision), HalfEven(q.average, Precision))
  BY InputIs, QuoteCovers DEF AppliableInv, PlanInv, SizingInv, MarginSuffices
<1> HIDE DEF q
<1>3. \/ stage' \in {"size", "rejected"}
      \/ stage' = "sized" /\ quote' = q /\ q.reason = "accepted" /\ budget' = budget
  BY DEF SizeOnce, Iterate, q
<1> QED
  BY <1>1, <1>2, <1>3 DEF AppliableInv, PlanAppliable

LEMMA CreateIntentCovers ==
    ASSUME AppliableInv, CreateIntent
    PROVE  AppliableInv'
<1> DEFINE quantity == HalfEven(quote.shares, Precision)
           limit == HalfEven(quote.average, Precision)
           fee == FeeReserve(quantity, limit)
           worth == Value(limit, quantity)
<1>1. PlanInv'
  BY PlanInvPreserved DEF AppliableInv, EntryNext
<1>2. /\ stage = "sized" /\ stage' = IF fee < 0 THEN "raised" ELSE "planned"
      /\ intent' = [quantity |-> quantity, limit |-> limit, fee |-> fee]
      /\ fee = budget - worth
  BY DEF CreateIntent, FeeReserve
<1>3. budget \in Int /\ Covered(budget, quantity, limit)
  BY <1>2 DEF AppliableInv, PlanInv, SizingInv
<1> HIDE DEF quantity, limit, fee
<1>4. worth \in Nat /\ Fee(worth) \in Nat /\ worth + Fee(worth) <= budget
  BY <1>3, ValueIs, FeeIs DEF Covered
<1> HIDE DEF worth
<1>5. fee \in Int /\ ~(fee < 0) /\ worth + fee = budget
  BY <1>2, <1>3, <1>4
<1>6. stage' = "planned" /\ intent'.fee = fee /\ intent'.quantity = quantity /\ intent'.limit = limit
  BY <1>2, <1>5
<1>7. Reservation' = budget
  <2>1. Reservation' = Value(intent'.limit, intent'.quantity) + intent'.fee
    BY DEF Reservation, Value
  <2> QED
    BY <1>5, <1>6, <2>1 DEF worth
<1>8. Covered(Reservation, intent.quantity, intent.limit)'
  BY <1>3, <1>6, <1>7 DEF Covered, Value, Fee
<1> QED
  BY <1>1, <1>5, <1>6, <1>8 DEF AppliableInv, PlanAppliable

LEMMA BuildPlanCovers ==
    ASSUME AppliableInv, BuildPlan
    PROVE  AppliableInv'
<1> DEFINE r == BuyLevels(given.execution)
           average == HalfEven(r.cost, r.filled)
           gross == Value(average, r.filled)
<1>1. PlanInv'
  BY PlanInvPreserved DEF AppliableInv, EntryNext
<1>2. stage = "planned" /\ OrderIs /\ intent.fee \in Int /\ Covered(Reservation, intent.quantity, intent.limit)
  BY DEF AppliableInv, PlanInv, BuildPlan
<1>3. CASE Finish("rejected")
  BY <1>1, <1>3 DEF AppliableInv, PlanAppliable, Finish
<1>4. CASE /\ r.filled >= MinimumSize /\ ~(average > intent.limit)
           /\ plan' = [quantity |-> r.filled, price |-> average, fee |-> Fee(gross)]
           /\ stage' = "filled" /\ UNCHANGED <<given, budget, iteration, quote, intent>>
  <2>1. PICK asks \in Books : asks = given.execution
    BY InputIs DEF AppliableInv, PlanInv, SizingInv
  <2>2. intent.quantity \in Nat /\ intent.limit \in Nat
    BY <1>2 DEF Covered
  <2>3. r.filled \in Nat /\ r.filled <= intent.quantity /\ r.cost \in Nat
    BY <1>2, <2>1, <2>2, BuyLevelsAre
  <2>4. r.filled \in Nat \ {0}
    BY <1>4, <2>3, PolicyIs
  <2> HIDE DEF r
  <2>5. average \in Nat /\ average <= intent.limit
    <3>1. average \in Int /\ average >= 0
      BY <2>3, <2>4, HalfEvenIs, HalfEvenSign
    <3> HIDE DEF average
    <3> QED
      BY <1>4, <2>2, <3>1
  <2> HIDE DEF average
  <2>6. Covered(Value(intent.limit, intent.quantity) + intent.fee, intent.quantity, intent.limit)
    BY <1>2 DEF Reservation
  <2>7. /\ Fee(gross) <= intent.fee
        /\ Value(intent.limit, intent.quantity - r.filled) + intent.fee - Fee(gross) <= Reservation
    BY <1>2, <2>3, <2>5, <2>6, CoveredFill DEF Reservation
  <2> HIDE DEF gross
  <2>8. plan'.price = average /\ plan'.fee = Fee(gross) /\ plan'.quantity = r.filled /\ intent' = intent
    BY <1>4
  <2>9. Reservation' = Reservation /\ Covered(Reservation, intent.quantity, intent.limit)'
    BY <1>2, <2>8 DEF Reservation, Covered, Value, Fee
  <2>10. PlanAppliable'
    <3>1. /\ plan'.price <= intent'.limit /\ plan'.fee <= intent'.fee
          /\ Value(intent'.limit, intent'.quantity - plan'.quantity) + intent'.fee - plan'.fee <= Reservation'
      BY <2>5, <2>7, <2>8, <2>9
    <3> QED
      BY <1>4, <3>1 DEF PlanAppliable, Value
  <2> QED
    BY <1>1, <1>2, <1>4, <2>8, <2>9, <2>10 DEF AppliableInv
<1> QED
  BY <1>3, <1>4 DEF BuildPlan

LEMMA AppliableInvPreserved ==
    ASSUME AppliableInv, MarginSuffices, [EntryNext]_entryVars
    PROVE  AppliableInv'
<1>1. PlanInv'
  BY PlanInvPreserved DEF AppliableInv
<1>2. CASE Seed
  BY <1>1, <1>2 DEF AppliableInv, PlanAppliable, Seed, Finish
<1>3. CASE SizeOnce
  BY <1>3, SizeOnceCovers
<1>4. CASE NonConvergent
  BY <1>1, <1>4 DEF AppliableInv, PlanAppliable, NonConvergent, Finish
<1>5. CASE CreateIntent
  BY <1>5, CreateIntentCovers
<1>6. CASE BuildPlan
  BY <1>6, BuildPlanCovers
<1>7. CASE UNCHANGED entryVars
  BY <1>1, <1>7 DEF AppliableInv, PlanAppliable, Covered, Reservation, Value, Fee, entryVars
<1> QED
  BY <1>2, <1>3, <1>4, <1>5, <1>6, <1>7 DEF EntryNext, EntryDone

\* paper/service.py, _apply_buy_fill: for every book, cash, probability, cost
\* and sizing policy whose safety margin pays for the rounding at the lowest
\* price, an approved size becomes an intent and never raises, and the plan that
\* is made of it keeps within the limit, the fee reserve and the reservation.
THEOREM PlanAppliableHolds == ASSUME MarginSuffices PROVE EntrySpec => []PlanAppliable
<1>1. EntryInit => AppliableInv
  BY SizingInvInitially DEF EntryInit, PlanInv, PlanIsLargest, AppliableInv, PlanAppliable
<1>2. AppliableInv /\ [EntryNext]_entryVars => AppliableInv'
  BY AppliableInvPreserved
<1>3. AppliableInv => PlanAppliable
  BY DEF AppliableInv
<1> QED
  BY <1>1, <1>2, <1>3, PTL DEF EntrySpec
=============================================================================
