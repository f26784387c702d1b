------------------------------ MODULE Producer ------------------------------
(***************************************************************************)
(* The public producer (weatherbot/producer): a loop that scans the        *)
(* cities, collects calibrated candidates from read-only weather and       *)
(* market reads, and only then evaluates them, one after the other, and    *)
(* appends the accepted ones to the signal log.                            *)
(*                                                                         *)
(* A scan takes time.  Each check uses a clock reading of its own: the     *)
(* decision window the start of the scan, calibration the retrieval of the *)
(* forecast, freshness the evaluation.  The model keeps those readings;    *)
(* prices, probabilities and fingerprints are abstracted to what tells two *)
(* signals apart, and whether a quote has an edge is an input.  All clocks *)
(* agree: nothing read is from the future, and future_tolerance rejects    *)
(* nothing.                                                                *)
(***************************************************************************)
EXTENDS Integers, Sequences, FiniteSets

CONSTANTS
    Cities, Leads,          \* LOCATIONS and CALIBRATION_LEAD_DAYS
    Offset,                 \* city -> its local time at clock 0
    Day,                    \* clock ticks of a day
    DecisionTime, Window,   \* CALIBRATION_DECISION_LOCAL_TIME and _WINDOW
    ScanInterval,           \* policy.scan_interval_seconds
    MaxForecastAge, MaxEventAge, MaxBookAge,    \* freshness policy
    KnownRuns,              \* model runs a forecast source may report
    MaxScan,                \* bound: ticks one scan may take (all reads time out)
    MaxClock,               \* bound on the clock
    MaxSignals              \* bound on the signal log

ASSUME ProducerAssumption ==
    /\ {Day, Window, MaxScan} \subseteq Nat \ {0}
    /\ {DecisionTime, ScanInterval, MaxForecastAge, MaxEventAge, MaxBookAge,
        MaxClock, MaxSignals} \subseteq Nat
    /\ DecisionTime + Window <= Day
    /\ Offset \in [Cities -> Nat]
    /\ KnownRuns \subseteq {"unknown", "expected", "other"}

VARIABLES
    clock,
    pc,         \* idle, city, market, book, emit or stopped
    started,    \* `current' of the scan: its start
    wake,       \* when the loop's wait is over
    city,       \* the city being scanned
    cities,     \* cities the scan has still to visit
    leads,      \* lead days the city has still to visit
    weather,    \* weather snapshot of the city
    event,      \* the lead day at hand, and when its event was read
    book,       \* market -> when its order book last changed
    candidates, \* collected, not yet evaluated
    log,        \* signals appended to the signal log
    shutdown    \* SIGINT or SIGTERM was received

vars == <<clock, pc, started, wake, city, cities, leads, weather, event, book,
          candidates, log, shutdown>>

scan == <<started, city, cities, leads, weather, event, candidates>>

Markets == Cities \X Leads

LocalTime(c, t) == (t + Offset[c]) % Day
LocalDay(c, t) == (t + Offset[c]) \div Day

\* calibration_runtime_window of the day of t.
InWindow(c, t) == LocalTime(c, t) \in DecisionTime..(DecisionTime + Window - 1)

NoWeather == [retrieved |-> 0, run |-> "unknown"]
NoEvent == [lead |-> 0, retrieved |-> 0]

Init ==
    /\ clock = 0
    /\ pc = "idle"
    /\ started = 0 /\ wake = 0
    /\ city \in Cities
    /\ cities = {} /\ leads = {}
    /\ weather = NoWeather
    /\ event = NoEvent
    /\ book = [m \in Markets |-> 0]
    /\ candidates = <<>>
    /\ log = <<>>
    /\ shutdown = FALSE
-----------------------------------------------------------------------------
\* The loop: scan, wait, and scan again unless shutdown was requested.
StartScan ==
    /\ pc = "idle" /\ ~shutdown
    /\ clock >= wake
    /\ pc' = "city"
    /\ started' = clock
    /\ cities' = Cities
    /\ UNCHANGED <<clock, wake, city, leads, weather, event, book, candidates, log, shutdown>>

\* No approved calibration artifact: the scan fails closed.
CalibrationUnavailable ==
    /\ pc = "city" /\ cities = Cities /\ candidates = <<>> /\ clock = started
    /\ pc' = "idle"
    /\ wake' = clock + ScanInterval
    /\ UNCHANGED <<clock, scan, book, log, shutdown>>

\* A city outside its window at the start of the scan, or whose weather
\* cannot be fetched, is passed over.
SkipCity(c) ==
    /\ pc = "city" /\ c \in cities
    /\ cities' = cities \ {c}
    /\ UNCHANGED <<clock, pc, started, wake, city, leads, weather, event, book,
                   candidates, log, shutdown>>

\* fetch_weather_snapshots: the retrieval time is a local clock reading.
FetchWeather(c) ==
    /\ pc = "city" /\ c \in cities
    /\ InWindow(c, started)
    /\ \E run \in KnownRuns :
          weather' = [retrieved |-> clock, run |-> run]
    /\ city' = c
    /\ cities' = cities \ {c}
    /\ leads' = Leads
    /\ pc' = "market"
    /\ UNCHANGED <<clock, started, wake, event, book, candidates, log, shutdown>>

\* A lead day without an event, or whose event is malformed.
SkipMarket(l) ==
    /\ pc = "market" /\ l \in leads
    /\ leads' = leads \ {l}
    /\ UNCHANGED <<clock, pc, started, wake, city, cities, weather, event, book,
                   candidates, log, shutdown>>

FetchEvent(l) ==
    /\ pc = "market" /\ l \in leads
    /\ event' = [lead |-> l, retrieved |-> clock]
    /\ leads' = leads \ {l}
    /\ pc' = "book"
    /\ UNCHANGED <<clock, started, wake, city, cities, weather, book,
                   candidates, log, shutdown>>

\* An event outside the hours of the policy, a forecast out of range, an
\* ambiguous bucket, too little volume, no order book, or a rejected
\* calibration.
SkipEvent ==
    /\ pc = "book"
    /\ pc' = "market" /\ event' = NoEvent
    /\ UNCHANGED <<clock, started, wake, city, cities, leads, weather, book,
                   candidates, log, shutdown>>

\* CalibratedProbabilityRuntime.probability: the forecast was retrieved
\* inside the decision window of the day the scan targets and is of the
\* run the calibration was built from.
Calibrated(c, w) ==
    /\ InWindow(c, w.retrieved)
    /\ LocalDay(c, w.retrieved) = LocalDay(c, started)
    /\ w.run = "expected"

Candidate ==
    [market |-> <<city, event.lead>>, day |-> LocalDay(city, started) + event.lead,
     weather |-> weather, event |-> event.retrieved, book |-> book[<<city, event.lead>>]]

\* The order book is read in a request of its own, after the event.
Collect ==
    /\ pc = "book"
    /\ Calibrated(city, weather)
    /\ candidates' = Append(candidates, Candidate)
    /\ pc' = "market" /\ event' = NoEvent
    /\ UNCHANGED <<clock, started, wake, city, cities, leads, weather, book,
                   log, shutdown>>

CityDone ==
    /\ pc = "market" /\ leads = {}
    /\ pc' = "city"
    /\ UNCHANGED <<clock, scan, wake, book, log, shutdown>>

Collected ==
    /\ pc = "city" /\ cities = {}
    /\ pc' = "emit"
    /\ UNCHANGED <<clock, scan, wake, book, log, shutdown>>
-----------------------------------------------------------------------------
\* Mutant: freshness is judged at the start of the scan.
FreshWhenCollected(k) ==
    /\ started - k.weather.retrieved <= MaxForecastAge
    /\ started - k.event <= MaxEventAge
    /\ started - k.book <= MaxBookAge

\* _check_freshness, at the time of the evaluation.
Fresh(k) ==
    /\ clock - k.weather.retrieved <= MaxForecastAge
    /\ clock - k.event <= MaxEventAge
    /\ clock - k.book <= MaxBookAge

Signal(k) == [market |-> k.market, day |-> k.day, weather |-> k.weather,
              book |-> k.book, generated |-> clock]

\* Refused by the policy, or accepted and lost because the log could not be
\* written.
Reject ==
    /\ pc = "emit" /\ candidates # <<>>
    /\ candidates' = Tail(candidates)
    /\ UNCHANGED <<clock, pc, started, wake, city, cities, leads, weather,
                   event, book, log, shutdown>>

Emit ==
    /\ pc = "emit" /\ candidates # <<>>
    /\ Fresh(Head(candidates))
    /\ Len(log) < MaxSignals
    /\ log' = Append(log, Signal(Head(candidates)))
    /\ candidates' = Tail(candidates)
    /\ UNCHANGED <<clock, pc, started, wake, city, cities, leads, weather,
                   event, book, shutdown>>

\* The wait starts when the scan is over.
EndScan ==
    /\ pc = "emit" /\ candidates = <<>>
    /\ pc' = "idle"
    /\ wake' = clock + ScanInterval
    /\ UNCHANGED <<clock, scan, book, log, shutdown>>

RequestShutdown ==
    /\ pc # "stopped" /\ ~shutdown
    /\ shutdown' = TRUE
    /\ UNCHANGED <<clock, scan, pc, wake, book, log>>

\* Mutant: the wait is not interrupted.
StopAfterWait ==
    /\ pc = "idle" /\ shutdown /\ clock >= wake
    /\ clock < MaxClock
    /\ pc' = "stopped"
    /\ UNCHANGED <<clock, scan, wake, book, log, shutdown>>

\* A request ends the wait at once.
Stop ==
    /\ pc = "idle" /\ shutdown
    /\ pc' = "stopped"
    /\ UNCHANGED <<clock, scan, wake, book, log, shutdown>>
-----------------------------------------------------------------------------
\* Time passes, not past the wake-up of a waiting loop and not past the
\* longest scan; an order book may change.
Tick ==
    /\ clock < MaxClock
    /\ IF pc = "idle" THEN clock < wake ELSE clock < started + MaxScan
    /\ pc # "stopped"
    /\ clock' = clock + 1
    /\ \E changed \in {{}, Markets} :
          book' = [m \in Markets |-> IF m \in changed THEN clock + 1 ELSE book[m]]
    /\ UNCHANGED <<scan, pc, wake, log, shutdown>>

\* The bound on the clock, or the end of the process.
Ended ==
    /\ pc = "stopped" \/ clock = MaxClock
    /\ UNCHANGED vars

ScanStep ==
    \/ CalibrationUnavailable
    \/ \E c \in Cities : SkipCity(c) \/ FetchWeather(c)
    \/ \E l \in Leads : SkipMarket(l) \/ FetchEvent(l)
    \/ SkipEvent \/ Collect \/ CityDone \/ Collected \/ Reject \/ Emit \/ EndScan

Next == StartScan \/ ScanStep \/ RequestShutdown \/ Stop \/ Tick \/ Ended

Spec == Init /\ [][Next]_vars

\* One sequential process whose reads all time out.
FairSpec == Spec /\ WF_vars(ScanStep \/ Stop)
-----------------------------------------------------------------------------
\* However long the scan took between its reads, a signal in the log was
\* made from a forecast of the calibrated run, retrieved in the decision
\* window of the day it was made for, and from an order book that was not
\* too old when the signal was generated.
SignalsAreGrounded ==
    \A i \in DOMAIN log :
        LET s == log[i] c == s.market[1]
        IN /\ s.weather.run = "expected"
           /\ InWindow(c, s.weather.retrieved)
           /\ LocalDay(c, s.weather.retrieved) + s.market[2] = s.day
           /\ s.generated - s.book <= MaxBookAge

\* A shutdown request lets the scan finish and ends the process, before the
\* wait is over.
ShutdownEnds == shutdown ~> pc = "stopped"
=============================================================================
