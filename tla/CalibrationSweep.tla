-------------------------- MODULE CalibrationSweep --------------------------
(***************************************************************************)
(* The historical calibration sweep (forecasting/calibration_sparse_sweep, *)
(* calibration_build, calibration_retry): for every day of a range it      *)
(* takes the observation and the forecasts of all lead days through an     *)
(* immutable HTTP cache, leaves out the records whose sources have a known *)
(* gap, and writes the dataset, its manifest and the report of the gaps.   *)
(* Requests are retried, and the whole sweep around them; a process that   *)
(* dies is started again by hand.                                          *)
(*                                                                         *)
(* One market.  A payload is abstracted to what its parser says of it:     *)
(* usable, an observation series with too little coverage, or malformed;   *)
(* two usable payloads of the same URL may differ.                         *)
(***************************************************************************)
EXTENDS Integers, FiniteSets, FiniteSetsExt, Optional

CONSTANTS
    LastDay,        \* days 1..LastDay may be swept
    MaxLead,        \* lead days 0..MaxLead (_HORIZONS)
    RequestMax,     \* --request-max-attempts
    SweepMax,       \* --max-attempts
    MaxRuns,        \* bound: times the operator starts the sweep
    MaxCrashes,     \* bound: times the process dies
    Torn

ASSUME SweepAssumption ==
    /\ {LastDay, RequestMax, SweepMax, MaxRuns} \subseteq Nat \ {0}
    /\ {MaxLead, MaxCrashes} \subseteq Nat

Horizons == 0..MaxLead
ASSUME NoLeadAssumption == None \notin Horizons
DecisionDays == (1 - MaxLead)..LastDay
CacheKeys == ({"observation"} \X (1..LastDay)) \cup ({"forecast"} \X DecisionDays)
Usable == {"one", "other"}

VARIABLES
    unavailable,    \* decision days in the unavailable-run evidence
    entry,          \* cache key -> [stage, payload]: the files of an entry
    step,           \* idle, day, get, parse, fetch, store or write
    offline,        \* --offline
    last,           \* last day of the range of this run
    attempt, try,   \* of the sweep and of the request
    day, todo,      \* the day being collected, and its keys still to get
    collected,      \* <<day, lead>> -> payloads of the records so far
    gaps,           \* exclusions: [day, lead], lead None for a whole day
    outputs,        \* records, manifest and report as on disk
    written,        \* writes of the outputs that are done
    runs, crashes,
    swept           \* history: reports of the sweeps that finished

sweepVars == <<unavailable, entry, step, offline, last, attempt, try, day, todo,
               collected, gaps, outputs, written, runs, crashes, swept>>

memory == <<offline, last, attempt, try, day, todo, collected, gaps, written>>
disk == <<unavailable, entry, outputs, swept>>

\* An entry is two files, each written to a temporary name first: nothing,
\* temporary payload, payload, temporary metadata, both.
Absent == [stage |-> 0, payload |-> None]

Files == <<"records", "manifest", "report">>

SweepInit ==
    /\ unavailable \in SUBSET DecisionDays
    /\ entry = [k \in CacheKeys |-> Absent]
    /\ step = "idle"
    /\ offline = FALSE
    /\ last = 1 /\ attempt = 0 /\ try = 0
    /\ day = 1 /\ todo = {}
    /\ collected = <<>> /\ gaps = {}
    /\ outputs = [f \in {"records", "manifest", "report"} |-> None]
    /\ written = 0
    /\ runs = 0 /\ crashes = 0
    /\ swept = {}
-----------------------------------------------------------------------------
MissingLeads(d) == {h \in Horizons : d - h \in unavailable}
AvailableLeads(d) == Horizons \ MissingLeads(d)

Chunk(d) ==
    {<<"observation", d>>} \cup {<<"forecast", d - h>> : h \in AvailableLeads(d)}

\* The observation first; then the forecasts, by decision day when none is
\* missing and by lead day otherwise.
NextKey ==
    LET days == {k[2] : k \in todo \ {<<"observation", day>>}} IN
    IF <<"observation", day>> \in todo THEN <<"observation", day>>
    ELSE <<"forecast", IF MissingLeads(day) = {} THEN Min(days) ELSE Max(days)>>

FreshAttempt ==
    /\ step' = "day"
    /\ day' = 1
    /\ todo' = {}
    /\ collected' = <<>>
    /\ gaps' = {}

StartSweep(l, off) ==
    /\ step = "idle" /\ runs < MaxRuns
    /\ runs' = runs + 1
    /\ last' = l /\ offline' = off
    /\ attempt' = 1 /\ try' = 0 /\ written' = 0
    /\ FreshAttempt
    /\ UNCHANGED <<disk, crashes>>

\* An exception the wrapper does not retry, or the last attempt.
Abort ==
    /\ step' = "idle"
    /\ UNCHANGED <<disk, memory, runs, crashes>>

RunGaps(d) == {[day |-> d, lead |-> h] : h \in MissingLeads(d)}

\* A day without any available run has no chunk, and its page is not read.
BeginDay ==
    /\ step = "day" /\ day <= last
    /\ IF AvailableLeads(day) = {}
       THEN /\ gaps' = gaps \cup RunGaps(day)
            /\ day' = day + 1
            /\ UNCHANGED <<step, todo>>
       ELSE /\ step' = "get"
            /\ todo' = Chunk(day)
            /\ UNCHANGED <<gaps, day>>
    /\ UNCHANGED <<disk, offline, last, attempt, try, collected, written, runs, crashes>>

\* Mutant: the gaps of its runs are reported on top.
DayGapsTwice(d) == {[day |-> d, lead |-> None]} \cup RunGaps(d)

\* A series with too little coverage leaves out the whole day, and only that:
\* gaps of its runs are not reported on top.
DayGaps(d) == {[day |-> d, lead |-> None]}

\* Mutant: an online run asks for every page again.
CachedOffline(k) == offline /\ entry[k].stage = 4

Cached(k) == entry[k].stage = 4

\* _load.
GetCached ==
    /\ step = "get" /\ todo # {}
    /\ Cached(NextKey)
    /\ step' = "parse"
    /\ UNCHANGED <<disk, memory, runs, crashes>>

\* One file without the other; not in the cache and offline.
GetFails ==
    /\ step = "get" /\ todo # {}
    /\ \/ entry[NextKey].stage \in {2, 3}
       \/ entry[NextKey].stage \in {0, 1} /\ offline
    /\ Abort

GetMiss ==
    /\ step = "get" /\ todo # {}
    /\ ~Cached(NextKey) /\ entry[NextKey].stage \notin {2, 3}
    /\ ~offline
    /\ step' = "fetch"
    /\ try' = 1
    /\ UNCHANGED <<disk, offline, last, attempt, day, todo, collected, gaps,
                   written, runs, crashes>>
-----------------------------------------------------------------------------
ParseUsable ==
    /\ step = "parse" /\ entry[NextKey].payload \in Usable
    /\ step' = "get"
    /\ todo' = todo \ {NextKey}
    /\ UNCHANGED <<disk, offline, last, attempt, try, day, collected, gaps,
                   written, runs, crashes>>

\* WeatherUndergroundHistoryError, for coverage only.
ParseShort ==
    /\ step = "parse" /\ entry[NextKey].payload = "short"
    /\ step' = "day"
    /\ gaps' = gaps \cup DayGaps(day)
    /\ day' = day + 1
    /\ todo' = {}
    /\ UNCHANGED <<disk, offline, last, attempt, try, collected, written, runs, crashes>>

ParseFails ==
    /\ step = "parse" /\ entry[NextKey].payload = "malformed"
    /\ Abort
-----------------------------------------------------------------------------
Payloads(k) ==
    Usable \cup {"malformed"} \cup (IF k[1] = "observation" THEN {"short"} ELSE {})

\* A response is frozen before it is parsed.  A temporary file left behind
\* by an earlier process is an error.
Respond ==
    /\ step = "fetch"
    /\ entry[NextKey].stage # 1
    /\ \E p \in Payloads(NextKey) :
          entry' = [entry EXCEPT ![NextKey] = [stage |-> 1, payload |-> p]]
    /\ step' = "store"
    /\ UNCHANGED <<unavailable, outputs, swept, memory, runs, crashes>>

RespondStale ==
    /\ step = "fetch"
    /\ entry[NextKey].stage = 1
    /\ Abort

Store ==
    /\ step = "store"
    /\ entry' = [entry EXCEPT ![NextKey].stage = @ + 1]
    /\ step' = IF entry[NextKey].stage = 3 THEN "parse" ELSE "store"
    /\ UNCHANGED <<unavailable, outputs, swept, memory, runs, crashes>>

\* Mutant: the attempt is not counted.
RetrySweepUncounted ==
    /\ FreshAttempt
    /\ UNCHANGED <<disk, offline, last, attempt, try, written, runs, crashes>>

\* run_with_retries: the sweep starts over.
RetrySweep ==
    /\ attempt < SweepMax
    /\ attempt' = attempt + 1
    /\ FreshAttempt
    /\ UNCHANGED <<disk, offline, last, try, written, runs, crashes>>

\* run_request_with_retries, around urlopen.
RetryRequest ==
    /\ step = "fetch"
    /\ try < RequestMax
    /\ try' = try + 1
    /\ UNCHANGED <<disk, step, offline, last, attempt, day, todo, collected,
                   gaps, written, runs, crashes>>

\* The last request fails, or the connection breaks while the body is read,
\* which is outside the inner retry.
TransportFails ==
    /\ step = "fetch"
    /\ RetrySweep \/ (attempt = SweepMax /\ Abort)

\* Not retryable: another HTTP status, a certificate that does not verify.
RequestRefused ==
    /\ step = "fetch"
    /\ Abort
-----------------------------------------------------------------------------
Record(d, h) == <<entry[<<"observation", d>>].payload, entry[<<"forecast", d - h>>].payload>>

EndDay ==
    /\ step = "get" /\ todo = {}
    /\ collected' = [r \in DOMAIN collected \cup ({day} \X AvailableLeads(day)) |->
                        IF r[1] = day THEN Record(r[1], r[2]) ELSE collected[r]]
    /\ gaps' = gaps \cup RunGaps(day)
    /\ day' = day + 1
    /\ step' = "day"
    /\ UNCHANGED <<disk, offline, last, attempt, try, todo, written, runs, crashes>>

Excluded(g) == IF g.lead = None THEN Cardinality(Horizons) ELSE 1

\* The check of CalibrationSparseReport.
AccountsAgree ==
    Cardinality(DOMAIN collected) + SumFunction([g \in gaps |-> Excluded(g)])
        = last * Cardinality(Horizons)

Report == [last |-> last, dataset |-> collected, gaps |-> gaps]

\* The manifest and the report identify the records by their hash.
Content(f) == IF f = "report" THEN Report ELSE collected

\* merge_calibration_datasets refuses to merge nothing.
EndSweep ==
    /\ step = "day" /\ day > last
    /\ DOMAIN collected # {} /\ AccountsAgree
    /\ step' = "write"
    /\ swept' = swept \cup {Report}
    /\ UNCHANGED <<unavailable, entry, outputs, memory, runs, crashes>>

EndEmpty ==
    /\ step = "day" /\ day > last
    /\ ~(DOMAIN collected # {} /\ AccountsAgree)
    /\ Abort

\* write_text truncates a file and then fills it.
WriteOutput ==
    /\ step = "write"
    /\ LET f == Files[written \div 2 + 1]
       IN outputs' = [outputs EXCEPT ![f] =
                         IF written % 2 = 0 THEN Torn ELSE Content(f)]
    /\ written' = written + 1
    /\ step' = IF written = 5 THEN "idle" ELSE "write"
    /\ UNCHANGED <<unavailable, entry, swept, offline, last, attempt, try,
                   day, todo, collected, gaps, runs, crashes>>

Crash ==
    /\ step # "idle" /\ crashes < MaxCrashes
    /\ crashes' = crashes + 1
    /\ step' = "idle"
    /\ UNCHANGED <<disk, memory, runs>>

\* Nobody starts it again.
Left == step = "idle" /\ runs = MaxRuns /\ UNCHANGED sweepVars

Step ==
    \/ BeginDay \/ GetCached \/ GetFails \/ GetMiss
    \/ ParseUsable \/ ParseShort \/ ParseFails
    \/ Respond \/ RespondStale \/ Store
    \/ RetryRequest \/ TransportFails \/ RequestRefused
    \/ EndDay \/ EndSweep \/ EndEmpty \/ WriteOutput

SweepNext ==
    \/ \E l \in 1..LastDay, off \in BOOLEAN : StartSweep(l, off)
    \/ Step
    \/ Crash
    \/ Left

SweepSpec == SweepInit /\ [][SweepNext]_sweepVars

\* One sequential process whose requests time out.
SweepFairSpec == SweepSpec /\ WF_sweepVars(Step)
-----------------------------------------------------------------------------
\* After whatever retries and restarts, when the days are through every
\* record of the range is collected or excluded, for its own reason: the
\* accounting check that guards the report never fails.
Accounted ==
    step = "day" /\ day > last =>
        /\ AccountsAgree
        /\ \A d \in 1..last :
              [day |-> d, lead |-> None] \notin gaps =>
                  \A h \in Horizons :
                      (<<d, h>> \in DOMAIN collected) # ([day |-> d, lead |-> h] \in gaps)
        /\ \A g \in gaps :
              IF g.lead = None THEN entry[<<"observation", g.day>>].payload = "short"
              ELSE g.day - g.lead \in unavailable

\* "All three comparisons must be byte-identical": sweeps of the same range,
\* online after any failures or offline, have the same dataset and report.
Reproducible ==
    \A r, s \in swept : r.last = s.last => r = s

\* Both retries are bounded: a run ends.
RunsEnd == step # "idle" ~> step = "idle"
=============================================================================
