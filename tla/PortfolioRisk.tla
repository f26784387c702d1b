--------------------------- MODULE PortfolioRisk ---------------------------
(***************************************************************************)
(* risk/portfolio.py: the decision on one new BUY, computed from a ledger, *)
(* its log and a valuation.  A scope is a record [event, cityDate, groups] *)
(* (groups holds all_correlation_groups); a valuation is                   *)
(*   [marks: position key -> [quantity, value, at], equity, at].           *)
(* Times are ticks of a clock, DayLength of them to a loss day.            *)
(***************************************************************************)
EXTENDS EventLog

CONSTANTS
  Policy,       \* PortfolioRiskPolicy
  DayLength

ASSUME PolicyAssumption ==
  Policy \in [total: Nat \ {0}, event: Nat \ {0}, cityDate: Nat \ {0}, group: Nat \ {0},
             positions: Nat \ {0}, dailyLoss: Nat \ {0}, drawdown: Nat \ {0},
             age: Nat \ {0}, tolerance: Nat]
ASSUME DayAssumption == DayLength \in Nat \ {0}

Day(t) == t \div DayLength
Positive(n) == IF n > 0 THEN n ELSE 0

(* _risk_scopes *)
ScopesIn(log) ==
  LET events == {log[n] : n \in {m \in DOMAIN log : log[m].kind = "scope"}} IN
  [k \in {e.of : e \in events} |-> (CHOOSE e \in events : e.of = k).data]

(* _exposure_by_position *)
ActiveBuys(L, k) ==
  {i \in Intents : Terms[i].key = k /\ IsBuy(i) /\ L.orders[i].state \notin Terminal \cup {"none"}}

ExposedKeys(L) == OpenKeys(L) \cup {k \in Keys : ActiveBuys(L, k) # {}}
ExposureOf(L, k) ==
  (IF k \in OpenKeys(L) THEN L.positions[k].cost ELSE 0)
  + SumFunction([i \in ActiveBuys(L, k) |-> L.orders[i].cash])
Exposure(L, keys) == SumFunction([k \in keys |-> ExposureOf(L, k)])

(* The registered positions of an event, of a city and date, of a group.    *)
OfEvent(scopes, event) == {k \in DOMAIN scopes : scopes[k].event = event}
OfCityDate(scopes, cityDate) == {k \in DOMAIN scopes : scopes[k].cityDate = cityDate}
OfGroup(scopes, group) == {k \in DOMAIN scopes : group \in scopes[k].groups}

(* _realized_pnl_today: the log is replayed, and the change of the realized *)
(* total is counted at each event of the day that is not in the future.     *)
RealizedTotal(L) == MapThenSumSet(LAMBDA k : L.positions[k].pnl, Keys)
RealizedToday(log, now) ==
  FoldLeft(LAMBDA r, e :
             LET L == Reduced(r.ledger, e) IN
             [ledger |-> L,
              sum |-> r.sum + IF e.at <= now /\ Day(e.at) = Day(now)
                              THEN RealizedTotal(L) - RealizedTotal(r.ledger) ELSE 0],
           [ledger |-> Empty, sum |-> 0], log).sum

(* _high_water_mark *)
HighWater(log, equity, now) ==
  Max({equity}
      \cup {log[n].data : n \in {m \in DOMAIN log : log[m].kind = "opened"}}
      \cup {log[n].data.equity : n \in {m \in DOMAIN log : log[m].kind = "valuation" /\ log[m].at <= now}})

(* _validate_valuation *)
OldOrEarly(t, now) == t > now + Policy.tolerance \/ now - t > Policy.age

ValuationError(L, v, now) ==
  IF OldOrEarly(v.at, now) THEN "stale_valuation"
  ELSE IF DOMAIN v.marks # OpenKeys(L) THEN "valuation_mismatch"
  ELSE IF \E k \in OpenKeys(L) : v.marks[k].quantity # L.positions[k].quantity THEN "valuation_mismatch"
  ELSE IF \E k \in OpenKeys(L) : OldOrEarly(v.marks[k].at, now) THEN "stale_valuation"
  ELSE IF v.equity # L.cash + MapThenSumSet(LAMBDA k : v.marks[k].value, OpenKeys(L)) THEN "valuation_mismatch"
  ELSE "none"

Unrealized(L, v) == MapThenSumSet(LAMBDA k : v.marks[k].value - L.positions[k].cost, OpenKeys(L))

(* evaluate_portfolio_risk, in the order of its checks. *)
RiskDecision(L, log, key, scope, cash, v, now) ==
  LET scopes == ScopesIn(log)
      exposed == ExposedKeys(L)
      Entered(keys) == Exposure(L, exposed \cap keys) + cash
      error == ValuationError(L, v, now)
  IN
  IF error # "none" THEN error
  ELSE IF ~(exposed \subseteq DOMAIN scopes) THEN "missing_scope"
  ELSE IF key \in exposed THEN "duplicate_exposure"
  ELSE IF Positive(-(RealizedToday(log, now) + Unrealized(L, v))) >= Policy.dailyLoss THEN "daily_loss"
  ELSE IF HighWater(log, v.equity, now) - v.equity >= Policy.drawdown THEN "drawdown"
  ELSE IF Cardinality(exposed) + 1 > Policy.positions THEN "max_open_positions"
  ELSE IF Entered(exposed) > Policy.total THEN "total_exposure"
  ELSE IF Entered(OfEvent(scopes, scope.event)) > Policy.event THEN "event_exposure"
  ELSE IF Entered(OfCityDate(scopes, scope.cityDate)) > Policy.cityDate THEN "city_date_exposure"
  ELSE IF \E g \in scope.groups : Entered(OfGroup(scopes, g)) > Policy.group THEN "correlation_exposure"
  ELSE "approved"

InvalidValuation == {"stale_valuation", "valuation_mismatch"}
=============================================================================
